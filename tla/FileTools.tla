----------------------------- MODULE FileTools -----------------------------
(***************************************************************************)
(* The runtime's tools on the files of one working directory: what each    *)
(* computes, and the steps in which it touches the disk.  An agent's run   *)
(* makes its calls one after the other, but a cancelled run finishes the   *)
(* call it is at while the next run makes its own.                         *)
(*                                                                         *)
(* A text is a sequence of words and line breaks.  Paths are listed in the *)
(* order in which a glob visits them.  A regex is a word, or BadRegex.     *)
(***************************************************************************)
EXTENDS Integers, Sequences, FiniteSets, SequencesExt, FiniteSetsExt

CONSTANTS Paths,      \* sequence of the paths there are
          Words,      \* what lines are made of
          Plans,      \* what a behaviour may do: texts, inputs, calls, overlap
          Kills,      \* the process may be killed
          Breaks,     \* writing to the disk, or running a shell, may fail
          Absent      \* no such file, or no such field in an input

NL       == "\n"
BadRegex == "["
PathSet  == ToSet(Paths)
Texts    == Seq(Words \cup {NL})

(* Inputs as the model may write them, a field left out or not.            *)
Number  == Nat \cup {Absent}
Path    == PathSet \cup {Absent}
Text    == Texts \cup {Absent}
Pattern == Words \cup {BadRegex, Absent}

Inputs ==
  [tool : {"read"}, path : Path, start : Number, end : Number]
  \cup [tool : {"write"}, path : Path, new : Text]
  \cup [tool : {"edit"}, path : Path, old : Text, new : Text]
  \cup [tool : {"replace"}, path : Path, regex : Pattern, start : Number,
         end : Number, new : Text]
  \cup [tool : {"bash"}, path : PathSet, new : Text]
  \cup [tool : {"grep"}, regex : Pattern, max : Nat]
  \cup [tool : {"glob", "list"}, of : {"all", Absent}, max : Nat]

ASSUME FileAssumption ==
  /\ Paths \in Seq(PathSet)
  /\ NL \notin Words /\ BadRegex \notin Words /\ Absent \notin Texts
  /\ Kills \in BOOLEAN /\ Breaks \in BOOLEAN
  /\ \A p \in Plans : /\ p.texts \subseteq Text /\ p.inputs \subseteq Inputs
                      /\ p.calls # {} /\ p.overlap \in BOOLEAN

VARIABLES
  plan,   \* the plan of this behaviour
  disk,   \* disk[p]: text of the file, or Absent
  phase,  \* phase[c]: "idle", "begun", "write", "fill", "done"
  input,  \* input[c]: the input of the call's tool
  held,   \* held[c]: what the call has computed so far
  at,     \* at[c]: the path a grep is at
  out,    \* out[c]: what the agent is told
  stale,  \* the calls of cancelled runs
  alive,  \* the runtime process runs
  before, \* history: the disk when the call began
  alone,  \* history: no other call ran while this one did
  writers \* history: writers[p] are the calls that changed p, a call for each change

toolVars ==
  <<plan, disk, phase, input, held, at, out, stale, alive, before, alone, writers>>

-----------------------------------------------------------------------------
(* Texts and lines.                                                        *)

(* str::lines: a break ends a line, and the last line needs none.          *)
Scanned(t) ==
  LET scan[i \in 0 .. Len(t)] ==
        IF i = 0 THEN [done |-> <<>>, line |-> <<>>]
        ELSE LET s == scan[i - 1] IN
             IF t[i] = NL THEN [done |-> Append(s.done, s.line), line |-> <<>>]
             ELSE [done |-> s.done, line |-> Append(s.line, t[i])]
  IN scan[Len(t)]

Lines(t) ==
  LET s == Scanned(t)
  IN IF s.line = <<>> THEN s.done ELSE Append(s.done, s.line)

Joined(ls) ==
  LET text[i \in 0 .. Len(ls)] ==
        IF i = 0 THEN <<>>
        ELSE IF i = 1 THEN ls[1] ELSE text[i - 1] \o <<NL>> \o ls[i]
  IN text[Len(ls)]

PlacesOf(old, t) == {i \in 1 .. Len(t) + 1 - Len(old) :
                     SubSeq(t, i, i + Len(old) - 1) = old}
Occurs(old, t) == PlacesOf(old, t) # {}

-----------------------------------------------------------------------------
(* What the tools compute, as [ok, text]; a range that starts after its    *)
(* end panics, and the panic is answered as an error.                      *)

Computed(t)  == [ok |-> TRUE, text |-> t]
Failure      == [ok |-> FALSE, text |-> <<>>]

Start(s, n)  == Min({IF s = 0 THEN 0 ELSE s - 1, n})
End(e, n)    == Min({e, n})

(* read_file: an end without a start is not looked at.                     *)
ReadRange(t, s, e) ==
  LET n == Len(Lines(t)) IN
  IF s = Absent THEN Computed(t)
  ELSE LET from == Start(s, n)
           to   == IF e = Absent THEN n ELSE End(e, n)
       IN IF from > to THEN Failure
          ELSE Computed(Joined(SubSeq(Lines(t), from + 1, to)))

EditFirst(t, old, new) ==
  IF ~Occurs(old, t) THEN Failure
  ELSE LET first == Min(PlacesOf(old, t))
       IN Computed(SubSeq(t, 1, first - 1) \o new
                   \o SubSeq(t, first + Len(old), Len(t)))

Replaced(t, w, new) ==
  LET text[i \in 0 .. Len(t)] ==
        IF i = 0 THEN <<>>
        ELSE text[i - 1] \o (IF t[i] = w THEN new ELSE <<t[i]>>)
  IN text[Len(t)]

ReplaceRegex(t, w, new) ==
  IF w = BadRegex THEN Failure ELSE Computed(Replaced(t, w, new))

(* splice, then join: the file's last break is lost.                       *)
ReplaceLines(t, s, e, new) ==
  LET ls   == Lines(t)
      from == Start(s, Len(ls))
      to   == End(e, Len(ls))
  IN IF from > to THEN Failure
     ELSE Computed(Joined(SubSeq(ls, 1, from) \o Lines(new)
                          \o SubSeq(ls, to + 1, Len(ls))))

(* The tools that read one file, and what they make of it.                 *)
Transformed(in, t) ==
  IF t = Absent THEN Failure
  ELSE CASE in.tool = "read"    -> ReadRange(t, in.start, in.end)
         [] in.tool = "edit"    -> EditFirst(t, in.old, in.new)
         [] in.tool = "replace" -> IF in.regex # Absent
                                   THEN ReplaceRegex(t, in.regex, in.new)
                                   ELSE ReplaceLines(t, in.start, in.end, in.new)

(* A file's matches are added, as <<path, line>>, up to the limit.         *)
Found(found, p, ls, w, most) ==
  LET seen[i \in 0 .. Len(ls)] ==
        IF i = 0 THEN found
        ELSE IF Len(seen[i - 1]) < most /\ Occurs(<<w>>, ls[i])
             THEN Append(seen[i - 1], <<p, i>>) ELSE seen[i - 1]
  IN seen[Len(ls)]

(* Mutant: the limit is looked at before a match is pushed.                *)
WithMatchesCapped(found, p, t, in) ==
  LET now == Found(found, p, Lines(t), in.regex, in.max)
  IN [found |-> now, full |-> Len(now) >= in.max]

(* A grep looks at the limit after each match: a limit of 0 is one of 1.   *)
Most(in) == IF in.max = 0 THEN 1 ELSE in.max

WithMatches(found, p, t, in) ==
  LET now == Found(found, p, Lines(t), in.regex, Most(in))
  IN [found |-> now, full |-> Len(now) >= Most(in)]

(* glob takes the first entries; list_files lists them all, sorted.        *)
Listed(in) ==
  LET there == SelectSeq(Paths, LAMBDA p : disk[p] # Absent)
  IN IF in.tool = "list" THEN there ELSE SubSeq(there, 1, Min({Len(there), in.max}))

-----------------------------------------------------------------------------
(* The agent's side of a call.                                             *)

(* Each client tool looks for its required fields in the input the model   *)
(* wrote; a line replacement needs both ends, a regex one neither.         *)
IsReadCall(in)    == in.tool = "read" /\ in.path # Absent
IsWriteCall(in)   == in.tool = "write" /\ Absent \notin {in.path, in.new}
IsEditCall(in)    == in.tool = "edit" /\ Absent \notin {in.path, in.old, in.new}
IsReplaceCall(in) == /\ in.tool = "replace" /\ Absent \notin {in.path, in.new}
                     /\ in.regex = Absent => Absent \notin {in.start, in.end}
IsBashCall(in)    == in.tool = "bash" /\ in.new # Absent
IsGrepCall(in)    == in.tool = "grep" /\ in.regex # Absent
IsGlobCall(in)    == in.tool = "glob" /\ in.of # Absent
IsListCall(in)    == in.tool = "list" /\ in.of # Absent

IsValid(in) ==
  \/ IsReadCall(in) \/ IsWriteCall(in) \/ IsEditCall(in) \/ IsReplaceCall(in)
  \/ IsBashCall(in) \/ IsGrepCall(in) \/ IsGlobCall(in) \/ IsListCall(in)

Running == {c \in DOMAIN phase : phase[c] \notin {"idle", "done"}}

Mutators == {"write", "edit", "replace"}

ToolsInit ==
  /\ plan \in Plans
  /\ disk \in [PathSet -> plan.texts]
  /\ phase = [c \in plan.calls |-> "idle"]
  /\ input \in [plan.calls -> plan.inputs]
  /\ held = [c \in plan.calls |-> <<>>] /\ at = [c \in plan.calls |-> 1]
  /\ out = [c \in plan.calls |-> [kind |-> "none"]]
  /\ stale = {} /\ alive = TRUE
  /\ before = [c \in plan.calls |-> disk]
  /\ alone = [c \in plan.calls |-> TRUE]
  /\ writers = [p \in PathSet |-> <<>>]

Changes(c, text) ==
  /\ disk' = [disk EXCEPT ![input[c].path] = text]
  /\ writers' = [writers EXCEPT ![input[c].path] = Append(@, c)]

ChangesNothing == UNCHANGED <<disk, writers>>

Told(c, ok, text) ==
  /\ phase' = [phase EXCEPT ![c] = "done"]
  /\ out' = [out EXCEPT ![c] = [kind |-> IF ok THEN "ok" ELSE "error", text |-> text]]

(* A run makes a call when its last one is over; input that does not fit   *)
(* the tool goes no further.                                               *)
Call(c) ==
  /\ phase[c] = "idle" /\ alive /\ Running \subseteq stale
  /\ IF IsValid(input[c])
     THEN phase' = [phase EXCEPT ![c] = "begun"] /\ UNCHANGED out
     ELSE Told(c, FALSE, <<>>)
  /\ before' = [before EXCEPT ![c] = disk]
  /\ alone' = [d \in DOMAIN alone |->
                 IF d \in Running \cup {c} THEN alone[d] /\ Running = {} ELSE alone[d]]
  /\ ChangesNothing /\ UNCHANGED <<plan, input, held, at, stale, alive>>

(* The run of a call is cancelled; the tool is not told.                   *)
Cancel(c) ==
  /\ plan.overlap /\ c \in Running /\ c \notin stale
  /\ stale' = stale \cup {c}
  /\ ChangesNothing
  /\ UNCHANGED <<plan, phase, input, held, at, out, alive, before, alone>>

-----------------------------------------------------------------------------
(* The runtime's side.                                                     *)

At(c, p, tools) == phase[c] = p /\ alive /\ input[c].tool \in tools

(* The whole file is read and the outcome computed; a read is over.        *)
ReadFile(c) ==
  /\ At(c, "begun", {"read", "edit", "replace"})
  /\ LET got == Transformed(input[c], disk[input[c].path]) IN
     IF got.ok /\ input[c].tool # "read"
     THEN /\ held' = [held EXCEPT ![c] = got.text]
          /\ phase' = [phase EXCEPT ![c] = "write"] /\ UNCHANGED out
     ELSE Told(c, got.ok, got.text) /\ UNCHANGED held
  /\ ChangesNothing /\ UNCHANGED <<plan, input, at, stale, alive, before, alone>>

(* write_file has its text from the input; a directory the path needs may  *)
(* not be made.                                                            *)
WriteFile(c) ==
  /\ At(c, "begun", {"write"})
  /\ \/ /\ held' = [held EXCEPT ![c] = input[c].new]
        /\ phase' = [phase EXCEPT ![c] = "write"] /\ UNCHANGED out
     \/ Breaks /\ Told(c, FALSE, <<>>) /\ UNCHANGED held
  /\ ChangesNothing /\ UNCHANGED <<plan, input, at, stale, alive, before, alone>>

(* Mutant: the answer goes out before the text does.                       *)
TruncateAnswering(c) ==
  /\ At(c, "write", Mutators)
  /\ Changes(c, <<>>) /\ Told(c, TRUE, <<>>)
  /\ UNCHANGED <<plan, input, held, at, stale, alive, before, alone>>

(* fs::write: the file is created or emptied, or cannot be opened ...      *)
Truncate(c) ==
  /\ At(c, "write", Mutators)
  /\ \/ Changes(c, <<>>) /\ phase' = [phase EXCEPT ![c] = "fill"] /\ UNCHANGED out
     \/ Breaks /\ ChangesNothing /\ Told(c, FALSE, <<>>)
  /\ UNCHANGED <<plan, input, held, at, stale, alive, before, alone>>

(* ... and the text put over what is there by now, or only the beginning   *)
(* of it, and then the call is answered with the error.                    *)
Over(t, old) == t \o SubSeq(old, Len(t) + 1, Len(old))

Fill(c) ==
  /\ At(c, "fill", Mutators)
  /\ LET old == disk[input[c].path] IN
     \/ Changes(c, Over(held[c], old)) /\ Told(c, TRUE, <<>>)
     \/ /\ Breaks /\ Told(c, FALSE, <<>>)
        /\ \E k \in 1 .. Len(held[c]) : Changes(c, Over(SubSeq(held[c], 1, k - 1), old))
  /\ UNCHANGED <<plan, input, held, at, stale, alive, before, alone>>

(* A shell command may write; its output is the answer, its exit code is   *)
(* not passed on.  The shell may not start, or not be waited for to its    *)
(* end, and then its command has written or not.                           *)
RunBash(c) ==
  /\ At(c, "begun", {"bash"})
  /\ \/ /\ Changes(c, input[c].new) /\ held' = [held EXCEPT ![c] = input[c].new]
        /\ \E ok \in BOOLEAN : (ok \/ Breaks) /\ Told(c, ok, <<>>)
     \/ Breaks /\ ChangesNothing /\ Told(c, FALSE, <<>>) /\ UNCHANGED held
  /\ UNCHANGED <<plan, input, at, stale, alive, before, alone>>

(* A grep reads file after file, and passes over what it cannot read.      *)
GrepFile(c) ==
  /\ At(c, "begun", {"grep"})
  /\ input[c].regex # BadRegex /\ at[c] <= Len(Paths)
  /\ LET p   == Paths[at[c]]
         got == IF disk[p] = Absent THEN [found |-> held[c], full |-> FALSE]
                ELSE WithMatches(held[c], p, disk[p], input[c])
     IN /\ held' = [held EXCEPT ![c] = got.found]
        /\ at' = [at EXCEPT ![c] = IF got.full THEN Len(Paths) + 1 ELSE @ + 1]
  /\ ChangesNothing /\ UNCHANGED <<plan, phase, input, out, stale, alive, before, alone>>

GrepEnds(c) ==
  /\ At(c, "begun", {"grep"})
  /\ input[c].regex = BadRegex \/ at[c] > Len(Paths)
  /\ Told(c, input[c].regex # BadRegex, held[c])
  /\ ChangesNothing /\ UNCHANGED <<plan, input, held, at, stale, alive, before, alone>>

ListFiles(c) ==
  /\ At(c, "begun", {"list", "glob"})
  /\ Told(c, TRUE, Listed(input[c]))
  /\ ChangesNothing /\ UNCHANGED <<plan, input, held, at, stale, alive, before, alone>>

(* The process is killed: no call goes on, none is answered.               *)
Kill ==
  /\ Kills /\ alive
  /\ alive' = FALSE
  /\ ChangesNothing /\ UNCHANGED <<plan, phase, input, held, at, out, stale, before, alone>>

Tool(c) == \/ ReadFile(c) \/ WriteFile(c) \/ Truncate(c) \/ Fill(c)
           \/ RunBash(c) \/ GrepFile(c) \/ GrepEnds(c) \/ ListFiles(c)

ToolsNext == (\E c \in DOMAIN phase : Call(c) \/ Cancel(c) \/ Tool(c)) \/ Kill

ToolsSpec == ToolsInit /\ [][ToolsNext]_toolVars

-----------------------------------------------------------------------------
(* Properties.                                                             *)

ToolsTypeOK ==
  /\ plan \in Plans /\ alive \in BOOLEAN
  /\ disk \in [PathSet -> Texts \cup {Absent}]
  /\ DOMAIN phase = plan.calls
  /\ \A c \in plan.calls :
       /\ phase[c] \in {"idle", "begun", "write", "fill", "done"}
       /\ (phase[c] = "done") = (out[c].kind \in {"ok", "error"})
       /\ at[c] \in 1 .. Len(Paths) + 1 /\ alone[c] \in BOOLEAN
       /\ phase[c] \in {"write", "fill"} => held[c] \in Texts
  /\ stale \subseteq plan.calls /\ writers \in [PathSet -> Seq(plan.calls)]

(* What the tools' descriptions promise, on the lines and words of the     *)
(* file rather than on positions in a buffer.  "1-based line range".       *)
InRange(i, s, e) == i >= s /\ (e = Absent \/ i <= e)

ReadAsPromised(in, t, o) ==
  IF in.start = Absent THEN o.kind = "ok" /\ o.text = t
  ELSE LET kept == {i \in DOMAIN Lines(t) : InRange(i, in.start, in.end)} IN
       o.kind = "ok" =>
         o.text = Joined([k \in 1 .. Cardinality(kept) |->
                            Lines(t)[k + (IF kept = {} THEN 0 ELSE Min(kept) - 1)]])

(* "the first occurrence of old_text": what is before it does not hold it, *)
(* what is after is as it was.                                             *)
EditedAsPromised(in, t, u) ==
  \E i \in 0 .. Len(t) :
    /\ SubSeq(t, i + 1, i + Len(in.old)) = in.old
    /\ ~\E j \in 0 .. i - 1 : SubSeq(t, j + 1, j + Len(in.old)) = in.old
    /\ u = SubSeq(t, 1, i) \o in.new \o SubSeq(t, i + Len(in.old) + 1, Len(t))

(* "by regex pattern or line range".  A word that matches has the          *)
(* replacement in its place, any other is there itself, one after the      *)
(* other: EndOf is where the i-th one ends.                                *)
EndOf(t, w, new, i) ==
  i + Cardinality({j \in 1 .. i : t[j] = w}) * (Len(new) - 1)

IsReplacedIn(u, t, w, new) ==
  /\ Len(u) = EndOf(t, w, new, Len(t))
  /\ \A i \in 1 .. Len(t) :
       SubSeq(u, EndOf(t, w, new, i - 1) + 1, EndOf(t, w, new, i))
         = IF t[i] = w THEN new ELSE <<t[i]>>

(* The lines before the range, the lines of the replacement, the lines     *)
(* after the range, each at its place and no other line; of the text's     *)
(* lines an empty last one may be lost.                                    *)
HasLine(u, i, l) == IF i \in DOMAIN Lines(u) THEN Lines(u)[i] = l ELSE l = <<>>

IsSplicedIn(u, t, s, e, new) ==
  LET old    == Lines(t)
      kept   == Cardinality({i \in DOMAIN old : i < s})
      after  == {i \in DOMAIN old : i > e}
      size   == kept + Len(Lines(new)) + Cardinality(after)
  IN /\ Len(Lines(u)) \in {size, size - 1}
     /\ \A i \in DOMAIN old : i < s => HasLine(u, i, old[i])
     /\ \A i \in DOMAIN Lines(new) : HasLine(u, kept + i, Lines(new)[i])
     /\ \A i \in after : HasLine(u, size - (Len(old) - i), old[i])

ReplacedAsPromised(in, t, u) ==
  IF in.regex # Absent THEN IsReplacedIn(u, t, in.regex, in.new)
  ELSE IsSplicedIn(u, t, in.start, in.end, in.new)

(* The matches there are, as <<path's index, line>>.                       *)
Precedes(m, n) == m[1] < n[1] \/ (m[1] = n[1] /\ m[2] < n[2])

MatchesOf(d, w) ==
  UNION {{<<i, l>> : l \in {l \in DOMAIN Lines(d[Paths[i]]) :
                              Occurs(<<w>>, Lines(d[Paths[i]])[l])}} :
           i \in {i \in DOMAIN Paths : d[Paths[i]] # Absent}}

(* They are listed in the order of paths and lines, the first in any case  *)
(* and no more than the limit; what is not listed comes after all that is, *)
(* and the limit is used up.                                               *)
GreppedAsPromised(in, d, o) ==
  LET all == MatchesOf(d, in.regex)
  IN o.kind = "ok" =>
       /\ Len(o.text) <= in.max \/ Len(o.text) = 1
       /\ \E f \in [DOMAIN o.text -> all] :
            /\ \A k \in DOMAIN o.text : o.text[k] = <<Paths[f[k][1]], f[k][2]>>
            /\ \A k, n \in DOMAIN o.text : k < n => Precedes(f[k], f[n])
            /\ \A m \in all :
                 \/ \E k \in DOMAIN o.text : f[k] = m
                 \/ /\ o.text # <<>> /\ Len(o.text) >= in.max
                    /\ \A k \in DOMAIN o.text : Precedes(f[k], m)

(* What a call was to make of its file.                                    *)
WrittenAsPromised(in, t, u) ==
  /\ in.tool \in {"write", "bash"} => u = in.new
  /\ in.tool = "edit" => EditedAsPromised(in, t, u)
  /\ in.tool = "replace" => ReplacedAsPromised(in, t, u)

(* What the descriptions say of the call that now ends: what it did to the *)
(* disk, and told the agent, of the disk it began with.  One that is       *)
(* answered with success has written what it was to write; one that is     *)
(* answered with an error has left the disk alone, or the beginning of     *)
(* that text in place of the file.  No call changes any other file.        *)
EndsAsPromised(c) ==
  LET in  == input[c]
      old == before[c]
      o   == out'[c]
  IN /\ \A p \in PathSet :
          disk'[p] = old[p] \/ (in.tool \in Mutators \cup {"bash"} /\ p = in.path)
     /\ in.tool \in Mutators \cup {"bash"} =>
          \/ o.kind = "ok" /\ WrittenAsPromised(in, old[in.path], disk'[in.path])
          \/ /\ o.kind = "error"
             /\ \/ disk'[in.path] = old[in.path]
                \/ /\ WrittenAsPromised(in, old[in.path], held'[c])
                   /\ disk'[in.path] # Absent /\ IsPrefix(disk'[in.path], held'[c])
     /\ in.tool = "read" /\ old[in.path] # Absent
          => ReadAsPromised(in, old[in.path], o)
     /\ in.tool = "grep" => GreppedAsPromised(in, old, o)

(* A call that ran with no other beside it ends as its tool's description  *)
(* says, also when the disk fails it half-way.                             *)
Finishes(c) == phase[c] # "done" /\ phase'[c] = "done"
AloneIsExact ==
  [][\A c \in DOMAIN phase :
       Finishes(c) /\ alone[c] /\ IsValid(input[c]) => EndsAsPromised(c)]_toolVars

(* At any time, after a kill as well: a file that no call has changed is   *)
(* what it was.  In any other, every place is as one of the calls that     *)
(* changed it has it in its text.  If the last of them was answered with   *)
(* success, its text stands there whole - longer texts that were being     *)
(* written beside it may stick out.  If it ran alone, the file is the      *)
(* beginning of its text: all of it, if it was answered with success.      *)
IsWhole(p) ==
  LET ws == writers[p]
      c  == ws[Len(ws)]
  IN IF ws = <<>> THEN \A d \in DOMAIN phase : disk[p] = before[d][p]
     ELSE /\ disk[p] # Absent
          /\ \A i \in DOMAIN disk[p] : \E k \in DOMAIN ws :
               i \in DOMAIN held[ws[k]] /\ held[ws[k]][i] = disk[p][i]
          /\ out[c].kind = "ok" => IsPrefix(held[c], disk[p])
          /\ alone[c] => IsPrefix(disk[p], held[c])

(* The state invariant of the disk: the types, and whole files.            *)
FilesInv == ToolsTypeOK /\ \A p \in PathSet : IsWhole(p)

-----------------------------------------------------------------------------
(* Refuted.                                                                *)

(* A file is whole, its process dead or not: a kill between the two steps  *)
(* of fs::write leaves it empty.                                           *)
KilledIsWhole ==
  ~alive => \A p \in PathSet :
    disk[p] \in plan.texts \cup {held[c] : c \in ToSet(writers[p])}

(* An error says that nothing was done: the write may fail once the file   *)
(* is empty.                                                               *)
ErrorIsHarmless ==
  [][\A c \in DOMAIN phase :
       Finishes(c) /\ alone[c] /\ out'[c].kind = "error" => disk' = before[c]]_toolVars

(* Whatever two overlapping calls leave, each of them meant it, or it was  *)
(* there before: neither lost updates nor mixtures.                        *)
OverlapIsSerial ==
  alive /\ Running = {} =>
    \A c, d \in DOMAIN phase :
      /\ c # d /\ input[c].tool = "edit" /\ input[d].tool = "edit"
      /\ input[c].path = input[d].path
      /\ out[c].kind = "ok" /\ out[d].kind = "ok"
      => Occurs(input[c].new, disk[input[c].path])
=============================================================================
