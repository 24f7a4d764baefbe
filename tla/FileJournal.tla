----------------------------- MODULE FileJournal -----------------------------
(***************************************************************************)
(* The filesystem journal the daemon runs on, under one actor: one line of *)
(* text for a batch, appended and synced; replay decodes the file from the *)
(* start.  A write can be torn by a crash or an I/O error, and an error    *)
(* can come after the bytes are already in the file.                       *)
(*                                                                         *)
(* A line is what decoding makes of it: the batch it frames, or Garbage,   *)
(* no batch at all (base64 or JSON that does not decode; an empty batch is *)
(* never written).  Event <<n, i, k>> is the i-th of the k events of the   *)
(* n-th batch the actor tried to persist.                                  *)
(***************************************************************************)
EXTENDS Integers, Sequences, SequencesExt

CONSTANTS Sizes,       \* how many events a batch may have
          MaxBatches,  \* bound: batches tried in a behaviour
          MaxCrashes,  \* bound: crashes in a behaviour
          Faults       \* what can go wrong: "crash", "open", "write",
                       \* "sync", "read"

ASSUME FileJournalAssumption ==
  /\ Sizes \subseteq Nat
  /\ MaxBatches \in Nat /\ MaxCrashes \in Nat
  /\ Faults \subseteq {"crash", "open", "write", "sync", "read"}

VARIABLES
  file,     \* the complete lines of journal.jsonl
  torn,     \* there are bytes after the last newline
  phase,    \* the actor: "down", "idle", "writing", "syncing"
  state,    \* its state: the events it has folded
  batch,    \* the batch being persisted
  tried,    \* batches tried so far
  crashes,  \* crashes so far
  acked,    \* history: the events of every persist that returned Ok
  happened  \* history: the faults that have happened

vars == <<file, torn, phase, state, batch, tried, crashes, acked, happened>>

Garbage == <<>>

(* decode_after(path, 0): the batches of the lines before the first that   *)
(* does not decode; what follows the last newline is dropped.              *)
Bad(f) == {i \in DOMAIN f : f[i] = Garbage}
Decode(f) ==
  LET upTo[i \in 0 .. Len(f)] ==
        IF i = 0 THEN <<>>
        ELSE IF \E j \in Bad(f) : j <= i THEN upTo[i - 1]
        ELSE upTo[i - 1] \o f[i]
  IN  upTo[Len(f)]

(* Mutant: the file is opened without O_APPEND, and truncated.             *)
WithLineTruncating(f, tail, line) == <<line>>

(* What the file holds once a line has been written after its last byte.   *)
WithLine(f, tail, line) == Append(f, IF tail THEN Garbage ELSE line)

Init ==
  /\ file = <<>> /\ torn = FALSE
  /\ phase = "down" /\ state = <<>> /\ batch = <<>>
  /\ tried = 0 /\ crashes = 0
  /\ acked = {} /\ happened = {}

(* No snapshot is ever found, so recovery replays the whole file.          *)
Recover ==
  /\ phase = "down"
  /\ phase' = "idle"
  /\ state' = Decode(file)
  /\ UNCHANGED <<file, torn, batch, tried, crashes, acked, happened>>

(* A file that cannot be read is replayed as an empty one.                 *)
RecoverUnreadable ==
  /\ "read" \in Faults /\ file # <<>>
  /\ phase = "down"
  /\ phase' = "idle"
  /\ state' = <<>>
  /\ happened' = happened \cup {"read"}
  /\ UNCHANGED <<file, torn, batch, tried, crashes, acked>>

(* A command persists k events.                                            *)
Persist(k) ==
  /\ phase = "idle" /\ tried < MaxBatches
  /\ tried' = tried + 1
  /\ IF k = 0
     THEN UNCHANGED <<phase, batch>>
     ELSE /\ phase' = "writing"
          /\ batch' = [i \in 1 .. k |-> <<tried + 1, i, k>>]
  /\ UNCHANGED <<file, torn, state, crashes, acked, happened>>

(* Mutant: the refused events are folded.                                  *)
RefusedFolds(fault) ==
  /\ fault \in Faults
  /\ phase' = "idle" /\ batch' = <<>>
  /\ state' = state \o batch
  /\ happened' = happened \cup {fault}
  /\ UNCHANGED <<tried, crashes, acked>>

(* The error is returned: the actor keeps its state.                       *)
Refused(fault) ==
  /\ fault \in Faults
  /\ phase' = "idle" /\ batch' = <<>>
  /\ happened' = happened \cup {fault}
  /\ UNCHANGED <<state, tried, crashes, acked>>

(* The directory or the file cannot be opened.                             *)
OpenErr ==
  /\ phase = "writing"
  /\ Refused("open")
  /\ UNCHANGED <<file, torn>>

WriteAll ==
  /\ phase = "writing"
  /\ phase' = "syncing"
  /\ file' = WithLine(file, torn, batch)
  /\ torn' = FALSE
  /\ UNCHANGED <<state, batch, tried, crashes, acked, happened>>

(* Mutants: every event is a line of its own, so that the first may be     *)
(* written and the second not; and a failed write cuts the last line off.  *)
WriteErrPerEvent ==
  /\ phase = "writing"
  /\ Refused("write")
  /\ file' = WithLine(file, torn, SubSeq(batch, 1, 1))
  /\ torn' = FALSE
WriteErrRollsBack ==
  /\ phase = "writing"
  /\ Refused("write")
  /\ file' = SubSeq(file, 1, Len(file) - 1)
  /\ UNCHANGED torn

(* write_all fails after some bytes, or before the first.                  *)
WriteErr ==
  /\ phase = "writing"
  /\ Refused("write")
  /\ torn' \in {torn, TRUE}
  /\ UNCHANGED file

(* Ok: the events are folded and counted.                                  *)
SyncOk ==
  /\ phase = "syncing"
  /\ phase' = "idle" /\ batch' = <<>>
  /\ state' = state \o batch
  /\ acked' = acked \cup ToSet(batch)
  /\ UNCHANGED <<file, torn, tried, crashes, happened>>

SyncErr ==
  /\ phase = "syncing"
  /\ Refused("sync")
  /\ UNCHANGED <<file, torn>>

(* The process is killed: in mid-write, some bytes may be there.           *)
Crash ==
  /\ "crash" \in Faults /\ crashes < MaxCrashes
  /\ phase # "down"
  /\ phase' = "down" /\ state' = <<>> /\ batch' = <<>>
  /\ crashes' = crashes + 1
  /\ torn' \in IF phase = "writing" THEN {torn, TRUE} ELSE {torn}
  /\ happened' = happened \cup {"crash"}
  /\ UNCHANGED <<file, tried, acked>>

Next ==
  \/ Recover \/ RecoverUnreadable
  \/ \E k \in Sizes : Persist(k)
  \/ OpenErr \/ WriteAll \/ WriteErr \/ SyncOk \/ SyncErr
  \/ Crash

Spec == Init /\ [][Next]_vars

-----------------------------------------------------------------------------
(* Properties.                                                             *)

IsBatch(b) ==
  \E n \in 1 .. tried, k \in Sizes : b = [i \in 1 .. k |-> <<n, i, k>>]

TypeOK ==
  /\ \A i \in DOMAIN file : file[i] = Garbage \/ IsBatch(file[i])
  /\ torn \in BOOLEAN
  /\ phase \in {"down", "idle", "writing", "syncing"}
  /\ (phase \in {"writing", "syncing"}) = (batch # <<>>)
  /\ batch # <<>> => IsBatch(batch)

(* A batch is replayed whole or not at all, and batches in the order they  *)
(* were tried, whatever was torn (file_journal.rs, "must not be            *)
(* half-applied").                                                         *)
WholeBatches ==
  LET log == Decode(file) IN
  \A i \in 1 .. Len(log) :
    LET n == log[i][1]
        m == log[i][2]
        k == log[i][3]
    IN
    /\ m > 1 => i > 1 /\ log[i - 1] = <<n, m - 1, k>>
    /\ m < k => i < Len(log) /\ log[i + 1] = <<n, m + 1, k>>
    /\ m = 1 => \A j \in 1 .. i - 1 : log[j][1] < n

(* The state invariant of the file: the types, and whole batches.          *)
Inv == TypeOK /\ WholeBatches

(* While nothing has been written behind a torn line, every persist that   *)
(* returned Ok is replayed, through any crash and any error.               *)
AckedUntilGarbage ==
  (\A l \in 1 .. Len(file) : file[l] # Garbage) =>
    acked \subseteq ToSet(Decode(file))

(* With crashes alone, and nothing behind a torn line, a live actor holds  *)
(* exactly what a recovery would rebuild; only a batch whose Ok has not    *)
(* arrived may be in the file already.                                     *)
StateIsReplayed ==
  (/\ happened \subseteq {"crash", "open"}
   /\ \A l \in 1 .. Len(file) : file[l] # Garbage) =>
     /\ phase \in {"idle", "writing"} => state = Decode(file)
     /\ phase = "syncing" => state \o batch = Decode(file)

(* What one replay returned, every later replay returns again, in the same *)
(* places: sequence numbers are stable for the life of the log.            *)
ReplayIsStable == [][IsPrefix(Decode(file), Decode(file'))]_vars

(* Refuted: "a torn final write [...] drop[s] the entire partial batch on  *)
(* recovery" and nothing else.  The next append joins the torn bytes, and  *)
(* that line hides itself and every later one from replay.                 *)
AckedSurvive == acked \subseteq ToSet(Decode(file))

(* Refuted: "On failure the events are neither applied nor counted,        *)
(* keeping state consistent with what was durably written."                *)
StateMatchesFile == phase = "idle" => state = Decode(file)
=============================================================================
