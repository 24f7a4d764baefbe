---------------------------- MODULE RuntimeLink ----------------------------
(***************************************************************************)
(* Tool calls over one link between an executor and an october-runtime     *)
(* process: SocketRuntimeTransport on one side, the runtime's message loop *)
(* on the other, two ordered streams of frames between them.  Any number   *)
(* of callers invoke and cancel concurrently; a reader task hands answers  *)
(* to waiting callers.  The link may break and the process may die at any  *)
(* moment.                                                                 *)
(*                                                                         *)
(* Calls are told apart by their ids, which are fresh.  What a tool does   *)
(* is not looked at, only whether it runs; the tools in Blocking run on    *)
(* threads that nothing interrupts, the others are awaited child processes *)
(* that die with their task.                                               *)
(***************************************************************************)
EXTENDS Integers, Sequences

CONSTANTS Calls,      \* call ids
          Blocking,   \* calls of tools that run in spawn_blocking
          MaxCancels, \* bound: cancels
          Faults      \* what may break: "link", "runtime"

ASSUME LinkAssumption ==
  /\ {"reading", "ended"} \cap Calls = {} /\ Blocking \subseteq Calls
  /\ MaxCancels \in Nat
  /\ Faults \subseteq {"link", "runtime"}

VARIABLES
  caller,    \* caller[c]: where invoke(c) is
  answer,    \* answer[c]: what it returned, or "none"
  slot,      \* slot[c]: what its oneshot holds, or "none"
  pending,   \* the calls with a sender in the pending map
  reader,    \* the transport's reader task
  link,      \* "up" or "down"
  down, up,  \* frames under way to the runtime, and from it
  loop,      \* run_loop: "reading", the call it is about to enter, "ended"
  task,      \* task[c]: the spawned task of a call
  aborted,   \* the calls whose task was told to stop
  result,    \* result[c]: what the tool returned
  work,      \* work[c]: the tool itself
  in_flight, \* the calls with an abort handle in the map
  cancels    \* cancels so far

vars == <<caller, answer, slot, pending, reader, link, down, up, loop, task,
          aborted, result, work, in_flight, cancels>>

callers == <<caller, answer, slot>>
runtime == <<loop, task, aborted, result, work, in_flight>>

Results == {"ok", "failed"}
Errors  == {"cancelled", "Disconnected", "SendFailed"}

Init ==
  /\ caller = [c \in Calls |-> "idle"]
  /\ answer = [c \in Calls |-> "none"] /\ slot = [c \in Calls |-> "none"]
  /\ pending = {} /\ reader = "off"
  /\ link = "up" /\ down = <<>> /\ up = <<>>
  /\ loop = "reading" /\ task = [c \in Calls |-> "none"] /\ aborted = {}
  /\ result = [c \in Calls |-> "none"] /\ work = [c \in Calls |-> "none"]
  /\ in_flight = {} /\ cancels = 0

Registered == reader \in {"reading", "draining", "drained"}

-----------------------------------------------------------------------------
(* The executor's end.                                                     *)

(* The runtime said it is ready; its transport is built and registered.    *)
Register ==
  /\ reader = "off" /\ link = "up"
  /\ reader' = "reading"
  /\ UNCHANGED <<callers, pending, link, down, up, runtime, cancels>>

(* invoke: the sender goes into the map ...                                *)
Invoke(c) ==
  /\ caller[c] = "idle" /\ reader # "off"
  /\ pending' = pending \cup {c}
  /\ caller' = [caller EXCEPT ![c] = "send"]
  /\ UNCHANGED <<answer, slot, reader, link, down, up, runtime, cancels>>

(* A frame for the runtime.  Once the reader has seen the stream's end the *)
(* sink refuses it; before that a broken link may swallow it.              *)
Written(frame) ==
  \/ link = "up" /\ down' = Append(down, frame)
  \/ link = "down" /\ reader = "reading" /\ UNCHANGED down
Refused == link = "down" /\ UNCHANGED down

(* ... then the frame is sent ...                                          *)
Send(c) ==
  /\ caller[c] = "send"
  /\ \/ Written([type |-> "ToolCall", call |-> c])
        /\ caller' = [caller EXCEPT ![c] = "wait"]
     \/ Refused /\ caller' = [caller EXCEPT ![c] = "undo"]
  /\ UNCHANGED <<answer, slot, pending, reader, link, up, runtime, cancels>>

(* Mutant: a call that could not be sent waits for its answer.             *)
UndoSilently(c) ==
  /\ caller[c] = "undo"
  /\ pending' = pending \ {c}
  /\ caller' = [caller EXCEPT ![c] = "wait"]
  /\ UNCHANGED <<answer, slot, reader, link, down, up, runtime, cancels>>

(* ... and taken back when it could not be.                                *)
Undo(c) ==
  /\ caller[c] = "undo"
  /\ pending' = pending \ {c}
  /\ caller' = [caller EXCEPT ![c] = "done"]
  /\ answer' = [answer EXCEPT ![c] = "SendFailed"]
  /\ UNCHANGED <<slot, reader, link, down, up, runtime, cancels>>

Return(c) ==
  /\ caller[c] = "wait" /\ slot[c] # "none"
  /\ caller' = [caller EXCEPT ![c] = "done"]
  /\ answer' = [answer EXCEPT ![c] = slot[c]]
  /\ UNCHANGED <<slot, pending, reader, link, down, up, runtime, cancels>>

(* cancel: a frame, and no trace of it on this side.                       *)
Cancel(c) ==
  /\ cancels < MaxCancels /\ reader # "off"
  /\ cancels' = cancels + 1
  /\ Written([type |-> "CancelCall", call |-> c]) \/ Refused
  /\ UNCHANGED <<callers, pending, reader, link, up, runtime>>

(* The reader hands a response to the sender it takes from the map; a      *)
(* response nobody waits for is dropped.                                   *)
ReadResponse ==
  /\ reader = "reading" /\ up # <<>>
  /\ up' = Tail(up)
  /\ LET c == Head(up).call IN
     /\ slot' = [slot EXCEPT ![c] = IF c \in pending THEN Head(up).result ELSE @]
     /\ pending' = pending \ {c}
  /\ UNCHANGED <<caller, answer, reader, link, down, runtime, cancels>>

(* The stream's end ...                                                    *)
ReaderEnds ==
  /\ reader = "reading" /\ link = "down" /\ up = <<>>
  /\ reader' = "draining"
  /\ UNCHANGED <<callers, pending, link, down, up, runtime, cancels>>

(* Mutant: the map is dropped with the reader's handle on it.              *)
DrainNothing ==
  /\ reader = "draining"
  /\ reader' = "drained"
  /\ UNCHANGED <<callers, pending, link, down, up, runtime, cancels>>

(* ... fails every call in the map ...                                     *)
Drain ==
  /\ reader = "draining"
  /\ slot' = [c \in Calls |-> IF c \in pending THEN "Disconnected" ELSE slot[c]]
  /\ pending' = {}
  /\ reader' = "drained"
  /\ UNCHANGED <<caller, answer, link, down, up, runtime, cancels>>

(* ... and has the transport taken out of the registry.                    *)
Close ==
  /\ reader = "drained"
  /\ reader' = "closed"
  /\ UNCHANGED <<callers, pending, link, down, up, runtime, cancels>>

Reader == ReadResponse \/ ReaderEnds \/ Drain \/ Close

-----------------------------------------------------------------------------
(* The runtime's end.                                                      *)

Reading(type) == loop = "reading" /\ down # <<>> /\ Head(down).type = type

(* A response; on a broken link it is lost.                                *)
Responded(c, r) ==
  up' = IF link = "up" THEN Append(up, [call |-> c, result |-> r]) ELSE up

(* Mutant: the handle is left for the task to enter.                       *)
LoopToolCallDetached ==
  /\ Reading("ToolCall")
  /\ down' = Tail(down)
  /\ LET c == Head(down).call IN
     /\ task' = [task EXCEPT ![c] = "work"]
     /\ work' = [work EXCEPT ![c] = "running"]
  /\ UNCHANGED <<callers, pending, reader, link, up, loop, aborted, result,
                 in_flight, cancels>>

(* A call is spawned as a task ...                                         *)
LoopToolCall ==
  /\ Reading("ToolCall")
  /\ down' = Tail(down)
  /\ LET c == Head(down).call IN
     /\ task' = [task EXCEPT ![c] = "work"]
     /\ work' = [work EXCEPT ![c] = "running"]
     /\ loop' = c
  /\ UNCHANGED <<callers, pending, reader, link, up, aborted, result,
                 in_flight, cancels>>

(* ... and then entered into the map.                                      *)
LoopEnters ==
  /\ loop \in Calls
  /\ in_flight' = in_flight \cup {loop}
  /\ loop' = "reading"
  /\ UNCHANGED <<callers, pending, reader, link, down, up, task, aborted,
                 result, work, cancels>>

(* A cancel aborts the task it finds, and answers in any case.             *)
LoopCancel ==
  /\ Reading("CancelCall")
  /\ down' = Tail(down)
  /\ LET c == Head(down).call IN
     /\ aborted' = IF c \in in_flight THEN aborted \cup {c} ELSE aborted
     /\ in_flight' = in_flight \ {c}
     /\ Responded(c, "cancelled")
  /\ UNCHANGED <<callers, pending, reader, link, loop, task, result, work, cancels>>

(* The tool ends by itself, well or not.                                   *)
ToolEnds(c) ==
  /\ work[c] = "running"
  /\ work' = [work EXCEPT ![c] = "done"]
  /\ \/ /\ task[c] = "work"
        /\ \E r \in Results : result' = [result EXCEPT ![c] = r]
        /\ task' = [task EXCEPT ![c] = "respond"]
     \/ task[c] # "work" /\ UNCHANGED <<result, task>>
  /\ UNCHANGED <<callers, pending, reader, link, down, up, loop, aborted,
                 in_flight, cancels>>

Respond(c) ==
  /\ task[c] = "respond"
  /\ Responded(c, result[c])
  /\ task' = [task EXCEPT ![c] = "forget"]
  /\ UNCHANGED <<callers, pending, reader, link, down, loop, aborted, result,
                 work, in_flight, cancels>>

Forget(c) ==
  /\ task[c] = "forget"
  /\ in_flight' = in_flight \ {c}
  /\ task' = [task EXCEPT ![c] = "over"]
  /\ UNCHANGED <<callers, pending, reader, link, down, up, loop, aborted,
                 result, work, cancels>>

(* An aborted task stops where it awaits next; a tool it was awaiting as a *)
(* child process is killed, one on a blocking thread goes on.              *)
Killed(cs) ==
  [c \in Calls |-> IF c \in cs /\ work[c] = "running" THEN "killed" ELSE work[c]]

TaskStops(c) ==
  /\ c \in aborted /\ task[c] \in {"work", "respond", "forget"}
  /\ task' = [task EXCEPT ![c] = "over"]
  /\ work' = Killed({c} \ Blocking)
  /\ UNCHANGED <<callers, pending, reader, link, down, up, loop, aborted,
                 result, in_flight, cancels>>

(* The loop has read all there was on a broken link; the process ends its  *)
(* tasks, waits for its blocking threads, and exits.                       *)
TasksEnd ==
  task' = [c \in Calls |-> IF task[c] = "none" THEN "none" ELSE "over"]

LoopEnds ==
  /\ loop = "reading" /\ link = "down" /\ down = <<>>
  /\ loop' = "ended"
  /\ TasksEnd
  /\ work' = Killed(Calls \ Blocking)
  /\ UNCHANGED <<callers, pending, reader, link, down, up, aborted, result,
                 in_flight, cancels>>

Loop == LoopToolCall \/ LoopEnters \/ LoopCancel \/ LoopEnds
TaskStep(c) == Respond(c) \/ Forget(c) \/ TaskStops(c)

-----------------------------------------------------------------------------
(* Faults.                                                                 *)

Prefixes(s) == {SubSeq(s, 1, k) : k \in 0 .. Len(s)}

LinkBreaks ==
  /\ "link" \in Faults /\ link = "up" /\ reader # "off"
  /\ link' = "down"
  /\ up' \in Prefixes(up) /\ down' \in Prefixes(down)
  /\ UNCHANGED <<callers, pending, reader, runtime, cancels>>

(* The process is killed, with everything it runs.                         *)
RuntimeDies ==
  /\ "runtime" \in Faults /\ loop # "ended" /\ reader # "off"
  /\ loop' = "ended" /\ link' = "down"
  /\ up' \in Prefixes(up) /\ down' = <<>>
  /\ TasksEnd
  /\ work' = Killed(Calls)
  /\ UNCHANGED <<callers, pending, reader, aborted, result, in_flight, cancels>>

-----------------------------------------------------------------------------
CallerStep(c) == Send(c) \/ Undo(c) \/ Return(c)

LinkStep ==
  \/ Register
  \/ \E c \in Calls : CallerStep(c) \/ ToolEnds(c) \/ TaskStep(c)
  \/ Reader \/ Loop
  \/ LinkBreaks \/ RuntimeDies

Next == LinkStep \/ \E c \in Calls : Invoke(c) \/ Cancel(c)

Spec == Init /\ [][Next]_vars

(* Tasks are scheduled, and a tool ends some day; nobody has to invoke or  *)
(* cancel, and nothing has to break.                                       *)
LinkFairness ==
  /\ \A c \in Calls : WF_vars(CallerStep(c)) /\ WF_vars(ToolEnds(c))
                      /\ WF_vars(TaskStep(c))
  /\ WF_vars(Reader) /\ WF_vars(Loop)

FairSpec == Spec /\ LinkFairness

-----------------------------------------------------------------------------
(* Properties.                                                             *)

Frame == [type : {"ToolCall", "CancelCall"}, call : Calls]
Reply == [call : Calls, result : Results \cup {"cancelled"}]

TypeOK ==
  /\ caller \in [Calls -> {"idle", "send", "undo", "wait", "done"}]
  /\ answer \in [Calls -> Results \cup Errors \cup {"none"}]
  /\ slot \in [Calls -> Results \cup {"cancelled", "Disconnected", "none"}]
  /\ pending \subseteq Calls /\ in_flight \subseteq Calls /\ aborted \subseteq Calls
  /\ reader \in {"off", "reading", "draining", "drained", "closed"}
  /\ link \in {"up", "down"} /\ loop \in {"reading", "ended"} \cup Calls
  /\ down \in Seq(Frame) /\ up \in Seq(Reply)
  /\ task \in [Calls -> {"none", "work", "respond", "forget", "over"}]
  /\ result \in [Calls -> Results \cup {"none"}]
  /\ work \in [Calls -> {"none", "running", "done", "killed"}]
  /\ cancels \in 0 .. MaxCancels

(* "so no invoke() hangs forever" (socket_transport.rs): whoever waits     *)
(* without an answer is in the map of a reader that is still going to look *)
(* at it, however the insert, the send and the drain fell.                 *)
WaitingIsListed ==
  \A c \in Calls : caller[c] = "wait" /\ slot[c] = "none"
    => c \in pending /\ reader \in {"reading", "draining"}

(* The map holds nothing that no invoke is waiting for: every way out of   *)
(* an invoke - answer, failed send, lost link - takes its entry out.       *)
PendingIsAwaited ==
  \A c \in pending : caller[c] \in {"send", "undo", "wait"} /\ slot[c] = "none"

(* What the map rests on: a call is entered before it is sent and stays    *)
(* until its slot is filled; the reader only drains a link that is down.   *)
CallersAreListed ==
  \A c \in Calls :
    /\ caller[c] \in {"send", "wait"} /\ slot[c] = "none" => c \in pending
    /\ caller[c] = "idle" => slot[c] = "none"
    /\ caller[c] # "idle" => reader # "off"
    /\ answer[c] # "none" <=> caller[c] = "done"
DrainedIsDown == reader \in {"draining", "drained", "closed"} => link = "down"

(* A call crosses the link once: no two frames ask for it, and none while  *)
(* or after its tool runs.                                                 *)
Asks(i) == down[i].type = "ToolCall"
AskedOnce ==
  /\ \A i \in 1 .. Len(down) : Asks(i) =>
       caller[down[i].call] \in {"wait", "done"} /\ work[down[i].call] = "none"
  /\ \A i, j \in 1 .. Len(down) :
       Asks(i) /\ Asks(j) /\ down[i].call = down[j].call => i = j
StartedWasSent ==
  \A c \in Calls : /\ work[c] = "none" <=> task[c] = "none"
                   /\ work[c] # "none" => caller[c] \in {"wait", "done"}

(* A result that is anywhere on its way is that of a tool that has ended   *)
(* by itself.                                                              *)
ResultsAreDone ==
  /\ \A c \in Calls :
       /\ slot[c] \in Results => work[c] = "done"
       /\ task[c] = "respond" => work[c] = "done" /\ result[c] \in Results
  /\ \A i \in 1 .. Len(up) : up[i].result \in Results => work[up[i].call] = "done"

(* A task at work has its abort handle in the map, or has been aborted, or *)
(* is the one the loop is about to enter.                                  *)
AtWorkIsEntered ==
  \A c \in Calls : task[c] \in {"work", "respond"} => c \in in_flight \cup aborted \cup {loop}

(* The invariant of the link, inductive with all its parts.                *)
Inv ==
  /\ TypeOK /\ WaitingIsListed /\ PendingIsAwaited
  /\ CallersAreListed /\ DrainedIsDown
  /\ AskedOnce /\ StartedWasSent /\ ResultsAreDone /\ AtWorkIsEntered

(* A cancel that reaches the runtime while the tool's task is at work      *)
(* finds its abort handle, although task and loop race for the map.        *)
CancelFindsItsTask ==
  [][\A c \in Calls :
       (/\ LoopCancel /\ Head(down).call = c
        /\ task[c] \in {"work", "respond"} /\ c \notin aborted)
         => c \in aborted']_vars

(* The transport keeps the promise of CallPromise, that every call is      *)
(* answered included.                                                      *)
Promise ==
  INSTANCE CallPromise WITH
    status <- [c \in Calls |-> IF answer[c] # "none" THEN answer[c]
                               ELSE IF caller[c] = "idle" THEN "idle" ELSE "asked"],
    effect <- work
KeepsPromise == Promise!FairSpec

-----------------------------------------------------------------------------
(* Refuted.                                                                *)

(* A call that was answered as cancelled does not start to run: a cancel   *)
(* may overtake the call it is for.                                        *)
CancelledStaysUnstarted ==
  [][\A c \in Calls : answer[c] = "cancelled" /\ work[c] = "none"
       => work'[c] = "none"]_vars

(* The in-flight map lists what is in flight: a task that is over before   *)
(* the loop has entered it stays in the map.                               *)
InFlightIsAlive ==
  loop = "reading" => \A c \in in_flight : task[c] # "over"
=============================================================================
