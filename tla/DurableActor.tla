---------------------------- MODULE DurableActor ----------------------------
(***************************************************************************)
(* What the actor runtime promises of an event-sourced actor, whatever the *)
(* journal does underneath: every persistence id has one log, which grows  *)
(* by whole batches, at most one for a command; and an actor that is       *)
(* waiting for a command holds exactly the fold of that log.               *)
(***************************************************************************)
EXTENDS Integers, Sequences

CONSTANTS Pid,    \* persistence ids
          Batch   \* what one command may persist: sequences of events

VARIABLES
  log,   \* log[p]: everything persisted under p, in order
  turn,  \* turn[p]: "offline", "idle", "open" (the command may still write)
         \* or "closed" (it may not)
  view   \* view[p]: the state an idle actor holds; <<>> when it is not idle

vars == <<log, turn, view>>

Init ==
  /\ log = [p \in Pid |-> <<>>]
  /\ turn = [p \in Pid |-> "offline"]
  /\ view = [p \in Pid |-> <<>>]

(* A command is taken from the mailbox.                                    *)
Begin(p) ==
  /\ turn[p] = "idle"
  /\ \E t \in {"open", "closed"} : turn' = [turn EXCEPT ![p] = t]
  /\ view' = [view EXCEPT ![p] = <<>>]
  /\ UNCHANGED log

(* Its batch becomes durable, whole.                                       *)
Commit(p) ==
  /\ turn[p] = "open"
  /\ \E batch \in Batch : log' = [log EXCEPT ![p] = @ \o batch]
  /\ turn' = [turn EXCEPT ![p] = "closed"]
  /\ UNCHANGED view

(* It will not write.                                                      *)
Skip(p) ==
  /\ turn[p] = "open"
  /\ turn' = [turn EXCEPT ![p] = "closed"]
  /\ UNCHANGED <<log, view>>

(* The actor is ready for a command: after one, or after recovery.         *)
Ready(p) ==
  /\ turn[p] # "idle"
  /\ turn' = [turn EXCEPT ![p] = "idle"]
  /\ view' = [view EXCEPT ![p] = log[p]]
  /\ UNCHANGED log

(* Actors stop or are killed; what they hold in memory is gone.            *)
Leave ==
  /\ \E S \in SUBSET Pid :
       /\ turn' = [p \in Pid |-> IF p \in S THEN "offline" ELSE turn[p]]
       /\ view' = [p \in Pid |-> IF p \in S THEN <<>> ELSE view[p]]
  /\ UNCHANGED log

(* A fresh id starts from an initial part of another id's log.             *)
Fork(p, q) ==
  /\ turn[q] = "offline"
  /\ log[q] = <<>>
  /\ \E n \in 0 .. Len(log[p]) :
       log' = [log EXCEPT ![q] = SubSeq(log[p], 1, n)]
  /\ UNCHANGED <<turn, view>>

Next ==
  \/ \E p \in Pid : Begin(p) \/ Commit(p) \/ Skip(p) \/ Ready(p)
  \/ Leave
  \/ \E p, q \in Pid : Fork(p, q)

Spec == Init /\ [][Next]_vars
=============================================================================
