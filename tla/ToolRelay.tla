----------------------------- MODULE ToolRelay -----------------------------
(***************************************************************************)
(* Tool calls of a server: they ride the executor's own connection, and    *)
(* the executor relays them to the runtime over the RuntimeLink.  Between  *)
(* the relay's caller and the tool stand two maps of pending calls, two    *)
(* reader tasks, the executor's dispatch loop and a task for each call;    *)
(* lifecycle commands share the connection, the map and the loop.          *)
(*                                                                         *)
(* What a lifecycle command does is RuntimeLifecycle's subject; here it is *)
(* the events it is answered with.                                         *)
(***************************************************************************)
EXTENDS RuntimeLink

CONSTANTS Commands,   \* ids of lifecycle requests
          ServerLoss  \* the executor's connection may be lost

ASSUME RelayAssumption ==
  Commands \cap Calls = {} /\ ServerLoss \in BOOLEAN

VARIABLES
  asker,   \* asker[r]: where the request of r is
  reply,   \* reply[r]: what it returned, or "none"
  mail,    \* mail[r]: events in the request's channel
  wanted,  \* the requests with a sender in the server's pending map
  conn,    \* the connection: "up" or "down"
  orders,  \* frames under way to the executor
  events,  \* frames under way from it
  relayed, \* relayed[c]: the executor's task of a call
  served   \* the lifecycle command the dispatch loop is at, or "none"

server   == <<asker, reply, mail, wanted>>
relay    == <<server, conn, orders, events, relayed, served>>
allvars  == <<vars, relay>>

Requests == Calls \cup Commands

RelayInit ==
  /\ Init
  /\ asker = [r \in Requests |-> "idle"] /\ reply = [r \in Requests |-> "none"]
  /\ mail = [r \in Requests |-> <<>>] /\ wanted = {}
  /\ conn = "up" /\ orders = <<>> /\ events = <<>>
  /\ relayed = [c \in Calls |-> "none"] /\ served = "none"

-----------------------------------------------------------------------------
(* The server's end.                                                       *)

(* A frame for the executor: swallowed or refused when the link is down.   *)
Ordered(frame) ==
  IF conn = "up" THEN orders' = Append(orders, frame) ELSE UNCHANGED orders

(* send_command: into the map ...                                          *)
AskFor(r) ==
  /\ asker[r] = "idle"
  /\ wanted' = wanted \cup {r}
  /\ asker' = [asker EXCEPT ![r] = "send"]
  /\ UNCHANGED <<vars, reply, mail, conn, orders, events, relayed, served>>

(* ... then out; a failed send leaves the entry.                           *)
SendCommand(r) ==
  /\ asker[r] = "send"
  /\ Ordered([type |-> IF r \in Calls THEN "ToolCall" ELSE "Lifecycle", id |-> r])
  /\ \/ asker' = [asker EXCEPT ![r] = "wait"] /\ UNCHANGED reply
     \/ /\ conn = "down"
        /\ asker' = [asker EXCEPT ![r] = "done"]
        /\ reply' = [reply EXCEPT ![r] = "SendFailed"]
  /\ UNCHANGED <<vars, mail, wanted, conn, events, relayed, served>>

(* cancel: nobody waits for an answer.  It is a request too, and leaves an *)
(* entry in the map under an id that no event bears, which is left out.    *)
SendCancel(c) ==
  /\ cancels < MaxCancels /\ cancels' = cancels + 1
  /\ Ordered([type |-> "CancelToolCall", id |-> c])
  /\ UNCHANGED <<callers, pending, reader, link, down, up, runtime,
                 server, conn, events, relayed, served>>

(* The reader passes an event to the request it is about, if that still    *)
(* has a sender in the map; at the connection's end it just ends.          *)
ReadEvent ==
  /\ events # <<>>
  /\ events' = Tail(events)
  /\ LET r == Head(events).id IN
     mail' = [mail EXCEPT ![r] = IF r \in wanted THEN Append(@, Head(events).event)
                                ELSE @]
  /\ UNCHANGED <<vars, asker, reply, wanted, conn, orders, relayed, served>>

Receives(r, e) == asker[r] = "wait" /\ mail[r] # <<>> /\ Head(mail[r]) = e

(* A request returns what it got; an invoke takes its entry out.           *)
Returns(r, value) ==
  /\ asker' = [asker EXCEPT ![r] = "done"]
  /\ reply' = [reply EXCEPT ![r] = value]
  /\ mail' = [mail EXCEPT ![r] = <<>>]
  /\ wanted' = wanted \ ({r} \cap Calls)
  /\ UNCHANGED <<vars, conn, orders, events, relayed, served>>

(* Mutant: whatever comes is taken for the call's answer.                  *)
TakeResultOfAny(c) ==
  /\ asker[c] = "wait" /\ mail[c] # <<>>
  /\ Returns(c, "ok")

(* invoke waits for the call's ToolResult ...                              *)
TakeResult(c) ==
  \E v \in Results \cup Errors :
    Receives(c, v) /\ Returns(c, IF v \in Errors THEN "failed" ELSE v)

(* ... and passes over everything else, its CommandFailed too.             *)
PassOver(r) ==
  /\ \/ r \in Calls /\ Receives(r, "CommandFailed")
     \/ r \in Commands /\ \E e \in {"Creating", "Stopping", "Failed"} : Receives(r, e)
  /\ mail' = [mail EXCEPT ![r] = Tail(@)]
  /\ UNCHANGED <<vars, asker, reply, wanted, conn, orders, events, relayed, served>>

(* create_runtime and destroy_runtime wait for the state they want, or for *)
(* the failure.                                                            *)
TakeOutcome(k) ==
  \/ \E e \in {"Running", "Stopped"} : Receives(k, e) /\ Returns(k, "changed")
  \/ Receives(k, "CommandFailed") /\ Returns(k, "CommandFailed")

AskerStep(r) ==
  \/ SendCommand(r)
  \/ r \in Calls /\ TakeResult(r)
  \/ PassOver(r)
  \/ r \in Commands /\ TakeOutcome(r)

-----------------------------------------------------------------------------
(* The executor.                                                           *)

Ordering(type) == served = "none" /\ orders # <<>> /\ Head(orders).type = type

Emits(es) == events' = IF conn = "up" THEN events \o es ELSE events
Event(r, e) == [id |-> r, event |-> e]

(* A call for a runtime that is connected is left to a task of its own,    *)
(* any other fails.                                                        *)
DispatchToolCall ==
  /\ Ordering("ToolCall")
  /\ orders' = Tail(orders)
  /\ LET c == Head(orders).id IN
     \/ /\ Registered
        /\ relayed' = [relayed EXCEPT ![c] = "spawned"]
        /\ UNCHANGED events
     \/ /\ ~Registered
        /\ Emits(<<Event(c, "CommandFailed")>>)
        /\ UNCHANGED relayed
  /\ UNCHANGED <<vars, server, conn, served>>

RelayInvokes(c) ==
  /\ relayed[c] = "spawned"
  /\ relayed' = [relayed EXCEPT ![c] = "invoking"]
  /\ Invoke(c)
  /\ UNCHANGED <<server, conn, orders, events, served>>

(* The loop itself cancels, at once.                                       *)
DispatchCancel ==
  /\ Ordering("CancelToolCall")
  /\ orders' = Tail(orders)
  /\ IF Registered
     THEN Written([type |-> "CancelCall", call |-> Head(orders).id]) \/ Refused
     ELSE UNCHANGED down
  /\ UNCHANGED <<callers, pending, reader, link, up, runtime, cancels,
                 server, conn, events, relayed, served>>

(* Mutant: a transport error ends the task without a word.                 *)
RelayAnswersResults(c) ==
  /\ relayed[c] = "invoking" /\ answer[c] # "none"
  /\ relayed' = [relayed EXCEPT ![c] = "over"]
  /\ Emits(IF answer[c] \in Results THEN <<Event(c, answer[c])>> ELSE <<>>)
  /\ UNCHANGED <<vars, server, conn, orders, served>>

(* The task sends the outcome, transport errors included, as the result.   *)
RelayAnswers(c) ==
  /\ relayed[c] = "invoking" /\ answer[c] # "none"
  /\ relayed' = [relayed EXCEPT ![c] = "over"]
  /\ Emits(<<Event(c, answer[c])>>)
  /\ UNCHANGED <<vars, server, conn, orders, served>>

(* A lifecycle command the registry refuses fails at once; any other keeps *)
(* the loop until it is through ...                                        *)
DispatchLifecycle ==
  /\ Ordering("Lifecycle")
  /\ orders' = Tail(orders)
  /\ LET k == Head(orders).id IN
     \/ /\ served' = k
        /\ \E first \in {"Creating", "Stopping"} : Emits(<<Event(k, first)>>)
     \/ Emits(<<Event(k, "CommandFailed")>>) /\ UNCHANGED served
  /\ UNCHANGED <<vars, server, conn, relayed>>

(* ... and reports the state reached, or its failure: as a state before,   *)
(* unless the registry refused the last step.                              *)
LifecycleEnds ==
  /\ served # "none"
  /\ served' = "none"
  /\ \/ \E e \in {"Running", "Stopped"} : Emits(<<Event(served, e)>>)
     \/ Emits(<<Event(served, "Failed"), Event(served, "CommandFailed")>>)
     \/ Emits(<<Event(served, "CommandFailed")>>)
  /\ UNCHANGED <<vars, server, conn, orders, relayed>>

Dispatch == DispatchToolCall \/ DispatchCancel \/ DispatchLifecycle \/ LifecycleEnds

(* The connection is lost, and frames with it.                             *)
ConnectionLost ==
  /\ ServerLoss /\ conn = "up"
  /\ conn' = "down"
  /\ events' \in Prefixes(events) /\ orders' = <<>>
  /\ UNCHANGED <<vars, server, relayed, served>>

-----------------------------------------------------------------------------
RelayNext ==
  \/ LinkStep /\ UNCHANGED relay
  \/ \E r \in Requests : AskFor(r) \/ AskerStep(r)
  \/ \E c \in Calls : SendCancel(c) \/ RelayInvokes(c) \/ RelayAnswers(c)
  \/ ReadEvent \/ Dispatch \/ ConnectionLost

RelaySpec == RelayInit /\ [][RelayNext]_allvars

(* As for the link, and the executor's and the server's tasks too; a       *)
(* lifecycle command is bounded by its time limits.                        *)
RelayFairSpec ==
  /\ RelaySpec
  /\ \A c \in Calls :
       /\ WF_allvars(CallerStep(c) /\ UNCHANGED relay)
       /\ WF_allvars(ToolEnds(c) /\ UNCHANGED relay)
       /\ WF_allvars(TaskStep(c) /\ UNCHANGED relay)
       /\ WF_allvars(RelayInvokes(c) \/ RelayAnswers(c))
  /\ WF_allvars((Reader \/ Loop) /\ UNCHANGED relay)
  /\ WF_allvars(ReadEvent) /\ WF_allvars(Dispatch)
  /\ \A r \in Requests : WF_allvars(AskerStep(r))

-----------------------------------------------------------------------------
(* Properties.                                                             *)

(* What the server is told of a call is what became of it: the relay, with *)
(* its two maps and its interleaved lifecycle events, keeps the safety     *)
(* part of the promise the direct link keeps.                              *)
ServerPromise ==
  INSTANCE CallPromise WITH
    Results <- {"ok"}, Errors <- {"failed", "SendFailed"},
    status <- [c \in Calls |-> IF reply[c] # "none" THEN reply[c]
                               ELSE IF asker[c] = "idle" THEN "idle" ELSE "asked"],
    effect <- work
RelayKeepsPromise == ServerPromise!Spec

(* A relayed call ends unless the connection is lost or the executor has   *)
(* taken its order and let it drop, as it does without the runtime, and a  *)
(* lifecycle command unless the connection is lost:                        *)
(* nothing between the two ends loses an answer, though both kinds of      *)
(* request share the connection, the map and the order of the events.      *)
Doomed(r) ==
  \/ conn = "down"
  \/ /\ r \in Calls /\ relayed[r] = "none"
     /\ \A i \in DOMAIN orders : orders[i].id # r
RelayEndsUnlessDoomed ==
  \A r \in Requests : asker[r] = "wait" ~> (asker[r] = "done" \/ Doomed(r))

-----------------------------------------------------------------------------
(* Refuted.                                                                *)

(* "direct in CLI mode, relay in server mode - the caller cannot tell"     *)
(* (executor-client/src/client.rs): an invoke ends, as the direct one does.*)
RelayEnds == \A c \in Calls : asker[c] = "wait" ~> asker[c] = "done"

(* The server's map holds nothing but requests somebody waits for.         *)
WantedIsAwaited == \A r \in wanted : asker[r] = "wait"
=============================================================================
