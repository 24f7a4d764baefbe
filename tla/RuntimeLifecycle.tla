-------------------------- MODULE RuntimeLifecycle --------------------------
(***************************************************************************)
(* The life of one runtime id inside an executor.  Two tasks work on its   *)
(* registry entry, and each takes the registry lock for one call at a      *)
(* time: the dispatch loop (create, destroy, restart as the server asks)   *)
(* and the periodic health check, which restarts a runtime that lost its   *)
(* link.  Both spawn october-runtime children, which connect back and are  *)
(* registered by a third party, the connection handlers.                   *)
(*                                                                         *)
(* Children are numbered in spawn order; 0 is none.  The state events that *)
(* are sent to the server change nothing here and are left out.            *)
(***************************************************************************)
EXTENDS Integers, FiniteSets

CONSTANTS Commands,     \* what the server asks: "create", "destroy", "restart"
          MaxRestarts,  \* max_restarts of the executor
          MaxCommands,  \* bound: commands of the server
          MaxDeaths,    \* bound: children that die by themselves
          ListenerLoss  \* a child may die in the middle of its handshake

ASSUME LifecycleAssumption ==
  /\ Commands \subseteq {"create", "destroy", "restart"}
  /\ {MaxRestarts, MaxCommands, MaxDeaths} \subseteq Nat
  /\ ListenerLoss \in BOOLEAN

VARIABLES
  entry,     \* the registry entry: [state, restarts, handle]
  task,      \* task[t]: where a task is, and what it holds
  children,  \* the living children
  links,     \* links[i]: the connection of child i
  transport, \* the child whose transport is registered
  waiter,    \* the task whose notify_when_ready is pending, or "none"
  ready,     \* ready[t]: what t's receiver has: "none", "fired", "dropped"
  listening, \* connections are accepted
  spawned,   \* children spawned so far
  commands,  \* commands so far
  deaths     \* deaths so far

vars == <<entry, task, children, links, transport, waiter, ready, listening,
          spawned, commands, deaths>>

connections == <<links, transport, waiter, ready, listening>>
processes   == <<children, spawned, deaths>>

Task    == {"dispatch", "health"}
NoEntry == [state |-> "absent", restarts |-> 0, handle |-> 0]
Idle    == [pc |-> "idle", op |-> "none", handle |-> 0, child |-> 0, copy |-> 0]

Init ==
  /\ entry = NoEntry
  /\ task = [t \in Task |-> Idle]
  /\ children = {} /\ links = [i \in {} |-> "open"] /\ transport = 0
  /\ waiter = "none" /\ ready = [t \in Task |-> "none"] /\ listening = TRUE
  /\ spawned = 0 /\ commands = 0 /\ deaths = 0

At(t, pc)   == task[t].pc = pc
Goto(t, pc) == task' = [task EXCEPT ![t].pc = pc]
Done(t)     == task' = [task EXCEPT ![t] = Idle]

-----------------------------------------------------------------------------
(* The registry calls, each under its lock.                                *)

Restartable == entry.state \in {"Running", "Failed"}

begin_create ==
  entry.state = "absent" /\ entry' = [NoEntry EXCEPT !.state = "Creating"]

(* The entry becomes Running, whatever it was; its old handle is dropped.  *)
complete_create(i) ==
  /\ entry.state # "absent"
  /\ entry' = [entry EXCEPT !.state = "Running", !.handle = i]

mark_failed ==
  entry' = IF entry.state = "absent" THEN entry
           ELSE [entry EXCEPT !.state = "Failed", !.handle = 0]

begin_stop ==
  Restartable /\ entry' = [entry EXCEPT !.state = "Stopping", !.handle = 0]

begin_restart ==
  /\ Restartable
  /\ entry' = [entry EXCEPT !.state = "Creating", !.handle = 0,
                            !.restarts = @ + 1]

complete_stop == entry' = NoEntry

-----------------------------------------------------------------------------
(* The dispatch loop takes the next command.                               *)

(* stop() of the handle just taken, if any, then on to what follows.       *)
Stopping(t, op, next) ==
  task' = [task EXCEPT ![t].pc = IF entry.handle = 0 THEN next ELSE "kill",
                       ![t].op = op, ![t].handle = entry.handle]

(* A command the registry refuses fails, and changes nothing.              *)
Command(op) ==
  /\ op \in Commands /\ commands < MaxCommands
  /\ At("dispatch", "idle")
  /\ commands' = commands + 1
  /\ \/ /\ op = "create" /\ begin_create
        /\ task' = [task EXCEPT !["dispatch"] = [Idle EXCEPT !.pc = "watch",
                                                             !.op = op]]
     \/ op = "destroy" /\ begin_stop /\ Stopping("dispatch", op, "drop")
     \/ op = "restart" /\ begin_restart /\ Stopping("dispatch", op, "watch")
     \/ /\ IF op = "create" THEN entry.state # "absent" ELSE ~Restartable
        /\ UNCHANGED <<entry, task>>
  /\ UNCHANGED <<connections, processes>>

CompleteStop ==
  /\ At("dispatch", "drop")
  /\ complete_stop
  /\ Done("dispatch")
  /\ UNCHANGED <<connections, processes, commands>>

-----------------------------------------------------------------------------
(* The health check of one tick.                                           *)

(* The handles of the running entries are copied, and the copy is held to  *)
(* the end of the tick ...                                                 *)
Snapshot ==
  /\ At("health", "idle")
  /\ entry.state = "Running"
  /\ task' = [task EXCEPT !["health"] = [Idle EXCEPT !.pc = "check",
                                                     !.copy = entry.handle]]
  /\ UNCHANGED <<entry, connections, processes, commands>>

(* Mutant: the copied handle is taken for a sign of health.                *)
CheckTrusting ==
  /\ At("health", "check")
  /\ Done("health")
  /\ UNCHANGED <<entry, connections, processes, commands>>

(* ... and judged by whether any transport is registered for the id.       *)
Check ==
  /\ At("health", "check")
  /\ IF transport # 0 THEN Done("health") ELSE Goto("health", "mark")
  /\ UNCHANGED <<entry, connections, processes, commands>>

MarkUnhealthy ==
  /\ At("health", "mark")
  /\ mark_failed
  /\ Goto("health", "count")
  /\ UNCHANGED <<connections, processes, commands>>

CountRestarts ==
  /\ At("health", "count")
  /\ IF entry.state = "absent" \/ entry.restarts >= MaxRestarts
     THEN Done("health") ELSE Goto("health", "revive")
  /\ UNCHANGED <<entry, connections, processes, commands>>

Revive ==
  /\ At("health", "revive")
  /\ \/ begin_restart /\ Stopping("health", "restart", "watch")
     \/ ~Restartable /\ Done("health") /\ UNCHANGED entry
  /\ UNCHANGED <<connections, processes, commands>>

-----------------------------------------------------------------------------
(* What both tasks do with children.                                       *)

(* stop: the child is killed and awaited ...                               *)
KillChild(t) ==
  /\ At(t, "kill")
  /\ children' = children \ {task[t].handle}
  /\ Goto(t, "unlink")
  /\ UNCHANGED <<entry, connections, spawned, deaths, commands>>

(* ... and the id's transport removed.                                     *)
Unlink(t) ==
  /\ At(t, "unlink")
  /\ transport' = 0
  /\ task' = [task EXCEPT ![t].handle = 0,
                          ![t].pc = IF task[t].op = "destroy" THEN "drop"
                                    ELSE "watch"]
  /\ UNCHANGED <<entry, links, waiter, ready, listening, processes, commands>>

(* notify_when_ready: a waiter already pending for the id is dropped.      *)
Watch(t) ==
  /\ At(t, "watch")
  /\ waiter' = t
  /\ ready' = [u \in Task |-> IF u = t THEN "none"
                              ELSE IF u = waiter THEN "dropped" ELSE ready[u]]
  /\ Goto(t, "spawn")
  /\ UNCHANGED <<entry, links, transport, listening, processes, commands>>

SpawnChild(t) ==
  /\ At(t, "spawn")
  /\ \/ /\ spawned' = spawned + 1
        /\ children' = children \cup {spawned'}
        /\ task' = [task EXCEPT ![t].pc = "wait", ![t].child = spawned']
     \/ Goto(t, "fail") /\ UNCHANGED <<spawned, children>>
  /\ UNCHANGED <<entry, connections, deaths, commands>>

(* The ready signal, the loss of its sender, or the time limit, whichever  *)
(* is first; in the last two cases the child is dropped.                   *)
Await(t) ==
  /\ At(t, "wait")
  /\ \/ ready[t] = "fired" /\ Goto(t, "complete")
     \/ ready[t] # "fired"
        /\ task' = [task EXCEPT ![t].pc = "fail", ![t].child = 0]
  /\ ready' = [ready EXCEPT ![t] = "none"]
  /\ UNCHANGED <<entry, links, transport, waiter, listening, processes, commands>>

(* An entry that is gone takes no handle, and the child is dropped.        *)
Complete(t) ==
  /\ At(t, "complete")
  /\ complete_create(task[t].child) \/ (entry.state = "absent" /\ UNCHANGED entry)
  /\ Done(t)
  /\ UNCHANGED <<connections, processes, commands>>

(* Mutant: the failure is reported and not recorded.                       *)
FailSilently(t) ==
  /\ At(t, "fail")
  /\ Done(t)
  /\ UNCHANGED <<entry, connections, processes, commands>>

Fail(t) ==
  /\ At(t, "fail")
  /\ mark_failed
  /\ Done(t)
  /\ UNCHANGED <<connections, processes, commands>>

TaskStep(t) == KillChild(t) \/ Unlink(t) \/ Watch(t) \/ SpawnChild(t)
               \/ Await(t) \/ Complete(t) \/ Fail(t)

-----------------------------------------------------------------------------
(* Children and their connections.                                         *)

(* A child connects, says it is ready and is registered; the pending       *)
(* waiter, whosever it is, fires.                                          *)
Connect(i) ==
  /\ listening /\ i \in children /\ i \notin DOMAIN links
  /\ links' = [k \in DOMAIN links \cup {i} |-> "open"]
  /\ transport' = i
  /\ ready' = [t \in Task |-> IF t = waiter THEN "fired" ELSE ready[t]]
  /\ waiter' = "none"
  /\ UNCHANGED <<entry, task, listening, processes, commands>>

(* Mutant: the handler ends without removing anything.                     *)
LinkClosedKeeps(i) ==
  /\ i \in DOMAIN links \ children
  /\ links' = [k \in DOMAIN links \ {i} |-> "open"]
  /\ UNCHANGED <<entry, task, transport, waiter, ready, listening, processes,
                 commands>>

(* The handler of a dead child's link removes the id's transport.          *)
LinkClosed(i) ==
  /\ i \in DOMAIN links \ children
  /\ links' = [k \in DOMAIN links \ {i} |-> "open"]
  /\ transport' = 0
  /\ UNCHANGED <<entry, task, waiter, ready, listening, processes, commands>>

(* Nobody holds the handle of the child any more: kill_on_drop.            *)
Held == {entry.handle} \cup {task[t].handle : t \in Task}
        \cup {task[t].child : t \in Task} \cup {task[t].copy : t \in Task}

Dropped(i) ==
  /\ i \in children \ Held
  /\ children' = children \ {i}
  /\ UNCHANGED <<entry, task, connections, spawned, deaths, commands>>

Dies(i) ==
  /\ i \in children /\ deaths < MaxDeaths
  /\ deaths' = deaths + 1
  /\ children' = children \ {i}
  /\ UNCHANGED <<entry, task, connections, spawned, commands>>

(* A child dies, or is killed, while it connects: its handshake fails, and *)
(* the loop that accepts connections ends with that.                       *)
DiesConnecting(i) ==
  /\ ListenerLoss /\ listening /\ i \in children /\ i \notin DOMAIN links
  /\ deaths < MaxDeaths
  /\ deaths' = deaths + 1
  /\ children' = children \ {i}
  /\ listening' = FALSE
  /\ UNCHANGED <<entry, task, links, transport, waiter, ready, spawned, commands>>

Health == Snapshot \/ Check \/ MarkUnhealthy \/ CountRestarts \/ Revive

Next ==
  \/ \E op \in {"create", "destroy", "restart"} : Command(op)
  \/ CompleteStop
  \/ Health
  \/ \E t \in Task : TaskStep(t)
  \/ \E i \in 1 .. spawned : \/ Connect(i) \/ LinkClosed(i) \/ Dropped(i)
                             \/ Dies(i) \/ DiesConnecting(i)

Spec == Init /\ [][Next]_vars

(* Both tasks are scheduled, timers fire, dead links are noticed and       *)
(* dropped children killed; no child has to connect, or to live.           *)
FairSpec ==
  /\ Spec
  /\ WF_vars(CompleteStop) /\ WF_vars(Health)
  /\ \A t \in Task : WF_vars(TaskStep(t))
  /\ WF_vars(\E i \in 1 .. spawned : LinkClosed(i) \/ Dropped(i))

-----------------------------------------------------------------------------
(* Properties.                                                             *)

Steps == {"idle", "drop", "check", "mark", "count", "revive", "kill", "unlink",
          "watch", "spawn", "wait", "complete", "fail"}

EntryOK ==
  entry \in [state : {"absent", "Creating", "Running", "Stopping", "Failed"},
            restarts : Nat, handle : Nat]
TasksOK ==
  task \in [Task -> [pc : Steps, op : {"none", "create", "destroy", "restart"},
                    handle : Nat, child : Nat, copy : Nat]]

(* What a task holds at each of its steps: the handle it is to stop, the   *)
(* child it waits for, the health check's copy.                            *)
HoldsOK ==
  /\ \A t \in Task : (task[t].handle # 0) = (task[t].pc \in {"kill", "unlink"})
  /\ \A t \in Task : (task[t].child # 0) = (task[t].pc \in {"wait", "complete"})
  /\ (task["health"].copy # 0) = ~At("health", "idle")
  /\ task["dispatch"].copy = 0

ConnectionsOK ==
  /\ ready \in [Task -> {"none", "fired", "dropped"}]
  /\ waiter \in Task \cup {"none"} /\ listening \in BOOLEAN
  /\ {spawned, commands, deaths} \subseteq Nat
  /\ children \subseteq 1 .. spawned /\ transport \in 0 .. spawned

TypeOK == EntryOK /\ TasksOK /\ HoldsOK /\ ConnectionsOK

(* The entry holds a handle exactly when it is Running, through every mix  *)
(* of the two tasks: no stop or restart forgets a child it should kill.    *)
HandleWhenRunning == (entry.state = "Running") = (entry.handle # 0)

(* A runtime under way gets somewhere: no entry stays Creating or Stopping *)
(* because the other task changed it in between.                           *)
NeverStuck ==
  entry.state \in {"Creating", "Stopping"}
    ~> entry.state \notin {"Creating", "Stopping"}

(* The health check mends what the connection handlers break: a runtime    *)
(* that is shown as Running without its own transport does not stay so.    *)
RunningIsReachable ==
  (entry.state = "Running" /\ transport # entry.handle)
    ~> (entry.state # "Running" \/ transport = entry.handle)

(* Tool calls reach the child that the registry owns once nothing is under *)
(* way, or reach none.                                                     *)
NoWrongChild ==
  (/\ \A t \in Task : At(t, "idle")
   /\ DOMAIN links \subseteq children /\ children \subseteq Held)
     => transport \in {0, entry.handle}

(* A registered transport is that of a connection whose end its handler    *)
(* has not seen; this is what the other parts keep of the connections.     *)
TransportIsLinked == transport # 0 => transport \in DOMAIN links

(* The state invariant: the types, a handle exactly when it runs, and no   *)
(* call to a child of another time.  It is inductive.                      *)
Inv == TypeOK /\ HandleWhenRunning /\ TransportIsLinked /\ NoWrongChild

-----------------------------------------------------------------------------
(* Refuted: what the comments say, and the code does otherwise.            *)

(* "double-remove is safe" (executor.rs): the close of a link takes away   *)
(* the transport of that link only.                                        *)
LinkRemovesOwn ==
  [][\A i \in 1 .. spawned : LinkClosed(i) => transport \in {0, i}]_vars

(* "until `cancel` fires" (executor.rs, serve_runtime_connections): no     *)
(* spawn gives up on its child with nobody left to accept the child.       *)
ListenerStays ==
  [][\A t \in Task : Await(t) /\ task'[t].pc = "fail" => listening]_vars

(* "Transition Creating -> Running" (registry.rs, complete_create).        *)
CompletesFromCreating ==
  [][\A t \in Task : Complete(t) /\ entry'.state = "Running"
       => entry.state = "Creating"]_vars
=============================================================================
