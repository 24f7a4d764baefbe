------------------------ MODULE RuntimeLifecycleProofs ------------------------
(* Theorems about RuntimeLifecycle, for any commands, any number of        *)
(* restarts and deaths, and a listener that may be lost: Inv holds.        *)
EXTENDS RuntimeLifecycle, TLAPS

(* What is inductive; NoWrongChild follows from it.                        *)
Core == TypeOK /\ HandleWhenRunning /\ TransportIsLinked

(* In quiet the registered transport is that of a living child somebody    *)
(* holds, and nobody but the entry holds one.                              *)
LEMMA CoreSuffices == Core => NoWrongChild
PROOF
  <1> SUFFICES ASSUME Core,
                      \A t \in Task : At(t, "idle"),
                      DOMAIN links \subseteq children, children \subseteq Held,
                      transport # 0
               PROVE  transport = entry.handle
    BY DEF NoWrongChild
  <1>1. transport \in Held
    BY DEF Core, TransportIsLinked
  <1>2. \A t \in Task : task[t].handle = 0 /\ task[t].child = 0 /\ task[t].copy = 0
    BY DEF Core, TypeOK, TasksOK, HoldsOK, At, Task, Steps
  <1> QED
    BY <1>1, <1>2 DEF Held

LEMMA InitCore == Init => Core
  BY DEF Init, Core, TypeOK, EntryOK, TasksOK, HoldsOK, ConnectionsOK, HandleWhenRunning, TransportIsLinked, NoEntry, Idle,
         Task, Steps, At

LEMMA RestartedEntry ==
  ASSUME Core, begin_restart
  PROVE  EntryOK'
PROOF
  <1>1. /\ entry.restarts \in Nat
        /\ DOMAIN entry = {"state", "restarts", "handle"}
    BY DEF Core, TypeOK, EntryOK
  <1>2. entry' = [state |-> "Creating", restarts |-> entry.restarts + 1, handle |-> 0]
    BY DEF begin_restart, Core, TypeOK, EntryOK
  <1> QED
    BY <1>1, <1>2 DEF EntryOK

(* A task that takes a handle goes on to stop its child, or has nothing to *)
(* stop.                                                                   *)
LEMMA StoppingHolds ==
  ASSUME Core, NEW t \in Task, NEW op \in {"destroy", "restart"},
         NEW next \in {"drop", "watch"},
         task[t].child = 0, t = "health" => task[t].pc # "idle",
         Stopping(t, op, next)
  PROVE  TasksOK' /\ HoldsOK'
PROOF
  <1>1. entry.handle \in Nat
    BY DEF Core, TypeOK, EntryOK
  <1>2. TasksOK'
    <2> DEFINE Row == [pc : Steps, op : {"none", "create", "destroy", "restart"},
                       handle : Nat, child : Nat, copy : Nat]
               pc == IF entry.handle = 0 THEN next ELSE "kill"
    <2>1. task[t] \in Row /\ task \in [Task -> Row]
      BY DEF Core, TypeOK, TasksOK
    <2>2. [task[t] EXCEPT !.pc = pc, !.op = op, !.handle = entry.handle] \in Row
      BY <1>1, <2>1 DEF Steps
    <2>3. task' = [task EXCEPT ![t] =
                     [task[t] EXCEPT !.pc = pc, !.op = op, !.handle = entry.handle]]
      BY <2>1 DEF Stopping
    <2> HIDE DEF Row
    <2>4. task' \in [Task -> Row]
      BY <2>1, <2>2, <2>3
    <2> QED
      BY <2>4 DEF Row, TasksOK
  <1>3. HoldsOK'
    BY <1>1 DEF Stopping, Core, TypeOK, TasksOK, HoldsOK, At, Task
  <1> QED
    BY <1>2, <1>3

LEMMA CommandCore ==
  ASSUME Core, NEW op, Command(op)
  PROVE  Core'
PROOF
  <1>1. EntryOK'
    <2>1. CASE begin_create
      BY <2>1 DEF begin_create, NoEntry, EntryOK
    <2>2. CASE begin_stop
      BY <2>2 DEF begin_stop, EntryOK, Core, TypeOK
    <2>3. CASE begin_restart
      BY <2>3, RestartedEntry
    <2>4. CASE UNCHANGED entry
      BY <2>4 DEF EntryOK, Core, TypeOK
    <2> QED
      BY <2>1, <2>2, <2>3, <2>4 DEF Command
  <1>2. TasksOK'
    <2>1. CASE op = "create" /\ begin_create
               /\ task' = [task EXCEPT !["dispatch"] = [Idle EXCEPT !.pc = "watch", !.op = op]]
      BY <2>1 DEF Idle, TasksOK, Steps, Task, Core, TypeOK
    <2>2. CASE Stopping("dispatch", "destroy", "drop") \/ Stopping("dispatch", "restart", "watch")
      <3>1. At("dispatch", "idle")
        BY DEF Command
      <3>2. task["dispatch"].child = 0
        BY <3>1 DEF At, Task, HoldsOK, Core, TypeOK
      <3> QED
        BY <2>2, <3>2, StoppingHolds DEF Task
    <2>3. CASE UNCHANGED task
      BY <2>3 DEF TasksOK, At, Core, TypeOK
    <2> QED
      BY <2>1, <2>2, <2>3 DEF Command
  <1>3. HoldsOK'
    <2>1. CASE op = "create" /\ begin_create
               /\ task' = [task EXCEPT !["dispatch"] = [Idle EXCEPT !.pc = "watch", !.op = op]]
      BY <2>1 DEF Idle, TasksOK, HoldsOK, Task, At, Core, TypeOK
    <2>2. CASE Stopping("dispatch", "destroy", "drop") \/ Stopping("dispatch", "restart", "watch")
      <3>1. At("dispatch", "idle")
        BY DEF Command
      <3>2. task["dispatch"].child = 0
        BY <3>1 DEF At, Task, HoldsOK, Core, TypeOK
      <3> QED
        BY <2>2, <3>2, StoppingHolds DEF Task
    <2>3. CASE UNCHANGED task
      BY <2>3 DEF HoldsOK, At, Core, TypeOK
    <2> QED
      BY <2>1, <2>2, <2>3 DEF Command
  <1>4. ConnectionsOK'
    BY DEF Command, begin_create, begin_stop, begin_restart, Stopping,
        Restartable, NoEntry, Idle, connections, processes, ConnectionsOK,
        Task, Core, TypeOK
  <1>5. HandleWhenRunning'
    BY DEF Command, begin_create, begin_stop, begin_restart, Stopping,
        Restartable, NoEntry, Idle, EntryOK, TasksOK, HoldsOK,
        HandleWhenRunning, At, Task, Core, TypeOK
  <1>6. TransportIsLinked'
    BY DEF Command, begin_create, begin_stop, begin_restart, Stopping,
        Restartable, NoEntry, Idle, connections, processes, ConnectionsOK,
        TransportIsLinked, Core, TypeOK
  <1> QED
    BY <1>1, <1>2, <1>3, <1>4, <1>5, <1>6 DEF Core, TypeOK

LEMMA CompleteStopCore ==
  ASSUME Core, CompleteStop
  PROVE  Core'
PROOF
  <1>1. EntryOK'
    BY DEF CompleteStop, complete_stop, Done, NoEntry, Idle, EntryOK, TasksOK,
        Core, TypeOK
  <1>2. TasksOK'
    BY DEF CompleteStop, complete_stop, Done, NoEntry, Idle, EntryOK, TasksOK,
        Steps, Task, Core, TypeOK
  <1>3. HoldsOK'
    BY DEF CompleteStop, complete_stop, Done, NoEntry, Idle, EntryOK, TasksOK,
        HoldsOK, HandleWhenRunning, At, Task, Core, TypeOK
  <1>4. ConnectionsOK'
    BY DEF CompleteStop, complete_stop, Done, NoEntry, Idle, connections,
        processes, ConnectionsOK, Task, Core, TypeOK
  <1>5. HandleWhenRunning'
    BY DEF CompleteStop, complete_stop, Done, NoEntry, Idle, EntryOK, TasksOK,
        HoldsOK, HandleWhenRunning, At, Task, Core, TypeOK
  <1>6. TransportIsLinked'
    BY DEF CompleteStop, complete_stop, Done, NoEntry, Idle, connections,
        processes, ConnectionsOK, TransportIsLinked, Core, TypeOK
  <1> QED
    BY <1>1, <1>2, <1>3, <1>4, <1>5, <1>6 DEF Core, TypeOK

LEMMA SnapshotCore ==
  ASSUME Core, Snapshot
  PROVE  Core'
PROOF
  <1>1. EntryOK'
    BY DEF Snapshot, Idle, EntryOK, TasksOK, Core, TypeOK
  <1>2. TasksOK'
    BY DEF Snapshot, Idle, EntryOK, TasksOK, Steps, Task, Core, TypeOK
  <1>3. HoldsOK'
    BY DEF Snapshot, Idle, EntryOK, TasksOK, HoldsOK, HandleWhenRunning, At,
        Task, Core, TypeOK
  <1>4. ConnectionsOK'
    BY DEF Snapshot, Idle, connections, processes, ConnectionsOK, Task, Core,
        TypeOK
  <1>5. HandleWhenRunning'
    BY DEF Snapshot, Idle, EntryOK, TasksOK, HoldsOK, HandleWhenRunning, At,
        Task, Core, TypeOK
  <1>6. TransportIsLinked'
    BY DEF Snapshot, Idle, connections, processes, ConnectionsOK,
        TransportIsLinked, Core, TypeOK
  <1> QED
    BY <1>1, <1>2, <1>3, <1>4, <1>5, <1>6 DEF Core, TypeOK

LEMMA CheckCore ==
  ASSUME Core, Check
  PROVE  Core'
PROOF
  <1>1. EntryOK'
    BY DEF Check, Done, Goto, Idle, EntryOK, TasksOK, Core, TypeOK
  <1>2. TasksOK'
    BY DEF Check, Done, Goto, Idle, EntryOK, TasksOK, Steps, Task, Core, TypeOK
  <1>3. HoldsOK'
    BY DEF Check, Done, Goto, Idle, EntryOK, TasksOK, HoldsOK,
        HandleWhenRunning, At, Task, Core, TypeOK
  <1>4. ConnectionsOK'
    BY DEF Check, Done, Goto, Idle, connections, processes, ConnectionsOK, Task,
        Core, TypeOK
  <1>5. HandleWhenRunning'
    BY DEF Check, Done, Goto, Idle, EntryOK, TasksOK, HoldsOK,
        HandleWhenRunning, At, Task, Core, TypeOK
  <1>6. TransportIsLinked'
    BY DEF Check, Done, Goto, Idle, connections, processes, ConnectionsOK,
        TransportIsLinked, Core, TypeOK
  <1> QED
    BY <1>1, <1>2, <1>3, <1>4, <1>5, <1>6 DEF Core, TypeOK

LEMMA MarkUnhealthyCore ==
  ASSUME Core, MarkUnhealthy
  PROVE  Core'
PROOF
  <1>1. EntryOK'
    BY DEF MarkUnhealthy, mark_failed, Goto, EntryOK, TasksOK, Core, TypeOK
  <1>2. TasksOK'
    BY DEF MarkUnhealthy, mark_failed, Goto, EntryOK, TasksOK, Steps, Task,
        Core, TypeOK
  <1>3. HoldsOK'
    BY DEF MarkUnhealthy, mark_failed, Goto, EntryOK, TasksOK, HoldsOK,
        HandleWhenRunning, At, Task, Core, TypeOK
  <1>4. ConnectionsOK'
    BY DEF MarkUnhealthy, mark_failed, Goto, connections, processes,
        ConnectionsOK, Task, Core, TypeOK
  <1>5. HandleWhenRunning'
    BY DEF MarkUnhealthy, mark_failed, Goto, EntryOK, TasksOK, HoldsOK,
        HandleWhenRunning, At, Task, Core, TypeOK
  <1>6. TransportIsLinked'
    BY DEF MarkUnhealthy, mark_failed, Goto, connections, processes,
        ConnectionsOK, TransportIsLinked, Core, TypeOK
  <1> QED
    BY <1>1, <1>2, <1>3, <1>4, <1>5, <1>6 DEF Core, TypeOK

LEMMA CountRestartsCore ==
  ASSUME Core, CountRestarts
  PROVE  Core'
PROOF
  <1>1. EntryOK'
    BY DEF CountRestarts, Done, Goto, Idle, EntryOK, TasksOK, Core, TypeOK
  <1>2. TasksOK'
    BY DEF CountRestarts, Done, Goto, Idle, EntryOK, TasksOK, Steps, Task, Core,
        TypeOK
  <1>3. HoldsOK'
    BY DEF CountRestarts, Done, Goto, Idle, EntryOK, TasksOK, HoldsOK,
        HandleWhenRunning, At, Task, Core, TypeOK
  <1>4. ConnectionsOK'
    BY DEF CountRestarts, Done, Goto, Idle, connections, processes,
        ConnectionsOK, Task, Core, TypeOK
  <1>5. HandleWhenRunning'
    BY DEF CountRestarts, Done, Goto, Idle, EntryOK, TasksOK, HoldsOK,
        HandleWhenRunning, At, Task, Core, TypeOK
  <1>6. TransportIsLinked'
    BY DEF CountRestarts, Done, Goto, Idle, connections, processes,
        ConnectionsOK, TransportIsLinked, Core, TypeOK
  <1> QED
    BY <1>1, <1>2, <1>3, <1>4, <1>5, <1>6 DEF Core, TypeOK

LEMMA ReviveCore ==
  ASSUME Core, Revive
  PROVE  Core'
PROOF
  <1>1. EntryOK'
    BY RestartedEntry DEF Revive, EntryOK, Core, TypeOK
  <1>2. TasksOK'
    BY DEF Revive, begin_restart, Restartable, Stopping, Done, Idle, EntryOK,
        TasksOK, Steps, Task, Core, TypeOK
  <1>3. HoldsOK'
    BY DEF Revive, begin_restart, Restartable, Stopping, Done, Idle, EntryOK,
        TasksOK, HoldsOK, HandleWhenRunning, At, Task, Core, TypeOK
  <1>4. ConnectionsOK'
    BY DEF Revive, begin_restart, Restartable, Stopping, Done, Idle,
        connections, processes, ConnectionsOK, Task, Core, TypeOK
  <1>5. HandleWhenRunning'
    BY DEF Revive, begin_restart, Restartable, Stopping, Done, Idle, EntryOK,
        TasksOK, HoldsOK, HandleWhenRunning, At, Task, Core, TypeOK
  <1>6. TransportIsLinked'
    BY DEF Revive, begin_restart, Restartable, Stopping, Done, Idle,
        connections, processes, ConnectionsOK, TransportIsLinked, Core,
        TypeOK
  <1> QED
    BY <1>1, <1>2, <1>3, <1>4, <1>5, <1>6 DEF Core, TypeOK

LEMMA KillChildCore ==
  ASSUME Core, NEW t \in Task, KillChild(t)
  PROVE  Core'
PROOF
  <1>1. EntryOK'
    BY DEF KillChild, Goto, EntryOK, TasksOK, Task, Core, TypeOK
  <1>2. TasksOK'
    BY DEF KillChild, Goto, EntryOK, TasksOK, Steps, Task, Core, TypeOK
  <1>3. HoldsOK'
    BY DEF KillChild, Goto, EntryOK, TasksOK, HoldsOK, HandleWhenRunning, At,
        Task, Core, TypeOK
  <1>4. ConnectionsOK'
    BY DEF KillChild, Goto, connections, processes, ConnectionsOK, Task, Core,
        TypeOK
  <1>5. HandleWhenRunning'
    BY DEF KillChild, Goto, EntryOK, TasksOK, HoldsOK, HandleWhenRunning, At,
        Task, Core, TypeOK
  <1>6. TransportIsLinked'
    BY DEF KillChild, Goto, connections, processes, ConnectionsOK,
        TransportIsLinked, Core, TypeOK
  <1> QED
    BY <1>1, <1>2, <1>3, <1>4, <1>5, <1>6 DEF Core, TypeOK

LEMMA UnlinkCore ==
  ASSUME Core, NEW t \in Task, Unlink(t)
  PROVE  Core'
PROOF
  <1>1. EntryOK'
    BY DEF Unlink, EntryOK, TasksOK, Task, Core, TypeOK
  <1>2. TasksOK'
    BY DEF Unlink, EntryOK, TasksOK, Steps, Task, Core, TypeOK
  <1>3. HoldsOK'
    BY DEF Unlink, EntryOK, TasksOK, HoldsOK, HandleWhenRunning, At, Task, Core,
        TypeOK
  <1>4. ConnectionsOK'
    BY DEF Unlink, connections, processes, ConnectionsOK, Task, Core, TypeOK
  <1>5. HandleWhenRunning'
    BY DEF Unlink, EntryOK, TasksOK, HoldsOK, HandleWhenRunning, At, Task, Core,
        TypeOK
  <1>6. TransportIsLinked'
    BY DEF Unlink, connections, processes, ConnectionsOK, TransportIsLinked,
        Core, TypeOK
  <1> QED
    BY <1>1, <1>2, <1>3, <1>4, <1>5, <1>6 DEF Core, TypeOK

LEMMA WatchCore ==
  ASSUME Core, NEW t \in Task, Watch(t)
  PROVE  Core'
PROOF
  <1>1. EntryOK'
    BY DEF Watch, Goto, EntryOK, TasksOK, Task, Core, TypeOK
  <1>2. TasksOK'
    BY DEF Watch, Goto, EntryOK, TasksOK, Steps, Task, Core, TypeOK
  <1>3. HoldsOK'
    BY DEF Watch, Goto, EntryOK, TasksOK, HoldsOK, HandleWhenRunning, At, Task,
        Core, TypeOK
  <1>4. ConnectionsOK'
    BY DEF Watch, Goto, connections, processes, ConnectionsOK, Task, Core,
        TypeOK
  <1>5. HandleWhenRunning'
    BY DEF Watch, Goto, EntryOK, TasksOK, HoldsOK, HandleWhenRunning, At, Task,
        Core, TypeOK
  <1>6. TransportIsLinked'
    BY DEF Watch, Goto, connections, processes, ConnectionsOK,
        TransportIsLinked, Core, TypeOK
  <1> QED
    BY <1>1, <1>2, <1>3, <1>4, <1>5, <1>6 DEF Core, TypeOK

LEMMA SpawnChildCore ==
  ASSUME Core, NEW t \in Task, SpawnChild(t)
  PROVE  Core'
PROOF
  <1>1. EntryOK'
    BY DEF SpawnChild, Goto, EntryOK, TasksOK, Task, Core, TypeOK
  <1>2. TasksOK'
    BY DEF SpawnChild, Goto, EntryOK, TasksOK, Steps, Task, Core, TypeOK
  <1>3. HoldsOK'
    BY DEF SpawnChild, Goto, TasksOK, HoldsOK, ConnectionsOK, At, Task, Core, TypeOK
  <1>4. ConnectionsOK'
    BY DEF SpawnChild, Goto, connections, processes, ConnectionsOK, Task, Core,
        TypeOK
  <1>5. HandleWhenRunning'
    BY DEF SpawnChild, Goto, EntryOK, TasksOK, HoldsOK, HandleWhenRunning, At,
        Task, Core, TypeOK
  <1>6. TransportIsLinked'
    BY DEF SpawnChild, Goto, connections, processes, ConnectionsOK,
        TransportIsLinked, Core, TypeOK
  <1> QED
    BY <1>1, <1>2, <1>3, <1>4, <1>5, <1>6 DEF Core, TypeOK

LEMMA AwaitCore ==
  ASSUME Core, NEW t \in Task, Await(t)
  PROVE  Core'
PROOF
  <1>1. EntryOK'
    BY DEF Await, Goto, EntryOK, TasksOK, Task, Core, TypeOK
  <1>2. TasksOK'
    BY DEF Await, Goto, EntryOK, TasksOK, Steps, Task, Core, TypeOK
  <1>3. HoldsOK'
    BY DEF Await, Goto, EntryOK, TasksOK, HoldsOK, HandleWhenRunning, At, Task,
        Core, TypeOK
  <1>4. ConnectionsOK'
    BY DEF Await, Goto, connections, processes, ConnectionsOK, Task, Core,
        TypeOK
  <1>5. HandleWhenRunning'
    BY DEF Await, Goto, EntryOK, TasksOK, HoldsOK, HandleWhenRunning, At, Task,
        Core, TypeOK
  <1>6. TransportIsLinked'
    BY DEF Await, Goto, connections, processes, ConnectionsOK,
        TransportIsLinked, Core, TypeOK
  <1> QED
    BY <1>1, <1>2, <1>3, <1>4, <1>5, <1>6 DEF Core, TypeOK

LEMMA CompleteCore ==
  ASSUME Core, NEW t \in Task, Complete(t)
  PROVE  Core'
PROOF
  <1>1. EntryOK'
    BY DEF Complete, complete_create, Done, Idle, EntryOK, TasksOK, Task, Core,
        TypeOK
  <1>2. TasksOK'
    BY DEF Complete, complete_create, Done, Idle, EntryOK, TasksOK, Steps, Task,
        Core, TypeOK
  <1>3. HoldsOK'
    BY DEF Complete, complete_create, Done, Idle, EntryOK, TasksOK, HoldsOK,
        HandleWhenRunning, At, Task, Core, TypeOK
  <1>4. ConnectionsOK'
    BY DEF Complete, complete_create, Done, Idle, connections, processes,
        ConnectionsOK, Task, Core, TypeOK
  <1>5. HandleWhenRunning'
    BY DEF Complete, complete_create, Done, Idle, EntryOK, TasksOK, HoldsOK,
        HandleWhenRunning, At, Task, Core, TypeOK
  <1>6. TransportIsLinked'
    BY DEF Complete, complete_create, Done, Idle, connections, processes,
        ConnectionsOK, TransportIsLinked, Core, TypeOK
  <1> QED
    BY <1>1, <1>2, <1>3, <1>4, <1>5, <1>6 DEF Core, TypeOK

LEMMA FailCore ==
  ASSUME Core, NEW t \in Task, Fail(t)
  PROVE  Core'
PROOF
  <1>1. EntryOK'
    BY DEF Fail, mark_failed, Done, Idle, EntryOK, TasksOK, Task, Core, TypeOK
  <1>2. TasksOK'
    BY DEF Fail, mark_failed, Done, Idle, EntryOK, TasksOK, Steps, Task, Core,
        TypeOK
  <1>3. HoldsOK'
    BY DEF Fail, mark_failed, Done, Idle, EntryOK, TasksOK, HoldsOK,
        HandleWhenRunning, At, Task, Core, TypeOK
  <1>4. ConnectionsOK'
    BY DEF Fail, mark_failed, Done, Idle, connections, processes, ConnectionsOK,
        Task, Core, TypeOK
  <1>5. HandleWhenRunning'
    BY DEF Fail, mark_failed, Done, Idle, EntryOK, TasksOK, HoldsOK,
        HandleWhenRunning, At, Task, Core, TypeOK
  <1>6. TransportIsLinked'
    BY DEF Fail, mark_failed, Done, Idle, connections, processes, ConnectionsOK,
        TransportIsLinked, Core, TypeOK
  <1> QED
    BY <1>1, <1>2, <1>3, <1>4, <1>5, <1>6 DEF Core, TypeOK

LEMMA ConnectCore ==
  ASSUME Core, NEW i \in 1 .. spawned, Connect(i)
  PROVE  Core'
PROOF
  <1>1. EntryOK'
    BY DEF Connect, EntryOK, TasksOK, Core, TypeOK
  <1>2. TasksOK'
    BY DEF Connect, EntryOK, TasksOK, Steps, Task, Core, TypeOK
  <1>3. HoldsOK'
    BY DEF Connect, EntryOK, TasksOK, HoldsOK, HandleWhenRunning, At, Task,
        Core, TypeOK
  <1>4. ConnectionsOK'
    BY DEF Connect, connections, processes, ConnectionsOK, Task, Core, TypeOK
  <1>5. HandleWhenRunning'
    BY DEF Connect, EntryOK, TasksOK, HoldsOK, HandleWhenRunning, At, Task,
        Core, TypeOK
  <1>6. TransportIsLinked'
    BY DEF Connect, connections, processes, ConnectionsOK, TransportIsLinked,
        Core, TypeOK
  <1> QED
    BY <1>1, <1>2, <1>3, <1>4, <1>5, <1>6 DEF Core, TypeOK

LEMMA LinkClosedCore ==
  ASSUME Core, NEW i \in 1 .. spawned, LinkClosed(i)
  PROVE  Core'
PROOF
  <1>1. EntryOK'
    BY DEF LinkClosed, EntryOK, TasksOK, Core, TypeOK
  <1>2. TasksOK'
    BY DEF LinkClosed, EntryOK, TasksOK, Steps, Task, Core, TypeOK
  <1>3. HoldsOK'
    BY DEF LinkClosed, EntryOK, TasksOK, HoldsOK, HandleWhenRunning, At, Task,
        Core, TypeOK
  <1>4. ConnectionsOK'
    BY DEF LinkClosed, connections, processes, ConnectionsOK, Task, Core, TypeOK
  <1>5. HandleWhenRunning'
    BY DEF LinkClosed, EntryOK, TasksOK, HoldsOK, HandleWhenRunning, At, Task,
        Core, TypeOK
  <1>6. TransportIsLinked'
    BY DEF LinkClosed, connections, processes, ConnectionsOK, TransportIsLinked,
        Core, TypeOK
  <1> QED
    BY <1>1, <1>2, <1>3, <1>4, <1>5, <1>6 DEF Core, TypeOK

LEMMA DroppedCore ==
  ASSUME Core, NEW i \in 1 .. spawned, Dropped(i)
  PROVE  Core'
PROOF
  <1>1. EntryOK'
    BY DEF Dropped, EntryOK, TasksOK, Core, TypeOK
  <1>2. TasksOK'
    BY DEF Dropped, EntryOK, TasksOK, Steps, Task, Core, TypeOK
  <1>3. HoldsOK'
    BY DEF Dropped, EntryOK, TasksOK, HoldsOK, HandleWhenRunning, At, Task,
        Core, TypeOK
  <1>4. ConnectionsOK'
    BY DEF Dropped, connections, processes, ConnectionsOK, Task, Core, TypeOK
  <1>5. HandleWhenRunning'
    BY DEF Dropped, EntryOK, TasksOK, HoldsOK, HandleWhenRunning, At, Task,
        Core, TypeOK
  <1>6. TransportIsLinked'
    BY DEF Dropped, connections, processes, ConnectionsOK, TransportIsLinked,
        Core, TypeOK
  <1> QED
    BY <1>1, <1>2, <1>3, <1>4, <1>5, <1>6 DEF Core, TypeOK

LEMMA DiesCore ==
  ASSUME Core, NEW i \in 1 .. spawned, Dies(i)
  PROVE  Core'
PROOF
  <1>1. EntryOK'
    BY DEF Dies, EntryOK, TasksOK, Core, TypeOK
  <1>2. TasksOK'
    BY DEF Dies, EntryOK, TasksOK, Steps, Task, Core, TypeOK
  <1>3. HoldsOK'
    BY DEF Dies, EntryOK, TasksOK, HoldsOK, HandleWhenRunning, At, Task, Core,
        TypeOK
  <1>4. ConnectionsOK'
    BY DEF Dies, connections, processes, ConnectionsOK, Task, Core, TypeOK
  <1>5. HandleWhenRunning'
    BY DEF Dies, EntryOK, TasksOK, HoldsOK, HandleWhenRunning, At, Task, Core,
        TypeOK
  <1>6. TransportIsLinked'
    BY DEF Dies, connections, processes, ConnectionsOK, TransportIsLinked, Core,
        TypeOK
  <1> QED
    BY <1>1, <1>2, <1>3, <1>4, <1>5, <1>6 DEF Core, TypeOK

LEMMA DiesConnectingCore ==
  ASSUME Core, NEW i \in 1 .. spawned, DiesConnecting(i)
  PROVE  Core'
PROOF
  <1>1. EntryOK'
    BY DEF DiesConnecting, EntryOK, TasksOK, Core, TypeOK
  <1>2. TasksOK'
    BY DEF DiesConnecting, EntryOK, TasksOK, Steps, Task, Core, TypeOK
  <1>3. HoldsOK'
    BY DEF DiesConnecting, EntryOK, TasksOK, HoldsOK, HandleWhenRunning, At,
        Task, Core, TypeOK
  <1>4. ConnectionsOK'
    <2>1. /\ listening' \in BOOLEAN /\ deaths' = deaths + 1
          /\ children' \subseteq children
          /\ UNCHANGED <<ready, waiter, spawned, commands, transport>>
      BY DEF DiesConnecting
    <2> QED
      BY <2>1 DEF Core, TypeOK, ConnectionsOK
  <1>5. HandleWhenRunning'
    BY DEF DiesConnecting, EntryOK, TasksOK, HoldsOK, HandleWhenRunning, At,
        Task, Core, TypeOK
  <1>6. TransportIsLinked'
    BY DEF DiesConnecting, connections, processes, ConnectionsOK,
        TransportIsLinked, Core, TypeOK
  <1> QED
    BY <1>1, <1>2, <1>3, <1>4, <1>5, <1>6 DEF Core, TypeOK

-----------------------------------------------------------------------------
LEMMA NextCore == Core /\ [Next]_vars => Core'
PROOF
  <1> SUFFICES ASSUME Core, [Next]_vars PROVE Core'
    OBVIOUS
  <1>1. CASE \E op \in {"create", "destroy", "restart"} : Command(op)
    BY <1>1, CommandCore
  <1>2. CASE CompleteStop \/ Health
    BY <1>2, CompleteStopCore, SnapshotCore, CheckCore, MarkUnhealthyCore,
       CountRestartsCore, ReviveCore
    DEF Health
  <1>3. CASE \E t \in Task : TaskStep(t)
    BY <1>3, KillChildCore, UnlinkCore, WatchCore, SpawnChildCore, AwaitCore,
       CompleteCore, FailCore
    DEF TaskStep
  <1>4. CASE \E i \in 1 .. spawned : \/ Connect(i) \/ LinkClosed(i) \/ Dropped(i)
                                     \/ Dies(i) \/ DiesConnecting(i)
    BY <1>4, ConnectCore, LinkClosedCore, DroppedCore, DiesCore, DiesConnectingCore
  <1>5. CASE UNCHANGED vars
    BY <1>5
    DEF vars, Core, TypeOK, EntryOK, TasksOK, HoldsOK, ConnectionsOK, At,
        HandleWhenRunning, TransportIsLinked
  <1> QED
    BY <1>1, <1>2, <1>3, <1>4, <1>5 DEF Next

(* In every mix of dispatch loop, health check and connection handlers the *)
(* registry entry holds a handle exactly when it is Running, and in quiet  *)
(* tool calls reach its child or none (registry.rs, executor.rs).          *)
THEOREM LifecycleInvariance == Spec => []Inv
PROOF
  <1>1. Core => Inv
    BY CoreSuffices DEF Core, Inv
  <1> QED
    BY <1>1, InitCore, NextCore, PTL DEF Spec

===============================================================================
