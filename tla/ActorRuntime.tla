---------------------------- MODULE ActorRuntime ----------------------------
(***************************************************************************)
(* The event-sourced actor runtime: spawned actors that recover from the   *)
(* journal, take commands one at a time, and carry out the CommandEffect   *)
(* each command returns.  The journal operations of one effect are awaited *)
(* one by one, so the process can die between any two of them, and each of *)
(* them can fail.                                                          *)
(***************************************************************************)
EXTENDS EventJournal

CONSTANTS Pid,       \* persistence ids
          Batch,     \* the event vectors a command may persist
          MaxEvents  \* bound: the longest state an actor may grow

ASSUME BatchAssumption == Batch \subseteq Seq(Event) /\ <<>> \in Batch

VARIABLES
  journal,  \* journal[p]: p's entry; survives the process
  phase,    \* phase[p]: where run_actor is
  state,    \* state[p]: the folded state of a live actor
  seq_nr,   \* seq_nr[p]: number of the last event folded into it
  stream,   \* stream[p]: the replayed events still to be folded
  effect    \* effect[p]: the CommandEffect being carried out

vars == <<journal, phase, state, seq_nr, stream, effect>>

Phase == {"down", "recovering", "opening", "replaying", "idle",
          "persisting", "applying", "snapshotting", "compacting"}

EffectKind == {"None", "Persist", "PersistAndSnapshot", "Snapshot",
               "PersistAndStop"}
NoEffect == [kind |-> "None", events |-> <<>>]
NoStream == [i \in {} |-> Lost]

Init ==
  /\ journal = [p \in Pid |-> EmptyEntry]
  /\ phase = [p \in Pid |-> "down"]
  /\ state = [p \in Pid |-> <<>>]
  /\ seq_nr = [p \in Pid |-> 0]
  /\ stream = [p \in Pid |-> NoStream]
  /\ effect = [p \in Pid |-> NoEffect]

(* The actors in S end: what they hold in memory is dropped.               *)
Ended(S) ==
  /\ phase'  = [p \in Pid |-> IF p \in S THEN "down" ELSE phase[p]]
  /\ state'  = [p \in Pid |-> IF p \in S THEN <<>> ELSE state[p]]
  /\ seq_nr' = [p \in Pid |-> IF p \in S THEN 0 ELSE seq_nr[p]]
  /\ stream' = [p \in Pid |-> IF p \in S THEN NoStream ELSE stream[p]]
  /\ effect' = [p \in Pid |-> IF p \in S THEN NoEffect ELSE effect[p]]

Moved(p, from, to) ==
  /\ phase[p] = from
  /\ phase' = [phase EXCEPT ![p] = to]

-----------------------------------------------------------------------------
(* Recovery.                                                               *)

(* spawn_inner: the task starts by recovering.                             *)
Spawn(p) ==
  /\ Moved(p, "down", "recovering")
  /\ UNCHANGED <<journal, state, seq_nr, stream, effect>>

(* The latest snapshot, or the initial state and zero.                     *)
LoadSnapshot(p) ==
  /\ Moved(p, "recovering", "opening")
  /\ state' = [state EXCEPT ![p] = SnapshotState(journal[p])]
  /\ seq_nr' = [seq_nr EXCEPT ![p] = SnapshotSeq(journal[p])]
  /\ UNCHANGED <<journal, stream, effect>>

(* Mutant: the replay starts from the first event, snapshot or not.        *)
OpenReplayAll(p) ==
  /\ Moved(p, "opening", "replaying")
  /\ stream' = [stream EXCEPT ![p] = Replayed(journal[p], 0)]
  /\ UNCHANGED <<journal, state, seq_nr, effect>>

OpenReplay(p) ==
  /\ Moved(p, "opening", "replaying")
  /\ stream' = [stream EXCEPT ![p] = Replayed(journal[p], seq_nr[p])]
  /\ UNCHANGED <<journal, state, seq_nr, effect>>

(* One turn of the replay loop: the next event, counted by the actor.      *)
ReplayEvent(p) ==
  /\ phase[p] = "replaying"
  /\ \E i \in DOMAIN stream[p] :
       /\ \A j \in DOMAIN stream[p] : i <= j
       /\ state' = [state EXCEPT ![p] = Append(@, stream[p][i])]
       /\ stream' = [stream EXCEPT ![p] =
                       [j \in DOMAIN stream[p] \ {i} |-> stream[p][j]]]
  /\ seq_nr' = [seq_nr EXCEPT ![p] = @ + 1]
  /\ UNCHANGED <<journal, phase, effect>>

RecoveryComplete(p) ==
  /\ Moved(p, "replaying", "idle")
  /\ DOMAIN stream[p] = {}
  /\ UNCHANGED <<journal, state, seq_nr, stream, effect>>

(* The journal or the decoding fails: the actor shuts down.                *)
RecoveryFails(p) ==
  /\ phase[p] \in {"recovering", "opening", "replaying"}
  /\ Ended({p})
  /\ UNCHANGED journal

-----------------------------------------------------------------------------
(* Commands.                                                               *)

(* handle_command has returned an effect that persists or snapshots.       *)
Handle(p, kind, batch) ==
  /\ phase[p] = "idle"
  /\ kind \in EffectKind \ {"None"}
  /\ kind = "Snapshot" => batch = <<>>
  /\ Len(state[p]) + Len(batch) <= MaxEvents
  /\ phase' = [phase EXCEPT ![p] =
                 IF kind = "Snapshot" THEN "snapshotting" ELSE "persisting"]
  /\ effect' = [effect EXCEPT ![p] = [kind |-> kind, events |-> batch]]
  /\ UNCHANGED <<journal, state, seq_nr, stream>>

(* What run_actor does once persist_events has returned.                   *)
AfterPersist(p) ==
  CASE effect[p].kind = "Persist"            -> "idle"
    [] effect[p].kind = "PersistAndSnapshot" -> "snapshotting"
    [] OTHER                                 -> "down"

(* The actor goes on after persist_events, with state st at number n.      *)
PersistReturns(p, st, n) ==
  LET next == AfterPersist(p) IN
  /\ phase'  = [phase EXCEPT ![p] = next]
  /\ state'  = [state EXCEPT ![p] = IF next = "down" THEN <<>> ELSE st]
  /\ seq_nr' = [seq_nr EXCEPT ![p] = IF next = "down" THEN 0 ELSE n]
  /\ effect' = [effect EXCEPT ![p] =
                  IF next = "snapshotting" THEN @ ELSE NoEffect]
  /\ UNCHANGED stream

(* journal.persist stores the batch ...                                    *)
PersistOk(p) ==
  /\ Moved(p, "persisting", "applying")
  /\ journal' = [journal EXCEPT ![p] = Persisted(@, effect[p].events)]
  /\ UNCHANGED <<state, seq_nr, stream, effect>>

(* ... and once its Ok arrives the events are folded and counted.          *)
ApplyEvents(p) ==
  /\ phase[p] = "applying"
  /\ PersistReturns(p, state[p] \o effect[p].events,
                       seq_nr[p] + Len(effect[p].events))
  /\ UNCHANGED journal

(* Mutant: the events are folded before their persist has succeeded.       *)
PersistErrFolds(p) ==
  /\ phase[p] = "persisting"
  /\ PersistReturns(p, state[p] \o effect[p].events,
                       seq_nr[p] + Len(effect[p].events))
  /\ UNCHANGED journal

(* An event cannot be encoded, or the journal refuses the batch.           *)
PersistErr(p) ==
  /\ phase[p] = "persisting"
  /\ PersistReturns(p, state[p], seq_nr[p])
  /\ UNCHANGED journal

SnapshotOk(p) ==
  /\ Moved(p, "snapshotting", "compacting")
  /\ journal' = [journal EXCEPT ![p] = Snapshotted(@, state[p], seq_nr[p])]
  /\ UNCHANGED <<state, seq_nr, stream, effect>>

(* Mutant: the log is compacted though no snapshot was saved.              *)
SnapshotErrCompacts(p) ==
  /\ Moved(p, "snapshotting", "compacting")
  /\ UNCHANGED <<journal, state, seq_nr, stream, effect>>

SnapshotErr(p) ==
  /\ Moved(p, "snapshotting", "idle")
  /\ effect' = [effect EXCEPT ![p] = NoEffect]
  /\ UNCHANGED <<journal, state, seq_nr, stream>>

CompactOk(p) ==
  /\ Moved(p, "compacting", "idle")
  /\ journal' = [journal EXCEPT ![p] = Compacted(@, seq_nr[p])]
  /\ effect' = [effect EXCEPT ![p] = NoEffect]
  /\ UNCHANGED <<state, seq_nr, stream>>

(* Mutant: a failed compaction is retried from the snapshot on.            *)
CompactErrRetries(p) ==
  /\ Moved(p, "compacting", "snapshotting")
  /\ UNCHANGED <<journal, state, seq_nr, stream, effect>>

CompactErr(p) ==
  /\ Moved(p, "compacting", "idle")
  /\ effect' = [effect EXCEPT ![p] = NoEffect]
  /\ UNCHANGED <<journal, state, seq_nr, stream>>

(* CommandEffect::Stop.  The mailbox never closes by itself: the actor's   *)
(* own context holds a sender.                                             *)
Stop(p) ==
  /\ phase[p] = "idle"
  /\ Ended({p})
  /\ UNCHANGED journal

-----------------------------------------------------------------------------
(* Another actor copies the snapshot of `from` onto a fresh id (on_fork).  *)
CopySnapshot(from, to) ==
  /\ phase[to] = "down"
  /\ journal[to] = EmptyEntry
  /\ journal[from].snapshot # NoSnapshot
  /\ journal' = [journal EXCEPT ![to] = Copied(journal[from])]
  /\ UNCHANGED <<phase, state, seq_nr, stream, effect>>

(* The process dies, and every actor with it.                              *)
Crash ==
  /\ \E p \in Pid : phase[p] # "down"
  /\ Ended(Pid)
  /\ UNCHANGED journal

Step(p) ==
  \/ LoadSnapshot(p) \/ OpenReplay(p) \/ ReplayEvent(p) \/ RecoveryComplete(p)
  \/ PersistOk(p) \/ PersistErr(p) \/ ApplyEvents(p)
  \/ SnapshotOk(p) \/ SnapshotErr(p) \/ CompactOk(p) \/ CompactErr(p)

Next ==
  \/ \E p \in Pid : Spawn(p) \/ Step(p) \/ RecoveryFails(p) \/ Stop(p)
  \/ \E p \in Pid, kind \in EffectKind, batch \in Batch :
       Handle(p, kind, batch)
  \/ \E from, to \in Pid : CopySnapshot(from, to)
  \/ Crash

Spec == Init /\ [][Next]_vars

(* The runtime schedules every task: a started operation takes its next    *)
(* step.  Nobody has to send commands, and nothing has to fail.            *)
FairSpec == Spec /\ \A p \in Pid : WF_vars(Step(p))

-----------------------------------------------------------------------------
(* Properties.                                                             *)

(* Types, and which phases carry out an effect or read a stream.  Events   *)
(* are numbered from 1 to last_seq (journal.rs, "1-based and monotonic").  *)
EntryOK(e) ==
  /\ e = [events |-> e.events, last_seq |-> e.last_seq, snapshot |-> e.snapshot]
  /\ e.last_seq \in Nat
  /\ e.events = [i \in DOMAIN e.events |-> e.events[i]]
  /\ DOMAIN e.events \subseteq 1 .. e.last_seq
  /\ \A i \in DOMAIN e.events : e.events[i] \in Event
  /\ e.snapshot \in Snapshot \cup {NoSnapshot}

StreamOK(st) ==
  /\ st = [i \in DOMAIN st |-> st[i]]
  /\ DOMAIN st \subseteq Nat
  /\ \A i \in DOMAIN st : st[i] \in Event

TypeOK ==
  /\ phase \in [Pid -> Phase]
  /\ state \in [Pid -> State]
  /\ seq_nr \in [Pid -> Nat]
  /\ effect \in [Pid -> [kind : EffectKind, events : Batch]]
  /\ stream = [p \in Pid |-> stream[p]] /\ \A p \in Pid : StreamOK(stream[p])
  /\ journal = [p \in Pid |-> journal[p]] /\ \A p \in Pid : EntryOK(journal[p])

(* Recovery can rebuild everything ever persisted: each number up to       *)
(* last_seq is in the snapshot or still in the event log, through every    *)
(* order of saving a snapshot, compacting, failing and crashing.           *)
NothingLost ==
  \A p \in Pid : \A i \in 1 .. journal[p].last_seq :
    Logged(journal[p])[i] # Lost

(* "live operation and crash recovery follow the exact same path"          *)
(* (actor.rs): the state a command is handled with is the fold of the      *)
(* whole log, whether it was recovered or lived through, and the actor     *)
(* counts as the journal does.                                             *)
IdleStateIsTheLog ==
  \A p \in Pid :
    phase[p] = "idle" => /\ state[p] = Logged(journal[p])
                         /\ seq_nr[p] = journal[p].last_seq

(* st is the fold of the first n events of the log of e.                   *)
IsFold(e, st, n) ==
  /\ n = Len(st)
  /\ n <= e.last_seq
  /\ \A i \in 1 .. n : st[i] = Logged(e)[i]

(* The snapshot folds exactly the events up to its number, and the events  *)
(* that follow are there.                                                  *)
EntryInv(e) ==
  /\ EntryOK(e)
  /\ SnapshotSeq(e) = Len(SnapshotState(e))
  /\ SnapshotSeq(e) <= e.last_seq
  /\ \A i \in 1 .. e.last_seq : i <= SnapshotSeq(e) \/ i \in DOMAIN e.events

(* What an actor in phase ph knows of its entry e.  Recovery follows the   *)
(* log: the stream holds the rest of it, under the very numbers the actor  *)
(* will count.                                                             *)
ActorInv(e, ph, st, n, str, ef) ==
  /\ ph \in {"opening", "replaying"} => IsFold(e, st, n)
  /\ ph = "opening" => n = SnapshotSeq(e)
  /\ ph = "replaying" =>
       /\ DOMAIN str = n + 1 .. e.last_seq
       /\ \A i \in DOMAIN str : str[i] = Logged(e)[i]
  /\ ph \in {"idle", "persisting", "snapshotting", "compacting"} =>
       IsFold(e, st, n) /\ n = e.last_seq
  /\ ph = "applying" =>
       /\ IsFold(e, st, n)
       /\ e.last_seq = n + Len(ef.events)
       /\ \A i \in 1 .. Len(ef.events) : Logged(e)[n + i] = ef.events[i]
  /\ ph = "compacting" => SnapshotSeq(e) = n

(* The inductive invariant: in every phase the actor and its entry agree,  *)
(* also halfway through a persist, a snapshot or a recovery.               *)
IInv ==
  /\ TypeOK
  /\ \A p \in Pid :
       /\ EntryInv(journal[p])
       /\ ActorInv(journal[p], phase[p], state[p], seq_nr[p], stream[p],
                   effect[p])

(* No step, compaction and failed ones included, takes back or rewrites    *)
(* what was persisted: the log a recovery would read only grows.           *)
Grows(p) ==
  /\ journal'[p].last_seq >= journal[p].last_seq
  /\ \A i \in 1 .. journal[p].last_seq :
       Logged(journal'[p])[i] = Logged(journal[p])[i]

LogOnlyGrows == [][\A p \in Pid : Grows(p)]_vars

(* The runtime implements the durable actor: the log is what the journal   *)
(* stands for, and a command may write until its batch is stored.          *)
TurnIn(ph) ==
  CASE ph = "idle"       -> "idle"
    [] ph = "persisting" -> "open"
    [] ph \in {"applying", "snapshotting", "compacting"} -> "closed"
    [] OTHER             -> "offline"

TheLog  == [p \in Pid |-> Logged(journal[p])]
TheTurn == [p \in Pid |-> TurnIn(phase[p])]
TheView == [p \in Pid |-> IF phase[p] = "idle" THEN state[p] ELSE <<>>]

Durable == INSTANCE DurableActor WITH
  log <- TheLog, turn <- TheTurn, view <- TheView

(* One log per id that grows by whole batches, at most one for a command,  *)
(* and every idle actor holds its fold.                                    *)
ImplementsDurableActor == Durable!Spec

(* Every recovery and every command comes to an end: the actor waits for   *)
(* the next command or has stopped.                                        *)
ActorsSettle ==
  \A p \in Pid :
    phase[p] \notin {"idle", "down"} ~> phase[p] \in {"idle", "down"}
=============================================================================
