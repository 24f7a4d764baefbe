---------------------------- MODULE EventJournal ----------------------------
(***************************************************************************)
(* The in-memory journal of the actor crate: what each operation of the    *)
(* `Journal` trait does to the entry of one persistence id.                *)
(*                                                                         *)
(* Events are opaque, so an event is any element of Event.  The state an   *)
(* actor folds events into is modelled by the free fold, the sequence of   *)
(* the events applied so far: two runs end in the same state of every      *)
(* actor exactly when they applied the same sequence.                      *)
(***************************************************************************)
EXTENDS Integers, Sequences

CONSTANTS Event,       \* the events actors persist
          NoSnapshot,  \* `snapshot: None`
          Lost         \* a place of the log nothing stored can fill

(* States of an actor (the free fold), and what save_snapshot stores.      *)
State    == Seq(Event)
Snapshot == [state : State, seq_nr : Nat]

ASSUME NoSnapshotAssumption == NoSnapshot \notin Snapshot
ASSUME LostAssumption == Lost \notin Event

(* `Entry::default()`.  `events` is a partial function from sequence       *)
(* numbers: the vector of pairs in ascending order of their first member.  *)
EmptyEntry ==
  [events |-> [i \in {} |-> Lost], last_seq |-> 0, snapshot |-> NoSnapshot]

(* persist: every event gets the next sequence number.                     *)
Persisted(e, batch) ==
  [events   |-> [i \in DOMAIN e.events
                        \cup (e.last_seq + 1 .. e.last_seq + Len(batch)) |->
                   IF i \in DOMAIN e.events THEN e.events[i]
                   ELSE batch[i - e.last_seq]],
   last_seq |-> e.last_seq + Len(batch),
   snapshot |-> e.snapshot]

(* replay: the events after a sequence number.  The reader takes them in   *)
(* ascending order, but is not given their numbers.                        *)
Replayed(e, after) ==
  [i \in {s \in DOMAIN e.events : s > after} |-> e.events[i]]

(* save_snapshot: replaces the snapshot, and never lowers last_seq.        *)
Snapshotted(e, st, n) ==
  [events   |-> e.events,
   last_seq |-> IF n > e.last_seq THEN n ELSE e.last_seq,
   snapshot |-> [state |-> st, seq_nr |-> n]]

(* delete_events_before: what remains has a greater sequence number.       *)
Compacted(e, n) ==
  [events   |-> [i \in {s \in DOMAIN e.events : s > n} |-> e.events[i]],
   last_seq |-> e.last_seq,
   snapshot |-> e.snapshot]

(* Mutant of Copied: the numbering of the copy starts over.                *)
CopiedUnnumbered(from) ==
  [events |-> [i \in {} |-> Lost], last_seq |-> 0, snapshot |-> from.snapshot]

(* copy_snapshot: the entry of `to`, when `from` has a snapshot.           *)
Copied(from) ==
  [events   |-> [i \in {} |-> Lost],
   last_seq |-> from.snapshot.seq_nr,
   snapshot |-> from.snapshot]

-----------------------------------------------------------------------------
(* What an entry says: the latest snapshot as recovery reads it, and the   *)
(* whole log it stands for.  A place that neither the snapshot nor an      *)
(* event fills is Lost.                                                    *)

SnapshotState(e) == IF e.snapshot = NoSnapshot THEN <<>> ELSE e.snapshot.state
SnapshotSeq(e)   == IF e.snapshot = NoSnapshot THEN 0 ELSE e.snapshot.seq_nr

Logged(e) ==
  [i \in 1 .. e.last_seq |->
     IF i \in DOMAIN SnapshotState(e) THEN SnapshotState(e)[i]
     ELSE IF i \in DOMAIN e.events THEN e.events[i]
     ELSE Lost]
=============================================================================
