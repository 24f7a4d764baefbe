------------------------- MODULE ActorRuntimeProofs -------------------------
(***************************************************************************)
(* Proofs about the actor runtime, for any number of persistence ids, any  *)
(* set of events and batches, and logs of any length.                      *)
(***************************************************************************)
EXTENDS ActorRuntime, SequenceTheorems, TLAPS

-----------------------------------------------------------------------------
(* The journal operations, one entry at a time.                            *)

(* The latest snapshot is a state and its number a natural number.         *)
LEMMA SnapshotType ==
  ASSUME NEW e, EntryOK(e)
  PROVE  /\ SnapshotState(e) \in State
         /\ SnapshotSeq(e) \in Nat
  BY NoSnapshotAssumption DEF EntryOK, SnapshotState, SnapshotSeq, Snapshot, State

(* The log of a sound entry has no hole.                                   *)
LEMMA LoggedIsSeq ==
  ASSUME NEW e, EntryInv(e)
  PROVE  /\ Logged(e) \in Seq(Event)
         /\ Len(Logged(e)) = e.last_seq
         /\ \A i \in 1 .. e.last_seq : Logged(e)[i] \in Event
<1>1. /\ SnapshotState(e) \in Seq(Event)
      /\ e.last_seq \in Nat
  BY SnapshotType DEF EntryInv, EntryOK, State
<1>2. \A i \in 1 .. e.last_seq : Logged(e)[i] \in Event
  <2> TAKE i \in 1 .. e.last_seq
  <2>1. CASE i <= SnapshotSeq(e)
    BY <1>1, <2>1 DEF Logged, EntryInv
  <2>2. CASE i \in DOMAIN e.events
    BY <1>1, <2>2 DEF Logged, EntryInv, EntryOK
  <2> QED BY <2>1, <2>2 DEF EntryInv
<1>3. Logged(e) \in [1 .. e.last_seq -> Event]
  BY <1>2 DEF Logged
<1>4. QED
  BY <1>1, <1>2, <1>3

(* persist appends the batch to the log.                                   *)
LEMMA PersistedLog ==
  ASSUME NEW e, EntryInv(e), NEW batch \in Seq(Event)
  PROVE  /\ EntryInv(Persisted(e, batch))
         /\ Logged(Persisted(e, batch)) = Logged(e) \o batch
         /\ Persisted(e, batch).last_seq = e.last_seq + Len(batch)
<1> DEFINE f == Persisted(e, batch)
           n == e.last_seq
           D == DOMAIN e.events \cup (n + 1 .. n + Len(batch))
<1>1. /\ n \in Nat
      /\ Len(batch) \in Nat
      /\ DOMAIN e.events \subseteq 1 .. n
      /\ \A i \in DOMAIN e.events : e.events[i] \in Event
  BY DEF EntryInv, EntryOK
<1>2. f = [events |-> [i \in D |-> IF i \in DOMAIN e.events THEN e.events[i]
                                   ELSE batch[i - n]],
           last_seq |-> n + Len(batch), snapshot |-> e.snapshot]
  BY DEF Persisted
<1> HIDE DEF f
<1>3. /\ SnapshotState(f) = SnapshotState(e)
      /\ SnapshotSeq(f) = SnapshotSeq(e)
  BY <1>2 DEF SnapshotState, SnapshotSeq
<1>4. EntryOK(f)
  <2>1. \A i \in D : f.events[i] \in Event
    BY <1>1, <1>2
  <2> QED BY <1>1, <1>2, <2>1 DEF EntryOK, EntryInv
<1>5. EntryInv(f)
  <2>1. /\ f.last_seq = n + Len(batch)
        /\ DOMAIN f.events = D
    BY <1>2
  <2>2. SnapshotSeq(e) \in Nat /\ SnapshotSeq(e) <= n
    BY SnapshotType DEF EntryInv
  <2>3. \A i \in 1 .. n + Len(batch) : i <= SnapshotSeq(e) \/ i \in D
    BY <1>1 DEF EntryInv
  <2> QED BY <1>1, <1>3, <1>4, <2>1, <2>2, <2>3 DEF EntryInv
<1>6. \A i \in 1 .. n + Len(batch) : Logged(f)[i] = (Logged(e) \o batch)[i]
  <2> TAKE i \in 1 .. n + Len(batch)
  <2>1. (Logged(e) \o batch)[i] = IF i <= n THEN Logged(e)[i] ELSE batch[i - n]
    BY <1>1, LoggedIsSeq, ConcatProperties
  <2>2. CASE i <= n
    BY <1>1, <1>2, <1>3, <2>1, <2>2 DEF Logged
  <2>3. CASE i > n
    <3>1. i \notin DOMAIN SnapshotState(e)
      BY <1>1, <2>3, SnapshotType DEF EntryInv, State
    <3>2. i \in D /\ i \notin DOMAIN e.events
      BY <1>1, <2>3
    <3>3. f.last_seq = n + Len(batch) /\ DOMAIN f.events = D
          /\ f.events[i] = batch[i - n]
      BY <1>2, <3>2
    <3>4. Logged(f)[i] = batch[i - n]
      BY <1>1, <1>3, <3>1, <3>2, <3>3 DEF Logged
    <3> QED BY <1>1, <2>1, <2>3, <3>4
  <2>4. i <= n \/ i > n
    BY <1>1
  <2> QED BY <2>2, <2>3, <2>4
<1>7. /\ Logged(f) \in Seq(Event) /\ Len(Logged(f)) = n + Len(batch)
      /\ Logged(e) \o batch \in Seq(Event)
      /\ Len(Logged(e) \o batch) = n + Len(batch)
  BY <1>2, <1>5, LoggedIsSeq, ConcatProperties
<1>8. Logged(f) = Logged(e) \o batch
  BY <1>6, <1>7, SeqEqual
<1>9. f.last_seq = n + Len(batch)
  BY <1>2
<1>10. QED
  BY <1>5, <1>8, <1>9 DEF f

(* A snapshot of the whole log changes nothing of it.                      *)
LEMMA SnapshottedLog ==
  ASSUME NEW e, EntryInv(e), NEW st \in State, NEW n \in Nat,
         IsFold(e, st, n), n = e.last_seq
  PROVE  /\ EntryInv(Snapshotted(e, st, n))
         /\ Logged(Snapshotted(e, st, n)) = Logged(e)
         /\ Snapshotted(e, st, n).last_seq = e.last_seq
         /\ SnapshotSeq(Snapshotted(e, st, n)) = n
<1> DEFINE f == Snapshotted(e, st, n)
<1>1. f = [events |-> e.events, last_seq |-> n,
           snapshot |-> [state |-> st, seq_nr |-> n]]
  BY DEF Snapshotted
<1> HIDE DEF f
<1>2. f.snapshot \in Snapshot /\ f.snapshot # NoSnapshot
  BY <1>1, NoSnapshotAssumption DEF Snapshot
<1>3. SnapshotState(f) = st /\ SnapshotSeq(f) = n
  BY <1>1, <1>2 DEF SnapshotState, SnapshotSeq
<1>4. EntryOK(f)
  BY <1>1, <1>2 DEF EntryOK, EntryInv
<1>5. EntryInv(f)
  <2>1. f.last_seq = n /\ \A i \in 1 .. n : i <= n
    BY <1>1
  <2> QED BY <1>3, <1>4, <2>1 DEF EntryInv, IsFold
<1>6. \A i \in 1 .. n : Logged(f)[i] = Logged(e)[i]
  <2>1. f.last_seq = n
    BY <1>1
  <2>4. DOMAIN st = 1 .. n
    BY LenProperties DEF IsFold, State
  <2>2. \A i \in 1 .. f.last_seq :
          i \in DOMAIN SnapshotState(f) => Logged(f)[i] = SnapshotState(f)[i]
    BY DEF Logged
  <2>3. \A i \in 1 .. n : Logged(f)[i] = st[i]
    BY <1>3, <2>1, <2>2, <2>4
  <2> QED BY <2>3 DEF IsFold
<1>7. Logged(f) = Logged(e)
  BY <1>1, <1>5, <1>6, LoggedIsSeq, SeqEqual
<1>8. QED
  BY <1>1, <1>3, <1>5, <1>7 DEF f

(* Dropping the events that the snapshot folds changes nothing of the log. *)
LEMMA CompactedLog ==
  ASSUME NEW e, EntryInv(e)
  PROVE  /\ EntryInv(Compacted(e, SnapshotSeq(e)))
         /\ Logged(Compacted(e, SnapshotSeq(e))) = Logged(e)
         /\ Compacted(e, SnapshotSeq(e)).last_seq = e.last_seq
<1> DEFINE n == SnapshotSeq(e)
           f == Compacted(e, n)
<1>1. f = [events |-> [i \in {s \in DOMAIN e.events : s > n} |-> e.events[i]],
           last_seq |-> e.last_seq, snapshot |-> e.snapshot]
  BY DEF Compacted
<1>2. n \in Nat /\ DOMAIN SnapshotState(e) = 1 .. n
  BY SnapshotType DEF EntryInv, State
<1> HIDE DEF f, n
<1>3. SnapshotState(f) = SnapshotState(e) /\ SnapshotSeq(f) = n
  BY <1>1 DEF SnapshotState, SnapshotSeq, n
<1>4. EntryOK(f)
  BY <1>1 DEF EntryOK, EntryInv
<1>5. \A i \in 1 .. e.last_seq : i <= n \/ i \in DOMAIN f.events
  BY <1>1, <1>2 DEF EntryInv, EntryOK, n
<1>6. EntryInv(f)
  BY <1>1, <1>3, <1>4, <1>5 DEF EntryInv, n
<1>7. \A i \in 1 .. e.last_seq : Logged(f)[i] = Logged(e)[i]
  <2> TAKE i \in 1 .. e.last_seq
  <2>1. CASE i <= n
    BY <1>1, <1>2, <1>3, <2>1 DEF Logged
  <2>2. CASE i > n
    <3>1. i \in DOMAIN f.events /\ i \in DOMAIN e.events
      BY <1>1, <1>2, <1>5, <2>2
    <3>2. f.events[i] = e.events[i]
      BY <1>1, <3>1
    <3> QED BY <1>1, <1>2, <1>3, <2>2, <3>1, <3>2 DEF Logged
  <2> QED BY <1>2, <2>1, <2>2 DEF EntryInv, EntryOK
<1>8. Logged(f) = Logged(e)
  BY <1>1, <1>6, <1>7, LoggedIsSeq, SeqEqual
<1>9. QED
  BY <1>1, <1>6, <1>8 DEF f, n

(* The copy of a snapshot is a sound entry whose log is the snapshot's.    *)
LEMMA CopiedLog ==
  ASSUME NEW e, EntryInv(e), e.snapshot # NoSnapshot
  PROVE  /\ EntryInv(Copied(e))
         /\ SnapshotSeq(e) \in 0 .. Len(Logged(e))
         /\ Logged(Copied(e)) = SubSeq(Logged(e), 1, SnapshotSeq(e))
<1> DEFINE f == Copied(e)
           n == SnapshotSeq(e)
<1>1. f = [events |-> [i \in {} |-> Lost], last_seq |-> n,
           snapshot |-> e.snapshot]
  BY DEF Copied, SnapshotSeq
<1>2. /\ n \in Nat /\ n <= e.last_seq /\ e.last_seq \in Nat
      /\ DOMAIN SnapshotState(e) = 1 .. n
  BY SnapshotType DEF EntryInv, EntryOK, State
<1> HIDE DEF f, n
<1>3. SnapshotState(f) = SnapshotState(e) /\ SnapshotSeq(f) = n
  BY <1>1 DEF SnapshotState, SnapshotSeq, n
<1>4. EntryOK(f)
  BY <1>1, <1>2 DEF EntryOK, EntryInv
<1>5. EntryInv(f)
  BY <1>1, <1>2, <1>3, <1>4 DEF EntryInv, n
<1>6. /\ SubSeq(Logged(e), 1, n) \in Seq(Event)
      /\ Len(SubSeq(Logged(e), 1, n)) = n
      /\ \A i \in 1 .. n : SubSeq(Logged(e), 1, n)[i] = Logged(e)[i]
  BY <1>2, LoggedIsSeq, SubSeqProperties
<1>7. \A i \in 1 .. n : Logged(f)[i] = Logged(e)[i]
  BY <1>1, <1>2, <1>3 DEF Logged
<1>8. Logged(f) = SubSeq(Logged(e), 1, n)
  <2>1. Logged(f) \in Seq(Event) /\ Len(Logged(f)) = n
    BY <1>1, <1>5, LoggedIsSeq
  <2> QED BY <1>6, <1>7, <2>1, SeqEqual
<1>9. QED
  BY <1>2, <1>5, <1>8, LoggedIsSeq DEF f, n

-----------------------------------------------------------------------------
(* The inductive invariant.                                                *)

PidInv(p) ==
  /\ EntryInv(journal[p])
  /\ ActorInv(journal[p], phase[p], state[p], seq_nr[p], stream[p], effect[p])

(* An id none of whose variables changes keeps its invariant.              *)
LEMMA Frame ==
  ASSUME NEW q \in Pid, PidInv(q),
         journal'[q] = journal[q], phase'[q] = phase[q],
         state'[q] = state[q], seq_nr'[q] = seq_nr[q],
         stream'[q] = stream[q], effect'[q] = effect[q]
  PROVE  PidInv(q)'
  BY DEF PidInv

(* Nothing is demanded of an actor that is down or about to recover.       *)
LEMMA DownInv ==
  ASSUME NEW e, NEW ph, NEW st, NEW n, NEW str, NEW ef,
         ph \in {"down", "recovering"}
  PROVE  ActorInv(e, ph, st, n, str, ef)
  BY DEF ActorInv

(* The empty journal is sound.                                             *)
LEMMA EmptyEntryInv == EntryInv(EmptyEntry) /\ Logged(EmptyEntry) = <<>>
<1>1. /\ SnapshotState(EmptyEntry) = <<>>
      /\ SnapshotSeq(EmptyEntry) = 0
      /\ EmptyEntry.last_seq = 0
      /\ DOMAIN EmptyEntry.events = {}
  BY DEF EmptyEntry, SnapshotState, SnapshotSeq
<1>2. EntryOK(EmptyEntry)
  BY DEF EmptyEntry, EntryOK
<1>3. EntryInv(EmptyEntry)
  BY <1>1, <1>2 DEF EntryInv
<1>4. Logged(EmptyEntry) \in Seq(Event) /\ Len(Logged(EmptyEntry)) = 0
  BY <1>1, <1>3, LoggedIsSeq
<1>5. QED
  BY <1>3, <1>4, EmptySeq

(* With nothing journaled and nobody running, the invariant holds.         *)
LEMMA InitInv == Init => IInv
<1> SUFFICES ASSUME Init PROVE IInv
  OBVIOUS
<1>1. TypeOK
  <2>1. \A p \in Pid : EntryOK(journal[p])
    BY EmptyEntryInv DEF Init, EntryInv
  <2>2. \A p \in Pid : StreamOK(stream[p])
    BY DEF Init, NoStream, StreamOK
  <2>3. effect \in [Pid -> [kind : EffectKind, events : Batch]]
    BY BatchAssumption DEF Init, NoEffect, EffectKind
  <2> QED BY <2>1, <2>2, <2>3 DEF Init, TypeOK, Phase, State
<1>2. \A p \in Pid : EntryInv(journal[p])
  BY EmptyEntryInv DEF Init
<1>3. \A p \in Pid : ActorInv(journal[p], phase[p], state[p], seq_nr[p],
                              stream[p], effect[p])
  BY DownInv DEF Init
<1>4. QED
  BY <1>1, <1>2, <1>3 DEF IInv

(* A step that leaves the other ids alone need only be looked at for p.    *)
Untouched(q) ==
  /\ journal'[q] = journal[q] /\ phase'[q] = phase[q]
  /\ state'[q] = state[q] /\ seq_nr'[q] = seq_nr[q]
  /\ stream'[q] = stream[q] /\ effect'[q] = effect[q]

(* A step of p alone preserves what it preserves of p.                     *)
LEMMA OneMoves ==
  ASSUME IInv, NEW p \in Pid, TypeOK', PidInv(p)',
         \A q \in Pid \ {p} : Untouched(q)
  PROVE  IInv'
<1>1. \A q \in Pid : PidInv(q)
  BY DEF IInv, PidInv
<1>2. ASSUME NEW q \in Pid PROVE PidInv(q)'
  <2>1. CASE q = p
    BY <2>1
  <2>2. CASE q # p
    BY <1>1, <2>2, Frame DEF Untouched
  <2> QED BY <2>1, <2>2
<1>3. \A q \in Pid : EntryInv(journal'[q])
      /\ ActorInv(journal'[q], phase'[q], state'[q], seq_nr'[q], stream'[q],
                  effect'[q])
  BY <1>2 DEF PidInv
<1>4. QED
  BY <1>3 DEF IInv

(* spawn_inner.                                                            *)
LEMMA SpawnInv ==
  ASSUME IInv, NEW p \in Pid, Spawn(p)
  PROVE  IInv'
<1> USE DEF Spawn, Moved
<1>1. TypeOK'
  BY DEF IInv, TypeOK, Phase
<1>2. PidInv(p)'
  BY DownInv DEF IInv, TypeOK, PidInv
<1>3. \A q \in Pid \ {p} : Untouched(q)
  BY DEF IInv, TypeOK, Untouched
<1>4. QED
  BY <1>1, <1>2, <1>3, OneMoves

(* The snapshot is a fold of the log, of the length it says.               *)
LEMMA SnapshotIsFold ==
  ASSUME NEW e, EntryInv(e)
  PROVE  IsFold(e, SnapshotState(e), SnapshotSeq(e))
<1>1. /\ DOMAIN SnapshotState(e) = 1 .. SnapshotSeq(e)
      /\ SnapshotSeq(e) \in Nat /\ e.last_seq \in Nat
  BY SnapshotType, LenProperties DEF EntryInv, EntryOK, State
<1>2. \A i \in 1 .. e.last_seq :
        i \in DOMAIN SnapshotState(e) => Logged(e)[i] = SnapshotState(e)[i]
  BY DEF Logged
<1>3. QED
  BY <1>1, <1>2 DEF IsFold, EntryInv

(* The first step of recovery: the snapshot is loaded.                     *)
LEMMA LoadSnapshotInv ==
  ASSUME IInv, NEW p \in Pid, LoadSnapshot(p)
  PROVE  IInv'
<1> USE DEF LoadSnapshot, Moved
<1>0. EntryInv(journal[p])
  BY DEF IInv
<1>1. TypeOK'
  <2>1. SnapshotState(journal[p]) \in State /\ SnapshotSeq(journal[p]) \in Nat
    BY <1>0, SnapshotType DEF EntryInv
  <2> QED BY <2>1 DEF IInv, TypeOK, Phase
<1>2. PidInv(p)'
  <2>1. /\ phase'[p] = "opening"
        /\ state'[p] = SnapshotState(journal[p])
        /\ seq_nr'[p] = SnapshotSeq(journal[p])
        /\ journal' = journal
    BY DEF IInv, TypeOK
  <2>2. IsFold(journal'[p], state'[p], seq_nr'[p])
    BY <1>0, <2>1, SnapshotIsFold
  <2>3. ActorInv(journal'[p], phase'[p], state'[p], seq_nr'[p], stream'[p],
                 effect'[p])
    BY <2>1, <2>2 DEF ActorInv
  <2> QED BY <1>0, <2>1, <2>3 DEF PidInv
<1>3. \A q \in Pid \ {p} : Untouched(q)
  BY DEF IInv, TypeOK, Untouched
<1>4. QED
  BY <1>1, <1>2, <1>3, OneMoves

(* The stream opened after the snapshot is the rest of the log.            *)
LEMMA OpenReplayInv ==
  ASSUME IInv, NEW p \in Pid, OpenReplay(p)
  PROVE  IInv'
<1> USE DEF OpenReplay, Moved
<1> DEFINE e == journal[p]
           n == seq_nr[p]
           str == Replayed(e, n)
<1>0. /\ EntryInv(e) /\ n \in Nat
      /\ IsFold(e, state[p], n)
  BY DEF IInv, TypeOK, ActorInv
<1>1. /\ DOMAIN str = {s \in DOMAIN e.events : s > n}
      /\ \A i \in DOMAIN str : str[i] = e.events[i]
      /\ str = [i \in DOMAIN str |-> str[i]]
  BY DEF Replayed
<1> HIDE DEF str
<1>2. StreamOK(str)
  BY <1>0, <1>1 DEF StreamOK, EntryInv, EntryOK
<1>3. TypeOK'
  <2>1. stream' = [stream EXCEPT ![p] = str]
    BY DEF str
  <2> QED BY <1>2, <2>1 DEF IInv, TypeOK, Phase
<1>4. PidInv(p)'
  <2>1. /\ phase'[p] = "replaying" /\ stream'[p] = str
        /\ journal' = journal /\ state' = state /\ seq_nr' = seq_nr
    BY DEF IInv, TypeOK, str
  <2>2. /\ SnapshotSeq(e) \in Nat /\ SnapshotSeq(e) <= n
        /\ SnapshotState(e) \in State
        /\ e.last_seq \in Nat /\ DOMAIN e.events \subseteq 1 .. e.last_seq
        /\ DOMAIN SnapshotState(e) = 1 .. SnapshotSeq(e)
    <3>1. SnapshotSeq(e) = n
      BY DEF IInv, ActorInv
    <3>2. SnapshotState(e) \in Seq(Event)
      BY <1>0, SnapshotType DEF EntryInv, State
    <3>3. DOMAIN SnapshotState(e) = 1 .. SnapshotSeq(e)
      BY <1>0, <3>2, LenProperties DEF EntryInv
    <3>4. e.last_seq \in Nat /\ DOMAIN e.events \subseteq 1 .. e.last_seq
      BY <1>0 DEF EntryInv, EntryOK
    <3> QED BY <1>0, <3>1, <3>2, <3>3, <3>4 DEF State
  <2>3. DOMAIN str = n + 1 .. e.last_seq
    BY <1>0, <1>1, <2>2 DEF EntryInv
  <2>4. \A i \in DOMAIN str : str[i] = Logged(e)[i]
    <3> TAKE i \in DOMAIN str
    <3>1. /\ i \in 1 .. e.last_seq /\ i \in DOMAIN e.events
          /\ i \notin DOMAIN SnapshotState(e)
      BY <1>0, <1>1, <2>2
    <3>2. Logged(e)[i] = e.events[i]
      BY <3>1 DEF Logged
    <3> QED BY <1>1, <3>2
  <2>5. ActorInv(journal'[p], phase'[p], state'[p], seq_nr'[p], stream'[p],
                 effect'[p])
    BY <1>0, <2>1, <2>3, <2>4 DEF ActorInv
  <2> QED BY <1>0, <2>1, <2>5 DEF PidInv
<1>5. \A q \in Pid \ {p} : Untouched(q)
  BY DEF IInv, TypeOK, Untouched
<1>6. QED
  BY <1>3, <1>4, <1>5, OneMoves

(* One more event: the smallest number in the stream is seq_nr + 1.        *)
LEMMA ReplayEventInv ==
  ASSUME IInv, NEW p \in Pid, ReplayEvent(p)
  PROVE  IInv'
<1> DEFINE e == journal[p]
           n == seq_nr[p]
           st == state[p]
           str == stream[p]
<1>0. /\ EntryInv(e) /\ n \in Nat /\ e.last_seq \in Nat
      /\ st \in Seq(Event) /\ StreamOK(str)
      /\ IsFold(e, st, n)
      /\ DOMAIN str = n + 1 .. e.last_seq
      /\ \A j \in DOMAIN str : str[j] = Logged(e)[j]
  BY DEF ReplayEvent, IInv, TypeOK, ActorInv, EntryInv, EntryOK, State
<1>1. PICK i \in DOMAIN str :
        /\ \A j \in DOMAIN str : i <= j
        /\ state' = [state EXCEPT ![p] = Append(st, str[i])]
        /\ stream' = [stream EXCEPT ![p] = [j \in DOMAIN str \ {i} |-> str[j]]]
  BY DEF ReplayEvent, IInv, TypeOK
<1>2. i = n + 1 /\ n + 1 <= e.last_seq
  <2>1. i \in n + 1 .. e.last_seq
    BY <1>0, <1>1
  <2>2. n + 1 \in DOMAIN str
    BY <1>0, <2>1
  <2> QED BY <1>0, <1>1, <2>1, <2>2
<1> DEFINE st2 == Append(st, str[i])
           str2 == [j \in DOMAIN str \ {i} |-> str[j]]
<1>3. /\ phase'[p] = "replaying" /\ seq_nr'[p] = n + 1
      /\ state'[p] = st2 /\ stream'[p] = str2 /\ journal' = journal
  BY <1>1 DEF ReplayEvent, IInv, TypeOK
<1>4. /\ st2 \in Seq(Event) /\ Len(st2) = n + 1
      /\ \A j \in 1 .. n : st2[j] = st[j]
      /\ st2[n + 1] = str[n + 1]
  <2>1. str[i] \in Event
    BY <1>0, <1>1 DEF StreamOK
  <2>2. Len(st) = n
    BY <1>0 DEF IsFold
  <2> QED BY <1>0, <1>2, <2>1, <2>2, AppendProperties
<1>5. StreamOK(str2)
  BY <1>0 DEF StreamOK
<1>6. TypeOK'
  <2>1. seq_nr' \in [Pid -> Nat]
    BY DEF ReplayEvent, IInv, TypeOK
  <2>2. state' \in [Pid -> State]
    BY <1>1, <1>4 DEF IInv, TypeOK, State
  <2>3. /\ stream' = [q \in Pid |-> stream'[q]]
        /\ \A q \in Pid : StreamOK(stream'[q])
    BY <1>1, <1>5 DEF IInv, TypeOK
  <2> QED BY <2>1, <2>2, <2>3 DEF ReplayEvent, IInv, TypeOK
<1>7. PidInv(p)'
  <2>1. IsFold(e, st2, n + 1)
    <3>1. \A j \in 1 .. n + 1 : st2[j] = Logged(e)[j]
      BY <1>0, <1>1, <1>2, <1>4 DEF IsFold
    <3> QED BY <1>2, <1>4, <3>1 DEF IsFold
  <2>2. DOMAIN str2 = n + 2 .. e.last_seq
    BY <1>0, <1>2
  <2>3. \A j \in DOMAIN str2 : str2[j] = Logged(e)[j]
    BY <1>0
  <2>4. ActorInv(e, "replaying", st2, n + 1, str2, effect'[p])
    BY <1>0, <2>1, <2>2, <2>3 DEF ActorInv
  <2> QED BY <1>0, <1>3, <2>4 DEF PidInv
<1>8. \A q \in Pid \ {p} : Untouched(q)
  BY <1>1 DEF ReplayEvent, IInv, TypeOK, Untouched
<1>9. QED
  BY <1>6, <1>7, <1>8, OneMoves

(* The stream is empty: nothing of the log is left to fold.                *)
LEMMA RecoveryCompleteInv ==
  ASSUME IInv, NEW p \in Pid, RecoveryComplete(p)
  PROVE  IInv'
<1> USE DEF RecoveryComplete, Moved
<1>1. TypeOK'
  BY DEF IInv, TypeOK, Phase
<1>2. PidInv(p)'
  <2> DEFINE e == journal[p]
  <2>1. /\ EntryInv(e) /\ IsFold(e, state[p], seq_nr[p])
        /\ seq_nr[p] \in Nat /\ e.last_seq \in Nat
        /\ seq_nr[p] + 1 .. e.last_seq = {}
    BY DEF IInv, TypeOK, ActorInv, EntryInv, EntryOK
  <2>2. seq_nr[p] = e.last_seq
    <3>1. seq_nr[p] <= e.last_seq /\ ~(seq_nr[p] + 1 <= e.last_seq)
      BY <2>1 DEF IsFold
    <3> QED BY <2>1, <3>1
  <2>3. phase'[p] = "idle"
    BY DEF IInv, TypeOK
  <2> QED BY <2>1, <2>2, <2>3 DEF PidInv, ActorInv
<1>3. \A q \in Pid \ {p} : Untouched(q)
  BY DEF IInv, TypeOK, Untouched
<1>4. QED
  BY <1>1, <1>2, <1>3, OneMoves

(* A command has been handled; nothing is written yet.                     *)
LEMMA HandleInv ==
  ASSUME IInv, NEW p \in Pid, NEW kind \in EffectKind, NEW batch \in Batch,
         Handle(p, kind, batch)
  PROVE  IInv'
<1> USE DEF Handle
<1>1. TypeOK'
  BY DEF IInv, TypeOK, Phase
<1>2. PidInv(p)'
  <2>1. phase'[p] \in {"snapshotting", "persisting"}
    BY DEF IInv, TypeOK
  <2> QED BY <2>1 DEF IInv, PidInv, ActorInv
<1>3. \A q \in Pid \ {p} : Untouched(q)
  BY DEF IInv, TypeOK, Untouched
<1>4. QED
  BY <1>1, <1>2, <1>3, OneMoves

(* The batch is in the journal and not yet in the state.                   *)
LEMMA PersistOkInv ==
  ASSUME IInv, NEW p \in Pid, PersistOk(p)
  PROVE  IInv'
<1> USE DEF PersistOk, Moved
<1> DEFINE e == journal[p]
           b == effect[p].events
           f == Persisted(e, b)
<1>0. /\ EntryInv(e) /\ b \in Seq(Event)
      /\ IsFold(e, state[p], seq_nr[p]) /\ seq_nr[p] = e.last_seq
      /\ seq_nr[p] \in Nat
  BY BatchAssumption DEF IInv, TypeOK, ActorInv
<1>1. /\ EntryInv(f)
      /\ f.last_seq = e.last_seq + Len(b)
      /\ Logged(f) = Logged(e) \o b
  BY <1>0, PersistedLog
<1>2. /\ Logged(e) \in Seq(Event) /\ Len(Logged(e)) = seq_nr[p]
      /\ Len(b) \in Nat
  BY <1>0, LoggedIsSeq
<1>3. \A i \in 1 .. seq_nr[p] + Len(b) :
        Logged(f)[i] = IF i <= seq_nr[p] THEN Logged(e)[i] ELSE b[i - seq_nr[p]]
  <2> HIDE DEF f, b
  <2>1. \A i \in 1 .. Len(Logged(e)) + Len(b) :
          (Logged(e) \o b)[i] = IF i <= Len(Logged(e)) THEN Logged(e)[i]
                                ELSE b[i - Len(Logged(e))]
    BY <1>0, <1>2, ConcatProperties
  <2> QED BY <1>1, <1>2, <2>1
<1> HIDE DEF f, b
<1>4. journal' = [journal EXCEPT ![p] = f]
  BY DEF f, b
<1>5. TypeOK'
  BY <1>1, <1>4 DEF IInv, TypeOK, Phase, EntryInv
<1>6. PidInv(p)'
  <2>1. /\ phase'[p] = "applying" /\ journal'[p] = f /\ effect' = effect
        /\ state' = state /\ seq_nr' = seq_nr
    BY <1>4 DEF IInv, TypeOK
  <2>2. IsFold(f, state[p], seq_nr[p])
    BY <1>0, <1>1, <1>2, <1>3 DEF IsFold
  <2>3. \A i \in 1 .. Len(b) : Logged(f)[seq_nr[p] + i] = b[i]
    <3> TAKE i \in 1 .. Len(b)
    <3>1. /\ seq_nr[p] + i \in 1 .. seq_nr[p] + Len(b)
          /\ ~(seq_nr[p] + i <= seq_nr[p])
          /\ (seq_nr[p] + i) - seq_nr[p] = i
      BY <1>0, <1>2
    <3> QED BY <1>3, <3>1
  <2>4. ActorInv(f, "applying", state[p], seq_nr[p], stream'[p], effect[p])
    BY <1>0, <1>1, <2>2, <2>3 DEF ActorInv, b
  <2> QED BY <1>1, <2>1, <2>4 DEF PidInv
<1>7. \A q \in Pid \ {p} : Untouched(q)
  BY <1>4 DEF IInv, TypeOK, Untouched
<1>8. QED
  BY <1>5, <1>6, <1>7, OneMoves

(* persist_events returns: what the actor holds in its next phase.         *)
LEMMA PersistReturnsInv ==
  ASSUME IInv, NEW p \in Pid, NEW st \in State, NEW n \in Nat,
         PersistReturns(p, st, n), UNCHANGED journal,
         IsFold(journal[p], st, n), n = journal[p].last_seq
  PROVE  IInv'
<1> DEFINE next == AfterPersist(p)
<1>1. /\ next \in {"idle", "snapshotting", "down"}
      /\ phase' = [phase EXCEPT ![p] = next]
      /\ state' = [state EXCEPT ![p] = IF next = "down" THEN <<>> ELSE st]
      /\ seq_nr' = [seq_nr EXCEPT ![p] = IF next = "down" THEN 0 ELSE n]
      /\ effect' = [effect EXCEPT ![p] =
                      IF next = "snapshotting" THEN effect[p] ELSE NoEffect]
      /\ stream' = stream /\ journal' = journal
  BY DEF PersistReturns, AfterPersist, IInv, TypeOK
<1> HIDE DEF next
<1>2. NoEffect \in [kind : EffectKind, events : Batch]
  BY BatchAssumption DEF NoEffect, EffectKind
<1>3. TypeOK'
  BY <1>1, <1>2 DEF IInv, TypeOK, Phase, State
<1>4. PidInv(p)'
  <2>1. phase'[p] = next /\ journal'[p] = journal[p]
    BY <1>1 DEF IInv, TypeOK
  <2>2. CASE next = "down"
    BY <2>1, <2>2, DownInv DEF IInv, PidInv
  <2>3. CASE next # "down"
    <3>1. state'[p] = st /\ seq_nr'[p] = n
      BY <1>1, <2>3 DEF IInv, TypeOK
    <3> QED BY <1>1, <2>1, <2>3, <3>1 DEF IInv, PidInv, ActorInv
  <2> QED BY <2>2, <2>3
<1>5. \A q \in Pid \ {p} : Untouched(q)
  BY <1>1 DEF IInv, TypeOK, Untouched
<1>6. QED
  BY <1>3, <1>4, <1>5, OneMoves

(* The stored batch is folded: the state is the whole log again.           *)
LEMMA ApplyEventsInv ==
  ASSUME IInv, NEW p \in Pid, ApplyEvents(p)
  PROVE  IInv'
<1> DEFINE e == journal[p]
           b == effect[p].events
           st == state[p]
           n == seq_nr[p]
<1>1. /\ st \in Seq(Event) /\ n \in Nat /\ b \in Seq(Event)
      /\ EntryInv(e) /\ e.last_seq \in Nat
      /\ IsFold(e, st, n) /\ e.last_seq = n + Len(b)
      /\ \A i \in 1 .. Len(b) : Logged(e)[n + i] = b[i]
  BY BatchAssumption
     DEF ApplyEvents, IInv, TypeOK, ActorInv, State, EntryInv, EntryOK
<1>6. PersistReturns(p, st \o b, n + Len(b)) /\ UNCHANGED journal
  BY DEF ApplyEvents
<1> HIDE DEF e, b, st, n
<1>2. Len(st) = n /\ Len(b) \in Nat
  BY <1>1 DEF IsFold
<1>3. /\ st \o b \in Seq(Event) /\ Len(st \o b) = n + Len(b)
      /\ \A i \in 1 .. n + Len(b) :
           (st \o b)[i] = IF i <= n THEN st[i] ELSE b[i - n]
  <2>1. /\ st \o b \in Seq(Event) /\ Len(st \o b) = Len(st) + Len(b)
        /\ \A i \in 1 .. Len(st) + Len(b) :
             (st \o b)[i] = IF i <= Len(st) THEN st[i] ELSE b[i - Len(st)]
    BY <1>1, ConcatProperties
  <2> QED BY <1>2, <2>1
<1>4. \A i \in 1 .. n + Len(b) : (st \o b)[i] = Logged(e)[i]
  <2> TAKE i \in 1 .. n + Len(b)
  <2>1. CASE i <= n
    BY <1>1, <1>2, <1>3, <2>1 DEF IsFold
  <2>2. CASE ~(i <= n)
    <3>1. i - n \in 1 .. Len(b) /\ n + (i - n) = i
      BY <1>1, <1>2, <2>2
    <3>2. Logged(e)[n + (i - n)] = b[i - n]
      BY <1>1, <3>1
    <3> QED BY <1>3, <2>2, <3>1, <3>2
  <2> QED BY <2>1, <2>2
<1>5. IsFold(e, st \o b, n + Len(b))
  <2>1. n + Len(b) = Len(st \o b) /\ n + Len(b) <= e.last_seq
    BY <1>1, <1>2, <1>3
  <2> QED BY <1>4, <2>1 DEF IsFold
<1>7. n + Len(b) \in Nat /\ st \o b \in State /\ n + Len(b) = e.last_seq
  BY <1>1, <1>2, <1>3 DEF State
<1>8. QED
  BY <1>5, <1>6, <1>7, PersistReturnsInv DEF e

(* A failed persist: the state is the log that was there before.           *)
LEMMA PersistErrInv ==
  ASSUME IInv, NEW p \in Pid, PersistErr(p)
  PROVE  IInv'
<1>1. /\ state[p] \in State /\ seq_nr[p] \in Nat
      /\ IsFold(journal[p], state[p], seq_nr[p])
      /\ seq_nr[p] = journal[p].last_seq
  BY DEF PersistErr, IInv, TypeOK, ActorInv
<1>2. PersistReturns(p, state[p], seq_nr[p]) /\ UNCHANGED journal
  BY DEF PersistErr
<1>3. QED
  BY <1>1, <1>2, PersistReturnsInv

(* save_snapshot: the snapshot now folds the whole log.                    *)
LEMMA SnapshotOkInv ==
  ASSUME IInv, NEW p \in Pid, SnapshotOk(p)
  PROVE  IInv'
<1> USE DEF SnapshotOk, Moved
<1> DEFINE e == journal[p]
           f == Snapshotted(e, state[p], seq_nr[p])
<1>0. /\ EntryInv(e) /\ state[p] \in State /\ seq_nr[p] \in Nat
      /\ IsFold(e, state[p], seq_nr[p]) /\ seq_nr[p] = e.last_seq
  BY DEF IInv, TypeOK, ActorInv
<1>1. /\ EntryInv(f) /\ f.last_seq = e.last_seq
      /\ Logged(f) = Logged(e) /\ SnapshotSeq(f) = seq_nr[p]
  BY <1>0, SnapshottedLog
<1> HIDE DEF f
<1>2. journal' = [journal EXCEPT ![p] = f]
  BY DEF f
<1>3. TypeOK'
  BY <1>1, <1>2 DEF IInv, TypeOK, Phase, EntryInv
<1>4. PidInv(p)'
  <2>1. /\ phase'[p] = "compacting" /\ journal'[p] = f
        /\ state' = state /\ seq_nr' = seq_nr
    BY <1>2 DEF IInv, TypeOK
  <2>2. IsFold(f, state[p], seq_nr[p])
    BY <1>0, <1>1 DEF IsFold
  <2> QED BY <1>0, <1>1, <2>1, <2>2 DEF PidInv, ActorInv
<1>5. \A q \in Pid \ {p} : Untouched(q)
  BY <1>2 DEF IInv, TypeOK, Untouched
<1>6. QED
  BY <1>3, <1>4, <1>5, OneMoves

(* delete_events_before: only what the snapshot folds goes.                *)
LEMMA CompactOkInv ==
  ASSUME IInv, NEW p \in Pid, CompactOk(p)
  PROVE  IInv'
<1> USE DEF CompactOk, Moved
<1> DEFINE e == journal[p]
           f == Compacted(e, seq_nr[p])
<1>0. /\ EntryInv(e) /\ SnapshotSeq(e) = seq_nr[p]
      /\ IsFold(e, state[p], seq_nr[p]) /\ seq_nr[p] = e.last_seq
  BY DEF IInv, TypeOK, ActorInv
<1>1. /\ EntryInv(f) /\ f.last_seq = e.last_seq
      /\ Logged(f) = Logged(e)
  BY <1>0, CompactedLog
<1> HIDE DEF f
<1>2. journal' = [journal EXCEPT ![p] = f]
  BY DEF f
<1>3. NoEffect \in [kind : EffectKind, events : Batch]
  BY BatchAssumption DEF NoEffect, EffectKind
<1>4. TypeOK'
  BY <1>1, <1>2, <1>3 DEF IInv, TypeOK, Phase, EntryInv
<1>5. PidInv(p)'
  <2>1. /\ phase'[p] = "idle" /\ journal'[p] = f
        /\ state' = state /\ seq_nr' = seq_nr
    BY <1>2 DEF IInv, TypeOK
  <2>2. IsFold(f, state[p], seq_nr[p])
    BY <1>0, <1>1 DEF IsFold
  <2> QED BY <1>0, <1>1, <2>1, <2>2 DEF PidInv, ActorInv
<1>6. \A q \in Pid \ {p} : Untouched(q)
  BY <1>2 DEF IInv, TypeOK, Untouched
<1>7. QED
  BY <1>4, <1>5, <1>6, OneMoves

(* A failed snapshot, or a failed compaction, leaves the log as it was.    *)
LEMMA SnapshotFailsInv ==
  ASSUME IInv, NEW p \in Pid, SnapshotErr(p) \/ CompactErr(p)
  PROVE  IInv'
<1>1. /\ phase[p] \in {"snapshotting", "compacting"}
      /\ phase' = [phase EXCEPT ![p] = "idle"]
      /\ effect' = [effect EXCEPT ![p] = NoEffect]
      /\ UNCHANGED <<journal, state, seq_nr, stream>>
  BY DEF SnapshotErr, CompactErr, Moved
<1>2. NoEffect \in [kind : EffectKind, events : Batch]
  BY BatchAssumption DEF NoEffect, EffectKind
<1>3. TypeOK'
  BY <1>1, <1>2 DEF IInv, TypeOK, Phase
<1>4. PidInv(p)'
  <2>1. phase'[p] = "idle"
    BY <1>1 DEF IInv, TypeOK
  <2> QED BY <1>1, <2>1 DEF IInv, PidInv, ActorInv
<1>5. \A q \in Pid \ {p} : Untouched(q)
  BY <1>1 DEF IInv, TypeOK, Untouched
<1>6. QED
  BY <1>3, <1>4, <1>5, OneMoves

(* Stopping, failing to recover and dying: memory goes, journals stay.     *)
LEMMA EndedInv ==
  ASSUME IInv, NEW S \in SUBSET Pid, Ended(S), UNCHANGED journal
  PROVE  IInv'
<1>1. TypeOK'
  <2>1. NoEffect \in [kind : EffectKind, events : Batch]
    BY BatchAssumption DEF NoEffect, EffectKind
  <2>2. StreamOK(NoStream)
    BY DEF NoStream, StreamOK
  <2>3. <<>> \in State
    BY DEF State
  <2> QED BY <2>1, <2>2, <2>3 DEF Ended, IInv, TypeOK, Phase
<1>2. ASSUME NEW q \in Pid PROVE PidInv(q)'
  <2>1. CASE q \in S
    BY <2>1, DownInv DEF Ended, IInv, PidInv
  <2>2. CASE q \notin S
    <3>1. Untouched(q)
      BY <2>2 DEF Ended, Untouched
    <3>2. PidInv(q)
      BY DEF IInv, PidInv
    <3> QED BY <3>1, <3>2, Frame DEF Untouched
  <2> QED BY <2>1, <2>2
<1>3. QED
  BY <1>1, <1>2 DEF IInv, PidInv

(* copy_snapshot onto an id without an actor: a sound entry.               *)
LEMMA CopySnapshotInv ==
  ASSUME IInv, NEW from \in Pid, NEW to \in Pid, CopySnapshot(from, to)
  PROVE  IInv'
<1> USE DEF CopySnapshot
<1> DEFINE f == Copied(journal[from])
<1>1. EntryInv(f)
  BY CopiedLog DEF IInv
<1> HIDE DEF f
<1>2. journal' = [journal EXCEPT ![to] = f]
  BY DEF f
<1>3. TypeOK'
  BY <1>1, <1>2 DEF IInv, TypeOK, EntryInv
<1>4. PidInv(to)'
  <2>1. phase'[to] = "down" /\ journal'[to] = f
    BY <1>2 DEF IInv, TypeOK
  <2> QED BY <1>1, <2>1, DownInv DEF PidInv
<1>5. \A q \in Pid \ {to} : Untouched(q)
  BY <1>2 DEF IInv, TypeOK, Untouched
<1>6. QED
  BY <1>3, <1>4, <1>5, OneMoves

(* Every step preserves the invariant.                                     *)
LEMMA NextInv == IInv /\ [Next]_vars => IInv'
<1> SUFFICES ASSUME IInv, [Next]_vars PROVE IInv'
  OBVIOUS
<1>1. ASSUME NEW p \in Pid, Spawn(p) PROVE IInv'
  BY <1>1, SpawnInv
<1>2. ASSUME NEW p \in Pid, Step(p) PROVE IInv'
  BY <1>2, LoadSnapshotInv, OpenReplayInv, ReplayEventInv,
     RecoveryCompleteInv, PersistOkInv, PersistErrInv, ApplyEventsInv,
     SnapshotOkInv, CompactOkInv, SnapshotFailsInv DEF Step
<1>3. ASSUME NEW p \in Pid, RecoveryFails(p) \/ Stop(p) PROVE IInv'
  BY <1>3, EndedInv DEF RecoveryFails, Stop
<1>4. ASSUME NEW p \in Pid, NEW kind \in EffectKind, NEW batch \in Batch,
             Handle(p, kind, batch)
      PROVE  IInv'
  BY <1>4, HandleInv
<1>5. ASSUME NEW from \in Pid, NEW to \in Pid, CopySnapshot(from, to)
      PROVE  IInv'
  BY <1>5, CopySnapshotInv
<1>6. CASE Crash
  BY <1>6, EndedInv DEF Crash
<1>7. CASE UNCHANGED vars
  <2>1. TypeOK'
    BY <1>7 DEF vars, IInv, TypeOK
  <2>2. ASSUME NEW q \in Pid PROVE PidInv(q)'
    BY <1>7, Frame DEF vars, IInv, PidInv
  <2> QED BY <2>1, <2>2 DEF IInv, PidInv
<1>8. QED
  BY <1>1, <1>2, <1>3, <1>4, <1>5, <1>6, <1>7 DEF Next

(* The invariant holds of the runtime: at every instant of every           *)
(* persist, snapshot, compaction and recovery, actor and journal agree.    *)
THEOREM Invariance == Spec => []IInv
  BY InitInv, NextInv, PTL DEF Spec

(* Type correctness.                                                       *)
THEOREM TypeCorrect == Spec => []TypeOK
<1>1. IInv => TypeOK
  BY DEF IInv
<1>2. QED
  BY <1>1, Invariance, PTL

(* No number up to last_seq is missing from what recovery reads.           *)
THEOREM NothingIsLost == Spec => []NothingLost
<1>1. IInv => NothingLost
  BY LoggedIsSeq, LostAssumption DEF IInv, NothingLost
<1>2. QED
  BY <1>1, Invariance, PTL

(* The state handed to a command is the fold of the whole log.             *)
LEMMA IdleIsLog ==
  ASSUME NEW e, EntryInv(e), NEW st \in State,
         IsFold(e, st, e.last_seq)
  PROVE  st = Logged(e)
<1>1. /\ Logged(e) \in Seq(Event)
      /\ Len(Logged(e)) = Len(st)
      /\ \A i \in 1 .. Len(st) : st[i] = Logged(e)[i]
  BY LoggedIsSeq DEF IsFold
<1>2. QED
  BY <1>1, SeqEqual DEF State

(* Live operation and recovery end in the same state: the fold of the log. *)
THEOREM IdleIsTheLog == Spec => []IdleStateIsTheLog
<1>1. IInv => IdleStateIsTheLog
  <2> SUFFICES ASSUME IInv, NEW p \in Pid, phase[p] = "idle"
               PROVE  /\ state[p] = Logged(journal[p])
                      /\ seq_nr[p] = journal[p].last_seq
    BY DEF IdleStateIsTheLog
  <2>1. /\ EntryInv(journal[p]) /\ state[p] \in State
        /\ IsFold(journal[p], state[p], journal[p].last_seq)
        /\ seq_nr[p] = journal[p].last_seq
    BY DEF IInv, TypeOK, ActorInv
  <2> QED BY <2>1, IdleIsLog
<1>2. QED
  BY <1>1, Invariance, PTL

-----------------------------------------------------------------------------
(* The runtime implements the durable actor.                               *)

(* A step of p alone changes the abstract variables at p alone.            *)
LEMMA OneMaps ==
  ASSUME NEW p \in Pid, \A q \in Pid \ {p} : Untouched(q)
  PROVE  /\ TheLog' = [TheLog EXCEPT ![p] = Logged(journal'[p])]
         /\ TheTurn' = [TheTurn EXCEPT ![p] = TurnIn(phase'[p])]
         /\ TheView' = [TheView EXCEPT ![p] =
                          IF phase'[p] = "idle" THEN state'[p] ELSE <<>>]
<1>1. \A q \in Pid \ {p} : Logged(journal'[q]) = Logged(journal[q])
                           /\ TurnIn(phase'[q]) = TurnIn(phase[q])
  BY DEF Untouched
<1>2. \A q \in Pid \ {p} : phase'[q] = phase[q] /\ state'[q] = state[q]
  BY DEF Untouched
<1>3. TheLog' = [TheLog EXCEPT ![p] = Logged(journal'[p])]
  BY <1>1 DEF TheLog
<1>4. TheTurn' = [TheTurn EXCEPT ![p] = TurnIn(phase'[p])]
  BY <1>1 DEF TheTurn
<1>5. TheView' = [TheView EXCEPT ![p] =
                    IF phase'[p] = "idle" THEN state'[p] ELSE <<>>]
  BY <1>2 DEF TheView
<1>6. QED
  BY <1>3, <1>4, <1>5

(* The initial states are initial for the durable actor.                   *)
LEMMA InitMaps == Init => Durable!Init
<1> SUFFICES ASSUME Init PROVE Durable!Init
  OBVIOUS
<1>1. TheLog = [p \in Pid |-> <<>>]
  BY EmptyEntryInv DEF Init, TheLog
<1>2. TheTurn = [p \in Pid |-> "offline"]
  BY DEF Init, TheTurn, TurnIn
<1>3. TheView = [p \in Pid |-> <<>>]
  BY DEF Init, TheView
<1>4. QED
  BY <1>1, <1>2, <1>3 DEF Durable!Init

(* The actor becomes idle: its state is the log.                           *)
LEMMA ReadyMaps ==
  ASSUME IInv', NEW p \in Pid, \A q \in Pid \ {p} : Untouched(q),
         phase[p] # "idle", phase'[p] = "idle",
         Logged(journal'[p]) = Logged(journal[p])
  PROVE  Durable!Ready(p)
<1>1. state'[p] = Logged(journal'[p])
  <2>1. /\ EntryInv(journal'[p]) /\ state'[p] \in State
        /\ IsFold(journal'[p], state'[p], journal'[p].last_seq)
    BY DEF IInv, TypeOK, ActorInv
  <2> QED BY <2>1, IdleIsLog
<1>2. /\ TheLog[p] = Logged(journal[p])
      /\ TheTurn[p] # "idle"
  BY DEF TheLog, TheTurn, TurnIn
<1>3. /\ TheTurn' = [TheTurn EXCEPT ![p] = "idle"]
      /\ TheView' = [TheView EXCEPT ![p] = TheLog[p]]
  BY <1>1, <1>2, OneMaps DEF TurnIn
<1>4. TheLog' = TheLog
  BY <1>2, OneMaps DEF TheLog
<1>5. QED
  BY <1>2, <1>3, <1>4 DEF Durable!Ready

(* A step between two commands, or inside one, that nobody can see.        *)
LEMMA QuietMaps ==
  ASSUME NEW p \in Pid, \A q \in Pid \ {p} : Untouched(q),
         phase[p] # "idle", phase'[p] # "idle",
         TurnIn(phase'[p]) = TurnIn(phase[p]),
         Logged(journal'[p]) = Logged(journal[p])
  PROVE  UNCHANGED Durable!vars
<1>1. TheLog' = TheLog
  BY OneMaps DEF TheLog
<1>2. TheTurn' = TheTurn
  BY OneMaps DEF TheTurn
<1>3. TheView' = TheView
  BY OneMaps DEF TheView
<1>4. QED
  BY <1>1, <1>2, <1>3 DEF Durable!vars

(* Actors end.                                                             *)
LEMMA LeaveMaps ==
  ASSUME NEW S \in SUBSET Pid, UNCHANGED journal,
         \A q \in S : phase'[q] = "down",
         \A q \in Pid \ S : phase'[q] = phase[q] /\ state'[q] = state[q]
  PROVE  Durable!Leave
<1>1. TheLog' = TheLog
  BY DEF TheLog
<1>2. TheTurn' = [q \in Pid |-> IF q \in S THEN "offline" ELSE TheTurn[q]]
  BY DEF TheTurn, TurnIn
<1>3. TheView' = [q \in Pid |-> IF q \in S THEN <<>> ELSE TheView[q]]
  BY DEF TheView
<1>4. QED
  BY <1>1, <1>2, <1>3 DEF Durable!Leave

(* Recovery is invisible until it is complete.                             *)
LEMMA RecoveryMaps ==
  ASSUME IInv, IInv', NEW p \in Pid,
         Spawn(p) \/ LoadSnapshot(p) \/ OpenReplay(p) \/ ReplayEvent(p)
         \/ RecoveryComplete(p)
  PROVE  [Durable!Next]_(Durable!vars)
<1>1. CASE Spawn(p) \/ LoadSnapshot(p) \/ OpenReplay(p)
  <2>1. \A q \in Pid \ {p} : Untouched(q)
    BY <1>1 DEF Spawn, LoadSnapshot, OpenReplay, Moved, IInv, TypeOK, Untouched
  <2>2. /\ journal' = journal
        /\ phase[p] \in {"down", "recovering", "opening"}
        /\ phase'[p] \in {"recovering", "opening", "replaying"}
    BY <1>1 DEF Spawn, LoadSnapshot, OpenReplay, Moved, IInv, TypeOK
  <2>3. TurnIn(phase'[p]) = TurnIn(phase[p])
    BY <2>2 DEF TurnIn
  <2> QED BY <2>1, <2>2, <2>3, QuietMaps
<1>5. CASE ReplayEvent(p)
  <2>1. \A q \in Pid \ {p} : Untouched(q)
    BY <1>5 DEF ReplayEvent, IInv, TypeOK, Untouched
  <2>2. phase[p] = "replaying" /\ phase' = phase /\ journal' = journal
    BY <1>5 DEF ReplayEvent
  <2> QED BY <2>1, <2>2, QuietMaps
<1>6. CASE RecoveryComplete(p)
  <2>1. Durable!Ready(p)
    BY <1>6, ReadyMaps DEF RecoveryComplete, Moved, IInv, TypeOK, Untouched
  <2> QED BY <2>1 DEF Durable!Next
<1>7. QED
  BY <1>1, <1>5, <1>6

(* A command begins, or a snapshot, which writes no event.                 *)
LEMMA HandleMaps ==
  ASSUME IInv, NEW p \in Pid, NEW kind \in EffectKind, NEW batch \in Batch,
         Handle(p, kind, batch)
  PROVE  Durable!Begin(p)
<1>1. /\ \A q \in Pid \ {p} : Untouched(q)
      /\ phase[p] = "idle" /\ phase'[p] \in {"snapshotting", "persisting"}
      /\ journal' = journal
  BY DEF Handle, IInv, TypeOK, Untouched
<1>2. TheTurn[p] = "idle"
  BY <1>1 DEF TheTurn, TurnIn
<1>3. TurnIn(phase'[p]) \in {"open", "closed"}
  BY <1>1 DEF TurnIn
<1>4. /\ TheTurn' = [TheTurn EXCEPT ![p] = TurnIn(phase'[p])]
      /\ TheView' = [TheView EXCEPT ![p] = <<>>]
  BY <1>1, OneMaps
<1>5. TheLog' = TheLog
  BY <1>1 DEF TheLog
<1>6. QED
  BY <1>2, <1>3, <1>4, <1>5 DEF Durable!Begin

(* persist_events returns; the log is as it was.                           *)
LEMMA PersistReturnsMaps ==
  ASSUME IInv, IInv', NEW p \in Pid, NEW st, NEW n,
         PersistReturns(p, st, n), UNCHANGED journal,
         phase[p] \in {"persisting", "applying"}
  PROVE  [Durable!Next]_(Durable!vars)
<1>1. \A q \in Pid \ {p} : Untouched(q)
  BY DEF PersistReturns, IInv, TypeOK, Untouched
<1>2. /\ phase'[p] \in {"idle", "snapshotting", "down"}
      /\ journal' = journal
  BY DEF PersistReturns, AfterPersist, IInv, TypeOK
<1>3. CASE phase'[p] = "idle"
  <2>1. Durable!Ready(p)
    BY <1>1, <1>2, <1>3, ReadyMaps
  <2> QED BY <2>1 DEF Durable!Next
<1>4. CASE phase'[p] = "down"
  <2>1. \A q \in Pid \ {p} : phase'[q] = phase[q] /\ state'[q] = state[q]
    BY <1>1 DEF Untouched
  <2>2. Durable!Leave
    BY <1>2, <1>4, <2>1, LeaveMaps
  <2> QED BY <2>2 DEF Durable!Next
<1>5. CASE phase'[p] = "snapshotting" /\ phase[p] = "applying"
  <2>1. TurnIn(phase'[p]) = TurnIn(phase[p])
    BY <1>5 DEF TurnIn
  <2> QED BY <1>1, <1>2, <1>5, <2>1, QuietMaps
<1>6. CASE phase'[p] = "snapshotting" /\ phase[p] = "persisting"
  <2>1. TheTurn[p] = "open" /\ TurnIn(phase'[p]) = "closed"
    BY <1>6 DEF TheTurn, TurnIn
  <2>2. TheTurn' = [TheTurn EXCEPT ![p] = "closed"]
    BY <1>1, <2>1, OneMaps
  <2>3. TheLog' = TheLog /\ TheView' = TheView
    <3>1. TheView' = [TheView EXCEPT ![p] = <<>>]
      BY <1>1, <1>6, OneMaps
    <3> QED BY <1>2, <1>6, <3>1 DEF TheLog, TheView
  <2>4. Durable!Skip(p)
    BY <2>1, <2>2, <2>3 DEF Durable!Skip
  <2> QED BY <2>4 DEF Durable!Next
<1>7. QED
  BY <1>2, <1>3, <1>4, <1>5, <1>6

(* The batch is stored: the log grows by it.                               *)
LEMMA PersistOkMaps ==
  ASSUME IInv, NEW p \in Pid, PersistOk(p)
  PROVE  Durable!Commit(p)
<1> DEFINE b == effect[p].events
<1>1. /\ \A q \in Pid \ {p} : Untouched(q)
      /\ phase[p] = "persisting" /\ phase'[p] = "applying"
      /\ journal'[p] = Persisted(journal[p], b)
      /\ b \in Batch /\ EntryInv(journal[p])
  BY DEF PersistOk, Moved, IInv, TypeOK, Untouched
<1>2. Logged(journal'[p]) = TheLog[p] \o b
  BY <1>1, PersistedLog, BatchAssumption DEF TheLog
<1>3. TheTurn[p] = "open" /\ TurnIn(phase'[p]) = "closed"
  BY <1>1 DEF TheTurn, TurnIn
<1>4. /\ TheLog' = [TheLog EXCEPT ![p] = TheLog[p] \o b]
      /\ TheTurn' = [TheTurn EXCEPT ![p] = "closed"]
      /\ TheView' = [TheView EXCEPT ![p] = <<>>]
  BY <1>1, <1>2, <1>3, OneMaps
<1>5. TheView' = TheView
  BY <1>1, <1>4 DEF TheView
<1>6. QED
  BY <1>1, <1>3, <1>4, <1>5 DEF Durable!Commit

(* Snapshotting and compacting, or failing to, is invisible.               *)
LEMMA SnapshotMaps ==
  ASSUME IInv, IInv', NEW p \in Pid,
         SnapshotOk(p) \/ SnapshotErr(p) \/ CompactOk(p) \/ CompactErr(p)
  PROVE  [Durable!Next]_(Durable!vars)
<1>1. \A q \in Pid \ {p} : Untouched(q)
  BY DEF SnapshotOk, SnapshotErr, CompactOk, CompactErr, Moved, IInv, TypeOK,
         Untouched
<1>2. Logged(journal'[p]) = Logged(journal[p])
  <2>1. CASE SnapshotOk(p)
    <3>1. /\ EntryInv(journal[p]) /\ state[p] \in State /\ seq_nr[p] \in Nat
          /\ IsFold(journal[p], state[p], seq_nr[p])
          /\ seq_nr[p] = journal[p].last_seq
          /\ journal'[p] = Snapshotted(journal[p], state[p], seq_nr[p])
      BY <2>1 DEF SnapshotOk, Moved, IInv, TypeOK, ActorInv
    <3> QED BY <3>1, SnapshottedLog
  <2>2. CASE CompactOk(p)
    <3>1. /\ journal'[p] = Compacted(journal[p], SnapshotSeq(journal[p]))
          /\ EntryInv(journal[p])
      BY <2>2 DEF CompactOk, Moved, IInv, TypeOK, ActorInv
    <3> QED BY <3>1, CompactedLog
  <2>3. CASE SnapshotErr(p) \/ CompactErr(p)
    BY <2>3 DEF SnapshotErr, CompactErr
  <2> QED BY <2>1, <2>2, <2>3
<1>3. CASE SnapshotOk(p)
  <2>1. phase[p] = "snapshotting" /\ phase'[p] = "compacting"
    BY <1>3 DEF SnapshotOk, Moved, IInv, TypeOK
  <2>2. TurnIn(phase'[p]) = TurnIn(phase[p])
    BY <2>1 DEF TurnIn
  <2> QED BY <1>1, <1>2, <2>1, <2>2, QuietMaps
<1>4. CASE SnapshotErr(p) \/ CompactOk(p) \/ CompactErr(p)
  <2>1. phase[p] \in {"snapshotting", "compacting"} /\ phase'[p] = "idle"
    BY <1>4 DEF SnapshotErr, CompactOk, CompactErr, Moved, IInv, TypeOK
  <2>2. Durable!Ready(p)
    BY <1>1, <1>2, <2>1, ReadyMaps
  <2> QED BY <2>2 DEF Durable!Next
<1>5. QED
  BY <1>3, <1>4

(* A fork starts from the part of the log that was snapshotted.            *)
LEMMA CopySnapshotMaps ==
  ASSUME IInv, NEW from \in Pid, NEW to \in Pid, CopySnapshot(from, to)
  PROVE  Durable!Fork(from, to)
<1> DEFINE n == SnapshotSeq(journal[from])
<1>1. /\ \A q \in Pid \ {to} : Untouched(q)
      /\ phase[to] = "down" /\ phase' = phase /\ state' = state
      /\ journal[to] = EmptyEntry
      /\ journal'[to] = Copied(journal[from])
  BY DEF CopySnapshot, IInv, TypeOK, Untouched
<1>2. /\ n \in 0 .. Len(TheLog[from])
      /\ Logged(journal'[to]) = SubSeq(TheLog[from], 1, n)
  BY <1>1, CopiedLog DEF CopySnapshot, IInv, TheLog
<1>3. TheTurn[to] = "offline" /\ TheLog[to] = <<>>
  BY <1>1, EmptyEntryInv DEF TheTurn, TurnIn, TheLog
<1>4. TheLog' = [TheLog EXCEPT ![to] = SubSeq(TheLog[from], 1, n)]
  BY <1>1, <1>2, OneMaps
<1>5. TheTurn' = TheTurn /\ TheView' = TheView
  BY <1>1 DEF TheTurn, TheView
<1>6. QED
  BY <1>2, <1>3, <1>4, <1>5 DEF Durable!Fork

(* Stopping, failing to recover and dying are leaving.                     *)
LEMMA EndedMaps ==
  ASSUME NEW S \in SUBSET Pid, Ended(S), UNCHANGED journal
  PROVE  Durable!Next
<1>1. Durable!Leave
  BY LeaveMaps DEF Ended
<1>2. QED
  BY <1>1 DEF Durable!Next

(* Every step is a step of the durable actor, or a stutter.                *)
LEMMA NextMaps ==
  ASSUME IInv, IInv', [Next]_vars
  PROVE  [Durable!Next]_(Durable!vars)
<1>1. ASSUME NEW p \in Pid, Spawn(p) PROVE [Durable!Next]_(Durable!vars)
  BY <1>1, RecoveryMaps
<1>2. ASSUME NEW p \in Pid, Step(p) PROVE [Durable!Next]_(Durable!vars)
  <2>1. CASE PersistOk(p)
    BY <2>1, PersistOkMaps DEF Durable!Next
  <2>2. CASE PersistErr(p)
    BY <2>2, PersistReturnsMaps DEF PersistErr
  <2>3. CASE ApplyEvents(p)
    BY <2>3, PersistReturnsMaps DEF ApplyEvents
  <2> QED BY <1>2, <2>1, <2>2, <2>3, RecoveryMaps, SnapshotMaps DEF Step
<1>3. ASSUME NEW p \in Pid, RecoveryFails(p) \/ Stop(p)
      PROVE  [Durable!Next]_(Durable!vars)
  BY <1>3, EndedMaps DEF RecoveryFails, Stop
<1>4. ASSUME NEW p \in Pid, NEW kind \in EffectKind, NEW batch \in Batch,
             Handle(p, kind, batch)
      PROVE  [Durable!Next]_(Durable!vars)
  BY <1>4, HandleMaps DEF Durable!Next
<1>5. ASSUME NEW from \in Pid, NEW to \in Pid, CopySnapshot(from, to)
      PROVE  [Durable!Next]_(Durable!vars)
  BY <1>5, CopySnapshotMaps DEF Durable!Next
<1>6. CASE Crash
  BY <1>6, EndedMaps DEF Crash
<1>7. CASE UNCHANGED vars
  BY <1>7 DEF vars, Durable!vars, TheLog, TheTurn, TheView
<1>8. QED
  BY <1>1, <1>2, <1>3, <1>4, <1>5, <1>6, <1>7 DEF Next

(* Every behaviour of the runtime, with its partial steps, failures and    *)
(* crashes, is one of the durable actor.                                   *)
THEOREM Implementation == Spec => ImplementsDurableActor
  BY InitMaps, NextMaps, Invariance, PTL DEF Spec, ImplementsDurableActor,
     Durable!Spec

(* The log only grows: as a step of the durable actor, a step of the       *)
(* runtime appends a batch, forks onto an empty log, or leaves it alone.   *)
LEMMA DurableStepGrows ==
  ASSUME IInv, IInv', [Durable!Next]_(Durable!vars), NEW p \in Pid
  PROVE  /\ Len(Logged(journal'[p])) >= Len(Logged(journal[p]))
         /\ \A i \in 1 .. Len(Logged(journal[p])) :
              Logged(journal'[p])[i] = Logged(journal[p])[i]
<1>1. /\ TheLog[p] = Logged(journal[p]) /\ TheLog'[p] = Logged(journal'[p])
      /\ DOMAIN TheLog = Pid
      /\ Logged(journal[p]) \in Seq(Event) /\ Logged(journal'[p]) \in Seq(Event)
  BY LoggedIsSeq DEF IInv, TheLog
<1>2. CASE TheLog' = TheLog
  BY <1>1, <1>2
<1>3. CASE \E q \in Pid : Durable!Commit(q)
  <2>1. PICK q \in Pid, batch \in Batch :
          TheLog' = [TheLog EXCEPT ![q] = TheLog[q] \o batch]
    BY <1>3 DEF Durable!Commit
  <2>2. batch \in Seq(Event)
    BY BatchAssumption
  <2>3. CASE q = p
    <3>1. Logged(journal'[p]) = Logged(journal[p]) \o batch
      BY <1>1, <2>1, <2>3
    <3> QED BY <1>1, <2>2, <3>1, ConcatProperties
  <2>4. CASE q # p
    BY <1>1, <2>1, <2>4
  <2> QED BY <2>3, <2>4
<1>4. CASE \E q, r \in Pid : Durable!Fork(q, r)
  <2>1. PICK r \in Pid, q \in Pid :
          /\ TheLog[r] = <<>>
          /\ \E s : TheLog' = [TheLog EXCEPT ![r] = s]
    BY <1>4 DEF Durable!Fork
  <2>2. CASE r = p
    BY <1>1, <2>1, <2>2
  <2>3. CASE r # p
    BY <1>1, <2>1, <2>3
  <2> QED BY <2>2, <2>3
<1>5. QED
  BY <1>2, <1>3, <1>4 DEF Durable!Next, Durable!vars, Durable!Begin,
     Durable!Skip, Durable!Ready, Durable!Leave

(* No step takes back or rewrites what was persisted.                      *)
THEOREM LogGrows == Spec => LogOnlyGrows
<1>1. IInv /\ IInv' /\ [Next]_vars => [\A p \in Pid : Grows(p)]_vars
  <2> SUFFICES ASSUME IInv, IInv', [Next]_vars, NEW p \in Pid
               PROVE  Grows(p)
    OBVIOUS
  <2>1. EntryInv(journal[p]) /\ EntryInv(journal'[p])
    BY DEF IInv
  <2>2. /\ Len(Logged(journal[p])) = journal[p].last_seq
        /\ Len(Logged(journal'[p])) = journal'[p].last_seq
    BY <2>1, LoggedIsSeq
  <2>3. [Durable!Next]_(Durable!vars)
    BY NextMaps
  <2> QED BY <2>2, <2>3, DurableStepGrows DEF Grows
<1>2. QED
  BY <1>1, Invariance, PTL DEF Spec, LogOnlyGrows
=============================================================================
