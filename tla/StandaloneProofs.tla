-------------------------- MODULE StandaloneProofs --------------------------
(***************************************************************************)
(* Theorems about the components that stand alone, for all values of their *)
(* constants: ServerRegistry, ProviderStream and FileTools.                *)
(***************************************************************************)
EXTENDS ServerRegistry, ProviderStream, FileTools, SequenceTheorems, FiniteSetTheorems,
        WellFoundedInduction, TLAPS

-----------------------------------------------------------------------------
(* Steps that are counted.                                                 *)

NatLess == {p \in Nat \X Nat : p[1] < p[2]}

(* The natural numbers are well founded, which stands for induction.       *)
LEMMA NatLessIsWellFounded == IsWellFoundedOn(NatLess, Nat)
  <1>1. IsWellFoundedOn(OpToRel(<, Nat), Nat)
    BY NatLessThanWellFounded
  <1>2. OpToRel(<, Nat) = NatLess
    BY DEF OpToRel, NatLess
  <1> QED BY <1>1, <1>2

(* Induction up to n, with the set of the numbers it has come to in place  *)
(* of a predicate.                                                         *)
LEMMA StepByStep ==
  ASSUME NEW n \in Nat, NEW I, 0 \in I, \A i \in 1 .. n : i - 1 \in I => i \in I
  PROVE  \A i \in 0 .. n : i \in I
PROOF
  <1> DEFINE left == (0 .. n) \ I
  <1> SUFFICES ASSUME left # {} PROVE FALSE
    OBVIOUS
  <1>1. left \subseteq Nat
    OBVIOUS
  <1>2. PICK x \in left : \A y \in left : ~(<<y, x>> \in NatLess)
    BY <1>1, NatLessIsWellFounded, WFMin
  <1>3. x \in 1 .. n
    OBVIOUS
  <1>4. x - 1 \in I
    <2>1. SUFFICES ASSUME x - 1 \notin I PROVE FALSE
      OBVIOUS
    <2>2. x - 1 \in left
      BY <1>3, <2>1
    <2>3. <<x - 1, x>> \in NatLess
      BY <1>3 DEF NatLess
    <2> QED BY <1>2, <2>2, <2>3
  <1> QED BY <1>3, <1>4

Iterates(f, n, S, base, g) ==
  /\ f \in [0 .. n -> S] /\ f[0] = base
  /\ \A i \in 1 .. n : f[i] = g[<<i, f[i - 1]>>]

(* A function may be defined by what it is at 0 and by how each value      *)
(* comes out of the one before it.                                         *)
LEMMA ThereIsAnIteration ==
  ASSUME NEW n \in Nat, NEW S, NEW base \in S, NEW g \in [(1 .. n) \X S -> S]
  PROVE  \E f : Iterates(f, n, S, base, g)
PROOF
  <1> DEFINE Upto(f, m) == /\ f \in [0 .. m -> S] /\ f[0] = base
                           /\ \A i \in 1 .. m : f[i] = g[<<i, f[i - 1]>>]
             I == {m \in 0 .. n : \E f : Upto(f, m)}
  <1>1. 0 \in I
    <2> DEFINE h == [i \in 0 .. 0 |-> base]
    <2>1. Upto(h, 0)
      <3>1. h \in [0 .. 0 -> S] /\ h[0] = base /\ 1 .. 0 = {}
        OBVIOUS
      <3> QED BY <3>1
    <2> HIDE DEF h, Upto
    <2> QED BY <2>1
  <1>2. ASSUME NEW m \in 1 .. n, m - 1 \in I PROVE m \in I
    <2>1. PICK f : Upto(f, m - 1)
      BY <1>2
    <2> DEFINE h == [i \in 0 .. m |-> IF i = m THEN g[<<m, f[m - 1]>>] ELSE f[i]]
    <2>2. m - 1 \in 0 .. m - 1 /\ f[m - 1] \in S
      BY <2>1
    <2>3. <<m, f[m - 1]>> \in (1 .. n) \X S
      BY <2>2
    <2>4. \A i \in 0 .. m : i # m => i \in 0 .. m - 1 /\ f[i] \in S
      BY <2>1
    <2>5. h \in [0 .. m -> S]
      BY <2>3, <2>4
    <2>6. h[0] = base
      BY <2>1
    <2>7. ASSUME NEW i \in 1 .. m PROVE h[i] = g[<<i, h[i - 1]>>]
      <3>1. h[i - 1] = f[i - 1]
        OBVIOUS
      <3>2. CASE i = m
        <4>1. h[i] = g[<<i, f[i - 1]>>]
          BY <3>2
        <4> HIDE DEF h
        <4> QED BY <3>1, <4>1
      <3>3. CASE i # m
        <4>1. i \in 1 .. m - 1 /\ h[i] = f[i]
          BY <3>3
        <4>2. f[i] = g[<<i, f[i - 1]>>]
          BY <2>1, <4>1
        <4> HIDE DEF h, Upto
        <4> QED BY <3>1, <4>1, <4>2
      <3> QED BY <3>2, <3>3
    <2>8. Upto(h, m)
      BY <2>5, <2>6, <2>7
    <2> HIDE DEF h, Upto
    <2> QED BY <2>8
  <1> HIDE DEF I
  <1>3. \A m \in 0 .. n : m \in I
    BY <1>1, <1>2, StepByStep
  <1>4. n \in 0 .. n
    OBVIOUS
  <1>5. \E f : Upto(f, n)
    BY <1>3, <1>4 DEF I
  <1> QED BY <1>5 DEF Iterates

(* A loop whose steps are those of g, as long as they stay in S, does.     *)
LEMMA LoopIterates ==
  ASSUME NEW n \in Nat, NEW S, NEW base \in S, NEW g \in [(1 .. n) \X S -> S], NEW p,
         p = [i \in 0 .. n |-> p[i]], p[0] = base,
         \A i \in 1 .. n : p[i - 1] \in S => p[i] = g[<<i, p[i - 1]>>]
  PROVE  Iterates(p, n, S, base, g)
PROOF
  <1> DEFINE I == {i \in 0 .. n : p[i] \in S}
  <1>1. 0 \in I
    OBVIOUS
  <1>2. ASSUME NEW i \in 1 .. n, i - 1 \in I PROVE i \in I
    <2>1. <<i, p[i - 1]>> \in (1 .. n) \X S
      BY <1>2
    <2>2. g[<<i, p[i - 1]>>] \in S
      BY <2>1
    <2> QED BY <1>2, <2>2
  <1> HIDE DEF I
  <1>3. \A i \in 0 .. n : i \in I
    BY <1>1, <1>2, StepByStep
  <1>4. \A i \in 0 .. n : p[i] \in S
    BY <1>3 DEF I
  <1>5. p \in [0 .. n -> S]
    BY <1>4
  <1>6. ASSUME NEW i \in 1 .. n PROVE p[i] = g[<<i, p[i - 1]>>]
    <2>1. i - 1 \in 0 .. n
      OBVIOUS
    <2> QED BY <1>4, <2>1
  <1> QED BY <1>5, <1>6 DEF Iterates

(* A loop that goes on after the same steps has passed where the other     *)
(* one ends.                                                               *)
LEMMA IterationGoesOn ==
  ASSUME NEW n \in Nat, NEW m \in Nat, n <= m, NEW S, NEW base, NEW g, NEW h, NEW p, NEW q,
         Iterates(p, n, S, base, g), Iterates(q, m, S, base, h),
         \A i \in 1 .. n : \A x \in S : g[<<i, x>>] = h[<<i, x>>]
  PROVE  p[n] \in S /\ q[n] = p[n]
PROOF
  <1> DEFINE I == {i \in 0 .. n : p[i] = q[i]}
  <1>1. 0 \in I
    BY DEF Iterates
  <1>2. ASSUME NEW i \in 1 .. n, i - 1 \in I PROVE i \in I
    <2>1. p[i - 1] = q[i - 1] /\ p[i - 1] \in S
      BY <1>2 DEF Iterates
    <2>2. p[i] = g[<<i, p[i - 1]>>] /\ q[i] = h[<<i, q[i - 1]>>]
      BY DEF Iterates
    <2>3. p[i] = q[i]
      BY <2>1, <2>2
    <2> QED BY <2>3
  <1> HIDE DEF I
  <1>3. \A i \in 0 .. n : i \in I
    BY <1>1, <1>2, StepByStep
  <1>4. p[n] = q[n] /\ p[n] \in S
    BY <1>3 DEF I, Iterates
  <1> QED BY <1>4

(* Induction over sequences, one element more at a time.                   *)
LEMMA OneByOne ==
  ASSUME NEW T, NEW I, <<>> \in I,
         \A s \in Seq(T), x \in T : s \in I => Append(s, x) \in I
  PROVE  \A s \in Seq(T) : s \in I
PROOF
  <1> SUFFICES ASSUME NEW s \in Seq(T) PROVE s \in I
    OBVIOUS
  <1> DEFINE J == {i \in 0 .. Len(s) : SubSeq(s, 1, i) \in I}
  <1>1. 0 \in J
    <2>1. SubSeq(s, 1, 0) = <<>> /\ Len(s) \in Nat
      OBVIOUS
    <2>2. 0 \in 0 .. Len(s)
      BY <2>1
    <2> QED BY <2>1, <2>2
  <1>2. ASSUME NEW i \in 1 .. Len(s), i - 1 \in J PROVE i \in J
    <2>1. SubSeq(s, 1, i - 1) \in Seq(T) /\ s[i] \in T
      OBVIOUS
    <2>2. SubSeq(s, 1, i) = Append(SubSeq(s, 1, i - 1), s[i])
      OBVIOUS
    <2>3. SubSeq(s, 1, i) \in I
      BY <1>2, <2>1, <2>2
    <2> QED BY <2>3
  <1> HIDE DEF J
  <1>3. \A i \in 0 .. Len(s) : i \in J
    <2>1. Len(s) \in Nat
      OBVIOUS
    <2> QED BY <1>1, <1>2, <2>1, StepByStep
  <1>4. Len(s) \in 0 .. Len(s) /\ SubSeq(s, 1, Len(s)) = s
    OBVIOUS
  <1> QED BY <1>3, <1>4 DEF J

-----------------------------------------------------------------------------
(* ServerRegistry.                                                         *)

(* Nothing is listed, entered or sent before the first connection.         *)
LEMMA InitInv == Init => Inv
  BY RegistryAssumption
  DEF Init, Inv, TypeOK, CleanIsListed, ListedIsOpen, ListedIsNewest, NewestIsOwned,
      EnteredOnce, CleanIsAlone, Outcomes

(* Steps that touch neither map, owners nor history, and end no connection *)
(* but one that was never entered: what Connect, Handshake, ReaderEnds and *)
(* the peers do.                                                           *)
LEMMA ConnectionMoves ==
  ASSUME Inv, NEW k \in Conns,
         \/ Connect(k) \/ Handshake(k) \/ ReaderEnds(k)
         \/ PeerStalls(k) \/ PeerReads(k) \/ PeerGone(k)
  PROVE  Inv'
PROOF
  <1> USE RegistryAssumption DEF connections, requests, history
  <1>1. UNCHANGED <<owner, conns, lock, requests, history>>
    BY DEF Connect, Handshake, ReaderEnds, PeerStalls, PeerReads, PeerGone
  <1>2. \/ UNCHANGED task
        \/ /\ task[k] = "none" /\ task' = [task EXCEPT ![k] = "handshake"]
        \/ /\ task[k] = "handshake" /\ task' = [task EXCEPT ![k] = "register"]
        \/ /\ task[k] = "handshake" /\ task' = [task EXCEPT ![k] = "gone"]
        \/ /\ task[k] = "serving" /\ task' = [task EXCEPT ![k] = "remove"]
    BY DEF Connect, Handshake, ReaderEnds, PeerStalls, PeerReads, PeerGone
  <1>3. \/ UNCHANGED peer
        \/ peer' = [peer EXCEPT ![k] = "up"]
        \/ peer' = [peer EXCEPT ![k] = "stalled"]
        \/ peer' = [peer EXCEPT ![k] = "down"]
    BY DEF Connect, Handshake, ReaderEnds, PeerStalls, PeerReads, PeerGone
  <1>4. TypeOK'
    BY <1>1, <1>2, <1>3 DEF Inv, TypeOK, Outcomes
  <1>5. \A j \in Conns : /\ Open(j)' <=> Open(j)
                         /\ task'[j] = "serving" => task[j] = "serving"
                         /\ task[j] = "gone" => task'[j] = "gone"
    BY <1>2 DEF Inv, TypeOK, Open
  <1>6. (ListedIsOpen /\ ListedIsNewest /\ NewestIsOwned)'
    BY <1>1, <1>5 DEF Inv, TypeOK, ListedIsOpen, ListedIsNewest, NewestIsOwned
  <1>7. (EnteredOnce /\ CleanIsAlone /\ CleanIsListed)'
    BY <1>1, <1>5 DEF Inv, TypeOK, EnteredOnce, CleanIsAlone, CleanIsListed
  <1> QED
    BY <1>4, <1>6, <1>7 DEF Inv

(* A registration: the new connection was never entered, so it is clean    *)
(* only if no other is open.                                               *)
LEMMA RegisterMoves ==
  ASSUME Inv, NEW k \in Conns, Register(k)
  PROVE  Inv'
PROOF
  <1> USE RegistryAssumption DEF Register, requests
  <1> DEFINE e == owner[k]
  <1>1. e \in Executors /\ k \notin clean
    BY DEF Inv, TypeOK, EnteredOnce, Open
  <1>2. TypeOK'
    BY <1>1 DEF Inv, TypeOK, Outcomes
  <1>3. \A j \in Conns : /\ Open(j)' <=> Open(j) \/ j = k
                         /\ task[j] = "gone" => task'[j] = "gone"
                         /\ j # k => task'[j] = task[j]
    BY DEF Inv, TypeOK, Open
  <1>4. /\ newest'[e] = k /\ conns'[e] = k
        /\ \A d \in Executors \ {e} : newest'[d] = newest[d] /\ conns'[d] = conns[d]
    BY <1>1 DEF Inv, TypeOK
  <1>5. (ListedIsOpen /\ ListedIsNewest /\ NewestIsOwned)'
    BY <1>3, <1>4 DEF Inv, TypeOK, ListedIsOpen, ListedIsNewest, NewestIsOwned
  <1>6. /\ clean' \subseteq clean \cup {k}
        /\ k \in clean' => EnteredBefore(k) = {}
    BY <1>1
  <1>7. EnteredOnce'
    BY <1>3, <1>6 DEF Inv, TypeOK, EnteredOnce
  <1>8. \A d \in Executors \ {e} : newest'[d] \in clean' => newest[d] \in clean /\ newest[d] # k
    BY <1>4, <1>6 DEF Inv, TypeOK, NewestIsOwned
  <1>9. CleanIsAlone'
    BY <1>3, <1>4, <1>6, <1>8 DEF Inv, TypeOK, CleanIsAlone, EnteredBefore
  <1>10. CleanIsListed'
    BY <1>3, <1>4, <1>8 DEF Inv, TypeOK, CleanIsListed
  <1> QED
    BY <1>2, <1>5, <1>7, <1>9, <1>10 DEF Inv

(* A removal takes the entry of its executor, whosever it is: a clean      *)
(* newest connection that is served is not lost by it, being alone.        *)
LEMMA RemoveMoves ==
  ASSUME Inv, NEW k \in Conns, RemoveEntry(k)
  PROVE  Inv'
PROOF
  <1> USE RegistryAssumption DEF RemoveEntry, requests, history
  <1> DEFINE e == owner[k]
  <1>1. e \in Executors
    BY DEF Inv, TypeOK
  <1>2. TypeOK'
    BY DEF Inv, TypeOK, Outcomes
  <1>3. \A j \in Conns : /\ Open(j)' <=> Open(j) /\ j # k
                         /\ j # k => task'[j] = task[j]
                         /\ task'[k] = "gone"
    BY DEF Inv, TypeOK, Open
  <1>4. /\ conns'[e] = NoConn
        /\ \A d \in Executors \ {e} : conns'[d] = conns[d]
    BY <1>1 DEF Inv, TypeOK
  <1>5. (ListedIsOpen /\ ListedIsNewest /\ NewestIsOwned)'
    BY <1>3, <1>4 DEF Inv, TypeOK, ListedIsOpen, ListedIsNewest, NewestIsOwned
  <1>6. (EnteredOnce /\ CleanIsAlone)'
    BY <1>3 DEF Inv, TypeOK, EnteredOnce, CleanIsAlone
  <1>7. newest[e] \in clean => newest[e] = k
    BY <1>1 DEF Inv, TypeOK, CleanIsAlone, Open
  <1>8. CleanIsListed'
    BY <1>3, <1>4, <1>7 DEF Inv, TypeOK, CleanIsListed
  <1> QED
    BY <1>2, <1>5, <1>6, <1>8 DEF Inv

(* Commands change the lock and themselves only: whoever sends has it.     *)
LEMMA CommandMoves ==
  ASSUME Inv, NEW r \in Requests, Ask(r) \/ LookUp(r) \/ Send(r)
  PROVE  Inv'
PROOF
  <1> USE RegistryAssumption DEF connections, history
  <1>1. UNCHANGED <<task, owner, conns, target, newest, clean>>
    BY DEF Ask, LookUp, Send
  <1>2. TypeOK'
    <2>1. CASE Ask(r)
      BY <2>1 DEF Ask, Inv, TypeOK, Outcomes
    <2>2. CASE LookUp(r)
      BY <2>2 DEF LookUp, Inv, TypeOK, Outcomes
    <2>3. CASE Send(r)
      BY <2>3 DEF Send, Inv, TypeOK, Outcomes
    <2> QED
      BY <2>1, <2>2, <2>3
  <1>3. (CleanIsListed /\ ListedIsOpen /\ ListedIsNewest)'
    BY <1>1 DEF Inv, CleanIsListed, ListedIsOpen, ListedIsNewest, Open
  <1>4. (NewestIsOwned /\ EnteredOnce /\ CleanIsAlone)'
    BY <1>1 DEF Inv, NewestIsOwned, EnteredOnce, CleanIsAlone, Open
  <1> QED
    BY <1>2, <1>3, <1>4 DEF Inv

(* Every step of the server keeps the registry's invariant.                *)
LEMMA NextInv == Inv /\ [Next]_vars => Inv'
PROOF
  <1> SUFFICES ASSUME Inv, [Next]_vars PROVE Inv'
    OBVIOUS
  <1>1. CASE UNCHANGED vars
    BY <1>1 DEF vars, Inv, TypeOK, CleanIsListed, ListedIsOpen, ListedIsNewest,
                NewestIsOwned, EnteredOnce, CleanIsAlone, Open
  <1>2. ASSUME NEW k \in Conns,
               Connect(k) \/ Task(k) \/ PeerStalls(k) \/ PeerReads(k) \/ PeerGone(k)
        PROVE  Inv'
    BY <1>2, ConnectionMoves, RegisterMoves, RemoveMoves DEF Task
  <1>3. ASSUME NEW r \in Requests, Ask(r) \/ Command(r)
        PROVE  Inv'
    BY <1>3, CommandMoves DEF Command
  <1> QED
    BY <1>1, <1>2, <1>3 DEF Next

(* The registry lists what is open, under its own id, and an executor's    *)
(* newest connection if its earlier ones had ended (server.rs,             *)
(* handle_connection).                                                     *)
THEOREM RegistryInvariance == Spec => []Inv
  BY InitInv, NextInv, PTL DEF Spec

(* A command is sent over the newest connection of the executor it is for  *)
(* (registry.rs, send_command).                                            *)
THEOREM NewestIsUsed == Spec => SentToNewest
PROOF
  <1>1. ASSUME Inv, [Next]_vars, NEW r \in Requests, via'[r] # via[r]
        PROVE  via'[r] = newest[target[r]]
    <2>1. \A q \in Requests : ~Ask(q) /\ ~Send(q)
      BY <1>1 DEF Ask, Send
    <2>2. \A k \in Conns : ~(Connect(k) \/ Task(k) \/ PeerStalls(k) \/ PeerReads(k) \/ PeerGone(k))
      BY <1>1 DEF Connect, Task, Handshake, Register, ReaderEnds, RemoveEntry, PeerStalls,
                  PeerReads, PeerGone, requests
    <2>3. PICK q \in Requests : LookUp(q)
      BY <1>1, <2>1, <2>2 DEF Next, Command, vars
    <2>4. /\ via' = [via EXCEPT ![q] = conns[target[q]]]
          /\ conns[target[q]] # NoConn
      BY <1>1, <2>3 DEF LookUp
    <2>5. via \in [Requests -> Conns \cup {NoConn}] /\ target[r] \in Executors
      BY <1>1 DEF Inv, TypeOK
    <2>6. q = r /\ via'[r] = conns[target[r]]
      BY <1>1, <2>4, <2>5
    <2> QED
      BY <1>1, <2>4, <2>5, <2>6 DEF Inv, ListedIsNewest
  <1>2. Inv /\ [Next]_vars =>
          [\A r \in Requests : via'[r] # via[r] => via'[r] = newest[target[r]]]_vars
    BY <1>1
  <1> QED
    BY <1>2, RegistryInvariance, PTL DEF Spec, SentToNewest

-----------------------------------------------------------------------------
(* ProviderStream.                                                         *)

(* What is pushed.                                                         *)

IsPushed(x) == x.kind = "tool" \/ x.pieces # <<>>

(* How the loop goes, from one index to the next.                          *)
LEMMA PushedStepwise ==
  ASSUME NEW S, NEW s \in Seq(S)
  PROVE  \E p \in [0 .. Len(s) -> Seq(S)] :
           /\ p[0] = <<>> /\ Pushed(s) = p[Len(s)]
           /\ \A i \in 1 .. Len(s) :
                p[i] = IF IsPushed(s[i]) THEN Append(p[i - 1], s[i]) ELSE p[i - 1]
PROOF
  <1> DEFINE n == Len(s)
             Loop(h) == [i \in 0 .. n |->
                           IF i = 0 THEN <<>>
                           ELSE IF s[i].kind = "tool" \/ s[i].pieces # <<>>
                                THEN Append(h[i - 1], s[i]) ELSE h[i - 1]]
             g == [x \in (1 .. n) \X Seq(S) |->
                     IF s[x[1]].kind = "tool" \/ s[x[1]].pieces # <<>>
                     THEN Append(x[2], s[x[1]]) ELSE x[2]]
             p == CHOOSE h : h = Loop(h)
  <1>1. n \in Nat /\ g \in [(1 .. n) \X Seq(S) -> Seq(S)] /\ <<>> \in Seq(S)
    <2>1. n \in Nat /\ \A i \in 1 .. n : s[i] \in S
      OBVIOUS
    <2> HIDE DEF n
    <2> QED BY <2>1
  <1> HIDE DEF n, g
  <1>2. \E f \in [0 .. n -> Seq(S)] :
           f[0] = <<>> /\ \A i \in 1 .. n : f[i] = g[<<i, f[i - 1]>>]
    <2> DEFINE T == Seq(S)
               base == <<>>
    <2>1. n \in Nat /\ g \in [(1 .. n) \X T -> T] /\ base \in T
      BY <1>1
    <2> HIDE DEF T, base
    <2>2. \E f : Iterates(f, n, T, base, g)
      BY <2>1, ThereIsAnIteration
    <2> QED BY <2>2 DEF T, base, Iterates
  <1> PICK f \in [0 .. n -> Seq(S)] :
           f[0] = <<>> /\ \A i \in 1 .. n : f[i] = g[<<i, f[i - 1]>>]
    BY <1>2
  <1>3. f = Loop(f)
    <2>1. ASSUME NEW i \in 1 .. n PROVE f[i] = Loop(f)[i]
      <3>1. i - 1 \in 0 .. n /\ i \in 0 .. n /\ i # 0
        BY <1>1
      <3>2. <<i, f[i - 1]>> \in (1 .. n) \X Seq(S)
        BY <3>1
      <3>3. f[i] = g[<<i, f[i - 1]>>]
        OBVIOUS
      <3>4. g[<<i, f[i - 1]>>] = IF s[i].kind = "tool" \/ s[i].pieces # <<>>
                                 THEN Append(f[i - 1], s[i]) ELSE f[i - 1]
        BY <3>2 DEF g
      <3> QED BY <3>1, <3>3, <3>4
    <2>2. f[0] = Loop(f)[0]
      BY <1>1
    <2>3. \A i \in 0 .. n : i = 0 \/ i \in 1 .. n
      BY <1>1
    <2>4. \A i \in 0 .. n : f[i] = Loop(f)[i]
      BY <2>1, <2>2, <2>3
    <2> QED BY <2>4
  <1> HIDE DEF Loop
  <1>4. p = Loop(p)
    BY <1>3
  <1> HIDE DEF p
  <1>5. p[0] = <<>> /\ \A i \in 1 .. n :
           p[i] = IF IsPushed(s[i]) THEN Append(p[i - 1], s[i]) ELSE p[i - 1]
    <2>1. \A i \in 0 .. n : p[i] = Loop(p)[i]
      BY <1>4
    <2>2. 0 \in 0 .. n /\ \A i \in 1 .. n : i \in 0 .. n /\ i # 0
      BY <1>1
    <2>3. \A i \in 0 .. n : Loop(p)[i] =
            IF i = 0 THEN <<>>
            ELSE IF IsPushed(s[i]) THEN Append(p[i - 1], s[i]) ELSE p[i - 1]
      BY DEF Loop, IsPushed
    <2> QED BY <2>1, <2>2, <2>3
  <1>6. \A i \in 1 .. n : s[i] \in S
    BY DEF n
  <1>7. \A i \in 0 .. n : i \in {j \in 0 .. n : p[j] \in Seq(S)}
    <2> DEFINE I == {j \in 0 .. n : p[j] \in Seq(S)}
    <2>1. 0 \in I
      <3>1. 0 \in 0 .. n /\ p[0] \in Seq(S)
        BY <1>1, <1>5
      <3> QED BY <3>1
    <2>2. ASSUME NEW i \in 1 .. n, i - 1 \in I PROVE i \in I
      <3>1. p[i - 1] \in Seq(S) /\ i \in 0 .. n /\ s[i] \in S
        BY <1>1, <1>6, <2>2
      <3>2. Append(p[i - 1], s[i]) \in Seq(S)
        BY <3>1
      <3>3. p[i] = Append(p[i - 1], s[i]) \/ p[i] = p[i - 1]
        BY <1>5
      <3>4. p[i] \in Seq(S)
        BY <3>1, <3>2, <3>3
      <3> QED BY <3>1, <3>4
    <2> HIDE DEF I
    <2>3. \A i \in 0 .. n : i \in I
      BY <1>1, <2>1, <2>2, StepByStep
    <2> QED BY <2>3 DEF I
  <1>8. p = [i \in 0 .. n |-> p[i]]
    BY <1>4 DEF Loop
  <1>9. p \in [0 .. n -> Seq(S)]
    BY <1>7, <1>8
  <1>10. Pushed(s) = p[n]
    BY DEF Pushed, p, n, Loop
  <1> QED BY <1>5, <1>9, <1>10 DEF n

(* What is pushed is what is to be, and all of it.                         *)
LEMMA PushedElements ==
  ASSUME NEW S, NEW s \in Seq(S)
  PROVE  /\ Pushed(s) \in Seq(S)
         /\ \A k \in DOMAIN Pushed(s) :
              \E i \in DOMAIN s : IsPushed(s[i]) /\ Pushed(s)[k] = s[i]
         /\ \A i \in DOMAIN s :
              IsPushed(s[i]) => \E k \in DOMAIN Pushed(s) : Pushed(s)[k] = s[i]
PROOF
  <1> DEFINE n == Len(s)
  <1>1. PICK p \in [0 .. n -> Seq(S)] :
           /\ p[0] = <<>> /\ Pushed(s) = p[n]
           /\ \A i \in 1 .. n :
                p[i] = IF IsPushed(s[i]) THEN Append(p[i - 1], s[i]) ELSE p[i - 1]
    BY PushedStepwise
  <1>2. n \in Nat /\ DOMAIN s = 1 .. n /\ \A i \in 1 .. n : s[i] \in S
    OBVIOUS
  <1> HIDE DEF n
  <1> DEFINE From(i) == \A k \in DOMAIN p[i] :
                          \E j \in 1 .. i : IsPushed(s[j]) /\ p[i][k] = s[j]
             All(i)  == \A j \in 1 .. i : IsPushed(s[j]) =>
                          \E k \in DOMAIN p[i] : p[i][k] = s[j]
             I == {i \in 0 .. n : From(i) /\ All(i)}
  <1>3. 0 \in I
    BY <1>1, <1>2
  <1>4. ASSUME NEW i \in 1 .. n, i - 1 \in I PROVE i \in I
    <2>1. p[i - 1] \in Seq(S) /\ s[i] \in S /\ From(i - 1) /\ All(i - 1)
      BY <1>2, <1>4
    <2>2. CASE IsPushed(s[i])
      <3>1. p[i] = Append(p[i - 1], s[i])
        BY <1>1, <2>2
      <3>2. /\ DOMAIN p[i] = 1 .. Len(p[i - 1]) + 1 /\ p[i][Len(p[i - 1]) + 1] = s[i]
            /\ DOMAIN p[i - 1] = 1 .. Len(p[i - 1])
            /\ \A k \in DOMAIN p[i - 1] : p[i][k] = p[i - 1][k]
        BY <2>1, <3>1
      <3>3. From(i)
        BY <2>1, <2>2, <3>2
      <3>4. All(i)
        <4> SUFFICES ASSUME NEW j \in 1 .. i, IsPushed(s[j])
                     PROVE  \E k \in DOMAIN p[i] : p[i][k] = s[j]
          OBVIOUS
        <4>1. CASE j = i
          BY <2>1, <3>2, <4>1
        <4>2. CASE j # i
          <5>1. j \in 1 .. i - 1
            BY <4>2
          <5>2. PICK k \in DOMAIN p[i - 1] : p[i - 1][k] = s[j]
            BY <2>1, <5>1
          <5>3. k \in DOMAIN p[i] /\ p[i][k] = s[j]
            BY <2>1, <3>2, <5>2
          <5> QED BY <5>3
        <4> QED BY <4>1, <4>2
      <3> QED BY <3>3, <3>4
    <2>3. CASE ~IsPushed(s[i])
      <3>1. p[i] = p[i - 1]
        BY <1>1, <2>3
      <3>2. 1 .. i - 1 \subseteq 1 .. i /\ \A j \in 1 .. i : j = i \/ j \in 1 .. i - 1
        OBVIOUS
      <3>3. From(i)
        <4>1. \A k \in DOMAIN p[i - 1] :
                \E j \in 1 .. i : IsPushed(s[j]) /\ p[i - 1][k] = s[j]
          BY <2>1, <3>2
        <4> QED BY <3>1, <4>1
      <3>4. All(i)
        BY <2>1, <2>3, <3>1, <3>2
      <3> QED BY <3>3, <3>4
    <2> QED BY <2>2, <2>3
  <1> HIDE DEF I
  <1>5. n \in I
    <2>1. \A i \in 0 .. n : i \in I
      BY <1>2, <1>3, <1>4, StepByStep
    <2> QED BY <1>2, <2>1
  <1>6. From(n) /\ All(n) /\ p[n] \in Seq(S)
    BY <1>2, <1>5 DEF I
  <1> DEFINE q == p[n]
  <1>7. /\ \A k \in DOMAIN q : \E j \in 1 .. n : IsPushed(s[j]) /\ q[k] = s[j]
        /\ \A j \in 1 .. n : IsPushed(s[j]) => \E k \in DOMAIN q : q[k] = s[j]
        /\ q \in Seq(S) /\ Pushed(s) = q
    BY <1>1, <1>6
  <1> HIDE DEF q
  <1> QED BY <1>2, <1>7

-----------------------------------------------------------------------------
(* The invariant.                                                          *)

(* How many blocks have begun, and how many pieces of the i-th are there.  *)
Begun ==
  IF position[1] = 0 THEN 0
  ELSE IF position[1] > Len(message.blocks) THEN Len(message.blocks)
  ELSE IF position[2] = 0 THEN position[1] - 1 ELSE position[1]

Arrived(i) == IF i = position[1] THEN position[2] - 1 ELSE message.blocks[i].size

StreamCore ==
  /\ attempt \in 0 .. MaxRetries /\ message \in Messages
  /\ position \in Nat \X Nat /\ position[1] <= Len(message.blocks) + 3
  /\ position[2] > 0 => /\ position[1] \in 1 .. Len(message.blocks)
                        /\ position[2] <= message.blocks[position[1]].size + 1
  /\ last_error \in {"none", "Overloaded", "RateLimit"}
  /\ last_error # "none" => attempt > 0
  /\ outcome.kind \in {"none", "ok", "error"}

(* What is collected is what the stream has brought of this attempt's      *)
(* message, and nothing of an earlier one's.                               *)
Collected ==
  /\ blocks = [i \in 1 .. Begun |->
                 [kind   |-> message.blocks[i].kind,
                  pieces |-> [m \in 1 .. Arrived(i) |-> <<attempt, i, m>>]]]
  /\ stop_reason = IF position[1] > Len(message.blocks) + 1 THEN message.stop
                   ELSE "end_turn"
  /\ input_tokens = IF position[1] > 0 /\ message.input # NoCount THEN message.input ELSE 0

Emission == [event : {"start", "done"}, index : Nat]
              \cup [event : {"piece"}, index : Nat, piece : Nat \X Nat \X Nat]

(* What is shown is of the blocks that have begun: their pieces, and one   *)
(* start of each tool.                                                     *)
ShownSoFar ==
  /\ emitted \in Seq(Emission)
  /\ \A k \in DOMAIN emitted :
       /\ emitted[k].index \in 1 .. Begun
       /\ emitted[k].event # "piece" => message.blocks[emitted[k].index].kind = "tool"
  /\ \A i \in 1 .. Begun : AsShown(i, blocks[i].pieces)
  /\ \A i \in 1 .. Begun :
       message.blocks[i].kind = "tool" => \E m \in Started(i) : Started(i) = {m}

Answered ==
  outcome.kind = "ok" =>
    outcome.parts = Parts /\ outcome.stop = stop_reason /\ outcome.input = input_tokens

(* The attempts so far have each ended with an error of load, and the last *)
(* of these errors is the one that is kept.                                *)
EndsTold ==
  /\ ends \in Seq(Failures \cup {"over"})
  /\ outcome.kind = "none" =>
       /\ Len(ends) = attempt
       /\ \A i \in 1 .. attempt : ends[i] \in IsRetryable
       /\ last_error = IF attempt = 0 THEN "none" ELSE ToLlmError(ends[attempt])

StreamInv ==
  StreamCore /\ Collected /\ ShownSoFar /\ Answered /\ EndsTold /\ GivesUpLate

-----------------------------------------------------------------------------
(* What is shown, as a function of what was emitted.                       *)

ShownIn(e, i) == {k \in DOMAIN e : e[k].event = "piece" /\ e[k].index = i}
IsShownBy(f, e, i, ps) ==
  /\ f \in [DOMAIN ps -> ShownIn(e, i)]
  /\ \A m, n \in DOMAIN ps : m < n => f[m] < f[n]
  /\ \A k \in ShownIn(e, i) : \E n \in DOMAIN ps : f[n] = k
  /\ \A n \in DOMAIN ps : e[f[n]].piece = ps[n]

(* AsShown, with the function that it says there is in a name.             *)
LEMMA ShownByDef ==
  ASSUME NEW i, NEW ps
  PROVE  AsShown(i, ps) <=> \E f : IsShownBy(f, emitted, i, ps)
  BY DEF AsShown, IsShownBy, ShownIn, Shown

(* Nothing is shown of a block yet.                                        *)
LEMMA NothingShown ==
  ASSUME NEW e, NEW i, \A k \in DOMAIN e : e[k].index # i
  PROVE  \E f : IsShownBy(f, e, i, <<>>)
PROOF
  <1>1. ShownIn(e, i) = {} /\ DOMAIN <<>> = {}
    BY DEF ShownIn
  <1>2. IsShownBy([n \in {} |-> 0], e, i, <<>>)
    BY <1>1 DEF IsShownBy
  <1> QED BY <1>2

(* Something else is emitted.                                              *)
LEMMA ShownStays ==
  ASSUME NEW e \in Seq(Emission), NEW x \in Emission, NEW i, NEW ps, NEW f,
         ~(x.event = "piece" /\ x.index = i), IsShownBy(f, e, i, ps)
  PROVE  IsShownBy(f, Append(e, x), i, ps)
PROOF
  <1> DEFINE d == Append(e, x)
  <1>1. /\ DOMAIN d = 1 .. Len(e) + 1 /\ DOMAIN e = 1 .. Len(e) /\ Len(e) \in Nat
        /\ d[Len(e) + 1] = x /\ \A k \in DOMAIN e : d[k] = e[k]
    OBVIOUS
  <1> HIDE DEF d
  <1>2. ShownIn(d, i) = ShownIn(e, i)
    BY <1>1 DEF ShownIn
  <1>3. \A n \in DOMAIN ps : f[n] \in DOMAIN e
    BY DEF IsShownBy, ShownIn
  <1>4. \A n \in DOMAIN ps : d[f[n]] = e[f[n]]
    BY <1>1, <1>3
  <1>5. IsShownBy(f, d, i, ps)
    BY <1>2, <1>4 DEF IsShownBy
  <1> QED BY <1>5 DEF d

(* The next piece is emitted.                                              *)
LEMMA ShownGrows ==
  ASSUME NEW e \in Seq(Emission), NEW i \in Nat, NEW T, NEW ps \in Seq(T), NEW pc \in T,
         NEW f, IsShownBy(f, e, i, ps)
  PROVE  \E h : IsShownBy(h, Append(e, [event |-> "piece", index |-> i, piece |-> pc]),
                          i, Append(ps, pc))
PROOF
  <1> DEFINE x == [event |-> "piece", index |-> i, piece |-> pc]
             d == Append(e, x)
             qs == Append(ps, pc)
             h == [n \in 1 .. Len(ps) + 1 |-> IF n = Len(ps) + 1 THEN Len(e) + 1 ELSE f[n]]
  <1>1. /\ DOMAIN d = 1 .. Len(e) + 1 /\ DOMAIN e = 1 .. Len(e) /\ Len(e) \in Nat
        /\ d[Len(e) + 1] = x /\ \A k \in DOMAIN e : d[k] = e[k]
    OBVIOUS
  <1>2. /\ DOMAIN qs = 1 .. Len(ps) + 1 /\ DOMAIN ps = 1 .. Len(ps) /\ Len(ps) \in Nat
        /\ qs[Len(ps) + 1] = pc /\ \A n \in DOMAIN ps : qs[n] = ps[n]
    OBVIOUS
  <1>3. x.event = "piece" /\ x.index = i /\ x.piece = pc
    OBVIOUS
  <1> HIDE DEF d, qs, x
  <1>4. ShownIn(d, i) = ShownIn(e, i) \cup {Len(e) + 1}
    BY <1>1, <1>3 DEF ShownIn
  <1>5. \A n \in DOMAIN ps : f[n] \in ShownIn(e, i) /\ f[n] \in DOMAIN e
    BY DEF IsShownBy, ShownIn
  <1>6. \A n \in DOMAIN ps : h[n] = f[n] /\ n \in DOMAIN qs
    BY <1>2
  <1>7. h[Len(ps) + 1] = Len(e) + 1 /\ Len(ps) + 1 \in DOMAIN qs
    BY <1>2
  <1>8. \A n \in DOMAIN qs : n = Len(ps) + 1 \/ n \in DOMAIN ps
    BY <1>2
  <1>9. DOMAIN h = DOMAIN qs /\ h = [n \in DOMAIN qs |-> h[n]]
    BY <1>2
  <1> HIDE DEF h
  <1>10. h \in [DOMAIN qs -> ShownIn(d, i)]
    <2>1. \A n \in DOMAIN qs : h[n] \in ShownIn(d, i)
      BY <1>4, <1>5, <1>6, <1>7, <1>8
    <2> QED BY <1>9, <2>1
  <1>11. ASSUME NEW m \in DOMAIN qs, NEW n \in DOMAIN qs, m < n PROVE h[m] < h[n]
    <2>1. m \in DOMAIN ps
      BY <1>2, <1>11
    <2>2. CASE n = Len(ps) + 1
      <3>1. h[m] \in 1 .. Len(e) /\ h[n] = Len(e) + 1
        BY <1>1, <1>5, <1>6, <1>7, <2>1, <2>2
      <3> QED BY <1>1, <3>1
    <2>3. CASE n \in DOMAIN ps
      BY <1>6, <1>11, <2>1, <2>3 DEF IsShownBy
    <2> QED BY <1>8, <2>2, <2>3
  <1>12. ASSUME NEW k \in ShownIn(d, i) PROVE \E n \in DOMAIN qs : h[n] = k
    <2>1. CASE k = Len(e) + 1
      BY <1>7, <2>1
    <2>2. CASE k \in ShownIn(e, i)
      <3>1. PICK n \in DOMAIN ps : f[n] = k
        BY <2>2 DEF IsShownBy
      <3> QED BY <1>6, <3>1
    <2> QED BY <1>4, <2>1, <2>2
  <1>13. ASSUME NEW n \in DOMAIN qs PROVE d[h[n]].piece = qs[n]
    <2>1. CASE n = Len(ps) + 1
      BY <1>1, <1>2, <1>3, <1>7, <2>1
    <2>2. CASE n \in DOMAIN ps
      <3>1. d[h[n]] = e[f[n]] /\ qs[n] = ps[n]
        BY <1>1, <1>2, <1>5, <1>6, <2>2
      <3>2. e[f[n]].piece = ps[n]
        BY <2>2 DEF IsShownBy
      <3> QED BY <3>1, <3>2
    <2> QED BY <1>8, <2>1, <2>2
  <1>14. IsShownBy(h, d, i, qs)
    BY <1>10, <1>11, <1>12, <1>13 DEF IsShownBy
  <1> QED BY <1>14 DEF d, qs, x

-----------------------------------------------------------------------------
(* Steps.                                                                  *)

(* Where the stream is, by what comes next.                                *)
LEMMA Places ==
  ASSUME StreamCore
  PROVE  /\ Len(message.blocks) \in Nat /\ DOMAIN message.blocks = 1 .. Len(message.blocks)
         /\ \A i \in 1 .. Len(message.blocks) :
              message.blocks[i].kind \in Kinds /\ message.blocks[i].size \in Nat
         /\ message.stop \in {"tool_use", "max_tokens", "end_turn"}
         /\ message.input \in Nat \cup {NoCount}
         /\ position = <<position[1], position[2]>> /\ position[1] \in Nat /\ position[2] \in Nat
         /\ Upcoming = "MessageStart" => position[1] = 0
         /\ Upcoming = "BlockStart" =>
              position[1] \in 1 .. Len(message.blocks) /\ position[2] = 0
         /\ Upcoming = "Delta" =>
              /\ position[1] \in 1 .. Len(message.blocks)
              /\ position[2] \in 1 .. message.blocks[position[1]].size
         /\ Upcoming = "BlockStop" =>
              /\ position[1] \in 1 .. Len(message.blocks)
              /\ position[2] = message.blocks[position[1]].size + 1
         /\ Upcoming = "MessageDelta" => position[1] = Len(message.blocks) + 1
         /\ Upcoming = "MessageStop" => position[1] = Len(message.blocks) + 2
PROOF
  <1>1. /\ message.blocks \in Seq(Block) /\ message.stop \in {"tool_use", "max_tokens", "end_turn"}
        /\ message.input \in Nat \cup {NoCount}
    BY ProviderAssumption DEF StreamCore
  <1> DEFINE bs == message.blocks
             b == position[1]
             n == position[2]
  <1>2. /\ Len(bs) \in Nat /\ DOMAIN bs = 1 .. Len(bs)
        /\ \A i \in 1 .. Len(bs) : bs[i].kind \in Kinds /\ bs[i].size \in Nat
    <2>1. Len(bs) \in Nat /\ DOMAIN bs = 1 .. Len(bs) /\ \A i \in 1 .. Len(bs) : bs[i] \in Block
      BY <1>1
    <2>2. \A x \in Block : x.kind \in Kinds /\ x.size \in Nat
      BY DEF Block
    <2> QED BY <2>1, <2>2
  <1>3. position = <<b, n>> /\ b \in Nat /\ n \in Nat
    BY DEF StreamCore
  <1>4. n > 0 => b \in 1 .. Len(bs) /\ n <= bs[b].size + 1
    BY DEF StreamCore
  <1>5. Upcoming =
          CASE b = 0 -> "MessageStart"
            [] b \in DOMAIN bs /\ n = 0 -> "BlockStart"
            [] b \in DOMAIN bs /\ n \in 1 .. bs[b].size -> "Delta"
            [] b \in DOMAIN bs /\ n > bs[b].size -> "BlockStop"
            [] b = Len(bs) + 1 -> "MessageDelta"
            [] b = Len(bs) + 2 -> "MessageStop"
            [] OTHER -> "nothing"
    BY DEF Upcoming
  <1> HIDE DEF bs, b, n
  <1> DEFINE u == Upcoming
  <1>6. CASE b = 0
    <2>1. u = "MessageStart"
      BY <1>2, <1>5, <1>6
    <2> QED BY <1>1, <1>2, <1>3, <2>1, <1>6 DEF bs, b, n
  <1>7. CASE b \in DOMAIN bs
    <2>1. b # 0 /\ b # Len(bs) + 1 /\ b # Len(bs) + 2 /\ bs[b].size \in Nat
      BY <1>2, <1>3, <1>7
    <2>2. CASE n = 0
      <3>1. ~(n \in 1 .. bs[b].size) /\ ~(n > bs[b].size)
        BY <2>1, <2>2
      <3>2. u = "BlockStart"
        BY <1>5, <1>7, <2>1, <2>2, <3>1
      <3> QED BY <1>1, <1>2, <1>3, <1>7, <2>2, <3>2 DEF bs, b, n
    <2>3. CASE n \in 1 .. bs[b].size
      <3>1. n # 0 /\ ~(n > bs[b].size)
        BY <2>1, <2>3
      <3>2. u = "Delta"
        BY <1>5, <1>7, <2>1, <2>3, <3>1
      <3> QED BY <1>1, <1>2, <1>3, <1>7, <2>3, <3>2 DEF bs, b, n
    <2>4. CASE n = bs[b].size + 1
      <3>1. n # 0 /\ ~(n \in 1 .. bs[b].size) /\ n > bs[b].size
        BY <2>1, <2>4
      <3>2. u = "BlockStop"
        BY <1>5, <1>7, <2>1, <2>4, <3>1
      <3> QED BY <1>1, <1>2, <1>3, <1>7, <2>4, <3>2 DEF bs, b, n
    <2>5. n = 0 \/ n \in 1 .. bs[b].size \/ n = bs[b].size + 1
      BY <1>3, <1>4, <2>1
    <2> QED BY <2>2, <2>3, <2>4, <2>5
  <1>8. CASE b # 0 /\ b \notin DOMAIN bs
    <2>1. CASE b = Len(bs) + 1
      <3>1. b # Len(bs) + 2
        BY <1>2, <2>1
      <3>2. u = "MessageDelta"
        BY <1>5, <1>8, <2>1, <3>1
      <3> QED BY <1>1, <1>2, <1>3, <2>1, <3>2 DEF bs, b, n
    <2>2. CASE b = Len(bs) + 2
      <3>1. b # Len(bs) + 1
        BY <1>2, <2>2
      <3>2. u = "MessageStop"
        BY <1>5, <1>8, <2>2, <3>1
      <3> QED BY <1>1, <1>2, <1>3, <2>2, <3>2 DEF bs, b, n
    <2>3. CASE b # Len(bs) + 1 /\ b # Len(bs) + 2
      <3>1. u = "nothing"
        BY <1>5, <1>8, <2>3
      <3> QED BY <1>1, <1>2, <1>3, <3>1 DEF bs, b, n
    <2> QED BY <2>1, <2>2, <2>3
  <1> QED BY <1>6, <1>7, <1>8

(* An event that adds no piece and begins no block, and is not shown.      *)
LEMMA PlainEvent ==
  ASSUME StreamInv, outcome.kind = "none", StreamCore',
         UNCHANGED <<message, blocks, attempt, emitted, outcome, last_error, ends>>,
         Begun' = Begun, \A i \in 1 .. Begun : Arrived(i)' = Arrived(i),
         stop_reason' = (IF position[1] > Len(message.blocks) + 1 THEN message.stop
                         ELSE "end_turn")',
         input_tokens' = (IF position[1] > 0 /\ message.input # NoCount
                          THEN message.input ELSE 0)'
  PROVE  StreamInv'
PROOF
  <1>1. Collected'
    <2>1. blocks = [i \in 1 .. Begun |->
                      [kind   |-> message.blocks[i].kind,
                       pieces |-> [m \in 1 .. Arrived(i) |-> <<attempt, i, m>>]]]
      BY DEF StreamInv, Collected
    <2>2. (1 .. Begun)' = 1 .. Begun
      OBVIOUS
    <2>3. [i \in 1 .. Begun' |->
              [kind   |-> message'.blocks[i].kind,
               pieces |-> [m \in 1 .. Arrived(i)' |-> <<attempt', i, m>>]]]
          = [i \in 1 .. Begun |->
              [kind   |-> message.blocks[i].kind,
               pieces |-> [m \in 1 .. Arrived(i) |-> <<attempt, i, m>>]]]
      OBVIOUS
    <2> QED BY <2>1, <2>3 DEF Collected
  <1>2. ShownSoFar'
    BY DEF StreamInv, ShownSoFar, AsShown, Shown, Started
  <1>3. Answered' /\ EndsTold' /\ GivesUpLate'
    BY DEF StreamInv, Answered, EndsTold, GivesUpLate
  <1> QED BY <1>1, <1>2, <1>3 DEF StreamInv

(* message_start: nothing has been collected or shown yet.                 *)
LEMMA MessageStartStep ==
  ASSUME StreamInv, MessageStart
  PROVE  StreamInv'
PROOF
  <1> USE DEF StreamInv
  <1>1. position[1] = 0 /\ position[2] = 0 /\ position' = <<1, 0>> /\ outcome.kind = "none"
    BY Places DEF MessageStart, Event, NextBlock, StreamCore
  <1>2. UNCHANGED <<message, blocks, attempt, emitted, outcome, last_error, ends, stop_reason>>
    BY DEF MessageStart, NextBlock, Quiet
  <1>3. Len(message.blocks) \in Nat
    BY Places
  <1>4. position'[1] = 1 /\ position'[2] = 0
    BY <1>1
  <1>5. StreamCore'
    BY <1>1, <1>2, <1>3, <1>4 DEF StreamCore
  <1>6. Begun = 0 /\ Begun' = 0
    BY <1>1, <1>2, <1>3, <1>4 DEF Begun
  <1>7. stop_reason' = "end_turn" /\ ~(position'[1] > Len(message.blocks) + 1)
    BY <1>1, <1>2, <1>3, <1>4 DEF Collected
  <1>8. input_tokens' = IF message.input # NoCount THEN message.input ELSE 0
    BY <1>1, <1>3 DEF MessageStart, Collected
  <1> QED BY <1>1, <1>2, <1>4, <1>5, <1>6, <1>7, <1>8, PlainEvent

(* message_delta and message_stop touch no block.                          *)
LEMMA MessageEndSteps ==
  ASSUME StreamInv, MessageDelta \/ MessageStop
  PROVE  StreamInv'
PROOF
  <1> USE DEF StreamInv
  <1> DEFINE n == Len(message.blocks)
  <1>1. /\ position[1] \in {n + 1, n + 2} /\ position[2] = 0 /\ outcome.kind = "none"
        /\ position' = <<position[1] + 1, 0>> /\ n \in Nat
    BY Places DEF MessageDelta, MessageStop, Event, NextBlock, StreamCore
  <1>2. UNCHANGED <<message, blocks, attempt, emitted, outcome, last_error, ends, input_tokens>>
    BY DEF MessageDelta, MessageStop, NextBlock, Quiet, got
  <1>3. position'[1] = position[1] + 1 /\ position'[2] = 0
    BY <1>1
  <1>4. StreamCore'
    BY <1>1, <1>2, <1>3 DEF StreamCore
  <1>5. Begun = n /\ Begun' = n
    BY <1>1, <1>2, <1>3 DEF Begun
  <1>6. \A i \in 1 .. n : Arrived(i)' = Arrived(i)
    BY <1>1, <1>2, <1>3 DEF Arrived
  <1>7. position'[1] > n + 1 /\ stop_reason' = message.stop
    <2>1. CASE MessageDelta
      BY <1>1, <1>3, <2>1 DEF MessageDelta
    <2>2. CASE MessageStop
      <3>1. position[1] = n + 2 /\ stop_reason' = stop_reason
        BY Places, <2>2 DEF MessageStop, Event, got
      <3> QED BY <1>1, <1>3, <3>1 DEF Collected
    <2> QED BY <2>1, <2>2
  <1>8. input_tokens' = IF message.input # NoCount THEN message.input ELSE 0
    BY <1>1, <1>2 DEF Collected
  <1>9. position'[1] > 0
    BY <1>1, <1>3
  <1> QED BY <1>1, <1>2, <1>4, <1>5, <1>6, <1>7, <1>8, <1>9, PlainEvent

(* A block that has begun: what is collected of it.                        *)
LEMMA CollectedOf ==
  ASSUME StreamInv
  PROVE  /\ DOMAIN blocks = 1 .. Begun
         /\ \A i \in 1 .. Begun :
              /\ blocks[i] = [kind   |-> message.blocks[i].kind,
                              pieces |-> [m \in 1 .. Arrived(i) |-> <<attempt, i, m>>]]
              /\ blocks[i].kind = message.blocks[i].kind
              /\ blocks[i].pieces = [m \in 1 .. Arrived(i) |-> <<attempt, i, m>>]
  BY DEF StreamInv, Collected

(* The i-th block and its next event.                                      *)
LEMMA BlockStartStep ==
  ASSUME StreamInv, BlockStart
  PROVE  StreamInv'
PROOF
  <1> USE DEF StreamInv
  <1> DEFINE b == position[1]
             bs == message.blocks
             told == [event |-> "start", index |-> b]
  <1>1. /\ b \in 1 .. Len(bs) /\ position[2] = 0 /\ position' = <<b, 1>>
        /\ outcome.kind = "none" /\ Len(bs) \in Nat
    BY Places DEF BlockStart, Event, NextPiece, StreamCore
  <1>2. /\ UNCHANGED <<message, attempt, outcome, last_error, ends, stop_reason, input_tokens>>
        /\ blocks' = [i \in DOMAIN blocks \cup {b} |->
                        IF i = b THEN [kind |-> bs[b].kind, pieces |-> <<>>] ELSE blocks[i]]
        /\ IF bs[b].kind = "tool" THEN emitted' = Append(emitted, told) ELSE UNCHANGED emitted
    BY DEF BlockStart, NextPiece, Quiet, Emit, Index
  <1>3. position'[1] = b /\ position'[2] = 1
    BY <1>1
  <1>4. StreamCore'
    BY <1>1, <1>2, <1>3, Places DEF StreamCore
  <1>5. Begun = b - 1 /\ Begun' = b /\ 1 .. b = (1 .. b - 1) \cup {b}
    BY <1>1, <1>2, <1>3 DEF Begun
  <1>6. \A i \in 1 .. b - 1 : Arrived(i)' = Arrived(i) /\ i # b
    BY <1>1, <1>2, <1>3 DEF Arrived
  <1>7. DOMAIN blocks = 1 .. b - 1
    BY <1>5, CollectedOf
  <1>8. Collected'
    <2>1. ASSUME NEW i \in 1 .. b
          PROVE  blocks'[i] = [kind   |-> bs[i].kind,
                               pieces |-> [m \in 1 .. Arrived(i)' |-> <<attempt, i, m>>]]
      <3>1. CASE i = b
        <4>1. Arrived(i)' = 0
          BY <1>2, <1>3, <3>1 DEF Arrived
        <4>2. [m \in 1 .. Arrived(i)' |-> <<attempt, i, m>>] = <<>>
          BY <4>1
        <4>3. blocks'[i] = [kind |-> bs[i].kind, pieces |-> <<>>]
          BY <1>2, <3>1
        <4> QED BY <4>2, <4>3
      <3>2. CASE i \in 1 .. b - 1
        BY <1>2, <1>5, <1>6, <1>7, <3>2, CollectedOf
      <3> QED BY <1>5, <3>1, <3>2
    <2>2. blocks' = [i \in 1 .. b |-> blocks'[i]]
      BY <1>2, <1>5, <1>7
    <2>3. blocks' = [i \in 1 .. b |->
                       [kind   |-> bs[i].kind,
                        pieces |-> [m \in 1 .. Arrived(i)' |-> <<attempt, i, m>>]]]
      BY <2>1, <2>2
    <2>4. /\ stop_reason' = IF b > Len(bs) + 1 THEN message.stop ELSE "end_turn"
          /\ input_tokens' = IF b > 0 /\ message.input # NoCount THEN message.input ELSE 0
      BY <1>2 DEF Collected
    <2>5. blocks' = [i \in 1 .. Begun' |->
                       [kind   |-> message'.blocks[i].kind,
                        pieces |-> [m \in 1 .. Arrived(i)' |-> <<attempt', i, m>>]]]
      BY <1>2, <1>5, <2>3
    <2>6. /\ stop_reason' = IF position'[1] > Len(message'.blocks) + 1 THEN message'.stop
                           ELSE "end_turn"
          /\ input_tokens' = IF position'[1] > 0 /\ message'.input # NoCount
                            THEN message'.input ELSE 0
      BY <1>2, <1>3, <2>4
    <2> QED BY <2>5, <2>6 DEF Collected
  <1>9. /\ emitted \in Seq(Emission) /\ \A k \in DOMAIN emitted : emitted[k].index \in 1 .. b - 1
        /\ told \in Emission /\ told.index = b /\ told.event = "start"
    BY <1>1, <1>5 DEF ShownSoFar, Emission
  <1>10. /\ emitted' \in Seq(Emission) /\ DOMAIN emitted \subseteq DOMAIN emitted'
         /\ \A k \in DOMAIN emitted : emitted'[k] = emitted[k]
         /\ \A k \in DOMAIN emitted' : k \notin DOMAIN emitted =>
              bs[b].kind = "tool" /\ emitted'[k] = told
         /\ bs[b].kind = "tool" =>
              \E k \in DOMAIN emitted' : DOMAIN emitted' = DOMAIN emitted \cup {k}
                                                              /\ k \notin DOMAIN emitted
    <2> HIDE DEF told
    <2>1. CASE bs[b].kind = "tool"
      <3>1. emitted' = Append(emitted, told)
        BY <1>2, <2>1
      <3>2. /\ DOMAIN emitted = 1 .. Len(emitted) /\ Len(emitted) \in Nat
            /\ DOMAIN emitted' = 1 .. Len(emitted) + 1 /\ emitted'[Len(emitted) + 1] = told
            /\ \A k \in DOMAIN emitted : emitted'[k] = emitted[k]
            /\ emitted' \in Seq(Emission)
        BY <1>9, <3>1
      <3> QED BY <2>1, <3>2
    <2>2. CASE bs[b].kind # "tool"
      BY <1>2, <1>9, <2>2
    <2> QED BY <2>1, <2>2
  <1>11. ShownSoFar'
    <2>1. ASSUME NEW k \in DOMAIN emitted'
          PROVE  /\ emitted'[k].index \in 1 .. b
                 /\ emitted'[k].event # "piece" => bs[emitted'[k].index].kind = "tool"
      <3>1. CASE k \in DOMAIN emitted
        BY <1>5, <1>10, <3>1 DEF ShownSoFar
      <3>2. CASE k \notin DOMAIN emitted
        BY <1>5, <1>9, <1>10, <3>2
      <3> QED BY <3>1, <3>2
    <2>2. ASSUME NEW i \in 1 .. b PROVE AsShown(i, blocks[i].pieces)'
      <3>1. CASE i = b
        <4>1. \A k \in DOMAIN emitted : emitted[k].index # b
          BY <1>1, <1>9
        <4>2. PICK f : IsShownBy(f, emitted, b, <<>>)
          BY <4>1, NothingShown
        <4>3. IsShownBy(f, emitted', b, <<>>)
          <5>1. ~(told.event = "piece" /\ told.index = b)
            OBVIOUS
          <5>2. IsShownBy(f, Append(emitted, told), b, <<>>)
            BY <1>9, <4>2, <5>1, ShownStays
          <5> QED BY <1>2, <4>2, <5>2
        <4>4. blocks'[b].pieces = <<>>
          BY <1>2, <1>7
        <4>5. IsShownBy(f, emitted', i, blocks'[i].pieces)
          BY <3>1, <4>3, <4>4
        <4> QED BY <4>5 DEF IsShownBy, ShownIn, AsShown, Shown
      <3>2. CASE i \in 1 .. b - 1
        <4>1. PICK f : IsShownBy(f, emitted, i, blocks[i].pieces)
          BY <1>5, <3>2, ShownByDef DEF ShownSoFar
        <4>2. ~(told.event = "piece" /\ told.index = i)
          OBVIOUS
        <4>3. IsShownBy(f, Append(emitted, told), i, blocks[i].pieces)
          BY <1>9, <4>1, <4>2, ShownStays
        <4>4. blocks'[i] = blocks[i]
          BY <1>2, <1>5, <1>6, <1>7, <3>2
        <4>5. IsShownBy(f, emitted', i, blocks'[i].pieces)
          BY <1>2, <4>1, <4>3, <4>4
        <4> QED BY <4>5 DEF IsShownBy, ShownIn, AsShown, Shown
      <3> QED BY <1>5, <3>1, <3>2
    <2>3. ASSUME NEW i \in 1 .. b, bs[i].kind = "tool"
          PROVE  \E m \in Started(i)' : Started(i)' = {m}
      <3>1. CASE i = b
        <4>1. PICK k \in DOMAIN emitted' : DOMAIN emitted' = DOMAIN emitted \cup {k}
                                           /\ k \notin DOMAIN emitted
          BY <1>10, <2>3, <3>1
        <4>2. emitted'[k] = told
          BY <1>10, <4>1
        <4>3. \A m \in DOMAIN emitted' : m # k => emitted'[m].index # b
          BY <1>1, <1>9, <1>10, <4>1
        <4>4. Started(i)' = {m \in DOMAIN emitted' : emitted'[m].event = "start"
                                                     /\ emitted'[m].index = i}
          BY DEF Started
        <4>5. k \in Started(i)' /\ \A m \in Started(i)' : m = k
          BY <1>9, <3>1, <4>1, <4>2, <4>3, <4>4
        <4> QED BY <4>5
      <3>2. CASE i \in 1 .. b - 1
        <4>1. Started(i)' = Started(i)
          BY <1>9, <1>10, <1>6, <3>2 DEF Started
        <4> QED BY <1>5, <2>3, <3>2, <4>1 DEF ShownSoFar
      <3> QED BY <1>5, <3>1, <3>2
    <2> QED BY <1>2, <1>5, <1>10, <2>1, <2>2, <2>3 DEF ShownSoFar
  <1>12. Answered' /\ EndsTold' /\ GivesUpLate'
    BY <1>1, <1>2 DEF Answered, EndsTold, GivesUpLate
  <1> QED BY <1>4, <1>8, <1>11, <1>12

(* A delta is collected in its block, and shown.                           *)
LEMMA DeltaStep ==
  ASSUME StreamInv, Delta
  PROVE  StreamInv'
PROOF
  <1> USE DEF StreamInv
  <1> DEFINE b == position[1]
             n == position[2]
             bs == message.blocks
             pc == <<attempt, b, n>>
             told == [event |-> "piece", index |-> b, piece |-> pc]
  <1>1. /\ b \in 1 .. Len(bs) /\ n \in 1 .. bs[b].size /\ position' = <<b, n + 1>>
        /\ outcome.kind = "none" /\ Len(bs) \in Nat /\ bs[b].size \in Nat
    BY Places DEF Delta, Event, NextPiece, StreamCore
  <1>2. /\ UNCHANGED <<message, attempt, outcome, last_error, ends, stop_reason, input_tokens>>
        /\ blocks' = [blocks EXCEPT ![b].pieces = Append(@, pc)]
        /\ emitted' = Append(emitted, told)
    BY DEF Delta, NextPiece, Quiet, Emit, Index, Piece
  <1>3. position'[1] = b /\ position'[2] = n + 1
    BY <1>1
  <1>4. StreamCore'
    BY <1>1, <1>2, <1>3, Places DEF StreamCore
  <1>5. Begun = b /\ Begun' = b /\ b \in 1 .. b
    BY <1>1, <1>2, <1>3 DEF Begun
  <1>6. \A i \in 1 .. b : /\ i = b => Arrived(i) = n - 1 /\ Arrived(i)' = n
                          /\ i # b => Arrived(i)' = Arrived(i)
    BY <1>1, <1>2, <1>3 DEF Arrived
  <1>7. /\ DOMAIN blocks = 1 .. b
        /\ \A i \in 1 .. b : /\ blocks[i].kind = bs[i].kind
                             /\ blocks[i].pieces = [m \in 1 .. Arrived(i) |-> <<attempt, i, m>>]
                             /\ blocks[i] = [kind |-> bs[i].kind, pieces |-> blocks[i].pieces]
    BY <1>5, CollectedOf
  <1> DEFINE T == Nat \X Nat \X Nat
             ps == blocks[b].pieces
  <1>8. /\ attempt \in Nat /\ pc \in T /\ ps \in Seq(T) /\ Len(ps) = n - 1
        /\ Append(ps, pc) = [m \in 1 .. n |-> <<attempt, b, m>>]
    <2>1. attempt \in Nat /\ pc \in T
      BY <1>1, ProviderAssumption DEF StreamCore
    <2>2. ps = [m \in 1 .. n - 1 |-> <<attempt, b, m>>]
      BY <1>5, <1>6, <1>7
    <2>3. \A m \in 1 .. n - 1 : <<attempt, b, m>> \in T
      BY <1>1, <2>1
    <2>4. n - 1 \in Nat /\ n \in Nat
      BY <1>1
    <2> HIDE DEF T, ps, n, b, pc
    <2>5. ps \in Seq(T) /\ Len(ps) = n - 1
      BY <2>2, <2>3, <2>4, IsASeq, LenProperties
    <2>6. Append(ps, pc) = [m \in 1 .. n |-> <<attempt, b, m>>]
      <3>1. Append(ps, pc) = [m \in 1 .. n |-> IF m = n THEN pc ELSE ps[m]]
        <4> DEFINE q == Append(ps, pc)
        <4>1. q \in Seq(T) /\ Len(q) = n /\ q[n] = pc /\ \A m \in 1 .. n - 1 : q[m] = ps[m]
          BY <2>1, <2>4, <2>5, AppendProperties
        <4> HIDE DEF q
        <4>2. q = [m \in 1 .. n |-> q[m]]
          BY <4>1
        <4>3. \A m \in 1 .. n : q[m] = IF m = n THEN pc ELSE ps[m]
          <5>1. \A m \in 1 .. n : m = n \/ m \in 1 .. n - 1
            BY <2>4
          <5> QED BY <4>1, <5>1
        <4> QED BY <4>2, <4>3 DEF q
      <3>2. ASSUME NEW m \in 1 .. n PROVE (IF m = n THEN pc ELSE ps[m]) = <<attempt, b, m>>
        <4>1. CASE m = n
          BY <4>1 DEF pc
        <4>2. CASE m # n
          <5>1. m \in 1 .. n - 1
            BY <2>4, <4>2
          <5> QED BY <2>2, <4>2, <5>1
        <4> QED BY <4>1, <4>2
      <3> QED BY <3>1, <3>2
    <2> QED BY <2>1, <2>5, <2>6
  <1>9. /\ DOMAIN blocks' = 1 .. b
        /\ \A i \in 1 .. b : /\ blocks'[i] = [kind |-> bs[i].kind, pieces |-> blocks'[i].pieces]
                             /\ i = b => blocks'[i].pieces = Append(ps, pc)
                             /\ i # b => blocks'[i] = blocks[i]
    <2> HIDE DEF pc
    <2>1. blocks' = [i \in 1 .. b |->
                       IF i = b THEN [kind |-> bs[b].kind, pieces |-> Append(ps, pc)]
                       ELSE blocks[i]]
      <3>1. blocks[b] = [kind |-> bs[b].kind, pieces |-> ps]
        BY <1>5, <1>7
      <3>2. blocks' = [blocks EXCEPT ![b] = [blocks[b] EXCEPT !.pieces = Append(ps, pc)]]
        BY <1>2
      <3>3. [blocks[b] EXCEPT !.pieces = Append(ps, pc)]
              = [kind |-> bs[b].kind, pieces |-> Append(ps, pc)]
        <4>1. \A k, old, new : [[kind |-> k, pieces |-> old] EXCEPT !.pieces = new]
                                 = [kind |-> k, pieces |-> new]
          OBVIOUS
        <4> DEFINE new == Append(ps, pc)
        <4> HIDE DEF ps, new
        <4>2. [blocks[b] EXCEPT !.pieces = new] = [kind |-> bs[b].kind, pieces |-> new]
          BY <3>1, <4>1
        <4> QED BY <4>2 DEF new
      <3>4. blocks = [i \in 1 .. b |-> blocks[i]]
        BY <1>5 DEF Collected
      <3> QED BY <1>5, <3>2, <3>3, <3>4
    <2> QED BY <1>7, <2>1
  <1>10. Collected'
    <2>1. ASSUME NEW i \in 1 .. b
          PROVE  blocks'[i] = [kind   |-> bs[i].kind,
                               pieces |-> [m \in 1 .. Arrived(i)' |-> <<attempt, i, m>>]]
      <3>1. CASE i = b
        BY <1>6, <1>8, <1>9, <3>1
      <3>2. CASE i # b
        BY <1>6, <1>7, <1>9, <3>2
      <3> QED BY <3>1, <3>2
    <2>2. blocks' = [i \in 1 .. b |-> blocks'[i]]
      <3>1. blocks = [i \in 1 .. b |-> blocks[i]]
        BY <1>5 DEF Collected
      <3> QED BY <1>2, <3>1
    <2>3. blocks' = [i \in 1 .. Begun' |->
                       [kind   |-> message'.blocks[i].kind,
                        pieces |-> [m \in 1 .. Arrived(i)' |-> <<attempt', i, m>>]]]
      BY <1>2, <1>5, <2>1, <2>2
    <2>4. /\ stop_reason' = IF position'[1] > Len(message'.blocks) + 1 THEN message'.stop
                           ELSE "end_turn"
          /\ input_tokens' = IF position'[1] > 0 /\ message'.input # NoCount
                            THEN message'.input ELSE 0
      BY <1>2, <1>3 DEF Collected
    <2> QED BY <2>3, <2>4 DEF Collected
  <1>11. /\ emitted \in Seq(Emission) /\ \A k \in DOMAIN emitted : emitted[k].index \in 1 .. b
         /\ told \in Emission /\ told.index = b /\ told.event = "piece"
    BY <1>1, <1>5, <1>8 DEF ShownSoFar, Emission
  <1>12. /\ DOMAIN emitted = 1 .. Len(emitted) /\ Len(emitted) \in Nat
         /\ DOMAIN emitted' = 1 .. Len(emitted) + 1 /\ emitted'[Len(emitted) + 1] = told
         /\ \A k \in DOMAIN emitted : emitted'[k] = emitted[k]
         /\ emitted' \in Seq(Emission)
    <2> HIDE DEF told
    <2> QED BY <1>2, <1>11
  <1>13. ShownSoFar'
    <2>1. ASSUME NEW k \in DOMAIN emitted'
          PROVE  /\ emitted'[k].index \in 1 .. b
                 /\ emitted'[k].event # "piece" => bs[emitted'[k].index].kind = "tool"
      <3>1. CASE k \in DOMAIN emitted
        BY <1>5, <1>12, <3>1 DEF ShownSoFar
      <3>2. CASE k = Len(emitted) + 1
        BY <1>5, <1>11, <1>12, <3>2
      <3> QED BY <1>12, <3>1, <3>2
    <2>2. ASSUME NEW i \in 1 .. b PROVE AsShown(i, blocks[i].pieces)'
      <3>1. CASE i = b
        <4>1. PICK f : IsShownBy(f, emitted, b, ps)
          BY <1>5, ShownByDef DEF ShownSoFar
        <4> HIDE DEF T, ps, pc
        <4>2. b \in Nat
          BY <1>1
        <4> HIDE DEF b
        <4>3. PICK h : IsShownBy(h, Append(emitted, told), b, Append(ps, pc))
          BY <1>8, <1>11, <4>1, <4>2, ShownGrows
        <4>4. IsShownBy(h, emitted', i, blocks'[i].pieces)
          BY <1>2, <1>9, <3>1, <4>3
        <4> QED BY <4>4 DEF IsShownBy, ShownIn, AsShown, Shown
      <3>2. CASE i # b
        <4>1. PICK f : IsShownBy(f, emitted, i, blocks[i].pieces)
          BY <1>5, <3>2, ShownByDef DEF ShownSoFar
        <4>2. ~(told.event = "piece" /\ told.index = i)
          BY <3>2
        <4>3. IsShownBy(f, emitted', i, blocks[i].pieces)
          BY <1>2, <1>11, <4>1, <4>2, ShownStays
        <4>4. IsShownBy(f, emitted', i, blocks'[i].pieces)
          BY <1>9, <3>2, <4>3
        <4> QED BY <4>4 DEF IsShownBy, ShownIn, AsShown, Shown
      <3> QED BY <3>1, <3>2
    <2>3. ASSUME NEW i \in 1 .. b, bs[i].kind = "tool"
          PROVE  \E m \in Started(i)' : Started(i)' = {m}
      <3>1. Started(i)' = Started(i)
        BY <1>11, <1>12 DEF Started
      <3> QED BY <1>5, <2>3, <3>1 DEF ShownSoFar
    <2> QED BY <1>2, <1>5, <1>12, <2>1, <2>2, <2>3 DEF ShownSoFar
  <1>14. Answered' /\ EndsTold' /\ GivesUpLate'
    BY <1>1, <1>2 DEF Answered, EndsTold, GivesUpLate
  <1> QED BY <1>4, <1>10, <1>13, <1>14

(* A block stops: it is not to be shown any further.                       *)
LEMMA BlockStopStep ==
  ASSUME StreamInv, BlockStop
  PROVE  StreamInv'
PROOF
  <1> USE DEF StreamInv
  <1> DEFINE b == position[1]
             bs == message.blocks
             told == [event |-> "done", index |-> b]
  <1>1. /\ b \in 1 .. Len(bs) /\ position[2] = bs[b].size + 1 /\ position' = <<b + 1, 0>>
        /\ outcome.kind = "none" /\ Len(bs) \in Nat /\ bs[b].size \in Nat
    BY Places DEF BlockStop, Event, NextBlock, StreamCore
  <1>2. /\ UNCHANGED <<message, attempt, outcome, last_error, ends, stop_reason,
                       input_tokens, blocks>>
        /\ IF bs[b].kind = "tool" THEN emitted' = Append(emitted, told) ELSE UNCHANGED emitted
    BY DEF BlockStop, NextBlock, Quiet, Emit, Index, got
  <1>3. position'[1] = b + 1 /\ position'[2] = 0
    BY <1>1
  <1>4. StreamCore'
    BY <1>1, <1>2, <1>3, Places DEF StreamCore
  <1>5. Begun = b /\ Begun' = b /\ b \in 1 .. b
    BY <1>1, <1>2, <1>3 DEF Begun
  <1>6. \A i \in 1 .. b : Arrived(i)' = Arrived(i)
    <2> SUFFICES ASSUME NEW i \in 1 .. b PROVE Arrived(i)' = Arrived(i)
      OBVIOUS
    <2>1. i # position'[1]
      BY <1>1, <1>3
    <2>2. Arrived(i)' = message.blocks[i].size
      BY <1>2, <2>1 DEF Arrived
    <2>3. Arrived(i) = message.blocks[i].size
      <3>1. CASE i # position[1]
        BY <3>1 DEF Arrived
      <3>2. CASE i = position[1]
        <4>1. position[2] = message.blocks[i].size + 1 /\ message.blocks[i].size \in Nat
          BY <1>1, <3>2
        <4>2. position[2] - 1 = message.blocks[i].size
          BY <4>1
        <4> QED BY <3>2, <4>2 DEF Arrived
      <3> QED BY <3>1, <3>2
    <2> QED BY <2>2, <2>3
  <1>7. Collected'
    <2>1. blocks' = [i \in 1 .. Begun' |->
                       [kind   |-> message'.blocks[i].kind,
                        pieces |-> [m \in 1 .. Arrived(i)' |-> <<attempt', i, m>>]]]
      BY <1>2, <1>5, <1>6 DEF Collected
    <2>2. /\ stop_reason' = IF position'[1] > Len(message'.blocks) + 1 THEN message'.stop
                           ELSE "end_turn"
          /\ input_tokens' = IF position'[1] > 0 /\ message'.input # NoCount
                            THEN message'.input ELSE 0
      BY <1>1, <1>2, <1>3 DEF Collected
    <2> QED BY <2>1, <2>2 DEF Collected
  <1>8. /\ emitted \in Seq(Emission) /\ \A k \in DOMAIN emitted : emitted[k].index \in 1 .. b
        /\ told \in Emission /\ told.index = b /\ told.event = "done"
    BY <1>1, <1>5 DEF ShownSoFar, Emission
  <1>9. /\ emitted' \in Seq(Emission) /\ DOMAIN emitted \subseteq DOMAIN emitted'
        /\ \A k \in DOMAIN emitted : emitted'[k] = emitted[k]
        /\ \A k \in DOMAIN emitted' : k \notin DOMAIN emitted =>
             bs[b].kind = "tool" /\ emitted'[k] = told
    <2> HIDE DEF told
    <2>1. CASE bs[b].kind = "tool"
      <3>1. emitted' = Append(emitted, told)
        BY <1>2, <2>1
      <3>2. /\ DOMAIN emitted = 1 .. Len(emitted) /\ Len(emitted) \in Nat
            /\ DOMAIN emitted' = 1 .. Len(emitted) + 1 /\ emitted'[Len(emitted) + 1] = told
            /\ \A k \in DOMAIN emitted : emitted'[k] = emitted[k]
            /\ emitted' \in Seq(Emission)
        BY <1>8, <3>1
      <3> QED BY <2>1, <3>2
    <2>2. CASE bs[b].kind # "tool"
      BY <1>2, <1>8, <2>2
    <2> QED BY <2>1, <2>2
  <1>10. ShownSoFar'
    <2>1. ASSUME NEW k \in DOMAIN emitted'
          PROVE  /\ emitted'[k].index \in 1 .. b
                 /\ emitted'[k].event # "piece" => bs[emitted'[k].index].kind = "tool"
      <3>1. CASE k \in DOMAIN emitted
        BY <1>5, <1>9, <3>1 DEF ShownSoFar
      <3>2. CASE k \notin DOMAIN emitted
        BY <1>5, <1>8, <1>9, <3>2
      <3> QED BY <3>1, <3>2
    <2>2. ASSUME NEW i \in 1 .. b PROVE AsShown(i, blocks[i].pieces)'
      <3>1. PICK f : IsShownBy(f, emitted, i, blocks[i].pieces)
        BY <1>5, ShownByDef DEF ShownSoFar
      <3>2. ~(told.event = "piece" /\ told.index = i)
        OBVIOUS
      <3>3. IsShownBy(f, Append(emitted, told), i, blocks[i].pieces)
        BY <1>8, <3>1, <3>2, ShownStays
      <3>4. IsShownBy(f, emitted', i, blocks'[i].pieces)
        BY <1>2, <3>1, <3>3
      <3> QED BY <3>4 DEF IsShownBy, ShownIn, AsShown, Shown
    <2>3. ASSUME NEW i \in 1 .. b, bs[i].kind = "tool"
          PROVE  \E m \in Started(i)' : Started(i)' = {m}
      <3>1. Started(i)' = Started(i)
        BY <1>8, <1>9 DEF Started
      <3> QED BY <1>5, <2>3, <3>1 DEF ShownSoFar
    <2> QED BY <1>2, <1>5, <1>9, <2>1, <2>2, <2>3 DEF ShownSoFar
  <1>11. Answered' /\ EndsTold' /\ GivesUpLate'
    BY <1>1, <1>2 DEF Answered, EndsTold, GivesUpLate
  <1> QED BY <1>4, <1>7, <1>10, <1>11

(* Nothing happens to what is collected and shown.                         *)
LEMMA Untouched ==
  ASSUME StreamInv, UNCHANGED <<attempt, message, position, blocks, stop_reason,
                                input_tokens, last_error, emitted>>
  PROVE  Collected' /\ ShownSoFar' /\ Parts' = Parts
PROOF
  <1>1. Begun' = Begun
    BY DEF Begun
  <1>2. Collected'
    BY <1>1 DEF StreamInv, Collected, Arrived
  <1>3. ASSUME NEW i \in 1 .. Begun PROVE AsShown(i, blocks[i].pieces)'
    <2>1. AsShown(i, blocks[i].pieces)
      BY DEF StreamInv, ShownSoFar
    <2> QED BY <2>1 DEF AsShown, Shown
  <1>4. \A i : Started(i)' = Started(i)
    BY DEF Started
  <1>5. ShownSoFar'
    BY <1>1, <1>3, <1>4 DEF StreamInv, ShownSoFar
  <1>6. Parts' = Parts
    BY DEF Parts, Part
  <1> QED BY <1>2, <1>5, <1>6

(* The stream fails or ends: an attempt is given up with its error, or     *)
(* answered with what is there, or, if nothing had begun, made again.      *)
LEMMA StreamFailsStep ==
  ASSUME StreamInv, NEW f \in Failures, StreamFails(f)
  PROVE  StreamInv'
PROOF
  <1> USE DEF StreamInv
  <1>1. ToLlmError(f) \in {"Overloaded", "RateLimit", "Network"}
        /\ (ToLlmError(f) = "Overloaded" <=> f = "overloaded")
        /\ (f \in IsRetryable => ToLlmError(f) \in {"Overloaded", "RateLimit"})
    BY DEF Failures, ToLlmError, IsRetryable
  <1>2. CASE f \in IsRetryable /\ DOMAIN blocks = {} /\ attempt < MaxRetries
    <2>1. Retry(f)
      BY <1>2 DEF StreamFails
    <2>2. /\ attempt' = attempt + 1 /\ message' \in Messages /\ position' = <<0, 0>>
          /\ blocks' = NoBlocks /\ stop_reason' = "end_turn" /\ input_tokens' = 0
          /\ emitted' = emitted /\ outcome' = outcome /\ outcome.kind = "none"
          /\ last_error' = ToLlmError(f)
      BY <2>1 DEF Retry, StreamFails
    <2>3. position'[1] = 0 /\ position'[2] = 0
      BY <2>2
    <2>4. /\ message'.blocks \in Seq(Block)
      BY <2>2, ProviderAssumption
    <2>5. Len(message'.blocks) \in Nat
      BY <2>4
    <2>6. StreamCore'
      BY <1>1, <1>2, <2>2, <2>3, <2>5, ProviderAssumption DEF StreamCore
    <2>7. Begun' = 0 /\ 1 .. 0 = {}
      BY <2>3 DEF Begun
    <2>8. Collected'
      <3>1. ~(0 > Len(message'.blocks) + 1)
        BY <2>5
      <3>2. blocks' = [i \in 1 .. Begun' |->
                       [kind   |-> message'.blocks[i].kind,
                        pieces |-> [m \in 1 .. Arrived(i)' |-> <<attempt', i, m>>]]]
        BY <2>2, <2>7 DEF NoBlocks
      <3> QED BY <2>2, <2>3, <3>1, <3>2 DEF Collected
    <2>9. DOMAIN emitted = {}
      <3>1. 1 .. Begun = {}
        BY <1>2, CollectedOf
      <3> QED BY <3>1 DEF ShownSoFar
    <2>10. ShownSoFar'
      BY <2>2, <2>7, <2>9 DEF ShownSoFar
    <2>11. Answered' /\ GivesUpLate'
      BY <2>2 DEF Answered, GivesUpLate
    <2>12. EndsTold'
      <3>1. /\ ends' = Append(ends, f) /\ Len(ends) = attempt /\ attempt \in Nat
            /\ f \in IsRetryable /\ last_error' = ToLlmError(f) /\ attempt' = attempt + 1
        BY <1>1, <1>2, <2>2, ProviderAssumption DEF StreamFails, EndsAs, EndsTold, StreamCore, Retry
      <3>2. ends \in Seq(Failures \cup {"over"}) /\ f \in Failures \cup {"over"}
        BY <1>1 DEF EndsTold
      <3>3. /\ ends' \in Seq(Failures \cup {"over"}) /\ Len(ends') = attempt + 1
            /\ \A i \in 1 .. attempt : ends'[i] = ends[i]
            /\ ends'[attempt + 1] = f
        BY <3>1, <3>2
      <3>4. \A i \in 1 .. attempt : ends[i] \in IsRetryable
        BY <2>2 DEF EndsTold
      <3> QED BY <3>1, <3>3, <3>4 DEF EndsTold
    <2> QED BY <2>6, <2>8, <2>10, <2>11, <2>12
  <1>3. CASE ~(f \in IsRetryable /\ DOMAIN blocks = {} /\ attempt < MaxRetries)
    <2>1. /\ UNCHANGED <<attempt, message, position, blocks, stop_reason, input_tokens,
                         last_error, emitted>>
          /\ outcome' = [kind |-> "error", error |-> ToLlmError(f)]
      BY <1>3 DEF StreamFails, GiveUp, api, got
    <2>2. StreamCore' /\ Answered'
      BY <2>1 DEF StreamCore, Answered
    <2>3. Collected' /\ ShownSoFar'
      BY <2>1, Untouched
    <2>4. /\ ends' = Append(ends, f) /\ Len(ends) = attempt /\ attempt \in 0 .. MaxRetries
          /\ ends \in Seq(Failures \cup {"over"}) /\ f \in Failures
          /\ \A i \in 1 .. attempt : ends[i] \in IsRetryable
      BY <1>1 DEF StreamFails, EndsAs, EndsTold, StreamCore
    <2>5. /\ ends' \in Seq(Failures \cup {"over"}) /\ Len(ends') = attempt + 1
          /\ \A i \in 1 .. attempt : ends'[i] = ends[i]
          /\ ends'[attempt + 1] = f
      BY <2>4, ProviderAssumption
    <2>6. EndsTold'
      BY <2>1, <2>5 DEF EndsTold
    <2>7. f \in IsRetryable => attempt + 1 = MaxRetries + 1 \/ DOMAIN blocks # {}
      <3>1. attempt \in 0 .. MaxRetries /\ MaxRetries \in Nat
        BY <2>4, ProviderAssumption
      <3>2. ~(attempt < MaxRetries) => attempt + 1 = MaxRetries + 1
        BY <3>1
      <3> QED BY <1>3, <3>2
    <2>8. f # "over"
      BY <2>4 DEF Failures
    <2>9. GivesUpLate'
      BY <2>1, <2>4, <2>5, <2>7, <2>8, ProviderAssumption DEF GivesUpLate
    <2> QED BY <2>2, <2>3, <2>6, <2>9
  <1> QED BY <1>2, <1>3

(* The body ends, and what was collected is the answer.                    *)
LEMMA StreamEndsStep ==
  ASSUME StreamInv, StreamEnds
  PROVE  StreamInv'
PROOF
  <1> USE DEF StreamInv
  <1>1. UNCHANGED <<attempt, message, position, blocks, stop_reason, input_tokens,
                    last_error, emitted>>
    BY DEF StreamEnds, GiveUp, api, got
  <1>2. \/ /\ DOMAIN blocks = {} /\ last_error # "none"
           /\ outcome' = [kind |-> "error", error |-> last_error]
        \/ outcome' = [kind |-> "ok", parts |-> Parts, stop |-> stop_reason,
                       input |-> input_tokens]
    BY DEF StreamEnds, GiveUp
  <1>3. outcome'.kind \in {"error", "ok"}
    BY <1>2
  <1>4. StreamCore'
    BY <1>1, <1>3 DEF StreamCore
  <1>5. Collected' /\ ShownSoFar' /\ Parts' = Parts
    BY <1>1, Untouched
  <1>6. Answered'
    BY <1>1, <1>2, <1>5 DEF Answered
  <1>7. /\ ends' = Append(ends, "over") /\ Len(ends) = attempt /\ attempt \in 0 .. MaxRetries
        /\ ends \in Seq(Failures \cup {"over"})
        /\ \A i \in 1 .. attempt : ends[i] \in IsRetryable
        /\ last_error = IF attempt = 0 THEN "none" ELSE ToLlmError(ends[attempt])
    BY DEF StreamEnds, EndsAs, EndsTold, StreamCore
  <1>8. /\ ends' \in Seq(Failures \cup {"over"}) /\ Len(ends') = attempt + 1
        /\ \A i \in 1 .. attempt : ends'[i] = ends[i]
        /\ ends'[attempt + 1] = "over" /\ "over" \notin IsRetryable
    BY <1>7, ProviderAssumption DEF IsRetryable
  <1>9. EndsTold'
    BY <1>3, <1>8 DEF EndsTold
  <1>10. GivesUpLate'
    <2>1. CASE outcome'.kind = "error"
      <3>1. /\ DOMAIN blocks = {} /\ last_error # "none"
            /\ outcome' = [kind |-> "error", error |-> last_error]
        BY <1>2, <2>1
      <3>2. /\ attempt \in 1 .. MaxRetries /\ MaxRetries \in Nat
            /\ last_error = ToLlmError(ends[attempt])
        BY <1>7, <3>1, ProviderAssumption
      <3> QED BY <1>1, <1>7, <1>8, <3>1, <3>2 DEF GivesUpLate
    <2> QED BY <2>1 DEF GivesUpLate
  <1> QED BY <1>4, <1>5, <1>6, <1>9, <1>10

(* Before the first attempt nothing is collected, shown or answered.       *)
LEMMA InitStreamInv == StreamInit => StreamInv
PROOF
  <1> SUFFICES ASSUME StreamInit PROVE StreamInv
    OBVIOUS
  <1> USE DEF StreamInit
  <1>1. position[1] = 0 /\ position[2] = 0 /\ message.blocks \in Seq(Block)
    BY ProviderAssumption
  <1>2. Len(message.blocks) \in Nat
    BY <1>1
  <1>3. StreamCore
    BY <1>1, <1>2, ProviderAssumption DEF StreamCore
  <1>4. Begun = 0 /\ 1 .. 0 = {}
    BY <1>1 DEF Begun
  <1>5. Collected
    <2>1. ~(0 > Len(message.blocks) + 1)
      BY <1>2
    <2> QED BY <1>1, <1>4, <2>1 DEF Collected, NoBlocks
  <1>6. ShownSoFar
    BY <1>4 DEF ShownSoFar
  <1>7. Answered /\ EndsTold /\ GivesUpLate
    BY DEF Answered, EndsTold, GivesUpLate
  <1> QED BY <1>3, <1>5, <1>6, <1>7 DEF StreamInv

(* What the provider has collected and emitted so far is what has come of  *)
(* the message, at every position of the stream and in every attempt.      *)
THEOREM StreamInvariance == StreamSpec => []StreamInv
PROOF
  <1>1. StreamInv /\ [StreamNext]_streamVars => StreamInv'
    <2> SUFFICES ASSUME StreamInv, [StreamNext]_streamVars PROVE StreamInv'
      OBVIOUS
    <2>1. CASE UNCHANGED streamVars
      <3>1. UNCHANGED <<attempt, message, position, blocks, stop_reason, input_tokens,
                        last_error, emitted, outcome, ends>>
        BY <2>1 DEF streamVars
      <3>2. Collected' /\ ShownSoFar' /\ Parts' = Parts
        BY <3>1, Untouched
      <3>3. StreamCore' /\ Answered' /\ EndsTold' /\ GivesUpLate'
        BY <3>1, <3>2 DEF StreamInv, StreamCore, Answered, EndsTold, GivesUpLate
      <3> QED BY <3>2, <3>3 DEF StreamInv
    <2>2. CASE StreamNext
      BY <2>2, MessageStartStep, BlockStartStep, DeltaStep, BlockStopStep, MessageEndSteps,
         StreamEndsStep, StreamFailsStep DEF StreamNext, Stream
    <2> QED BY <2>1, <2>2
  <1> QED BY <1>1, InitStreamInv, PTL DEF StreamSpec

-----------------------------------------------------------------------------
(* The answer.                                                             *)

(* The parts before the empty ones are left out.                           *)
LEMMA PartsBefore ==
  ASSUME StreamInv
  PROVE  \E S : [i \in 1 .. Cardinality(DOMAIN blocks) |-> Part(i)] \in Seq(S)
                /\ Cardinality(DOMAIN blocks) = Begun /\ Begun \in Nat
                /\ DOMAIN [i \in 1 .. Cardinality(DOMAIN blocks) |-> Part(i)] = 1 .. Begun
PROOF
  <1> DEFINE S == {Part(i) : i \in 1 .. Begun}
  <1>1. Begun \in Nat /\ DOMAIN blocks = 1 .. Begun
    <2>1. StreamCore
      BY DEF StreamInv
    <2>2. Begun \in Nat
      BY <2>1, Places DEF Begun
    <2> QED BY <2>2, CollectedOf
  <1>2. Cardinality(1 .. Begun) = Begun
    BY <1>1, FS_Interval
  <1>3. [i \in 1 .. Begun |-> Part(i)] \in [1 .. Begun -> S]
    OBVIOUS
  <1>4. [i \in 1 .. Begun |-> Part(i)] \in Seq(S)
    BY <1>1, <1>3
  <1> HIDE DEF S
  <1> QED BY <1>1, <1>2, <1>4

(* The parts are of the blocks that have begun, with all that came of them *)
(* but an input that is not whole; a block with none of it is left out.    *)
LEMMA PartsAre ==
  ASSUME StreamInv
  PROVE  /\ \A k \in DOMAIN Parts : \E i \in 1 .. Begun : Parts[k] = Part(i)
         /\ \A i \in 1 .. Begun : IsPushed(Part(i)) =>
              \E k \in DOMAIN Parts : Parts[k] = Part(i)
PROOF
  <1> DEFINE s == [i \in 1 .. Cardinality(DOMAIN blocks) |-> Part(i)]
  <1>1. PICK S : s \in Seq(S) /\ DOMAIN s = 1 .. Begun
    BY PartsBefore
  <1>2. \A i \in 1 .. Begun : s[i] = Part(i)
    BY <1>1
  <1>3. Parts = Pushed(s)
    BY DEF Parts
  <1> HIDE DEF s
  <1>4. /\ \A k \in DOMAIN Pushed(s) :
             \E i \in 1 .. Begun : IsPushed(s[i]) /\ Pushed(s)[k] = s[i]
        /\ \A i \in 1 .. Begun :
             IsPushed(s[i]) => \E k \in DOMAIN Pushed(s) : Pushed(s)[k] = s[i]
    BY <1>1, PushedElements
  <1> HIDE DEF Parts
  <1>5. ASSUME NEW k \in DOMAIN Parts PROVE \E i \in 1 .. Begun : Parts[k] = Part(i)
    BY <1>2, <1>3, <1>4
  <1>6. ASSUME NEW i \in 1 .. Begun, IsPushed(Part(i))
        PROVE  \E k \in DOMAIN Parts : Parts[k] = Part(i)
    BY <1>2, <1>3, <1>4, <1>6
  <1> QED BY <1>5, <1>6

(* The part that is built from a block.                                    *)
LEMMA PartIs ==
  ASSUME NEW i
  PROVE  /\ Part(i).index = i /\ Part(i).kind = blocks[i].kind
         /\ ~(Part(i).kind = "tool" /\ Part(i).pieces = <<>>) => Part(i).pieces = blocks[i].pieces
         /\ blocks[i].kind # "tool" => Part(i).pieces = blocks[i].pieces
  BY DEF Part

(* The invariant gives the types ...                                       *)
LEMMA TypesOfTheStream == StreamInv => StreamTypeOK
PROOF
  <1> SUFFICES ASSUME StreamInv PROVE StreamTypeOK
    OBVIOUS
  <1>1. StreamCore /\ Collected
    BY DEF StreamInv
  <1>2. /\ message.stop \in {"tool_use", "max_tokens", "end_turn"}
        /\ message.input \in Nat \cup {NoCount}
    BY <1>1, Places
  <1>3. stop_reason \in {"tool_use", "max_tokens", "end_turn"} /\ input_tokens \in Nat
    BY <1>1, <1>2 DEF Collected
  <1>4. \A i \in DOMAIN blocks : blocks[i].kind = message.blocks[i].kind
    BY CollectedOf
  <1>5. DOMAIN blocks = 1 .. Cardinality(DOMAIN blocks)
    BY PartsBefore, CollectedOf
  <1> QED BY <1>1, <1>3, <1>4, <1>5 DEF StreamTypeOK, StreamCore

(* ... and that what the channel was shown of each block is what the       *)
(* answer says of it ...                                                   *)
LEMMA ShownIsReturnedFrom == StreamInv => ShownIsReturned
PROOF
  <1> SUFFICES ASSUME StreamInv, outcome.kind = "ok"
               PROVE  /\ \A k \in DOMAIN outcome.parts :
                           LET p == outcome.parts[k] IN
                           /\ p.kind # "tool" \/ p.pieces # <<>> => AsShown(p.index, p.pieces)
                           /\ p.kind = "tool" =>
                                \E m \in Started(p.index) : Started(p.index) = {m}
                      /\ \A k \in DOMAIN emitted :
                           \E j \in DOMAIN outcome.parts :
                             outcome.parts[j].index = emitted[k].index
    BY DEF ShownIsReturned
  <1>1. outcome.parts = Parts /\ ShownSoFar
    BY DEF StreamInv, Answered
  <1>2. ASSUME NEW k \in DOMAIN Parts
        PROVE  /\ Parts[k].kind # "tool" \/ Parts[k].pieces # <<>> =>
                    AsShown(Parts[k].index, Parts[k].pieces)
               /\ Parts[k].kind = "tool" =>
                    \E m \in Started(Parts[k].index) : Started(Parts[k].index) = {m}
    <2>1. PICK i \in 1 .. Begun : Parts[k] = Part(i)
      BY PartsAre
    <2>2. AsShown(i, blocks[i].pieces)
      BY <1>1 DEF ShownSoFar
    <2>3. message.blocks[i].kind = "tool" => \E m \in Started(i) : Started(i) = {m}
      BY <1>1 DEF ShownSoFar
    <2>4. blocks[i].kind = message.blocks[i].kind
      BY CollectedOf
    <2>5. Parts[k].index = i /\ Parts[k].kind = blocks[i].kind
      BY <2>1, PartIs
    <2>6. Parts[k].kind # "tool" \/ Parts[k].pieces # <<>> => Parts[k].pieces = blocks[i].pieces
      BY <2>1, PartIs
    <2> QED BY <2>2, <2>3, <2>4, <2>5, <2>6
  <1>3. ASSUME NEW k \in DOMAIN emitted
        PROVE  \E j \in DOMAIN Parts : Parts[j].index = emitted[k].index
    <2> DEFINE i == emitted[k].index
    <2>1. i \in 1 .. Begun /\ emitted[k].event # "piece" => message.blocks[i].kind = "tool"
      BY <1>1 DEF ShownSoFar
    <2>2. i \in 1 .. Begun
      BY <1>1 DEF ShownSoFar
    <2>3. blocks[i].kind = message.blocks[i].kind
      BY <2>2, CollectedOf
    <2>4. IsPushed(Part(i))
      <3>1. CASE blocks[i].kind = "tool"
        BY <3>1, PartIs DEF IsPushed
      <3>2. CASE blocks[i].kind # "tool"
        <4>1. emitted[k].event = "piece"
          BY <2>1, <2>2, <2>3, <3>2
        <4>2. k \in Shown(i)
          BY <4>1 DEF Shown
        <4>3. AsShown(i, blocks[i].pieces)
          BY <1>1, <2>2 DEF ShownSoFar
        <4>4. \E n \in DOMAIN blocks[i].pieces : TRUE
          BY <4>2, <4>3 DEF AsShown
        <4>5. blocks[i].pieces # <<>>
          <5>1. DOMAIN <<>> = {}
            OBVIOUS
          <5> QED BY <4>4, <5>1
        <4> QED BY <3>2, <4>5, PartIs DEF IsPushed
      <3> QED BY <3>1, <3>2
    <2>5. PICK j \in DOMAIN Parts : Parts[j] = Part(i)
      BY <2>2, <2>4, PartsAre
    <2>6. Parts[j].index = i
      BY <2>5, PartIs
    <2> QED BY <2>6
  <1> HIDE DEF Parts
  <1> QED BY <1>1, <1>2, <1>3

(* ... and, of a message that was complete, that the answer is that        *)
(* message.                                                                *)
LEMMA StoppedIsExactFrom == StreamInv => StoppedIsExact
PROOF
  <1> SUFFICES ASSUME StreamInv, outcome.kind = "ok", Completed
               PROVE  /\ outcome.parts = Meant /\ outcome.stop = message.stop
                      /\ outcome.input = IF message.input = NoCount THEN 0 ELSE message.input
    BY DEF StoppedIsExact
  <1> DEFINE n == Len(message.blocks)
             said(i) == [m \in 1 .. message.blocks[i].size |-> <<attempt, i, m>>]
  <1>1. /\ StreamCore /\ Collected /\ outcome.parts = Parts
        /\ outcome.stop = stop_reason /\ outcome.input = input_tokens
    BY DEF StreamInv, Answered
  <1>2. /\ n \in Nat /\ DOMAIN message.blocks = 1 .. n /\ position[1] \in Nat
        /\ \A i \in 1 .. n : message.blocks[i].size \in Nat
    BY <1>1, Places
  <1>3. position[1] > n + 2
    BY DEF Completed
  <1>4. Begun = n
    BY <1>2, <1>3 DEF Begun
  <1>5. \A i \in 1 .. n : Arrived(i) = message.blocks[i].size
    BY <1>2, <1>3 DEF Arrived
  <1>6. Cardinality(DOMAIN blocks) = n
    BY <1>4, PartsBefore
  <1>7. ASSUME NEW i \in 1 .. n
        PROVE  Part(i) = [index |-> i, kind |-> message.blocks[i].kind, pieces |-> said(i)]
    <2>1. blocks[i].kind = message.blocks[i].kind /\ blocks[i].pieces = said(i)
      BY <1>4, <1>5, CollectedOf
    <2>2. Len(said(i)) = message.blocks[i].size
      <3> DEFINE size == message.blocks[i].size
                 s == [m \in 1 .. size |-> <<attempt, i, m>>]
      <3>1. size \in Nat
        BY <1>2
      <3> HIDE DEF size
      <3>2. Len(s) = size
        <4>1. s \in Seq({<<attempt, i, m>> : m \in 1 .. size}) /\ DOMAIN s = 1 .. size
          BY <3>1
        <4> QED BY <3>1, <4>1
      <3> QED BY <3>2 DEF size
    <2> HIDE DEF said
    <2> QED BY <2>1, <2>2 DEF Part
  <1>8. Parts = Meant
    <2>1. [i \in 1 .. Cardinality(DOMAIN blocks) |-> Part(i)]
            = [i \in DOMAIN message.blocks |->
                 [index |-> i, kind |-> message.blocks[i].kind, pieces |-> said(i)]]
      BY <1>2, <1>6, <1>7
    <2> QED BY <2>1 DEF Parts, Meant
  <1>9. stop_reason = message.stop
        /\ input_tokens = IF message.input = NoCount THEN 0 ELSE message.input
    BY <1>1, <1>2, <1>3 DEF Collected
  <1> HIDE DEF n, said
  <1> QED BY <1>1, <1>8, <1>9

(* AnthropicProvider::complete, for every message, every cut of it into    *)
(* events and every failure: the answer is what was streamed to the        *)
(* caller, and a whole message is answered as it was.                      *)
THEOREM AnswersExactly == StreamSpec => []AnswerIsExact
PROOF
  <1>1. StreamInv => AnswerIsExact
    BY TypesOfTheStream, ShownIsReturnedFrom, StoppedIsExactFrom DEF AnswerIsExact
  <1> QED BY <1>1, StreamInvariance, PTL

(* AnthropicProvider::complete, for any number of retries: it gives up     *)
(* only after errors of load, one for each attempt it leaves behind, and   *)
(* on such an error itself only when the attempts are used up or a block   *)
(* had begun.                                                              *)
THEOREM GivesUpOnlyLate == StreamSpec => []GivesUpLate
PROOF
  <1>1. StreamInv => GivesUpLate
    BY DEF StreamInv
  <1> QED BY <1>1, StreamInvariance, PTL

-----------------------------------------------------------------------------
(* FileTools: what is computed.                                            *)

Scans(T)  == [done : Seq(Seq(T)), line : Seq(T)]
NoScan    == [done |-> <<>>, line |-> <<>>]
After(s, x) == IF x = NL THEN [done |-> Append(s.done, s.line), line |-> <<>>]
               ELSE [done |-> s.done, line |-> Append(s.line, x)]

(* How the lines are scanned.                                              *)
LEMMA ScannedStepwise ==
  ASSUME NEW T, NEW t \in Seq(T)
  PROVE  \E p : /\ Scanned(t) = p[Len(t)]
                /\ Iterates(p, Len(t), Scans(T), NoScan,
                            [x \in (1 .. Len(t)) \X Scans(T) |-> After(x[2], t[x[1]])])
PROOF
  <1> DEFINE n == Len(t)
             S == Scans(T)
             Loop(h) == [i \in 0 .. n |->
                           IF i = 0 THEN [done |-> <<>>, line |-> <<>>]
                           ELSE LET s == h[i - 1] IN
                                IF t[i] = NL
                                THEN [done |-> Append(s.done, s.line), line |-> <<>>]
                                ELSE [done |-> s.done, line |-> Append(s.line, t[i])]]
             g == [x \in (1 .. n) \X S |-> After(x[2], t[x[1]])]
             p == CHOOSE h : h = Loop(h)
  <1>1. n \in Nat /\ \A i \in 1 .. n : t[i] \in T
    OBVIOUS
  <1>2. g \in [(1 .. n) \X S -> S] /\ NoScan \in S
    <2>1. ASSUME NEW i \in 1 .. n, NEW s \in S PROVE After(s, t[i]) \in S
      <3>1. t[i] \in T /\ s.done \in Seq(Seq(T)) /\ s.line \in Seq(T)
        BY <1>1 DEF Scans
      <3>2. Append(s.done, s.line) \in Seq(Seq(T)) /\ Append(s.line, t[i]) \in Seq(T)
        BY <3>1
      <3>3. <<>> \in Seq(T)
        OBVIOUS
      <3> QED BY <3>1, <3>2, <3>3 DEF After, Scans
    <2>2. NoScan \in S
      BY DEF NoScan, Scans
    <2> HIDE DEF n, S
    <2> QED BY <2>1, <2>2
  <1> HIDE DEF n, g, S
  <1>3. PICK f : Iterates(f, n, S, NoScan, g)
    BY <1>1, <1>2, ThereIsAnIteration
  <1>4. \A h : Loop(h) = [i \in 0 .. n |-> IF i = 0 THEN NoScan ELSE After(h[i - 1], t[i])]
    BY DEF NoScan, After
  <1>5. \A i \in 1 .. n, s \in S : g[<<i, s>>] = After(s, t[i])
    BY DEF g
  <1>6. f = Loop(f)
    <2>1. ASSUME NEW i \in 1 .. n PROVE f[i] = After(f[i - 1], t[i])
      <3>1. f[i - 1] \in S /\ f[i] = g[<<i, f[i - 1]>>]
        BY <1>1, <1>3 DEF Iterates
      <3> QED BY <1>5, <3>1
    <2>2. \A i \in 0 .. n : f[i] = IF i = 0 THEN NoScan ELSE After(f[i - 1], t[i])
      BY <1>1, <1>3, <2>1 DEF Iterates
    <2>3. f = [i \in 0 .. n |-> f[i]]
      BY <1>3 DEF Iterates
    <2> HIDE DEF Loop
    <2> QED BY <1>4, <2>2, <2>3
  <1>7. Scanned(t) = p[n]
    BY DEF Scanned, p, n
  <1> HIDE DEF Loop
  <1>8. p = Loop(p)
    BY <1>6
  <1> HIDE DEF p
  <1>9. p = [i \in 0 .. n |-> IF i = 0 THEN NoScan ELSE After(p[i - 1], t[i])]
    BY <1>4, <1>8
  <1>10. p = [i \in 0 .. n |-> p[i]]
    BY <1>9
  <1>11. p[0] = NoScan /\ \A i \in 1 .. n : p[i] = After(p[i - 1], t[i])
    <2>1. 0 \in 0 .. n /\ \A i \in 1 .. n : i \in 0 .. n /\ i # 0
      BY <1>1
    <2> QED BY <1>9, <2>1
  <1>12. Iterates(p, n, S, NoScan, g)
    <2>1. \A i \in 1 .. n : p[i - 1] \in S => p[i] = g[<<i, p[i - 1]>>]
      BY <1>5, <1>11
    <2> QED BY <1>1, <1>2, <1>10, <1>11, <2>1, LoopIterates
  <1> QED BY <1>7, <1>12 DEF n, g, S

(* One more word or break.                                                 *)
LEMMA ScannedOneMore ==
  ASSUME NEW T, NEW t \in Seq(T), NEW x \in T
  PROVE  /\ Scanned(t) \in Scans(T) /\ Scanned(<<>>) = NoScan
         /\ Scanned(Append(t, x)) = After(Scanned(t), x)
PROOF
  <1> DEFINE n == Len(t)
             u == Append(t, x)
             m == Len(u)
             S == Scans(T)
             g == [y \in (1 .. n) \X S |-> After(y[2], t[y[1]])]
             h == [y \in (1 .. m) \X S |-> After(y[2], u[y[1]])]
  <1>1. n \in Nat /\ u \in Seq(T) /\ m = n + 1 /\ u[m] = x
        /\ \A i \in 1 .. n : u[i] = t[i]
    OBVIOUS
  <1> HIDE DEF u
  <1>2. PICK p : Scanned(t) = p[n] /\ Iterates(p, n, S, NoScan, g)
    BY ScannedStepwise
  <1>3. PICK q : Scanned(u) = q[m] /\ Iterates(q, m, S, NoScan, h)
    BY <1>1, ScannedStepwise
  <1> HIDE DEF n, m
  <1>4. \A i \in 1 .. n : \A s \in S : g[<<i, s>>] = h[<<i, s>>]
    BY <1>1
  <1> HIDE DEF g, h, S
  <1>5. p[n] \in S /\ q[m] = h[<<m, p[n]>>]
    <2>1. m \in Nat /\ n <= m /\ m - 1 = n /\ m \in 1 .. m
      BY <1>1
    <2>2. p[n] \in S /\ q[n] = p[n]
      BY <1>1, <1>2, <1>3, <1>4, <2>1, IterationGoesOn
    <2>3. q[m] = h[<<m, q[m - 1]>>]
      BY <1>3, <2>1 DEF Iterates
    <2> QED BY <2>1, <2>2, <2>3
  <1>6. h[<<m, p[n]>>] = After(p[n], x)
    <2>1. m \in 1 .. m
      BY <1>1
    <2> QED BY <1>1, <1>5, <2>1 DEF h
  <1>9. Scanned(u) = After(Scanned(t), x)
    BY <1>2, <1>3, <1>5, <1>6
  <1>10. Scanned(<<>>) = NoScan
    <2>1. <<>> \in Seq(T) /\ Len(<<>>) = 0
      OBVIOUS
    <2>2. PICK r : Scanned(<<>>) = r[0] /\ r[0] = NoScan
      BY <2>1, ScannedStepwise DEF Iterates
    <2> QED BY <2>2
  <1>11. Scanned(t) \in S
    BY <1>2, <1>5
  <1> QED BY <1>9, <1>10, <1>11 DEF u, S

(* Lines are words: no break is in one.                                    *)
LEMMA LinesAreWords ==
  ASSUME NEW t \in Texts
  PROVE  Scanned(t) \in Scans(Words) /\ Lines(t) \in Seq(Seq(Words))
PROOF
  <1> DEFINE T == Words \cup {NL}
             I == {s \in Seq(T) : Scanned(s) \in Scans(Words)}
  <1>1. <<>> \in I
    <2>1. <<>> \in Seq(T) /\ NL \in T
      OBVIOUS
    <2>2. Scanned(<<>>) = NoScan
      BY <2>1, ScannedOneMore
    <2>3. NoScan \in Scans(Words)
      BY DEF NoScan, Scans
    <2> QED BY <2>1, <2>2, <2>3
  <1>2. ASSUME NEW s \in Seq(T), NEW x \in T, s \in I PROVE Append(s, x) \in I
    <2> DEFINE a == Scanned(s)
    <2>1. Append(s, x) \in Seq(T) /\ Scanned(Append(s, x)) = After(a, x)
      BY ScannedOneMore
    <2>2. a \in Scans(Words)
      BY <1>2
    <2> HIDE DEF a
    <2>3. After(a, x) \in Scans(Words)
      <3>1. a.done \in Seq(Seq(Words)) /\ a.line \in Seq(Words)
        BY <2>2 DEF Scans
      <3>2. CASE x = NL
        <4>1. Append(a.done, a.line) \in Seq(Seq(Words)) /\ <<>> \in Seq(Words)
          BY <3>1
        <4> QED BY <3>2, <4>1 DEF After, Scans
      <3>3. CASE x # NL
        <4>1. Append(a.line, x) \in Seq(Words)
          BY <3>1, <3>3
        <4> QED BY <3>1, <3>3, <4>1 DEF After, Scans
      <3> QED BY <3>2, <3>3
    <2> QED BY <2>1, <2>3
  <1> HIDE DEF I
  <1>3. \A s \in Seq(T) : s \in I
    BY <1>1, <1>2, OneByOne
  <1>4. Scanned(t) \in Scans(Words)
    BY <1>3 DEF I, Texts
  <1>5. Lines(t) \in Seq(Seq(Words))
    <2> DEFINE a == Scanned(t)
    <2>1. a.done \in Seq(Seq(Words)) /\ a.line \in Seq(Words)
      BY <1>4 DEF Scans
    <2>2. Lines(t) = IF a.line = <<>> THEN a.done ELSE Append(a.done, a.line)
      BY DEF Lines
    <2> HIDE DEF a
    <2> QED BY <2>1, <2>2
  <1> QED BY <1>4, <1>5

(* A line more, behind a break if it is not the first.                     *)
WithLine(s, ls, i) == IF i = 1 THEN ls[1] ELSE s \o <<NL>> \o ls[i]

(* How lines are joined.                                                   *)
LEMMA JoinedStepwise ==
  ASSUME NEW ls \in Seq(Texts)
  PROVE  \E p : /\ Joined(ls) = p[Len(ls)]
                /\ Iterates(p, Len(ls), Texts, <<>>,
                            [x \in (1 .. Len(ls)) \X Texts |-> WithLine(x[2], ls, x[1])])
PROOF
  <1> DEFINE n == Len(ls)
             S == Texts
             Loop(h) == [i \in 0 .. n |->
                           IF i = 0 THEN <<>>
                           ELSE IF i = 1 THEN ls[1] ELSE h[i - 1] \o <<NL>> \o ls[i]]
             g == [x \in (1 .. n) \X S |-> WithLine(x[2], ls, x[1])]
             p == CHOOSE h : h = Loop(h)
  <1>1. n \in Nat /\ \A i \in 1 .. n : ls[i] \in Texts
    OBVIOUS
  <1>2. g \in [(1 .. n) \X S -> S] /\ <<>> \in S
    <2>1. ASSUME NEW i \in 1 .. n, NEW s \in S PROVE WithLine(s, ls, i) \in S
      <3>1. ls[i] \in Texts /\ <<NL>> \in Texts
        BY <1>1 DEF Texts
      <3>2. s \o <<NL>> \o ls[i] \in Texts
        BY <3>1 DEF Texts
      <3> QED BY <3>1, <3>2 DEF WithLine
    <2>2. <<>> \in S
      BY DEF Texts
    <2> HIDE DEF n, S
    <2> QED BY <2>1, <2>2
  <1> HIDE DEF n, g, S
  <1>3. PICK f : Iterates(f, n, S, <<>>, g)
    BY <1>1, <1>2, ThereIsAnIteration
  <1>4. \A h : Loop(h) = [i \in 0 .. n |-> IF i = 0 THEN <<>> ELSE WithLine(h[i - 1], ls, i)]
    BY DEF WithLine
  <1>5. \A i \in 1 .. n, s \in S : g[<<i, s>>] = WithLine(s, ls, i)
    BY DEF g
  <1>6. f = Loop(f)
    <2>1. ASSUME NEW i \in 1 .. n PROVE f[i] = WithLine(f[i - 1], ls, i)
      <3>1. f[i - 1] \in S /\ f[i] = g[<<i, f[i - 1]>>]
        BY <1>1, <1>3 DEF Iterates
      <3> QED BY <1>5, <3>1
    <2>2. \A i \in 0 .. n : f[i] = IF i = 0 THEN <<>> ELSE WithLine(f[i - 1], ls, i)
      BY <1>1, <1>3, <2>1 DEF Iterates
    <2>3. f = [i \in 0 .. n |-> f[i]]
      BY <1>3 DEF Iterates
    <2> HIDE DEF Loop
    <2> QED BY <1>4, <2>2, <2>3
  <1>7. Joined(ls) = p[n]
    BY DEF Joined, p, n
  <1> HIDE DEF Loop
  <1>8. p = Loop(p)
    BY <1>6
  <1> HIDE DEF p
  <1>9. p = [i \in 0 .. n |-> IF i = 0 THEN <<>> ELSE WithLine(p[i - 1], ls, i)]
    BY <1>4, <1>8
  <1>10. p = [i \in 0 .. n |-> p[i]]
    BY <1>9
  <1>11. p[0] = <<>> /\ \A i \in 1 .. n : p[i] = WithLine(p[i - 1], ls, i)
    <2>1. 0 \in 0 .. n /\ \A i \in 1 .. n : i \in 0 .. n /\ i # 0
      BY <1>1
    <2> QED BY <1>9, <2>1
  <1>12. Iterates(p, n, S, <<>>, g)
    <2>1. \A i \in 1 .. n : p[i - 1] \in S => p[i] = g[<<i, p[i - 1]>>]
      BY <1>5, <1>11
    <2> QED BY <1>1, <1>2, <1>10, <1>11, <2>1, LoopIterates
  <1> QED BY <1>7, <1>12 DEF n, g, S

(* One more line.                                                          *)
LEMMA JoinedOneMore ==
  ASSUME NEW ls \in Seq(Texts), NEW l \in Texts
  PROVE  /\ Joined(ls) \in Texts /\ Joined(<<>>) = <<>>
         /\ Joined(Append(ls, l)) = IF ls = <<>> THEN l ELSE Joined(ls) \o <<NL>> \o l
PROOF
  <1> DEFINE n == Len(ls)
             u == Append(ls, l)
             m == Len(u)
             S == Texts
             g == [y \in (1 .. n) \X S |-> WithLine(y[2], ls, y[1])]
             h == [y \in (1 .. m) \X S |-> WithLine(y[2], u, y[1])]
  <1>1. n \in Nat /\ u \in Seq(Texts) /\ m = n + 1 /\ u[m] = l
        /\ \A i \in 1 .. n : u[i] = ls[i]
    OBVIOUS
  <1> HIDE DEF u
  <1>2. PICK p : Joined(ls) = p[n] /\ Iterates(p, n, S, <<>>, g)
    BY JoinedStepwise
  <1>3. PICK q : Joined(u) = q[m] /\ Iterates(q, m, S, <<>>, h)
    BY <1>1, JoinedStepwise
  <1>4. n = 0 <=> ls = <<>>
    OBVIOUS
  <1> HIDE DEF n, m
  <1>5. \A i \in 1 .. n : \A s \in S : g[<<i, s>>] = h[<<i, s>>]
    BY <1>1 DEF WithLine
  <1> HIDE DEF g, h, S
  <1>6. p[n] \in S /\ q[m] = h[<<m, p[n]>>]
    <2>1. m \in Nat /\ n <= m /\ m - 1 = n /\ m \in 1 .. m
      BY <1>1
    <2>2. p[n] \in S /\ q[n] = p[n]
      BY <1>1, <1>2, <1>3, <1>5, <2>1, IterationGoesOn
    <2>3. q[m] = h[<<m, q[m - 1]>>]
      BY <1>3, <2>1 DEF Iterates
    <2> QED BY <2>1, <2>2, <2>3
  <1>7. h[<<m, p[n]>>] = WithLine(p[n], u, m)
    <2>1. m \in 1 .. m
      BY <1>1
    <2> QED BY <1>6, <2>1 DEF h
  <1>8. Joined(u) = IF ls = <<>> THEN l ELSE Joined(ls) \o <<NL>> \o l
    BY <1>1, <1>2, <1>3, <1>6, <1>7, <1>4 DEF WithLine
  <1>9. Joined(<<>>) = <<>>
    <2>1. <<>> \in Seq(Texts) /\ Len(<<>>) = 0
      OBVIOUS
    <2>2. PICK r : Joined(<<>>) = r[0] /\ r[0] = <<>>
      BY <2>1, JoinedStepwise DEF Iterates
    <2> QED BY <2>2
  <1>10. Joined(ls) \in S
    BY <1>2, <1>6
  <1> QED BY <1>8, <1>9, <1>10 DEF u, S

(* A word or the replacement.                                              *)
WithWord(s, t, i, w, new) == s \o (IF t[i] = w THEN new ELSE <<t[i]>>)

(* How words are replaced.                                                 *)
LEMMA ReplacedStepwise ==
  ASSUME NEW w, NEW new \in Texts, NEW t \in Texts
  PROVE  \E p : /\ Replaced(t, w, new) = p[Len(t)]
                /\ Iterates(p, Len(t), Texts, <<>>,
                            [x \in (1 .. Len(t)) \X Texts |-> WithWord(x[2], t, x[1], w, new)])
PROOF
  <1> DEFINE n == Len(t)
             S == Texts
             Loop(h) == [i \in 0 .. n |->
                           IF i = 0 THEN <<>>
                           ELSE h[i - 1] \o (IF t[i] = w THEN new ELSE <<t[i]>>)]
             g == [x \in (1 .. n) \X S |-> WithWord(x[2], t, x[1], w, new)]
             p == CHOOSE h : h = Loop(h)
  <1>1. n \in Nat /\ \A i \in 1 .. n : t[i] \in Words \cup {NL}
    BY DEF Texts
  <1>2. g \in [(1 .. n) \X S -> S] /\ <<>> \in S
    <2>1. ASSUME NEW i \in 1 .. n, NEW s \in S PROVE WithWord(s, t, i, w, new) \in S
      <3>1. <<t[i]>> \in Texts
        BY <1>1 DEF Texts
      <3>2. s \o new \in Texts /\ s \o <<t[i]>> \in Texts
        BY <3>1 DEF Texts
      <3> QED BY <3>2 DEF WithWord
    <2>2. <<>> \in S
      BY DEF Texts
    <2> HIDE DEF n, S
    <2> QED BY <2>1, <2>2
  <1> HIDE DEF n, g, S
  <1>3. PICK f : Iterates(f, n, S, <<>>, g)
    BY <1>1, <1>2, ThereIsAnIteration
  <1>4. \A h : Loop(h) = [i \in 0 .. n |-> IF i = 0 THEN <<>> ELSE WithWord(h[i - 1], t, i, w, new)]
    BY DEF WithWord
  <1>5. \A i \in 1 .. n, s \in S : g[<<i, s>>] = WithWord(s, t, i, w, new)
    BY DEF g
  <1>6. f = Loop(f)
    <2>1. ASSUME NEW i \in 1 .. n PROVE f[i] = WithWord(f[i - 1], t, i, w, new)
      <3>1. f[i - 1] \in S /\ f[i] = g[<<i, f[i - 1]>>]
        BY <1>1, <1>3 DEF Iterates
      <3> QED BY <1>5, <3>1
    <2>2. \A i \in 0 .. n : f[i] = IF i = 0 THEN <<>> ELSE WithWord(f[i - 1], t, i, w, new)
      BY <1>1, <1>3, <2>1 DEF Iterates
    <2>3. f = [i \in 0 .. n |-> f[i]]
      BY <1>3 DEF Iterates
    <2> HIDE DEF Loop
    <2> QED BY <1>4, <2>2, <2>3
  <1>7. Replaced(t, w, new) = p[n]
    BY DEF Replaced, p, n
  <1> HIDE DEF Loop
  <1>8. p = Loop(p)
    BY <1>6
  <1> HIDE DEF p
  <1>9. p = [i \in 0 .. n |-> IF i = 0 THEN <<>> ELSE WithWord(p[i - 1], t, i, w, new)]
    BY <1>4, <1>8
  <1>10. p = [i \in 0 .. n |-> p[i]]
    BY <1>9
  <1>11. p[0] = <<>> /\ \A i \in 1 .. n : p[i] = WithWord(p[i - 1], t, i, w, new)
    <2>1. 0 \in 0 .. n /\ \A i \in 1 .. n : i \in 0 .. n /\ i # 0
      BY <1>1
    <2> QED BY <1>9, <2>1
  <1>12. Iterates(p, n, S, <<>>, g)
    <2>1. \A i \in 1 .. n : p[i - 1] \in S => p[i] = g[<<i, p[i - 1]>>]
      BY <1>5, <1>11
    <2> QED BY <1>1, <1>2, <1>10, <1>11, <2>1, LoopIterates
  <1> QED BY <1>7, <1>12 DEF n, g, S

(* Replacing goes on: a word is replaced, or stays.                        *)
Going(r, x, w, new) == IF x = w THEN r \o new ELSE Append(r, x)

(* With one more word, what was replaced goes on.                          *)
LEMMA ReplacedOneMore ==
  ASSUME NEW w, NEW new \in Texts, NEW t \in Texts, NEW x \in Words \cup {NL}
  PROVE  /\ Replaced(t, w, new) \in Texts /\ Replaced(<<>>, w, new) = <<>>
         /\ Replaced(Append(t, x), w, new) = Going(Replaced(t, w, new), x, w, new)
PROOF
  <1> DEFINE n == Len(t)
             u == Append(t, x)
             m == Len(u)
             S == Texts
             g == [y \in (1 .. n) \X S |-> WithWord(y[2], t, y[1], w, new)]
             h == [y \in (1 .. m) \X S |-> WithWord(y[2], u, y[1], w, new)]
  <1>1. n \in Nat /\ u \in Texts /\ m = n + 1 /\ u[m] = x
        /\ \A i \in 1 .. n : u[i] = t[i]
    BY DEF Texts
  <1> HIDE DEF u
  <1>2. PICK p : Replaced(t, w, new) = p[n] /\ Iterates(p, n, S, <<>>, g)
    BY ReplacedStepwise
  <1>3. PICK q : Replaced(u, w, new) = q[m] /\ Iterates(q, m, S, <<>>, h)
    BY <1>1, ReplacedStepwise
  <1> HIDE DEF n, m
  <1>4. \A i \in 1 .. n : \A s \in S : g[<<i, s>>] = h[<<i, s>>]
    BY <1>1 DEF WithWord
  <1> HIDE DEF g, h, S
  <1>5. p[n] \in S /\ q[m] = h[<<m, p[n]>>]
    <2>1. m \in Nat /\ n <= m /\ m - 1 = n /\ m \in 1 .. m
      BY <1>1
    <2>2. p[n] \in S /\ q[n] = p[n]
      BY <1>1, <1>2, <1>3, <1>4, <2>1, IterationGoesOn
    <2>3. q[m] = h[<<m, q[m - 1]>>]
      BY <1>3, <2>1 DEF Iterates
    <2> QED BY <2>1, <2>2, <2>3
  <1>6. h[<<m, p[n]>>] = WithWord(p[n], u, m, w, new)
    <2>1. m \in 1 .. m
      BY <1>1
    <2> QED BY <1>5, <2>1 DEF h
  <1>7. Replaced(u, w, new) = Replaced(t, w, new) \o (IF x = w THEN new ELSE <<x>>)
    BY <1>1, <1>2, <1>3, <1>5, <1>6 DEF WithWord
  <1>8. Replaced(<<>>, w, new) = <<>>
    <2>1. <<>> \in Texts /\ Len(<<>>) = 0
      BY DEF Texts
    <2> DEFINE e == <<>>
    <2>2. e \in Texts /\ Len(e) = 0
      BY <2>1
    <2> HIDE DEF e
    <2>3. PICK r : /\ Replaced(e, w, new) = r[Len(e)]
                   /\ Iterates(r, Len(e), Texts, <<>>,
                               [y \in (1 .. Len(e)) \X Texts |->
                                  WithWord(y[2], e, y[1], w, new)])
      BY <2>2, ReplacedStepwise
    <2>4. r[0] = <<>>
      BY <2>3 DEF Iterates
    <2> QED BY <2>2, <2>3, <2>4 DEF e
  <1>9. Replaced(t, w, new) \in S
    BY <1>2, <1>5
  <1>10. Replaced(t, w, new) \o <<x>> = Append(Replaced(t, w, new), x)
    BY <1>9 DEF S, Texts
  <1>11. x # w => Replaced(u, w, new) = Append(Replaced(t, w, new), x)
    BY <1>7, <1>10
  <1>12. x = w => Replaced(u, w, new) = Replaced(t, w, new) \o new
    BY <1>7
  <1> QED BY <1>8, <1>9, <1>11, <1>12 DEF u, S, Going

-----------------------------------------------------------------------------
(* Least and greatest.                                                     *)

(* A set of numbers has a least one.                                       *)
LEMMA LeastIsThere ==
  ASSUME NEW S, S \subseteq Nat, S # {}
  PROVE  Min(S) \in S /\ \A x \in S : Min(S) <= x
PROOF
  <1>1. PICK x \in S : \A y \in S : ~(<<y, x>> \in NatLess)
    BY NatLessIsWellFounded, WFMin
  <1>2. ASSUME NEW y \in S PROVE x <= y
    <2>1. ~(<<y, x>> \in NatLess) /\ x \in Nat /\ y \in Nat
      BY <1>1
    <2> QED BY <2>1 DEF NatLess
  <1> QED BY <1>2 DEF Min

(* The lesser of two.                                                      *)
LEMMA LesserOfTwo ==
  ASSUME NEW a \in Nat, NEW b \in Nat
  PROVE  Min({a, b}) = IF a <= b THEN a ELSE b
PROOF
  <1>1. Min({a, b}) \in {a, b} /\ \A x \in {a, b} : Min({a, b}) <= x
    BY LeastIsThere
  <1> QED BY <1>1

(* Where a range starts and ends in a file of n lines.                     *)
LEMMA RangeIsBounded ==
  ASSUME NEW n \in Nat, NEW s \in Nat, NEW e \in Nat
  PROVE  /\ Start(s, n) = IF s = 0 THEN 0 ELSE IF s - 1 <= n THEN s - 1 ELSE n
         /\ End(e, n) = IF e <= n THEN e ELSE n
         /\ Start(s, n) \in 0 .. n /\ End(e, n) \in 0 .. n
PROOF
  <1> DEFINE a == IF s = 0 THEN 0 ELSE s - 1
  <1>1. a \in Nat
    OBVIOUS
  <1>2. Start(s, n) = IF a <= n THEN a ELSE n
    <2>1. Start(s, n) = Min({a, n})
      BY DEF Start
    <2> HIDE DEF a
    <2> QED BY <1>1, <2>1, LesserOfTwo
  <1>3. End(e, n) = IF e <= n THEN e ELSE n
    BY LesserOfTwo DEF End
  <1> QED BY <1>2, <1>3

-----------------------------------------------------------------------------
(* What is computed is a text.                                             *)

(* Lines are texts without a break.                                        *)
LEMMA WordsAreTexts == Seq(Words) \subseteq Texts /\ Seq(Seq(Words)) \subseteq Seq(Texts)
PROOF
  <1>1. Seq(Words) \subseteq Texts
    BY DEF Texts
  <1>2. ASSUME NEW s \in Seq(Seq(Words)) PROVE s \in Seq(Texts)
    <2>1. Len(s) \in Nat /\ s \in [1 .. Len(s) -> Seq(Words)]
      OBVIOUS
    <2>2. s \in [1 .. Len(s) -> Texts]
      BY <1>1, <2>1
    <2> QED BY <2>1, <2>2
  <1> QED BY <1>1, <1>2

(* What joining, replacing, editing and splicing return are texts.         *)
LEMMA JoinedIsText ==
  ASSUME NEW ls \in Seq(Texts)
  PROVE  Joined(ls) \in Texts
PROOF
  <1>1. <<>> \in Texts
    BY DEF Texts
  <1> QED BY <1>1, JoinedOneMore

(* Of replacing.                                                           *)
LEMMA ReplacedIsText ==
  ASSUME NEW t \in Texts, NEW w, NEW new \in Texts
  PROVE  Replaced(t, w, new) \in Texts
PROOF
  <1>1. NL \in Words \cup {NL}
    OBVIOUS
  <1> QED BY <1>1, ReplacedOneMore

(* The first of the places where the text is.                              *)
LEMMA FirstPlace ==
  ASSUME NEW t \in Texts, NEW old \in Texts, Occurs(old, t)
  PROVE  /\ Min(PlacesOf(old, t)) \in 1 .. Len(t) + 1 - Len(old)
         /\ Min(PlacesOf(old, t)) \in PlacesOf(old, t)
         /\ \A i \in PlacesOf(old, t) : Min(PlacesOf(old, t)) <= i
PROOF
  <1>1. PlacesOf(old, t) \subseteq 1 .. Len(t) + 1 - Len(old) /\ PlacesOf(old, t) # {}
    BY DEF PlacesOf, Occurs
  <1>2. PlacesOf(old, t) \subseteq Nat
    BY <1>1 DEF Texts
  <1> QED BY <1>1, <1>2, LeastIsThere

(* Of editing.                                                             *)
LEMMA EditedIsText ==
  ASSUME NEW t \in Texts, NEW old \in Texts, NEW new \in Texts, EditFirst(t, old, new).ok
  PROVE  EditFirst(t, old, new).text \in Texts
PROOF
  <1> DEFINE i == Min(PlacesOf(old, t))
  <1>1. Occurs(old, t)
    BY DEF EditFirst, Failure
  <1>2. EditFirst(t, old, new).text = SubSeq(t, 1, i - 1) \o new \o SubSeq(t, i + Len(old), Len(t))
    BY <1>1 DEF EditFirst, Computed
  <1>3. i \in 1 .. Len(t) + 1 - Len(old)
    BY <1>1, FirstPlace
  <1> HIDE DEF i
  <1>4. SubSeq(t, 1, i - 1) \in Texts /\ SubSeq(t, i + Len(old), Len(t)) \in Texts
    <2>1. Len(t) \in Nat /\ Len(old) \in Nat /\ t \in Seq(Words \cup {NL})
      BY DEF Texts
    <2>2. \A m, n \in Int : 1 <= m /\ n <= Len(t) => SubSeq(t, m, n) \in Seq(Words \cup {NL})
      BY <2>1
    <2> QED BY <1>3, <2>1, <2>2 DEF Texts
  <1>5. \A a, b \in Texts : a \o b \in Texts
    BY DEF Texts
  <1> QED BY <1>2, <1>4, <1>5

(* Of splicing.                                                            *)
LEMMA SplicedIsText ==
  ASSUME NEW t \in Texts, NEW s \in Nat, NEW e \in Nat, NEW new \in Texts,
         ReplaceLines(t, s, e, new).ok
  PROVE  ReplaceLines(t, s, e, new).text \in Texts
PROOF
  <1> DEFINE ls == Lines(t)
             from == Start(s, Len(ls))
             to == End(e, Len(ls))
             us == SubSeq(ls, 1, from) \o Lines(new) \o SubSeq(ls, to + 1, Len(ls))
  <1>1. ls \in Seq(Seq(Words)) /\ Lines(new) \in Seq(Seq(Words))
    BY LinesAreWords
  <1>2. ReplaceLines(t, s, e, new).text = Joined(us)
    BY DEF ReplaceLines, Failure, Computed
  <1> HIDE DEF ls
  <1>3. from \in 0 .. Len(ls) /\ to \in 0 .. Len(ls) /\ Len(ls) \in Nat
    <2>1. Len(ls) \in Nat
      BY <1>1
    <2> QED BY <2>1, RangeIsBounded
  <1> HIDE DEF from, to
  <1>4. us \in Seq(Seq(Words))
    <2>1. SubSeq(ls, 1, from) \in Seq(Seq(Words))
      BY <1>1, <1>3
    <2>2. SubSeq(ls, to + 1, Len(ls)) \in Seq(Seq(Words))
      BY <1>1, <1>3
    <2> QED BY <1>1, <2>1, <2>2
  <1> HIDE DEF us
  <1> QED BY <1>2, <1>4, WordsAreTexts, JoinedIsText

(* A call that has to change a file has computed a text for it.            *)
LEMMA TransformedIsText ==
  ASSUME NEW in \in Inputs, IsValid(in), in.tool \in {"edit", "replace"}, NEW t \in Text,
         Transformed(in, t).ok
  PROVE  Transformed(in, t).text \in Texts
PROOF
  <1>1. t # Absent /\ t \in Texts
    BY DEF Transformed, Failure, Text
  <1>2. CASE in.tool = "edit"
    <2>1. in.old \in Texts /\ in.new \in Texts
      BY <1>2 DEF Inputs, Text, IsValid, IsReadCall, IsWriteCall, IsEditCall, IsReplaceCall,
                  IsBashCall, IsGrepCall, IsGlobCall, IsListCall
    <2>2. Transformed(in, t) = EditFirst(t, in.old, in.new)
      BY <1>1, <1>2 DEF Transformed
    <2> QED BY <1>1, <2>1, <2>2, EditedIsText
  <1>3. CASE in.tool = "replace"
    <2>1. /\ in.new \in Texts
          /\ in.regex = Absent => in.start \in Nat /\ in.end \in Nat
      BY <1>3 DEF Inputs, Text, Number, IsValid, IsReadCall, IsWriteCall, IsEditCall,
                  IsReplaceCall, IsBashCall, IsGrepCall, IsGlobCall, IsListCall
    <2>2. CASE in.regex # Absent
      <3>1. Transformed(in, t) = ReplaceRegex(t, in.regex, in.new)
        BY <1>1, <1>3, <2>2 DEF Transformed
      <3>2. Transformed(in, t) = Computed(Replaced(t, in.regex, in.new))
        BY <3>1 DEF ReplaceRegex, Failure
      <3>3. Transformed(in, t).text = Replaced(t, in.regex, in.new)
        BY <3>2 DEF Computed
      <3> QED BY <1>1, <2>1, <3>3, ReplacedIsText
    <2>3. CASE in.regex = Absent
      <3>1. Transformed(in, t) = ReplaceLines(t, in.start, in.end, in.new)
        BY <1>1, <1>3, <2>3 DEF Transformed
      <3> QED BY <1>1, <2>1, <2>3, <3>1, SplicedIsText
    <2> QED BY <2>2, <2>3
  <1> QED BY <1>2, <1>3

-----------------------------------------------------------------------------
(* What the properties rest on: calls and files are of their types ...     *)
Phases == {"idle", "begun", "write", "fill", "done"}

ToolsCore ==
  /\ plan \in Plans /\ alive \in BOOLEAN /\ stale \subseteq plan.calls
  /\ disk \in [PathSet -> Text]
  /\ phase \in [plan.calls -> Phases]
  /\ input \in [plan.calls -> plan.inputs]
  /\ at \in [plan.calls -> 1 .. Len(Paths) + 1]
  /\ alone \in [plan.calls -> BOOLEAN]
  /\ before \in [plan.calls -> [PathSet -> Text]]
  /\ writers \in [PathSet -> Seq(plan.calls)]
  /\ DOMAIN out = plan.calls /\ DOMAIN held = plan.calls
  /\ \A c \in plan.calls : (phase[c] = "done") = (out[c].kind \in {"ok", "error"})
  /\ \A c \in Running : IsValid(input[c])

(* ... a call that is alone has no other beside it; a text to be written   *)
(* is one; a file that was emptied is there, and empty but for calls that  *)
(* overlap; what changed a file has its text; and every file is whole.     *)
AloneIsAlone == \A c \in Running : alone[c] => Running = {c}

Writing == {c \in DOMAIN phase : phase[c] \in {"write", "fill"}}
Filling == {c \in DOMAIN phase : phase[c] = "fill"}

TextsAreHeld == \A c \in Writing : held[c] \in Texts /\ input[c].tool \in Mutators

EmptiedIsThere ==
  \A c \in Filling : /\ disk[input[c].path] \in Texts
                     /\ alone[c] => disk[input[c].path] = <<>>
                     /\ writers[input[c].path] # <<>>

HasWritten(c, p) ==
  phase[c] \in {"fill", "done"} /\ held[c] \in Texts /\ input[c].path = p

WritersHold ==
  \A p \in PathSet : \A k \in DOMAIN writers[p] : HasWritten(writers[p][k], p)

AllWhole == \A p \in PathSet : IsWhole(p)

WholeInv ==
  /\ ToolsCore /\ AloneIsAlone /\ TextsAreHeld /\ EmptiedIsThere
  /\ WritersHold /\ AllWhole

(* The calls are those of the plan, with inputs and phases of their types. *)
LEMMA CallsOfThePlan ==
  ASSUME ToolsCore
  PROVE  /\ DOMAIN phase = plan.calls /\ DOMAIN alone = plan.calls
         /\ \A c \in plan.calls : /\ input[c] \in Inputs
                                  /\ phase[c] \in Phases /\ alone[c] \in BOOLEAN
         /\ plan.texts \subseteq Text /\ plan.calls # {}
         /\ \A c \in plan.calls : c \in Running <=> phase[c] \in {"begun", "write", "fill"}
         /\ Filling \subseteq Running /\ Filling \subseteq Writing
         /\ \A p \in PathSet : writers[p] \in Seq(plan.calls)
PROOF
  <1>0. \A p \in PathSet : writers[p] \in Seq(plan.calls)
    BY DEF ToolsCore
  <1>1. \A c \in plan.calls : phase[c] \in Phases /\ alone[c] \in BOOLEAN
    BY DEF ToolsCore
  <1>2. DOMAIN phase = plan.calls /\ DOMAIN alone = plan.calls
    BY DEF ToolsCore
  <1>3. \A c \in plan.calls : input[c] \in Inputs
    BY FileAssumption DEF ToolsCore
  <1>4. plan.texts \subseteq Text /\ plan.calls # {}
    BY FileAssumption DEF ToolsCore
  <1> QED BY <1>0, <1>1, <1>2, <1>3, <1>4 DEF Running, Filling, Writing, Phases

(* A file no step has touched is whole as before, as long as the calls     *)
(* that changed it are left alone.                                         *)
LEMMA WholeAsBefore ==
  ASSUME WholeInv, NEW p \in PathSet, disk'[p] = disk[p], writers'[p] = writers[p],
         DOMAIN phase' = DOMAIN phase,
         \A d \in DOMAIN phase : before'[d][p] \in {before[d][p], disk[p]},
         \A k \in DOMAIN writers[p] :
           LET d == writers[p][k] IN
           held'[d] = held[d] /\ out'[d] = out[d] /\ (alone'[d] => alone[d])
  PROVE  IsWhole(p)'
PROOF
  <1>1. IsWhole(p) /\ writers[p] \in Seq(plan.calls)
    BY CallsOfThePlan DEF WholeInv, AllWhole
  <1> DEFINE ws == writers[p]
             c == ws[Len(ws)]
  <1>2. CASE ws = <<>>
    BY <1>1, <1>2 DEF IsWhole
  <1>3. CASE ws # <<>>
    <2>1. Len(ws) \in DOMAIN ws
      BY <1>1, <1>3
    <2>2. held'[c] = held[c] /\ out'[c] = out[c] /\ (alone'[c] => alone[c])
      BY <2>1
    <2>3. \A k \in DOMAIN ws : held'[ws[k]] = held[ws[k]]
      OBVIOUS
    <2> QED BY <1>1, <1>3, <2>2, <2>3 DEF IsWhole
  <1> QED BY <1>2, <1>3

(* What a call of a tool that changes files has in its input.              *)
LEMMA ChangesAPath ==
  ASSUME NEW in \in Inputs, IsValid(in), in.tool \in Mutators \cup {"bash"}
  PROVE  in.path \in PathSet
  BY DEF Inputs, Path, Mutators, IsValid, IsReadCall, IsWriteCall, IsEditCall, IsReplaceCall,
         IsBashCall, IsGrepCall, IsGlobCall, IsListCall

(* Steps of a running call that leave the disk alone.                      *)
LEMMA DiskIsLeft ==
  ASSUME WholeInv, NEW c \in plan.calls, phase[c] \in {"begun", "write"},
         UNCHANGED <<plan, disk, input, stale, alive, before, alone, writers>>,
         at' \in [plan.calls -> 1 .. Len(Paths) + 1],
         phase' \in [plan.calls -> Phases], phase'[c] \notin {"idle", "fill"},
         DOMAIN out' = plan.calls, DOMAIN held' = plan.calls,
         \A d \in plan.calls \ {c} :
           phase'[d] = phase[d] /\ held'[d] = held[d] /\ out'[d] = out[d],
         (phase'[c] = "done") = (out'[c].kind \in {"ok", "error"}),
         phase'[c] = "write" => held'[c] \in Texts /\ input[c].tool \in Mutators
  PROVE  WholeInv'
PROOF
  <1>1. ToolsCore /\ AloneIsAlone /\ TextsAreHeld /\ EmptiedIsThere /\ WritersHold
    BY DEF WholeInv
  <1>2. /\ DOMAIN phase = plan.calls /\ DOMAIN phase' = plan.calls
        /\ Running' \subseteq Running /\ c \in Running /\ c \notin Filling
        /\ Filling' = Filling /\ Writing' \subseteq Writing \cup {c}
        /\ out[c].kind \notin {"ok", "error"}
    <2>1. DOMAIN phase = plan.calls /\ DOMAIN phase' = plan.calls
      BY <1>1 DEF ToolsCore
    <2>2. \A d \in plan.calls : d \in Running' => d \in Running
      BY <2>1 DEF Running
    <2>3. \A d \in plan.calls : d \in Filling' <=> d \in Filling
      BY <2>1 DEF Filling
    <2>4. \A d \in plan.calls : d \in Writing' => d \in Writing \/ d = c
      BY <2>1 DEF Writing
    <2>5. out[c].kind \notin {"ok", "error"}
      BY <1>1 DEF ToolsCore
    <2>6. Filling \subseteq plan.calls /\ Filling' \subseteq plan.calls
          /\ Writing' \subseteq plan.calls /\ Running' \subseteq plan.calls
          /\ c \in Running /\ c \notin Filling
      BY <2>1 DEF Filling, Writing, Running
    <2> QED BY <2>1, <2>2, <2>3, <2>4, <2>5, <2>6
  <1>3. ToolsCore'
    <2>1. \A d \in plan.calls : (phase'[d] = "done") = (out'[d].kind \in {"ok", "error"})
      BY <1>1 DEF ToolsCore
    <2>2. \A d \in Running' : IsValid(input[d])
      BY <1>1, <1>2 DEF ToolsCore
    <2> QED BY <1>1, <2>1, <2>2 DEF ToolsCore, IsValid, IsReadCall, IsWriteCall, IsEditCall,
               IsReplaceCall, IsBashCall, IsGrepCall, IsGlobCall, IsListCall
  <1>4. AloneIsAlone'
    <2> SUFFICES ASSUME NEW d \in Running', alone[d] PROVE Running' = {d}
      BY DEF AloneIsAlone
    <2>1. Running = {d}
      BY <1>1, <1>2 DEF AloneIsAlone
    <2> QED BY <1>2, <2>1
  <1>5. TextsAreHeld'
    <2>1. \A d \in Writing' : held'[d] \in Texts /\ input[d].tool \in Mutators
      <3> TAKE d \in Writing'
      <3>1. CASE d = c
        <4>1. phase'[c] = "write"
          BY <3>1 DEF Writing
        <4> QED BY <3>1, <4>1
      <3>2. CASE d # c
        <4>1. d \in Writing /\ d \in plan.calls
          BY <1>2, <3>2 DEF Writing
        <4> QED BY <1>1, <3>2, <4>1 DEF TextsAreHeld
      <3> QED BY <3>1, <3>2
    <2> QED BY <2>1 DEF TextsAreHeld
  <1>6. EmptiedIsThere'
    BY <1>1, <1>2 DEF EmptiedIsThere
  <1>7. ASSUME NEW p \in PathSet, NEW k \in DOMAIN writers[p]
        PROVE  LET d == writers[p][k] IN
               HasWritten(d, p) /\ HasWritten(d, p)' /\ held'[d] = held[d] /\ out'[d] = out[d]
    <2>1. HasWritten(writers[p][k], p) /\ writers[p][k] \in plan.calls
      BY <1>1, CallsOfThePlan DEF WritersHold
    <2>2. writers[p][k] # c
      BY <2>1 DEF HasWritten
    <2> QED BY <2>1, <2>2 DEF HasWritten
  <1>8. WritersHold'
    BY <1>7 DEF WritersHold
  <1>9. AllWhole'
    BY <1>2, <1>7, WholeAsBefore DEF AllWhole
  <1> QED BY <1>3, <1>4, <1>5, <1>6, <1>8, <1>9 DEF WholeInv

(* A call begins, or is refused.                                           *)
LEMMA CallStep ==
  ASSUME WholeInv, NEW c \in plan.calls, Call(c)
  PROVE  WholeInv'
PROOF
  <1>1. ToolsCore /\ AloneIsAlone /\ TextsAreHeld /\ EmptiedIsThere /\ WritersHold
    BY DEF WholeInv
  <1>2. /\ phase[c] = "idle" /\ UNCHANGED <<plan, disk, input, held, at, stale, alive, writers>>
        /\ before' = [before EXCEPT ![c] = disk]
        /\ DOMAIN phase = plan.calls /\ DOMAIN alone = plan.calls
        /\ out[c].kind \notin {"ok", "error"}
    BY <1>1 DEF Call, ChangesNothing, ToolsCore
  <1>3. alone' = [d \in plan.calls |->
                    IF d \in Running \cup {c} THEN alone[d] /\ Running = {} ELSE alone[d]]
    BY <1>2 DEF Call
  <1>4. \/ /\ IsValid(input[c]) /\ phase' = [phase EXCEPT ![c] = "begun"] /\ UNCHANGED out
        \/ /\ phase' = [phase EXCEPT ![c] = "done"]
           /\ out' = [out EXCEPT ![c] = [kind |-> "error", text |-> <<>>]]
    BY DEF Call, Told
  <1>5. /\ DOMAIN phase' = plan.calls /\ phase' \in [plan.calls -> Phases]
        /\ \A d \in plan.calls \ {c} : phase'[d] = phase[d]
        /\ phase'[c] \in {"begun", "done"}
    BY <1>1, <1>2, <1>4 DEF ToolsCore, Phases
  <1>6. /\ Running' \subseteq Running \cup {c} /\ Filling' = Filling /\ Writing' = Writing
    <2>1. \A d \in plan.calls : d \in Running' => d \in Running \cup {c}
      BY <1>2, <1>5 DEF Running
    <2>2. \A d : d \in Filling' <=> d \in Filling
      BY <1>2, <1>5 DEF Filling
    <2>3. \A d : d \in Writing' <=> d \in Writing
      BY <1>2, <1>5 DEF Writing
    <2>4. Running' \subseteq plan.calls
      BY <1>5 DEF Running
    <2> QED BY <2>1, <2>2, <2>3, <2>4
  <1>7. /\ DOMAIN out' = plan.calls /\ \A d \in plan.calls \ {c} : out'[d] = out[d]
        /\ out'[c].kind # "ok"
        /\ (phase'[c] = "done") = (out'[c].kind \in {"ok", "error"})
    BY <1>1, <1>2, <1>4 DEF ToolsCore
  <1>8. ToolsCore'
    <2>1. \A d \in plan.calls : (phase'[d] = "done") = (out'[d].kind \in {"ok", "error"})
      <3>1. \A d \in plan.calls : (phase[d] = "done") = (out[d].kind \in {"ok", "error"})
        BY <1>1 DEF ToolsCore
      <3> TAKE d \in plan.calls
      <3>2. CASE d = c
        BY <1>7, <3>2
      <3>3. CASE d # c
        <4>1. phase'[d] = phase[d] /\ out'[d] = out[d]
          BY <1>5, <1>7, <3>3
        <4> QED BY <3>1, <4>1
      <3> QED BY <3>2, <3>3
    <2>2. \A d \in Running' : IsValid(input[d])
      <3> TAKE d \in Running'
      <3>1. CASE d = c
        <4>1. phase'[c] = "begun"
          BY <1>5, <3>1 DEF Running
        <4> QED BY <1>1, <1>2, <1>4, <3>1, <4>1 DEF ToolsCore
      <3>2. CASE d # c
        BY <1>1, <1>6, <3>2 DEF ToolsCore
      <3> QED BY <3>1, <3>2
    <2>3. alone' \in [plan.calls -> BOOLEAN]
      <3>1. \A d \in plan.calls : alone[d] \in BOOLEAN
        BY <1>1 DEF ToolsCore
      <3> QED BY <1>3, <3>1
    <2>4. before' \in [plan.calls -> [PathSet -> Text]]
      BY <1>1, <1>2 DEF ToolsCore
    <2>5. \A d \in Running' : IsValid(input[d])'
      BY <1>2, <2>2 DEF IsValid, IsReadCall, IsWriteCall, IsEditCall,
               IsReplaceCall, IsBashCall, IsGrepCall, IsGlobCall, IsListCall
    <2> QED BY <1>1, <1>2, <1>5, <1>7, <2>1, <2>3, <2>4, <2>5 DEF ToolsCore
  <1>9. \A d \in plan.calls : alone'[d] => alone[d]
    BY <1>1, <1>3 DEF ToolsCore
  <1>10. AloneIsAlone'
    <2> SUFFICES ASSUME NEW d \in Running', alone'[d] PROVE Running' = {d}
      BY DEF AloneIsAlone
    <2>1. d \in Running \cup {c} /\ d \in plan.calls
      BY <1>5, <1>6 DEF Running
    <2>2. Running = {}
      BY <1>3, <2>1
    <2> QED BY <1>6, <2>1, <2>2
  <1>11. TextsAreHeld'
    BY <1>1, <1>2, <1>6 DEF TextsAreHeld
  <1>12. EmptiedIsThere'
    <2>1. \A d \in Filling : d \in plan.calls
      BY <1>2 DEF Filling
    <2> QED BY <1>1, <1>2, <1>6, <1>9, <2>1 DEF EmptiedIsThere
  <1>13. ASSUME NEW p \in PathSet, NEW k \in DOMAIN writers[p]
         PROVE  LET d == writers[p][k] IN
                /\ HasWritten(d, p)' /\ held'[d] = held[d] /\ out'[d] = out[d]
                /\ alone'[d] => alone[d]
    <2>1. HasWritten(writers[p][k], p) /\ writers[p][k] \in plan.calls
      BY <1>1, CallsOfThePlan DEF WritersHold
    <2>2. writers[p][k] # c
      BY <1>2, <2>1 DEF HasWritten
    <2> QED BY <1>2, <1>5, <1>7, <1>9, <2>1, <2>2 DEF HasWritten
  <1>14. WritersHold'
    BY <1>2, <1>13 DEF WritersHold
  <1>15. AllWhole'
    <2>1. \A p \in PathSet, d \in plan.calls : before'[d][p] \in {before[d][p], disk[p]}
      BY <1>1, <1>2 DEF ToolsCore
    <2> QED BY <1>2, <1>5, <1>13, <2>1, WholeAsBefore DEF AllWhole
  <1> QED BY <1>8, <1>10, <1>11, <1>12, <1>14, <1>15 DEF WholeInv

(* Nothing happens to calls and files: a run is cancelled, the process     *)
(* ends, or nothing happens at all.                                        *)
LEMMA CallsAreLeft ==
  ASSUME WholeInv,
         UNCHANGED <<plan, disk, phase, input, held, at, out, before, alone, writers>>,
         stale' \subseteq plan.calls, alive' \in BOOLEAN
  PROVE  WholeInv'
PROOF
  <1>1. Running' = Running /\ Filling' = Filling /\ Writing' = Writing
    BY DEF Running, Filling, Writing
  <1>2. ToolsCore'
    BY <1>1 DEF WholeInv, ToolsCore, IsValid, IsReadCall, IsWriteCall, IsEditCall,
                IsReplaceCall, IsBashCall, IsGrepCall, IsGlobCall, IsListCall
  <1>3. AloneIsAlone' /\ TextsAreHeld' /\ EmptiedIsThere'
    BY <1>1 DEF WholeInv, AloneIsAlone, TextsAreHeld, EmptiedIsThere
  <1>4. WritersHold' /\ AllWhole'
    BY DEF WholeInv, WritersHold, HasWritten, AllWhole, IsWhole
  <1> QED BY <1>2, <1>3, <1>4 DEF WholeInv

(* The tools' steps that leave the disk alone.                             *)
LEMMA ReadingSteps ==
  ASSUME WholeInv, NEW c \in plan.calls,
         ReadFile(c) \/ WriteFile(c) \/ GrepFile(c) \/ GrepEnds(c) \/ ListFiles(c)
  PROVE  WholeInv'
PROOF
  <1>1. ToolsCore
    BY DEF WholeInv
  <1>2. /\ phase[c] = "begun"
        /\ UNCHANGED <<plan, disk, input, stale, alive, before, alone, writers>>
        /\ c \in Running /\ input[c] \in Inputs /\ IsValid(input[c])
        /\ phase \in [plan.calls -> Phases] /\ at \in [plan.calls -> 1 .. Len(Paths) + 1]
        /\ DOMAIN out = plan.calls /\ DOMAIN held = plan.calls
        /\ out[c].kind \notin {"ok", "error"}
    <2>1. /\ phase[c] = "begun"
          /\ UNCHANGED <<plan, disk, input, stale, alive, before, alone, writers>>
      BY DEF ReadFile, WriteFile, GrepFile, GrepEnds, ListFiles, At, ChangesNothing
    <2>2. c \in Running /\ input[c] \in Inputs
      BY <1>1, <2>1, CallsOfThePlan
    <2>3. IsValid(input[c])
      BY <1>1, <2>2 DEF ToolsCore
    <2>4. phase \in [plan.calls -> Phases] /\ at \in [plan.calls -> 1 .. Len(Paths) + 1]
          /\ DOMAIN out = plan.calls /\ DOMAIN held = plan.calls
      BY <1>1 DEF ToolsCore
    <2>5. out[c].kind \notin {"ok", "error"}
      BY <1>1, <2>1 DEF ToolsCore
    <2> QED BY <2>1, <2>2, <2>3, <2>4, <2>5
  <1> DEFINE Goal == /\ at' \in [plan.calls -> 1 .. Len(Paths) + 1]
                     /\ phase' \in [plan.calls -> Phases] /\ phase'[c] \notin {"idle", "fill"}
                     /\ DOMAIN out' = plan.calls /\ DOMAIN held' = plan.calls
                     /\ \A d \in plan.calls \ {c} :
                          phase'[d] = phase[d] /\ held'[d] = held[d] /\ out'[d] = out[d]
                     /\ (phase'[c] = "done") = (out'[c].kind \in {"ok", "error"})
                     /\ phase'[c] = "write" => held'[c] \in Texts /\ input[c].tool \in Mutators
  <1>3. ASSUME ReadFile(c) PROVE Goal
    <2> DEFINE made == Transformed(input[c], disk[input[c].path])
    <2>1. input[c].tool \in {"read", "edit", "replace"} /\ at' = at
      BY <1>3 DEF ReadFile, At
    <2>2. \/ /\ made.ok /\ input[c].tool # "read" /\ held' = [held EXCEPT ![c] = made.text]
             /\ phase' = [phase EXCEPT ![c] = "write"] /\ out' = out
          \/ /\ ~(made.ok /\ input[c].tool # "read") /\ held' = held
             /\ phase' = [phase EXCEPT ![c] = "done"]
             /\ out' = [out EXCEPT ![c] = [kind |-> IF made.ok THEN "ok" ELSE "error",
                                           text |-> made.text]]
      BY <1>3 DEF ReadFile, Told
    <2>3. made.ok /\ input[c].tool # "read" => made.text \in Texts
      <3>1. SUFFICES ASSUME made.ok, input[c].tool \in {"edit", "replace"} PROVE made.text \in Texts
        BY <2>1
      <3>2. input[c].path \in PathSet
        BY <1>2, <3>1, ChangesAPath DEF Mutators
      <3>3. disk[input[c].path] \in Text
        BY <1>1, <3>2 DEF ToolsCore
      <3> QED BY <1>2, <3>1, <3>3, TransformedIsText
    <2> HIDE DEF made
    <2>4. CASE made.ok /\ input[c].tool # "read"
      <3>1. /\ held' = [held EXCEPT ![c] = made.text] /\ made.text \in Texts
            /\ phase' = [phase EXCEPT ![c] = "write"] /\ out' = out
        BY <2>2, <2>3, <2>4
      <3>2. input[c].tool \in Mutators
        BY <2>1, <2>4 DEF Mutators
      <3> QED BY <1>2, <2>1, <3>1, <3>2 DEF Phases
    <2>5. CASE ~(made.ok /\ input[c].tool # "read")
      <3>1. input[c].tool = "read" \/ ~made.ok
        BY <2>5
      <3>2. /\ phase' = [phase EXCEPT ![c] = "done"] /\ held' = held
            /\ out'[c].kind = (IF made.ok THEN "ok" ELSE "error")
            /\ DOMAIN out' = plan.calls /\ \A d \in plan.calls \ {c} : out'[d] = out[d]
        BY <1>2, <2>2, <2>5
      <3> QED BY <1>2, <2>1, <3>1, <3>2 DEF Phases, Mutators
    <2> QED BY <2>4, <2>5
  <1>4. ASSUME WriteFile(c) PROVE Goal
    <2>1. input[c].tool = "write" /\ at' = at
      BY <1>4 DEF WriteFile, At
    <2>2. input[c].new \in Texts
      BY <1>2, <2>1 DEF Inputs, Text, IsValid, IsReadCall, IsWriteCall, IsEditCall,
               IsReplaceCall, IsBashCall, IsGrepCall, IsGlobCall, IsListCall
    <2>3. CASE /\ out' = out /\ held' = [held EXCEPT ![c] = input[c].new]
               /\ phase' = [phase EXCEPT ![c] = "write"]
      BY <1>2, <2>1, <2>2, <2>3 DEF Phases, Mutators
    <2>4. CASE /\ held' = held /\ phase' = [phase EXCEPT ![c] = "done"]
               /\ out' = [out EXCEPT ![c] = [kind |-> "error", text |-> <<>>]]
      BY <1>2, <2>1, <2>4 DEF Phases
    <2> QED BY <1>4, <2>3, <2>4 DEF WriteFile, Told
  <1>5. ASSUME GrepFile(c) PROVE Goal
    <2>1. /\ input[c].tool = "grep" /\ out' = out /\ phase' = phase /\ at[c] <= Len(Paths)
          /\ \E x, b : held' = [held EXCEPT ![c] = x]
                       /\ at' = [at EXCEPT ![c] = IF b THEN Len(Paths) + 1 ELSE @ + 1]
      BY <1>5 DEF GrepFile, At
    <2>2. Len(Paths) \in Nat
      BY FileAssumption
    <2> QED BY <1>2, <2>1, <2>2 DEF Phases, Mutators
  <1>6. ASSUME GrepEnds(c) \/ ListFiles(c) PROVE Goal
    <2>1. input[c].tool \in {"grep", "list", "glob"} /\ at' = at /\ held' = held
      BY <1>6 DEF GrepEnds, ListFiles, At
    <2>2. /\ phase' = [phase EXCEPT ![c] = "done"]
          /\ \E b, t : out' = [out EXCEPT ![c] = [kind |-> IF b THEN "ok" ELSE "error",
                                                  text |-> t]]
      BY <1>6 DEF GrepEnds, ListFiles, Told
    <2>3. /\ DOMAIN out' = plan.calls /\ \A d \in plan.calls \ {c} : out'[d] = out[d]
          /\ out'[c].kind \in {"ok", "error"}
      BY <1>2, <2>2
    <2> QED BY <1>2, <2>1, <2>2, <2>3 DEF Phases, Mutators
  <1>7. Goal
    BY <1>3, <1>4, <1>5, <1>6
  <1> QED BY <1>2, <1>7, DiskIsLeft

(* A text is there, and begins with any part of it up to a place.          *)
LEMMA AbsentIsNoText == \A t \in Texts : t # Absent
  BY FileAssumption

LEMMA BeginsWith ==
  ASSUME NEW t \in Texts
  PROVE  /\ IsPrefix(<<>>, t) /\ IsPrefix(t, t)
         /\ \A k \in 0 .. Len(t) : SubSeq(t, 1, k) \in Texts /\ IsPrefix(SubSeq(t, 1, k), t)
         /\ \A r \in Texts : t \o r \in Texts /\ IsPrefix(t, t \o r)
PROOF
  <1> DEFINE T == Words \cup {NL}
  <1>1. t \in Seq(T)
    BY DEF Texts
  <1> HIDE DEF T
  <1>2. IsPrefix(<<>>, t) /\ IsPrefix(t, t)
    BY <1>1 DEF IsPrefix
  <1>3. ASSUME NEW k \in 0 .. Len(t)
        PROVE  SubSeq(t, 1, k) \in Seq(T) /\ IsPrefix(SubSeq(t, 1, k), t)
    BY <1>1, <1>3 DEF IsPrefix
  <1>4. ASSUME NEW r \in Seq(T) PROVE t \o r \in Seq(T) /\ IsPrefix(t, t \o r)
    <2>1. t \o r \in Seq(T) /\ Len(t \o r) = Len(t) + Len(r)
          /\ \A i \in 1 .. Len(t) : (t \o r)[i] = t[i]
      BY <1>1
    <2> HIDE DEF T
    <2>2. SubSeq(t \o r, 1, Len(t)) = t /\ SubSeq(t, 1, Len(t)) = t
      BY <1>1, <2>1
    <2> QED BY <1>1, <2>1, <2>2 DEF IsPrefix
  <1> QED BY <1>2, <1>3, <1>4 DEF Texts, T

(* A file is emptied, or cannot be opened.                                 *)
LEMMA TruncateStep ==
  ASSUME WholeInv, NEW c \in plan.calls, Truncate(c)
  PROVE  WholeInv'
PROOF
  <1> DEFINE f == input[c].path
  <1>1. ToolsCore /\ AloneIsAlone /\ TextsAreHeld /\ EmptiedIsThere /\ WritersHold
    BY DEF WholeInv
  <1>2. /\ phase[c] = "write" /\ input[c].tool \in Mutators
        /\ UNCHANGED <<plan, input, held, at, stale, alive, before, alone>>
    BY DEF Truncate, At
  <1>3. /\ c \in Running /\ DOMAIN phase = plan.calls /\ f \in PathSet
        /\ disk \in [PathSet -> Text] /\ phase \in [plan.calls -> Phases]
        /\ DOMAIN out = plan.calls /\ DOMAIN held = plan.calls
        /\ at \in [plan.calls -> 1 .. Len(Paths) + 1] /\ writers \in [PathSet -> Seq(plan.calls)]
        /\ held[c] \in Texts /\ out[c].kind \notin {"ok", "error"}
    <2>1. c \in Running /\ DOMAIN phase = plan.calls /\ input[c] \in Inputs
      BY <1>1, <1>2, CallsOfThePlan
    <2>2. IsValid(input[c])
      BY <1>1, <2>1 DEF ToolsCore
    <2>3. f \in PathSet
      BY <1>2, <2>1, <2>2, ChangesAPath
    <2>4. held[c] \in Texts
      BY <1>1, <1>2, <2>1 DEF TextsAreHeld, Writing
    <2> QED BY <1>1, <1>2, <2>1, <2>3, <2>4 DEF ToolsCore
  <1>a. CASE ChangesNothing /\ Told(c, FALSE, <<>>)
    <2>1. /\ phase' = [phase EXCEPT ![c] = "done"] /\ UNCHANGED <<disk, writers>>
          /\ out' = [out EXCEPT ![c] = [kind |-> "error", text |-> <<>>]]
      BY <1>a DEF ChangesNothing, Told
    <2>2. /\ phase' \in [plan.calls -> Phases] /\ phase'[c] = "done"
          /\ \A d \in plan.calls \ {c} : phase'[d] = phase[d] /\ out'[d] = out[d]
          /\ DOMAIN out' = plan.calls /\ out'[c].kind = "error"
      BY <1>3, <2>1 DEF Phases
    <2> QED BY <1>2, <1>3, <2>1, <2>2, DiskIsLeft
  <1>b. CASE Changes(c, <<>>) /\ phase' = [phase EXCEPT ![c] = "fill"] /\ UNCHANGED out
    <2>0. /\ disk' = [disk EXCEPT ![f] = <<>>]
          /\ writers' = [writers EXCEPT ![f] = Append(@, c)]
          /\ phase' = [phase EXCEPT ![c] = "fill"] /\ out' = out
      BY <1>b DEF Changes
    <2> HIDE DEF f
    <2>4. /\ DOMAIN phase' = plan.calls /\ phase'[c] = "fill"
          /\ \A d \in plan.calls \ {c} : phase'[d] = phase[d]
      BY <1>3, <2>0
    <2>5. Running' = Running /\ Writing' = Writing /\ Filling' = Filling \cup {c}
      <3>1. \A d : d \in Running' <=> d \in Running
        BY <1>2, <1>3, <2>4 DEF Running
      <3>2. \A d : d \in Writing' <=> d \in Writing
        BY <1>2, <1>3, <2>4 DEF Writing
      <3>3. \A d : d \in Filling' <=> d \in Filling \cup {c}
        BY <1>2, <1>3, <2>4 DEF Filling
      <3> QED BY <3>1, <3>2, <3>3
    <2>6. /\ disk'[f] = <<>> /\ <<>> \in Texts
          /\ \A p \in PathSet : p # f => disk'[p] = disk[p] /\ writers'[p] = writers[p]
          /\ writers[f] \in Seq(plan.calls) /\ writers'[f] = Append(writers[f], c)
          /\ writers' \in [PathSet -> Seq(plan.calls)]
      BY <1>3, <2>0 DEF Texts
    <2>a. writers'[f] # <<>>
      BY <2>6
    <2>7. ToolsCore'
      <3>1. disk' \in [PathSet -> Text]
        BY <1>3, <2>0, <2>6 DEF Text
      <3>2. phase' \in [plan.calls -> Phases]
        BY <1>3, <2>0 DEF Phases
      <3>3. \A d \in plan.calls : (phase'[d] = "done") = (out[d].kind \in {"ok", "error"})
        BY <1>1, <1>2, <2>4 DEF ToolsCore
      <3>4. \A d \in Running : IsValid(input[d])'
        BY <1>1, <1>2 DEF ToolsCore, IsValid, IsReadCall, IsWriteCall, IsEditCall,
                 IsReplaceCall, IsBashCall, IsGrepCall, IsGlobCall, IsListCall
      <3> QED BY <1>1, <1>2, <2>0, <2>5, <2>6, <3>1, <3>2, <3>3, <3>4 DEF ToolsCore
    <2>8. AloneIsAlone' /\ TextsAreHeld'
      BY <1>1, <1>2, <2>5 DEF AloneIsAlone, TextsAreHeld
    <2>9. EmptiedIsThere'
      <3> SUFFICES ASSUME NEW d \in Filling'
                   PROVE  /\ disk'[input[d].path] \in Texts
                          /\ alone[d] => disk'[input[d].path] = <<>>
                          /\ writers'[input[d].path] # <<>>
        BY <1>2 DEF EmptiedIsThere
      <3>1. CASE input[d].path = f
        BY <2>6, <2>a, <3>1
      <3>2. CASE input[d].path # f
        <4>1. d \in Filling /\ d \in plan.calls
          BY <1>3, <2>4, <2>5, <3>2 DEF f, Filling
        <4>2. input[d].path \in PathSet
          <5>1. input[d] \in Inputs /\ d \in Running /\ d \in Writing
            BY <1>1, <4>1, CallsOfThePlan
          <5>2. IsValid(input[d]) /\ input[d].tool \in Mutators
            BY <1>1, <5>1 DEF ToolsCore, TextsAreHeld
          <5> QED BY <5>1, <5>2, ChangesAPath
        <4> QED BY <1>1, <2>6, <3>2, <4>1, <4>2 DEF EmptiedIsThere
      <3> QED BY <3>1, <3>2
    <2>10. ASSUME NEW p \in PathSet, NEW k \in DOMAIN writers[p], NEW d, d = writers[p][k]
           PROVE  HasWritten(d, p)' /\ out'[d] = out[d]
      <3>1. HasWritten(d, p) /\ d \in plan.calls
        BY <1>1, <2>10, CallsOfThePlan DEF WritersHold
      <3> QED BY <1>2, <2>0, <2>4, <3>1 DEF HasWritten
    <2>11. \A p : p = f => HasWritten(c, p)'
      BY <1>2, <1>3, <2>4 DEF HasWritten, f
    <2>12. WritersHold'
      <3> SUFFICES ASSUME NEW p \in PathSet, NEW k \in DOMAIN writers'[p],
                          NEW d, d = writers'[p][k]
                   PROVE  HasWritten(d, p)'
        BY DEF WritersHold
      <3>1. CASE p # f
        BY <2>6, <2>10, <3>1
      <3>2. CASE p = f
        <4>1. \/ k \in DOMAIN writers[f] /\ writers'[f][k] = writers[f][k]
              \/ writers'[f][k] = c
          BY <2>6, <3>2
        <4> QED BY <1>3, <2>10, <2>11, <3>2, <4>1
      <3> QED BY <3>1, <3>2
    <2>13. AllWhole'
      <3> SUFFICES ASSUME NEW p \in PathSet PROVE IsWhole(p)'
        BY DEF AllWhole
      <3>1. CASE p # f
        <4>1. disk'[p] = disk[p] /\ writers'[p] = writers[p]
          BY <2>6, <3>1
        <4> QED BY <1>2, <1>3, <2>4, <2>10, <4>1, WholeAsBefore
      <3>2. CASE p = f
        <4>1. /\ writers'[p] # <<>> /\ writers'[p][Len(writers'[p])] = c
              /\ DOMAIN disk'[p] = {} /\ disk'[p] # Absent
          BY <2>6, <2>a, <3>2, AbsentIsNoText
        <4>2. IsPrefix(disk'[p], held[c]) /\ out'[c].kind # "ok"
          <5>1. IsPrefix(<<>>, held[c])
            BY <1>3, BeginsWith
          <5> QED BY <1>3, <2>0, <2>6, <3>2, <5>1
        <4> QED BY <1>2, <4>1, <4>2 DEF IsWhole
      <3> QED BY <3>1, <3>2
    <2> QED BY <2>7, <2>8, <2>9, <2>12, <2>13 DEF WholeInv
  <1> QED BY <1>a, <1>b DEF Truncate

(* A file is filled, as far as it goes, and its call answered: every place *)
(* is as the call has it in its text, or as it was.                        *)
IsFrom(x, text) == \A i \in DOMAIN x : i \in DOMAIN text /\ text[i] = x[i]

IsMixedOf(x, text, old) ==
  \A i \in DOMAIN x : \/ i \in DOMAIN text /\ text[i] = x[i]
                      \/ i \in DOMAIN old /\ old[i] = x[i]

LEMMA FileIsWritten ==
  ASSUME WholeInv, NEW c \in plan.calls, phase[c] \in {"begun", "fill"}, NEW x \in Texts,
         input[c].tool \in Mutators \cup {"bash"},
         UNCHANGED <<plan, input, at, stale, alive, before, alone>>, Changes(c, x),
         phase' = [phase EXCEPT ![c] = "done"],
         DOMAIN out' = plan.calls, out'[c].kind \in {"ok", "error"},
         DOMAIN held' = plan.calls, held'[c] \in Texts,
         \A d \in plan.calls \ {c} : out'[d] = out[d] /\ held'[d] = held[d],
         phase[c] = "fill" => held'[c] = held[c],
         out'[c].kind = "ok" => IsPrefix(held'[c], x),
         alone[c] => IsPrefix(x, held'[c]),
         \/ IsFrom(x, held'[c])
         \/ phase[c] = "fill" /\ IsMixedOf(x, held'[c], disk[input[c].path])
  PROVE  WholeInv'
PROOF
  <1> DEFINE f == input[c].path
  <1>1. /\ ToolsCore /\ AloneIsAlone /\ TextsAreHeld /\ EmptiedIsThere /\ WritersHold
        /\ AllWhole
    BY DEF WholeInv
  <1>2. /\ c \in Running /\ DOMAIN phase = plan.calls /\ f \in PathSet
        /\ disk \in [PathSet -> Text] /\ phase \in [plan.calls -> Phases]
        /\ writers \in [PathSet -> Seq(plan.calls)]
    <2>1. c \in Running /\ DOMAIN phase = plan.calls /\ input[c] \in Inputs
      BY <1>1, CallsOfThePlan
    <2>2. IsValid(input[c])
      BY <1>1, <2>1 DEF ToolsCore
    <2> QED BY <1>1, <2>1, <2>2, ChangesAPath DEF ToolsCore
  <1>a. phase[c] = "fill" => writers[f] # <<>>
    BY <1>1, <1>2 DEF EmptiedIsThere, Filling
  <1>b. disk' = [disk EXCEPT ![f] = x] /\ writers' = [writers EXCEPT ![f] = Append(@, c)]
    BY DEF Changes
  <1> HIDE DEF f
  <1>3. /\ disk'[f] = x /\ writers'[f] = Append(writers[f], c) /\ writers[f] \in Seq(plan.calls)
        /\ \A p \in PathSet : p # f => disk'[p] = disk[p] /\ writers'[p] = writers[p]
        /\ writers' \in [PathSet -> Seq(plan.calls)]
    BY <1>2, <1>b
  <1>4. /\ DOMAIN phase' = plan.calls /\ phase'[c] = "done"
        /\ \A d \in plan.calls \ {c} : phase'[d] = phase[d]
    BY <1>2
  <1>5. /\ Running' = Running \ {c} /\ Writing' = Writing \ {c} /\ Filling' = Filling \ {c}
    <2>1. \A d : d \in Running' <=> d \in Running \ {c}
      BY <1>2, <1>4 DEF Running
    <2>2. \A d : d \in Writing' <=> d \in Writing \ {c}
      BY <1>2, <1>4 DEF Writing
    <2>3. \A d : d \in Filling' <=> d \in Filling \ {c}
      BY <1>2, <1>4 DEF Filling
    <2> QED BY <2>1, <2>2, <2>3
  <1>6. ToolsCore'
    <2>1. disk' \in [PathSet -> Text]
      BY <1>2, <1>b DEF Text
    <2>2. phase' \in [plan.calls -> Phases]
      BY <1>2 DEF Phases
    <2>3. \A d \in plan.calls : (phase'[d] = "done") = (out'[d].kind \in {"ok", "error"})
      BY <1>1, <1>4 DEF ToolsCore
    <2>4. \A d \in Running' : IsValid(input[d])'
      BY <1>1, <1>5 DEF ToolsCore, IsValid, IsReadCall, IsWriteCall, IsEditCall,
               IsReplaceCall, IsBashCall, IsGrepCall, IsGlobCall, IsListCall
    <2> QED BY <1>1, <1>3, <2>1, <2>2, <2>3, <2>4 DEF ToolsCore
  <1>7. \A d \in Running : d # c => ~alone[d]
    BY <1>1, <1>2 DEF AloneIsAlone
  <1>8. AloneIsAlone'
    BY <1>5, <1>7 DEF AloneIsAlone
  <1>9. TextsAreHeld'
    <2>1. \A d \in Writing' : d \in Writing /\ d \in plan.calls \ {c}
      BY <1>2, <1>5 DEF Writing
    <2> QED BY <1>1, <2>1 DEF TextsAreHeld
  <1>10. EmptiedIsThere'
    <2> SUFFICES ASSUME NEW d \in Filling'
                 PROVE  /\ disk'[input[d].path] \in Texts /\ ~alone[d]
                        /\ writers'[input[d].path] # <<>>
      BY DEF EmptiedIsThere
    <2>1. d \in Filling /\ d # c /\ d \in plan.calls
      BY <1>2, <1>5 DEF Filling
    <2>2. input[d] \in Inputs /\ d \in Running /\ d \in Writing
      BY <1>1, <2>1, CallsOfThePlan
    <2>3. IsValid(input[d]) /\ input[d].tool \in Mutators
      BY <1>1, <2>2 DEF ToolsCore, TextsAreHeld
    <2>4. input[d].path \in PathSet
      BY <2>2, <2>3, ChangesAPath
    <2>5. disk[input[d].path] \in Texts /\ writers[input[d].path] # <<>>
      BY <1>1, <2>1 DEF EmptiedIsThere
    <2>6. disk'[input[d].path] \in Texts /\ writers'[input[d].path] # <<>>
      BY <1>3, <2>4, <2>5
    <2> QED BY <1>7, <2>1, <2>2, <2>6
  <1>11. ASSUME NEW p \in PathSet, NEW k \in DOMAIN writers[p], NEW d, d = writers[p][k]
         PROVE  /\ HasWritten(d, p)' /\ held'[d] = held[d]
                /\ d = c \/ out'[d] = out[d]
    <2>1. HasWritten(d, p) /\ d \in plan.calls
      BY <1>1, <1>11, CallsOfThePlan DEF WritersHold
    <2>2. CASE d = c
      <3>1. phase[c] = "fill"
        BY <2>1, <2>2 DEF HasWritten
      <3> QED BY <1>4, <2>1, <2>2, <3>1 DEF HasWritten
    <2>3. CASE d # c
      BY <1>4, <2>1, <2>3 DEF HasWritten
    <2> QED BY <2>2, <2>3
  <1>12. \A p : p = f => HasWritten(c, p)'
    BY <1>4 DEF HasWritten, f
  <1>13. WritersHold'
    <2> SUFFICES ASSUME NEW p \in PathSet, NEW k \in DOMAIN writers'[p],
                        NEW d, d = writers'[p][k]
                 PROVE  HasWritten(d, p)'
      BY DEF WritersHold
    <2>1. CASE p # f
      BY <1>3, <1>11, <2>1
    <2>2. CASE p = f
      <3>1. \/ k \in DOMAIN writers[f] /\ writers'[f][k] = writers[f][k]
            \/ writers'[f][k] = c
        BY <1>3, <2>2
      <3> QED BY <1>2, <1>11, <1>12, <2>2, <3>1
    <2> QED BY <2>1, <2>2
  <1>14. ASSUME NEW p \in PathSet, p = f PROVE IsWhole(p)'
    <2> DEFINE ws == writers[f]
               n == Len(ws)
    <2>1. /\ n \in Nat /\ DOMAIN ws = 1 .. n /\ DOMAIN writers'[f] = 1 .. n + 1
          /\ writers'[f][n + 1] = c /\ Len(writers'[f]) = n + 1
          /\ \A k \in 1 .. n : writers'[f][k] = ws[k]
          /\ writers'[f] # <<>>
      <3>1. ws \in Seq(plan.calls) /\ writers'[f] = Append(ws, c)
        BY <1>3
      <3> HIDE DEF ws
      <3> QED BY <3>1
    <2> HIDE DEF ws, n
    <2>2. ASSUME NEW i \in DOMAIN x
          PROVE  \E k \in DOMAIN writers'[f] :
                   i \in DOMAIN held'[writers'[f][k]] /\ held'[writers'[f][k]][i] = x[i]
      <3>1. CASE i \in DOMAIN held'[c] /\ held'[c][i] = x[i]
        <4>1. n + 1 \in DOMAIN writers'[f]
          BY <2>1
        <4> QED BY <2>1, <3>1, <4>1
      <3>2. CASE ~(i \in DOMAIN held'[c] /\ held'[c][i] = x[i])
        <4>1. phase[c] = "fill" /\ i \in DOMAIN disk[f] /\ disk[f][i] = x[i]
          BY <3>2 DEF IsFrom, IsMixedOf, f
        <4>2. ws # <<>> /\ IsWhole(f)
          BY <1>1, <1>2, <1>a, <4>1 DEF AllWhole, ws
        <4>3. PICK k \in DOMAIN ws : i \in DOMAIN held[ws[k]] /\ held[ws[k]][i] = disk[f][i]
          BY <4>1, <4>2 DEF IsWhole, ws
        <4>4. held'[ws[k]] = held[ws[k]]
          BY <1>2, <1>11 DEF ws
        <4>5. k \in DOMAIN writers'[f] /\ writers'[f][k] = ws[k]
          BY <2>1
        <4> QED BY <4>1, <4>3, <4>4, <4>5
      <3> QED BY <3>1, <3>2
    <2>3. x # Absent
      BY AbsentIsNoText
    <2> QED BY <1>3, <1>14, <2>1, <2>2, <2>3 DEF IsWhole
  <1>15. AllWhole'
    <2> SUFFICES ASSUME NEW p \in PathSet, p # f PROVE IsWhole(p)'
      BY <1>14 DEF AllWhole
    <2>1. disk'[p] = disk[p] /\ writers'[p] = writers[p]
      BY <1>3
    <2>2. \A k \in DOMAIN writers[p] : writers[p][k] # c
      BY <1>1 DEF WritersHold, HasWritten, f
    <2>3. \A k \in DOMAIN writers[p] :
            LET d == writers[p][k] IN held'[d] = held[d] /\ out'[d] = out[d]
      BY <1>11, <2>2
    <2> QED BY <1>2, <1>4, <2>1, <2>3, WholeAsBefore
  <1> QED BY <1>6, <1>8, <1>9, <1>10, <1>13, <1>15 DEF WholeInv

(* What is put over what was there: each place is of the one or the other. *)
LEMMA OverText ==
  ASSUME NEW t \in Texts, NEW old \in Texts
  PROVE  /\ Over(t, old) \in Texts /\ IsPrefix(t, Over(t, old))
         /\ old = <<>> => Over(t, old) = t
         /\ IsMixedOf(Over(t, old), t, old)
PROOF
  <1> DEFINE T == Words \cup {NL}
             rest == SubSeq(old, Len(t) + 1, Len(old))
  <1>1. t \in Seq(T) /\ old \in Seq(T)
    BY DEF Texts
  <1> HIDE DEF T
  <1>2. /\ rest \in Seq(T) /\ (old = <<>> => rest = <<>>)
        /\ \A i \in DOMAIN rest : Len(t) + i \in DOMAIN old /\ rest[i] = old[Len(t) + i]
    BY <1>1
  <1> HIDE DEF rest
  <1>3. /\ t \o rest \in Seq(T) /\ (rest = <<>> => t \o rest = t)
        /\ Len(t \o rest) = Len(t) + Len(rest)
        /\ \A i \in 1 .. Len(t) : (t \o rest)[i] = t[i]
        /\ \A i \in 1 .. Len(rest) : (t \o rest)[Len(t) + i] = rest[i]
    BY <1>1, <1>2
  <1>4. rest \in Texts
    BY <1>2 DEF Texts, T
  <1>5. IsMixedOf(t \o rest, t, old)
    <2> SUFFICES ASSUME NEW i \in 1 .. Len(t) + Len(rest)
                 PROVE  \/ i \in DOMAIN t /\ t[i] = (t \o rest)[i]
                        \/ i \in DOMAIN old /\ old[i] = (t \o rest)[i]
      BY <1>3 DEF IsMixedOf
    <2>1. CASE i <= Len(t)
      BY <1>1, <1>3, <2>1
    <2>2. CASE i > Len(t)
      <3>1. i - Len(t) \in 1 .. Len(rest) /\ i = Len(t) + (i - Len(t))
        BY <1>1, <1>2, <2>2
      <3>2. (t \o rest)[i] = rest[i - Len(t)]
        BY <1>3, <3>1
      <3>3. i - Len(t) \in DOMAIN rest
        BY <1>2, <3>1
      <3> QED BY <1>2, <3>1, <3>2, <3>3
    <2> QED BY <1>1, <2>1, <2>2
  <1>6. IsPrefix(t, t \o rest)
    BY <1>4, BeginsWith
  <1> QED BY <1>2, <1>3, <1>5, <1>6 DEF Over, rest, Texts, T

(* The steps in which a call is answered that has changed a file, or was   *)
(* to change it.                                                           *)
LEMMA FillStep ==
  ASSUME WholeInv, NEW c \in plan.calls, Fill(c)
  PROVE  WholeInv'
PROOF
  <1> DEFINE old == disk[input[c].path]
  <1>1. ToolsCore /\ TextsAreHeld /\ EmptiedIsThere
    BY DEF WholeInv
  <1>2. /\ DOMAIN out = plan.calls /\ DOMAIN held = plan.calls /\ DOMAIN phase = plan.calls
        /\ phase[c] = "fill" /\ input[c].tool \in Mutators
        /\ UNCHANGED <<plan, input, held, at, stale, alive, before, alone>>
    BY <1>1 DEF Fill, At, ToolsCore
  <1>3. c \in Filling /\ c \in Writing
    BY <1>2 DEF Filling, Writing
  <1>4. held[c] \in Texts /\ old \in Texts /\ (alone[c] => old = <<>>)
    BY <1>1, <1>3 DEF TextsAreHeld, EmptiedIsThere
  <1> HIDE DEF old
  <1>5. CASE Changes(c, Over(held[c], old)) /\ Told(c, TRUE, <<>>)
    <2> DEFINE x == Over(held[c], old)
    <2>1. /\ phase' = [phase EXCEPT ![c] = "done"]
          /\ out' = [out EXCEPT ![c] = [kind |-> "ok", text |-> <<>>]]
          /\ DOMAIN out' = plan.calls /\ out'[c].kind = "ok"
          /\ \A d \in plan.calls \ {c} : out'[d] = out[d]
      BY <1>2, <1>5 DEF Told
    <2>2. /\ x \in Texts /\ IsPrefix(held'[c], x) /\ (alone[c] => x = held'[c])
          /\ IsMixedOf(x, held'[c], disk[input[c].path])
      BY <1>2, <1>4, OverText DEF old
    <2>3. alone[c] => IsPrefix(x, held'[c])
      BY <1>2, <1>4, <2>2, BeginsWith
    <2> HIDE DEF x
    <2>4. Changes(c, x)
      BY <1>5 DEF x
    <2> QED BY <1>2, <1>4, <2>1, <2>2, <2>3, <2>4, FileIsWritten
  <1>6. ASSUME Told(c, FALSE, <<>>), NEW k \in 1 .. Len(held[c]),
               Changes(c, Over(SubSeq(held[c], 1, k - 1), old))
        PROVE  WholeInv'
    <2> DEFINE t == SubSeq(held[c], 1, k - 1)
               x == Over(t, old)
    <2>1. /\ phase' = [phase EXCEPT ![c] = "done"]
          /\ out' = [out EXCEPT ![c] = [kind |-> "error", text |-> <<>>]]
          /\ DOMAIN out' = plan.calls /\ out'[c].kind = "error"
          /\ \A d \in plan.calls \ {c} : out'[d] = out[d]
      BY <1>2, <1>6 DEF Told
    <2>2. t \in Texts /\ IsPrefix(t, held[c])
          /\ \A i \in DOMAIN t : i \in DOMAIN held[c] /\ held[c][i] = t[i]
      <3>1. held[c] \in Seq(Words \cup {NL})
        BY <1>4 DEF Texts
      <3>2. k - 1 \in 0 .. Len(held[c])
        BY <3>1
      <3> QED BY <1>4, <3>1, <3>2, BeginsWith
    <2>3. /\ x \in Texts /\ (alone[c] => x = t) /\ IsMixedOf(x, t, old)
      BY <1>4, <2>2, OverText
    <2>4. Changes(c, x)
      BY <1>6
    <2> HIDE DEF x, t
    <2>5. IsMixedOf(x, held'[c], disk[input[c].path])
      BY <1>2, <2>2, <2>3 DEF IsMixedOf, old
    <2>6. alone[c] => IsPrefix(x, held'[c])
      BY <1>2, <2>2, <2>3
    <2> QED BY <1>2, <1>4, <2>1, <2>3, <2>4, <2>5, <2>6, FileIsWritten
  <1> QED BY <1>5, <1>6 DEF Fill, old

LEMMA BashStep ==
  ASSUME WholeInv, NEW c \in plan.calls, RunBash(c)
  PROVE  WholeInv'
PROOF
  <1> DEFINE x == input[c].new
  <1>1. ToolsCore
    BY DEF WholeInv
  <1>2. /\ DOMAIN out = plan.calls /\ DOMAIN held = plan.calls
        /\ phase \in [plan.calls -> Phases] /\ at \in [plan.calls -> 1 .. Len(Paths) + 1]
        /\ phase[c] = "begun" /\ input[c].tool = "bash"
        /\ UNCHANGED <<plan, input, at, stale, alive, before, alone>>
    BY <1>1 DEF RunBash, At, ToolsCore
  <1>3. x \in Texts
    <2>1. input[c] \in Inputs /\ c \in Running
      BY <1>1, <1>2, CallsOfThePlan
    <2>2. IsValid(input[c])
      BY <1>1, <2>1 DEF ToolsCore
    <2> QED BY <1>2, <2>1, <2>2 DEF Inputs, Text, IsValid, IsReadCall, IsWriteCall,
               IsEditCall, IsReplaceCall, IsBashCall, IsGrepCall, IsGlobCall, IsListCall
  <1> HIDE DEF x
  <1>4. ASSUME NEW ok \in BOOLEAN, Told(c, ok, <<>>)
        PROVE  /\ phase' = [phase EXCEPT ![c] = "done"]
               /\ DOMAIN out' = plan.calls
               /\ out'[c].kind = IF ok THEN "ok" ELSE "error"
               /\ \A d \in plan.calls \ {c} : out'[d] = out[d]
    BY <1>2, <1>4 DEF Told
  <1>5. ASSUME NEW ok \in BOOLEAN, Told(c, ok, <<>>), Changes(c, x),
               held' = [held EXCEPT ![c] = x]
        PROVE  WholeInv'
    <2>1. /\ held'[c] = x /\ DOMAIN held' = plan.calls
          /\ \A d \in plan.calls \ {c} : held'[d] = held[d]
      BY <1>2, <1>5
    <2>2. IsPrefix(x, held'[c]) /\ IsPrefix(held'[c], x) /\ IsFrom(x, held'[c])
      BY <1>3, <2>1, BeginsWith DEF IsFrom
    <2>3. /\ phase' = [phase EXCEPT ![c] = "done"] /\ DOMAIN out' = plan.calls
          /\ out'[c].kind \in {"ok", "error"}
          /\ \A d \in plan.calls \ {c} : out'[d] = out[d]
      BY <1>4, <1>5
    <2> QED BY <1>2, <1>3, <1>5, <2>1, <2>2, <2>3, FileIsWritten
  <1>6. CASE ChangesNothing /\ Told(c, FALSE, <<>>) /\ UNCHANGED held
    <2>1. /\ phase' = [phase EXCEPT ![c] = "done"] /\ UNCHANGED <<disk, writers, held>>
          /\ DOMAIN out' = plan.calls /\ out'[c].kind = "error"
          /\ \A d \in plan.calls \ {c} : out'[d] = out[d]
      BY <1>4, <1>6 DEF ChangesNothing
    <2>2. /\ phase' \in [plan.calls -> Phases] /\ phase'[c] = "done"
          /\ \A d \in plan.calls \ {c} : phase'[d] = phase[d]
      BY <1>2, <2>1 DEF Phases
    <2> QED BY <1>2, <2>1, <2>2, DiskIsLeft
  <1> QED BY <1>5, <1>6 DEF RunBash, x

(* At first no call runs and every file holds what it held.                *)
LEMMA InitWhole == ToolsInit => WholeInv
PROOF
  <1> SUFFICES ASSUME ToolsInit PROVE WholeInv
    OBVIOUS
  <1> USE DEF ToolsInit
  <1>1. plan.texts \subseteq Text /\ plan.calls # {} /\ Len(Paths) \in Nat
    BY FileAssumption
  <1>2. disk \in [PathSet -> Text]
    BY <1>1
  <1>3. Running = {} /\ Filling = {} /\ Writing = {}
    BY DEF Running, Filling, Writing
  <1>4. ToolsCore
    BY <1>1, <1>2, <1>3 DEF ToolsCore, Phases
  <1>5. WritersHold /\ AllWhole
    <2>1. \A p \in PathSet : writers[p] = <<>> /\ \A d \in plan.calls : before[d][p] = disk[p]
      OBVIOUS
    <2>2. DOMAIN phase = plan.calls /\ DOMAIN <<>> = {}
      OBVIOUS
    <2> QED BY ONLY <2>1, <2>2 DEF WritersHold, AllWhole, IsWhole
  <1> QED BY <1>3, <1>4, <1>5 DEF WholeInv, AloneIsAlone, TextsAreHeld, EmptiedIsThere

(* Every step keeps files whole.                                           *)
LEMMA NextWhole == WholeInv /\ [ToolsNext]_toolVars => WholeInv'
PROOF
  <1> SUFFICES ASSUME WholeInv, [ToolsNext]_toolVars PROVE WholeInv'
    OBVIOUS
  <1>1. DOMAIN phase = plan.calls /\ stale \subseteq plan.calls /\ alive \in BOOLEAN
    BY DEF WholeInv, ToolsCore
  <1>2. ASSUME NEW c \in DOMAIN phase, Call(c) \/ Cancel(c) \/ Tool(c) PROVE WholeInv'
    <2>1. c \in plan.calls
      BY <1>1
    <2>2. CASE Call(c)
      BY <2>1, <2>2, CallStep
    <2>3. CASE Cancel(c)
      <3>1. /\ UNCHANGED <<plan, disk, phase, input, held, at, out, before, alone, writers>>
            /\ stale' \subseteq plan.calls /\ alive' \in BOOLEAN
        BY <1>1, <2>1, <2>3 DEF Cancel, ChangesNothing
      <3> QED BY <3>1, CallsAreLeft
    <2>4. CASE Tool(c)
      BY <2>1, <2>4, ReadingSteps, TruncateStep, FillStep, BashStep DEF Tool
    <2> QED BY <1>2, <2>2, <2>3, <2>4
  <1>3. CASE Kill
    <2>1. /\ UNCHANGED <<plan, disk, phase, input, held, at, out, before, alone, writers>>
          /\ stale' \subseteq plan.calls /\ alive' \in BOOLEAN
      BY <1>1, <1>3 DEF Kill, ChangesNothing
    <2> QED BY <2>1, CallsAreLeft
  <1>4. CASE UNCHANGED toolVars
    <2>1. /\ UNCHANGED <<plan, disk, phase, input, held, at, out, before, alone, writers>>
          /\ stale' \subseteq plan.calls /\ alive' \in BOOLEAN
      BY <1>1, <1>4 DEF toolVars
    <2> QED BY <2>1, CallsAreLeft
  <1> QED BY <1>2, <1>3, <1>4 DEF ToolsNext

(* The state invariant of the disk, for all paths, inputs and calls: files *)
(* are whole at any time, whatever write fails, overlaps another or is cut *)
(* off by a kill.                                                          *)
THEOREM FilesAreWhole == ToolsSpec => []FilesInv
PROOF
  <1>1. WholeInv => ToolsTypeOK
    <2> SUFFICES ASSUME WholeInv PROVE ToolsTypeOK
      OBVIOUS
    <2>1. ToolsCore /\ TextsAreHeld
      BY DEF WholeInv
    <2>2. \A c \in plan.calls : phase[c] \in {"write", "fill"} => held[c] \in Texts
      BY <2>1 DEF TextsAreHeld, Writing, ToolsCore
    <2> QED BY <2>1, <2>2 DEF ToolsTypeOK, ToolsCore, Phases, Text
  <1>2. WholeInv => FilesInv
    BY <1>1 DEF FilesInv, WholeInv, AllWhole
  <1> QED BY <1>2, InitWhole, NextWhole, PTL DEF ToolsSpec

-----------------------------------------------------------------------------
(* What is computed is what was promised: lines.                           *)

(* Words after a text go on with its last line.                            *)
LEMMA ScannedFurther ==
  ASSUME NEW t \in Texts, NEW l \in Seq(Words)
  PROVE  /\ t \o l \in Texts
         /\ Scanned(t \o l) = [done |-> Scanned(t).done, line |-> Scanned(t).line \o l]
PROOF
  <1> DEFINE T == Words \cup {NL}
             a == Scanned(t)
             I == {k \in Seq(Words) :
                     t \o k \in Seq(T) /\ Scanned(t \o k) = [done |-> a.done, line |-> a.line \o k]}
  <1>1. t \in Seq(T) /\ a.done \in Seq(Seq(Words)) /\ a.line \in Seq(Words)
        /\ a = [done |-> a.done, line |-> a.line]
    BY LinesAreWords DEF Texts, Scans
  <1> HIDE DEF a
  <1>2. <<>> \in I
    <2>1. t \o <<>> = t /\ a.line \o <<>> = a.line /\ <<>> \in Seq(Words)
      BY <1>1
    <2> QED BY <1>1, <2>1 DEF a
  <1>3. ASSUME NEW k \in Seq(Words), NEW x \in Words, k \in I PROVE Append(k, x) \in I
    <2>1. /\ t \o k \in Seq(T) /\ x \in T /\ x # NL
          /\ Scanned(t \o k) = [done |-> a.done, line |-> a.line \o k]
      BY <1>3, FileAssumption
    <2>2. t \o Append(k, x) = Append(t \o k, x) /\ Append(k, x) \in Seq(Words)
      BY <1>1
    <2>3. a.line \o Append(k, x) = Append(a.line \o k, x)
      BY <1>1
    <2>4. Append(t \o k, x) \in Seq(T)
      BY <2>1
    <2>5. Scanned(Append(t \o k, x)) = After(Scanned(t \o k), x)
      BY <2>1, ScannedOneMore
    <2>6. After(Scanned(t \o k), x) = [done |-> a.done, line |-> Append(a.line \o k, x)]
      BY <2>1 DEF After
    <2> QED BY <2>2, <2>3, <2>4, <2>5, <2>6
  <1> HIDE DEF I
  <1>4. \A k \in Seq(Words) : k \in I
    BY <1>2, <1>3, OneByOne
  <1> QED BY <1>4 DEF I, a, Texts, T

(* Scanned again, joined lines are the lines that they were.               *)
LEMMA ScannedJoined ==
  ASSUME NEW ls \in Seq(Seq(Words)), NEW l \in Seq(Words)
  PROVE  Scanned(Joined(Append(ls, l))) = [done |-> ls, line |-> l]
PROOF
  <1> DEFINE L == Seq(Words)
             I == {s \in Seq(L) :
                     \A k \in L : Scanned(Joined(Append(s, k))) = [done |-> s, line |-> k]}
  <1>1. <<>> \in I
    <2> SUFFICES ASSUME NEW k \in L
                 PROVE  Scanned(Joined(Append(<<>>, k))) = [done |-> <<>>, line |-> k]
      <3>1. <<>> \in Seq(L)
        OBVIOUS
      <3> HIDE DEF L
      <3> QED BY <3>1
    <2>1. <<>> \in Seq(Texts) /\ <<>> \in Texts /\ NL \in Words \cup {NL} /\ k \in Texts
      BY WordsAreTexts DEF Texts
    <2>2. Joined(Append(<<>>, k)) = k
      BY <2>1, JoinedOneMore
    <2>3. Scanned(<<>>) = NoScan
      BY <2>1, ScannedOneMore DEF Texts
    <2>4. Scanned(<<>> \o k) = [done |-> <<>>, line |-> <<>> \o k]
      <3> DEFINE e == <<>>
      <3>1. e \in Texts /\ Scanned(e) = NoScan
        BY <2>1, <2>3
      <3> HIDE DEF e
      <3>2. Scanned(e \o k) = [done |-> Scanned(e).done, line |-> Scanned(e).line \o k]
        BY <3>1, ScannedFurther
      <3>3. NoScan.done = <<>> /\ NoScan.line = <<>>
        BY DEF NoScan
      <3>4. Scanned(e \o k) = [done |-> <<>>, line |-> <<>> \o k]
        BY <3>1, <3>2, <3>3
      <3> QED BY <3>4 DEF e
    <2>5. <<>> \o k = k
      OBVIOUS
    <2> QED BY <2>2, <2>4, <2>5
  <1>2. ASSUME NEW s \in Seq(L), NEW x \in L, s \in I PROVE Append(s, x) \in I
    <2> DEFINE r == Append(s, x)
               u == Joined(r)
    <2>1. r \in Seq(L) /\ r # <<>>
      <3> HIDE DEF L
      <3> QED OBVIOUS
    <2>2. Scanned(u) = [done |-> s, line |-> x]
      BY <1>2
    <2>3. r \in Seq(Texts)
      BY <2>1, WordsAreTexts
    <2> HIDE DEF r
    <2>4. u \in Texts
      BY <2>3, JoinedIsText
    <2> SUFFICES ASSUME NEW k \in L
                 PROVE  Scanned(Joined(Append(r, k))) = [done |-> r, line |-> k]
      BY <2>1 DEF r
    <2>5. k \in Texts
      BY WordsAreTexts
    <2>6. Joined(Append(r, k)) = u \o <<NL>> \o k
      BY <2>1, <2>3, <2>5, JoinedOneMore
    <2> HIDE DEF u
    <2>7. u \o <<NL>> = Append(u, NL) /\ Append(u, NL) \in Texts
      BY <2>4 DEF Texts
    <2>8. Scanned(Append(u, NL)) = [done |-> r, line |-> <<>>]
      <3>1. NL \in Words \cup {NL}
        OBVIOUS
      <3>2. Scanned(Append(u, NL)) = After(Scanned(u), NL)
        BY <2>4, <3>1, ScannedOneMore DEF Texts
      <3> QED BY <2>2, <3>2 DEF After, r
    <2>9. Scanned(Append(u, NL) \o k) = [done |-> r, line |-> <<>> \o k]
      <3> DEFINE v == Append(u, NL)
      <3>1. v \in Texts /\ Scanned(v).done = r /\ Scanned(v).line = <<>>
        BY <2>7, <2>8
      <3> HIDE DEF v
      <3>2. Scanned(v \o k) = [done |-> Scanned(v).done, line |-> Scanned(v).line \o k]
        BY <3>1, ScannedFurther
      <3>3. Scanned(v \o k) = [done |-> r, line |-> <<>> \o k]
        BY <3>1, <3>2
      <3> QED BY <3>3 DEF v
    <2>10. <<>> \o k = k
      OBVIOUS
    <2> QED BY <2>6, <2>7, <2>9, <2>10
  <1> HIDE DEF I
  <1>3. \A s \in Seq(L) : s \in I
    BY <1>1, <1>2, OneByOne
  <1> QED BY <1>3 DEF I

(* Only an empty last line is lost.                                        *)
LEMMA LinesOfJoined ==
  ASSUME NEW ls \in Seq(Seq(Words))
  PROVE  Lines(Joined(ls)) = IF ls # <<>> /\ ls[Len(ls)] = <<>>
                             THEN SubSeq(ls, 1, Len(ls) - 1) ELSE ls
PROOF
  <1> DEFINE front == SubSeq(ls, 1, Len(ls) - 1)
             last == ls[Len(ls)]
  <1>1. CASE ls = <<>>
    <2>1. <<>> \in Seq(Texts) /\ <<>> \in Texts /\ NL \in Words \cup {NL}
      BY DEF Texts
    <2>2. Joined(<<>>) = <<>> /\ Scanned(<<>>) = NoScan
      BY <2>1, JoinedOneMore, ScannedOneMore DEF Texts
    <2> QED BY <1>1, <2>2 DEF Lines, NoScan
  <1>2. CASE ls # <<>>
    <2>1. front \in Seq(Seq(Words)) /\ last \in Seq(Words) /\ ls = Append(front, last)
      BY <1>2
    <2> HIDE DEF front, last
    <2>2. Scanned(Joined(ls)) = [done |-> front, line |-> last]
      BY <2>1, ScannedJoined
    <2>3. Lines(Joined(ls)) = IF last = <<>> THEN front ELSE Append(front, last)
      BY <2>2 DEF Lines
    <2> QED BY <1>2, <2>1, <2>3 DEF front, last
  <1> QED BY <1>1, <1>2

(* read_file's range, "1-based".                                           *)
LEMMA RangeIsRead ==
  ASSUME NEW t \in Texts, NEW s \in Nat, NEW e \in Nat \cup {Absent}, s # Absent,
         ReadRange(t, s, e).ok
  PROVE  LET kept == {i \in DOMAIN Lines(t) : InRange(i, s, e)} IN
         ReadRange(t, s, e).text
           = Joined([k \in 1 .. Cardinality(kept) |->
                       Lines(t)[k + (IF kept = {} THEN 0 ELSE Min(kept) - 1)]])
PROOF
  <1> DEFINE ls == Lines(t)
             n == Len(ls)
             from == Start(s, n)
             to == IF e = Absent THEN n ELSE End(e, n)
             kept == {i \in DOMAIN ls : InRange(i, s, e)}
             range == [k \in 1 .. Cardinality(kept) |->
                         ls[k + (IF kept = {} THEN 0 ELSE Min(kept) - 1)]]
  <1>1. ls \in Seq(Seq(Words)) /\ n \in Nat /\ DOMAIN ls = 1 .. n
    BY LinesAreWords
  <1>2. ReadRange(t, s, e) = IF from > to THEN Failure
                             ELSE Computed(Joined(SubSeq(ls, from + 1, to)))
    BY DEF ReadRange
  <1> HIDE DEF ls, n
  <1>3. from = (IF s = 0 THEN 0 ELSE IF s - 1 <= n THEN s - 1 ELSE n) /\ from \in 0 .. n
    BY <1>1, RangeIsBounded
  <1>4. to = (IF e = Absent THEN n ELSE IF e <= n THEN e ELSE n) /\ to \in 0 .. n
    <2>1. CASE e = Absent
      BY <1>1, <2>1
    <2>2. CASE e # Absent
      <3>1. e \in Nat /\ to = End(e, n)
        BY <2>2
      <3>2. End(e, n) = (IF e <= n THEN e ELSE n) /\ End(e, n) \in 0 .. n
        BY <1>1, <3>1, RangeIsBounded
      <3> QED BY <2>2, <3>1, <3>2
    <2> QED BY <2>1, <2>2
  <1> HIDE DEF from, to
  <1>5. from <= to /\ ReadRange(t, s, e).text = Joined(SubSeq(ls, from + 1, to))
    <2>1. ~(from > to)
      <3>1. from > to => ReadRange(t, s, e).ok = FALSE
        BY <1>2 DEF Failure
      <3> QED BY <3>1
    <2>2. ReadRange(t, s, e) = Computed(Joined(SubSeq(ls, from + 1, to)))
      BY <1>2, <2>1
    <2>3. ReadRange(t, s, e).text = Joined(SubSeq(ls, from + 1, to))
      BY <2>2 DEF Computed
    <2> QED BY <1>3, <1>4, <2>1, <2>3
  <1>6. kept = from + 1 .. to
    <2>1. \A i \in 1 .. n : i >= s <=> i >= from + 1
      BY <1>1, <1>3
    <2>2. \A i \in 1 .. n : (e = Absent \/ i <= e) <=> i <= to
      BY <1>1, <1>4
    <2>3. \A i : i \in kept <=> i \in from + 1 .. to
      BY <1>1, <1>3, <1>4, <2>1, <2>2 DEF InRange
    <2> QED BY <2>3
  <1> HIDE DEF kept
  <1>7. Cardinality(kept) = to - from
    <2>1. from + 1 \in Int /\ to \in Int
      BY <1>3, <1>4
    <2>2. Cardinality(from + 1 .. to) = IF from + 1 > to THEN 0 ELSE to - (from + 1) + 1
      BY <2>1, FS_Interval
    <2> QED BY <1>5, <1>3, <1>4, <1>6, <2>2
  <1>8. range = SubSeq(ls, from + 1, to)
    <2>1. CASE kept = {}
      <3>1. from = to
        BY <1>5, <1>3, <1>4, <1>6, <2>1
      <3>2. range = <<>>
        BY <1>3, <1>7, <3>1
      <3>3. SubSeq(ls, from + 1, to) = <<>>
        BY <1>1, <1>3, <3>1
      <3> QED BY <3>2, <3>3
    <2>2. CASE kept # {}
      <3>1. from + 1 <= to
        BY <1>3, <1>4, <1>6, <2>2
      <3>2. Min(kept) = from + 1
        <4>1. kept \subseteq Nat /\ from + 1 \in kept /\ \A i \in kept : from + 1 <= i
          BY <1>3, <1>4, <1>6, <3>1
        <4>2. Min(kept) \in kept /\ Min(kept) <= from + 1
          BY <4>1, LeastIsThere
        <4> DEFINE least == Min(kept)
        <4>3. least \in Nat /\ least <= from + 1 /\ from + 1 <= least
          BY <4>1, <4>2
        <4> HIDE DEF least
        <4>4. least = from + 1
          BY <1>3, <4>3
        <4> QED BY <4>4 DEF least
      <3>3. range = [k \in 1 .. to - from |-> ls[k + from]]
        BY <1>3, <1>7, <2>2, <3>2
      <3>4. SubSeq(ls, from + 1, to) = [k \in 1 .. to - from |-> ls[k + from]]
        BY <1>1, <1>3, <1>4, <3>1
      <3> QED BY <3>3, <3>4
    <2> QED BY <2>1, <2>2
  <1> HIDE DEF range
  <1> QED BY <1>5, <1>8 DEF range, kept, ls

(* edit_file's "first occurrence".                                         *)
LEMMA FirstIsEdited ==
  ASSUME NEW in, NEW t \in Texts, in.old \in Texts, in.new \in Texts,
         EditFirst(t, in.old, in.new).ok
  PROVE  EditedAsPromised(in, t, EditFirst(t, in.old, in.new).text)
PROOF
  <1> DEFINE old == in.old
             f == Min(PlacesOf(old, t))
  <1>1. Occurs(old, t)
    BY DEF EditFirst, Failure
  <1>2. EditFirst(t, old, in.new).text
          = SubSeq(t, 1, f - 1) \o in.new \o SubSeq(t, f + Len(old), Len(t))
    BY <1>1 DEF EditFirst, Computed
  <1>3. /\ f \in 1 .. Len(t) + 1 - Len(old) /\ f \in PlacesOf(old, t)
        /\ \A i \in PlacesOf(old, t) : f <= i
    BY <1>1, FirstPlace
  <1>4. Len(t) \in Nat /\ Len(old) \in Nat
    BY DEF Texts
  <1> HIDE DEF f, old
  <1>5. SubSeq(t, f, f + Len(old) - 1) = old
    BY <1>3 DEF PlacesOf
  <1>6. ASSUME NEW j \in 0 .. f - 2, SubSeq(t, j + 1, j + Len(old)) = old PROVE FALSE
    <2>1. j + 1 \in 1 .. Len(t) + 1 - Len(old) /\ j + 1 < f /\ j + 1 + Len(old) - 1 = j + Len(old)
      BY <1>3, <1>4
    <2>2. j + 1 \in PlacesOf(old, t)
      BY <1>6, <2>1 DEF PlacesOf
    <2> QED BY <1>3, <1>4, <2>1, <2>2
  <1> DEFINE i == f - 1
  <1>7. i \in 0 .. Len(t) /\ f = i + 1 /\ f - 2 = i - 1 /\ f + Len(old) - 1 = i + Len(old)
        /\ f + Len(old) = i + Len(old) + 1
    BY <1>3, <1>4
  <1> HIDE DEF i
  <1> QED BY <1>2, <1>5, <1>6, <1>7 DEF EditedAsPromised, old, i

-----------------------------------------------------------------------------
(* What is computed is what was promised: replacements.                    *)

(* A word ends where the one before it ends and its own length.            *)
AddUp(t, w, new) ==
  /\ EndOf(t, w, new, 0) = 0
  /\ \A i \in 0 .. Len(t) : EndOf(t, w, new, i) \in Int
  /\ \A i \in 1 .. Len(t) :
       EndOf(t, w, new, i) = EndOf(t, w, new, i - 1) + (IF t[i] = w THEN Len(new) ELSE 1)

LEMMA EndsAddUp ==
  ASSUME NEW T, NEW t \in Seq(T), NEW w, NEW new \in Texts
  PROVE  AddUp(t, w, new)
PROOF
  <1> DEFINE Hits(i) == {j \in 1 .. i : t[j] = w}
             d == Len(new) - 1
  <1>1. d \in Int /\ Len(new) = d + 1 /\ Len(t) \in Nat
    BY DEF Texts
  <1> HIDE DEF d
  <1>2. \A i : EndOf(t, w, new, i) = i + Cardinality(Hits(i)) * d
    BY DEF EndOf, d
  <1>3. \A i \in Nat : IsFiniteSet(Hits(i)) /\ Cardinality(Hits(i)) \in Nat
    <2> TAKE i \in Nat
    <2>1. IsFiniteSet(1 .. i)
      BY FS_Interval
    <2>2. Hits(i) \subseteq 1 .. i
      OBVIOUS
    <2> HIDE DEF Hits
    <2> QED BY <2>1, <2>2, FS_Subset, FS_CardinalityType
  <1>4. Cardinality(Hits(0)) = 0
    <2>1. Hits(0) = {}
      OBVIOUS
    <2> QED BY <2>1, FS_EmptySet
  <1>5. ASSUME NEW i \in 1 .. Len(t)
        PROVE  Cardinality(Hits(i)) = Cardinality(Hits(i - 1)) + (IF t[i] = w THEN 1 ELSE 0)
    <2>1. i - 1 \in Nat /\ i \notin Hits(i - 1)
      BY <1>1
    <2>2. CASE t[i] = w
      <3>1. Hits(i) = Hits(i - 1) \cup {i}
        BY <1>1, <2>2
      <3> HIDE DEF Hits
      <3>2. Cardinality(Hits(i - 1) \cup {i}) = Cardinality(Hits(i - 1)) + 1
        BY <1>3, <2>1, FS_AddElement
      <3> QED BY <2>2, <3>1, <3>2
    <2>3. CASE t[i] # w
      <3>1. Hits(i) = Hits(i - 1)
        BY <1>1, <2>3
      <3> HIDE DEF Hits
      <3>2. Cardinality(Hits(i - 1)) \in Nat
        BY <1>3, <2>1
      <3> QED BY <2>3, <3>1, <3>2
    <2> QED BY <2>2, <2>3
  <1> HIDE DEF Hits
  <1>6. \A i \in Nat : EndOf(t, w, new, i) \in Int
    <2> TAKE i \in Nat
    <2> DEFINE c == Cardinality(Hits(i))
    <2>1. c \in Int
      BY <1>3
    <2> HIDE DEF c
    <2>2. c * d \in Int
      BY <1>1, <2>1
    <2> QED BY <1>2, <2>2 DEF c
  <1>7. EndOf(t, w, new, 0) = 0
    <2>1. EndOf(t, w, new, 0) = 0 + 0 * d
      BY <1>2, <1>4
    <2> QED BY <1>1, <2>1
  <1>8. ASSUME NEW i \in 1 .. Len(t)
        PROVE  EndOf(t, w, new, i)
                 = EndOf(t, w, new, i - 1) + (IF t[i] = w THEN Len(new) ELSE 1)
    <2> DEFINE c == Cardinality(Hits(i - 1))
    <2>1. c \in Int /\ i - 1 \in Nat
      BY <1>1, <1>3
    <2>2. /\ EndOf(t, w, new, i - 1) = (i - 1) + c * d
          /\ EndOf(t, w, new, i) = i + (c + (IF t[i] = w THEN 1 ELSE 0)) * d
      BY <1>2, <1>5
    <2> HIDE DEF c
    <2>3. (c + 1) * d = c * d + d /\ (c + 0) * d = c * d /\ c * d \in Int
      BY <1>1, <2>1
    <2> QED BY <1>1, <2>1, <2>2, <2>3
  <1> QED BY <1>1, <1>6, <1>7, <1>8 DEF AddUp

(* What is put after a text leaves its parts, and is there itself.         *)
LEMMA PartsStay ==
  ASSUME NEW T, NEW u \in Seq(T), NEW y \in Seq(T)
  PROVE  /\ u \o y \in Seq(T) /\ Len(u \o y) = Len(u) + Len(y)
         /\ \A a \in 0 .. Len(u), b \in 0 .. Len(u) :
              SubSeq(u \o y, a + 1, b) = SubSeq(u, a + 1, b)
         /\ SubSeq(u \o y, Len(u) + 1, Len(u) + Len(y)) = y
PROOF
  <1> DEFINE v == u \o y
             k == Len(u)
             l == Len(y)
  <1>1. /\ v \in Seq(T) /\ Len(v) = k + l /\ k \in Nat /\ l \in Nat
        /\ \A i \in 1 .. k : v[i] = u[i]
        /\ \A i \in 1 .. l : v[k + i] = y[i]
    OBVIOUS
  <1> HIDE DEF v
  <1>2. ASSUME NEW a \in 0 .. k, NEW b \in 0 .. k
        PROVE  SubSeq(v, a + 1, b) = SubSeq(u, a + 1, b)
    <2>1. CASE b < a + 1
      BY <1>1, <2>1
    <2>2. CASE a + 1 <= b
      <3> DEFINE h == a + 1
                 g == b - h + 1
      <3>1. h \in 1 .. b /\ b \in 1 .. k /\ g \in Nat /\ \A i \in 1 .. g : h + i - 1 \in 1 .. k
        BY <1>1, <2>2
      <3> HIDE DEF h
      <3>2. /\ Len(SubSeq(v, h, b)) = g /\ Len(SubSeq(u, h, b)) = g
            /\ SubSeq(v, h, b) \in Seq(T) /\ SubSeq(u, h, b) \in Seq(T)
        BY <1>1, <3>1
      <3>3. \A i \in 1 .. g : SubSeq(v, h, b)[i] = v[h + i - 1]
        BY <1>1, <3>1
      <3>4. \A i \in 1 .. g : SubSeq(u, h, b)[i] = u[h + i - 1]
        BY <1>1, <3>1
      <3>5. \A i \in 1 .. g : SubSeq(v, h, b)[i] = SubSeq(u, h, b)[i]
        BY <1>1, <3>1, <3>3, <3>4
      <3> HIDE DEF g
      <3>6. SubSeq(v, h, b) = SubSeq(u, h, b)
        BY <3>1, <3>2, <3>5
      <3> QED BY <3>6 DEF h
    <2> QED BY <1>1, <2>1, <2>2
  <1>3. SubSeq(v, k + 1, k + l) = y
    <2>1. Len(y) = l /\ y \in Seq(T)
      OBVIOUS
    <2> HIDE DEF k, l
    <2>2. CASE l = 0
      <3>1. Len(SubSeq(v, k + 1, k + l)) = 0 /\ SubSeq(v, k + 1, k + l) \in Seq(T)
        BY <1>1, <2>2
      <3> QED BY <2>1, <2>2, <3>1
    <2>3. CASE l > 0
      <3> DEFINE h == k + 1
                 n == k + l
                 z == SubSeq(v, h, n)
      <3>1. h \in 1 .. n /\ n = Len(v) /\ n - h + 1 = l /\ \A i \in 1 .. l : h + i - 1 = k + i
        BY <1>1, <2>3
      <3> HIDE DEF h, n
      <3>2. Len(z) = l /\ z \in Seq(T)
        BY <1>1, <3>1
      <3>3. \A i \in 1 .. l : z[i] = v[h + i - 1]
        BY <1>1, <3>1
      <3>4. \A i \in 1 .. l : z[i] = y[i]
        BY <1>1, <3>1, <3>3
      <3> HIDE DEF z
      <3>5. z = y
        BY <2>1, <3>2, <3>4
      <3> QED BY <3>5 DEF z, h, n
    <2> QED BY <1>1, <2>2, <2>3
  <1> QED BY <1>1, <1>2, <1>3 DEF v

(* replace_in_file with a regex puts the replacement in the place of every *)
(* word that matches, and leaves the others, one after the other.          *)
LEMMA WordsAreReplaced ==
  ASSUME NEW t \in Texts, NEW w, NEW new \in Texts
  PROVE  IsReplacedIn(Replaced(t, w, new), t, w, new)
PROOF
  <1> DEFINE T == Words \cup {NL}
             R(q) == Replaced(q, w, new)
             E(q, i) == EndOf(q, w, new, i)
             I == {q \in Seq(T) :
                     /\ \A i \in 0 .. Len(q) : E(q, i) \in 0 .. Len(R(q))
                     /\ IsReplacedIn(R(q), q, w, new)}
  <1>1. Texts = Seq(T) /\ NL \in T /\ new \in Seq(T)
    BY DEF Texts
  <1>2. \A q \in Seq(T), x \in T :
          /\ R(q) \in Seq(T) /\ R(<<>>) = <<>>
          /\ R(Append(q, x)) = R(q) \o (IF x = w THEN new ELSE <<x>>)
    <2> TAKE q \in Seq(T), x \in T
    <2>1. /\ R(q) \in Texts /\ R(<<>>) = <<>>
          /\ R(Append(q, x)) = Going(R(q), x, w, new)
      BY <1>1, ReplacedOneMore
    <2>2. R(q) \o <<x>> = Append(R(q), x)
      BY <1>1, <2>1
    <2> QED BY <1>1, <2>1, <2>2 DEF Going
  <1> HIDE DEF R, T
  <1>3. <<>> \in I
    <2> DEFINE e == <<>>
    <2>1. e \in Seq(T) /\ Len(e) = 0
      OBVIOUS
    <2>2. R(e) = e
      BY <1>1, <1>2
    <2> HIDE DEF e
    <2>3. E(e, 0) = 0
      BY <2>1, EndsAddUp DEF AddUp
    <2> QED BY <2>1, <2>2, <2>3 DEF IsReplacedIn, e
  <1>4. ASSUME NEW q \in Seq(T), NEW x \in T, q \in I PROVE Append(q, x) \in I
    <2> DEFINE v == Append(q, x)
               n == Len(q)
               y == IF x = w THEN new ELSE <<x>>
    <2>1. /\ v \in Seq(T) /\ n \in Nat /\ Len(v) = n + 1 /\ v[n + 1] = x
          /\ \A i \in 1 .. n : v[i] = q[i]
          /\ y \in Seq(T) /\ Len(y) = IF x = w THEN Len(new) ELSE 1
      BY <1>1
    <2>2. R(v) = R(q) \o y /\ R(q) \in Seq(T)
      BY <1>2
    <2> HIDE DEF v, y
    <2>3. \A i \in 0 .. n : E(v, i) = E(q, i)
      <3> TAKE i \in 0 .. n
      <3>1. \A j \in 1 .. i : v[j] = q[j]
        BY <2>1
      <3>2. {j \in 1 .. i : v[j] = w} = {j \in 1 .. i : q[j] = w}
        BY <3>1
      <3> QED BY <3>2 DEF EndOf
    <2>4. E(q, n) = Len(R(q)) /\ \A i \in 0 .. n : E(q, i) \in 0 .. Len(R(q))
      BY <1>4, <2>1 DEF IsReplacedIn
    <2>5. E(v, n + 1) = Len(R(q)) + Len(y)
      <3>1. n + 1 \in 1 .. Len(v) /\ n + 1 - 1 = n /\ n \in 0 .. n
        BY <2>1
      <3>a. \A i \in 1 .. Len(v) :
              E(v, i) = E(v, i - 1) + (IF v[i] = w THEN Len(new) ELSE 1)
        <4>1. AddUp(v, w, new)
          BY <2>1, EndsAddUp
        <4> QED BY <4>1 DEF AddUp
      <3> DEFINE m == n + 1
      <3>b. m \in 1 .. Len(v) /\ m - 1 = n /\ v[m] = x
        BY <2>1, <3>1
      <3> HIDE DEF m, E
      <3>c. E(v, m) = E(v, n) + (IF x = w THEN Len(new) ELSE 1)
        BY <3>a, <3>b
      <3>2. E(v, n + 1) = E(v, n) + (IF x = w THEN Len(new) ELSE 1)
        BY <3>c DEF m
      <3> QED BY <2>1, <2>3, <2>4, <3>1, <3>2
    <2>6. /\ Len(R(v)) = Len(R(q)) + Len(y) /\ Len(R(q)) \in Nat /\ Len(y) \in Nat
          /\ \A a \in 0 .. Len(R(q)), b \in 0 .. Len(R(q)) :
               SubSeq(R(v), a + 1, b) = SubSeq(R(q), a + 1, b)
          /\ SubSeq(R(v), Len(R(q)) + 1, Len(R(q)) + Len(y)) = y
      <3> DEFINE u == R(q)
      <3>1. u \in Seq(T) /\ y \in Seq(T) /\ R(v) = u \o y
        BY <2>1, <2>2
      <3> HIDE DEF u
      <3>2. /\ Len(u \o y) = Len(u) + Len(y)
            /\ \A a \in 0 .. Len(u), b \in 0 .. Len(u) :
                 SubSeq(u \o y, a + 1, b) = SubSeq(u, a + 1, b)
            /\ SubSeq(u \o y, Len(u) + 1, Len(u) + Len(y)) = y
        BY <3>1, PartsStay
      <3>3. Len(u) \in Nat /\ Len(y) \in Nat
        BY <2>1, <3>1
      <3> QED BY <3>1, <3>2, <3>3 DEF u
    <2> DEFINE Of(i) == SubSeq(R(v), E(v, i - 1) + 1, E(v, i))
    <2>7. ASSUME NEW i \in 1 .. n + 1
          PROVE  Of(i) = IF v[i] = w THEN new ELSE <<v[i]>>
      <3>1. CASE i \in 1 .. n
        <4>1. /\ i - 1 \in 0 .. n /\ i \in 0 .. n
          BY <2>1, <3>1
        <4>2. Of(i) = SubSeq(R(q), E(q, i - 1) + 1, E(q, i))
          BY <2>3, <2>4, <2>6, <4>1
        <4>3. SubSeq(R(q), E(q, i - 1) + 1, E(q, i)) = IF q[i] = w THEN new ELSE <<q[i]>>
          BY <1>4, <3>1 DEF IsReplacedIn
        <4> HIDE DEF Of
        <4> QED BY <2>1, <3>1, <4>2, <4>3
      <3>2. CASE i = n + 1
        <4>1. E(v, i - 1) = Len(R(q)) /\ E(v, i) = Len(R(q)) + Len(y)
          <5>1. i - 1 = n /\ n \in 0 .. n
            BY <2>1, <3>2
          <5> QED BY <2>3, <2>4, <2>5, <3>2, <5>1
        <4>2. Of(i) = y
          BY <2>6, <4>1
        <4> HIDE DEF Of
        <4> QED BY <2>1, <3>2, <4>2 DEF y
      <3> QED BY <2>1, <3>1, <3>2
    <2>8. IsReplacedIn(R(v), v, w, new)
      BY <2>1, <2>5, <2>6, <2>7 DEF IsReplacedIn
    <2>9. \A i \in 0 .. Len(v) : E(v, i) \in 0 .. Len(R(v))
      <3> TAKE i \in 0 .. Len(v)
      <3>1. CASE i \in 0 .. n
        <4>1. E(v, i) \in 0 .. Len(R(q))
          BY <2>3, <2>4, <3>1
        <4> QED BY <2>6, <4>1
      <3>2. CASE i = n + 1
        <4>1. E(v, i) = Len(R(v))
          BY <2>5, <2>6, <3>2
        <4> QED BY <2>6, <4>1
      <3> QED BY <2>1, <3>1, <3>2
    <2> QED BY <2>1, <2>8, <2>9 DEF v
  <1> HIDE DEF I
  <1>5. \A q \in Seq(T) : q \in I
    BY <1>3, <1>4, OneByOne
  <1> QED BY <1>1, <1>5 DEF I, R

(* The first elements of a sequence, and two sequences one after another.  *)
LEMMA FirstOnes ==
  ASSUME NEW S, NEW s \in Seq(S), NEW k \in 0 .. Len(s)
  PROVE  /\ SubSeq(s, 1, k) \in Seq(S) /\ Len(SubSeq(s, 1, k)) = k
         /\ \A i \in 1 .. k : SubSeq(s, 1, k)[i] = s[i]
PROOF
  <1>1. Len(s) \in Nat /\ k \in Nat
    OBVIOUS
  <1>2. SubSeq(s, 1, k) \in Seq(S) /\ Len(SubSeq(s, 1, k)) = k
    BY <1>1
  <1>3. ASSUME NEW i \in 1 .. k PROVE SubSeq(s, 1, k)[i] = s[i]
    BY <1>1
  <1> QED BY <1>2, <1>3

(* Of two sequences, the elements of the first come before the second's.   *)
LEMMA OneAfterTheOther ==
  ASSUME NEW S, NEW s \in Seq(S), NEW t \in Seq(S), NEW m, NEW n, m = Len(s), n = Len(t)
  PROVE  /\ s \o t \in Seq(S) /\ Len(s \o t) = m + n
         /\ \A i \in 1 .. m : (s \o t)[i] = s[i]
         /\ \A i \in 1 .. n : (s \o t)[m + i] = t[i]
PROOF
  <1>1. m \in Nat /\ n \in Nat
    OBVIOUS
  <1>2. s \o t \in Seq(S) /\ Len(s \o t) = m + n
    OBVIOUS
  <1>3. ASSUME NEW i \in 1 .. m PROVE (s \o t)[i] = s[i]
    BY <1>1
  <1>4. ASSUME NEW i \in 1 .. n PROVE (s \o t)[m + i] = t[i]
    BY <1>1
  <1> QED BY <1>2, <1>3, <1>4

(* replace_in_file with a range splices the lines, for every range.        *)
LEMMA LinesAreSpliced ==
  ASSUME NEW t \in Texts, NEW s \in Nat, NEW e \in Nat, NEW new \in Texts,
         ReplaceLines(t, s, e, new).ok
  PROVE  IsSplicedIn(ReplaceLines(t, s, e, new).text, t, s, e, new)
PROOF
  <1> DEFINE u == ReplaceLines(t, s, e, new).text
             ls == Lines(t)
             nl == Lines(new)
             n == Len(ls)
             m == Len(nl)
             from == Start(s, n)
             to == End(e, n)
             head == SubSeq(ls, 1, from)
             tail == SubSeq(ls, to + 1, n)
             us == head \o nl \o tail
             upto == {i \in DOMAIN ls : i < s}
             after == {i \in DOMAIN ls : i > e}
             size == Cardinality(upto) + m + Cardinality(after)
             made == Lines(u)
  <1>1. ls \in Seq(Seq(Words)) /\ nl \in Seq(Seq(Words))
    BY LinesAreWords
  <1>2. ReplaceLines(t, s, e, new) = IF from > to THEN Failure ELSE Computed(Joined(us))
    BY DEF ReplaceLines
  <1>3. u = Joined(us)
    <2>1. ~(from > to)
      <3>1. from > to => ReplaceLines(t, s, e, new).ok = FALSE
        BY <1>2 DEF Failure
      <3> QED BY <3>1
    <2> QED BY <1>2, <2>1 DEF Computed
  <1> HIDE DEF ls, nl, u
  <1>4. n \in Nat /\ DOMAIN ls = 1 .. n /\ m \in Nat /\ DOMAIN nl = 1 .. m
    BY <1>1
  <1> HIDE DEF n, m
  <1>5. /\ from = (IF s = 0 THEN 0 ELSE IF s - 1 <= n THEN s - 1 ELSE n) /\ from \in 0 .. n
        /\ to = (IF e <= n THEN e ELSE n) /\ to \in 0 .. n
    BY <1>4, RangeIsBounded
  <1> HIDE DEF from, to
  <1>6. /\ head \in Seq(Seq(Words)) /\ Len(head) = from /\ \A i \in 1 .. from : head[i] = ls[i]
        /\ tail \in Seq(Seq(Words)) /\ Len(tail) = n - to
        /\ \A i \in 1 .. n - to : tail[i] = ls[i + to]
    <2>0. Len(ls) = n
      BY DEF n
    <2>1. head \in Seq(Seq(Words)) /\ Len(head) = from /\ \A i \in 1 .. from : head[i] = ls[i]
      <3>1. from \in 0 .. Len(ls)
        BY <1>5, <2>0
      <3> QED BY <1>1, <3>1, FirstOnes
    <2>2. tail \in Seq(Seq(Words)) /\ Len(tail) = n - to
      <3> DEFINE b == to + 1
      <3>1. b \in 1 .. n + 1 /\ n - to = n + 1 - b /\ (b > n => n - to = 0)
        BY <1>4, <1>5
      <3> HIDE DEF b
      <3>2. /\ SubSeq(ls, b, n) \in Seq(Seq(Words))
            /\ Len(SubSeq(ls, b, n)) = IF b <= n THEN n + 1 - b ELSE 0
        BY <1>1, <1>4, <2>0, <3>1
      <3> QED BY <1>4, <3>1, <3>2 DEF b
    <2>3. ASSUME NEW i \in 1 .. n - to PROVE tail[i] = ls[i + to]
      <3>1. to + 1 \in 1 .. n /\ i \in 1 .. n - (to + 1) + 1 /\ (to + 1) + i - 1 = i + to
        BY <1>4, <1>5
      <3> DEFINE b == to + 1
      <3>2. b \in 1 .. n /\ i \in 1 .. n - b + 1 /\ b + i - 1 = i + to
        BY <3>1
      <3> HIDE DEF b
      <3>3. SubSeq(ls, b, n)[i] = ls[b + i - 1]
        BY <1>1, <1>4, <2>0, <3>2
      <3> QED BY <3>2, <3>3 DEF b
    <2> QED BY <2>1, <2>2, <2>3
  <1> HIDE DEF head, tail
  <1>7. /\ us \in Seq(Seq(Words)) /\ Len(us) = from + m + (n - to)
        /\ \A i \in 1 .. from : us[i] = ls[i]
        /\ \A i \in 1 .. m : us[from + i] = nl[i]
        /\ \A i \in to + 1 .. n : us[i - to + from + m] = ls[i]
    <2> DEFINE both == head \o nl
    <2>0. Len(nl) = m
      BY DEF m
    <2>a. /\ both \in Seq(Seq(Words)) /\ Len(both) = from + m
          /\ \A i \in 1 .. from : both[i] = head[i]
          /\ \A i \in 1 .. m : both[from + i] = nl[i]
      <3>1. from = Len(head) /\ m = Len(nl) /\ head \in Seq(Seq(Words)) /\ nl \in Seq(Seq(Words))
        BY <1>1, <1>6, <2>0
      <3> HIDE DEF head, nl, from, m
      <3> QED BY <3>1, OneAfterTheOther
    <2> HIDE DEF both
    <2>b. us = both \o tail
      BY DEF both
    <2>1. us \in Seq(Seq(Words)) /\ Len(us) = from + m + (n - to)
      <3> DEFINE b == from + m
                 l == n - to
      <3>1. Len(both) = b /\ Len(tail) = l
        BY <1>6, <2>a
      <3> HIDE DEF b, l
      <3>2. us \in Seq(Seq(Words)) /\ Len(us) = b + l
        BY <1>6, <2>a, <2>b, <3>1, OneAfterTheOther
      <3> QED BY <3>2 DEF b, l
    <2>2. \A i \in 1 .. from : us[i] = head[i]
      <3>1. \A i \in 1 .. from : i \in 1 .. Len(both)
        BY <1>4, <1>5, <2>a
      <3> QED BY <1>4, <1>5, <1>6, <2>a, <2>b, <3>1
    <2>3. \A k \in 1 .. n - to : us[from + m + k] = tail[k]
      <3> DEFINE b == from + m
                 l == n - to
      <3>1. b \in Nat /\ Len(both) = b /\ l \in Nat /\ Len(tail) = l
        BY <1>4, <1>5, <1>6, <2>a
      <3> HIDE DEF b, l
      <3>2. \A k \in 1 .. l : us[b + k] = tail[k]
        BY <1>6, <2>a, <2>b, <3>1
      <3> QED BY <3>2 DEF b, l
    <2>4. ASSUME NEW i \in to + 1 .. n PROVE us[i - to + from + m] = ls[i]
      <3>1. i - to \in 1 .. n - to /\ from + m + (i - to) = i - to + from + m /\ i - to + to = i
        BY <1>4, <1>5
      <3>2. us[from + m + (i - to)] = tail[i - to] /\ tail[i - to] = ls[i - to + to]
        BY <1>6, <2>3, <3>1
      <3> QED BY <3>1, <3>2
    <2>5. \A i \in 1 .. m : us[from + i] = nl[i]
      <3> TAKE i \in 1 .. m
      <3>1. from + i \in 1 .. Len(both)
        BY <1>4, <1>5, <2>a
      <3>2. us[from + i] = both[from + i]
        BY <1>6, <2>a, <2>b, <3>1
      <3> QED BY <2>a, <3>2
    <2> QED BY <1>6, <2>1, <2>2, <2>4, <2>5
  <1> HIDE DEF us
  <1>8. made = IF us # <<>> /\ us[Len(us)] = <<>> THEN SubSeq(us, 1, Len(us) - 1) ELSE us
    BY <1>3, <1>7, LinesOfJoined
  <1> HIDE DEF made
  <1>9. /\ Len(made) \in {Len(us), Len(us) - 1} /\ Len(us) \in Nat
        /\ \A i \in 1 .. Len(us) : HasLine(u, i, us[i])
    <2>0. Len(us) \in Nat /\ DOMAIN us = 1 .. Len(us)
      BY <1>7
    <2>1. CASE us # <<>> /\ us[Len(us)] = <<>>
      <3>1. made = SubSeq(us, 1, Len(us) - 1) /\ Len(us) > 0
        BY <1>7, <1>8, <2>1
      <3>2. /\ Len(made) = Len(us) - 1 /\ DOMAIN made = 1 .. Len(us) - 1
            /\ \A i \in 1 .. Len(us) - 1 : made[i] = us[i]
        BY <1>7, <3>1
      <3>3. ASSUME NEW i \in 1 .. Len(us) PROVE HasLine(u, i, us[i])
        <4>1. i \in DOMAIN made => made[i] = us[i]
          BY <3>2
        <4>2. i \notin DOMAIN made => us[i] = <<>>
          <5> DEFINE l == Len(us)
          <5>a. l \in Nat /\ i \in 1 .. l
            BY <2>0
          <5> HIDE DEF l
          <5>b. i \notin 1 .. l - 1 => i = l
            BY <5>a
          <5>0. i \notin 1 .. Len(us) - 1 => i = Len(us)
            BY <5>b DEF l
          <5>1. i \notin DOMAIN made => i = Len(us)
            BY <3>2, <5>0
          <5> QED BY <2>1, <5>1
        <4> QED BY <4>1, <4>2 DEF HasLine, made
      <3> QED BY <2>0, <3>2, <3>3
    <2>2. CASE ~(us # <<>> /\ us[Len(us)] = <<>>)
      <3>1. made = us
        BY <1>8, <2>2
      <3> QED BY <2>0, <3>1 DEF HasLine, made
    <2> QED BY <2>1, <2>2
  <1>10. upto = 1 .. from /\ after = to + 1 .. n
    <2>1. \A i : i \in upto <=> i \in 1 .. from
      BY <1>4, <1>5
    <2>2. \A i : i \in after <=> i \in to + 1 .. n
      BY <1>4, <1>5
    <2> QED BY <2>1, <2>2
  <1> HIDE DEF upto, after
  <1>11. Cardinality(upto) = from /\ Cardinality(after) = n - to
    <2>0. 1 \in Int /\ from \in Int /\ to + 1 \in Int /\ n \in Int
      BY <1>4, <1>5
    <2>1. Cardinality(1 .. from) = IF 1 > from THEN 0 ELSE from - 1 + 1
      BY <2>0, FS_Interval
    <2>2. Cardinality(to + 1 .. n) = IF to + 1 > n THEN 0 ELSE n - (to + 1) + 1
      BY <2>0, FS_Interval
    <2> QED BY <1>4, <1>5, <1>10, <2>1, <2>2
  <1>12. size = Len(us) /\ Len(made) \in {size, size - 1}
    BY <1>4, <1>5, <1>7, <1>9, <1>11
  <1>13. ASSUME NEW i \in DOMAIN ls, i < s PROVE HasLine(u, i, ls[i])
    <2>1. i \in 1 .. from
      BY <1>10, <1>13 DEF upto
    <2>2. i \in 1 .. Len(us) /\ us[i] = ls[i]
      BY <1>4, <1>5, <1>7, <2>1
    <2> QED BY <1>9, <2>2
  <1>14. ASSUME NEW i \in DOMAIN nl PROVE HasLine(u, Cardinality(upto) + i, nl[i])
    <2>1. i \in 1 .. m
      BY <1>4
    <2>2. from + i \in 1 .. Len(us) /\ us[from + i] = nl[i]
      <3> DEFINE l == n - to
      <3>1. l \in Nat /\ from \in Nat /\ Len(us) = from + m + l
        BY <1>4, <1>5, <1>7
      <3> HIDE DEF l
      <3>2. from + i \in 1 .. Len(us)
        BY <1>4, <2>1, <3>1
      <3> QED BY <1>7, <2>1, <3>2
    <2> QED BY <1>9, <1>11, <2>2
  <1>15. ASSUME NEW i \in after PROVE HasLine(u, size - (n - i), ls[i])
    <2> DEFINE j == i - to + from + m
    <2>0. i \in to + 1 .. n
      BY <1>10
    <2>1. us[j] = ls[i]
      BY <1>7, <2>0
    <2>2. j \in 1 .. Len(us) /\ j = size - (n - i)
      <3> DEFINE l == n - to
                 k == i - to
      <3>1. /\ l \in Nat /\ k \in 1 .. l /\ n - i = l - k /\ from \in Nat
            /\ size = from + m + l /\ Len(us) = size /\ j = k + from + m
        BY <1>4, <1>5, <1>7, <1>12, <2>0
      <3> HIDE DEF l, k, j, size
      <3> QED BY <1>4, <3>1
    <2> HIDE DEF j
    <2> QED BY <1>9, <2>1, <2>2
  <1> HIDE DEF size
  <1>16. size = Cardinality(upto) + m + Cardinality(after)
    BY DEF size
  <1> QED BY <1>12, <1>13, <1>14, <1>15, <1>16
          DEF IsSplicedIn, made, u, ls, upto, after, m, nl, n

(* Both ways to replace do what their description says.                    *)
LEMMA ReplacementsAreMade ==
  ASSUME NEW in \in Inputs, IsValid(in), in.tool = "replace", NEW t \in Texts,
         t # Absent, Transformed(in, t).ok
  PROVE  ReplacedAsPromised(in, t, Transformed(in, t).text)
PROOF
  <1>1. /\ in.new \in Texts
        /\ in.regex = Absent => in.start \in Nat /\ in.end \in Nat
    BY DEF Inputs, Text, Number, IsValid, IsReadCall, IsWriteCall, IsEditCall,
           IsReplaceCall, IsBashCall, IsGrepCall, IsGlobCall, IsListCall
  <1>2. CASE in.regex # Absent
    <2>1. Transformed(in, t) = ReplaceRegex(t, in.regex, in.new)
      BY <1>2 DEF Transformed
    <2>2. Transformed(in, t) = Computed(Replaced(t, in.regex, in.new))
      BY <2>1 DEF ReplaceRegex, Failure
    <2>3. Transformed(in, t).text = Replaced(t, in.regex, in.new)
      BY <2>2 DEF Computed
    <2>4. IsReplacedIn(Transformed(in, t).text, t, in.regex, in.new)
      BY <1>1, <2>3, WordsAreReplaced
    <2> QED BY <1>2, <2>4 DEF ReplacedAsPromised
  <1>3. CASE in.regex = Absent
    <2>1. Transformed(in, t) = ReplaceLines(t, in.start, in.end, in.new)
      BY <1>3 DEF Transformed
    <2>2. IsSplicedIn(Transformed(in, t).text, t, in.start, in.end, in.new)
      BY <1>1, <1>3, <2>1, LinesAreSpliced
    <2> QED BY <1>3, <2>2 DEF ReplacedAsPromised
  <1> QED BY <1>2, <1>3

-----------------------------------------------------------------------------
(* What a grep finds, line after line.                                     *)

(* What a call that is alone has done so far: nothing to any other file,   *)
(* a text that is the one it is to write, and a list of all matches up to  *)
(* the file it is at.                                                      *)
DiskIsUndisturbed ==
  \A c \in Running : alone[c] =>
    \A p \in PathSet : disk[p] = before[c][p] \/ (c \in Filling /\ p = input[c].path)

TextIsMeant ==
  \A c \in Writing : alone[c] =>
    IF input[c].tool = "write" THEN held[c] = input[c].new
    ELSE Transformed(input[c], before[c][input[c].path]) = Computed(held[c])

(* The matches of d up to line l of the i-th path, as h lists them.        *)
ListsWith(f, d, in, h, i, l) ==
  /\ Len(h) <= Most(in)
  /\ f \in [DOMAIN h -> MatchesOf(d, in.regex)]
  /\ \A k \in DOMAIN h : h[k] = <<Paths[f[k][1]], f[k][2]>> /\ ~Precedes(<<i, l>>, f[k])
  /\ \A k, n \in DOMAIN h : k < n => Precedes(f[k], f[n])
  /\ \A m \in MatchesOf(d, in.regex) :
       \/ \E k \in DOMAIN h : f[k] = m
       \/ Precedes(<<i, l>>, m)
       \/ Len(h) = Most(in) /\ \A k \in DOMAIN h : Precedes(f[k], m)

Entries == Seq(PathSet \X Nat)
Lists(d, in, h, i, l) == h \in Entries /\ \E f : ListsWith(f, d, in, h, i, l)

GrepIsAtPath ==
  /\ \A c \in Running : input[c].tool = "grep" /\ alone[c] =>
       /\ Lists(before[c], input[c], held[c], at[c], 0)
       /\ at[c] <= Len(Paths) => Len(held[c]) < Most(input[c])
  /\ \A c \in plan.calls : phase[c] = "idle" => held[c] = <<>> /\ at[c] = 1

ToolsInv == WholeInv /\ DiskIsUndisturbed /\ TextIsMeant /\ GrepIsAtPath


(* A line that matches is added, up to the limit.                          *)
WithLineOf(h, p, ls, i, w, most) ==
  IF Len(h) < most /\ Occurs(<<w>>, ls[i]) THEN Append(h, <<p, i>>) ELSE h

(* How matches are found.                                                  *)
LEMMA FoundStepwise ==
  ASSUME NEW found \in Entries, NEW p \in PathSet, NEW ls \in Seq(Seq(Words)),
         NEW w, NEW most
  PROVE  \E q : /\ Found(found, p, ls, w, most) = q[Len(ls)] /\ q[0] = found
                /\ \A i \in 1 .. Len(ls) :
                     q[i] = WithLineOf(q[i - 1], p, ls, i, w, most)
PROOF
  <1> DEFINE n == Len(ls)
             S == Entries
             Loop(h) == [i \in 0 .. n |->
                           IF i = 0 THEN found
                           ELSE IF Len(h[i - 1]) < most /\ Occurs(<<w>>, ls[i])
                                THEN Append(h[i - 1], <<p, i>>) ELSE h[i - 1]]
             g == [x \in (1 .. n) \X S |-> WithLineOf(x[2], p, ls, x[1], w, most)]
             q == CHOOSE h : h = Loop(h)
  <1>1. n \in Nat /\ \A i \in 1 .. n : i \in Nat
    OBVIOUS
  <1>2. g \in [(1 .. n) \X S -> S] /\ found \in S
    <2>1. ASSUME NEW i \in 1 .. n, NEW s \in S PROVE WithLineOf(s, p, ls, i, w, most) \in S
      <3>1. i \in Nat /\ <<p, i>> \in PathSet \X Nat
        BY <1>1
      <3>2. Append(s, <<p, i>>) \in Entries
        BY <3>1 DEF Entries
      <3> QED BY <3>2 DEF WithLineOf
    <2>2. found \in S
      OBVIOUS
    <2> HIDE DEF n, S
    <2> QED BY <2>1, <2>2
  <1> HIDE DEF n, g, S
  <1>3. PICK f : Iterates(f, n, S, found, g)
    BY <1>1, <1>2, ThereIsAnIteration
  <1>4. \A h : Loop(h) = [i \in 0 .. n |->
                           IF i = 0 THEN found ELSE WithLineOf(h[i - 1], p, ls, i, w, most)]
    BY DEF WithLineOf
  <1>5. \A i \in 1 .. n, s \in S : g[<<i, s>>] = WithLineOf(s, p, ls, i, w, most)
    BY DEF g
  <1>6. f = Loop(f)
    <2>1. ASSUME NEW i \in 1 .. n PROVE f[i] = WithLineOf(f[i - 1], p, ls, i, w, most)
      <3>1. f[i - 1] \in S /\ f[i] = g[<<i, f[i - 1]>>]
        BY <1>1, <1>3 DEF Iterates
      <3> QED BY <1>5, <3>1
    <2>2. \A i \in 0 .. n : f[i] = IF i = 0 THEN found ELSE WithLineOf(f[i - 1], p, ls, i, w, most)
      BY <1>1, <1>3, <2>1 DEF Iterates
    <2>3. f = [i \in 0 .. n |-> f[i]]
      BY <1>3 DEF Iterates
    <2> HIDE DEF Loop
    <2> QED BY <1>4, <2>2, <2>3
  <1>7. Found(found, p, ls, w, most) = q[n]
    BY DEF Found, q, n
  <1> HIDE DEF Loop
  <1>8. q = Loop(q)
    BY <1>6
  <1> HIDE DEF q
  <1>9. q = [i \in 0 .. n |-> IF i = 0 THEN found ELSE WithLineOf(q[i - 1], p, ls, i, w, most)]
    BY <1>4, <1>8
  <1>10. q[0] = found /\ \A i \in 1 .. n : q[i] = WithLineOf(q[i - 1], p, ls, i, w, most)
    <2>1. 0 \in 0 .. n /\ \A i \in 1 .. n : i \in 0 .. n /\ i # 0
      BY <1>1
    <2> QED BY <1>9, <2>1
  <1> QED BY <1>7, <1>10 DEF n

(* Where a disk matches.                                                   *)
LEMMA PlacesOfMatches ==
  ASSUME NEW d \in [PathSet -> Text], NEW w
  PROVE  /\ \A m \in MatchesOf(d, w) :
              /\ m = <<m[1], m[2]>> /\ m[1] \in 1 .. Len(Paths) /\ m[2] \in Nat /\ m[2] # 0
              /\ d[Paths[m[1]]] # Absent /\ m[2] <= Len(Lines(d[Paths[m[1]]]))
         /\ \A i \in 1 .. Len(Paths) : d[Paths[i]] # Absent =>
              \A l \in 1 .. Len(Lines(d[Paths[i]])) :
                <<i, l>> \in MatchesOf(d, w) <=> Occurs(<<w>>, Lines(d[Paths[i]])[l])
PROOF
  <1> DEFINE F == {i \in DOMAIN Paths : d[Paths[i]] # Absent}
             At2(i) == {l \in DOMAIN Lines(d[Paths[i]]) : Occurs(<<w>>, Lines(d[Paths[i]])[l])}
             M == MatchesOf(d, w)
  <1>1. DOMAIN Paths = 1 .. Len(Paths) /\ \A i \in DOMAIN Paths : Paths[i] \in PathSet
    BY FileAssumption
  <1>2. \A i \in F : d[Paths[i]] \in Texts
    BY <1>1 DEF Text
  <1>3. \A i \in F : /\ DOMAIN Lines(d[Paths[i]]) = 1 .. Len(Lines(d[Paths[i]]))
                     /\ Len(Lines(d[Paths[i]])) \in Nat
    <2> TAKE i \in F
    <2>1. Lines(d[Paths[i]]) \in Seq(Seq(Words))
      BY <1>2, LinesAreWords
    <2> QED BY <2>1
  <1>4. M = UNION {{<<i, l>> : l \in At2(i)} : i \in F}
    BY DEF MatchesOf
  <1> HIDE DEF M
  <1>5. \A m \in M : \E i \in F : \E l \in At2(i) : m = <<i, l>>
    BY <1>4
  <1>6. \A i \in F : \A l \in At2(i) : <<i, l>> \in M
    BY <1>4
  <1>7. ASSUME NEW m \in M
        PROVE  /\ m = <<m[1], m[2]>> /\ m[1] \in 1 .. Len(Paths) /\ m[2] \in Nat /\ m[2] # 0
               /\ d[Paths[m[1]]] # Absent /\ m[2] <= Len(Lines(d[Paths[m[1]]]))
    <2>1. PICK i \in F : \E l \in At2(i) : m = <<i, l>>
      BY <1>5
    <2>2. PICK l \in At2(i) : m = <<i, l>>
      BY <2>1
    <2>3. m[1] = i /\ m[2] = l
      BY <2>2
    <2>4. i \in 1 .. Len(Paths) /\ d[Paths[i]] # Absent
      BY <1>1
    <2>5. l \in 1 .. Len(Lines(d[Paths[i]])) /\ Len(Lines(d[Paths[i]])) \in Nat
      BY <1>3
    <2> QED BY <2>2, <2>3, <2>4, <2>5
  <1>8. ASSUME NEW i \in 1 .. Len(Paths), d[Paths[i]] # Absent,
               NEW l \in 1 .. Len(Lines(d[Paths[i]]))
        PROVE  <<i, l>> \in M <=> Occurs(<<w>>, Lines(d[Paths[i]])[l])
    <2>1. i \in F /\ l \in DOMAIN Lines(d[Paths[i]])
      BY <1>1, <1>3, <1>8
    <2>2. <<i, l>> \in M => l \in At2(i)
      <3>1. SUFFICES ASSUME <<i, l>> \in M PROVE l \in At2(i)
        OBVIOUS
      <3>2. PICK j \in F : \E k \in At2(j) : <<i, l>> = <<j, k>>
        BY <1>5, <3>1
      <3>3. PICK k \in At2(j) : <<i, l>> = <<j, k>>
        BY <3>2
      <3>4. i = j /\ l = k
        BY <3>3
      <3> QED BY <3>3, <3>4
    <2> QED BY <1>6, <2>1, <2>2
  <1> QED BY <1>7, <1>8 DEF M

(* The next line is listed if it matches and there is room for it.         *)
LEMMA ListedFurther ==
  ASSUME NEW d \in [PathSet -> Text], NEW in, Most(in) \in Nat,
         NEW i \in 1 .. Len(Paths), d[Paths[i]] # Absent,
         NEW l \in 1 .. Len(Lines(d[Paths[i]])), NEW h, Lists(d, in, h, i, l - 1)
  PROVE  Lists(d, in, WithLineOf(h, Paths[i], Lines(d[Paths[i]]), l, in.regex, Most(in)), i, l)
PROOF
  <1> DEFINE M == MatchesOf(d, in.regex)
             most == Most(in)
             ls == Lines(d[Paths[i]])
             n == Len(h)
             new == <<i, l>>
             Adds == n < most /\ Occurs(<<in.regex>>, ls[l])
  <1>1. PICK f : ListsWith(f, d, in, h, i, l - 1)
    BY DEF Lists
  <1>2. /\ h \in Entries /\ n \in Nat /\ DOMAIN h = 1 .. n
    BY DEF Lists, Entries
  <1>3. /\ n <= most /\ f \in [DOMAIN h -> M]
        /\ \A k \in DOMAIN h : h[k] = <<Paths[f[k][1]], f[k][2]>> /\ ~Precedes(<<i, l - 1>>, f[k])
        /\ \A k, j \in DOMAIN h : k < j => Precedes(f[k], f[j])
        /\ \A m \in M : \/ \E k \in DOMAIN h : f[k] = m
                        \/ Precedes(<<i, l - 1>>, m)
                        \/ n = most /\ \A k \in DOMAIN h : Precedes(f[k], m)
    BY <1>1 DEF ListsWith
  <1>4. /\ \A m \in M : m = <<m[1], m[2]>> /\ m[1] \in Nat /\ m[2] \in Nat
        /\ new \in M <=> Occurs(<<in.regex>>, ls[l])
    BY PlacesOfMatches
  <1>5. i \in Nat /\ l \in Nat /\ Paths[i] \in PathSet
    <2>1. Paths \in Seq(PathSet)
      BY FileAssumption
    <2>2. Len(Paths) \in Nat /\ Paths[i] \in PathSet
      BY <2>1
    <2>3. ls \in Seq(Seq(Words))
      <3>1. d[Paths[i]] \in Texts
        BY <2>2 DEF Text
      <3> QED BY <3>1, LinesAreWords
    <2> QED BY <2>2, <2>3
  <1> HIDE DEF M, most, ls, n
  <1>6. \A m \in M : Precedes(<<i, l - 1>>, m) => m = new \/ Precedes(new, m)
    BY <1>4, <1>5 DEF Precedes
  <1>7. \A m \in M : ~Precedes(<<i, l - 1>>, m) => Precedes(m, new) /\ ~Precedes(new, m)
    BY <1>4, <1>5 DEF Precedes
  <1>8. \A k \in DOMAIN h : f[k] \in M /\ Precedes(f[k], new) /\ ~Precedes(new, f[k])
    BY <1>3, <1>7
  <1>9. CASE ~Adds
    <2>1. \A m \in M : \/ \E k \in DOMAIN h : f[k] = m
                       \/ Precedes(new, m)
                       \/ n = most /\ \A k \in DOMAIN h : Precedes(f[k], m)
      <3> SUFFICES ASSUME NEW m \in M, ~\E k \in DOMAIN h : f[k] = m, ~Precedes(new, m)
                   PROVE  n = most /\ \A k \in DOMAIN h : Precedes(f[k], m)
        OBVIOUS
      <3>1. CASE Precedes(<<i, l - 1>>, m)
        <4>1. m = new
          BY <1>6, <3>1
        <4>2. ~(n < most)
          BY <1>4, <1>9, <4>1
        <4>3. most \in Nat
          BY DEF most
        <4>4. n = most
          BY <1>2, <1>3, <4>2, <4>3
        <4> QED BY <1>8, <4>1, <4>4
      <3>2. CASE ~Precedes(<<i, l - 1>>, m)
        BY <1>3, <3>2
      <3> QED BY <3>1, <3>2
    <2>2. ListsWith(f, d, in, h, i, l)
      BY <1>3, <1>8, <2>1 DEF ListsWith, M, most, n
    <2> QED BY <1>2, <1>9, <2>2 DEF Lists, WithLineOf, n, most, ls
  <1>10. CASE Adds
    <2> DEFINE q == Append(h, <<Paths[i], l>>)
               g == [k \in 1 .. n + 1 |-> IF k = n + 1 THEN new ELSE f[k]]
    <2>1. /\ q \in Entries /\ Len(q) = n + 1 /\ DOMAIN q = 1 .. n + 1
          /\ q[n + 1] = <<Paths[i], l>> /\ \A k \in DOMAIN h : q[k] = h[k] /\ k \in DOMAIN q
      BY <1>2, <1>5 DEF Entries, n
    <2>2. g[n + 1] = new /\ \A k \in DOMAIN h : g[k] = f[k]
      BY <1>2
    <2>3. \A k \in DOMAIN q : k = n + 1 \/ k \in DOMAIN h
      BY <1>2, <2>1
    <2>4. g = [k \in DOMAIN q |-> g[k]] /\ n + 1 \in DOMAIN q
      BY <1>2, <2>1
    <2>5. n < most /\ most \in Nat /\ new \in M
      BY <1>4, <1>10 DEF most
    <2> HIDE DEF q, g
    <2>6. g \in [DOMAIN q -> M]
      <3>1. \A k \in DOMAIN q : g[k] \in M
        BY <1>8, <2>2, <2>3, <2>5
      <3> QED BY <2>4, <3>1
    <2>7. ASSUME NEW k \in DOMAIN q
          PROVE  q[k] = <<Paths[g[k][1]], g[k][2]>> /\ ~Precedes(new, g[k])
      <3>1. CASE k = n + 1
        <4>1. new[1] = i /\ new[2] = l /\ ~Precedes(new, new)
          BY <1>5 DEF Precedes
        <4> QED BY <2>1, <2>2, <3>1, <4>1
      <3>2. CASE k \in DOMAIN h
        BY <1>3, <1>8, <2>1, <2>2, <3>2
      <3> QED BY <2>3, <3>1, <3>2
    <2>8. ASSUME NEW k \in DOMAIN q, NEW j \in DOMAIN q, k < j PROVE Precedes(g[k], g[j])
      <3>1. k \in DOMAIN h
        BY <1>2, <2>1, <2>8
      <3>2. CASE j = n + 1
        BY <1>8, <2>2, <3>1, <3>2
      <3>3. CASE j \in DOMAIN h
        BY <1>3, <2>2, <2>8, <3>1, <3>3
      <3> QED BY <2>3, <3>2, <3>3
    <2>9. ASSUME NEW m \in M
          PROVE  \/ \E k \in DOMAIN q : g[k] = m
                 \/ Precedes(new, m)
                 \/ n + 1 = most /\ \A k \in DOMAIN q : Precedes(g[k], m)
      <3>1. CASE \E k \in DOMAIN h : f[k] = m
        BY <2>1, <2>2, <3>1
      <3>2. CASE Precedes(<<i, l - 1>>, m)
        BY <1>6, <2>2, <2>4, <3>2
      <3>3. n # most
        BY <1>2, <2>5
      <3> QED BY <1>3, <3>1, <3>2, <3>3
    <2>10. Len(q) <= most
      BY <1>2, <2>1, <2>5
    <2>11. ListsWith(g, d, in, q, i, l)
      <3>1. \A m \in M : \/ \E k \in DOMAIN q : g[k] = m
                         \/ Precedes(new, m)
                         \/ Len(q) = most /\ \A k \in DOMAIN q : Precedes(g[k], m)
        BY <2>1, <2>9
      <3> QED BY <2>6, <2>7, <2>8, <2>10, <3>1 DEF ListsWith, M, most
    <2>12. Lists(d, in, q, i, l)
      BY <2>1, <2>11 DEF Lists
    <2> QED BY <1>10, <2>12 DEF WithLineOf, q, n, most, ls
  <1> QED BY <1>9, <1>10

(* A file's lines are listed.                                              *)
LEMMA FileIsListed ==
  ASSUME NEW d \in [PathSet -> Text], NEW in, Most(in) \in Nat,
         NEW i \in 1 .. Len(Paths), d[Paths[i]] # Absent, NEW h, Lists(d, in, h, i, 0)
  PROVE  LET ls == Lines(d[Paths[i]])
         IN Lists(d, in, Found(h, Paths[i], ls, in.regex, Most(in)), i, Len(ls))
PROOF
  <1> DEFINE ls == Lines(d[Paths[i]])
             n == Len(ls)
             w == in.regex
             p == Paths[i]
             most == Most(in)
  <1>1. p \in PathSet
    <2>1. Paths \in Seq(PathSet)
      BY FileAssumption
    <2> QED BY <2>1
  <1>2. ls \in Seq(Seq(Words)) /\ n \in Nat
    <2>1. d[p] \in Texts
      BY <1>1 DEF Text
    <2>2. ls \in Seq(Seq(Words))
      BY <2>1, LinesAreWords
    <2> QED BY <2>2
  <1>3. h \in Entries
    BY DEF Lists
  <1>4. PICK q : /\ Found(h, p, ls, w, most) = q[n] /\ q[0] = h
                 /\ \A l \in 1 .. n : q[l] = WithLineOf(q[l - 1], p, ls, l, w, most)
    <2> HIDE DEF p, ls, w, most
    <2> QED BY <1>1, <1>2, <1>3, FoundStepwise
  <1> DEFINE J == {l \in 0 .. n : Lists(d, in, q[l], i, l)}
  <1>5. 0 \in J
    BY <1>2, <1>4
  <1>6. ASSUME NEW l \in 1 .. n, l - 1 \in J PROVE l \in J
    <2>1. Lists(d, in, q[l - 1], i, l - 1)
      BY <1>6
    <2>2. Lists(d, in, WithLineOf(q[l - 1], p, ls, l, w, most), i, l)
      BY <2>1, ListedFurther
    <2>3. q[l] = WithLineOf(q[l - 1], p, ls, l, w, most)
      BY <1>4
    <2>4. l \in 0 .. n
      BY <1>2
    <2> QED BY <2>2, <2>3, <2>4
  <1> HIDE DEF J
  <1>7. \A l \in 0 .. n : l \in J
    BY <1>2, <1>5, <1>6, StepByStep
  <1>8. Lists(d, in, q[n], i, n)
    BY <1>2, <1>7 DEF J
  <1> QED BY <1>4, <1>8

(* A file's last line comes before the next file, and a full list before   *)
(* everything.                                                             *)
LEMMA OnToTheNextFile ==
  ASSUME NEW d \in [PathSet -> Text], NEW in, NEW i \in 1 .. Len(Paths), NEW n \in Nat, NEW h,
         Lists(d, in, h, i, n), d[Paths[i]] # Absent => n >= Len(Lines(d[Paths[i]]))
  PROVE  Lists(d, in, h, i + 1, 0)
PROOF
  <1> DEFINE M == MatchesOf(d, in.regex)
  <1>1. PICK f : ListsWith(f, d, in, h, i, n)
    BY DEF Lists
  <1>2. \A m \in M : /\ m[1] \in Nat /\ m[2] \in Nat /\ m[2] # 0
                     /\ m[1] = i => m[2] <= n
    <2> TAKE m \in M
    <2>1. /\ m[1] \in 1 .. Len(Paths) /\ m[2] \in Nat /\ m[2] # 0
          /\ d[Paths[m[1]]] # Absent /\ m[2] <= Len(Lines(d[Paths[m[1]]]))
      BY PlacesOfMatches
    <2>2. Len(Paths) \in Nat
      BY FileAssumption
    <2>3. m[1] = i => m[2] <= n
      <3>1. SUFFICES ASSUME m[1] = i PROVE m[2] <= n
        OBVIOUS
      <3>2. n >= Len(Lines(d[Paths[i]])) /\ m[2] <= Len(Lines(d[Paths[i]]))
        BY <2>1, <3>1
      <3>3. Len(Lines(d[Paths[i]])) \in Nat
        <4>1. Paths \in Seq(PathSet)
          BY FileAssumption
        <4>2. d[Paths[i]] \in Texts
          BY <2>1, <3>1, <4>1 DEF Text
        <4>3. Lines(d[Paths[i]]) \in Seq(Seq(Words))
          BY <4>2, LinesAreWords
        <4> QED BY <4>3
      <3> QED BY <2>1, <3>2, <3>3
    <2> QED BY <2>1, <2>2, <2>3
  <1>3. i \in Nat
    BY FileAssumption
  <1> HIDE DEF M
  <1>4. \A m \in M : Precedes(<<i, n>>, m) <=> Precedes(<<i + 1, 0>>, m)
    BY <1>2, <1>3 DEF Precedes
  <1>5. ListsWith(f, d, in, h, i + 1, 0)
    <2>1. \A k \in DOMAIN h : f[k] \in M
      BY <1>1 DEF ListsWith, M
    <2> QED BY <1>1, <1>4, <2>1 DEF ListsWith, M
  <1> QED BY <1>5 DEF Lists

(* A list that is full needs no further file.                              *)
LEMMA FullAtTheEnd ==
  ASSUME NEW d \in [PathSet -> Text], NEW in, Most(in) \in Nat,
         NEW i \in 1 .. Len(Paths), NEW n \in Nat, NEW h,
         Lists(d, in, h, i, n), Len(h) >= Most(in)
  PROVE  Lists(d, in, h, Len(Paths) + 1, 0)
PROOF
  <1> DEFINE M == MatchesOf(d, in.regex)
             end == <<Len(Paths) + 1, 0>>
  <1>1. PICK f : ListsWith(f, d, in, h, i, n)
    BY DEF Lists
  <1>2. i \in Nat /\ Len(Paths) \in Nat
    BY FileAssumption
  <1>3. \A m \in M : m[1] \in 1 .. Len(Paths) /\ m[2] \in Nat
    BY PlacesOfMatches
  <1>4. \A k \in DOMAIN h : f[k] \in M /\ ~Precedes(<<i, n>>, f[k])
    BY <1>1 DEF ListsWith
  <1>5. Len(h) = Most(in)
    <2>1. Len(h) \in Nat /\ Len(h) <= Most(in)
      BY <1>1 DEF ListsWith, Lists, Entries
    <2> QED BY <2>1
  <1> HIDE DEF M
  <1>6. \A m, k \in M : Precedes(<<i, n>>, m) /\ ~Precedes(<<i, n>>, k) => Precedes(k, m)
    BY <1>2, <1>3 DEF Precedes
  <1>7. \A m \in M : ~Precedes(end, m)
    BY <1>2, <1>3 DEF Precedes
  <1> HIDE DEF end
  <1>8. \A m \in M : \/ \E k \in DOMAIN h : f[k] = m
                     \/ Len(h) = Most(in) /\ \A k \in DOMAIN h : Precedes(f[k], m)
    <2> TAKE m \in M
    <2>1. Precedes(<<i, n>>, m) => \A k \in DOMAIN h : Precedes(f[k], m)
      BY <1>4, <1>6
    <2>2. \/ \E k \in DOMAIN h : f[k] = m
          \/ Precedes(<<i, n>>, m)
          \/ Len(h) = Most(in) /\ \A k \in DOMAIN h : Precedes(f[k], m)
      BY <1>1 DEF ListsWith, M
    <2> QED BY <1>5, <2>1, <2>2
  <1>9. ListsWith(f, d, in, h, Len(Paths) + 1, 0)
    BY <1>1, <1>4, <1>7, <1>8 DEF ListsWith, M, end
  <1> QED BY <1>9 DEF Lists

(* A list that has come past the last file is what a grep promises.        *)
LEMMA AllIsListed ==
  ASSUME NEW d \in [PathSet -> Text], NEW in \in Inputs, in.tool = "grep", NEW o,
         Lists(d, in, o.text, Len(Paths) + 1, 0)
  PROVE  GreppedAsPromised(in, d, o)
PROOF
  <1> DEFINE M == MatchesOf(d, in.regex)
             h == o.text
  <1>1. PICK f : ListsWith(f, d, in, h, Len(Paths) + 1, 0)
    BY DEF Lists
  <1>2. Len(Paths) \in Nat /\ \A m \in M : m[1] \in 1 .. Len(Paths)
    <2>1. Len(Paths) \in Nat
      BY FileAssumption
    <2>2. \A m \in M : m[1] \in 1 .. Len(Paths)
      BY PlacesOfMatches
    <2> QED BY <2>1, <2>2
  <1>3. \A m \in M : ~Precedes(<<Len(Paths) + 1, 0>>, m)
    <2> HIDE DEF M
    <2> QED BY <1>2 DEF Precedes
  <1>4. /\ Len(h) <= Most(in) /\ f \in [DOMAIN h -> M]
        /\ \A k \in DOMAIN h : h[k] = <<Paths[f[k][1]], f[k][2]>>
        /\ \A k, n \in DOMAIN h : k < n => Precedes(f[k], f[n])
        /\ \A m \in M : \/ \E k \in DOMAIN h : f[k] = m
                        \/ Len(h) = Most(in) /\ \A k \in DOMAIN h : Precedes(f[k], m)
    BY <1>1, <1>3 DEF ListsWith
  <1>5. /\ Len(h) \in Nat /\ in.max \in Nat /\ (Len(h) > 0 => h # <<>>)
        /\ Most(in) = IF in.max = 0 THEN 1 ELSE in.max
    <2>1. h \in Entries
      BY DEF Lists
    <2> QED BY <2>1 DEF Inputs, Most, Entries
  <1>6. /\ Len(h) <= in.max \/ Len(h) = 1
        /\ Len(h) = Most(in) => h # <<>> /\ Len(h) >= in.max
    <2> DEFINE l == Len(h)
               most == Most(in)
               max == in.max
    <2>1. /\ l \in Nat /\ max \in Nat /\ l <= most /\ (l > 0 => h # <<>>)
          /\ most = IF max = 0 THEN 1 ELSE max
      BY <1>4, <1>5
    <2> HIDE DEF l, most, max
    <2>2. (l <= max \/ l = 1) /\ (l = most => h # <<>> /\ l >= max)
      BY <2>1
    <2> QED BY <2>2 DEF l, most, max
  <1> QED BY <1>4, <1>6 DEF GreppedAsPromised

(* A call that is alone when another call's step is over is that call.     *)
LEMMA SoleCall ==
  ASSUME ToolsInv, NEW c \in Running, Running' \subseteq Running, UNCHANGED alone
  PROVE  /\ \A d \in Running' : alone'[d] => d = c
         /\ c \notin Running' => \A d \in Running' : ~alone'[d]
PROOF
  <1>1. AloneIsAlone
    BY DEF ToolsInv, WholeInv
  <1> QED BY <1>1 DEF AloneIsAlone

(* Of a call that is alone and has not begun to write, the disk is what it *)
(* was.                                                                    *)
LEMMA DiskIsAsBefore ==
  ASSUME ToolsInv, NEW c \in Running, alone[c], c \notin Filling
  PROVE  \A p \in PathSet : disk[p] = before[c][p]
  BY DEF ToolsInv, DiskIsUndisturbed

(* A grep has a pattern, and a limit of at least one match.                *)
LEMMA MostIsThere ==
  ASSUME NEW in \in Inputs, in.tool = "grep"
  PROVE  Most(in) \in Nat /\ Most(in) > 0 /\ in.regex \in Pattern
  BY DEF Inputs, Most

(* A call begins: it has done nothing yet, or is not alone.                *)
LEMMA MeantCall ==
  ASSUME ToolsInv, NEW c \in plan.calls, Call(c)
  PROVE  DiskIsUndisturbed' /\ TextIsMeant' /\ GrepIsAtPath'
PROOF
  <1>1. ToolsCore /\ AloneIsAlone /\ GrepIsAtPath
    BY DEF ToolsInv, WholeInv
  <1>2. /\ phase[c] = "idle" /\ UNCHANGED <<plan, disk, input, held, at>>
        /\ before' = [before EXCEPT ![c] = disk]
        /\ DOMAIN phase = plan.calls /\ DOMAIN alone = plan.calls
    BY <1>1 DEF Call, ToolsCore, ChangesNothing
  <1>3. alone' = [d \in plan.calls |->
                    IF d \in Running \cup {c} THEN alone[d] /\ Running = {} ELSE alone[d]]
    BY <1>2 DEF Call
  <1>4. phase' = [phase EXCEPT ![c] = "begun"] \/ phase' = [phase EXCEPT ![c] = "done"]
    BY DEF Call, Told
  <1>5. /\ DOMAIN phase' = plan.calls /\ phase'[c] \in {"begun", "done"}
        /\ \A d \in plan.calls \ {c} : phase'[d] = phase[d]
    BY <1>2, <1>4
  <1>6. /\ \A d \in Running' : d \in Running \cup {c} /\ d \in plan.calls
        /\ Writing' \subseteq Running' /\ c \notin Writing'
    BY <1>2, <1>5 DEF Running, Writing
  <1>7. \A d \in Running' : alone'[d] => d = c
    <2> SUFFICES ASSUME NEW d \in Running', alone'[d] PROVE d = c
      OBVIOUS
    <2>1. d \in Running \cup {c} /\ d \in plan.calls
      BY <1>6
    <2>2. Running = {}
      BY <1>3, <2>1
    <2> QED BY <2>1, <2>2
  <1>8. before'[c] = disk
    BY <1>1, <1>2 DEF ToolsCore
  <1>9. DiskIsUndisturbed'
    BY <1>2, <1>7, <1>8 DEF DiskIsUndisturbed
  <1>10. TextIsMeant'
    <2>1. \A d \in Writing' : ~alone'[d]
      BY <1>6, <1>7
    <2> QED BY <2>1 DEF TextIsMeant
  <1>11. GrepIsAtPath'
    <2>1. held[c] = <<>> /\ at[c] = 1
      BY <1>1, <1>2 DEF GrepIsAtPath
    <2>2. \A d \in plan.calls : phase'[d] = "idle" => held[d] = <<>> /\ at[d] = 1
      BY <1>1, <1>5 DEF GrepIsAtPath
    <2>3. ASSUME NEW d \in Running', input[d].tool = "grep", alone'[d]
          PROVE  /\ Lists(before'[d], input[d], held[d], at[d], 0)
                 /\ Len(held[d]) < Most(input[d])
      <3>1. d = c /\ input[c] \in Inputs
        BY <1>1, <1>7, <2>3, CallsOfThePlan
      <3>2. Most(input[c]) \in Nat /\ Most(input[c]) > 0
        BY <2>3, <3>1, MostIsThere
      <3> DEFINE e == <<>>
                 M == MatchesOf(disk, input[c].regex)
                 f == [k \in {} |-> 0]
      <3>3. e \in Entries /\ Len(e) = 0 /\ DOMAIN e = {}
        BY DEF Entries
      <3>4. disk \in [PathSet -> Text]
        BY <1>1 DEF ToolsCore
      <3>5. \A m \in M : Precedes(<<1, 0>>, m)
        <4>1. \A m \in M : m[1] \in 1 .. Len(Paths) /\ m[2] \in Nat /\ m[2] # 0
          BY <3>4, PlacesOfMatches
        <4>2. Len(Paths) \in Nat
          BY FileAssumption
        <4> HIDE DEF M
        <4> QED BY <4>1, <4>2 DEF Precedes
      <3> HIDE DEF e
      <3>6. f \in [DOMAIN e -> M]
        BY <3>3
      <3>7. ListsWith(f, disk, input[c], e, 1, 0)
        BY <3>2, <3>3, <3>5, <3>6 DEF ListsWith
      <3>8. Lists(disk, input[c], e, 1, 0)
        BY <3>3, <3>7 DEF Lists
      <3> QED BY <1>8, <2>1, <3>1, <3>2, <3>3, <3>8 DEF e
    <2> QED BY <1>2, <2>2, <2>3 DEF GrepIsAtPath
  <1> QED BY <1>9, <1>10, <1>11

(* Nothing happens to the calls.                                           *)
LEMMA MeantStill ==
  ASSUME ToolsInv, UNCHANGED <<plan, disk, phase, input, held, at, before, alone>>
  PROVE  DiskIsUndisturbed' /\ TextIsMeant' /\ GrepIsAtPath'
PROOF
  <1>1. Running' = Running /\ Filling' = Filling /\ Writing' = Writing
    BY DEF Running, Filling, Writing
  <1>2. DiskIsUndisturbed /\ TextIsMeant /\ GrepIsAtPath
    BY DEF ToolsInv
  <1>3. DiskIsUndisturbed'
    BY <1>1, <1>2 DEF DiskIsUndisturbed
  <1>4. TextIsMeant'
    <2>1. \A d \in Writing : Transformed(input[d], before[d][input[d].path])'
                               = Transformed(input[d], before[d][input[d].path])
      BY DEF Transformed
    <2> QED BY <1>1, <1>2, <2>1 DEF TextIsMeant
  <1>5. GrepIsAtPath'
    BY <1>1, <1>2 DEF GrepIsAtPath
  <1> QED BY <1>3, <1>4, <1>5

(* A call ends.                                                            *)
LEMMA MeantEnd ==
  ASSUME ToolsInv, NEW c \in Running, UNCHANGED <<plan, input, at, before, alone>>,
         phase' = [phase EXCEPT ![c] = "done"],
         \A d \in plan.calls \ {c} : held'[d] = held[d]
  PROVE  DiskIsUndisturbed' /\ TextIsMeant' /\ GrepIsAtPath'
PROOF
  <1>1. ToolsCore /\ GrepIsAtPath /\ DOMAIN phase = plan.calls
    BY DEF ToolsInv, WholeInv, ToolsCore
  <1>2. /\ Running' \subseteq Running /\ c \notin Running' /\ Writing' \subseteq Running'
        /\ \A d \in plan.calls : phase'[d] = "idle" => phase[d] = "idle" /\ d # c
    BY <1>1 DEF Running, Writing
  <1>3. \A d \in Running' : ~alone'[d]
    BY <1>2, SoleCall
  <1>4. DiskIsUndisturbed' /\ TextIsMeant'
    BY <1>2, <1>3 DEF DiskIsUndisturbed, TextIsMeant
  <1>5. GrepIsAtPath'
    BY <1>1, <1>2, <1>3 DEF GrepIsAtPath
  <1> QED BY <1>4, <1>5

(* What is computed is a text, or nothing is.                              *)
LEMMA TransformedIs ==
  ASSUME NEW in, NEW t, in.tool \in {"read", "edit", "replace"}
  PROVE  Transformed(in, t).ok => Transformed(in, t) = Computed(Transformed(in, t).text)
PROOF
  <1>1. \A x : Computed(x) = Computed(Computed(x).text)
    BY DEF Computed
  <1>2. Transformed(in, t) = Failure \/ \E x : Transformed(in, t) = Computed(x)
    <2>1. CASE t = Absent
      BY <2>1 DEF Transformed
    <2>2. CASE t # Absent /\ in.tool = "read"
      <3>1. Transformed(in, t) = ReadRange(t, in.start, in.end)
        BY <2>2 DEF Transformed
      <3> QED BY <3>1 DEF ReadRange
    <2>3. CASE t # Absent /\ in.tool = "edit"
      <3>1. Transformed(in, t) = EditFirst(t, in.old, in.new)
        BY <2>3 DEF Transformed
      <3> QED BY <3>1 DEF EditFirst
    <2>4. CASE t # Absent /\ in.tool = "replace"
      <3>1. \/ Transformed(in, t) = ReplaceRegex(t, in.regex, in.new)
            \/ Transformed(in, t) = ReplaceLines(t, in.start, in.end, in.new)
        BY <2>4 DEF Transformed
      <3> QED BY <3>1 DEF ReplaceRegex, ReplaceLines
    <2> QED BY <2>1, <2>2, <2>3, <2>4
  <1> QED BY <1>1, <1>2 DEF Failure

(* A text is computed, or is there in the input.                           *)
LEMMA MeantText ==
  ASSUME ToolsInv, NEW c \in plan.calls, ReadFile(c) \/ WriteFile(c)
  PROVE  DiskIsUndisturbed' /\ TextIsMeant' /\ GrepIsAtPath'
PROOF
  <1>1. ToolsCore /\ GrepIsAtPath /\ DiskIsUndisturbed /\ DOMAIN phase = plan.calls
        /\ DOMAIN held = plan.calls
    BY DEF ToolsInv, WholeInv, ToolsCore
  <1>2. /\ phase[c] = "begun" /\ c \in Running /\ c \notin Filling
        /\ UNCHANGED <<plan, disk, input, at, before, alone>>
    BY <1>1 DEF ReadFile, WriteFile, At, Running, Filling, ChangesNothing
  <1>3. input[c] \in Inputs /\ IsValid(input[c])
    BY <1>1, <1>2, CallsOfThePlan DEF ToolsCore
  <1> DEFINE made == Transformed(input[c], disk[input[c].path])
  <1> DEFINE has == /\ WriteFile(c) /\ phase' = [phase EXCEPT ![c] = "write"]
                    /\ held' = [held EXCEPT ![c] = input[c].new]
  <1>4. CASE \/ ReadFile(c) /\ ~(made.ok /\ input[c].tool # "read")
             \/ WriteFile(c) /\ Told(c, FALSE, <<>>) /\ UNCHANGED held
    <2>1. phase' = [phase EXCEPT ![c] = "done"] /\ held' = held
      BY <1>4 DEF ReadFile, Told
    <2> QED BY <1>2, <2>1, MeantEnd
  <1>5. CASE \/ ReadFile(c) /\ made.ok /\ input[c].tool # "read"
             \/ has
    <2>1. /\ phase' = [phase EXCEPT ![c] = "write"]
          /\ \A d \in plan.calls \ {c} : held'[d] = held[d]
          /\ \/ input[c].tool = "write" /\ held'[c] = input[c].new
             \/ /\ input[c].tool \in {"edit", "replace"}
                /\ made.ok /\ held'[c] = made.text
      <3>1. CASE has
        BY <1>1, <3>1 DEF WriteFile, At
      <3>2. CASE ReadFile(c) /\ made.ok /\ input[c].tool # "read"
        BY <1>1, <3>2 DEF ReadFile, At
      <3> QED BY <1>5, <3>1, <3>2
    <2>2. /\ Running' = Running /\ Filling' = Filling /\ Writing' \subseteq Running'
          /\ \A d \in plan.calls : phase'[d] = "idle" => phase[d] = "idle" /\ d # c
      <3>1. \A d : d \in Running' <=> d \in Running
        BY <1>1, <1>2, <2>1 DEF Running
      <3>2. \A d : d \in Filling' <=> d \in Filling
        BY <1>1, <1>2, <2>1 DEF Filling
      <3> QED BY <1>1, <2>1, <3>1, <3>2 DEF Running, Writing
    <2>3. \A d \in Running' : alone'[d] => d = c
      BY <1>2, <2>2, SoleCall
    <2>4. DiskIsUndisturbed'
      BY <1>1, <1>2, <2>2 DEF DiskIsUndisturbed
    <2>5. GrepIsAtPath'
      <3>1. \A d \in Running' : alone'[d] => input[d].tool # "grep"
        BY <2>1, <2>3
      <3> QED BY <1>1, <1>2, <2>1, <2>2, <3>1 DEF GrepIsAtPath
    <2>6. TextIsMeant'
      <3> SUFFICES ASSUME NEW d \in Writing', alone'[d]
                   PROVE  IF input[c].tool = "write" THEN held'[c] = input[c].new
                          ELSE Transformed(input[c], before[c][input[c].path]) = Computed(held'[c])
        <4>1. \A d \in Writing' : alone'[d] => d = c
          BY <2>2, <2>3
        <4> QED BY <1>2, <4>1 DEF TextIsMeant
      <3>1. alone[c]
        BY <1>2, <2>2, <2>3
      <3>2. CASE input[c].tool = "write"
        BY <2>1, <3>2
      <3>3. CASE input[c].tool \in {"edit", "replace"}
        <4>1. input[c].path \in PathSet
          BY <1>3, <3>3, ChangesAPath DEF Mutators
        <4>2. disk[input[c].path] = before[c][input[c].path]
          BY <1>2, <3>1, <4>1, DiskIsAsBefore
        <4>3. made.ok /\ held'[c] = made.text
          BY <2>1, <3>3
        <4>4. made = Computed(made.text)
          BY <3>3, <4>3, TransformedIs
        <4> QED BY <3>3, <4>2, <4>3, <4>4
      <3> QED BY <2>1, <3>2, <3>3
    <2> QED BY <2>4, <2>5, <2>6
  <1>6. WriteFile(c) => has \/ (Told(c, FALSE, <<>>) /\ UNCHANGED held)
    <2> HIDE DEF made
    <2> QED BY DEF WriteFile
  <1> QED BY <1>4, <1>5, <1>6

(* A file is emptied, or cannot be opened.                                 *)
LEMMA MeantEmptying ==
  ASSUME ToolsInv, NEW c \in plan.calls, Truncate(c)
  PROVE  DiskIsUndisturbed' /\ TextIsMeant' /\ GrepIsAtPath'
PROOF
  <1>1. /\ ToolsCore /\ GrepIsAtPath /\ DiskIsUndisturbed /\ TextIsMeant
        /\ DOMAIN phase = plan.calls /\ DOMAIN disk = PathSet
    BY DEF ToolsInv, WholeInv, ToolsCore
  <1>2. /\ phase[c] = "write" /\ c \in Running /\ c \notin Filling
        /\ UNCHANGED <<plan, input, held, at, before, alone>>
    BY <1>1 DEF Truncate, At, Running, Filling
  <1>a. CASE phase' = [phase EXCEPT ![c] = "done"]
    BY <1>2, <1>a, MeantEnd
  <1>b. CASE /\ disk' = [disk EXCEPT ![input[c].path] = <<>>]
             /\ phase' = [phase EXCEPT ![c] = "fill"]
    <2>1. /\ Running' = Running /\ Writing' = Writing /\ c \in Filling'
          /\ \A d \in plan.calls : phase'[d] = "idle" => phase[d] = "idle"
      <3>1. \A d : d \in Running' <=> d \in Running
        BY <1>1, <1>2, <1>b DEF Running
      <3>2. \A d : d \in Writing' <=> d \in Writing
        BY <1>1, <1>2, <1>b DEF Writing
      <3>3. c \in Filling'
        BY <1>1, <1>2, <1>b DEF Filling
      <3> QED BY <1>1, <1>2, <1>b, <3>1, <3>2, <3>3
    <2>2. \A d \in Running' : alone'[d] => d = c
      BY <1>2, <1>b, <2>1, SoleCall
    <2>3. DiskIsUndisturbed'
      <3> SUFFICES ASSUME alone[c], NEW p \in PathSet
                   PROVE  disk'[p] = before[c][p] \/ p = input[c].path
        BY <1>2, <1>b, <2>1, <2>2 DEF DiskIsUndisturbed
      <3>1. disk[p] = before[c][p]
        BY <1>2, <1>b, DiskIsAsBefore
      <3> QED BY <1>1, <1>2, <1>b, <3>1
    <2>4. TextIsMeant'
      <3>1. \A d \in Writing : Transformed(input[d], before[d][input[d].path])'
                                 = Transformed(input[d], before[d][input[d].path])
        BY <1>2, <1>b DEF Transformed
      <3> QED BY <1>1, <1>2, <1>b, <2>1, <3>1 DEF TextIsMeant
    <2>5. GrepIsAtPath'
      BY <1>1, <1>2, <1>b, <2>1 DEF GrepIsAtPath
    <2> QED BY <2>3, <2>4, <2>5
  <1> QED BY <1>a, <1>b DEF Truncate, Changes, Told

(* A grep goes through a file.                                             *)
LEMMA MeantGrep ==
  ASSUME ToolsInv, NEW c \in plan.calls, GrepFile(c)
  PROVE  DiskIsUndisturbed' /\ TextIsMeant' /\ GrepIsAtPath'
PROOF
  <1>1. /\ ToolsCore /\ GrepIsAtPath /\ DiskIsUndisturbed
        /\ DOMAIN phase = plan.calls /\ DOMAIN held = plan.calls /\ DOMAIN at = plan.calls
        /\ before[c] \in [PathSet -> Text] /\ at[c] \in 1 .. Len(Paths) + 1
    BY DEF ToolsInv, WholeInv, ToolsCore
  <1> DEFINE in == input[c]
             i == at[c]
             p == Paths[i]
             n == Len(Paths)
             new == Found(held[c], p, Lines(disk[p]), in.regex, Most(in))
             full == disk[p] # Absent /\ Len(new) >= Most(in)
  <1>2. /\ phase[c] = "begun" /\ in.tool = "grep" /\ i <= n
        /\ UNCHANGED <<plan, disk, phase, input, before, alone>>
        /\ held' = [held EXCEPT ![c] = IF disk[p] = Absent THEN held[c] ELSE new]
        /\ at' = [at EXCEPT ![c] = IF full THEN n + 1 ELSE i + 1]
    BY DEF GrepFile, At, WithMatches, ChangesNothing
  <1>3. /\ Running' = Running /\ Filling' = Filling /\ Writing' = Writing
        /\ c \in Running /\ c \notin Filling /\ c \notin Writing
    BY <1>1, <1>2 DEF Running, Filling, Writing
  <1>4. \A d \in Running' : alone'[d] => d = c
    BY <1>2, <1>3, SoleCall
  <1>5. DiskIsUndisturbed'
    BY <1>1, <1>2, <1>3 DEF DiskIsUndisturbed
  <1>6. TextIsMeant'
    <2>1. \A d \in Writing' : ~alone'[d]
      <3>1. \A d \in Writing : d \in Running
        BY DEF Writing, Running
      <3> QED BY <1>3, <1>4, <3>1
    <2> QED BY <2>1 DEF TextIsMeant
  <1>7. ASSUME alone[c]
        PROVE  /\ Lists(before[c], in, held'[c], at'[c], 0)
               /\ at'[c] <= n => Len(held'[c]) < Most(in)
    <2> DEFINE d == before[c]
               most == Most(in)
    <2>1. Lists(d, in, held[c], i, 0) /\ Len(held[c]) < most
      BY <1>1, <1>2, <1>3, <1>7 DEF GrepIsAtPath
    <2>2. Paths \in Seq(PathSet) /\ n \in Nat
      BY FileAssumption
    <2>3. i \in 1 .. n /\ p \in PathSet
      BY <1>1, <1>2, <2>2
    <2>4. disk[p] = d[p]
      BY <1>3, <1>7, <2>3, DiskIsAsBefore
    <2>5. in \in Inputs
      BY <1>1, CallsOfThePlan
    <2>6. most \in Nat
      BY <1>2, <2>5, MostIsThere
    <2>7. CASE disk[p] = Absent
      <3>1. held'[c] = held[c] /\ at'[c] = i + 1
        BY <1>1, <1>2, <2>7
      <3>2. Lists(d, in, held[c], i + 1, 0)
        <4>1. d[p] = Absent /\ 0 \in Nat
          BY <2>4, <2>7
        <4> QED BY <1>1, <2>1, <2>3, <4>1, OnToTheNextFile
      <3> QED BY <2>1, <3>1, <3>2
    <2>8. CASE disk[p] # Absent
      <3> DEFINE ls == Lines(d[p])
                 l == Len(ls)
      <3>1. held'[c] = new /\ at'[c] = IF Len(new) >= most THEN n + 1 ELSE i + 1
        BY <1>1, <1>2, <2>8
      <3>2. new = Found(held[c], p, ls, in.regex, most)
        BY <2>4
      <3>3. Lists(d, in, new, i, l)
        <4>1. Lists(d, in, Found(held[c], Paths[i], ls, in.regex, Most(in)), i, l)
          BY <1>1, <2>1, <2>3, <2>4, <2>6, <2>8, FileIsListed
        <4> QED BY <3>2, <4>1
      <3>4. l \in Nat
        <4>1. d[p] \in Texts
          BY <1>1, <2>3, <2>4, <2>8 DEF Text
        <4>2. ls \in Seq(Seq(Words))
          BY <4>1, LinesAreWords
        <4> QED BY <4>2
      <3>5. Len(new) \in Nat
        BY <3>3 DEF Lists, Entries
      <3> HIDE DEF new
      <3>6. CASE Len(new) >= most
        <4>1. Lists(d, in, new, n + 1, 0)
          BY <1>1, <2>3, <2>6, <3>3, <3>4, <3>6, FullAtTheEnd
        <4> QED BY <2>2, <3>1, <3>6, <4>1
      <3>7. CASE ~(Len(new) >= most)
        <4>1. d[Paths[i]] # Absent => l >= Len(Lines(d[Paths[i]]))
          BY <3>4
        <4> HIDE DEF l
        <4>2. Lists(d, in, new, i + 1, 0)
          BY <1>1, <2>3, <3>3, <3>4, <4>1, OnToTheNextFile
        <4> QED BY <2>6, <3>1, <3>5, <3>7, <4>2
      <3> QED BY <3>6, <3>7
    <2> QED BY <2>7, <2>8
  <1>8. GrepIsAtPath'
    <2>1. \A d \in plan.calls : phase[d] = "idle" => held'[d] = held[d] /\ at'[d] = at[d]
      BY <1>1, <1>2
    <2>2. alone[c] => /\ Lists(before[c], input[c], held'[c], at'[c], 0)
                      /\ at'[c] <= Len(Paths) => Len(held'[c]) < Most(input[c])
      BY <1>7
    <2> QED BY <1>1, <1>2, <1>3, <1>4, <2>1, <2>2 DEF GrepIsAtPath
  <1> QED BY <1>5, <1>6, <1>8

(* At first no call has done anything.                                     *)
LEMMA InitMeant == ToolsInit => ToolsInv
PROOF
  <1> SUFFICES ASSUME ToolsInit PROVE ToolsInv
    OBVIOUS
  <1>1. Running = {} /\ Writing = {}
    BY DEF ToolsInit, Running, Writing
  <1>2. \A c \in plan.calls : held[c] = <<>> /\ at[c] = 1
    BY DEF ToolsInit
  <1> QED BY <1>1, <1>2, InitWhole DEF ToolsInv, DiskIsUndisturbed, TextIsMeant, GrepIsAtPath

(* Every step keeps what a call that is alone has done so far what it is   *)
(* meant to do.                                                            *)
LEMMA NextMeant == ToolsInv /\ [ToolsNext]_toolVars => ToolsInv'
PROOF
  <1> SUFFICES ASSUME ToolsInv, [ToolsNext]_toolVars
               PROVE  DiskIsUndisturbed' /\ TextIsMeant' /\ GrepIsAtPath'
    BY NextWhole DEF ToolsInv
  <1>1. DOMAIN phase = plan.calls /\ DOMAIN held = plan.calls
    BY DEF ToolsInv, WholeInv, ToolsCore
  <1>2. ASSUME NEW c \in plan.calls, Fill(c) \/ RunBash(c) \/ GrepEnds(c) \/ ListFiles(c)
        PROVE  DiskIsUndisturbed' /\ TextIsMeant' /\ GrepIsAtPath'
    <2>1. /\ UNCHANGED <<plan, input, at, before, alone>> /\ phase[c] \in {"begun", "fill"}
          /\ phase' = [phase EXCEPT ![c] = "done"]
          /\ \A d \in plan.calls \ {c} : held'[d] = held[d]
      BY <1>1, <1>2 DEF Fill, RunBash, GrepEnds, ListFiles, Told, At
    <2>2. c \in Running
      BY <1>1, <2>1 DEF Running
    <2> QED BY <2>1, <2>2, MeantEnd
  <1>3. ASSUME UNCHANGED <<plan, disk, phase, input, held, at, before, alone>>
        PROVE  DiskIsUndisturbed' /\ TextIsMeant' /\ GrepIsAtPath'
    BY <1>3, MeantStill
  <1>4. ASSUME NEW c \in DOMAIN phase, Call(c) \/ Cancel(c) \/ Tool(c)
        PROVE  DiskIsUndisturbed' /\ TextIsMeant' /\ GrepIsAtPath'
    <2>1. c \in plan.calls
      BY <1>1
    <2>2. CASE Call(c)
      BY <2>1, <2>2, MeantCall
    <2>3. CASE Cancel(c)
      BY <1>3, <2>3 DEF Cancel, ChangesNothing
    <2>4. CASE Tool(c)
      BY <1>2, <2>1, <2>4, MeantText, MeantEmptying, MeantGrep DEF Tool
    <2> QED BY <1>4, <2>2, <2>3, <2>4
  <1>5. CASE Kill
    BY <1>3, <1>5 DEF Kill, ChangesNothing
  <1>6. CASE UNCHANGED toolVars
    BY <1>3, <1>6 DEF toolVars
  <1> QED BY <1>4, <1>5, <1>6 DEF ToolsNext

(* A call that is alone reads a file, to answer with it or with an error.  *)
LEMMA ReadEnds ==
  ASSUME ToolsInv, NEW c \in plan.calls, alone[c], ReadFile(c), phase'[c] = "done"
  PROVE  EndsAsPromised(c)
PROOF
  <1> DEFINE in == input[c]
             f == in.path
             old == before[c]
             made == Transformed(in, disk[f])
             o == out'[c]
  <1>1. /\ ToolsCore /\ DOMAIN phase = plan.calls /\ DOMAIN out = plan.calls
        /\ old \in [PathSet -> Text]
    BY DEF ToolsInv, WholeInv, ToolsCore
  <1>2. /\ phase[c] = "begun" /\ in.tool \in {"read", "edit", "replace"}
        /\ UNCHANGED <<disk, input, before>> /\ c \in Running /\ c \notin Filling
    BY <1>1 DEF ReadFile, At, Running, Filling, ChangesNothing
  <1>3. in \in Inputs /\ IsValid(in)
    BY <1>1, <1>2, CallsOfThePlan DEF ToolsCore
  <1>4. /\ ~(made.ok /\ in.tool # "read")
        /\ o = [kind |-> IF made.ok THEN "ok" ELSE "error", text |-> made.text]
    BY <1>1 DEF ReadFile, Told
  <1>5. \A p \in PathSet : disk'[p] = old[p]
    BY <1>2, DiskIsAsBefore
  <1>6. in.tool \in Mutators \cup {"bash"} => o.kind = "error" /\ f \in PathSet
    <2>1. in.tool \in Mutators \cup {"bash"} => f \in PathSet
      BY <1>3, ChangesAPath
    <2> QED BY <1>2, <1>4, <2>1 DEF Mutators
  <1>7. ASSUME in.tool = "read", old[f] # Absent PROVE ReadAsPromised(in, old[f], o)
    <2>1. /\ f \in PathSet /\ in.start \in Nat \cup {Absent} /\ in.end \in Nat \cup {Absent}
      BY <1>3, <1>7 DEF Inputs, Path, Number, IsValid, IsReadCall, IsWriteCall, IsEditCall,
               IsReplaceCall, IsBashCall, IsGrepCall, IsGlobCall, IsListCall
    <2>2. disk[f] = old[f] /\ old[f] \in Texts
      BY <1>1, <1>2, <1>5, <1>7, <2>1 DEF Text
    <2>3. made = ReadRange(old[f], in.start, in.end)
      BY <1>7, <2>2 DEF Transformed
    <2>4. CASE in.start = Absent
      <3>1. made = Computed(old[f])
        BY <2>3, <2>4 DEF ReadRange
      <3> QED BY <1>4, <2>4, <3>1 DEF ReadAsPromised, Computed
    <2>5. CASE in.start # Absent
      <3> DEFINE t == old[f]
                 s == in.start
                 e == in.end
      <3>1. ASSUME o.kind = "ok"
            PROVE  LET kept == {i \in DOMAIN Lines(t) : InRange(i, s, e)} IN
                   made.text = Joined([k \in 1 .. Cardinality(kept) |->
                                Lines(t)[k + (IF kept = {} THEN 0 ELSE Min(kept) - 1)]])
        <4>1. ReadRange(t, s, e).ok
          BY <1>4, <2>3, <3>1
        <4>2. t \in Texts /\ s \in Nat /\ e \in Nat \cup {Absent} /\ s # Absent
          BY <2>1, <2>2, <2>5
        <4> HIDE DEF t, s, e
        <4>3. LET kept == {i \in DOMAIN Lines(t) : InRange(i, s, e)} IN
              ReadRange(t, s, e).text
                = Joined([k \in 1 .. Cardinality(kept) |->
                            Lines(t)[k + (IF kept = {} THEN 0 ELSE Min(kept) - 1)]])
          BY <4>1, <4>2, RangeIsRead
        <4> QED BY <2>3, <4>3 DEF t, s, e
      <3>2. o.text = made.text
        BY <1>4
      <3> QED BY <2>5, <3>1, <3>2 DEF ReadAsPromised
    <2> QED BY <2>4, <2>5
  <1>8. in.tool # "grep"
    BY <1>2
  <1> HIDE DEF o, made
  <1> QED BY <1>5, <1>6, <1>7, <1>8 DEF EndsAsPromised, o

(* It has the text its file is to have.                                    *)
LEMMA TextIsAsPromised ==
  ASSUME ToolsInv, NEW c \in plan.calls, alone[c], phase[c] \in {"write", "fill"}
  PROVE  /\ WrittenAsPromised(input[c], before[c][input[c].path], held[c])
         /\ input[c].path \in PathSet /\ held[c] \in Texts
PROOF
  <1> DEFINE in == input[c]
             f == in.path
             old == before[c]
             text == held[c]
  <1>1. /\ ToolsCore /\ DOMAIN phase = plan.calls /\ old \in [PathSet -> Text]
        /\ TextsAreHeld /\ TextIsMeant
    BY DEF ToolsInv, WholeInv, ToolsCore
  <1>2. c \in Running /\ c \in Writing /\ in.tool \in Mutators /\ text \in Texts
    BY <1>1 DEF Running, Writing, TextsAreHeld
  <1>3. in \in Inputs /\ IsValid(in)
    BY <1>1, <1>2, CallsOfThePlan DEF ToolsCore
  <1>4. f \in PathSet
    BY <1>2, <1>3, ChangesAPath
  <1>5. IF in.tool = "write" THEN text = in.new ELSE Transformed(in, old[f]) = Computed(text)
    BY <1>1, <1>2 DEF TextIsMeant
  <1>6. ASSUME in.tool # "write"
        PROVE  /\ old[f] # Absent /\ old[f] \in Texts
               /\ Transformed(in, old[f]).ok /\ Transformed(in, old[f]).text = text
    <2>1. Transformed(in, old[f]).ok /\ Transformed(in, old[f]).text = text
      BY <1>5, <1>6 DEF Computed
    <2>2. old[f] # Absent
      BY <2>1 DEF Transformed, Failure
    <2> QED BY <1>1, <1>4, <2>1, <2>2 DEF Text
  <1>7. ASSUME in.tool = "edit" PROVE EditedAsPromised(in, old[f], text)
    <2>1. in.old \in Texts /\ in.new \in Texts
      BY <1>3, <1>7 DEF Inputs, Text, IsValid, IsReadCall, IsWriteCall, IsEditCall,
               IsReplaceCall, IsBashCall, IsGrepCall, IsGlobCall, IsListCall
    <2>2. Transformed(in, old[f]) = EditFirst(old[f], in.old, in.new)
      BY <1>6, <1>7 DEF Transformed
    <2>3. EditFirst(old[f], in.old, in.new).ok /\ EditFirst(old[f], in.old, in.new).text = text
          /\ old[f] \in Texts
      BY <1>6, <1>7, <2>2
    <2>4. EditedAsPromised(in, old[f], EditFirst(old[f], in.old, in.new).text)
      BY <2>1, <2>3, FirstIsEdited
    <2> QED BY <2>3, <2>4
  <1>8. ASSUME in.tool = "replace" PROVE ReplacedAsPromised(in, old[f], text)
    <2>1. /\ old[f] # Absent /\ old[f] \in Texts
          /\ Transformed(in, old[f]).ok /\ Transformed(in, old[f]).text = text
      BY <1>6, <1>8
    <2>2. ReplacedAsPromised(in, old[f], Transformed(in, old[f]).text)
      BY <1>3, <1>8, <2>1, ReplacementsAreMade
    <2> QED BY <2>1, <2>2
  <1>9. in.tool \in {"write", "bash"} => text = in.new
    BY <1>2, <1>5 DEF Mutators
  <1> QED BY <1>2, <1>4, <1>7, <1>8, <1>9 DEF WrittenAsPromised

(* It fails before it has touched its file.                                *)
LEMMA FailureEnds ==
  ASSUME ToolsInv, NEW c \in plan.calls, alone[c], phase[c] \in {"begun", "write"},
         input[c].tool \in Mutators \cup {"bash"}, UNCHANGED <<input, disk>>,
         out'[c].kind = "error"
  PROVE  EndsAsPromised(c)
PROOF
  <1>1. ToolsCore /\ DOMAIN phase = plan.calls
    BY DEF ToolsInv, WholeInv, ToolsCore
  <1>2. c \in Running /\ c \notin Filling
    BY <1>1 DEF Running, Filling
  <1>3. input[c] \in Inputs /\ IsValid(input[c])
    BY <1>1, <1>2, CallsOfThePlan DEF ToolsCore
  <1>4. input[c].path \in PathSet
    BY <1>3, ChangesAPath
  <1>5. \A p \in PathSet : disk'[p] = before[c][p]
    BY <1>2, DiskIsAsBefore
  <1> QED BY <1>4, <1>5 DEF EndsAsPromised, Mutators

(* Its file has all of its text, or the beginning of it.                   *)
LEMMA ChangeEnds ==
  ASSUME ToolsInv, NEW c \in plan.calls, alone[c], phase[c] \in {"begun", "fill"},
         input[c].tool \in Mutators \cup {"bash"}, UNCHANGED input, NEW x \in Texts,
         disk' = [disk EXCEPT ![input[c].path] = x],
         WrittenAsPromised(input[c], before[c][input[c].path], held'[c]),
         \/ out'[c].kind = "ok" /\ x = held'[c]
         \/ out'[c].kind = "error" /\ IsPrefix(x, held'[c])
  PROVE  EndsAsPromised(c)
PROOF
  <1> DEFINE f == input[c].path
  <1>1. ToolsCore /\ DOMAIN phase = plan.calls /\ DOMAIN disk = PathSet /\ DiskIsUndisturbed
    BY DEF ToolsInv, WholeInv, ToolsCore
  <1>2. c \in Running
    BY <1>1 DEF Running
  <1>3. input[c] \in Inputs /\ IsValid(input[c])
    BY <1>1, <1>2, CallsOfThePlan DEF ToolsCore
  <1>4. f \in PathSet
    BY <1>3, ChangesAPath
  <1>5. disk'[f] = x /\ x # Absent
    BY <1>1, <1>4, AbsentIsNoText
  <1>6. \A p \in PathSet : p # f => disk'[p] = before[c][p]
    <2>1. \A p \in PathSet : p # f => disk'[p] = disk[p]
      BY <1>1
    <2>2. \A p \in PathSet : disk[p] = before[c][p] \/ p = f
      BY <1>1, <1>2 DEF DiskIsUndisturbed
    <2> QED BY <2>1, <2>2
  <1>7. input[c].tool \notin {"read", "grep"}
    BY DEF Mutators
  <1> QED BY <1>5, <1>6, <1>7 DEF EndsAsPromised

(* It fills the file it has emptied, as far as that goes.                  *)
LEMMA FillEnds ==
  ASSUME ToolsInv, NEW c \in plan.calls, alone[c], Fill(c)
  PROVE  EndsAsPromised(c)
PROOF
  <1> DEFINE f == input[c].path
  <1>1. DOMAIN phase = plan.calls /\ DOMAIN out = plan.calls /\ EmptiedIsThere
    BY DEF ToolsInv, WholeInv, ToolsCore
  <1>2. /\ phase[c] = "fill" /\ input[c].tool \in Mutators /\ UNCHANGED <<input, held>>
        /\ c \in Filling
    BY <1>1 DEF Fill, At, Filling
  <1>3. disk[f] = <<>> /\ disk[f] \in Texts
    BY <1>1, <1>2 DEF EmptiedIsThere
  <1>4. WrittenAsPromised(input[c], before[c][f], held'[c]) /\ held[c] \in Texts
    BY <1>2, TextIsAsPromised
  <1>5. CASE Changes(c, Over(held[c], disk[f])) /\ Told(c, TRUE, <<>>)
    <2>1. disk' = [disk EXCEPT ![f] = held[c]] /\ out'[c].kind = "ok"
      <3>1. Over(held[c], disk[f]) = held[c]
        BY <1>3, <1>4, OverText
      <3> QED BY <1>1, <1>5, <3>1 DEF Changes, Told
    <2> QED BY <1>2, <1>4, <2>1, ChangeEnds
  <1>6. ASSUME Told(c, FALSE, <<>>), NEW k \in 1 .. Len(held[c]),
               Changes(c, Over(SubSeq(held[c], 1, k - 1), disk[f]))
        PROVE  EndsAsPromised(c)
    <2> DEFINE x == SubSeq(held[c], 1, k - 1)
    <2>1. x \in Texts /\ IsPrefix(x, held[c])
      <3>1. k - 1 \in 0 .. Len(held[c])
        BY <1>4 DEF Texts
      <3> QED BY <1>4, <3>1, BeginsWith
    <2> HIDE DEF x
    <2>2. disk' = [disk EXCEPT ![f] = x] /\ out'[c].kind = "error"
      <3>1. Over(x, disk[f]) = x
        BY <1>3, <2>1, OverText
      <3> QED BY <1>1, <1>6, <3>1 DEF Changes, Told, x
    <2> QED BY <1>2, <1>4, <2>1, <2>2, ChangeEnds
  <1> QED BY <1>5, <1>6 DEF Fill

(* Its command has run, or not, and the shell has failed, or not.          *)
LEMMA BashEnds ==
  ASSUME ToolsInv, NEW c \in plan.calls, alone[c], RunBash(c)
  PROVE  EndsAsPromised(c)
PROOF
  <1> DEFINE x == input[c].new
  <1>1. ToolsCore /\ DOMAIN phase = plan.calls /\ DOMAIN out = plan.calls
        /\ DOMAIN held = plan.calls
    BY DEF ToolsInv, WholeInv, ToolsCore
  <1>2. phase[c] = "begun" /\ input[c].tool = "bash" /\ UNCHANGED input /\ c \in Running
    BY <1>1 DEF RunBash, At, Running
  <1>3. x \in Texts
    <2>1. input[c] \in Inputs /\ IsValid(input[c])
      BY <1>1, <1>2, CallsOfThePlan DEF ToolsCore
    <2> QED BY <1>2, <2>1 DEF Inputs, Text, IsValid, IsReadCall, IsWriteCall,
               IsEditCall, IsReplaceCall, IsBashCall, IsGrepCall, IsGlobCall, IsListCall
  <1> HIDE DEF x
  <1>4. ASSUME Changes(c, x), held' = [held EXCEPT ![c] = x],
               NEW ok \in BOOLEAN, Told(c, ok, <<>>)
        PROVE  EndsAsPromised(c)
    <2>1. /\ disk' = [disk EXCEPT ![input[c].path] = x] /\ held'[c] = x
          /\ out'[c].kind = IF ok THEN "ok" ELSE "error"
      BY <1>1, <1>4 DEF Changes, Told
    <2>2. WrittenAsPromised(input[c], before[c][input[c].path], held'[c])
      BY <1>2, <2>1 DEF WrittenAsPromised, x
    <2>3. IsPrefix(x, held'[c])
      BY <1>3, <2>1, BeginsWith
    <2> QED BY <1>2, <1>3, <2>1, <2>2, <2>3, ChangeEnds
  <1>5. CASE ChangesNothing /\ Told(c, FALSE, <<>>)
    <2>1. disk' = disk /\ out'[c].kind = "error"
      BY <1>1, <1>5 DEF ChangesNothing, Told
    <2> QED BY <1>2, <2>1, FailureEnds
  <1> QED BY <1>4, <1>5 DEF RunBash, x

(* It has searched, or listed, all files.                                  *)
LEMMA SearchEnds ==
  ASSUME ToolsInv, NEW c \in plan.calls, alone[c], GrepEnds(c) \/ ListFiles(c)
  PROVE  EndsAsPromised(c)
PROOF
  <1> DEFINE in == input[c]
  <1>1. /\ ToolsCore /\ DOMAIN phase = plan.calls /\ DOMAIN out = plan.calls /\ GrepIsAtPath
        /\ before[c] \in [PathSet -> Text] /\ at[c] \in 1 .. Len(Paths) + 1
    BY DEF ToolsInv, WholeInv, ToolsCore
  <1>2. /\ in.tool \in {"grep", "list", "glob"} /\ disk' = disk
        /\ c \in Running /\ c \notin Filling
    BY <1>1 DEF GrepEnds, ListFiles, At, Running, Filling, ChangesNothing
  <1>3. \A p \in PathSet : disk'[p] = before[c][p]
    BY <1>2, DiskIsAsBefore
  <1>4. ASSUME in.tool = "grep" PROVE GreppedAsPromised(in, before[c], out'[c])
    <2>1. /\ in.regex = BadRegex \/ at[c] > Len(Paths)
          /\ out'[c] = [kind |-> IF in.regex # BadRegex THEN "ok" ELSE "error",
                        text |-> held[c]]
      BY <1>1, <1>4 DEF GrepEnds, ListFiles, Told, At
    <2>2. CASE in.regex = BadRegex
      <3>1. out'[c].kind # "ok"
        BY <2>1, <2>2
      <3> QED BY <3>1 DEF GreppedAsPromised
    <2>3. CASE in.regex # BadRegex
      <3>1. at[c] = Len(Paths) + 1
        <4>1. Len(Paths) \in Nat
          BY FileAssumption
        <4> QED BY <1>1, <2>1, <2>3, <4>1
      <3>2. Lists(before[c], in, out'[c].text, Len(Paths) + 1, 0)
        BY <1>1, <1>2, <1>4, <2>1, <3>1 DEF GrepIsAtPath
      <3>3. in \in Inputs
        BY <1>1, CallsOfThePlan
      <3> QED BY <1>1, <1>4, <3>2, <3>3, AllIsListed
    <2> QED BY <2>2, <2>3
  <1>5. in.tool \notin Mutators \cup {"bash", "read"}
    BY <1>2 DEF Mutators
  <1> QED BY <1>3, <1>4, <1>5 DEF EndsAsPromised

(* A call that ran with no other beside it did to the disk, and told the   *)
(* agent, what its tool's description says of the disk it began with.      *)
THEOREM CallsAreExact == ToolsSpec => AloneIsExact
PROOF
  <1>1. ASSUME ToolsInv, [ToolsNext]_toolVars, NEW c \in DOMAIN phase,
               Finishes(c), alone[c], IsValid(input[c])
        PROVE  EndsAsPromised(c)
    <2>1. DOMAIN phase = plan.calls /\ c \in plan.calls /\ phase[c] # "done" /\ phase'[c] = "done"
      BY <1>1 DEF ToolsInv, WholeInv, ToolsCore, Finishes
    <2>2. ~UNCHANGED toolVars /\ ~Kill
      BY <2>1 DEF toolVars, Kill
    <2>3. PICK d \in plan.calls : Call(d) \/ Cancel(d) \/ Tool(d)
      BY <1>1, <2>1, <2>2 DEF ToolsNext
    <2>4. d = c
      <3>1. \/ phase' = phase
            \/ \E s : phase' = [phase EXCEPT ![d] = s]
        BY <2>3 DEF Call, Cancel, Tool, ReadFile, WriteFile, Truncate, Fill, RunBash, GrepFile,
                    GrepEnds, ListFiles, Told
      <3> QED BY <2>1, <3>1
    <2>5. ~Call(c) /\ ~Cancel(c)
      BY <1>1, <2>1 DEF Call, Cancel
    <2>6. ~GrepFile(c)
      BY <2>1 DEF GrepFile
    <2>7. CASE WriteFile(c) \/ Truncate(c)
      <3>1. DOMAIN phase = plan.calls /\ DOMAIN out = plan.calls
        BY <1>1 DEF ToolsInv, WholeInv, ToolsCore
      <3>2. /\ phase[c] \in {"begun", "write"} /\ input[c].tool \in Mutators \cup {"bash"}
            /\ UNCHANGED input
        BY <2>7 DEF WriteFile, Truncate, At, Mutators
      <3>3. ChangesNothing /\ Told(c, FALSE, <<>>)
        BY <2>1, <2>7, <3>1 DEF WriteFile, Truncate
      <3>4. disk' = disk /\ out'[c].kind = "error"
        BY <3>1, <3>3 DEF ChangesNothing, Told
      <3> QED BY <1>1, <2>1, <3>2, <3>4, FailureEnds
    <2> QED BY <1>1, <2>1, <2>3, <2>4, <2>5, <2>6, <2>7, ReadEnds, FillEnds, BashEnds, SearchEnds
            DEF Tool
  <1>2. ToolsInv /\ [ToolsNext]_toolVars
          => [\A c \in DOMAIN phase :
                Finishes(c) /\ alone[c] /\ IsValid(input[c]) => EndsAsPromised(c)]_toolVars
    BY <1>1
  <1> QED BY <1>2, InitMeant, NextMeant, PTL DEF ToolsSpec, AloneIsExact
=============================================================================
