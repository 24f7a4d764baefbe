-------------------------- MODULE FileJournalProofs --------------------------
(***************************************************************************)
(* What is proved of FileJournal, for batches of any size and any number   *)
(* of batches, crashes and faults: its four properties.                    *)
(*                                                                         *)
(* The inductive invariant is IInv.  What is replayed is followed as one   *)
(* sequence, Decode(file), which a write leaves alone or appends the whole *)
(* batch to (DecodeAppend): it consists of whole batches (Whole), none of  *)
(* them tried later than the last (Numbered), so the batch that is being   *)
(* written comes behind all of them.                                       *)
(***************************************************************************)
EXTENDS FileJournal, SequenceTheorems, WellFoundedInduction, TLAPS

NatLess == {p \in Nat \X Nat : p[1] < p[2]}

(* Induction over a set of numbers: by its least counterexample, because   *)
(* the natural numbers are well founded.                                   *)
LEMMA Induction ==
  ASSUME NEW S, 0 \in S, \A n \in Nat : n \in S => n + 1 \in S
  PROVE  Nat \subseteq S
  <1> SUFFICES ASSUME Nat \ S # {} PROVE FALSE
    OBVIOUS
  <1>1. IsWellFoundedOn(NatLess, Nat)
    <2>1. IsWellFoundedOn(OpToRel(<, Nat), Nat)
      BY NatLessThanWellFounded
    <2>2. OpToRel(<, Nat) = NatLess
      BY DEF OpToRel, NatLess
    <2> QED BY <2>1, <2>2
  <1>2. Nat \ S \in SUBSET Nat
    OBVIOUS
  <1>3. PICK m \in Nat \ S : \A k \in Nat \ S : ~(<<k, m>> \in NatLess)
    BY <1>1, <1>2, WFMin
  <1>4. m \in Nat /\ m # 0 /\ m - 1 \in Nat /\ m - 1 < m
    OBVIOUS
  <1>5. m - 1 \in S
    <2>1. <<m - 1, m>> \in NatLess
      BY <1>4 DEF NatLess
    <2> QED BY <2>1, <1>3, <1>4
  <1>6. m - 1 + 1 = m
    BY <1>4
  <1> QED BY <1>3, <1>4, <1>5, <1>6

-----------------------------------------------------------------------------
(* What is decoded. *)

Event == Nat \X Nat \X Nat
Lines == Seq(Event)

(* What is decoded of the first i lines, from what is of those before.     *)
DecodeStep(f, u, i) ==
  IF i = 0 THEN <<>>
  ELSE IF \E j \in Bad(f) : j <= i THEN u[i - 1]
  ELSE u[i - 1] \o f[i]

(* The recursion of Decode has a value for each line.                      *)
LEMMA DecodeExists ==
  ASSUME NEW f
  PROVE  \A n \in Nat : \E u : u = [i \in 0 .. n |-> DecodeStep(f, u, i)]
  <1> DEFINE S == {n \in Nat : \E u : u = [i \in 0 .. n |-> DecodeStep(f, u, i)]}
  <1>1. 0 \in S
    <2> DEFINE u == [i \in 0 .. 0 |-> <<>>]
    <2>1. u = [i \in 0 .. 0 |-> DecodeStep(f, u, i)]
      BY DEF DecodeStep
    <2> QED BY <2>1
  <1>2. ASSUME NEW n \in Nat, n \in S PROVE n + 1 \in S
    <2>1. PICK u : u = [i \in 0 .. n |-> DecodeStep(f, u, i)]
      BY <1>2
    <2> DEFINE g == [i \in 0 .. n + 1 |-> IF i = n + 1 THEN DecodeStep(f, u, i) ELSE u[i]]
    <2>2. ASSUME NEW i \in 0 .. n + 1 PROVE g[i] = DecodeStep(f, g, i)
      <3>1. CASE i = 0
        BY <3>1, <2>1 DEF DecodeStep
      <3>2. CASE i \in 1 .. n
        <4>1. g[i] = u[i] /\ g[i - 1] = u[i - 1] /\ i # 0
          BY <3>2
        <4>2. u[i] = DecodeStep(f, u, i)
          BY <2>1, <3>2
        <4> QED BY <4>1, <4>2 DEF DecodeStep
      <3>3. CASE i = n + 1
        <4>1. g[i] = DecodeStep(f, u, i) /\ g[i - 1] = u[i - 1] /\ i # 0
          BY <3>3
        <4> QED BY <4>1 DEF DecodeStep
      <3> QED BY <3>1, <3>2, <3>3
    <2>3. g = [i \in 0 .. n + 1 |-> DecodeStep(f, g, i)]
      BY <2>2
    <2>4. \E e : e = [i \in 0 .. n + 1 |-> DecodeStep(f, e, i)]
      <3> HIDE DEF g
      <3> QED BY <2>3
    <2> QED BY <2>4
  <1>3. Nat \subseteq S
    <2> HIDE DEF S
    <2> QED BY <1>1, <1>2, Induction
  <1> QED BY <1>3

(* What is decoded of the first n lines of f.                              *)
UpTo(f, n) ==
  (CHOOSE u : u = [i \in 0 .. Len(f) |-> DecodeStep(f, u, i)])[n]

(* Decode is UpTo the last line, and UpTo obeys its recursion.             *)
LEMMA DecodeIs ==
  ASSUME NEW f \in Seq(Lines)
  PROVE  /\ Decode(f) = UpTo(f, Len(f))
         /\ UpTo(f, 0) = <<>>
         /\ \A n \in 1 .. Len(f) :
              UpTo(f, n) = IF \E j \in Bad(f) : j <= n THEN UpTo(f, n - 1)
                           ELSE UpTo(f, n - 1) \o f[n]
  <1> DEFINE L == Len(f)
  <1> DEFINE u == CHOOSE g : g = [i \in 0 .. L |-> DecodeStep(f, g, i)]
  <1>1. L \in Nat
    OBVIOUS
  <1>2. u = [i \in 0 .. L |-> DecodeStep(f, u, i)]
    <2> HIDE DEF L
    <2>1. \E g : g = [i \in 0 .. L |-> DecodeStep(f, g, i)]
      BY <1>1, DecodeExists
    <2> QED BY <2>1
  <1>3. Decode(f) = u[L]
    BY DEF Decode, DecodeStep
  <1>4. \A n : UpTo(f, n) = u[n]
    BY DEF UpTo
  <1> HIDE DEF u
  <1>5. u[0] = <<>>
    BY <1>1, <1>2 DEF DecodeStep
  <1>6. ASSUME NEW n \in 1 .. L
        PROVE  u[n] = IF \E j \in Bad(f) : j <= n THEN u[n - 1] ELSE u[n - 1] \o f[n]
    <2>1. n \in 0 .. L /\ n # 0
      BY <1>1
    <2>2. u[n] = DecodeStep(f, u, n)
      BY <1>2, <2>1
    <2> QED BY <2>1, <2>2 DEF DecodeStep
  <1> QED BY <1>3, <1>4, <1>5, <1>6

(* What is decoded is a sequence of events.                                *)

(* What is decoded is a sequence of events.                                *)
LEMMA DecodeType ==
  ASSUME NEW f \in Seq(Lines)
  PROVE  Decode(f) \in Seq(Event) /\ \A n \in 0 .. Len(f) : UpTo(f, n) \in Seq(Event)
  <1> DEFINE S == {n \in Nat : n <= Len(f) => UpTo(f, n) \in Seq(Event)}
  <1>1. 0 \in S
    <2>1. UpTo(f, 0) = <<>>
      BY DecodeIs
    <2>2. <<>> \in Seq(Event)
      BY EmptySeq
    <2> QED BY <2>1, <2>2
  <1>2. ASSUME NEW k \in 1 .. Len(f), UpTo(f, k - 1) \in Seq(Event)
        PROVE  UpTo(f, k) \in Seq(Event)
    <2>1. UpTo(f, k) = IF \E j \in Bad(f) : j <= k THEN UpTo(f, k - 1)
                       ELSE UpTo(f, k - 1) \o f[k]
      BY DecodeIs
    <2>2. f[k] \in Seq(Event)
      BY DEF Lines
    <2>3. UpTo(f, k - 1) \o f[k] \in Seq(Event)
      BY <1>2, <2>2
    <2> QED BY <2>1, <2>3, <1>2
  <1>3. ASSUME NEW n \in Nat, n \in S PROVE n + 1 \in S
    <2> SUFFICES ASSUME n + 1 <= Len(f) PROVE UpTo(f, n + 1) \in Seq(Event)
      OBVIOUS
    <2>1. n + 1 \in 1 .. Len(f) /\ n + 1 - 1 = n /\ UpTo(f, n) \in Seq(Event)
      BY <1>3
    <2> QED BY <2>1, <1>2
  <1>4. Nat \subseteq S
    <2> HIDE DEF S
    <2> QED BY <1>1, <1>3, Induction
  <1>5. Len(f) \in Nat
    OBVIOUS
  <1>6. Decode(f) = UpTo(f, Len(f))
    BY DecodeIs
  <1>7. \A n \in 0 .. Len(f) : UpTo(f, n) \in Seq(Event)
    BY <1>4, <1>5
  <1> QED BY <1>5, <1>6, <1>7

(* An appended line is decoded unless it or one before it does not decode. *)
LEMMA DecodeAppend ==
  ASSUME NEW f \in Seq(Lines), NEW line \in Lines
  PROVE  /\ Append(f, line) \in Seq(Lines)
         /\ Bad(Append(f, line)) = {} <=> Bad(f) = {} /\ line # Garbage
         /\ Decode(Append(f, line)) =
              IF Bad(f) = {} /\ line # Garbage THEN Decode(f) \o line ELSE Decode(f)
  <1> DEFINE L == Len(f)
  <1> DEFINE g == Append(f, line)
  <1>1. L \in Nat /\ DOMAIN f = 1 .. L
    OBVIOUS
  <1>2. /\ g \in Seq(Lines) /\ Len(g) = L + 1 /\ DOMAIN g = 1 .. L + 1
        /\ g[L + 1] = line /\ \A i \in 1 .. L : g[i] = f[i]
    BY AppendProperties
  <1> HIDE DEF g
  <1>3. \A i \in 1 .. L : i \in Bad(g) <=> i \in Bad(f)
    BY <1>1, <1>2 DEF Bad
  <1>4. L + 1 \in Bad(g) <=> line = Garbage
    BY <1>1, <1>2 DEF Bad
  <1>5. Bad(f) \subseteq 1 .. L /\ Bad(g) \subseteq 1 .. L + 1
    BY <1>1, <1>2 DEF Bad
  <1>6. Bad(g) = {} <=> Bad(f) = {} /\ line # Garbage
    <2>1. \A i \in 1 .. L + 1 : i \in 1 .. L \/ i = L + 1
      BY <1>1
    <2>2. L + 1 \in 1 .. L + 1 /\ 1 .. L \subseteq 1 .. L + 1
      BY <1>1
    <2> HIDE DEF L
    <2> QED BY <2>2, <1>3, <1>4, <1>5, <2>1
  <1> DEFINE S == {n \in Nat : n <= L => UpTo(g, n) = UpTo(f, n)}
  <1>7. 0 \in S
    <2>1. UpTo(f, 0) = <<>>
      BY DecodeIs
    <2>2. UpTo(g, 0) = <<>>
      BY <1>2, DecodeIs
    <2> QED BY <2>1, <2>2
  <1>8. ASSUME NEW k \in 1 .. L, UpTo(g, k - 1) = UpTo(f, k - 1)
        PROVE  UpTo(g, k) = UpTo(f, k)
    <2>1. k \in 1 .. Len(g)
      BY <1>1, <1>2
    <2>2. UpTo(f, k) = IF \E j \in Bad(f) : j <= k THEN UpTo(f, k - 1)
                       ELSE UpTo(f, k - 1) \o f[k]
      BY DecodeIs
    <2>3. UpTo(g, k) = IF \E j \in Bad(g) : j <= k THEN UpTo(g, k - 1)
                       ELSE UpTo(g, k - 1) \o g[k]
      BY <2>1, <1>2, DecodeIs
    <2>4. (\E j \in Bad(g) : j <= k) <=> (\E j \in Bad(f) : j <= k)
      <3>1. \A j \in 1 .. L + 1 : j <= k => j \in 1 .. L
        BY <1>1
      <3>2. \A j \in 1 .. L : j \in 1 .. L + 1
        BY <1>1
      <3> HIDE DEF L
      <3> QED BY <3>1, <3>2, <1>3, <1>5
    <2> QED BY <2>2, <2>3, <2>4, <1>2, <1>8
  <1>9. ASSUME NEW n \in Nat, n \in S PROVE n + 1 \in S
    <2> SUFFICES ASSUME n + 1 <= L PROVE UpTo(g, n + 1) = UpTo(f, n + 1)
      OBVIOUS
    <2>1. n + 1 \in 1 .. L /\ n + 1 - 1 = n /\ UpTo(g, n) = UpTo(f, n)
      BY <1>1, <1>9
    <2> HIDE DEF L
    <2> QED BY <2>1, <1>8
  <1>10. Nat \subseteq S
    <2> HIDE DEF S
    <2> QED BY <1>7, <1>9, Induction
  <1>11. UpTo(g, L) = Decode(f)
    <2>1. Decode(f) = UpTo(f, L)
      BY DecodeIs
    <2> QED BY <2>1, <1>1, <1>10
  <1>12. Decode(g) = IF \E j \in Bad(g) : j <= L + 1 THEN UpTo(g, L)
                     ELSE UpTo(g, L) \o line
    <2> DEFINE k == L + 1
    <2>1. k \in 1 .. Len(g) /\ k - 1 = L /\ Len(g) = k /\ g[k] = line
      BY <1>1, <1>2
    <2>2. Decode(g) = UpTo(g, Len(g))
      BY <1>2, DecodeIs
    <2>3. UpTo(g, k) = IF \E j \in Bad(g) : j <= k THEN UpTo(g, k - 1)
                       ELSE UpTo(g, k - 1) \o g[k]
      <3> HIDE DEF k
      <3> QED BY <2>1, <1>2, DecodeIs
    <2> QED BY <2>1, <2>2, <2>3
  <1>13. (\E j \in Bad(g) : j <= L + 1) <=> Bad(g) # {}
    BY <1>1, <1>5
  <1>14. Decode(g) = IF Bad(f) = {} /\ line # Garbage THEN Decode(f) \o line ELSE Decode(f)
    BY <1>6, <1>11, <1>12, <1>13
  <1> QED BY <1>2, <1>6, <1>14 DEF g

(* An empty file holds nothing.                                            *)
LEMMA DecodeEmpty == Decode(<<>>) = <<>> /\ <<>> \in Seq(Lines) /\ Bad(<<>>) = {}
  <1>1. <<>> \in Seq(Lines) /\ Len(<<>>) = 0 /\ DOMAIN <<>> = {}
    BY EmptySeq
  <1>2. Decode(<<>>) = UpTo(<<>>, Len(<<>>)) /\ UpTo(<<>>, 0) = <<>>
    BY <1>1, DecodeIs
  <1> QED BY <1>1, <1>2 DEF Bad

-----------------------------------------------------------------------------
(* The inductive invariant. *)

Log == Decode(file)
Batch(n, k) == [i \in 1 .. k |-> <<n, i, k>>]

(* WholeBatches, of any log.                                               *)
Whole(log) ==
  \A i \in 1 .. Len(log) :
    LET n == log[i][1]
        m == log[i][2]
        k == log[i][3]
    IN
    /\ m > 1 => i > 1 /\ log[i - 1] = <<n, m - 1, k>>
    /\ m < k => i < Len(log) /\ log[i + 1] = <<n, m + 1, k>>
    /\ m = 1 => \A j \in 1 .. i - 1 : log[j][1] < n

Types ==
  /\ file \in Seq(Lines) /\ state \in Seq(Event) /\ batch \in Seq(Event)
  /\ tried \in Nat

(* A batch in hand is the last one tried.                                  *)
InFlight ==
  IF phase \in {"writing", "syncing"}
  THEN tried >= 1 /\ \E k \in Sizes : k # 0 /\ batch = Batch(tried, k)
  ELSE batch = <<>>

(* Nothing is replayed that was not tried, nor the batch that is being     *)
(* written.                                                                *)
Numbered ==
  \A i \in 1 .. Len(Log) :
    Log[i][1] <= tried /\ (phase = "writing" => Log[i][1] < tried)

(* The batch that waits for its Ok can be replayed.                        *)
WrittenBeforeSync ==
  Bad(file) = {} /\ phase = "syncing" => ToSet(batch) \subseteq ToSet(Log)

IInv ==
  /\ Types /\ TypeOK /\ InFlight
  /\ Whole(Log) /\ Numbered
  /\ WrittenBeforeSync /\ AckedUntilGarbage /\ StateIsReplayed

(* A batch is a sequence of events, and not empty if it has an event.      *)
LEMMA BatchFacts ==
  ASSUME NEW n \in Nat, NEW k \in Nat
  PROVE  /\ Batch(n, k) \in Seq(Event) /\ Len(Batch(n, k)) = k
         /\ \A i \in 1 .. k : Batch(n, k)[i] = <<n, i, k>>
         /\ k # 0 <=> Batch(n, k) # <<>>
  <1>1. \A i \in 1 .. k : <<n, i, k>> \in Event
    BY DEF Event
  <1>2. Batch(n, k) \in Seq(Event) /\ Len(Batch(n, k)) = k
    BY <1>1 DEF Batch
  <1>3. Batch(n, k) = <<>> <=> k = 0
    BY <1>2, EmptySeq
  <1> QED BY <1>2, <1>3 DEF Batch

(* A log of whole batches stays one when a later batch is appended.        *)
LEMMA WholeAppend ==
  ASSUME NEW log \in Seq(Event), Whole(log),
         NEW n \in Nat, NEW k \in Nat,
         \A i \in 1 .. Len(log) : log[i][1] < n
  PROVE  /\ log \o Batch(n, k) \in Seq(Event)
         /\ Whole(log \o Batch(n, k))
         /\ \A i \in 1 .. Len(log \o Batch(n, k)) : (log \o Batch(n, k))[i][1] <= n
  <1> DEFINE L == Len(log)
  <1> DEFINE b == Batch(n, k)
  <1> DEFINE g == log \o b
  <1>1. /\ b \in Seq(Event) /\ Len(b) = k /\ \A i \in 1 .. k : b[i] = <<n, i, k>>
    BY BatchFacts
  <1>2. L \in Nat /\ \A i \in 1 .. L : log[i] \in Event
    OBVIOUS
  <1> HIDE DEF b
  <1>3. /\ g \in Seq(Event) /\ Len(g) = L + k
        /\ \A i \in 1 .. L + k : g[i] = IF i <= L THEN log[i] ELSE b[i - L]
    BY <1>1, ConcatProperties
  <1> HIDE DEF g
  <1>4. \A i \in 1 .. L : g[i] = log[i] /\ g[i] \in Event
    <2> TAKE i \in 1 .. L
    <2>1. i \in 1 .. L + k /\ i <= L
      BY <1>2
    <2>2. g[i] = log[i]
      BY <2>1, <1>3
    <2>3. log[i] \in Event
      BY <1>2
    <2> QED BY <2>2, <2>3
  <1>5. \A i \in L + 1 .. L + k : g[i] = <<n, i - L, k>>
    BY <1>1, <1>2, <1>3
  <1>6. \A i \in 1 .. L + k : i \in 1 .. L \/ i \in L + 1 .. L + k
    BY <1>2
  <1>7. ASSUME NEW i \in 1 .. L + k PROVE g[i][1] <= n
    <2>1. CASE i \in 1 .. L
      <3>1. g[i] = log[i] /\ log[i][1] < n /\ g[i] \in Event
        BY <2>1, <1>4
      <3> QED BY <3>1 DEF Event
    <2>2. CASE i \in L + 1 .. L + k
      <3>1. g[i][1] = n
        BY <2>2, <1>5
      <3> QED BY <3>1
    <2> QED BY <2>1, <2>2, <1>6
  <1>8. ASSUME NEW i \in 1 .. L + k
        PROVE  /\ g[i][2] > 1 => i > 1 /\ g[i - 1] = <<g[i][1], g[i][2] - 1, g[i][3]>>
               /\ g[i][2] < g[i][3] =>
                    i < L + k /\ g[i + 1] = <<g[i][1], g[i][2] + 1, g[i][3]>>
               /\ g[i][2] = 1 => \A j \in 1 .. i - 1 : g[j][1] < g[i][1]
    <2>1. CASE i \in 1 .. L
      <3>1. /\ log[i][2] > 1 => i > 1 /\ log[i - 1] = <<log[i][1], log[i][2] - 1, log[i][3]>>
            /\ log[i][2] < log[i][3] =>
                    i < L /\ log[i + 1] = <<log[i][1], log[i][2] + 1, log[i][3]>>
            /\ log[i][2] = 1 => \A j \in 1 .. i - 1 : log[j][1] < log[i][1]
        BY <2>1 DEF Whole
      <3>2. i > 1 => i - 1 \in 1 .. L
        BY <2>1, <1>2
      <3>3. i < L => i + 1 \in 1 .. L /\ i < L + k
        BY <2>1, <1>2
      <3>4. \A j \in 1 .. i - 1 : j \in 1 .. L
        BY <2>1, <1>2
      <3> HIDE DEF L
      <3> QED BY <3>1, <3>2, <3>3, <3>4, <2>1, <1>4
    <2>2. CASE i \in L + 1 .. L + k
      <3>1. g[i] = <<n, i - L, k>> /\ g[i][1] = n /\ g[i][2] = i - L /\ g[i][3] = k
        BY <2>2, <1>5
      <3>2. i - L > 1 => i - 1 \in L + 1 .. L + k /\ i > 1
        BY <2>2, <1>2
      <3>3. i - L < k => i + 1 \in L + 1 .. L + k /\ i < L + k
        BY <2>2, <1>2
      <3>4. i - L = 1 => \A j \in 1 .. i - 1 : j \in 1 .. L
        BY <2>2, <1>2
      <3>5. g[i][2] > 1 => i > 1 /\ g[i - 1] = <<g[i][1], g[i][2] - 1, g[i][3]>>
        <4> SUFFICES ASSUME i - L > 1 PROVE i > 1 /\ g[i - 1] = <<n, i - L - 1, k>>
          BY <3>1
        <4>1. g[i - 1] = <<n, i - 1 - L, k>>
          BY <3>2, <1>5
        <4>2. i - 1 - L = i - L - 1
          BY <2>2, <1>2
        <4> QED BY <4>1, <4>2, <3>2
      <3>6. g[i][2] < g[i][3] => i < L + k /\ g[i + 1] = <<g[i][1], g[i][2] + 1, g[i][3]>>
        <4> SUFFICES ASSUME i - L < k PROVE i < L + k /\ g[i + 1] = <<n, i - L + 1, k>>
          BY <3>1
        <4>1. g[i + 1] = <<n, i + 1 - L, k>>
          BY <3>3, <1>5
        <4>2. i + 1 - L = i - L + 1
          BY <2>2, <1>2
        <4> QED BY <4>1, <4>2, <3>3
      <3>7. g[i][2] = 1 => \A j \in 1 .. i - 1 : g[j][1] < g[i][1]
        BY <3>1, <3>4, <1>4
      <3> QED BY <3>5, <3>6, <3>7
    <2> QED BY <2>1, <2>2, <1>6
  <1>9. Whole(g)
    BY <1>3, <1>8 DEF Whole
  <1> QED BY <1>3, <1>7, <1>9 DEF g, b

(* What a concatenation holds.                                             *)
LEMMA ConcatSet ==
  ASSUME NEW s \in Seq(Event), NEW t \in Seq(Event)
  PROVE  ToSet(s \o t) = ToSet(s) \cup ToSet(t) /\ s \o t \in Seq(Event)
  <1>1. /\ s \o t \in Seq(Event) /\ Len(s \o t) = Len(s) + Len(t)
        /\ \A i \in 1 .. Len(s) + Len(t) :
             (s \o t)[i] = IF i <= Len(s) THEN s[i] ELSE t[i - Len(s)]
    BY ConcatProperties
  <1>2. /\ DOMAIN (s \o t) = 1 .. Len(s) + Len(t)
        /\ DOMAIN s = 1 .. Len(s) /\ DOMAIN t = 1 .. Len(t)
        /\ Len(s) \in Nat /\ Len(t) \in Nat
    BY <1>1
  <1>3. \A i \in 1 .. Len(s) : i \in 1 .. Len(s) + Len(t) /\ (s \o t)[i] = s[i]
    BY <1>1, <1>2
  <1>4. \A i \in 1 .. Len(t) : /\ i + Len(s) \in 1 .. Len(s) + Len(t)
                               /\ (s \o t)[i + Len(s)] = t[i]
    <2> TAKE i \in 1 .. Len(t)
    <2>1. /\ i + Len(s) \in 1 .. Len(s) + Len(t)
          /\ i + Len(s) - Len(s) = i /\ ~(i + Len(s) <= Len(s))
      BY <1>2
    <2> QED BY <2>1, <1>1
  <1>5. \A i \in 1 .. Len(s) + Len(t) :
          \/ i \in 1 .. Len(s) /\ (s \o t)[i] = s[i]
          \/ i - Len(s) \in 1 .. Len(t) /\ (s \o t)[i] = t[i - Len(s)]
    BY <1>1, <1>2
  <1>6. ToSet(s \o t) \subseteq ToSet(s) \cup ToSet(t)
    BY <1>2, <1>5 DEF ToSet
  <1>7. ToSet(s) \subseteq ToSet(s \o t)
    BY <1>2, <1>3 DEF ToSet
  <1>8. ToSet(t) \subseteq ToSet(s \o t)
    BY <1>2, <1>4 DEF ToSet
  <1> QED BY <1>1, <1>6, <1>7, <1>8

-----------------------------------------------------------------------------
(* The steps. *)

(* There is garbage in the file, or there is not.                          *)
LEMMA NoGarbage ==
  ASSUME file \in Seq(Lines)
  PROVE  (\A l \in 1 .. Len(file) : file[l] # Garbage) <=> Bad(file) = {}
  <1>1. DOMAIN file = 1 .. Len(file)
    OBVIOUS
  <1> QED BY <1>1 DEF Bad

(* The initial states satisfy the invariant.                               *)
LEMMA InitHolds == Init => IInv
  <1> SUFFICES ASSUME Init PROVE IInv
    OBVIOUS
  <1>1. Log = <<>> /\ <<>> \in Seq(Lines) /\ Bad(file) = {}
    BY DecodeEmpty DEF Init, Log
  <1>2. Types
    BY <1>1 DEF Init, Types
  <1>3. TypeOK
    <2>1. \A i \in DOMAIN file : FALSE
      BY EmptySeq DEF Init
    <2>2. (phase \in {"writing", "syncing"}) = (batch # <<>>)
      BY DEF Init
    <2>3. torn \in BOOLEAN /\ phase \in {"down", "idle", "writing", "syncing"}
          /\ batch = <<>>
      BY DEF Init
    <2> QED BY <2>1, <2>2, <2>3 DEF TypeOK
  <1>4. InFlight
    BY DEF Init, InFlight
  <1>5. Whole(Log) /\ Numbered
    BY <1>1 DEF Whole, Numbered
  <1>6. WrittenBeforeSync /\ AckedUntilGarbage /\ StateIsReplayed
    BY <1>1 DEF Init, WrittenBeforeSync, AckedUntilGarbage, StateIsReplayed
  <1> QED BY <1>2, <1>3, <1>4, <1>5, <1>6 DEF IInv

(* TypeOK is kept by a step that writes no line.                           *)
LEMMA TypeOKKept ==
  ASSUME TypeOK, Types, Types', file' = file, tried' \in {tried, tried + 1},
         torn' \in BOOLEAN, phase' \in {"down", "idle", "writing", "syncing"},
         InFlight'
  PROVE  TypeOK'
  <1>1. 1 .. tried \subseteq 1 .. tried'
    BY DEF Types
  <1>2. ASSUME NEW i \in DOMAIN file'
        PROVE  file'[i] = Garbage \/ \E n \in 1 .. tried', k \in Sizes : file'[i] = Batch(n, k)
    <2>1. file[i] = Garbage \/ \E n \in 1 .. tried, k \in Sizes : file[i] = Batch(n, k)
      BY DEF TypeOK, IsBatch, Batch
    <2> QED BY <2>1, <1>1
  <1>3. phase' \in {"writing", "syncing"} =>
          batch' # <<>> /\ \E n \in 1 .. tried', k \in Sizes : batch' = Batch(n, k)
    <2> SUFFICES ASSUME phase' \in {"writing", "syncing"}
                 PROVE  batch' # <<>> /\ \E n \in 1 .. tried', k \in Sizes : batch' = Batch(n, k)
      OBVIOUS
    <2>1. PICK k \in Sizes : k # 0 /\ batch' = Batch(tried', k) /\ tried' >= 1
      BY DEF InFlight, Batch
    <2>2. k \in Nat /\ tried' \in Nat
      BY FileJournalAssumption DEF Types
    <2>3. batch' # <<>>
      BY <2>1, <2>2, BatchFacts
    <2>4. tried' \in 1 .. tried'
      BY <2>1, <2>2
    <2> QED BY <2>1, <2>3, <2>4
  <1>4. phase' \notin {"writing", "syncing"} => batch' = <<>>
    BY DEF InFlight
  <1>5. (phase' \in {"writing", "syncing"}) = (batch' # <<>>)
    BY <1>3, <1>4
  <1>6. \A i \in DOMAIN file' :
          file'[i] = Garbage \/ \E n \in 1 .. tried', k \in Sizes : file'[i] = Batch(n, k)
    BY <1>2
  <1>7. batch' # <<>> => \E n \in 1 .. tried', k \in Sizes : batch' = Batch(n, k)
    BY <1>3, <1>4
  <1> QED BY <1>5, <1>6, <1>7 DEF TypeOK, IsBatch, Batch

(* What is recovered.                                                      *)
LEMMA RecoverHolds ==
  ASSUME IInv, Recover \/ RecoverUnreadable
  PROVE  IInv'
  <1> USE DEF IInv
  <1>1. /\ UNCHANGED <<file, torn, batch, tried, acked>> /\ phase = "down" /\ phase' = "idle"
        /\ \/ state' = Decode(file) /\ happened' = happened
           \/ state' = <<>> /\ happened' = happened \cup {"read"}
    BY DEF Recover, RecoverUnreadable
  <1>2. Types'
    <2>1. file \in Seq(Lines)
      BY DEF Types
    <2>2. Decode(file) \in Seq(Event) /\ <<>> \in Seq(Event)
      BY <2>1, DecodeType, EmptySeq
    <2> QED BY <2>2, <1>1 DEF Types
  <1>3. InFlight'
    BY <1>1 DEF InFlight
  <1>4. TypeOK'
    BY <1>1, <1>2, <1>3, TypeOKKept DEF TypeOK
  <1>5. Whole(Log)' /\ Numbered'
    BY <1>1 DEF Log, Numbered, Whole
  <1>6. WrittenBeforeSync' /\ AckedUntilGarbage'
    BY <1>1 DEF WrittenBeforeSync, AckedUntilGarbage
  <1>7. StateIsReplayed'
    BY <1>1 DEF StateIsReplayed
  <1> QED BY <1>2, <1>3, <1>4, <1>5, <1>6, <1>7

(* A command persists a batch.                                             *)
LEMMA PersistHolds ==
  ASSUME IInv, NEW k \in Sizes, Persist(k)
  PROVE  IInv'
  <1> USE DEF IInv
  <1>1. k \in Nat /\ tried \in Nat /\ tried + 1 \in Nat
    BY FileJournalAssumption DEF Types
  <1>2. /\ UNCHANGED <<file, torn, state, acked, happened>> /\ phase = "idle"
        /\ tried' = tried + 1
        /\ IF k = 0 THEN UNCHANGED <<phase, batch>>
           ELSE phase' = "writing" /\ batch' = Batch(tried + 1, k)
    BY DEF Persist, Batch
  <1>3. Types'
    BY <1>1, <1>2, BatchFacts DEF Types
  <1>4. InFlight'
    BY <1>1, <1>2 DEF InFlight
  <1>5. TypeOK'
    BY <1>2, <1>3, <1>4, TypeOKKept DEF TypeOK
  <1>6. Whole(Log)'
    BY <1>2 DEF Log, Whole
  <1>7. Numbered'
    <2>1. Log \in Seq(Event) /\ Log' = Log
      BY <1>2, DecodeType DEF Types, Log
    <2>2. \A i \in 1 .. Len(Log) : Log[i][1] \in Nat
      BY <2>1 DEF Event
    <2>3. \A i \in 1 .. Len(Log) : Log[i][1] <= tried
      BY DEF Numbered
    <2> QED BY <2>1, <2>2, <2>3, <1>1, <1>2 DEF Numbered
  <1>8. WrittenBeforeSync' /\ AckedUntilGarbage'
    BY <1>2 DEF WrittenBeforeSync, AckedUntilGarbage
  <1>9. StateIsReplayed'
    BY <1>2 DEF StateIsReplayed
  <1> QED BY <1>3, <1>4, <1>5, <1>6, <1>7, <1>8, <1>9

(* The batch is refused before it is written, or although it is.           *)
LEMMA RefusedHolds ==
  ASSUME IInv, OpenErr \/ WriteErr \/ SyncErr
  PROVE  IInv'
  <1> USE DEF IInv
  <1>1. /\ UNCHANGED <<file, state, tried, acked>> /\ phase' = "idle" /\ batch' = <<>>
        /\ torn' \in BOOLEAN
        /\ \/ phase = "writing" /\ happened \subseteq happened'
           \/ "sync" \in happened'
    BY DEF OpenErr, WriteErr, SyncErr, Refused, TypeOK
  <1>2. Types'
    BY <1>1 DEF Types
  <1>3. InFlight'
    BY <1>1 DEF InFlight
  <1>4. TypeOK'
    BY <1>1, <1>2, <1>3, TypeOKKept DEF TypeOK
  <1>5. Whole(Log)' /\ Numbered'
    BY <1>1 DEF Log, Numbered, Whole
  <1>6. WrittenBeforeSync' /\ AckedUntilGarbage'
    BY <1>1 DEF WrittenBeforeSync, AckedUntilGarbage
  <1>7. StateIsReplayed'
    BY <1>1 DEF StateIsReplayed
  <1> QED BY <1>2, <1>3, <1>4, <1>5, <1>6, <1>7

(* The line is written: its batch can be replayed, if all before it can.   *)
LEMMA WriteAllHolds ==
  ASSUME IInv, WriteAll
  PROVE  IInv'
  <1> USE DEF IInv
  <1> DEFINE line == IF torn THEN Garbage ELSE batch
  <1>1. /\ phase = "writing" /\ phase' = "syncing" /\ torn' = FALSE
        /\ UNCHANGED <<state, batch, tried, acked, happened>>
        /\ file' = Append(file, line)
    BY DEF WriteAll, WithLine
  <1>2. PICK k \in Sizes : k # 0 /\ batch = Batch(tried, k) /\ tried >= 1
    BY <1>1 DEF InFlight
  <1>3. /\ k \in Nat /\ tried \in Nat /\ batch \in Seq(Event) /\ batch # <<>>
        /\ file \in Seq(Lines)
    BY <1>2, BatchFacts, FileJournalAssumption DEF Types
  <1>4. line \in Lines
    BY <1>3 DEF Lines, Garbage
  <1> HIDE DEF line
  <1>5. /\ file' \in Seq(Lines)
        /\ Bad(file') = {} <=> Bad(file) = {} /\ line # Garbage
        /\ Log' = IF Bad(file) = {} /\ line # Garbage THEN Log \o line ELSE Log
    BY <1>1, <1>3, <1>4, DecodeAppend DEF Log
  <1>6. line # Garbage => line = batch
    BY DEF line
  <1>7. Log \in Seq(Event)
    BY <1>3, DecodeType DEF Log
  <1>8. Types'
    BY <1>1, <1>5 DEF Types
  <1>9. InFlight'
    BY <1>1 DEF InFlight
  <1>10. TypeOK'
    <2>1. \A b : IsBatch(b)' <=> IsBatch(b)
      BY <1>1 DEF IsBatch
    <2>2. IsBatch(batch)
      BY <1>3 DEF TypeOK
    <2>3. ASSUME NEW i \in DOMAIN file' PROVE file'[i] = Garbage \/ IsBatch(file'[i])
      <3>1. /\ DOMAIN file' = 1 .. Len(file) + 1 /\ DOMAIN file = 1 .. Len(file)
            /\ Len(file) \in Nat
        BY <1>1, <1>3, <1>4, <1>5, AppendProperties
      <3>2. /\ \A j \in 1 .. Len(file) : file'[j] = file[j]
            /\ file'[Len(file) + 1] = line
        BY <1>1, <1>3, <1>4, AppendProperties
      <3>3. i \in 1 .. Len(file) \/ i = Len(file) + 1
        BY <2>3, <3>1
      <3>4. CASE i \in 1 .. Len(file)
        BY <3>1, <3>2, <3>4 DEF TypeOK
      <3>5. CASE i = Len(file) + 1
        BY <3>2, <3>5, <2>2, <1>6
      <3> QED BY <3>3, <3>4, <3>5
    <2> QED BY <2>1, <2>2, <2>3, <1>1, <1>3 DEF TypeOK
  <1>11. /\ Log \o batch \in Seq(Event) /\ Whole(Log \o batch)
         /\ \A i \in 1 .. Len(Log \o batch) : (Log \o batch)[i][1] <= tried
    <2>1. \A i \in 1 .. Len(Log) : Log[i][1] < tried
      BY <1>1 DEF Numbered
    <2>2. Whole(Log)
      OBVIOUS
    <2> QED BY <2>1, <2>2, <1>2, <1>3, <1>7, WholeAppend
  <1>12. Whole(Log')
    BY <1>5, <1>6, <1>11
  <1>13. Numbered'
    <2>1. \A i \in 1 .. Len(Log') : Log'[i][1] <= tried
      BY <1>5, <1>6, <1>11 DEF Numbered
    <2> QED BY <2>1, <1>1 DEF Numbered
  <1>14. ToSet(Log \o batch) = ToSet(Log) \cup ToSet(batch)
    BY <1>3, <1>7, ConcatSet
  <1>15. WrittenBeforeSync'
    BY <1>1, <1>5, <1>6, <1>14 DEF WrittenBeforeSync
  <1>16. AckedUntilGarbage'
    <2> SUFFICES ASSUME Bad(file') = {} PROVE acked \subseteq ToSet(Log')
      BY <1>1, <1>5, NoGarbage DEF AckedUntilGarbage, Log, Bad
    <2>1. acked \subseteq ToSet(Log)
      BY <1>3, <1>5, NoGarbage DEF AckedUntilGarbage, Log
    <2> QED BY <2>1, <1>5, <1>6, <1>14
  <1>17. StateIsReplayed'
    <2> SUFFICES ASSUME happened \subseteq {"crash", "open"}, Bad(file') = {}
                 PROVE  state \o batch = Log'
      <3>1. \/ \E l \in 1 .. Len(file') : file'[l] = Garbage
            \/ Bad(file') = {}
        BY <1>5 DEF Bad
      <3> QED BY <3>1, <1>1 DEF StateIsReplayed, Log
    <2>1. state = Log
      BY <1>1, <1>3, <1>5, NoGarbage DEF StateIsReplayed, Log
    <2> QED BY <2>1, <1>5, <1>6
  <1> QED BY <1>8, <1>9, <1>10, <1>12, <1>13, <1>15, <1>16, <1>17

(* The Ok arrives: state and acknowledged events gain the batch.           *)
LEMMA SyncOkHolds ==
  ASSUME IInv, SyncOk
  PROVE  IInv'
  <1> USE DEF IInv
  <1>1. /\ UNCHANGED <<file, torn, tried, happened>> /\ phase = "syncing" /\ phase' = "idle"
        /\ batch' = <<>> /\ state' = state \o batch
        /\ acked' = acked \cup ToSet(batch)
    BY DEF SyncOk
  <1>2. Types'
    BY <1>1 DEF Types
  <1>3. InFlight'
    BY <1>1 DEF InFlight
  <1>4. TypeOK'
    BY <1>1, <1>2, <1>3, TypeOKKept DEF TypeOK
  <1>5. Whole(Log)' /\ Numbered'
    BY <1>1 DEF Log, Numbered, Whole
  <1>6. WrittenBeforeSync'
    BY <1>1 DEF WrittenBeforeSync
  <1>7. AckedUntilGarbage'
    <2> SUFFICES ASSUME \A l \in 1 .. Len(file) : file[l] # Garbage
                 PROVE  acked \cup ToSet(batch) \subseteq ToSet(Log)
      BY <1>1 DEF AckedUntilGarbage, Log
    <2>1. Bad(file) = {}
      BY NoGarbage DEF Types
    <2> QED BY <2>1, <1>1 DEF WrittenBeforeSync, AckedUntilGarbage, Log
  <1>8. StateIsReplayed'
    BY <1>1 DEF StateIsReplayed
  <1> QED BY <1>2, <1>3, <1>4, <1>5, <1>6, <1>7, <1>8

(* The process dies.                                                       *)
LEMMA CrashHolds ==
  ASSUME IInv, Crash
  PROVE  IInv'
  <1> USE DEF IInv
  <1>1. /\ UNCHANGED <<file, tried, acked>> /\ phase' = "down"
        /\ state' = <<>> /\ batch' = <<>> /\ torn' \in BOOLEAN
    BY DEF Crash, TypeOK
  <1>2. Types'
    BY <1>1 DEF Types
  <1>3. InFlight'
    BY <1>1 DEF InFlight
  <1>4. TypeOK'
    BY <1>1, <1>2, <1>3, TypeOKKept DEF TypeOK
  <1>5. Whole(Log)' /\ Numbered'
    BY <1>1 DEF Log, Numbered, Whole
  <1>6. WrittenBeforeSync' /\ AckedUntilGarbage' /\ StateIsReplayed'
    BY <1>1 DEF WrittenBeforeSync, AckedUntilGarbage, StateIsReplayed
  <1> QED BY <1>2, <1>3, <1>4, <1>5, <1>6

(* A step preserves the invariant.                                         *)
LEMMA NextHolds == IInv /\ [Next]_vars => IInv'
  <1> SUFFICES ASSUME IInv, [Next]_vars PROVE IInv'
    OBVIOUS
  <1>1. CASE Recover \/ RecoverUnreadable
    BY <1>1, RecoverHolds
  <1>2. CASE \E k \in Sizes : Persist(k)
    BY <1>2, PersistHolds
  <1>3. CASE OpenErr \/ WriteErr \/ SyncErr
    BY <1>3, RefusedHolds
  <1>4. CASE WriteAll
    BY <1>4, WriteAllHolds
  <1>5. CASE SyncOk
    BY <1>5, SyncOkHolds
  <1>6. CASE Crash
    BY <1>6, CrashHolds
  <1>7. CASE UNCHANGED vars
    BY <1>7 DEF vars, IInv, Types, TypeOK, InFlight, Numbered, Whole, Log, IsBatch,
                WrittenBeforeSync, AckedUntilGarbage, StateIsReplayed
  <1> QED BY <1>1, <1>2, <1>3, <1>4, <1>5, <1>6, <1>7 DEF Next

-----------------------------------------------------------------------------
(* The theorems. *)

(* The invariant holds in every state.                                     *)
LEMMA Inductive == Spec => []IInv
  <1> QED BY InitHolds, NextHolds, PTL DEF Spec

(* FileJournal::persist writes one line for a batch, "must not be          *)
(* half-applied": whatever is torn, refused or interrupted, what is        *)
(* replayed consists of whole batches in the order they were tried.        *)
THEOREM BatchesAreWhole == Spec => []Inv
  <1>1. IInv => Inv
    BY DEF IInv, Inv, WholeBatches, Whole, Log
  <1> QED BY <1>1, Inductive, PTL

(* persist's Ok: the events are replayed by every later recovery, as long  *)
(* as no append has gone behind a torn line.                               *)
THEOREM AckedIsReplayed == Spec => []AckedUntilGarbage
  <1>1. IInv => AckedUntilGarbage
    BY DEF IInv
  <1> QED BY <1>1, Inductive, PTL

(* persist_events over this journal: with crashes and failed opens alone,  *)
(* a live actor's state is what a recovery would rebuild.                  *)
THEOREM StateIsTheFile == Spec => []StateIsReplayed
  <1>1. IInv => StateIsReplayed
    BY DEF IInv
  <1> QED BY <1>1, Inductive, PTL

(* decode_after numbers events by their place: what was replayed once is   *)
(* replayed in the same places ever after.                                 *)
THEOREM PlacesAreStable == Spec => ReplayIsStable
  <1>1. IInv /\ [Next]_vars => IsPrefix(Decode(file), Decode(file'))
    <2> SUFFICES ASSUME IInv, [Next]_vars PROVE IsPrefix(Decode(file), Decode(file'))
      OBVIOUS
    <2>1. Decode(file) \in Seq(Event)
      BY DecodeType DEF IInv, Types
    <2>2. CASE file' = file
      BY <2>1, <2>2 DEF IsPrefix
    <2>3. CASE WriteAll
      <3> DEFINE line == IF torn THEN Garbage ELSE batch
      <3>1. line \in Lines /\ file \in Seq(Lines) /\ file' = Append(file, line)
        BY <2>3 DEF WriteAll, WithLine, IInv, Types, Lines, Garbage
      <3> HIDE DEF line
      <3>2. Decode(file') = Decode(file) \/ Decode(file') = Decode(file) \o line
        BY <3>1, DecodeAppend
      <3>3. line \in Seq(Event)
        BY <3>1 DEF Lines
      <3>4. IsPrefix(Decode(file), Decode(file) \o line)
        BY <2>1, <3>3 DEF IsPrefix
      <3>5. IsPrefix(Decode(file), Decode(file))
        BY <2>1 DEF IsPrefix
      <3> QED BY <3>2, <3>4, <3>5
    <2>4. file' = file \/ WriteAll
      BY DEF Next, vars, Recover, RecoverUnreadable, Persist, OpenErr, WriteErr, SyncOk,
             SyncErr, Crash
    <2> QED BY <2>2, <2>3, <2>4
  <1>2. IInv /\ [Next]_vars => [IsPrefix(Decode(file), Decode(file'))]_vars
    BY <1>1
  <1> QED BY <1>2, Inductive, PTL DEF Spec, ReplayIsStable
=============================================================================
