--------------------------- MODULE AgentLoopProofs ---------------------------
(***************************************************************************)
(* What is proved of AgentLoop, for all settings, turns, thresholds and    *)
(* bounds: the types, that a run which was given a conversation a provider *)
(* accepts only asks with such conversations, that a resumed session       *)
(* answers what it had heard, that the journal tells the conversation in   *)
(* order, and that an attempt that repeats itself is over.                 *)
(*                                                                         *)
(* The inductive invariant is IInv, below.  It relates three copies of the *)
(* conversation: the run's history is what the run was given and then, for *)
(* each answer of the model, the answer and a result for each of its calls *)
(* but those under execution (Requests, Tailed); the window of recent      *)
(* turns is the tail of that history's tool turns (Watched); and the       *)
(* journal followed by the queue is a conversation of its own, in which    *)
(* the calls under execution, and the call a session waits for, are the    *)
(* open ones (Tape, Open, Asked).  Messages of the model are numbered, and *)
(* Bounded says that what is new has not been answered before.             *)
(***************************************************************************)
EXTENDS AgentLoop, SequenceTheorems, FiniteSetTheorems, WellFoundedInduction, TLAPS

NatLess == {p \in Nat \X Nat : p[1] < p[2]}

(* The natural numbers are well founded, which stands for induction.       *)
LEMMA NatLessIsWellFounded == IsWellFoundedOn(NatLess, Nat)
  <1>1. IsWellFoundedOn(OpToRel(<, Nat), Nat)
    BY NatLessThanWellFounded
  <1>2. OpToRel(<, Nat) = NatLess
    BY DEF OpToRel, NatLess
  <1> QED BY <1>1, <1>2

(* A set of natural numbers has a least element.                           *)
LEMMA Least ==
  ASSUME NEW S \in SUBSET Nat, S # {}
  PROVE  \E x \in S : \A y \in S : x <= y
  <1>1. PICK x \in S : \A y \in S : ~(<<y, x>> \in NatLess)
    BY NatLessIsWellFounded, WFMin
  <1>2. ASSUME NEW y \in S PROVE x <= y
    <2>1. <<y, x>> \in Nat \X Nat /\ ~(<<y, x>> \in NatLess)
      BY <1>1
    <2>2. ~(y < x)
      BY <2>1 DEF NatLess
    <2> QED BY <2>2
  <1> QED BY <1>2

(* Induction over a set: by its least counterexample.                      *)
LEMMA Induction ==
  ASSUME NEW S, 0 \in S, \A n \in Nat : n \in S => n + 1 \in S
  PROVE  Nat \subseteq S
  <1> SUFFICES ASSUME Nat \ S # {} PROVE FALSE
    OBVIOUS
  <1>1. Nat \ S \in SUBSET Nat
    OBVIOUS
  <1>2. PICK m \in Nat \ S : \A k \in Nat \ S : m <= k
    BY Least, <1>1
  <1>3. m \in Nat /\ m # 0 /\ m - 1 \in Nat
    OBVIOUS
  <1>4. m - 1 \in S
    BY <1>2, <1>3
  <1>5. m - 1 + 1 = m
    BY <1>3
  <1> QED BY <1>3, <1>4, <1>5

(* Min is the least element of a set of numbers.                           *)
LEMMA MinFact ==
  ASSUME NEW S \in SUBSET Nat, S # {}
  PROVE  Min(S) \in S /\ \A y \in S : Min(S) <= y
  <1>1. \E x \in S : \A y \in S : x <= y
    BY Least
  <1> QED BY <1>1 DEF Min

(* A greatest element is Max.                                              *)
LEMMA MaxIs ==
  ASSUME NEW S \in SUBSET Nat, NEW x \in S, \A y \in S : y <= x
  PROVE  Max(S) = x
  <1>1. \E z \in S : \A y \in S : z >= y
    OBVIOUS
  <1>2. Max(S) \in S /\ \A y \in S : Max(S) >= y
    BY <1>1, Zenon DEF Max
  <1>3. Max(S) >= x /\ x >= Max(S) /\ Max(S) \in Nat /\ x \in Nat
    BY <1>2
  <1> QED BY <1>3

(* A bounded set of numbers has its Max.                                   *)
LEMMA MaxFact ==
  ASSUME NEW n \in Nat, NEW S \in SUBSET (0 .. n), S # {}
  PROVE  Max(S) \in S /\ \A y \in S : y <= Max(S)
  <1> DEFINE T == {k \in Nat : n - k \in S}
  <1>1. T # {}
    <2>1. PICK x \in S : TRUE
      OBVIOUS
    <2>2. n - x \in Nat /\ n - (n - x) = x
      OBVIOUS
    <2> QED BY <2>1, <2>2
  <1>2. PICK k \in T : \A y \in T : k <= y
    <2> HIDE DEF T
    <2>1. T \in SUBSET Nat
      BY DEF T
    <2> QED BY <1>1, <2>1, Least
  <1>3. n - k \in S
    OBVIOUS
  <1>4. ASSUME NEW y \in S PROVE y <= n - k
    <2>1. n - y \in Nat /\ n - (n - y) = y
      OBVIOUS
    <2>2. n - y \in T
      BY <2>1
    <2>3. k <= n - y
      BY <2>2, <1>2
    <2> QED BY <2>1, <2>3
  <1>5. S \in SUBSET Nat
    OBVIOUS
  <1>6. Max(S) = n - k
    <2> HIDE DEF T
    <2> QED BY <1>3, <1>4, <1>5, MaxIs
  <1> QED BY <1>3, <1>4, <1>6

-----------------------------------------------------------------------------
(* Messages and conversations. *)

(* The three kinds of messages and their fields.                           *)
LEMMA MessageFacts ==
  ASSUME NEW m \in Message
  PROVE  /\ m.role \in {"user", "assistant", "tool"}
         /\ m.role = "user" => m = User
         /\ m.role = "assistant" => m.n \in Nat /\ m.turn \in Turns /\ m = Assistant(m.n, m.turn)
         /\ m.role = "tool" => m.n \in Nat /\ m.call \in Nat \ {0} /\ m = Result(m.n, m.call)
  BY DEF Message, User, Assistant, Result

(* What the loop builds is a message.                                      *)
LEMMA MessageTypes ==
  /\ User \in Message
  /\ \A n \in Nat, t \in Turns : Assistant(n, t) \in Message
  /\ \A n \in Nat, c \in Nat \ {0} : Result(n, c) \in Message
  BY DEF Message, User, Assistant, Result

(* The fields of what the loop builds.                                     *)
LEMMA MessageFields ==
  /\ User.role = "user"
  /\ \A n, t : /\ Assistant(n, t).role = "assistant"
               /\ Assistant(n, t).n = n /\ Assistant(n, t).turn = t
  /\ \A n, c : /\ Result(n, c).role = "tool"
               /\ Result(n, c).n = n /\ Result(n, c).call = c
  BY DEF User, Assistant, Result

(* A turn is a sequence of calls.                                          *)
LEMMA TurnFacts ==
  ASSUME NEW t \in Turns
  PROVE  /\ t \in Seq(STRING) /\ Len(t) \in Nat /\ DOMAIN t = 1 .. Len(t)
         /\ (t = <<>>) <=> (Len(t) = 0)
  BY TurnsAssumption, LenProperties, EmptySeq

(* g goes on where h ends. *)
Extends(g, h) ==
  /\ g \in Seq(Message) /\ h \in Seq(Message)
  /\ Len(h) <= Len(g)
  /\ \A i \in 1 .. Len(h) : g[i] = h[i]

(* One message more.                                                       *)
LEMMA AppendExtends ==
  ASSUME NEW h \in Seq(Message), NEW m \in Message
  PROVE  /\ Extends(Append(h, m), h)
         /\ Len(Append(h, m)) = Len(h) + 1
         /\ Append(h, m)[Len(h) + 1] = m
  BY AppendProperties, LenProperties DEF Extends

(* Several messages more.                                                  *)
LEMMA ConcatExtends ==
  ASSUME NEW h \in Seq(Message), NEW g \in Seq(Message)
  PROVE  /\ Extends(h \o g, h)
         /\ Len(h \o g) = Len(h) + Len(g)
         /\ \A i \in 1 .. Len(g) : (h \o g)[Len(h) + i] = g[i]
  BY ConcatProperties, LenProperties DEF Extends

(* To go on from what goes on.                                             *)
LEMMA ExtendsTransitive ==
  ASSUME NEW f, NEW g, NEW h, Extends(f, g), Extends(g, h)
  PROVE  Extends(f, h)
  BY LenProperties DEF Extends

(* The places of the model's messages, and the last of them.               *)
LEMMA SaidFacts ==
  ASSUME NEW h \in Seq(Message)
  PROVE  /\ Said(h) \in SUBSET (1 .. Len(h))
         /\ \A i \in Said(h) : h[i].n \in Nat /\ h[i].turn \in Turns
         /\ Said(h) # {} => Max(Said(h)) \in Said(h) /\ \A i \in Said(h) : i <= Max(Said(h))
  <1>1. Said(h) \in SUBSET (1 .. Len(h))
    BY LenProperties DEF Said
  <1>2. \A i \in Said(h) : h[i].n \in Nat /\ h[i].turn \in Turns
    <2>1. ASSUME NEW i \in Said(h) PROVE h[i].n \in Nat /\ h[i].turn \in Turns
      <3>1. h[i] \in Message /\ h[i].role = "assistant"
        BY LenProperties, ElementOfSeq DEF Said
      <3> QED BY <3>1, MessageFacts
    <2> QED BY <2>1
  <1>3. Said(h) # {} => Max(Said(h)) \in Said(h) /\ \A i \in Said(h) : i <= Max(Said(h))
    <2>1. Len(h) \in Nat /\ Said(h) \in SUBSET (0 .. Len(h))
      BY <1>1, LenProperties
    <2> QED BY <2>1, MaxFact
  <1> QED BY <1>1, <1>2, <1>3

(* The answers to a call, when messages are added.                         *)
LEMMA AnswersExtend ==
  ASSUME NEW g, NEW h, Extends(g, h), NEW n, NEW c
  PROVE  /\ Answers(g, n, c) = Answers(h, n, c)
              \cup {j \in Len(h) + 1 .. Len(g) : g[j] = Result(n, c)}
         /\ Answers(h, n, c) \in SUBSET (1 .. Len(h))
  BY LenProperties DEF Extends, Answers

(* Whom a result follows does not depend on what comes later.              *)
LEMMA FollowsExtend ==
  ASSUME NEW g, NEW h, Extends(g, h), NEW j \in 1 .. Len(h)
  PROVE  Follows(g, j) <=> Follows(h, j)
  <1> DEFINE before == {i \in 1 .. j - 1 : h[i].role # "tool"}
  <1>1. before = {i \in 1 .. j - 1 : g[i].role # "tool"}
    BY LenProperties DEF Extends
  <1>2. CASE before = {}
    BY <1>1, <1>2 DEF Follows
  <1>3. CASE before # {}
    <2>1. before \in SUBSET (0 .. j) /\ j \in Nat
      BY LenProperties DEF Extends
    <2>2. Max(before) \in before
      <3> HIDE DEF before
      <3> QED BY <2>1, <1>3, MaxFact
    <2>3. Max(before) \in 1 .. Len(h)
      BY <2>2, LenProperties DEF Extends
    <2>4. g[Max(before)] = h[Max(before)] /\ g[j] = h[j]
      BY <2>3 DEF Extends
    <2>5. Max(before) \in Said(g) <=> Max(before) \in Said(h)
      BY <2>3, <2>4, LenProperties DEF Extends, Said
    <2>6. Follows(h, j) <=> Max(before) \in Said(h) /\ h[Max(before)].n = h[j].n
      BY <1>3 DEF Follows
    <2>7. Follows(g, j) <=> Max(before) \in Said(g) /\ g[Max(before)].n = g[j].n
      BY <1>1, <1>3 DEF Follows
    <2> QED BY <2>4, <2>5, <2>6, <2>7
  <1> QED BY <1>2, <1>3

(* A result follows p if only results stand between them.                  *)
LEMMA FollowsFrom ==
  ASSUME NEW g \in Seq(Message), NEW p \in Said(g), NEW j \in p + 1 .. Len(g),
         \A i \in p + 1 .. j - 1 : g[i].role = "tool", g[j].n = g[p].n
  PROVE  Follows(g, j)
  <1> DEFINE before == {i \in 1 .. j - 1 : g[i].role # "tool"}
  <1>1. p \in 1 .. Len(g) /\ g[p].role = "assistant"
    BY SaidFacts DEF Said
  <1>2. Len(g) \in Nat
    BY LenProperties
  <1>3. before \in SUBSET Nat /\ p \in before
    BY <1>1, <1>2
  <1>4. \A i \in before : i <= p
    BY <1>1, <1>2
  <1>5. Max(before) = p
    <2> HIDE DEF before
    <2> QED BY <1>3, <1>4, MaxIs
  <1> QED BY <1>3, <1>5 DEF Follows

(* Every model message and result of h is of the first k.                  *)
Bounded(h, k) == \A j \in DOMAIN h : h[j].role # "user" => h[j].n <= k

(* Results follow their calls.                                             *)
Ordered(h) == \A j \in DOMAIN h : h[j].role = "tool" => Follows(h, j)

(* The last message of the model is the n-th, and its calls C have no      *)
(* results yet.                                                            *)
Open(h, n, C) ==
  \E p \in Said(h) :
    /\ h[p].n = n
    /\ \A j \in p + 1 .. Len(h) : h[j].role = "tool"
    /\ C \subseteq DOMAIN h[p].turn
    /\ \A c \in C : Answers(h, n, c) = {}

(* h ends with the one call w.                                             *)
Asked(h, w) ==
  /\ h # <<>> /\ h[Len(h)].role = "assistant" /\ h[Len(h)].n = w.n
  /\ DOMAIN h[Len(h)].turn = {w.call}
  /\ Answers(h, w.n, w.call) = {}

(* Later messages with higher numbers.                                     *)
LEMMA BoundedExtend ==
  ASSUME NEW g, NEW h, Extends(g, h), NEW k \in Nat, NEW l \in Nat, k <= l, Bounded(h, k),
         \A j \in Len(h) + 1 .. Len(g) : g[j].role # "user" => g[j].n <= l
  PROVE  Bounded(g, l)
  <1> SUFFICES ASSUME NEW j \in DOMAIN g, g[j].role # "user" PROVE g[j].n <= l
    BY DEF Bounded
  <1>1. j \in 1 .. Len(g) /\ Len(h) \in Nat
    BY LenProperties DEF Extends
  <1>2. CASE j \in 1 .. Len(h)
    <2>1. j \in DOMAIN h /\ g[j] = h[j] /\ h[j] \in Message
      BY <1>2, LenProperties, ElementOfSeq DEF Extends
    <2>2. h[j].n \in Nat
      BY <2>1, MessageFacts
    <2> QED BY <2>1, <2>2 DEF Bounded
  <1>3. CASE j \notin 1 .. Len(h)
    BY <1>1, <1>3
  <1> QED BY <1>2, <1>3

(* The beginning of a bounded conversation is bounded.                     *)
LEMMA BoundedPrefix ==
  ASSUME NEW g, NEW h, Extends(g, h), NEW k, Bounded(g, k)
  PROVE  Bounded(h, k)
  <1>1. ASSUME NEW j \in DOMAIN h PROVE j \in DOMAIN g /\ g[j] = h[j]
    BY LenProperties DEF Extends
  <1> QED BY <1>1 DEF Bounded

(* A message the model has not sent yet has no answers.                    *)
LEMMA BoundedAnswers ==
  ASSUME NEW h \in Seq(Message), NEW k \in Nat, Bounded(h, k), NEW n \in Nat, n > k, NEW c
  PROVE  Answers(h, n, c) = {}
  <1> SUFFICES ASSUME NEW j \in DOMAIN h, h[j] = Result(n, c) PROVE FALSE
    BY DEF Answers
  <1>1. h[j].role # "user" /\ h[j].n = n
    BY MessageFields
  <1> QED BY <1>1 DEF Bounded

(* New results have to follow their calls.                                 *)
LEMMA OrderedExtend ==
  ASSUME NEW g, NEW h, Extends(g, h), Ordered(h),
         \A j \in Len(h) + 1 .. Len(g) : g[j].role = "tool" => Follows(g, j)
  PROVE  Ordered(g)
  <1> SUFFICES ASSUME NEW j \in DOMAIN g, g[j].role = "tool" PROVE Follows(g, j)
    BY DEF Ordered
  <1>1. j \in 1 .. Len(g) /\ Len(h) \in Nat
    BY LenProperties DEF Extends
  <1>2. CASE j \in 1 .. Len(h)
    <2>1. j \in DOMAIN h /\ g[j] = h[j]
      BY <1>2, LenProperties DEF Extends
    <2> QED BY <2>1, <1>2, FollowsExtend DEF Ordered
  <1>3. CASE j \notin 1 .. Len(h)
    BY <1>1, <1>3
  <1> QED BY <1>2, <1>3

(* The beginning of an ordered conversation is ordered.                    *)
LEMMA OrderedPrefix ==
  ASSUME NEW g, NEW h, Extends(g, h), Ordered(g)
  PROVE  Ordered(h)
  <1> SUFFICES ASSUME NEW j \in DOMAIN h, h[j].role = "tool" PROVE Follows(h, j)
    BY DEF Ordered
  <1>1. j \in 1 .. Len(h) /\ j \in DOMAIN g /\ g[j] = h[j]
    BY LenProperties DEF Extends
  <1> QED BY <1>1, FollowsExtend DEF Ordered

-----------------------------------------------------------------------------
(* The journal. *)

Unique(h) ==
  \A j \in DOMAIN h : h[j].role = "tool" => Answers(h, h[j].n, h[j].call) = {j}

Tape(h, k) == h \in Seq(Message) /\ Ordered(h) /\ Unique(h) /\ Bounded(h, k)

(* A new result has to be the first for its call.                          *)
LEMMA UniqueExtend ==
  ASSUME NEW h \in Seq(Message), Unique(h), NEW m \in Message,
         m.role = "tool" => Answers(h, m.n, m.call) = {}
  PROVE  Unique(Append(h, m))
  <1> DEFINE g == Append(h, m)
  <1>1. /\ Extends(g, h) /\ Len(g) = Len(h) + 1 /\ g[Len(h) + 1] = m
        /\ Len(h) \in Nat /\ g \in Seq(Message) /\ DOMAIN g = 1 .. Len(g) /\ DOMAIN h = 1 .. Len(h)
    BY AppendExtends, LenProperties DEF Extends
  <1> HIDE DEF g
  <1> SUFFICES ASSUME NEW j \in DOMAIN g, g[j].role = "tool"
               PROVE  Answers(g, g[j].n, g[j].call) = {j}
    BY DEF Unique, g
  <1>2. Answers(g, g[j].n, g[j].call)
          = Answers(h, g[j].n, g[j].call)
              \cup {i \in Len(h) + 1 .. Len(g) : g[i] = Result(g[j].n, g[j].call)}
    BY <1>1, AnswersExtend
  <1>3. g[j] = Result(g[j].n, g[j].call)
    BY <1>1, ElementOfSeq, MessageFacts
  <1>4. CASE j = Len(h) + 1
    <2>1. Answers(h, g[j].n, g[j].call) = {}
      BY <1>1, <1>4
    <2>2. {i \in Len(h) + 1 .. Len(g) : g[i] = Result(g[j].n, g[j].call)} = {j}
      BY <1>1, <1>3, <1>4
    <2> QED BY <1>2, <2>1, <2>2
  <1>5. CASE j # Len(h) + 1
    <2>1. j \in 1 .. Len(h) /\ g[j] = h[j]
      BY <1>1, <1>5 DEF Extends
    <2>2. Answers(h, g[j].n, g[j].call) = {j}
      BY <1>1, <2>1 DEF Unique
    <2>3. g[Len(h) + 1] # Result(g[j].n, g[j].call)
      <3> SUFFICES ASSUME m = Result(g[j].n, g[j].call) PROVE FALSE
        BY <1>1
      <3>1. m.role = "tool" /\ m.n = g[j].n /\ m.call = g[j].call
        BY MessageFields
      <3> QED BY <3>1, <2>2
    <2>4. {i \in Len(h) + 1 .. Len(g) : g[i] = Result(g[j].n, g[j].call)} = {}
      BY <1>1, <2>3
    <2> QED BY <1>2, <2>2, <2>4
  <1> QED BY <1>4, <1>5

(* The beginning of a tape is a tape.                                      *)
LEMMA TapePrefix ==
  ASSUME NEW g, NEW h, NEW k, Extends(g, h), Tape(g, k)
  PROVE  Tape(h, k)
  <1>1. h \in Seq(Message) /\ Ordered(h) /\ Bounded(h, k)
    BY OrderedPrefix, BoundedPrefix DEF Tape, Extends
  <1>2. ASSUME NEW j \in DOMAIN h, h[j].role = "tool"
        PROVE  Answers(h, h[j].n, h[j].call) = {j}
    <2>1. j \in 1 .. Len(h) /\ j \in DOMAIN g /\ g[j] = h[j]
      BY LenProperties DEF Extends
    <2>2. Answers(g, h[j].n, h[j].call) = {j}
      BY <2>1, <1>2 DEF Tape, Unique
    <2>3. j \in Answers(h, h[j].n, h[j].call)
      BY <1>2, <2>1, <1>1, ElementOfSeq, MessageFacts DEF Answers
    <2> QED BY <2>2, <2>3, AnswersExtend
  <1> QED BY <1>1, <1>2 DEF Tape, Unique

(* The four ways a conversation grows.                                     *)
LEMMA TapeUser ==
  ASSUME NEW h, NEW k \in Nat, Tape(h, k)
  PROVE  Tape(Append(h, User), k)
  <1>1. h \in Seq(Message) /\ Len(h) \in Nat
    BY LenProperties DEF Tape
  <1>2. User \in Message /\ User.role = "user"
    BY MessageTypes, MessageFields
  <1>3. Extends(Append(h, User), h) /\ Len(Append(h, User)) = Len(h) + 1
        /\ Append(h, User)[Len(h) + 1] = User
    BY <1>1, <1>2, AppendExtends
  <1>4. Unique(Append(h, User))
    BY <1>1, <1>2, UniqueExtend DEF Tape
  <1>5. \A j \in Len(h) + 1 .. Len(Append(h, User)) : Append(h, User)[j].role = "user"
    <2> TAKE j \in Len(h) + 1 .. Len(Append(h, User))
    <2>1. j = Len(h) + 1
      BY <1>1, <1>3
    <2> QED BY <2>1, <1>2, <1>3
  <1>6. Ordered(Append(h, User))
    <2>1. \A j \in Len(h) + 1 .. Len(Append(h, User)) : ~(Append(h, User)[j].role = "tool")
      BY <1>5
    <2> QED BY <2>1, <1>3, OrderedExtend DEF Tape
  <1>7. Bounded(Append(h, User), k)
    <2>1. Bounded(h, k) /\ k <= k
      BY DEF Tape
    <2> QED BY <2>1, <1>3, <1>5, BoundedExtend
  <1> QED BY <1>3, <1>4, <1>6, <1>7 DEF Tape, Extends

(* A message of the model on the tape: all its calls are open.             *)
LEMMA TapeAssistant ==
  ASSUME NEW h, NEW k \in Nat, Tape(h, k), NEW t \in Turns
  PROVE  LET g == Append(h, Assistant(k + 1, t))
         IN  /\ Tape(g, k + 1)
             /\ Open(g, k + 1, DOMAIN t)
             /\ Len(t) = 1 => Asked(g, [n |-> k + 1, call |-> 1])
  <1> DEFINE m == Assistant(k + 1, t)
  <1> DEFINE g == Append(h, m)
  <1>1. h \in Seq(Message) /\ Len(h) \in Nat
    BY LenProperties DEF Tape
  <1>2. m \in Message /\ m.role = "assistant" /\ m.n = k + 1 /\ m.turn = t
    BY MessageTypes, MessageFields
  <1> HIDE DEF m
  <1>3. Extends(g, h) /\ Len(g) = Len(h) + 1 /\ g[Len(h) + 1] = m /\ g \in Seq(Message)
    BY <1>1, <1>2, AppendExtends DEF Extends
  <1>4. Unique(g)
    BY <1>1, <1>2, UniqueExtend DEF Tape
  <1> HIDE DEF g
  <1>5. \A j \in Len(h) + 1 .. Len(g) : g[j] = m
    BY <1>1, <1>3
  <1>6. Ordered(g)
    BY <1>2, <1>3, <1>5, OrderedExtend DEF Tape
  <1>7. Bounded(g, k + 1)
    BY <1>2, <1>3, <1>5, BoundedExtend DEF Tape
  <1>8. \A c : Answers(g, k + 1, c) = {}
    <2> TAKE c
    <2>1. Answers(h, k + 1, c) = {}
      BY <1>1, BoundedAnswers DEF Tape
    <2>2. m # Result(k + 1, c)
      BY <1>2, MessageFields
    <2> QED BY <2>1, <2>2, <1>3, <1>5, AnswersExtend
  <1>9. Len(h) + 1 \in Said(g)
    BY <1>1, <1>2, <1>3, LenProperties DEF Said
  <1>10. Open(g, k + 1, DOMAIN t)
    <2>1. \A j \in Len(h) + 1 + 1 .. Len(g) : g[j].role = "tool"
      BY <1>1, <1>3
    <2> QED BY <2>1, <1>2, <1>3, <1>8, <1>9 DEF Open
  <1>11. ASSUME Len(t) = 1 PROVE Asked(g, [n |-> k + 1, call |-> 1])
    <2>1. DOMAIN t = {1}
      BY <1>11, TurnFacts
    <2>2. g # <<>>
      BY <1>1, <1>3
    <2> QED BY <2>1, <2>2, <1>2, <1>3, <1>8 DEF Asked
  <1> QED BY <1>3, <1>4, <1>6, <1>7, <1>10, <1>11 DEF Tape, g, m

(* A result on the tape: its call is no longer open.                       *)
LEMMA TapeResult ==
  ASSUME NEW h, NEW k \in Nat, Tape(h, k), NEW n \in Nat, n <= k, NEW C, NEW c \in C,
         c \in Nat \ {0}, Open(h, n, C)
  PROVE  LET g == Append(h, Result(n, c))
         IN  Tape(g, k) /\ Open(g, n, C \ {c})
  <1> DEFINE m == Result(n, c)
  <1> DEFINE g == Append(h, m)
  <1>1. h \in Seq(Message) /\ Len(h) \in Nat
    BY LenProperties DEF Tape
  <1>2. m \in Message /\ m.role = "tool" /\ m.n = n /\ m.call = c
    BY MessageTypes, MessageFields
  <1>a. \A d \in C \ {c} : m # Result(n, d)
    BY MessageFields
  <1> HIDE DEF m
  <1>3. Extends(g, h) /\ Len(g) = Len(h) + 1 /\ g[Len(h) + 1] = m /\ g \in Seq(Message)
    BY <1>1, <1>2, AppendExtends DEF Extends
  <1>4. Unique(g)
    BY <1>1, <1>2, UniqueExtend DEF Tape, Open
  <1> HIDE DEF g
  <1>5. \A j \in Len(h) + 1 .. Len(g) : j = Len(h) + 1 /\ g[j] = m
    BY <1>1, <1>3
  <1>6. PICK p \in Said(h) : /\ h[p].n = n
                             /\ \A j \in p + 1 .. Len(h) : h[j].role = "tool"
                             /\ C \subseteq DOMAIN h[p].turn
                             /\ \A d \in C : Answers(h, n, d) = {}
    BY DEF Open
  <1>7. p \in 1 .. Len(h) /\ g[p] = h[p] /\ p \in Said(g)
    BY <1>1, <1>3, SaidFacts, LenProperties DEF Said, Extends
  <1>8. \A j \in p + 1 .. Len(g) : g[j].role = "tool"
    <2> TAKE j \in p + 1 .. Len(g)
    <2>1. CASE j \in 1 .. Len(h)
      BY <2>1, <1>1, <1>3, <1>6, <1>7 DEF Extends
    <2>2. CASE j \notin 1 .. Len(h)
      BY <2>2, <1>1, <1>2, <1>3, <1>7
    <2> QED BY <2>1, <2>2
  <1>9. Follows(g, Len(h) + 1)
    <2>1. p \in Said(g) /\ Len(h) + 1 \in p + 1 .. Len(g)
      BY <1>1, <1>2, <1>3, <1>6, <1>7
    <2>2. \A i \in p + 1 .. (Len(h) + 1) - 1 : g[i].role = "tool"
      BY <1>1, <1>2, <1>3, <1>7, <1>8
    <2>3. g[Len(h) + 1].n = g[p].n
      BY <1>1, <1>2, <1>3, <1>6, <1>7
    <2> QED BY <1>1, <1>3, <2>1, <2>2, <2>3, FollowsFrom DEF Extends
  <1>10. Ordered(g)
    BY <1>3, <1>5, <1>9, OrderedExtend DEF Tape
  <1>11. Bounded(g, k)
    BY <1>2, <1>3, <1>5, BoundedExtend DEF Tape
  <1>12. \A d \in C \ {c} : Answers(g, n, d) = {}
    <2> TAKE d \in C \ {c}
    <2>1. Answers(h, n, d) = {}
      BY <1>6
    <2> QED BY <2>1, <1>a, <1>3, <1>5, AnswersExtend
  <1>13. Open(g, n, C \ {c})
    BY <1>6, <1>7, <1>8, <1>12 DEF Open
  <1> QED BY <1>3, <1>4, <1>10, <1>11, <1>13 DEF Tape, g, m

(* The call a session waits for is open.                                   *)
LEMMA AskedIsOpen ==
  ASSUME NEW h \in Seq(Message), NEW w, Asked(h, w), NEW k, Bounded(h, k)
  PROVE  Open(h, w.n, {w.call}) /\ w.n \in Nat /\ w.n <= k /\ Max(Said(h)) = Len(h)
         /\ Len(h) \in Said(h)
  <1>1. Len(h) \in 1 .. Len(h) /\ DOMAIN h = 1 .. Len(h) /\ Len(h) \in Nat
    BY LenProperties, EmptySeq DEF Asked
  <1>2. Len(h) \in Said(h) /\ h[Len(h)] \in Message
    BY <1>1, ElementOfSeq DEF Asked, Said
  <1>3. Open(h, w.n, {w.call})
    BY <1>1, <1>2 DEF Asked, Open
  <1>4. w.n \in Nat /\ w.n <= k
    BY <1>1, <1>2, MessageFacts DEF Asked, Bounded
  <1>5. Max(Said(h)) = Len(h)
    <2>1. Said(h) \in SUBSET Nat /\ \A i \in Said(h) : i <= Len(h)
      BY <1>1, SaidFacts
    <2> QED BY <2>1, <1>2, MaxIs
  <1> QED BY <1>2, <1>3, <1>4, <1>5

(* All calls of h but the calls C of the n-th message are answered once.   *)
AnsweredBut(h, n, C) ==
  \A i \in Said(h) : \A c \in DOMAIN h[i].turn :
    (h[i].n = n /\ c \in C) \/ Cardinality(Answers(h, h[i].n, c)) = 1

Almost(h, n, C) == Ordered(h) /\ Open(h, n, C) /\ AnsweredBut(h, n, C)

(* A conversation is well formed if no call is missing its answer.         *)
LEMMA WellFormedIs ==
  ASSUME NEW h, NEW n
  PROVE  WellFormed(h) <=> Ordered(h) /\ AnsweredBut(h, n, {})
  BY DEF WellFormed, Ordered, AnsweredBut

(* The model's messages, when messages are added.                          *)
LEMMA SaidExtend ==
  ASSUME NEW g, NEW h, Extends(g, h), NEW i \in Said(g)
  PROVE  \/ i \in Said(h) /\ g[i] = h[i]
         \/ i \in Len(h) + 1 .. Len(g) /\ g[i].role = "assistant"
  BY LenProperties DEF Extends, Said

(* A call stays answered once if no new message answers it.                *)
LEMMA AnsweredExtend ==
  ASSUME NEW g, NEW h, Extends(g, h), NEW n, NEW C, AnsweredBut(h, n, C),
         NEW i \in Said(h), NEW c \in DOMAIN h[i].turn, ~(h[i].n = n /\ c \in C),
         \A j \in Len(h) + 1 .. Len(g) : g[j] # Result(h[i].n, c)
  PROVE  Cardinality(Answers(g, h[i].n, c)) = 1
  <1>1. {j \in Len(h) + 1 .. Len(g) : g[j] = Result(h[i].n, c)} = {}
    OBVIOUS
  <1>2. Answers(g, h[i].n, c)
          = Answers(h, h[i].n, c) \cup {j \in Len(h) + 1 .. Len(g) : g[j] = Result(h[i].n, c)}
    BY AnswersExtend
  <1>3. Answers(g, h[i].n, c) = Answers(h, h[i].n, c)
    BY <1>1, <1>2
  <1> QED BY <1>3 DEF AnsweredBut

(* A nudge, or the next input, keeps a conversation well formed.           *)
LEMMA WellFormedUser ==
  ASSUME NEW h \in Seq(Message), WellFormed(h)
  PROVE  WellFormed(Append(h, User))
  <1> DEFINE g == Append(h, User)
  <1>1. /\ Extends(g, h) /\ Len(g) = Len(h) + 1 /\ g[Len(h) + 1] = User /\ Len(h) \in Nat
    BY AppendExtends, MessageTypes, LenProperties
  <1> HIDE DEF g
  <1>2. \A j \in Len(h) + 1 .. Len(g) : g[j] = User /\ g[j].role = "user"
    BY <1>1, MessageFields
  <1>3. Ordered(h) /\ AnsweredBut(h, 0, {})
    BY WellFormedIs
  <1>4. Ordered(g)
    <2>1. \A j \in Len(h) + 1 .. Len(g) : ~(g[j].role = "tool")
      BY <1>2
    <2> QED BY <1>1, <1>3, <2>1, OrderedExtend
  <1>5. AnsweredBut(g, 0, {})
    <2> SUFFICES ASSUME NEW i \in Said(g), NEW c \in DOMAIN g[i].turn
                 PROVE  Cardinality(Answers(g, g[i].n, c)) = 1
      BY DEF AnsweredBut
    <2>1. i \in Said(h) /\ g[i] = h[i]
      BY <1>1, <1>2, SaidExtend
    <2>2. \A j \in Len(h) + 1 .. Len(g) : g[j] # Result(h[i].n, c)
      BY <1>2, MessageFields
    <2> QED BY <1>1, <1>3, <2>1, <2>2, AnsweredExtend
  <1> QED BY <1>4, <1>5, WellFormedIs DEF g

(* After a message of the model exactly its calls miss their answers.      *)
LEMMA AlmostAssistant ==
  ASSUME NEW h \in Seq(Message), NEW k \in Nat, Bounded(h, k), WellFormed(h), NEW t \in Turns
  PROVE  Almost(Append(h, Assistant(k + 1, t)), k + 1, DOMAIN t)
  <1> DEFINE m == Assistant(k + 1, t)
  <1> DEFINE g == Append(h, m)
  <1>1. Len(h) \in Nat
    BY LenProperties
  <1>2. m \in Message /\ m.role = "assistant" /\ m.n = k + 1 /\ m.turn = t
        /\ \A n, c : m # Result(n, c)
    BY MessageTypes, MessageFields
  <1> HIDE DEF m
  <1>3. Extends(g, h) /\ Len(g) = Len(h) + 1 /\ g[Len(h) + 1] = m /\ g \in Seq(Message)
    BY <1>1, <1>2, AppendExtends DEF Extends
  <1> HIDE DEF g
  <1>4. \A j \in Len(h) + 1 .. Len(g) : j = Len(h) + 1 /\ g[j] = m
    BY <1>1, <1>3
  <1>5. Ordered(h) /\ AnsweredBut(h, 0, {})
    BY WellFormedIs
  <1>6. Ordered(g)
    BY <1>2, <1>3, <1>4, <1>5, OrderedExtend
  <1>7. \A c : Answers(g, k + 1, c) = {}
    <2> TAKE c
    <2>1. Answers(h, k + 1, c) = {}
      BY BoundedAnswers
    <2> QED BY <2>1, <1>2, <1>3, <1>4, AnswersExtend
  <1>8. Open(g, k + 1, DOMAIN t)
    <2>1. Len(h) + 1 \in Said(g)
      BY <1>1, <1>2, <1>3, LenProperties DEF Said
    <2>2. \A j \in Len(h) + 1 + 1 .. Len(g) : g[j].role = "tool"
      BY <1>1, <1>3
    <2> QED BY <2>1, <2>2, <1>2, <1>3, <1>7 DEF Open
  <1>9. AnsweredBut(g, k + 1, DOMAIN t)
    <2> SUFFICES ASSUME NEW i \in Said(g), NEW c \in DOMAIN g[i].turn,
                        ~(g[i].n = k + 1 /\ c \in DOMAIN t)
                 PROVE  Cardinality(Answers(g, g[i].n, c)) = 1
      BY DEF AnsweredBut
    <2>1. i \in Said(h) /\ g[i] = h[i]
      BY <1>2, <1>3, <1>4, SaidExtend
    <2>2. \A j \in Len(h) + 1 .. Len(g) : g[j] # Result(h[i].n, c)
      BY <1>2, <1>4
    <2> QED BY <1>3, <1>5, <2>1, <2>2, AnsweredExtend
  <1> QED BY <1>6, <1>8, <1>9 DEF Almost, g, m

(* One answer less is missing.                                             *)
LEMMA AlmostResult ==
  ASSUME NEW h \in Seq(Message), NEW n \in Nat, NEW C, Almost(h, n, C),
         NEW c \in C, c \in Nat \ {0}
  PROVE  Almost(Append(h, Result(n, c)), n, C \ {c})
  <1> DEFINE m == Result(n, c)
  <1> DEFINE g == Append(h, m)
  <1>1. Len(h) \in Nat
    BY LenProperties
  <1>2. m \in Message /\ m.role = "tool" /\ m.n = n /\ m.call = c
        /\ \A l, d : m = Result(l, d) <=> l = n /\ d = c
    BY MessageTypes, MessageFields
  <1> HIDE DEF m
  <1>3. Extends(g, h) /\ Len(g) = Len(h) + 1 /\ g[Len(h) + 1] = m /\ g \in Seq(Message)
    BY <1>1, <1>2, AppendExtends DEF Extends
  <1> HIDE DEF g
  <1>4. \A j \in Len(h) + 1 .. Len(g) : j = Len(h) + 1 /\ g[j] = m
    BY <1>1, <1>3
  <1>5. PICK p \in Said(h) : /\ h[p].n = n
                             /\ \A j \in p + 1 .. Len(h) : h[j].role = "tool"
                             /\ C \subseteq DOMAIN h[p].turn
                             /\ \A d \in C : Answers(h, n, d) = {}
    BY DEF Almost, Open
  <1>6. p \in 1 .. Len(h) /\ g[p] = h[p] /\ p \in Said(g)
    BY <1>1, <1>3, SaidFacts, LenProperties DEF Said, Extends
  <1>7. \A j \in p + 1 .. Len(g) : g[j].role = "tool"
    <2> TAKE j \in p + 1 .. Len(g)
    <2>1. CASE j \in 1 .. Len(h)
      BY <2>1, <1>1, <1>3, <1>5, <1>6 DEF Extends
    <2>2. CASE j \notin 1 .. Len(h)
      BY <2>2, <1>1, <1>2, <1>3, <1>6
    <2> QED BY <2>1, <2>2
  <1>8. Follows(g, Len(h) + 1)
    <2>1. p \in Said(g) /\ Len(h) + 1 \in p + 1 .. Len(g)
      BY <1>1, <1>2, <1>3, <1>6
    <2>2. \A i \in p + 1 .. (Len(h) + 1) - 1 : g[i].role = "tool"
      BY <1>1, <1>2, <1>3, <1>6, <1>7
    <2>3. g[Len(h) + 1].n = g[p].n
      BY <1>1, <1>2, <1>3, <1>5, <1>6
    <2> QED BY <1>3, <2>1, <2>2, <2>3, FollowsFrom
  <1>9. Ordered(g)
    BY <1>3, <1>4, <1>8, OrderedExtend DEF Almost
  <1>10. \A d : Answers(g, n, d) = Answers(h, n, d) \cup (IF d = c THEN {Len(h) + 1} ELSE {})
    <2> TAKE d
    <2>1. {j \in Len(h) + 1 .. Len(g) : g[j] = Result(n, d)} = IF d = c THEN {Len(h) + 1} ELSE {}
      BY <1>1, <1>2, <1>3, <1>4
    <2> QED BY <2>1, <1>3, AnswersExtend
  <1>11. Open(g, n, C \ {c})
    BY <1>5, <1>6, <1>7, <1>10 DEF Open
  <1>12. AnsweredBut(g, n, C \ {c})
    <2> SUFFICES ASSUME NEW i \in Said(g), NEW d \in DOMAIN g[i].turn,
                        ~(g[i].n = n /\ d \in C \ {c})
                 PROVE  Cardinality(Answers(g, g[i].n, d)) = 1
      BY DEF AnsweredBut
    <2>1. i \in Said(h) /\ g[i] = h[i]
      BY <1>2, <1>3, <1>4, SaidExtend
    <2>2. CASE h[i].n = n /\ d = c
      <3>1. Answers(g, n, d) = {Len(h) + 1}
        BY <2>2, <1>5, <1>10
      <3> QED BY <3>1, <2>1, <2>2, FS_Singleton
    <2>3. CASE ~(h[i].n = n /\ d = c)
      <3>1. \A j \in Len(h) + 1 .. Len(g) : g[j] # Result(h[i].n, d)
        BY <2>3, <1>2, <1>4
      <3> QED BY <1>3, <2>1, <2>3, <3>1, AnsweredExtend DEF Almost
    <2> QED BY <2>2, <2>3
  <1> QED BY <1>9, <1>11, <1>12 DEF Almost, g, m

(* With all answers, in order, the conversation is well formed again.      *)
LEMMA AlmostAll ==
  ASSUME NEW h \in Seq(Message), NEW n \in Nat, NEW t \in Turns, Almost(h, n, DOMAIN t),
         NEW a \in Seq(Message), Len(a) = Len(t), \A c \in DOMAIN t : a[c] = Result(n, c)
  PROVE  WellFormed(h \o a)
  <1> DEFINE g == h \o a
  <1>1. Len(h) \in Nat /\ Len(t) \in Nat /\ DOMAIN t = 1 .. Len(t)
    BY LenProperties, TurnFacts
  <1>2. /\ Extends(g, h) /\ Len(g) = Len(h) + Len(t) /\ g \in Seq(Message)
        /\ \A c \in 1 .. Len(t) : g[Len(h) + c] = Result(n, c)
    <2>1. /\ Extends(g, h) /\ Len(g) = Len(h) + Len(a)
          /\ \A c \in 1 .. Len(a) : g[Len(h) + c] = a[c]
      BY ConcatExtends
    <2> HIDE DEF g
    <2> QED BY <1>1, <2>1 DEF Extends
  <1> HIDE DEF g
  <1>3. \A j \in Len(h) + 1 .. Len(g) : j - Len(h) \in 1 .. Len(t) /\ g[j] = Result(n, j - Len(h))
    <2> TAKE j \in Len(h) + 1 .. Len(g)
    <2>1. j - Len(h) \in 1 .. Len(t) /\ Len(h) + (j - Len(h)) = j
      BY <1>1, <1>2
    <2> QED BY <2>1, <1>2
  <1>4. \A j \in Len(h) + 1 .. Len(g) : g[j].role = "tool" /\ g[j].n = n
    BY <1>3, MessageFields
  <1>5. PICK p \in Said(h) : /\ h[p].n = n
                             /\ \A j \in p + 1 .. Len(h) : h[j].role = "tool"
                             /\ \A d \in DOMAIN t : Answers(h, n, d) = {}
    BY DEF Almost, Open
  <1>6. p \in 1 .. Len(h) /\ g[p] = h[p] /\ p \in Said(g)
    BY <1>1, <1>2, SaidFacts, LenProperties DEF Said, Extends
  <1>7. \A j \in p + 1 .. Len(g) : g[j].role = "tool"
    <2> TAKE j \in p + 1 .. Len(g)
    <2>1. CASE j \in 1 .. Len(h)
      BY <2>1, <1>1, <1>2, <1>5, <1>6 DEF Extends
    <2>2. CASE j \notin 1 .. Len(h)
      BY <2>2, <1>1, <1>2, <1>4, <1>6
    <2> QED BY <2>1, <2>2
  <1>8. \A j \in Len(h) + 1 .. Len(g) : Follows(g, j)
    <2> TAKE j \in Len(h) + 1 .. Len(g)
    <2>1. j \in p + 1 .. Len(g) /\ \A i \in p + 1 .. j - 1 : g[i].role = "tool"
      BY <1>1, <1>2, <1>6, <1>7
    <2> QED BY <1>2, <1>4, <1>5, <1>6, <2>1, FollowsFrom
  <1>9. Ordered(g)
    BY <1>2, <1>8, OrderedExtend DEF Almost
  <1>10. AnsweredBut(g, n, {})
    <2> SUFFICES ASSUME NEW i \in Said(g), NEW d \in DOMAIN g[i].turn
                 PROVE  Cardinality(Answers(g, g[i].n, d)) = 1
      BY DEF AnsweredBut
    <2>1. i \in Said(h) /\ g[i] = h[i]
      BY <1>2, <1>4, SaidExtend
    <2>2. CASE h[i].n = n /\ d \in DOMAIN t
      <3>1. {j \in Len(h) + 1 .. Len(g) : g[j] = Result(n, d)} = {Len(h) + d}
        <4>1. Len(h) + d \in Len(h) + 1 .. Len(g) /\ g[Len(h) + d] = Result(n, d)
          BY <2>2, <1>1, <1>2
        <4>2. ASSUME NEW j \in Len(h) + 1 .. Len(g), g[j] = Result(n, d)
              PROVE  j = Len(h) + d
          <5>1. j - Len(h) = d
            BY <4>2, <1>3, MessageFields
          <5> QED BY <5>1, <1>1, <1>2
        <4> QED BY <4>1, <4>2
      <3>2. Answers(g, n, d)
              = Answers(h, n, d) \cup {j \in Len(h) + 1 .. Len(g) : g[j] = Result(n, d)}
        BY <1>2, AnswersExtend
      <3>3. Answers(g, n, d) = {Len(h) + d}
        BY <3>1, <3>2, <2>2, <1>5
      <3> QED BY <3>3, <2>1, <2>2, FS_Singleton
    <2>3. CASE ~(h[i].n = n /\ d \in DOMAIN t)
      <3>1. \A j \in Len(h) + 1 .. Len(g) : g[j] # Result(h[i].n, d)
        <4> SUFFICES ASSUME NEW j \in Len(h) + 1 .. Len(g), g[j] = Result(h[i].n, d)
                     PROVE  FALSE
          OBVIOUS
        <4>1. j - Len(h) \in DOMAIN t /\ Result(n, j - Len(h)) = Result(h[i].n, d)
          BY <1>1, <1>3
        <4>2. n = h[i].n /\ j - Len(h) = d
          BY <4>1, MessageFields
        <4> QED BY <4>1, <4>2, <2>3
      <3>2. AnsweredBut(h, n, DOMAIN t) /\ d \in DOMAIN h[i].turn
        BY <2>1 DEF Almost
      <3>3. Cardinality(Answers(g, h[i].n, d)) = 1
        <4>1. Extends(g, h) /\ i \in Said(h)
          BY <1>2, <2>1
        <4> QED BY <4>1, <2>3, <3>1, <3>2, AnsweredExtend
      <3> QED BY <2>1, <3>3
    <2> QED BY <2>2, <2>3
  <1> QED BY <1>9, <1>10, WellFormedIs DEF g

(* What is appended for the calls 1 .. c of last.                          *)
DanglingStep(h, last, f, c) ==
  IF c = 0 THEN <<>>
  ELSE IF Answers(h, last.n, c) = {} THEN Append(f[c - 1], Result(last.n, c))
  ELSE f[c - 1]

(* The recursion of Dangling has a value for each call.                    *)
LEMMA DanglingExists ==
  ASSUME NEW h, NEW last
  PROVE  \A n \in Nat : \E f : f = [c \in 0 .. n |-> DanglingStep(h, last, f, c)]
  <1> DEFINE S == {n \in Nat : \E f : f = [c \in 0 .. n |-> DanglingStep(h, last, f, c)]}
  <1>1. 0 \in S
    <2> DEFINE f == [c \in 0 .. 0 |-> <<>>]
    <2>1. f = [c \in 0 .. 0 |-> DanglingStep(h, last, f, c)]
      BY DEF DanglingStep
    <2> QED BY <2>1
  <1>2. ASSUME NEW n \in Nat, n \in S PROVE n + 1 \in S
    <2>1. PICK f : f = [c \in 0 .. n |-> DanglingStep(h, last, f, c)]
      BY <1>2
    <2> DEFINE g == [c \in 0 .. n + 1 |-> IF c = n + 1 THEN DanglingStep(h, last, f, c) ELSE f[c]]
    <2>2. ASSUME NEW c \in 0 .. n + 1 PROVE g[c] = DanglingStep(h, last, g, c)
      <3>1. CASE c = 0
        BY <3>1, <2>1 DEF DanglingStep
      <3>2. CASE c \in 1 .. n
        <4>1. g[c] = f[c] /\ g[c - 1] = f[c - 1] /\ c # 0
          BY <3>2
        <4>2. f[c] = DanglingStep(h, last, f, c)
          BY <2>1, <3>2
        <4> QED BY <4>1, <4>2 DEF DanglingStep
      <3>3. CASE c = n + 1
        <4>1. g[c] = DanglingStep(h, last, f, c) /\ g[c - 1] = f[c - 1] /\ c # 0
          BY <3>3
        <4> QED BY <4>1 DEF DanglingStep
      <3> QED BY <3>1, <3>2, <3>3
    <2>3. g = [c \in 0 .. n + 1 |-> DanglingStep(h, last, g, c)]
      BY <2>2
    <2>4. \E e : e = [c \in 0 .. n + 1 |-> DanglingStep(h, last, e, c)]
      <3> HIDE DEF g
      <3> QED BY <2>3
    <2> QED BY <2>4
  <1>3. Nat \subseteq S
    <2> HIDE DEF S
    <2> QED BY <1>1, <1>2, Induction
  <1> QED BY <1>3

(* a holds a result for each of the calls 1 .. k that had none.            *)
Supplies(h, last, a, k) ==
  /\ a \in Seq(Message)
  /\ \A i \in DOMAIN a : \E c \in 1 .. k :
       Answers(h, last.n, c) = {} /\ a[i] = Result(last.n, c)
  /\ \A c \in 1 .. k : Answers(h, last.n, c) = {} =>
       \E i \in DOMAIN a : /\ a[i] = Result(last.n, c)
                           /\ \A j \in DOMAIN a : a[j] = Result(last.n, c) => j = i

(* Sanitising supplies a result for each call that has none, and for no    *)
(* other.                                                                  *)
LEMMA DanglingFacts ==
  ASSUME NEW h, NEW last, last.n \in Nat, last.turn \in Turns
  PROVE  LET a == Dangling(h, last)
         IN  /\ a \in Seq(Message)
             /\ \A i \in DOMAIN a : \E c \in DOMAIN last.turn :
                  Answers(h, last.n, c) = {} /\ a[i] = Result(last.n, c)
             /\ \A c \in DOMAIN last.turn : Answers(h, last.n, c) = {} =>
                  \E i \in DOMAIN a : /\ a[i] = Result(last.n, c)
                                      /\ \A j \in DOMAIN a : a[j] = Result(last.n, c) => j = i
  <1> DEFINE L == Len(last.turn)
  <1> DEFINE f == CHOOSE g : g = [c \in 0 .. L |-> DanglingStep(h, last, g, c)]
  <1>1. L \in Nat /\ DOMAIN last.turn = 1 .. L
    BY TurnFacts
  <1>2. f = [c \in 0 .. L |-> DanglingStep(h, last, f, c)]
    <2> HIDE DEF L
    <2>1. \E g : g = [c \in 0 .. L |-> DanglingStep(h, last, g, c)]
      BY <1>1, DanglingExists
    <2> QED BY <2>1
  <1>3. Dangling(h, last) = f[L]
    BY DEF Dangling, DanglingStep
  <1> HIDE DEF f
  <1> DEFINE S == {k \in Nat : k <= L => Supplies(h, last, f[k], k)}
  <1>4. 0 \in S
    <2>1. f[0] = <<>>
      BY <1>1, <1>2 DEF DanglingStep
    <2>2. <<>> \in Seq(Message) /\ DOMAIN <<>> = {} /\ 1 .. 0 = {}
      BY EmptySeq, LenProperties
    <2>3. Supplies(h, last, <<>>, 0)
      BY <2>2 DEF Supplies
    <2> QED BY <2>1, <2>3
  <1>5. ASSUME NEW k \in Nat, k \in S PROVE k + 1 \in S
    <2> SUFFICES ASSUME k + 1 <= L PROVE Supplies(h, last, f[k + 1], k + 1)
      OBVIOUS
    <2>1. Supplies(h, last, f[k], k) /\ k + 1 \in 1 .. L
      BY <1>1, <1>5
    <2> DEFINE a == f[k]
    <2> DEFINE m == Result(last.n, k + 1)
    <2>2. f[k + 1] = IF Answers(h, last.n, k + 1) = {} THEN Append(a, m) ELSE a
      <3>1. f[k + 1] = DanglingStep(h, last, f, k + 1)
        BY <1>1, <1>2
      <3>2. k + 1 # 0 /\ k + 1 - 1 = k
        OBVIOUS
      <3> HIDE DEF S
      <3> QED BY <3>1, <3>2 DEF DanglingStep
    <2>3. m \in Message
      BY MessageTypes
    <2>4. \A c \in 1 .. k : Result(last.n, c) # m
      BY MessageFields
    <2>5. \A c \in 1 .. k + 1 : c \in 1 .. k \/ c = k + 1
      OBVIOUS
    <2>6. a \in Seq(Message) /\ DOMAIN a = 1 .. Len(a) /\ Len(a) \in Nat
      BY <2>1, LenProperties DEF Supplies
    <2>7. \A i \in DOMAIN a : \E c \in 1 .. k : Answers(h, last.n, c) = {} /\ a[i] = Result(last.n, c)
      BY <2>1 DEF Supplies
    <2>8. \A c \in 1 .. k : Answers(h, last.n, c) = {} =>
             \E i \in DOMAIN a : /\ a[i] = Result(last.n, c)
                                 /\ \A j \in DOMAIN a : a[j] = Result(last.n, c) => j = i
      BY <2>1 DEF Supplies
    <2> HIDE DEF S, m, a, f
    <2>9. CASE Answers(h, last.n, k + 1) # {}
      <3>1. \A i \in DOMAIN a : \E c \in 1 .. k + 1 :
               Answers(h, last.n, c) = {} /\ a[i] = Result(last.n, c)
        BY <2>7
      <3>2. \A c \in 1 .. k + 1 : Answers(h, last.n, c) = {} =>
               \E i \in DOMAIN a : /\ a[i] = Result(last.n, c)
                                   /\ \A j \in DOMAIN a : a[j] = Result(last.n, c) => j = i
        BY <2>5, <2>8, <2>9
      <3> QED BY <2>2, <2>6, <2>9, <3>1, <3>2 DEF Supplies, a
    <2>10. CASE Answers(h, last.n, k + 1) = {}
      <3> DEFINE b == Append(a, m)
      <3>1. /\ b \in Seq(Message) /\ Len(b) = Len(a) + 1 /\ DOMAIN b = 1 .. Len(a) + 1
            /\ b[Len(a) + 1] = m /\ \A i \in 1 .. Len(a) : b[i] = a[i]
        BY <2>3, <2>6, AppendProperties, LenProperties
      <3> HIDE DEF b
      <3>2. \A i \in DOMAIN b : (i \in DOMAIN a /\ b[i] = a[i]) \/ (i = Len(a) + 1 /\ b[i] = m)
        BY <2>6, <3>1
      <3>3. \A i \in DOMAIN b : \E c \in 1 .. k + 1 :
               Answers(h, last.n, c) = {} /\ b[i] = Result(last.n, c)
        <4> TAKE i \in DOMAIN b
        <4>1. CASE i \in DOMAIN a /\ b[i] = a[i]
          <5>1. PICK c \in 1 .. k : Answers(h, last.n, c) = {} /\ a[i] = Result(last.n, c)
            BY <4>1, <2>7
          <5> QED BY <4>1, <5>1
        <4>2. CASE i = Len(a) + 1 /\ b[i] = m
          BY <4>2, <2>10 DEF m
        <4> QED BY <3>2, <4>1, <4>2
      <3>4. ASSUME NEW c \in 1 .. k + 1, Answers(h, last.n, c) = {}
            PROVE  \E i \in DOMAIN b : /\ b[i] = Result(last.n, c)
                                       /\ \A j \in DOMAIN b : b[j] = Result(last.n, c) => j = i
        <4>1. CASE c \in 1 .. k
          <5>1. PICK i \in DOMAIN a : /\ a[i] = Result(last.n, c)
                                      /\ \A j \in DOMAIN a : a[j] = Result(last.n, c) => j = i
            BY <4>1, <3>4, <2>8
          <5>2. i \in DOMAIN b /\ b[i] = a[i]
            BY <2>6, <3>1
          <5>3. \A j \in DOMAIN b : b[j] = Result(last.n, c) => j = i
            BY <4>1, <5>1, <3>2, <2>4
          <5> QED BY <5>1, <5>2, <5>3
        <4>2. CASE c = k + 1
          <5>1. Len(a) + 1 \in DOMAIN b /\ b[Len(a) + 1] = Result(last.n, c)
            BY <4>2, <2>6, <3>1 DEF m
          <5>2. \A j \in DOMAIN b : b[j] = Result(last.n, c) => j = Len(a) + 1
            <6> SUFFICES ASSUME NEW j \in DOMAIN b, b[j] = m, j # Len(a) + 1 PROVE FALSE
              BY <4>2 DEF m
            <6>1. j \in DOMAIN a /\ a[j] = m
              BY <3>2
            <6>2. PICK d \in 1 .. k : a[j] = Result(last.n, d)
              BY <6>1, <2>7
            <6> QED BY <6>1, <6>2, <2>4
          <5> QED BY <5>1, <5>2, <4>2
        <4> QED BY <2>5, <4>1, <4>2
      <3> QED BY <2>2, <2>10, <3>1, <3>3, <3>4 DEF b, Supplies
    <2> QED BY <2>9, <2>10
  <1>6. L \in S
    <2>1. Nat \subseteq S
      <3> HIDE DEF S
      <3> QED BY <1>4, <1>5, Induction
    <2> QED BY <1>1, <2>1
  <1>7. Supplies(h, last, f[L], L)
    BY <1>1, <1>6
  <1> QED BY <1>1, <1>3, <1>7 DEF Supplies

(* In h, the calls of the last message of the model in b are answered.     *)
TailAnswered(b, h) ==
  Said(b) # {} =>
    \A c \in DOMAIN b[Max(Said(b))].turn :
      Cardinality(Answers(h, b[Max(Said(b))].n, c)) = 1

(* The last message stays answered while newer ones are added.             *)
LEMMA TailExtend ==
  ASSUME NEW b \in Seq(Message), NEW k \in Nat, Bounded(b, k),
         NEW g, NEW h, Extends(g, h), TailAnswered(b, h),
         \A j \in Len(h) + 1 .. Len(g) : g[j].role = "tool" => g[j].n > k
  PROVE  TailAnswered(b, g)
  <1> SUFFICES ASSUME Said(b) # {}, NEW c \in DOMAIN b[Max(Said(b))].turn
               PROVE  Cardinality(Answers(g, b[Max(Said(b))].n, c)) = 1
    BY DEF TailAnswered
  <1> DEFINE n == b[Max(Said(b))].n
  <1>1. n \in Nat /\ n <= k
    <2>1. Max(Said(b)) \in Said(b)
      BY SaidFacts
    <2>2. Max(Said(b)) \in DOMAIN b /\ b[Max(Said(b))].role = "assistant"
      BY <2>1 DEF Said
    <2> QED BY <2>1, <2>2, SaidFacts DEF Bounded
  <1>2. Cardinality(Answers(h, n, c)) = 1
    BY DEF TailAnswered
  <1> HIDE DEF n
  <1>3. {j \in Len(h) + 1 .. Len(g) : g[j] = Result(n, c)} = {}
    <2> SUFFICES ASSUME NEW j \in Len(h) + 1 .. Len(g), g[j] = Result(n, c) PROVE FALSE
      OBVIOUS
    <2>1. g[j].role = "tool" /\ g[j].n = n
      BY MessageFields
    <2> QED BY <2>1, <1>1
  <1>4. Answers(g, n, c)
          = Answers(h, n, c) \cup {j \in Len(h) + 1 .. Len(g) : g[j] = Result(n, c)}
    BY AnswersExtend
  <1>5. Answers(g, n, c) = Answers(h, n, c)
    BY <1>3, <1>4
  <1> QED BY <1>2, <1>5 DEF n

(* The reply to the question a session asked answers it.                   *)
LEMMA TailReply ==
  ASSUME NEW h \in Seq(Message), NEW k, Bounded(h, k), NEW w, Asked(h, w), w.call \in Nat \ {0}
  PROVE  TailAnswered(h, Append(h, Result(w.n, w.call)))
  <1> DEFINE m == Result(w.n, w.call)
  <1> DEFINE g == Append(h, m)
  <1>1. Max(Said(h)) = Len(h) /\ w.n \in Nat
    BY AskedIsOpen
  <1>2. h[Len(h)].n = w.n /\ DOMAIN h[Len(h)].turn = {w.call} /\ Answers(h, w.n, w.call) = {}
    BY DEF Asked
  <1>3. m \in Message
    BY <1>1, MessageTypes
  <1> HIDE DEF m
  <1>4. Extends(g, h) /\ Len(g) = Len(h) + 1 /\ g[Len(h) + 1] = m /\ Len(h) \in Nat
    BY <1>3, AppendExtends, LenProperties
  <1> HIDE DEF g
  <1>5. {j \in Len(h) + 1 .. Len(g) : g[j] = m} = {Len(h) + 1}
    BY <1>4
  <1>6. Answers(g, w.n, w.call)
          = Answers(h, w.n, w.call) \cup {j \in Len(h) + 1 .. Len(g) : g[j] = m}
    BY <1>4, AnswersExtend DEF m
  <1>7. Answers(g, w.n, w.call) = {Len(h) + 1}
    BY <1>2, <1>5, <1>6
  <1>8. Cardinality(Answers(g, w.n, w.call)) = 1
    BY <1>7, FS_Singleton
  <1> QED BY <1>1, <1>2, <1>8 DEF TailAnswered, g, m

(* Recovery answers the last message of the journal in full.               *)
LEMMA TailRecovered ==
  ASSUME NEW h, NEW k \in Nat, Tape(h, k)
  PROVE  LET b == Sanitized(h)
         IN  /\ b \in Seq(Message)
             /\ Bounded(b, k)
             /\ TailAnswered(b, b)
  <1> DEFINE b == Sanitized(h)
  <1>1. h \in Seq(Message) /\ Unique(h) /\ Bounded(h, k) /\ Len(h) \in Nat /\ DOMAIN h = 1 .. Len(h)
    BY LenProperties DEF Tape
  <1>2. CASE Said(h) = {}
    <2>1. b = h
      BY <1>2 DEF Sanitized
    <2> QED BY <1>1, <1>2, <2>1 DEF TailAnswered
  <1>3. CASE Said(h) # {}
    <2> DEFINE p == Max(Said(h))
    <2> DEFINE last == h[p]
    <2> DEFINE a == Dangling(h, last)
    <2>1. b = h \o a
      BY <1>3 DEF Sanitized
    <2>2. p \in Said(h) /\ last.n \in Nat /\ last.turn \in Turns /\ \A i \in Said(h) : i <= p
      BY <1>1, <1>3, SaidFacts
    <2>3. p \in 1 .. Len(h) /\ last.role = "assistant" /\ last.n <= k
      BY <1>1, <2>2 DEF Said, Bounded
    <2>4. a \in Seq(Message)
          /\ \A i \in DOMAIN a : \E c \in DOMAIN last.turn :
               Answers(h, last.n, c) = {} /\ a[i] = Result(last.n, c)
      BY <2>2, DanglingFacts
    <2>4a. \A c \in DOMAIN last.turn : Answers(h, last.n, c) = {} =>
               \E i \in DOMAIN a : /\ a[i] = Result(last.n, c)
                                   /\ \A j \in DOMAIN a : a[j] = Result(last.n, c) => j = i
      BY <2>2, DanglingFacts
    <2> HIDE DEF a, last, b
    <2>5. /\ Extends(b, h) /\ Len(b) = Len(h) + Len(a)
          /\ \A i \in 1 .. Len(a) : b[Len(h) + i] = a[i]
          /\ Len(a) \in Nat /\ DOMAIN a = 1 .. Len(a)
      BY <1>1, <2>1, <2>4, ConcatExtends, LenProperties
    <2>6. b \in Seq(Message)
      BY <2>5 DEF Extends
    <2>7. \A j \in Len(h) + 1 .. Len(b) : j - Len(h) \in DOMAIN a /\ b[j] = a[j - Len(h)]
      <3> TAKE j \in Len(h) + 1 .. Len(b)
      <3>1. j - Len(h) \in 1 .. Len(a) /\ Len(h) + (j - Len(h)) = j
        BY <1>1, <2>5
      <3> QED BY <3>1, <2>5
    <2>8. \A j \in Len(h) + 1 .. Len(b) : b[j].role = "tool" /\ b[j].n = last.n
      <3> TAKE j \in Len(h) + 1 .. Len(b)
      <3>1. PICK c \in DOMAIN last.turn : b[j] = Result(last.n, c)
        BY <2>4, <2>7
      <3> QED BY <3>1, MessageFields
    <2>9. Bounded(b, k)
      <3>1. \A j \in Len(h) + 1 .. Len(b) : b[j].n <= k
        BY <2>3, <2>8
      <3>2. k <= k
        OBVIOUS
      <3> QED BY <1>1, <2>5, <3>1, <3>2, BoundedExtend
    <2>10. Max(Said(b)) = p
      <3>1. Said(b) \in SUBSET Nat
        BY <2>6, SaidFacts
      <3>2. p \in Said(b)
        BY <2>3, <2>5, <2>6, LenProperties DEF Said, Extends, last
      <3>3. \A i \in Said(b) : i <= p
        <4> TAKE i \in Said(b)
        <4>1. i \in Said(h)
          BY <2>5, <2>8, SaidExtend
        <4> QED BY <4>1, <2>2
      <3> QED BY <3>1, <3>2, <3>3, MaxIs
    <2>11. b[p] = last
      BY <2>3, <2>5 DEF Extends, last
    <2>12. ASSUME NEW c \in DOMAIN last.turn PROVE Cardinality(Answers(b, last.n, c)) = 1
      <3> DEFINE new == {j \in Len(h) + 1 .. Len(b) : b[j] = Result(last.n, c)}
      <3>1. Answers(b, last.n, c) = Answers(h, last.n, c) \cup new
        BY <2>5, AnswersExtend
      <3>2. CASE Answers(h, last.n, c) = {}
        <4>1. PICK i \in DOMAIN a : /\ a[i] = Result(last.n, c)
                                    /\ \A j \in DOMAIN a : a[j] = Result(last.n, c) => j = i
          BY <2>4a, <3>2
        <4>2. Len(h) + i \in new
          BY <4>1, <1>1, <2>5
        <4>3. ASSUME NEW j \in new PROVE j = Len(h) + i
          <5>1. j - Len(h) \in DOMAIN a /\ a[j - Len(h)] = Result(last.n, c)
            BY <2>7, <4>3
          <5>2. j - Len(h) = i
            BY <5>1, <4>1
          <5> QED BY <5>2, <1>1, <2>5
        <4>4. new = {Len(h) + i}
          <5> HIDE DEF new
          <5> QED BY <4>2, <4>3
        <4> QED BY <3>1, <3>2, <4>4, FS_Singleton
      <3>3. CASE Answers(h, last.n, c) # {}
        <4>1. PICK j \in Answers(h, last.n, c) : TRUE
          BY <3>3
        <4>2. j \in DOMAIN h /\ h[j] = Result(last.n, c)
          BY <4>1 DEF Answers
        <4>3. Answers(h, last.n, c) = {j}
          <5>1. h[j].role = "tool" /\ h[j].n = last.n /\ h[j].call = c
            BY <4>2, MessageFields
          <5> QED BY <4>2, <5>1, <1>1 DEF Unique
        <4>4. new = {}
          <5> SUFFICES ASSUME NEW i \in new PROVE FALSE
            OBVIOUS
          <5>1. PICK d \in DOMAIN last.turn : /\ Answers(h, last.n, d) = {}
                                              /\ b[i] = Result(last.n, d)
            BY <2>4, <2>7
          <5>2. d = c
            BY <5>1, MessageFields
          <5> QED BY <5>1, <5>2, <3>3
        <4> QED BY <3>1, <4>3, <4>4, FS_Singleton
      <3> QED BY <3>2, <3>3
    <2>13. TailAnswered(b, b)
      BY <2>10, <2>11, <2>12 DEF TailAnswered
    <2> QED BY <2>6, <2>9, <2>13 DEF b
  <1> QED BY <1>2, <1>3

(* prints are the turns at the last tool turns of h after b.               *)
Windowed(h, b, prints) ==
  \E f \in [1 .. Len(prints) -> ToolTurns(h, b)] :
    /\ \A i \in 1 .. Len(prints) : prints[i] = h[f[i]].turn
    /\ \A i, j \in 1 .. Len(prints) : i < j => f[i] < f[j]
    /\ \A p \in ToolTurns(h, b), i \in 1 .. Len(prints) :
         f[i] <= p => \E j \in 1 .. Len(prints) : f[j] = p
    /\ Len(prints) < StuckThreshold =>
         \A p \in ToolTurns(h, b) : \E j \in 1 .. Len(prints) : f[j] = p

(* Repeats, of any conversation.                                           *)
RepeatsIn(h, b, k) ==
  \E first \in ToolTurns(h, b) :
    LET latest == {i \in ToolTurns(h, b) : i >= first}
    IN  /\ Cardinality(latest) >= k
        /\ \A i, j \in latest : h[i].turn = h[j].turn

(* Tool turns are places of the conversation.                              *)
LEMMA ToolTurnsFacts ==
  ASSUME NEW h \in Seq(Message), NEW b
  PROVE  ToolTurns(h, b) \in SUBSET (1 .. Len(h))
  BY SaidFacts DEF ToolTurns

(* A repetition fills the window.                                          *)
LEMMA RepeatsFillWindow ==
  ASSUME NEW h \in Seq(Message), NEW b, NEW prints \in Seq(Turns),
         Len(prints) <= StuckThreshold, Windowed(h, b, prints),
         RepeatsIn(h, b, StuckThreshold)
  PROVE  Len(prints) >= StuckThreshold /\ AllSame(prints)
  <1> DEFINE T == ToolTurns(h, b)
  <1> DEFINE L == Len(prints)
  <1>1. L \in Nat /\ DOMAIN prints = 1 .. L /\ StuckThreshold \in Nat /\ StuckThreshold > 0
    BY ThresholdAssumption, LenProperties
  <1>2. PICK f \in [1 .. L -> T] :
           /\ \A i \in 1 .. L : prints[i] = h[f[i]].turn
           /\ \A p \in T, i \in 1 .. L : f[i] <= p => \E j \in 1 .. L : f[j] = p
           /\ L < StuckThreshold => \A p \in T : \E j \in 1 .. L : f[j] = p
    BY DEF Windowed
  <1>3. PICK first \in T :
           LET latest == {i \in T : i >= first}
           IN  /\ Cardinality(latest) >= StuckThreshold
               /\ \A i, j \in latest : h[i].turn = h[j].turn
    BY DEF RepeatsIn
  <1> DEFINE latest == {i \in T : i >= first}
  <1>4. T \in SUBSET Nat /\ IsFiniteSet(T)
    <2>1. T \in SUBSET (1 .. Len(h)) /\ Len(h) \in Nat
      BY ToolTurnsFacts, LenProperties
    <2>2. IsFiniteSet(1 .. Len(h))
      BY <2>1, FS_Interval
    <2> QED BY <2>1, <2>2, FS_Subset
  <1>5. latest \in SUBSET T /\ Cardinality(latest) >= StuckThreshold
        /\ \A i, j \in latest : h[i].turn = h[j].turn
    BY <1>3
  <1> DEFINE R == {f[i] : i \in 1 .. L}
  <1>6. IsFiniteSet(R) /\ Cardinality(R) <= L /\ Cardinality(R) \in Nat
    <2>1. IsFiniteSet(1 .. L) /\ Cardinality(1 .. L) = L
      <3> HIDE DEF L
      <3>1. 1 \in Int /\ L \in Int
        BY <1>1
      <3>2. IsFiniteSet(1 .. L) /\ Cardinality(1 .. L) = IF 1 > L THEN 0 ELSE L - 1 + 1
        BY <3>1, FS_Interval
      <3> QED BY <3>2, <1>1
    <2>2. f \in Surjection(1 .. L, R)
      BY <1>2 DEF Surjection
    <2> HIDE DEF R
    <2> QED BY <2>1, <2>2, FS_Surjection, FS_CardinalityType
  <1>7. \A S \in SUBSET R : IsFiniteSet(S) /\ Cardinality(S) \in Nat /\ Cardinality(S) <= L
    <2> HIDE DEF R, L
    <2> TAKE S \in SUBSET R
    <2>1. IsFiniteSet(S) /\ Cardinality(S) <= Cardinality(R)
      BY <1>6, FS_Subset
    <2> QED BY <2>1, <1>1, <1>6, FS_CardinalityType
  <1>8. L >= StuckThreshold
    <2> SUFFICES ASSUME L < StuckThreshold PROVE FALSE
      BY <1>1
    <2>1. latest \in SUBSET R
      BY <1>2
    <2> HIDE DEF latest, L, R
    <2>2. Cardinality(latest) \in Nat /\ Cardinality(latest) <= L
      BY <1>7, <2>1
    <2> QED BY <1>1, <1>5, <2>2
  <1>9. \A i \in 1 .. L : f[i] \in latest
    <2> SUFFICES ASSUME NEW i \in 1 .. L, f[i] \notin latest PROVE FALSE
      OBVIOUS
    <2>1. f[i] \in T /\ f[i] \in Nat /\ first \in Nat
      BY <1>2, <1>4
    <2>2. f[i] < first
      BY <2>1
    <2>3. latest \in SUBSET (R \ {f[i]})
      <3> SUFFICES ASSUME NEW p \in latest PROVE p \in R /\ p # f[i]
        OBVIOUS
      <3>1. p \in T /\ p \in Nat /\ first <= p
        BY <1>4
      <3>2. f[i] <= p
        BY <2>1, <2>2, <3>1
      <3> QED BY <1>2, <2>2, <3>1, <3>2, <2>1
    <2>4. f[i] \in R
      OBVIOUS
    <2> HIDE DEF latest, L, R
    <2>5. IsFiniteSet(R \ {f[i]}) /\ Cardinality(R \ {f[i]}) = Cardinality(R) - 1
      BY <2>4, <1>6, FS_RemoveElement
    <2>6. Cardinality(latest) <= Cardinality(R \ {f[i]})
      BY <2>3, <2>5, FS_Subset
    <2>7. Cardinality(latest) \in Nat
      BY <2>3, <1>7
    <2> QED BY <1>1, <1>5, <1>6, <2>5, <2>6, <2>7
  <1>10. AllSame(prints)
    <2> SUFFICES ASSUME NEW i \in 1 .. L, NEW j \in 1 .. L PROVE prints[i] = prints[j]
      BY <1>1 DEF AllSame
    <2>1. f[i] \in latest /\ f[j] \in latest
      BY <1>9
    <2> HIDE DEF latest
    <2> QED BY <2>1, <1>2, <1>5
  <1> QED BY <1>8, <1>10

(* Messages that are no tool turns leave the window alone.                 *)
LEMMA WindowStays ==
  ASSUME NEW g, NEW h, Extends(g, h), NEW b, NEW prints,
         \A j \in Len(h) + 1 .. Len(g) : j \notin ToolTurns(g, b)
  PROVE  /\ ToolTurns(g, b) = ToolTurns(h, b)
         /\ Windowed(h, b, prints) => Windowed(g, b, prints)
         /\ \A k : RepeatsIn(g, b, k) <=> RepeatsIn(h, b, k)
  <1> DEFINE T == ToolTurns(h, b)
  <1>1. /\ g \in Seq(Message) /\ h \in Seq(Message) /\ Len(h) \in Nat /\ Len(g) \in Nat
        /\ DOMAIN h = 1 .. Len(h) /\ DOMAIN g = 1 .. Len(g) /\ Len(h) <= Len(g)
        /\ \A i \in 1 .. Len(h) : g[i] = h[i]
    BY LenProperties DEF Extends
  <1>2. \A i \in 1 .. Len(h) : i \in ToolTurns(g, b) <=> i \in T
    BY <1>1 DEF ToolTurns, Said
  <1>3. T \in SUBSET (1 .. Len(h)) /\ ToolTurns(g, b) \in SUBSET (1 .. Len(g))
    BY <1>1, ToolTurnsFacts
  <1>4. ToolTurns(g, b) = T
    <2> HIDE DEF T
    <2>1. \A i \in ToolTurns(g, b) : i \in 1 .. Len(h)
      BY <1>1, <1>3
    <2>2. \A i \in ToolTurns(g, b) : i \in T
      BY <1>2, <2>1
    <2>3. \A i \in T : i \in ToolTurns(g, b)
      BY <1>2, <1>3
    <2> QED BY <2>2, <2>3
  <1>5. \A i \in T : g[i] = h[i]
    BY <1>1, <1>3
  <1>6. ASSUME Windowed(h, b, prints) PROVE Windowed(g, b, prints)
    <2>1. PICK f \in [1 .. Len(prints) -> T] :
            /\ \A i \in 1 .. Len(prints) : prints[i] = h[f[i]].turn
            /\ \A i, j \in 1 .. Len(prints) : i < j => f[i] < f[j]
            /\ \A p \in T, i \in 1 .. Len(prints) :
                 f[i] <= p => \E j \in 1 .. Len(prints) : f[j] = p
            /\ Len(prints) < StuckThreshold =>
                 \A p \in T : \E j \in 1 .. Len(prints) : f[j] = p
      BY <1>6 DEF Windowed
    <2>2. \A i \in 1 .. Len(prints) : prints[i] = g[f[i]].turn
      BY <2>1, <1>5
    <2> HIDE DEF T
    <2> QED BY <2>1, <2>2, <1>4 DEF Windowed
  <1>7. \A k : RepeatsIn(g, b, k) <=> RepeatsIn(h, b, k)
    <2> HIDE DEF T
    <2> TAKE k
    <2>1. RepeatsIn(h, b, k) <=>
            \E first \in T : LET latest == {i \in T : i >= first}
                            IN  /\ Cardinality(latest) >= k
                                /\ \A i, j \in latest : h[i].turn = h[j].turn
      BY DEF RepeatsIn, T
    <2>2. RepeatsIn(g, b, k) <=>
            \E first \in T : LET latest == {i \in T : i >= first}
                            IN  /\ Cardinality(latest) >= k
                                /\ \A i, j \in latest : g[i].turn = g[j].turn
      BY <1>4 DEF RepeatsIn
    <2>3. ASSUME NEW first \in T
          PROVE  (\A i, j \in {i \in T : i >= first} : g[i].turn = g[j].turn)
                   <=> (\A i, j \in {i \in T : i >= first} : h[i].turn = h[j].turn)
      <3>1. \A i \in {i \in T : i >= first} : g[i] = h[i]
        BY <1>5
      <3> QED BY <3>1
    <2> QED BY <2>1, <2>2, <2>3, Zenon
  <1> QED BY <1>4, <1>6, <1>7

(* Nothing is in the window of a new attempt.                              *)
LEMMA WindowStarts ==
  ASSUME NEW h \in Seq(Message), NEW m \in Message, m.role # "assistant"
  PROVE  /\ Windowed(Append(h, m), Len(h), <<>>)
         /\ ToolTurns(Append(h, m), Len(h)) = {}
  <1> DEFINE g == Append(h, m)
  <1>1. Extends(g, h) /\ Len(g) = Len(h) + 1 /\ g[Len(h) + 1] = m /\ Len(h) \in Nat
    BY AppendExtends, LenProperties
  <1>2. g \in Seq(Message)
    BY <1>1 DEF Extends
  <1> HIDE DEF g
  <1>3. ToolTurns(g, Len(h)) = {}
    <2> SUFFICES ASSUME NEW i \in ToolTurns(g, Len(h)) PROVE FALSE
      OBVIOUS
    <2>1. i \in 1 .. Len(g) /\ i > Len(h) /\ g[i].role = "assistant"
      BY <1>2, SaidFacts DEF ToolTurns, Said
    <2>2. i = Len(h) + 1
      BY <2>1, <1>1
    <2> QED BY <2>1, <2>2, <1>1
  <1>4. Windowed(g, Len(h), <<>>)
    <2>1. Len(<<>>) = 0 /\ 1 .. 0 = {}
      OBVIOUS
    <2>2. [i \in {} |-> 0] \in [{} -> {}]
      OBVIOUS
    <2> QED BY <1>3, <2>1, <2>2 DEF Windowed
  <1> QED BY <1>3, <1>4 DEF g

(* Remember drops the oldest turn of a full window and adds the new one.   *)
LEMMA RememberFacts ==
  ASSUME NEW prints \in Seq(Turns), Len(prints) <= StuckThreshold, NEW t \in Turns
  PROVE  LET next == Remember(prints, t)
             d    == IF Len(prints) = StuckThreshold THEN 1 ELSE 0
         IN  /\ next \in Seq(Turns)
             /\ Len(next) = Len(prints) + 1 - d
             /\ \A i \in 1 .. Len(next) - 1 : next[i] = prints[i + d]
             /\ next[Len(next)] = t
             /\ Len(next) <= StuckThreshold
  <1> DEFINE all == Append(prints, t)
  <1>1. /\ all \in Seq(Turns) /\ Len(all) = Len(prints) + 1 /\ all # <<>>
        /\ \A i \in 1 .. Len(prints) : all[i] = prints[i]
        /\ all[Len(prints) + 1] = t
    BY AppendProperties
  <1>2. Len(prints) \in Nat /\ StuckThreshold \in Nat /\ StuckThreshold > 0
    BY ThresholdAssumption, LenProperties
  <1>3. CASE Len(prints) = StuckThreshold
    <2>1. Remember(prints, t) = Tail(all)
      BY <1>1, <1>2, <1>3 DEF Remember
    <2> HIDE DEF all
    <2>2. /\ Tail(all) \in Seq(Turns) /\ Len(Tail(all)) = Len(prints)
          /\ \A i \in 1 .. Len(prints) : Tail(all)[i] = all[i + 1]
      BY <1>1, <1>2, HeadTailProperties
    <2>3. \A i \in 1 .. Len(prints) - 1 : Tail(all)[i] = prints[i + 1]
      BY <1>1, <1>2, <2>2
    <2>4. Tail(all)[Len(prints)] = t
      BY <1>1, <1>2, <1>3, <2>2
    <2> QED BY <1>2, <1>3, <2>1, <2>2, <2>3, <2>4
  <1>4. CASE Len(prints) # StuckThreshold
    <2>1. Remember(prints, t) = all
      BY <1>1, <1>2, <1>4 DEF Remember
    <2> HIDE DEF all
    <2> QED BY <1>1, <1>2, <1>4, <2>1
  <1> QED BY <1>3, <1>4

(* The window after one more tool turn.                                    *)
LEMMA WindowTurn ==
  ASSUME NEW h \in Seq(Message), NEW b, NEW prints \in Seq(Turns),
         Len(prints) <= StuckThreshold, Windowed(h, b, prints),
         NEW n \in Nat, NEW t \in Turns, t # <<>>, Handoff => ToSet(t) \cap Conclude = {},
         b \in Nat, b <= Len(h)
  PROVE  Windowed(Append(h, Assistant(n, t)), b, Remember(prints, t))
  <1> DEFINE m == Assistant(n, t)
  <1> DEFINE g == Append(h, m)
  <1> DEFINE T == ToolTurns(h, b)
  <1> DEFINE L == Len(prints)
  <1> DEFINE N == Len(h) + 1
  <1> DEFINE next == Remember(prints, t)
  <1> DEFINE d == IF L = StuckThreshold THEN 1 ELSE 0
  <1> DEFINE K == L + 1 - d
  <1>1. m \in Message /\ m.role = "assistant" /\ m.turn = t
    BY MessageTypes, MessageFields
  <1> HIDE DEF m
  <1>2. /\ Extends(g, h) /\ Len(g) = N /\ g[N] = m /\ Len(h) \in Nat
        /\ DOMAIN h = 1 .. Len(h) /\ g \in Seq(Message) /\ DOMAIN g = 1 .. N
        /\ \A i \in 1 .. Len(h) : g[i] = h[i]
    BY <1>1, AppendExtends, LenProperties DEF Extends
  <1> HIDE DEF g
  <1>3. L \in Nat /\ StuckThreshold \in Nat /\ StuckThreshold > 0 /\ d \in {0, 1} /\ K \in Nat \ {0}
    BY ThresholdAssumption, LenProperties
  <1>4. /\ Len(next) = K /\ next[K] = t
        /\ \A i \in 1 .. K - 1 : next[i] = prints[i + d]
    <2>1. /\ Len(next) = K /\ next[Len(next)] = t
          /\ \A i \in 1 .. Len(next) - 1 : next[i] = prints[i + d]
      BY RememberFacts
    <2> HIDE DEF next, K, d, L
    <2> QED BY <2>1
  <1> HIDE DEF next
  <1>5. PICK f \in [1 .. L -> T] :
           /\ \A i \in 1 .. L : prints[i] = h[f[i]].turn
           /\ \A i, j \in 1 .. L : i < j => f[i] < f[j]
           /\ \A p \in T, i \in 1 .. L : f[i] <= p => \E j \in 1 .. L : f[j] = p
           /\ L < StuckThreshold => \A p \in T : \E j \in 1 .. L : f[j] = p
    BY DEF Windowed
  <1>6. T \in SUBSET (1 .. Len(h))
    BY ToolTurnsFacts
  <1>7. ToolTurns(g, b) = T \cup {N}
    <2>1. \A i \in 1 .. Len(h) : i \in ToolTurns(g, b) <=> i \in T
      BY <1>2 DEF ToolTurns, Said
    <2>2. N \in ToolTurns(g, b)
      BY <1>1, <1>2 DEF ToolTurns, Said
    <2>3. ToolTurns(g, b) \in SUBSET (1 .. N)
      BY <1>2, ToolTurnsFacts
    <2> HIDE DEF T
    <2>4. \A i \in 1 .. N : i \in 1 .. Len(h) \/ i = N
      BY <1>2
    <2>5. \A i \in ToolTurns(g, b) : i \in T \cup {N}
      BY <2>1, <2>3, <2>4
    <2>6. \A i \in T : i \in ToolTurns(g, b)
      BY <2>1, <1>6
    <2> QED BY <2>2, <2>5, <2>6
  <1> DEFINE e == [i \in 1 .. K |-> IF i = K THEN N ELSE f[i + d]]
  <1> HIDE DEF T
  <1>8. \A i \in 1 .. K - 1 : i + d \in 1 .. L /\ f[i + d] \in T /\ e[i] = f[i + d]
    <2> TAKE i \in 1 .. K - 1
    <2>1. i + d \in 1 .. L /\ i \in 1 .. K /\ i # K
      BY <1>3
    <2> QED BY <2>1, <1>5
  <1>9. e[K] = N /\ K \in 1 .. K
    BY <1>3
  <1>10. DOMAIN e = 1 .. K /\ \A i \in 1 .. K : i \in 1 .. K - 1 \/ i = K
    BY <1>3
  <1>10a. e = [i \in DOMAIN e |-> e[i]]
    OBVIOUS
  <1> HIDE DEF e, K
  <1>11. e \in [1 .. K -> T \cup {N}]
    <2>1. \A i \in 1 .. K : e[i] \in T \cup {N}
      BY <1>8, <1>9, <1>10
    <2> QED BY <2>1, <1>10, <1>10a
  <1>12. \A i \in 1 .. K : next[i] = g[e[i]].turn
    <2> TAKE i \in 1 .. K
    <2>1. CASE i = K
      BY <2>1, <1>1, <1>2, <1>4, <1>9
    <2>2. CASE i \in 1 .. K - 1
      <3>1. g[f[i + d]] = h[f[i + d]]
        BY <2>2, <1>2, <1>6, <1>8
      <3> QED BY <2>2, <3>1, <1>4, <1>5, <1>8
    <2> QED BY <2>1, <2>2, <1>10
  <1>13. \A i, j \in 1 .. K : i < j => e[i] < e[j]
    <2> SUFFICES ASSUME NEW i \in 1 .. K, NEW j \in 1 .. K, i < j PROVE e[i] < e[j]
      OBVIOUS
    <2>1. i \in 1 .. K - 1
      BY <1>3 DEF K
    <2>2. e[i] = f[i + d] /\ i + d \in 1 .. L /\ f[i + d] \in 1 .. Len(h)
      BY <2>1, <1>6, <1>8
    <2>3. CASE j = K
      BY <2>2, <2>3, <1>2, <1>9
    <2>4. CASE j \in 1 .. K - 1
      <3>1. e[j] = f[j + d] /\ j + d \in 1 .. L
        BY <2>4, <1>8
      <3>2. i + d < j + d
        BY <1>3
      <3> QED BY <2>2, <3>1, <3>2, <1>5
    <2> QED BY <2>3, <2>4, <1>10
  <1>14. ASSUME NEW j \in 1 .. L, d = 0 \/ j # 1 PROVE \E l \in 1 .. K : e[l] = f[j]
    <2>1. j - d \in 1 .. K - 1 /\ j - d + d = j /\ j - d \in 1 .. K
      BY <1>3, <1>14 DEF K
    <2>2. e[j - d] = f[j]
      BY <2>1, <1>8
    <2> QED BY <2>1, <2>2
  <1>15. \A p \in T \cup {N}, i \in 1 .. K : e[i] <= p => \E j \in 1 .. K : e[j] = p
    <2> SUFFICES ASSUME NEW p \in T \cup {N}, NEW i \in 1 .. K, e[i] <= p
                 PROVE  \E j \in 1 .. K : e[j] = p
      OBVIOUS
    <2>1. CASE p = N
      BY <2>1, <1>9
    <2>2. CASE p \in T
      <3>1. p \in 1 .. Len(h)
        BY <2>2, <1>6
      <3>2. i \in 1 .. K - 1
        BY <3>1, <1>2, <1>9, <1>10
      <3>3. e[i] = f[i + d] /\ i + d \in 1 .. L
        BY <3>2, <1>8
      <3>4. PICK j \in 1 .. L : f[j] = p
        BY <2>2, <3>3, <1>5
      <3>5. ASSUME d # 0, j = 1 PROVE FALSE
        <4>1. j < i + d
          BY <3>5, <3>2, <1>3
        <4>2. f[j] < f[i + d]
          BY <4>1, <3>3, <1>5
        <4>3. f[i + d] \in Nat /\ f[j] \in Nat
          <5>1. f[j] \in Nat
            BY <3>1, <3>4, <1>2
          <5>2. f[i + d] \in T
            BY <3>2, <1>8
          <5>3. f[i + d] \in 1 .. Len(h)
            BY <5>2, <1>6
          <5> QED BY <5>1, <5>3, <1>2
        <4> QED BY <4>2, <4>3, <3>3, <3>4
      <3> QED BY <3>4, <3>5, <1>14
    <2> QED BY <2>1, <2>2
  <1>16. ASSUME K < StuckThreshold, NEW p \in T \cup {N} PROVE \E j \in 1 .. K : e[j] = p
    <2>1. d = 0 /\ L < StuckThreshold
      BY <1>3, <1>16 DEF K
    <2>2. CASE p = N
      BY <2>2, <1>9
    <2>3. CASE p \in T
      BY <2>1, <2>3, <1>5, <1>14
    <2> QED BY <2>2, <2>3
  <1> HIDE DEF N, L, d
  <1>17. Windowed(g, b, next)
    <2>1. Len(next) = K /\ ToolTurns(g, b) = T \cup {N}
      BY <1>4, <1>7
    <2>2. e \in [1 .. Len(next) -> ToolTurns(g, b)]
      BY <2>1, <1>11
    <2>3. \A i \in 1 .. Len(next) : next[i] = g[e[i]].turn
      BY <2>1, <1>12
    <2>4. \A i, j \in 1 .. Len(next) : i < j => e[i] < e[j]
      BY <2>1, <1>13
    <2>5. \A p \in ToolTurns(g, b), i \in 1 .. Len(next) :
             e[i] <= p => \E j \in 1 .. Len(next) : e[j] = p
      BY <2>1, <1>15
    <2>6. Len(next) < StuckThreshold =>
             \A p \in ToolTurns(g, b) : \E j \in 1 .. Len(next) : e[j] = p
      BY <2>1, <1>16
    <2> QED BY <2>2, <2>3, <2>4, <2>5, <2>6 DEF Windowed
  <1> QED BY <1>17 DEF g, m, next

Live(r) == r.pc \in {"top", "call", "tools"}

(* A run that was given what a provider accepts asks with such             *)
(* conversations; while its tools execute, their results are missing.      *)
Requests(r, k) ==
  WellFormed(Append(r.base, r.input)) =>
    /\ r.pc # "tools" => WellFormed(r.history)
    /\ r.pc = "tools" => Almost(r.history, k, r.todo)

Tailed(r) ==
  r.kind \in {"reply", "continue"} =>
    TailAnswered(r.base, Append(r.base, r.input)) /\ TailAnswered(r.base, r.history)

Watched(r) ==
  /\ Len(r.prints) <= StuckThreshold
  /\ Windowed(r.history, Len(r.base), r.prints)
  /\ ~RepeatsIn(r.history, Len(r.base), StuckThreshold)

(* What a run was given: nothing of it is newer than the k-th message.     *)
Given(r, k) ==
  /\ r \in Run
  /\ r.input.role # "assistant"
  /\ Len(r.history) > Len(r.base)
  /\ Bounded(Append(r.base, r.input), k)

LiveInv(r, k) ==
  /\ Bounded(r.history, k)
  /\ r.pc = "tools" => k > 0 /\ r.todo # {} /\ Bounded(Append(r.base, r.input), k - 1)
  /\ Requests(r, k)
  /\ Tailed(r)
  /\ Watched(r)

RunInv(r, k) ==
  /\ Given(r, k)
  /\ Live(r) => LiveInv(r, k)
  /\ r.pc = "done" /\ r.outcome = "ask" =>
       ConcludeCall(r.history, Len(r.base)) = [n |-> k, call |-> 1]

Outcomes == {"none", "completed", "output", "ask", "cancelled", "failed", "recoverable"}

(* The fields of a run.                                                    *)
LEMMA RunFields ==
  ASSUME NEW r \in Run
  PROVE  /\ r.pc \in {"top", "call", "tools", "done"}
         /\ r.kind \in {"fresh", "reply", "continue"}
         /\ r.base \in Seq(Message) /\ r.input \in Message /\ r.history \in Seq(Message)
         /\ r.iteration \in 0 .. MaxIterations /\ r.prints \in Seq(Turns)
         /\ r.rejections \in 0 .. HandoffMaxRetries /\ r.missing \in 0 .. HandoffMaxRetries
         /\ r.todo \in SUBSET (Nat \ {0}) /\ r.attempt \in 0 .. MaxRetries
         /\ r.cancel \in BOOLEAN /\ r.outcome \in Outcomes
  BY DEF Run, Outcomes

(* What the end of a run leaves as it is.                                  *)
LEMMA EndsFacts ==
  ASSUME NEW r \in Run, NEW o \in Outcomes, Ends(r, o)
  PROVE  /\ run' \in Run
         /\ run'.pc = "done" /\ run'.outcome = o
         /\ run'.history = r.history /\ run'.base = r.base /\ run'.input = r.input
  BY DEF Ends, Run, Outcomes

(* What the next message of the model changes in a run.                    *)
LEMMA HeardFacts ==
  ASSUME run \in Run, made \in Nat, NEW t \in Turns
  PROVE  /\ Heard(t) \in Run
         /\ Heard(t).history = Append(run.history, Assistant(made + 1, t))
         /\ Heard(t).history \in Seq(Message)
         /\ Heard(t).pc = run.pc /\ Heard(t).kind = run.kind
         /\ Heard(t).base = run.base /\ Heard(t).input = run.input
         /\ Heard(t).prints = run.prints /\ Heard(t).missing = run.missing
         /\ Heard(t).rejections = run.rejections
  <1>1. Append(run.history, Assistant(made + 1, t)) \in Seq(Message)
    BY MessageTypes, RunFields, AppendProperties
  <1> QED BY <1>1 DEF Heard, Run

(* The end of a run.                                                       *)
LEMMA EndStep ==
  ASSUME NEW r \in Run, NEW o \in Outcomes, Ends(r, o), NEW k, Given(r, k),
         o = "ask" => ConcludeCall(r.history, Len(r.base)) = [n |-> k, call |-> 1]
  PROVE  RunInv(run', k)
  <1>1. /\ run' \in Run /\ run'.pc = "done" /\ run'.outcome = o
        /\ run'.history = r.history /\ run'.base = r.base /\ run'.input = r.input
    BY EndsFacts
  <1> QED BY <1>1 DEF RunInv, Given, Live

(* The run at the head of an attempt.                                      *)
LEMMA AttemptFacts ==
  ASSUME NEW kind \in {"fresh", "reply", "continue"}, NEW base \in Seq(Message),
         NEW input \in Message, NEW attempt \in 0 .. MaxRetries, NEW cancel \in BOOLEAN
  PROVE  LET r == Attempt(kind, base, input, attempt, cancel)
         IN  /\ r \in Run /\ r.pc = "top" /\ r.kind = kind /\ r.base = base /\ r.input = input
             /\ r.history = Append(base, input) /\ r.prints = <<>>
  <1>1. Append(base, input) \in Seq(Message)
    BY AppendProperties
  <1>2. 0 \in 0 .. MaxIterations /\ 0 \in 0 .. HandoffMaxRetries
    BY ThresholdAssumption
  <1>3. <<>> \in Seq(Turns)
    BY EmptySeq
  <1> QED BY <1>1, <1>2, <1>3 DEF Attempt, Run

(* The beginning of an attempt.                                            *)
LEMMA AttemptStep ==
  ASSUME NEW kind \in {"fresh", "reply", "continue"}, NEW base \in Seq(Message),
         NEW input \in Message, NEW attempt \in 0 .. MaxRetries, NEW cancel \in BOOLEAN,
         input.role # "assistant", NEW k, Bounded(Append(base, input), k),
         kind \in {"reply", "continue"} => TailAnswered(base, Append(base, input))
  PROVE  RunInv(Attempt(kind, base, input, attempt, cancel), k)
  <1> DEFINE r == Attempt(kind, base, input, attempt, cancel)
  <1>1. /\ r \in Run /\ r.pc = "top" /\ r.kind = kind /\ r.base = base /\ r.input = input
        /\ r.history = Append(base, input) /\ r.prints = <<>>
    BY AttemptFacts
  <1> HIDE DEF r
  <1>2. Len(Append(base, input)) = Len(base) + 1 /\ Len(base) \in Nat
    BY AppendProperties, LenProperties
  <1>3. Given(r, k)
    BY <1>1, <1>2 DEF Given
  <1>4. Requests(r, k) /\ Tailed(r)
    BY <1>1 DEF Requests, Tailed
  <1>5. Watched(r)
    <2>1. Windowed(r.history, Len(base), <<>>) /\ ToolTurns(r.history, Len(base)) = {}
      BY <1>1, WindowStarts
    <2>2. ~RepeatsIn(r.history, Len(base), StuckThreshold)
      BY <2>1 DEF RepeatsIn
    <2>3. Len(<<>>) <= StuckThreshold
      BY ThresholdAssumption, EmptySeq
    <2> QED BY <1>1, <2>1, <2>2, <2>3 DEF Watched
  <1>6. LiveInv(r, k)
    BY <1>1, <1>4, <1>5 DEF LiveInv
  <1> QED BY <1>1, <1>3, <1>6 DEF RunInv, r

(* A change of no account: of the counters and the cancel flag.            *)
LEMMA SameStep ==
  ASSUME NEW r, NEW s \in Run, NEW k, RunInv(r, k), r.pc # "none",
         s.base = r.base, s.input = r.input, s.history = r.history, s.kind = r.kind,
         s.prints = r.prints, s.todo = r.todo, s.outcome = r.outcome,
         s.pc = r.pc \/ (r.pc = "top" /\ s.pc = "call")
  PROVE  RunInv(s, k)
  <1>1. Given(s, k)
    BY DEF RunInv, Given
  <1>2. ASSUME Live(s) PROVE LiveInv(s, k)
    <2>1. LiveInv(r, k)
      BY <1>2 DEF RunInv, Live
    <2>2. Requests(s, k)
      BY <2>1 DEF LiveInv, Requests
    <2>3. Tailed(s) /\ Watched(s)
      BY <2>1 DEF LiveInv, Tailed, Watched
    <2> QED BY <2>1, <2>2, <2>3 DEF LiveInv
  <1>3. s.pc = "done" /\ s.outcome = "ask" =>
          ConcludeCall(s.history, Len(s.base)) = [n |-> k, call |-> 1]
    BY DEF RunInv
  <1> QED BY <1>1, <1>2, <1>3 DEF RunInv

(* What the loop itself says after the n-th message of the model, of turn  *)
(* t: a nudge, or a result for each call.                                  *)
Comment(a, n, t) ==
  /\ a \in Seq(Message)
  /\ \/ t = <<>> /\ a = <<User>>
     \/ Len(a) = Len(t) /\ \A c \in DOMAIN t : a[c] = Result(n, c)

IsToolTurn(t) == t # <<>> /\ (Handoff => ToSet(t) \cap Conclude = {})

(* The messages of a comment.                                              *)
LEMMA CommentFacts ==
  ASSUME NEW a, NEW n, NEW t \in Turns, Comment(a, n, t), NEW i \in 1 .. Len(a)
  PROVE  /\ a[i].role \in {"user", "tool"}
         /\ a[i].role = "tool" => a[i].n = n
  <1>1. CASE t = <<>> /\ a = <<User>>
    <2>1. Len(<<User>>) = 1 /\ <<User>>[1] = User
      OBVIOUS
    <2>2. a[i] = User
      BY <1>1, <2>1
    <2> QED BY <2>2, MessageFields
  <1>2. CASE Len(a) = Len(t) /\ \A c \in DOMAIN t : a[c] = Result(n, c)
    <2>1. a[i] = Result(n, i)
      BY <1>2, TurnFacts
    <2> QED BY <2>1, MessageFields
  <1> QED BY <1>1, <1>2 DEF Comment

(* AnswerAll is a comment.                                                 *)
LEMMA AnswerAllFacts ==
  ASSUME made \in Nat, NEW t \in Turns
  PROVE  Comment(AnswerAll(t), made + 1, t)
  <1>1. DOMAIN t = 1 .. Len(t) /\ Len(t) \in Nat
    BY TurnFacts
  <1>2. \A c \in 1 .. Len(t) : Result(made + 1, c) \in Message
    BY MessageTypes
  <1>3. AnswerAll(t) = [c \in 1 .. Len(t) |-> Result(made + 1, c)]
    BY <1>1 DEF AnswerAll
  <1>4. AnswerAll(t) \in Seq(Message) /\ Len(AnswerAll(t)) = Len(t)
    BY <1>1, <1>2, <1>3
  <1> QED BY <1>1, <1>3, <1>4 DEF Comment

(* h, then the message of the model, then the comment.                     *)
LEMMA CommentedFacts ==
  ASSUME NEW h \in Seq(Message), NEW n \in Nat, NEW t \in Turns, NEW a, Comment(a, n, t)
  PROVE  LET g == Append(h, Assistant(n, t)) \o a
         IN  /\ Extends(g, h)
             /\ Extends(g, Append(h, Assistant(n, t)))
             /\ Len(g) = Len(h) + 1 + Len(a)
             /\ g[Len(h) + 1] = Assistant(n, t)
             /\ \A j \in Len(h) + 2 .. Len(g) : /\ g[j].role \in {"user", "tool"}
                                                /\ g[j].role = "tool" => g[j].n = n
  <1> DEFINE m == Assistant(n, t)
  <1> DEFINE f == Append(h, m)
  <1> DEFINE g == f \o a
  <1>1. m \in Message /\ a \in Seq(Message) /\ Len(h) \in Nat /\ Len(a) \in Nat
    BY MessageTypes, LenProperties DEF Comment
  <1> HIDE DEF m
  <1>2. Extends(f, h) /\ Len(f) = Len(h) + 1 /\ f[Len(h) + 1] = m /\ f \in Seq(Message)
    BY <1>1, AppendExtends DEF Extends
  <1> HIDE DEF f
  <1>3. Extends(g, f) /\ Len(g) = Len(f) + Len(a) /\ \A i \in 1 .. Len(a) : g[Len(f) + i] = a[i]
    BY <1>1, <1>2, ConcatExtends
  <1> HIDE DEF g
  <1>4. Extends(g, h)
    BY <1>2, <1>3, ExtendsTransitive
  <1>5. g[Len(h) + 1] = m
    BY <1>1, <1>2, <1>3 DEF Extends
  <1>6. ASSUME NEW j \in Len(h) + 2 .. Len(g)
        PROVE  g[j].role \in {"user", "tool"} /\ (g[j].role = "tool" => g[j].n = n)
    <2> DEFINE i == j - Len(f)
    <2>1. i \in 1 .. Len(a) /\ j = Len(f) + i
      BY <1>1, <1>2, <1>3
    <2>2. g[j] = a[i]
      BY <2>1, <1>3
    <2> HIDE DEF i
    <2> QED BY <2>1, <2>2, CommentFacts
  <1> QED BY <1>1, <1>2, <1>3, <1>4, <1>5, <1>6 DEF g, f, m

(* The window after a turn that is no tool turn.                           *)
LEMMA WatchedOther ==
  ASSUME NEW r \in Run, Watched(r), NEW n \in Nat, NEW t \in Turns, ~IsToolTurn(t),
         NEW a, Comment(a, n, t), NEW s \in Run, s.base = r.base, s.prints = r.prints,
         s.history = Append(r.history, Assistant(n, t)) \o a
  PROVE  Watched(s)
  <1> DEFINE h == r.history
  <1> DEFINE g == s.history
  <1> DEFINE b == Len(r.base)
  <1>1. h \in Seq(Message) /\ Len(h) \in Nat /\ Len(a) \in Nat
    BY RunFields, LenProperties DEF Comment
  <1>2. /\ Extends(g, h) /\ Len(g) = Len(h) + 1 + Len(a) /\ g[Len(h) + 1] = Assistant(n, t)
        /\ \A j \in Len(h) + 2 .. Len(g) : g[j].role \in {"user", "tool"}
    BY <1>1, CommentedFacts
  <1>3. \A j \in Len(h) + 1 .. Len(g) : j \notin ToolTurns(g, b)
    <2> SUFFICES ASSUME NEW j \in Len(h) + 1 .. Len(g), j \in ToolTurns(g, b) PROVE FALSE
      OBVIOUS
    <2>1. /\ g[j].role = "assistant" /\ g[j].turn # <<>>
          /\ (Handoff => ToSet(g[j].turn) \cap Conclude = {})
      BY DEF ToolTurns, Said
    <2>2. j = Len(h) + 1
      <3>1. j \notin Len(h) + 2 .. Len(g)
        BY <2>1, <1>2
      <3>2. j \in Int /\ Len(h) + 1 <= j /\ j <= Len(g) /\ Len(g) \in Nat
        BY <1>1, <1>2
      <3> HIDE DEF g, h
      <3> QED BY <3>1, <3>2, <1>1
    <2>3. g[j].turn = t
      BY <2>2, <1>2, MessageFields
    <2> QED BY <2>1, <2>3 DEF IsToolTurn
  <1> HIDE DEF g, h
  <1>4. /\ Windowed(h, b, r.prints) => Windowed(g, b, r.prints)
        /\ RepeatsIn(g, b, StuckThreshold) <=> RepeatsIn(h, b, StuckThreshold)
    BY <1>2, <1>3, WindowStays
  <1> QED BY <1>4 DEF Watched, g, h

(* The window after a tool turn that was not one repetition too many.      *)
LEMMA WatchedTurn ==
  ASSUME NEW r \in Run, Watched(r), NEW n \in Nat, NEW t \in Turns, IsToolTurn(t),
         Len(r.base) < Len(r.history), NEW s \in Run, s.base = r.base,
         s.prints = Remember(r.prints, t),
         ~(Len(s.prints) >= StuckThreshold /\ AllSame(s.prints)),
         s.history = Append(r.history, Assistant(n, t))
           \/ \E a : Comment(a, n, t) /\ s.history = Append(r.history, Assistant(n, t)) \o a
  PROVE  Watched(s)
  <1> DEFINE h == r.history
  <1> DEFINE f == Append(h, Assistant(n, t))
  <1> DEFINE g == s.history
  <1> DEFINE b == Len(r.base)
  <1>1. h \in Seq(Message) /\ Len(h) \in Nat /\ b \in Nat /\ g \in Seq(Message) /\ Len(g) \in Nat
        /\ r.prints \in Seq(Turns)
    BY RunFields, LenProperties
  <1>2. f \in Seq(Message) /\ Len(f) = Len(h) + 1
    BY <1>1, MessageTypes, AppendProperties
  <1>3. Windowed(f, b, s.prints) /\ Len(s.prints) <= StuckThreshold
    <2>1. /\ Windowed(h, b, r.prints) /\ Len(r.prints) <= StuckThreshold
          /\ t # <<>> /\ (Handoff => ToSet(t) \cap Conclude = {}) /\ b <= Len(h)
      BY <1>1 DEF Watched, IsToolTurn
    <2>2. Windowed(f, b, Remember(r.prints, t))
      <3> HIDE DEF h, b
      <3> QED BY <2>1, <1>1, WindowTurn DEF h
    <2>3. Len(Remember(r.prints, t)) <= StuckThreshold
      BY <2>1, <1>1, RememberFacts
    <2> QED BY <2>2, <2>3
  <1>4. Windowed(g, b, s.prints)
    <2>1. CASE g = f
      BY <2>1, <1>3
    <2>2. ASSUME NEW a, Comment(a, n, t), g = f \o a PROVE Windowed(g, b, s.prints)
      <3>1. /\ Extends(g, f)
            /\ \A j \in Len(h) + 2 .. Len(g) : g[j].role \in {"user", "tool"}
        BY <2>2, <1>1, CommentedFacts
      <3>2. \A j \in Len(f) + 1 .. Len(g) : j \notin ToolTurns(g, b)
        <4> SUFFICES ASSUME NEW j \in Len(f) + 1 .. Len(g), j \in ToolTurns(g, b) PROVE FALSE
          OBVIOUS
        <4>1. g[j].role = "assistant"
          BY DEF ToolTurns, Said
        <4>2. j \in Len(h) + 2 .. Len(g)
          BY <1>1, <1>2
        <4> QED BY <3>1, <4>1, <4>2
      <3> HIDE DEF g, f
      <3> QED BY <3>1, <3>2, <1>3, WindowStays
    <2> QED BY <2>1, <2>2
  <1>5. ~RepeatsIn(g, b, StuckThreshold)
    <2>1. s.prints \in Seq(Turns)
      BY RunFields
    <2> HIDE DEF g, b
    <2> QED BY <1>1, <1>3, <1>4, <2>1, RepeatsFillWindow
  <1> QED BY <1>3, <1>4, <1>5 DEF Watched

(* What a run goes on with, once the messages of its history after the     *)
(* first ones are those of the model since and the answers to them.        *)
LEMMA GoesOn ==
  ASSUME NEW r, NEW k \in Nat, RunInv(r, k), Live(r),
         NEW s \in Run, s.base = r.base, s.input = r.input, s.kind = r.kind,
         Extends(s.history, r.history), NEW l \in Nat, k <= l,
         NEW b \in Nat, Bounded(Append(r.base, r.input), b),
         \A j \in Len(r.history) + 1 .. Len(s.history) :
           /\ s.history[j].role # "user" => s.history[j].n <= l
           /\ s.history[j].role = "tool" => s.history[j].n > b
  PROVE  Given(s, l) /\ Bounded(s.history, l) /\ Tailed(s)
  <1> DEFINE h == r.history
  <1> DEFINE g == s.history
  <1> DEFINE given == Append(r.base, r.input)
  <1>1. Given(r, k) /\ LiveInv(r, k)
    BY DEF RunInv
  <1>2. /\ r \in Run /\ h \in Seq(Message) /\ Len(h) \in Nat /\ Len(r.base) \in Nat
        /\ r.base \in Seq(Message) /\ given \in Seq(Message)
        /\ g \in Seq(Message) /\ Len(g) \in Nat /\ Len(h) <= Len(g)
    BY <1>1, RunFields, LenProperties, AppendProperties DEF Given, Extends
  <1>3. Bounded(h, k) /\ Bounded(given, k)
    BY <1>1 DEF LiveInv, Given
  <1>4. Bounded(g, l)
    <2>1. \A j \in Len(h) + 1 .. Len(g) : g[j].role # "user" => g[j].n <= l
      OBVIOUS
    <2>2. Extends(g, h) /\ Bounded(h, k)
      BY <1>3
    <2> HIDE DEF g, h
    <2> QED BY <2>1, <2>2, BoundedExtend
  <1>5. Bounded(given, l)
    <2> SUFFICES ASSUME NEW j \in DOMAIN given, given[j].role # "user"
                 PROVE  given[j].n <= l
      BY DEF Bounded
    <2>1. given[j].n <= k /\ given[j] \in Message
      BY <1>2, <1>3, ElementOfSeq, LenProperties DEF Bounded
    <2>2. given[j].n \in Nat
      BY <2>1, MessageFacts
    <2> QED BY <2>1, <2>2
  <1>6. Given(s, l)
    BY <1>1, <1>2, <1>5 DEF Given
  <1>7. Tailed(s)
    <2> SUFFICES ASSUME r.kind \in {"reply", "continue"}
                 PROVE  TailAnswered(r.base, given) /\ TailAnswered(r.base, g)
      BY DEF Tailed
    <2>1. TailAnswered(r.base, given) /\ TailAnswered(r.base, h)
      BY <1>1 DEF LiveInv, Tailed
    <2>2. Bounded(r.base, b)
      <3>1. Extends(given, r.base)
        BY <1>1, AppendExtends, RunFields DEF Given
      <3> QED BY <3>1, BoundedPrefix
    <2>3. \A j \in Len(h) + 1 .. Len(g) : g[j].role = "tool" => g[j].n > b
      OBVIOUS
    <2>4. Extends(g, h)
      OBVIOUS
    <2> HIDE DEF g, h
    <2> QED BY <2>1, <2>2, <2>3, <2>4, <1>2, TailExtend
  <1> QED BY <1>4, <1>6, <1>7

(* A message of the model that the loop comments on and goes on.           *)
LEMMA CommentStep ==
  ASSUME NEW r, NEW k \in Nat, RunInv(r, k), r.pc = "call", NEW t \in Turns,
         NEW a, Comment(a, k + 1, t), NEW s \in Run, s.pc = "top",
         s.base = r.base, s.input = r.input, s.kind = r.kind,
         s.history = Append(r.history, Assistant(k + 1, t)) \o a, Watched(s)
  PROVE  RunInv(s, k + 1)
  <1> DEFINE h == r.history
  <1> DEFINE g == s.history
  <1> DEFINE f == Append(h, Assistant(k + 1, t))
  <1> DEFINE given == Append(r.base, r.input)
  <1>1. Given(r, k) /\ LiveInv(r, k)
    BY DEF RunInv, Live
  <1>2. /\ r \in Run /\ h \in Seq(Message) /\ Len(h) \in Nat /\ Len(r.base) \in Nat
        /\ r.base \in Seq(Message) /\ given \in Seq(Message) /\ a \in Seq(Message)
    BY <1>1, RunFields, LenProperties, AppendProperties DEF Given, Comment
  <1>a. k + 1 \in Nat /\ Len(a) \in Nat
    BY <1>2, LenProperties
  <1>b. \A j \in Len(h) + 2 .. Len(g) : /\ g[j].role \in {"user", "tool"}
                                        /\ g[j].role = "tool" => g[j].n = k + 1
    <2> DEFINE e == Append(h, Assistant(k + 1, t)) \o a
    <2>1. \A j \in Len(h) + 2 .. Len(e) : /\ e[j].role \in {"user", "tool"}
                                          /\ e[j].role = "tool" => e[j].n = k + 1
      <3> HIDE DEF h
      <3> QED BY <1>2, <1>a, CommentedFacts
    <2>2. g = e
      OBVIOUS
    <2> HIDE DEF e, g
    <2> QED BY <2>1, <2>2
  <1>3. Extends(g, h) /\ Len(g) = Len(h) + 1 + Len(a) /\ g[Len(h) + 1] = Assistant(k + 1, t)
    BY <1>2, <1>a, CommentedFacts
  <1>4. \A j \in Len(h) + 1 .. Len(g) : /\ g[j].role # "user" => g[j].n = k + 1
    <2> TAKE j \in Len(h) + 1 .. Len(g)
    <2>1. CASE j = Len(h) + 1
      BY <2>1, <1>a, <1>3, MessageFields
    <2>2. CASE j # Len(h) + 1
      BY <2>2, <1>2, <1>a, <1>b, <1>3
    <2> QED BY <2>1, <2>2
  <1>5. Bounded(h, k) /\ Bounded(given, k)
    BY <1>1 DEF LiveInv, Given
  <1>6. Given(s, k + 1) /\ Bounded(g, k + 1) /\ Tailed(s)
    <2>1. /\ k + 1 \in Nat /\ k <= k + 1 /\ k + 1 > k /\ k + 1 <= k + 1
      OBVIOUS
    <2>2. ASSUME NEW j \in Len(h) + 1 .. Len(g)
          PROVE  /\ g[j].role # "user" => g[j].n <= k + 1
                 /\ g[j].role = "tool" => g[j].n > k
      BY <2>1, <1>4
    <2>3. Extends(g, h) /\ Live(r)
      BY <1>3 DEF Live
    <2> QED BY <2>1, <2>2, <2>3, <1>5, GoesOn
  <1>7. ASSUME WellFormed(given) PROVE WellFormed(g)
    <2>1. WellFormed(h)
      BY <1>1, <1>7 DEF LiveInv, Requests
    <2>2. Almost(f, k + 1, DOMAIN t)
      BY <2>1, <1>2, <1>5, AlmostAssistant
    <2>3. f \in Seq(Message)
      BY <1>2, MessageTypes, AppendProperties
    <2> HIDE DEF f, g, h
    <2>4. g = f \o a
      BY DEF f, g, h
    <2>5. CASE t = <<>> /\ a = <<User>>
      <3>1. DOMAIN t = {}
        BY <2>5
      <3>2. WellFormed(f)
        BY <2>2, <3>1, WellFormedIs DEF Almost
      <3>3. g = Append(f, User)
        BY <2>3, <2>4, <2>5, MessageTypes, AppendIsConcat
      <3> QED BY <2>3, <3>2, <3>3, WellFormedUser
    <2>6. CASE Len(a) = Len(t) /\ \A c \in DOMAIN t : a[c] = Result(k + 1, c)
      <3>1. f \in Seq(Message) /\ k + 1 \in Nat /\ Almost(f, k + 1, DOMAIN t) /\ a \in Seq(Message)
        BY <2>2, <2>3, <1>2
      <3>2. WellFormed(f \o a)
        BY <3>1, <2>6, AlmostAll
      <3> QED BY <3>2, <2>4
    <2> QED BY <2>5, <2>6 DEF Comment
  <1>8. Requests(s, k + 1)
    BY <1>7 DEF Requests
  <1>9. LiveInv(s, k + 1)
    BY <1>6, <1>8 DEF LiveInv
  <1> QED BY <1>6, <1>9 DEF RunInv

(* A message of the model whose calls are up for execution.                *)
LEMMA ToolsStep ==
  ASSUME NEW r, NEW k \in Nat, RunInv(r, k), r.pc = "call", NEW t \in Turns, t # <<>>,
         NEW s \in Run, s.pc = "tools",
         s.base = r.base, s.input = r.input, s.kind = r.kind,
         s.history = Append(r.history, Assistant(k + 1, t)), s.todo = DOMAIN t, Watched(s)
  PROVE  RunInv(s, k + 1)
  <1> DEFINE h == r.history
  <1> DEFINE g == s.history
  <1> DEFINE m == Assistant(k + 1, t)
  <1> DEFINE given == Append(r.base, r.input)
  <1>1. Given(r, k) /\ LiveInv(r, k)
    BY DEF RunInv, Live
  <1>2. /\ h \in Seq(Message) /\ Len(h) \in Nat /\ m \in Message
        /\ m.role = "assistant" /\ m.n = k + 1
    BY <1>1, RunFields, LenProperties, MessageTypes, MessageFields DEF Given
  <1>3. Extends(g, h) /\ Len(g) = Len(h) + 1 /\ g[Len(h) + 1] = m
    BY <1>2, AppendExtends
  <1>4. ASSUME NEW j \in Len(h) + 1 .. Len(g)
        PROVE  g[j].role = "assistant" /\ g[j].n = k + 1
    <2>1. j = Len(h) + 1
      BY <1>2, <1>3
    <2> QED BY <2>1, <1>2, <1>3
  <1>5. Bounded(h, k) /\ Bounded(given, k)
    BY <1>1 DEF LiveInv, Given
  <1>6. Given(s, k + 1) /\ Bounded(g, k + 1) /\ Tailed(s)
    <2>1. k + 1 \in Nat /\ k <= k + 1 /\ k + 1 <= k + 1
      OBVIOUS
    <2>2. ASSUME NEW j \in Len(h) + 1 .. Len(g)
          PROVE  /\ g[j].role # "user" => g[j].n <= k + 1
                 /\ g[j].role = "tool" => g[j].n > k
      BY <2>1, <1>4
    <2>3. Extends(g, h) /\ Live(r)
      BY <1>3 DEF Live
    <2> QED BY <2>1, <2>2, <2>3, <1>5, GoesOn
  <1>7. ASSUME WellFormed(given) PROVE Almost(g, k + 1, DOMAIN t)
    <2>1. WellFormed(h)
      BY <1>1, <1>7 DEF LiveInv, Requests
    <2> QED BY <2>1, <1>2, <1>5, AlmostAssistant
  <1>8. Requests(s, k + 1)
    BY <1>7 DEF Requests
  <1>9. s.todo # {} /\ k + 1 > 0 /\ (k + 1) - 1 = k
    BY TurnFacts
  <1>10. LiveInv(s, k + 1)
    BY <1>5, <1>6, <1>8, <1>9 DEF LiveInv
  <1> QED BY <1>6, <1>10 DEF RunInv

(* A result, while the tools of the last message execute.                  *)
LEMMA ToolReturnStep ==
  ASSUME NEW r, NEW k \in Nat, RunInv(r, k), r.pc = "tools", NEW c \in r.todo,
         NEW s \in Run, s.pc = IF r.todo \ {c} = {} THEN "top" ELSE "tools",
         s.base = r.base, s.input = r.input, s.kind = r.kind, s.prints = r.prints,
         s.history = Append(r.history, Result(k, c)), s.todo = r.todo \ {c}
  PROVE  RunInv(s, k)
  <1> DEFINE h == r.history
  <1> DEFINE g == s.history
  <1> DEFINE m == Result(k, c)
  <1> DEFINE given == Append(r.base, r.input)
  <1>1. Given(r, k) /\ LiveInv(r, k)
    BY DEF RunInv, Live
  <1>2. /\ h \in Seq(Message) /\ Len(h) \in Nat /\ m \in Message /\ c \in Nat \ {0}
        /\ m.role = "tool" /\ m.n = k
    BY <1>1, RunFields, LenProperties, MessageTypes, MessageFields DEF Given
  <1>3. Extends(g, h) /\ Len(g) = Len(h) + 1 /\ g[Len(h) + 1] = m
    BY <1>2, AppendExtends
  <1>4. ASSUME NEW j \in Len(h) + 1 .. Len(g)
        PROVE  g[j].role = "tool" /\ g[j].n = k
    <2>1. j = Len(h) + 1
      BY <1>2, <1>3
    <2> QED BY <2>1, <1>2, <1>3
  <1>5. k - 1 \in Nat /\ k > k - 1 /\ k <= k /\ Bounded(given, k - 1)
    BY <1>1 DEF LiveInv
  <1>6. Given(s, k) /\ Bounded(g, k) /\ Tailed(s)
    <2>1. ASSUME NEW j \in Len(h) + 1 .. Len(g)
          PROVE  /\ g[j].role # "user" => g[j].n <= k
                 /\ g[j].role = "tool" => g[j].n > k - 1
      BY <1>5, <1>4
    <2>2. Extends(g, h) /\ Live(r)
      BY <1>3 DEF Live
    <2> QED BY <2>1, <2>2, <1>5, GoesOn
  <1>7. ASSUME WellFormed(given) PROVE Almost(g, k, r.todo \ {c})
    <2>1. Almost(h, k, r.todo)
      BY <1>1, <1>7 DEF LiveInv, Requests
    <2> QED BY <2>1, <1>2, AlmostResult
  <1>8. Requests(s, k)
    <2> SUFFICES ASSUME WellFormed(given), s.pc # "tools" PROVE WellFormed(g)
      BY <1>7 DEF Requests
    <2>1. r.todo \ {c} = {}
      OBVIOUS
    <2>2. Almost(g, k, {})
      BY <1>7, <2>1
    <2> QED BY <2>2, WellFormedIs DEF Almost
  <1>9. Watched(s)
    <2>1. \A j \in Len(h) + 1 .. Len(g) : j \notin ToolTurns(g, Len(r.base))
      BY <1>4 DEF ToolTurns, Said
    <2>2. Watched(r)
      BY <1>1 DEF LiveInv
    <2>3. /\ Windowed(h, Len(r.base), r.prints) => Windowed(g, Len(r.base), r.prints)
          /\ RepeatsIn(g, Len(r.base), StuckThreshold) <=> RepeatsIn(h, Len(r.base), StuckThreshold)
      <3> HIDE DEF g, h
      <3> QED BY <1>3, <2>1, WindowStays
    <2> QED BY <2>2, <2>3 DEF Watched
  <1>10. s.pc = "tools" => s.todo # {} /\ k > 0
    BY <1>5
  <1>11. LiveInv(s, k)
    BY <1>5, <1>6, <1>8, <1>9, <1>10 DEF LiveInv
  <1> QED BY <1>6, <1>11 DEF RunInv

(* The call of an accepted hand-over: the first of the last message.       *)
LEMMA AcceptedCall ==
  ASSUME NEW h \in Seq(Message), NEW n \in Nat, NEW t \in Turns, NEW b \in Nat,
         b <= Len(h), ~Rejected(t), ToSet(t) \cap Conclude # {}
  PROVE  /\ ConcludeCall(Append(h, Assistant(n, t)), b) = [n |-> n, call |-> 1]
         /\ Len(t) = 1
  <1> DEFINE m == Assistant(n, t)
  <1> DEFINE g == Append(h, m)
  <1> DEFINE S == {k \in Said(g) : k > b /\ ToSet(g[k].turn) \cap Conclude # {}}
  <1>1. /\ m \in Message /\ m.role = "assistant" /\ m.n = n /\ m.turn = t
        /\ Len(h) \in Nat
    BY MessageTypes, MessageFields, LenProperties
  <1>2. t \in Seq(STRING) /\ Len(t) \in Nat /\ DOMAIN t = 1 .. Len(t)
    BY TurnFacts
  <1>3. Len(t) = 1
    <2>1. ToSet(t) # {}
      OBVIOUS
    <2>2. 1 .. Len(t) # {}
      BY <2>1, <1>2 DEF ToSet
    <2>3. ~(Len(t) > 1)
      BY DEF Rejected
    <2> QED BY <2>2, <2>3, <1>2
  <1> HIDE DEF m
  <1>4. g \in Seq(Message) /\ Len(g) = Len(h) + 1 /\ g[Len(h) + 1] = m /\ DOMAIN g = 1 .. Len(g)
    BY <1>1, AppendExtends, LenProperties DEF Extends
  <1> HIDE DEF g
  <1>5. Len(h) + 1 \in S
    BY <1>1, <1>4 DEF Said
  <1>6. S \in SUBSET Nat /\ \A y \in S : y <= Len(h) + 1
    BY <1>1, <1>4 DEF Said
  <1>7. Max(S) = Len(h) + 1
    <2> HIDE DEF S
    <2> QED BY <1>5, <1>6, MaxIs
  <1> DEFINE C == {c \in DOMAIN t : t[c] \in Conclude}
  <1>8. C = {1}
    <2>1. PICK x \in ToSet(t) : x \in Conclude
      OBVIOUS
    <2>2. DOMAIN t = {1}
      BY <1>2, <1>3
    <2>3. x = t[1]
      BY <2>1, <2>2 DEF ToSet
    <2> QED BY <2>1, <2>2, <2>3
  <1>9. Min(C) = 1
    <2> HIDE DEF C
    <2>1. C \in SUBSET Nat /\ C # {}
      BY <1>8
    <2>2. Min(C) \in C
      BY <2>1, MinFact
    <2> QED BY <2>2, <1>8
  <1>10. ConcludeCall(g, b) = [n |-> g[Max(S)].n,
             call |-> Min({c \in DOMAIN g[Max(S)].turn : g[Max(S)].turn[c] \in Conclude})]
    BY Zenon DEF ConcludeCall
  <1>11. g[Max(S)].n = n /\ g[Max(S)].turn = t
    BY <1>7, <1>4, <1>1
  <1> QED BY <1>3, <1>9, <1>10, <1>11 DEF g, m

-----------------------------------------------------------------------------
(* The inductive invariant. *)

(* What the session has said: the journal and what is on its way to it.    *)
Told == messages \o queue

Types ==
  /\ params \in Params
  /\ messages \in Seq(Message) /\ queue \in Seq(Message)
  /\ actor \in {"idle", "running", "stopped", "down"}
  /\ waiting \in Call \cup {NoCall}
  /\ made \in Nat /\ inputs \in Nat /\ cancels \in Nat /\ crashes \in Nat

Shape ==
  /\ actor = "running" => run # NoRun
  /\ actor # "running" => run = NoRun /\ queue = <<>>
  /\ actor = "down" => waiting = NoCall

(* The run's own messages, the journal, and where the two meet: the calls  *)
(* under execution and the call a session waits an answer to are open in   *)
(* the journal.                                                            *)
IInv ==
  /\ Types
  /\ Shape
  /\ run = NoRun \/ RunInv(run, made)
  /\ Tape(Told, made)
  /\ run.pc = "tools" => Open(Told, made, run.todo)
  /\ run.pc = "done" /\ run.outcome = "ask" => Asked(Told, [n |-> made, call |-> 1])
  /\ actor = "idle" /\ waiting # NoCall => Asked(messages, waiting)

(* A session without a run is not inside the loop.                         *)
LEMMA RunOfNone == NoRun.pc = "none"
  BY DEF NoRun

(* The inductive invariant implies the properties.                         *)
LEMMA InvHolds ==
  ASSUME IInv
  PROVE  Inv /\ JournalTellsInOrder /\ StuckIsOver
  <1>1. TypeOK
    BY DEF IInv, Types, TypeOK, RunInv, Given
  <1>2. ASSUME run.pc # "none" PROVE RunInv(run, made) /\ run \in Run
    BY <1>2, RunOfNone DEF IInv, RunInv, Given
  <1>3. ASSUME run.pc = "call" PROVE LiveInv(run, made)
    BY <1>2, <1>3 DEF RunInv, Live
  <1>4. RequestsStayWellFormed
    BY <1>3 DEF RequestsStayWellFormed, LiveInv, Requests
  <1>5. TailIsAnswered
    BY <1>3 DEF TailIsAnswered, LiveInv, Tailed, TailAnswered
  <1>6. JournalTellsInOrder
    <2>1. Tape(messages, made)
      BY ConcatExtends, TapePrefix DEF IInv, Types, Told
    <2> QED BY <2>1 DEF JournalTellsInOrder, Tape, Ordered, Unique
  <1>7. StuckIsOver
    <2> SUFFICES ASSUME run.pc # "none", run.pc # "done"
                 PROVE  ~Repeats(StuckThreshold)
      BY DEF StuckIsOver
    <2>1. LiveInv(run, made)
      BY <1>2, RunFields DEF RunInv, Live
    <2>2. ~RepeatsIn(run.history, Len(run.base), StuckThreshold)
      BY <2>1 DEF LiveInv, Watched
    <2> QED BY <2>2 DEF Repeats, RepeatsIn
  <1> QED BY <1>1, <1>4, <1>5, <1>6, <1>7 DEF Inv

(* The settings of a session do not change, and the rest of RunInv is      *)
(* about the run alone.                                                    *)
LEMMA SameParams ==
  ASSUME params' = params
  PROVE  RunInv(run, made)' <=> RunInv(run', made')
  BY DEF RunInv, LiveInv, Watched, Windowed, RepeatsIn, ToolTurns, Handoff

(* A message emitted goes to the end of what is told.                      *)
LEMMA ToldGrows ==
  ASSUME messages \in Seq(Message), queue \in Seq(Message), NEW m \in Message
  PROVE  messages \o Append(queue, m) = Append(messages \o queue, m)
  <1>1. Append(queue, m) = queue \o <<m>> /\ <<m>> \in Seq(Message)
    BY AppendIsConcat
  <1>2. messages \o queue \in Seq(Message)
    BY ConcatProperties
  <1>3. Append(messages \o queue, m) = (messages \o queue) \o <<m>>
    BY <1>2, AppendIsConcat
  <1> QED BY <1>1, <1>3, ConcatAssociative

(* A message journaled was the next one told.                              *)
LEMMA ToldMoves ==
  ASSUME messages \in Seq(Message), queue \in Seq(Message), queue # <<>>
  PROVE  /\ Head(queue) \in Message /\ Tail(queue) \in Seq(Message)
         /\ Append(messages, Head(queue)) \o Tail(queue) = messages \o queue
  <1>1. Head(queue) \in Message /\ Tail(queue) \in Seq(Message)
    BY HeadTailProperties
  <1>2. queue = <<Head(queue)>> \o Tail(queue)
    BY <1>1, HeadTailProperties, ConcatProperties
  <1>3. Append(messages, Head(queue)) = messages \o <<Head(queue)>>
    BY <1>1, AppendIsConcat
  <1>4. <<Head(queue)>> \in Seq(Message)
    BY <1>1
  <1> QED BY <1>1, <1>2, <1>3, <1>4, ConcatAssociative

(* At rest everything told is journaled.                                   *)
LEMMA ToldAtRest ==
  ASSUME messages \in Seq(Message), queue = <<>>
  PROVE  Told = messages
  BY ConcatEmptySeq DEF Told

-----------------------------------------------------------------------------
(* The steps. *)

(* The invariant holds at first.                                           *)
LEMMA InitHolds ==
  ASSUME Init
  PROVE  IInv
  <1>1. <<>> \in Seq(Message) /\ Len(<<>>) = 0 /\ 1 .. 0 = {} /\ <<>> \o <<>> = <<>>
    BY EmptySeq, ConcatEmptySeq
  <1>2. Types
    BY <1>1 DEF Init, Types
  <1>3. Told = <<>>
    BY <1>1 DEF Init, Told
  <1>4. Tape(<<>>, made)
    BY <1>1 DEF Tape, Ordered, Unique, Bounded
  <1> QED BY <1>2, <1>3, <1>4, RunOfNone DEF Init, IInv, Shape

(* A step of the loop, from what it does to the run and to its messages.   *)
LEMMA LoopStep ==
  ASSUME IInv, run # NoRun, StepFrame, made' \in Nat, queue' \in Seq(Message),
         RunInv(run', made'), NEW told, messages \o queue' = told, Tape(told, made'),
         run'.pc = "tools" => Open(told, made', run'.todo),
         run'.pc = "done" /\ run'.outcome = "ask" => Asked(told, [n |-> made', call |-> 1])
  PROVE  IInv'
  <1>1. actor = "running"
    BY DEF IInv, Shape
  <1>2. Types' /\ Told' = told
    BY DEF IInv, Types, StepFrame, Told
  <1>3. run' # NoRun
    BY RunFields, RunOfNone DEF RunInv, Given
  <1>4. Shape'
    BY <1>1, <1>3 DEF Shape, StepFrame
  <1>5. RunInv(run, made)'
    BY SameParams DEF StepFrame
  <1>6. actor' # "idle"
    BY <1>1 DEF StepFrame
  <1> QED BY <1>2, <1>4, <1>5, <1>6 DEF IInv

(* What the invariant says of a run.                                       *)
LEMMA LoopFacts ==
  ASSUME IInv, run.pc # "none"
  PROVE  /\ run # NoRun /\ RunInv(run, made) /\ Given(run, made) /\ run \in Run
         /\ made \in Nat /\ messages \in Seq(Message) /\ queue \in Seq(Message)
         /\ Tape(Told, made) /\ Told = messages \o queue
         /\ Live(run) => LiveInv(run, made)
  BY RunOfNone DEF IInv, Types, RunInv, Given, Told

(* The head of the loop.                                                   *)
LEMMA BeginTurnStep ==
  ASSUME IInv, BeginTurn
  PROVE  IInv'
  <1>1. run.pc = "top" /\ queue' = queue /\ made' = made /\ StepFrame
    BY DEF BeginTurn
  <1>2. /\ run # NoRun /\ RunInv(run, made) /\ Given(run, made) /\ run \in Run
        /\ made \in Nat /\ queue \in Seq(Message)
        /\ Tape(Told, made) /\ Told = messages \o queue
    BY <1>1, LoopFacts
  <1>3. \/ \E o \in Outcomes : o # "ask" /\ Ends(run, o)
        \/ /\ run.iteration < MaxIterations
           /\ run' = [run EXCEPT !.pc = "call", !.iteration = @ + 1]
    BY DEF BeginTurn, Outcomes
  <1>4. ASSUME NEW o \in Outcomes, o # "ask", Ends(run, o) PROVE IInv'
    <2>1. RunInv(run', made)
      BY <1>2, <1>4, EndStep
    <2>2. run'.pc = "done" /\ run'.outcome # "ask"
      BY <1>2, <1>4, EndsFacts
    <2> QED BY <1>1, <1>2, <2>1, <2>2, LoopStep
  <1>5. ASSUME run.iteration < MaxIterations,
               run' = [run EXCEPT !.pc = "call", !.iteration = @ + 1]
        PROVE  IInv'
    <2>1. run.iteration + 1 \in 0 .. MaxIterations
      <3>1. run.iteration \in 0 .. MaxIterations /\ MaxIterations \in Nat
        BY <1>2, RunFields, ThresholdAssumption
      <3> QED BY <3>1, <1>5
    <2>2. /\ run' \in Run /\ run'.pc = "call"
          /\ run'.base = run.base /\ run'.input = run.input /\ run'.history = run.history
          /\ run'.kind = run.kind /\ run'.prints = run.prints /\ run'.todo = run.todo
          /\ run'.outcome = run.outcome
      BY <1>2, <1>5, <2>1 DEF Run
    <2>3. RunInv(run', made)
      BY <1>1, <1>2, <2>2, SameStep
    <2> QED BY <1>1, <1>2, <2>2, <2>3, LoopStep
  <1> QED BY <1>3, <1>4, <1>5

(* A failed call of the provider: the next attempt, or the end.            *)
LEMMA ProviderFailsStep ==
  ASSUME IInv, ProviderFails
  PROVE  IInv'
  <1>1. run.pc = "call" /\ queue' = queue /\ made' = made /\ StepFrame
    BY DEF ProviderFails
  <1>2. /\ run # NoRun /\ RunInv(run, made) /\ Given(run, made) /\ run \in Run
        /\ made \in Nat /\ queue \in Seq(Message) /\ LiveInv(run, made)
        /\ Tape(Told, made) /\ Told = messages \o queue
    BY <1>1, LoopFacts DEF Live
  <1>3. CASE run.attempt >= MaxRetries /\ Ends(run, "recoverable")
    <2>1. RunInv(run', made)
      BY <1>2, <1>3, EndStep DEF Outcomes
    <2>2. run'.pc = "done" /\ run'.outcome # "ask"
      BY <1>2, <1>3, EndsFacts DEF Outcomes
    <2> QED BY <1>1, <1>2, <2>1, <2>2, LoopStep
  <1>4. CASE run.attempt < MaxRetries
             /\ run' = Attempt(run.kind, run.base, run.input, run.attempt + 1, run.cancel)
    <2>1. run.attempt + 1 \in 0 .. MaxRetries
      <3>1. run.attempt \in 0 .. MaxRetries /\ MaxRetries \in Nat
        BY <1>2, RunFields, ThresholdAssumption
      <3> QED BY <3>1, <1>4
    <2>2. /\ run.kind \in {"fresh", "reply", "continue"} /\ run.base \in Seq(Message)
          /\ run.input \in Message /\ run.cancel \in BOOLEAN
      BY <1>2, RunFields
    <2>3. /\ run.input.role # "assistant" /\ Bounded(Append(run.base, run.input), made)
          /\ run.kind \in {"reply", "continue"} =>
               TailAnswered(run.base, Append(run.base, run.input))
      BY <1>2 DEF Given, LiveInv, Tailed
    <2>4. RunInv(run', made)
      BY <1>4, <2>1, <2>2, <2>3, AttemptStep
    <2>5. run'.pc = "top"
      BY <1>4, <2>1, <2>2, AttemptFacts
    <2> QED BY <1>1, <1>2, <2>4, <2>5, LoopStep
  <1> QED BY <1>3, <1>4 DEF ProviderFails

(* What the session has told once the model has answered t.                *)
LEMMA EmitFacts ==
  ASSUME IInv, run.pc = "call", NEW t \in Turns, Emit(t)
  PROVE  LET told == Append(Told, Assistant(made + 1, t))
         IN  /\ made' = made + 1 /\ made' \in Nat /\ queue' \in Seq(Message)
             /\ messages \o queue' = told
             /\ Tape(told, made + 1)
             /\ Open(told, made + 1, DOMAIN t)
             /\ Len(t) = 1 => Asked(told, [n |-> made + 1, call |-> 1])
  <1>1. /\ made \in Nat /\ messages \in Seq(Message) /\ queue \in Seq(Message)
        /\ Tape(Told, made) /\ Told = messages \o queue
    BY LoopFacts
  <1>2. Assistant(made + 1, t) \in Message
    BY <1>1, MessageTypes
  <1>3. queue' = Append(queue, Assistant(made + 1, t)) /\ made' = made + 1
    BY DEF Emit
  <1>4. queue' \in Seq(Message) /\ made' \in Nat
    BY <1>1, <1>2, <1>3, AppendProperties
  <1>5. messages \o queue' = Append(Told, Assistant(made + 1, t))
    BY <1>1, <1>2, <1>3, ToldGrows
  <1> QED BY <1>1, <1>3, <1>4, <1>5, TapeAssistant

(* The run that hears the last message of its life.                        *)
LEMMA HeardLast ==
  ASSUME IInv, run.pc = "call", NEW t \in Turns, Emit(t), StepFrame,
         NEW r, r \in Run, r.base = run.base, r.input = run.input, r.kind = run.kind,
         r.history = Append(run.history, Assistant(made + 1, t)),
         NEW o \in Outcomes, Ends(r, o),
         o = "ask" => ~Rejected(t) /\ ToSet(t) \cap Conclude # {}
  PROVE  IInv'
  <1>1. /\ run # NoRun /\ RunInv(run, made) /\ Given(run, made) /\ run \in Run
        /\ made \in Nat /\ LiveInv(run, made) /\ Live(run)
    BY LoopFacts DEF Live
  <1> DEFINE told == Append(Told, Assistant(made + 1, t))
  <1>2. /\ made' = made + 1 /\ made' \in Nat /\ queue' \in Seq(Message)
        /\ messages \o queue' = told /\ Tape(told, made + 1)
        /\ Len(t) = 1 => Asked(told, [n |-> made + 1, call |-> 1])
    BY EmitFacts
  <1> HIDE DEF told
  <1>3. Given(r, made + 1)
    <2>1. run.history \in Seq(Message) /\ Len(run.history) \in Nat
      BY <1>1, RunFields, LenProperties
    <2>2. /\ Assistant(made + 1, t) \in Message
          /\ Assistant(made + 1, t).role = "assistant" /\ Assistant(made + 1, t).n = made + 1
      BY <1>1, MessageTypes, MessageFields
    <2>3. /\ Extends(r.history, run.history) /\ Len(r.history) = Len(run.history) + 1
          /\ r.history[Len(run.history) + 1] = Assistant(made + 1, t)
      BY <2>1, <2>2, AppendExtends
    <2>4. ASSUME NEW j \in Len(run.history) + 1 .. Len(r.history)
          PROVE  r.history[j].role = "assistant" /\ r.history[j].n = made + 1
      <3>1. j = Len(run.history) + 1
        BY <2>1, <2>3
      <3> QED BY <3>1, <2>2, <2>3
    <2>5. ASSUME NEW j \in Len(run.history) + 1 .. Len(r.history)
          PROVE  /\ r.history[j].role # "user" => r.history[j].n <= made + 1
                 /\ r.history[j].role = "tool" => r.history[j].n > made
      BY <2>4, <1>1
    <2>6. Bounded(Append(run.base, run.input), made) /\ made + 1 \in Nat /\ made <= made + 1
      BY <1>1 DEF Given
    <2> QED BY <1>1, <2>3, <2>5, <2>6, GoesOn
  <1>4. ASSUME o = "ask"
        PROVE  /\ ConcludeCall(r.history, Len(r.base)) = [n |-> made + 1, call |-> 1]
               /\ Len(t) = 1
    <2>1. /\ run.history \in Seq(Message) /\ Len(run.history) \in Nat /\ Len(run.base) \in Nat
          /\ Len(run.base) <= Len(run.history) /\ made + 1 \in Nat
      BY <1>1, RunFields, LenProperties DEF Given
    <2> QED BY <1>4, <2>1, AcceptedCall
  <1>5. RunInv(run', made + 1)
    BY <1>3, <1>4, EndStep
  <1>6. run'.pc = "done" /\ run'.outcome = o
    BY EndsFacts
  <1>7. o = "ask" => Asked(told, [n |-> made + 1, call |-> 1])
    BY <1>2, <1>4
  <1> QED BY <1>1, <1>2, <1>5, <1>6, <1>7, LoopStep

(* The run that hears a message and comments on it.                        *)
LEMMA HeardMore ==
  ASSUME IInv, run.pc = "call", NEW t \in Turns, Emit(t), StepFrame,
         run' \in Run, run'.pc = "top",
         run'.base = run.base, run'.input = run.input, run'.kind = run.kind,
         NEW a, Comment(a, made + 1, t),
         run'.history = Append(run.history, Assistant(made + 1, t)) \o a,
         Watched(run')
  PROVE  IInv'
  <1>1. run # NoRun /\ RunInv(run, made) /\ made \in Nat
    BY LoopFacts
  <1> DEFINE told == Append(Told, Assistant(made + 1, t))
  <1>2. /\ made' = made + 1 /\ made' \in Nat /\ queue' \in Seq(Message)
        /\ messages \o queue' = told /\ Tape(told, made + 1)
    BY EmitFacts
  <1> HIDE DEF told
  <1>3. RunInv(run', made + 1)
    BY <1>1, CommentStep
  <1> QED BY <1>1, <1>2, <1>3, LoopStep

(* The history after a message and its comment.                            *)
LEMMA CommentTypes ==
  ASSUME run \in Run, made \in Nat, NEW t \in Turns, NEW a, Comment(a, made + 1, t)
  PROVE  Append(run.history, Assistant(made + 1, t)) \o a \in Seq(Message)
  <1>1. Append(run.history, Assistant(made + 1, t)) \in Seq(Message)
    BY HeardFacts
  <1>2. a \in Seq(Message)
    BY DEF Comment
  <1> QED BY <1>1, <1>2, ConcatProperties

(* An answer without calls.                                                *)
LEMMA AnswersTextStep ==
  ASSUME IInv, NEW t \in Turns, AnswersText(t)
  PROVE  IInv'
  <1>1. run.pc = "call" /\ t = <<>> /\ Emit(t) /\ StepFrame
    BY DEF AnswersText
  <1>2. /\ run \in Run /\ made \in Nat /\ made + 1 \in Nat /\ LiveInv(run, made)
    BY <1>1, LoopFacts DEF Live
  <1>3. /\ Heard(t) \in Run
        /\ Heard(t).history = Append(run.history, Assistant(made + 1, t))
        /\ Heard(t).pc = run.pc /\ Heard(t).kind = run.kind
        /\ Heard(t).base = run.base /\ Heard(t).input = run.input
        /\ Heard(t).prints = run.prints /\ Heard(t).missing = run.missing
        /\ Heard(t).history \in Seq(Message)
    BY <1>2, HeardFacts
  <1>4. ASSUME NEW o \in Outcomes, o # "ask", Ends(Heard(t), o) PROVE IInv'
    BY <1>1, <1>3, <1>4, HeardLast
  <1>5. CASE /\ run.missing < HandoffMaxRetries
             /\ run' = [Heard(t) EXCEPT !.pc = "top", !.missing = @ + 1,
                                        !.history = Append(@, User)]
    <2> DEFINE a == <<User>>
    <2>1. a \in Seq(Message) /\ Comment(a, made + 1, t)
      BY <1>1, MessageTypes DEF Comment
    <2>2. Append(Heard(t).history, User) = Heard(t).history \o a
      BY <1>3, MessageTypes, AppendIsConcat
    <2> HIDE DEF a
    <2>3. Heard(t).history \o a \in Seq(Message)
      BY <1>3, <2>1, ConcatProperties
    <2>4. Heard(t).missing + 1 \in 0 .. HandoffMaxRetries
      <3>1. run.missing \in 0 .. HandoffMaxRetries /\ HandoffMaxRetries \in Nat
        BY <1>2, RunFields, ThresholdAssumption
      <3> QED BY <3>1, <1>3, <1>5
    <2>5. /\ run' \in Run /\ run'.pc = "top"
          /\ run'.base = run.base /\ run'.input = run.input /\ run'.kind = run.kind
          /\ run'.prints = run.prints
          /\ run'.history = Append(run.history, Assistant(made + 1, t)) \o a
      BY <1>3, <1>5, <2>2, <2>3, <2>4 DEF Run
    <2>6. ~IsToolTurn(t) /\ Watched(run)
      BY <1>1, <1>2 DEF IsToolTurn, LiveInv
    <2>7. Watched(run')
      BY <1>2, <2>1, <2>5, <2>6, WatchedOther
    <2> QED BY <1>1, <2>1, <2>5, <2>7, HeardMore
  <1>6. \/ \E o \in Outcomes : o # "ask" /\ Ends(Heard(t), o)
        \/ /\ run.missing < HandoffMaxRetries
           /\ run' = [Heard(t) EXCEPT !.pc = "top", !.missing = @ + 1,
                                      !.history = Append(@, User)]
    BY DEF AnswersText, Outcomes
  <1> QED BY <1>4, <1>5, <1>6

(* A call of conclude.                                                     *)
LEMMA AnswersConcludeStep ==
  ASSUME IInv, NEW t \in Turns, AnswersConclude(t)
  PROVE  IInv'
  <1>1. run.pc = "call" /\ Handoff /\ ToSet(t) \cap Conclude # {} /\ Emit(t) /\ StepFrame
    BY DEF AnswersConclude
  <1>2. /\ run \in Run /\ made \in Nat /\ made + 1 \in Nat /\ LiveInv(run, made)
    BY <1>1, LoopFacts DEF Live
  <1>3. /\ Heard(t) \in Run
        /\ Heard(t).history = Append(run.history, Assistant(made + 1, t))
        /\ Heard(t).pc = run.pc /\ Heard(t).kind = run.kind
        /\ Heard(t).base = run.base /\ Heard(t).input = run.input
        /\ Heard(t).prints = run.prints /\ Heard(t).rejections = run.rejections
        /\ Heard(t).history \in Seq(Message)
    BY <1>2, HeardFacts
  <1>4. ASSUME ~Rejected(t), Ends(Heard(t), Interpret(t)) PROVE IInv'
    <2>1. Interpret(t) \in Outcomes
      BY DEF Interpret, Outcomes
    <2> QED BY <1>1, <1>3, <1>4, <2>1, HeardLast
  <1>5. ASSUME Ends(Heard(t), "failed") PROVE IInv'
    <2>1. "failed" \in Outcomes /\ "failed" # "ask"
      BY DEF Outcomes
    <2> QED BY <1>1, <1>3, <1>5, <2>1, HeardLast
  <1>6. CASE /\ run.rejections < HandoffMaxRetries
             /\ run' = [Heard(t) EXCEPT !.pc = "top", !.rejections = @ + 1,
                                        !.history = @ \o AnswerAll(t)]
    <2>1. Comment(AnswerAll(t), made + 1, t)
      BY <1>2, AnswerAllFacts
    <2>2. Heard(t).history \o AnswerAll(t) \in Seq(Message)
      BY <1>2, <1>3, <2>1, CommentTypes
    <2>3. Heard(t).rejections + 1 \in 0 .. HandoffMaxRetries
      <3>1. run.rejections \in 0 .. HandoffMaxRetries /\ HandoffMaxRetries \in Nat
        BY <1>2, RunFields, ThresholdAssumption
      <3> QED BY <3>1, <1>3, <1>6
    <2>4. /\ run' \in Run /\ run'.pc = "top"
          /\ run'.base = run.base /\ run'.input = run.input /\ run'.kind = run.kind
          /\ run'.prints = run.prints
          /\ run'.history = Append(run.history, Assistant(made + 1, t)) \o AnswerAll(t)
      BY <1>3, <1>6, <2>2, <2>3 DEF Run
    <2>5. ~IsToolTurn(t) /\ Watched(run)
      BY <1>1, <1>2 DEF IsToolTurn, LiveInv
    <2>6. Watched(run')
      BY <1>2, <2>1, <2>4, <2>5, WatchedOther
    <2> QED BY <1>1, <2>1, <2>4, <2>6, HeardMore
  <1> QED BY <1>4, <1>5, <1>6 DEF AnswersConclude

(* Other calls.                                                            *)
LEMMA AnswersToolsStep ==
  ASSUME IInv, NEW t \in Turns, AnswersTools(t)
  PROVE  IInv'
  <1> DEFINE prints == Remember(run.prints, t)
  <1> DEFINE r == [Heard(t) EXCEPT !.prints = prints]
  <1> DEFINE stuck == Len(prints) >= StuckThreshold /\ AllSame(prints)
  <1>1. /\ run.pc = "call" /\ t # <<>> /\ IsToolTurn(t) /\ Emit(t) /\ StepFrame
    BY DEF AnswersTools, IsToolTurn
  <1>2. /\ run # NoRun /\ RunInv(run, made) /\ run \in Run /\ made \in Nat /\ made + 1 \in Nat
        /\ LiveInv(run, made) /\ Given(run, made)
    BY <1>1, LoopFacts DEF Live
  <1>3. /\ Heard(t) \in Run
        /\ Heard(t).history = Append(run.history, Assistant(made + 1, t))
        /\ Heard(t).pc = run.pc /\ Heard(t).kind = run.kind
        /\ Heard(t).base = run.base /\ Heard(t).input = run.input
        /\ Heard(t).history \in Seq(Message)
    BY <1>2, HeardFacts
  <1>4. prints \in Seq(Turns)
    BY <1>2, RunFields, RememberFacts DEF LiveInv, Watched
  <1>5. Watched(run) /\ Len(run.base) < Len(run.history)
    <2>1. Len(run.base) \in Nat /\ Len(run.history) \in Nat
      BY <1>2, RunFields, LenProperties
    <2> QED BY <1>2, <2>1 DEF LiveInv, Given
  <1> HIDE DEF prints
  <1>6. /\ r \in Run /\ r.history = Append(run.history, Assistant(made + 1, t))
        /\ r.base = run.base /\ r.input = run.input /\ r.kind = run.kind
        /\ r.prints = prints /\ r.history \in Seq(Message)
    BY <1>3, <1>4 DEF Run
  <1>7. ASSUME NEW o \in Outcomes, o # "ask", Ends(r, o) PROVE IInv'
    <2> HIDE DEF r
    <2> QED BY <1>1, <1>6, <1>7, HeardLast
  <1>8. CASE ~stuck /\ run' = [r EXCEPT !.pc = "top", !.history = @ \o AnswerAll(t)]
    <2> HIDE DEF stuck
    <2>1. Comment(AnswerAll(t), made + 1, t)
      BY <1>2, AnswerAllFacts
    <2>2. r.history \o AnswerAll(t) \in Seq(Message)
      BY <1>2, <1>6, <2>1, CommentTypes
    <2> HIDE DEF r
    <2>3. /\ run' \in Run /\ run'.pc = "top"
          /\ run'.base = run.base /\ run'.input = run.input /\ run'.kind = run.kind
          /\ run'.prints = prints
          /\ run'.history = Append(run.history, Assistant(made + 1, t)) \o AnswerAll(t)
      BY <1>6, <1>8, <2>2 DEF Run
    <2>4. ~(Len(run'.prints) >= StuckThreshold /\ AllSame(run'.prints))
      BY <1>8, <2>3 DEF stuck
    <2>5. Watched(run')
      BY <1>1, <1>2, <1>5, <2>1, <2>3, <2>4, WatchedTurn DEF prints
    <2> QED BY <1>1, <2>1, <2>3, <2>5, HeardMore
  <1>9. CASE ~stuck /\ run' = [r EXCEPT !.pc = "tools", !.todo = DOMAIN t]
    <2> HIDE DEF stuck
    <2>1. DOMAIN t \in SUBSET (Nat \ {0})
      BY TurnFacts
    <2> HIDE DEF r
    <2>2. /\ run' \in Run /\ run'.pc = "tools" /\ run'.todo = DOMAIN t
          /\ run'.base = run.base /\ run'.input = run.input /\ run'.kind = run.kind
          /\ run'.prints = prints
          /\ run'.history = Append(run.history, Assistant(made + 1, t))
      BY <1>6, <1>9, <2>1 DEF Run
    <2>3. ~(Len(run'.prints) >= StuckThreshold /\ AllSame(run'.prints))
      BY <1>9, <2>2 DEF stuck
    <2>4. Watched(run')
      BY <1>1, <1>2, <1>5, <2>2, <2>3, WatchedTurn DEF prints
    <2>5. RunInv(run', made + 1)
      BY <1>1, <1>2, <2>2, <2>4, ToolsStep
    <2> DEFINE told == Append(Told, Assistant(made + 1, t))
    <2>6. /\ made' = made + 1 /\ made' \in Nat /\ queue' \in Seq(Message)
          /\ messages \o queue' = told /\ Tape(told, made + 1)
          /\ Open(told, made + 1, DOMAIN t)
      BY <1>1, EmitFacts
    <2> HIDE DEF told
    <2> QED BY <1>1, <1>2, <2>2, <2>5, <2>6, LoopStep
  <1>10. \/ \E o \in Outcomes : o # "ask" /\ Ends(r, o)
         \/ ~stuck /\ run' = [r EXCEPT !.pc = "top", !.history = @ \o AnswerAll(t)]
         \/ ~stuck /\ run' = [r EXCEPT !.pc = "tools", !.todo = DOMAIN t]
    <2>1. "failed" \in Outcomes /\ "failed" # "ask"
          /\ "cancelled" \in Outcomes /\ "cancelled" # "ask"
      BY DEF Outcomes
    <2>2. \/ Ends(r, "failed") \/ Ends(r, "cancelled")
          \/ ~stuck /\ run' = [r EXCEPT !.pc = "top", !.history = @ \o AnswerAll(t)]
          \/ ~stuck /\ run' = [r EXCEPT !.pc = "tools", !.todo = DOMAIN t]
      BY Zenon DEF AnswersTools, prints
    <2> QED BY <2>1, <2>2
  <1> QED BY <1>7, <1>8, <1>9, <1>10

(* A tool returns.                                                         *)
LEMMA ToolReturnsStep ==
  ASSUME IInv, ToolReturns
  PROVE  IInv'
  <1>1. run.pc = "tools" /\ made' = made /\ StepFrame
    BY DEF ToolReturns
  <1>2. /\ run # NoRun /\ RunInv(run, made) /\ run \in Run /\ made \in Nat
        /\ LiveInv(run, made) /\ messages \in Seq(Message) /\ queue \in Seq(Message)
        /\ Tape(Told, made) /\ Told = messages \o queue
    BY <1>1, LoopFacts DEF Live
  <1>3. Open(Told, made, run.todo)
    BY <1>1 DEF IInv
  <1> DEFINE c == Min(run.todo)
  <1>4. c \in run.todo /\ c \in Nat \ {0} /\ run.todo \in SUBSET (Nat \ {0})
    <2>1. run.todo \in SUBSET (Nat \ {0}) /\ run.todo # {}
      BY <1>1, <1>2, RunFields DEF LiveInv
    <2>2. c \in run.todo
      BY <2>1, MinFact
    <2> QED BY <2>1, <2>2
  <1> DEFINE m == Result(made, c)
  <1> DEFINE left == run.todo \ {c}
  <1>5. /\ queue' = Append(queue, m)
        /\ run' = [run EXCEPT !.history = Append(@, m), !.todo = left,
                              !.pc = IF left = {} THEN "top" ELSE "tools"]
    BY DEF ToolReturns
  <1>6. m \in Message
    BY <1>2, <1>4, MessageTypes
  <1> HIDE DEF c
  <1>7. /\ run' \in Run /\ run'.pc = (IF left = {} THEN "top" ELSE "tools") /\ run'.todo = left
        /\ run'.base = run.base /\ run'.input = run.input /\ run'.kind = run.kind
        /\ run'.prints = run.prints /\ run'.history = Append(run.history, m)
    <2>1. Append(run.history, m) \in Seq(Message)
      BY <1>2, <1>6, RunFields, AppendProperties
    <2>2. left \in SUBSET (Nat \ {0})
      BY <1>4
    <2> HIDE DEF m, left
    <2> QED BY <1>2, <1>5, <2>1, <2>2 DEF Run
  <1>8. RunInv(run', made)
    BY <1>1, <1>2, <1>4, <1>7, ToolReturnStep
  <1>9. Tape(Append(Told, m), made) /\ Open(Append(Told, m), made, left)
    <2>1. made <= made
      BY <1>2
    <2> QED BY <1>2, <1>3, <1>4, <2>1, TapeResult
  <1>10. queue' \in Seq(Message) /\ messages \o queue' = Append(Told, m)
    BY <1>2, <1>5, <1>6, ToldGrows, AppendProperties
  <1>11. run'.pc # "done"
    BY <1>7
  <1> HIDE DEF m, left
  <1> QED BY <1>1, <1>2, <1>7, <1>8, <1>9, <1>10, <1>11, LoopStep

-----------------------------------------------------------------------------
(* The commands, the journal and the process. *)

(* A run begins, from a conversation at rest.                              *)
LEMMA StartStep ==
  ASSUME IInv, NEW kind \in {"fresh", "reply", "continue"}, NEW base \in Seq(Message),
         NEW input \in Message, StartRun(kind, base, input), queue = <<>>, queue' = queue,
         params' = params, waiting' = waiting, made' = made,
         inputs' \in Nat, cancels' \in Nat, crashes' \in Nat,
         input.role # "assistant", Bounded(Append(base, input), made),
         kind \in {"reply", "continue"} => TailAnswered(base, Append(base, input)),
         Tape(messages', made)
  PROVE  IInv'
  <1>1. made \in Nat /\ messages' \in Seq(Message)
    BY DEF IInv, Types, Tape
  <1>2. 0 \in 0 .. MaxRetries /\ FALSE \in BOOLEAN
    BY ThresholdAssumption
  <1>3. run' = Attempt(kind, base, input, 0, FALSE) /\ actor' = "running"
    BY DEF StartRun
  <1>4. RunInv(run', made)
    BY <1>2, <1>3, AttemptStep
  <1>5. run'.pc = "top"
    BY <1>3 DEF Attempt
  <1>6. RunInv(run, made)'
    BY <1>4, SameParams
  <1>7. Told' = messages'
    BY <1>1, ConcatEmptySeq DEF Told
  <1>8. Types'
    BY <1>1, <1>3 DEF IInv, Types
  <1>9. Shape'
    BY <1>3, <1>5, RunOfNone DEF Shape
  <1> QED BY <1>3, <1>5, <1>6, <1>7, <1>8, <1>9 DEF IInv

(* What the invariant says of a session that has no run.                   *)
LEMMA RestFacts ==
  ASSUME IInv, actor # "running"
  PROVE  /\ run = NoRun /\ queue = <<>> /\ Tape(messages, made) /\ made \in Nat
         /\ messages \in Seq(Message) /\ Bounded(messages, made)
         /\ inputs \in Nat /\ cancels \in Nat /\ crashes \in Nat
  BY ToldAtRest DEF IInv, Types, Shape, Tape

(* A new input.                                                            *)
LEMMA OnRunStep ==
  ASSUME IInv, OnRun
  PROVE  IInv'
  <1>1. /\ actor = "idle" /\ messages' = Append(messages, User) /\ StartRun("fresh", messages, User)
        /\ inputs' = inputs + 1 /\ queue' = queue /\ params' = params /\ waiting' = waiting
        /\ made' = made /\ cancels' = cancels /\ crashes' = crashes
    BY DEF OnRun
  <1>2. /\ queue = <<>> /\ Tape(messages, made) /\ made \in Nat /\ messages \in Seq(Message)
        /\ inputs' \in Nat /\ cancels' \in Nat /\ crashes' \in Nat
    BY <1>1, RestFacts
  <1>3. Tape(messages', made) /\ Bounded(Append(messages, User), made)
    BY <1>1, <1>2, TapeUser DEF Tape
  <1>4. User \in Message /\ User.role # "assistant" /\ "fresh" \notin {"reply", "continue"}
    BY MessageTypes, MessageFields
  <1> QED BY <1>1, <1>2, <1>3, <1>4, StartStep

(* The reply to a question.                                                *)
LEMMA OnInjectToolResultStep ==
  ASSUME IInv, OnInjectToolResult
  PROVE  IInv'
  <1> DEFINE m == Result(waiting.n, waiting.call)
  <1>1. /\ actor = "idle" /\ waiting # NoCall /\ messages' = Append(messages, m)
        /\ StartRun("reply", messages, m)
        /\ inputs' = inputs + 1 /\ queue' = queue /\ params' = params /\ waiting' = waiting
        /\ made' = made /\ cancels' = cancels /\ crashes' = crashes
    BY DEF OnInjectToolResult
  <1>2. /\ queue = <<>> /\ Tape(messages, made) /\ made \in Nat /\ messages \in Seq(Message)
        /\ Bounded(messages, made)
        /\ inputs' \in Nat /\ cancels' \in Nat /\ crashes' \in Nat
    BY <1>1, RestFacts
  <1>3. Asked(messages, waiting) /\ waiting.call \in Nat \ {0}
    BY <1>1 DEF IInv, Types, Call
  <1>4. Open(messages, waiting.n, {waiting.call}) /\ waiting.n \in Nat /\ waiting.n <= made
    BY <1>2, <1>3, AskedIsOpen
  <1>5. Tape(messages', made) /\ Bounded(Append(messages, m), made)
    <2>1. Tape(Append(messages, m), made)
      BY <1>2, <1>3, <1>4, TapeResult
    <2> QED BY <2>1, <1>1 DEF Tape
  <1>6. TailAnswered(messages, Append(messages, m))
    BY <1>2, <1>3, TailReply
  <1>7. m \in Message /\ m.role # "assistant"
    BY <1>3, <1>4, MessageTypes, MessageFields
  <1> HIDE DEF m
  <1> QED BY <1>1, <1>2, <1>5, <1>6, <1>7, StartStep

(* The session is spawned again.                                           *)
LEMMA RecoverStep ==
  ASSUME IInv, Recover
  PROVE  IInv'
  <1>1. /\ actor = "down" /\ messages' = messages /\ queue' = queue /\ params' = params
        /\ waiting' = waiting /\ made' = made /\ inputs' = inputs /\ cancels' = cancels
        /\ crashes' = crashes
    BY DEF Recover
  <1>2. /\ run = NoRun /\ queue = <<>> /\ Tape(messages, made) /\ made \in Nat
        /\ messages \in Seq(Message)
        /\ inputs' \in Nat /\ cancels' \in Nat /\ crashes' \in Nat
    BY <1>1, RestFacts
  <1>3. CASE actor' = "idle" /\ run' = NoRun
    <2>1. waiting' = NoCall
      BY <1>1 DEF IInv, Shape
    <2>2. Types' /\ Shape'
      BY <1>1, <1>2, <1>3 DEF IInv, Types, Shape
    <2>3. Told' = Told
      BY <1>1 DEF Told
    <2> QED BY <1>1, <1>3, <2>1, <2>2, <2>3, RunOfNone DEF IInv
  <1>4. CASE StartRun("continue", Sanitized(messages), User)
    <2> DEFINE b == Sanitized(messages)
    <2>1. b \in Seq(Message) /\ Bounded(b, made) /\ TailAnswered(b, b)
      BY <1>2, TailRecovered
    <2> HIDE DEF b
    <2>2. User \in Message /\ User.role = "user"
      BY MessageTypes, MessageFields
    <2>3. /\ Extends(Append(b, User), b) /\ Len(Append(b, User)) = Len(b) + 1
          /\ Append(b, User)[Len(b) + 1] = User /\ Len(b) \in Nat
      BY <2>1, <2>2, AppendExtends, LenProperties
    <2>4. ASSUME NEW j \in Len(b) + 1 .. Len(Append(b, User))
          PROVE  Append(b, User)[j].role = "user"
      <3>1. j = Len(b) + 1
        BY <2>3
      <3> QED BY <3>1, <2>2, <2>3
    <2>5. Bounded(Append(b, User), made)
      <3>1. made <= made
        BY <1>2
      <3>2. \A j \in Len(b) + 1 .. Len(Append(b, User)) :
              Append(b, User)[j].role # "user" => Append(b, User)[j].n <= made
        BY <2>4
      <3> QED BY <3>1, <3>2, <1>2, <2>1, <2>3, BoundedExtend
    <2>6. TailAnswered(b, Append(b, User))
      <3>1. \A j \in Len(b) + 1 .. Len(Append(b, User)) :
              Append(b, User)[j].role = "tool" => Append(b, User)[j].n > made
        BY <2>4
      <3> QED BY <3>1, <1>2, <2>1, <2>3, TailExtend
    <2>7. Tape(messages', made) /\ StartRun("continue", b, User) /\ User.role # "assistant"
      BY <1>1, <1>2, <1>4, <2>2 DEF b
    <2> QED BY <1>1, <1>2, <2>1, <2>2, <2>5, <2>6, <2>7, StartStep
  <1> QED BY <1>3, <1>4 DEF Recover

(* A run is told to stop.                                                  *)
LEMMA OnCancelStep ==
  ASSUME IInv, OnCancel
  PROVE  IInv'
  <1>1. /\ actor = "running" /\ run' = [run EXCEPT !.cancel = TRUE] /\ cancels' = cancels + 1
        /\ params' = params /\ messages' = messages /\ queue' = queue /\ actor' = actor
        /\ waiting' = waiting /\ made' = made /\ inputs' = inputs /\ crashes' = crashes
    BY DEF OnCancel
  <1>2. run # NoRun /\ RunInv(run, made) /\ run \in Run
    BY <1>1 DEF IInv, Shape, RunInv, Given
  <1>3. /\ run' \in Run /\ run'.pc = run.pc
        /\ run'.base = run.base /\ run'.input = run.input /\ run'.history = run.history
        /\ run'.kind = run.kind /\ run'.prints = run.prints /\ run'.todo = run.todo
        /\ run'.outcome = run.outcome
    BY <1>1, <1>2 DEF Run
  <1>4. run.pc # "none" /\ run'.pc # "none"
    BY <1>2, <1>3, RunFields
  <1>5. RunInv(run', made)
    BY <1>2, <1>3, <1>4, SameStep
  <1>6. RunInv(run, made)'
    BY <1>1, <1>5, SameParams
  <1>7. Types'
    BY <1>1 DEF IInv, Types
  <1>9. Shape'
    <2>1. run' # NoRun
      BY <1>4, RunOfNone
    <2> QED BY <1>1, <2>1 DEF Shape
  <1>8. Told' = Told
    BY <1>1 DEF Told
  <1> QED BY <1>1, <1>3, <1>6, <1>7, <1>8, <1>9 DEF IInv

(* A message reaches the journal.                                          *)
LEMMA OnPersistProgressStep ==
  ASSUME IInv, OnPersistProgress
  PROVE  IInv'
  <1>1. /\ actor = "running" /\ queue # <<>>
        /\ messages' = Append(messages, Head(queue)) /\ queue' = Tail(queue)
        /\ params' = params /\ actor' = actor /\ waiting' = waiting /\ run' = run
        /\ made' = made /\ inputs' = inputs /\ cancels' = cancels /\ crashes' = crashes
    BY DEF OnPersistProgress
  <1>2. messages \in Seq(Message) /\ queue \in Seq(Message)
    BY DEF IInv, Types
  <1>3. /\ Head(queue) \in Message /\ Tail(queue) \in Seq(Message)
        /\ Append(messages, Head(queue)) \o Tail(queue) = messages \o queue
    BY <1>1, <1>2, ToldMoves
  <1>4. Told' = Told
    BY <1>1, <1>3 DEF Told
  <1>5. messages' \in Seq(Message) /\ queue' \in Seq(Message)
    BY <1>1, <1>2, <1>3, AppendProperties
  <1>6. Types' /\ Shape'
    BY <1>1, <1>5 DEF IInv, Types, Shape
  <1>7. run = NoRun \/ RunInv(run, made)'
    BY <1>1, SameParams DEF IInv
  <1> QED BY <1>1, <1>4, <1>6, <1>7 DEF IInv

(* A run is reported.                                                      *)
LEMMA OnRunFinishedStep ==
  ASSUME IInv, OnRunFinished
  PROVE  IInv'
  <1>1. /\ actor = "running" /\ run.pc = "done" /\ queue = <<>>
        /\ actor' = IF run.outcome \in {"ask", "cancelled"} THEN "idle" ELSE "stopped"
        /\ waiting' = IF run.outcome = "ask"
                      THEN ConcludeCall(run.history, Len(run.base)) ELSE NoCall
        /\ run' = NoRun
        /\ params' = params /\ messages' = messages /\ queue' = queue /\ made' = made
        /\ inputs' = inputs /\ cancels' = cancels /\ crashes' = crashes
    BY DEF OnRunFinished
  <1>2. RunInv(run, made) /\ made \in Nat /\ messages \in Seq(Message)
    BY <1>1 DEF IInv, Types, Shape
  <1>3. run.outcome = "ask" => waiting' = [n |-> made, call |-> 1] /\ Asked(messages, waiting')
    BY <1>1, <1>2, ToldAtRest DEF IInv, RunInv
  <1>4. waiting' \in Call \cup {NoCall}
    BY <1>1, <1>2, <1>3 DEF Call
  <1>5. Types' /\ Shape'
    BY <1>1, <1>4 DEF IInv, Types, Shape
  <1>6. Told' = Told
    BY <1>1 DEF Told
  <1>7. actor' = "idle" /\ waiting' # NoCall => Asked(messages', waiting')
    BY <1>1, <1>3
  <1> QED BY <1>1, <1>5, <1>6, <1>7, RunOfNone DEF IInv

(* The process dies.                                                       *)
LEMMA CrashStep ==
  ASSUME IInv, Crash
  PROVE  IInv'
  <1>1. /\ crashes' = crashes + 1 /\ actor' = "down" /\ waiting' = NoCall /\ run' = NoRun
        /\ queue' = <<>> /\ params' = params /\ messages' = messages /\ made' = made
        /\ inputs' = inputs /\ cancels' = cancels
    BY DEF Crash
  <1>2. messages \in Seq(Message) /\ queue \in Seq(Message) /\ <<>> \in Seq(Message)
    BY EmptySeq DEF IInv, Types
  <1>3. Types' /\ Shape'
    BY <1>1, <1>2 DEF IInv, Types, Shape
  <1>4. Told' = messages
    BY <1>1, <1>2, ConcatEmptySeq DEF Told
  <1>5. Tape(messages, made)
    BY <1>2, ConcatExtends, TapePrefix DEF IInv, Told
  <1> QED BY <1>1, <1>3, <1>4, <1>5, RunOfNone DEF IInv

(* Nothing happens.                                                        *)
LEMMA StutterStep ==
  ASSUME IInv, UNCHANGED vars
  PROVE  IInv'
  <1>1. /\ params' = params /\ messages' = messages /\ queue' = queue /\ actor' = actor
        /\ waiting' = waiting /\ run' = run /\ made' = made
        /\ inputs' = inputs /\ cancels' = cancels /\ crashes' = crashes
    BY DEF vars
  <1>2. Types' /\ Shape' /\ Told' = Told
    BY <1>1 DEF IInv, Types, Shape, Told
  <1>3. run = NoRun \/ RunInv(run, made)'
    BY <1>1, SameParams DEF IInv
  <1> QED BY <1>1, <1>2, <1>3 DEF IInv

(* Every step keeps the invariant.                                         *)
LEMMA NextHolds ==
  ASSUME IInv, [Next]_vars
  PROVE  IInv'
  <1>1. CASE RunStep
    <2>1. CASE Answer
      <3>1. PICK t \in Turns : AnswersText(t) \/ AnswersConclude(t) \/ AnswersTools(t)
        BY <2>1 DEF Answer
      <3> QED BY <3>1, AnswersTextStep, AnswersConcludeStep, AnswersToolsStep
    <2> QED BY <1>1, <2>1, BeginTurnStep, ProviderFailsStep, ToolReturnsStep DEF RunStep
  <1> QED BY <1>1, OnRunStep, OnInjectToolResultStep, OnCancelStep, OnPersistProgressStep,
             OnRunFinishedStep, CrashStep, RecoverStep, StutterStep DEF Next

-----------------------------------------------------------------------------
(* The theorems. *)

(* The inductive invariant, of the specification.                          *)
LEMMA Inductive == Spec => []IInv
  <1>1. Init => IInv
    BY InitHolds
  <1>2. IInv /\ [Next]_vars => IInv'
    BY NextHolds
  <1> QED BY <1>1, <1>2, PTL DEF Spec

(* Agent::run keeps the conversation valid: whatever the model answers and *)
(* however often it is nudged, rejected, retried or cancelled, a run asks  *)
(* the provider only with conversations in which each call is answered     *)
(* once and at once, if what it was given is one; and a session that goes  *)
(* on after a question or a restart has answered what it had heard.        *)
THEOREM SessionIsCorrect == Spec => []Inv
  <1>1. IInv => Inv
    BY InvHolds
  <1> QED BY <1>1, Inductive, PTL

(* The AgentActor's journal (PersistProgress, in mailbox order): each      *)
(* result follows the message whose call it answers, and is the only one,  *)
(* across retries, replies, cancellations and crashes.                     *)
THEOREM JournalIsInOrder == Spec => []JournalTellsInOrder
  <1>1. IInv => JournalTellsInOrder
    BY InvHolds
  <1> QED BY <1>1, Inductive, PTL

(* recent_fingerprints sees every repetition: an attempt that made the     *)
(* same calls StuckThreshold times in a row does not go on.                *)
THEOREM StuckRunsAreOver == Spec => []StuckIsOver
  <1>1. IInv => StuckIsOver
    BY InvHolds
  <1> QED BY <1>1, Inductive, PTL
=============================================================================
