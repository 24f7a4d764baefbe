-------------------------- MODULE WorkflowRunProofs --------------------------
(***************************************************************************)
(* What is proved of WorkflowRun, for all definitions, transitions, plans  *)
(* and bounds: the types, that the hand-offs form one chain, and, over a   *)
(* journal that does not fail, that the workflow talks to the agent of the *)
(* session its journal calls current, that every session's journal tells   *)
(* its runs in order and once, that what an agent reports is durable when  *)
(* the workflow hears of it, and that the observer is told of a status     *)
(* before the status is.                                                   *)
(*                                                                         *)
(* The inductive invariant is IInv, below, in three parts.  AgentsInv is   *)
(* about the agents and their runs: an actor that has ended holds nothing, *)
(* and a live run belongs to an actor that is up.  FlowInv is about the    *)
(* workflow: what it is about to persist (Entering, Settling) against the  *)
(* state its log folds to, and that without a child no agent is up.        *)
(* StoryInv needs a journal that works: a session's tape, which is its     *)
(* journal and the entry about to be stored, and its mailbox together hold *)
(* every event its runs have passed on, each once and after the one before *)
(* (Ordered, BoxInv, RunInv), so that the mailbox's order is the journal's.*)
(*                                                                         *)
(* Every step of an agent or a run is Quiet: it touches one session and    *)
(* tells the workflow at most one report, of what is durable already.  The *)
(* workflow's handlers settle, return or enter an agent.                   *)
(***************************************************************************)
EXTENDS WorkflowRun, SequenceTheorems, FiniteSetTheorems, WellFoundedInduction, TLAPS

Kinds    == {"user", "reply", "continue"}
Outcome  == Output \cup {"recoverable", "fatal", "ask", "cancelled"}
EntrySet == [run : Nat, n : Nat, kind : Kinds, tool : Nat]

(* The mailbox of an agent.                                                *)
AgentCommand ==
  [cmd : {"Run", "Cancel"}]
  \cup [cmd : {"InjectToolResult"}, tool : Nat]
  \cup [cmd : {"PersistProgress"}, entry : EntrySet]
  \cup [cmd : {"RunFinished"}, run : Nat, kind : Kinds, sent : Nat, outcome : Outcome]
AgentRec ==
  [phase : {"down", "starting", "ready", "persisting"}, running : Nat,
   eff : Seq(EntrySet), box : Seq(AgentCommand)]

RunRec ==
  [session : Nat, kind : Kinds, sent : Nat, passed : Nat, cancelled : BOOLEAN,
   outcome : Outcome \cup {"none"}]

Reports == {"AgentConcluded", "AgentFailed", "AgentAsked"}
FlowCommand ==
  [cmd : {"Start", "Resume"}]
  \cup [cmd : {"Cancel", "Resume", "Fork"}, session : Nat]
  \cup [cmd : Reports, session : Nat, run : Nat, sent : Nat, kind : Kinds, outcome : Outcome]

Closing == {"WorkflowFinished", "WorkflowSuspended", "WorkflowFailed"}
FlowEvent ==
  [type : Closing \cup {"WorkflowStarted"}]
  \cup [type : {"WorkflowPaused"}, tool : Nat]
  \cup [type : {"AgentStarted"}, agent : Agent, session : Nat]
  \cup [type : {"AgentTransitioned"}, agent : Agent, from : Nat, session : Nat]

Statuses == {"Pending", "Running", "Suspended", "AwaitingUserInput", "Finished", "Failed"}
StateRec == [status : Statuses, agent : Agent \cup {Nobody}, session : Nat, tool : Nat]
FlowRec ==
  [phase : {"down", "ready", "persisting", "stopped"}, child : Nat,
   served : SUBSET Agent, eff : Seq(FlowEvent), stop : BOOLEAN]

-----------------------------------------------------------------------------
(* The types.                                                              *)
AgentTypes ==
  /\ ag \in Seq(AgentRec) /\ hist \in Seq(Seq(EntrySet)) /\ snap \in Seq(Nat)
  /\ nruns \in Nat /\ DOMAIN runs \subseteq 1 .. nruns
  /\ \A r \in DOMAIN runs : runs[r] \in RunRec
FlowTypes ==
  /\ wlog \in Seq(FlowEvent) /\ wf \in FlowRec /\ wbox \in Seq(FlowCommand)
  /\ plan \in Plans /\ ops \in Nat /\ crashes \in Nat

(* Each session has a journal and a snapshot of a part of it.              *)
Lengths == Len(hist) = Len(ag) /\ Len(snap) = Len(ag)
             /\ \A s \in 1 .. Len(ag) : snap[s] <= Len(hist[s])

(* Actors that have ended, and what is going on outside of them.           *)
AgentsRest ==
  \A s \in 1 .. Len(ag) :
    /\ ag[s].phase = "down" => ag[s] = GoneAgent
    /\ ag[s].phase # "persisting" => ag[s].eff = <<>>
RunsLive ==
  \A r \in DOMAIN runs :
    /\ runs[r].session \in 1 .. Len(ag)
    /\ ag[runs[r].session].phase \in {"ready", "persisting"}
    /\ runs[r].passed <= runs[r].sent
NoAgents == DOMAIN runs = {} /\ \A s \in 1 .. Len(ag) : ag[s].phase = "down"
(* Whoever has no child has no agent up.                                   *)
Childless ==
  /\ wf.phase = "down" => NoAgents
  /\ wf.phase \in {"ready", "persisting"} /\ wf.child = 0 => NoAgents

(* What the workflow is about to persist.                                  *)
Started(a, s)      == [type |-> "AgentStarted", agent |-> a, session |-> s]
Handed(a, from, s) == [type |-> "AgentTransitioned", agent |-> a, from |-> from, session |-> s]
Ruled(from, a) == \E t \in DOMAIN Transitions[from] : Transitions[from][t].to = a
Entering ==
  /\ State.session < Len(ag) /\ wf.child = Len(ag)
  /\ \E a \in Agent :
       \/ wf.eff = <<[type |-> "WorkflowStarted"], Started(a, Len(ag))>>
       \/ wf.eff = <<Started(a, Len(ag))>>
       \/ /\ wf.eff = <<Handed(a, State.session, Len(ag)), Started(a, Len(ag))>>
          /\ Ruled(State.agent, a)
Settling ==
  \/ \E t \in Closing : wf.eff = <<[type |-> t]>>
  \/ \E t \in Nat : wf.eff = <<[type |-> "WorkflowPaused", tool |-> t]>>
FlowPersists ==
  IF wf.phase = "persisting" THEN Entering \/ Settling ELSE wf.eff = <<>>
(* The current session exists and has an agent.                            *)
Current ==
  /\ State \in StateRec /\ State.session <= Len(ag)
  /\ State.session # 0 => State.agent \in Agent
  /\ wf.child <= Len(ag)

(* Reports, and forks, are of sessions that exist.                         *)
Addressed ==
  \A i \in 1 .. Len(wbox) :
    wbox[i].cmd \in Reports \cup {"Fork"} => wbox[i].session \in 1 .. Len(ag)

(* No hand-off has left the session that is current.                       *)
Chain ==
  /\ HandOffsChain
  /\ \A i \in 1 .. Len(wlog) :
       wlog[i].type = "AgentTransitioned" => wlog[i].from < State.session

(* Where whatever is to be said is said: every agent has a provider, and a *)
(* fork always finds what it copies.                                       *)
Complete(p) == /\ ~p.snapshots /\ ~p.journalFails
               /\ \A served \in p.configs : Agent \subseteq served
StatusOf(t) == IF t = "WorkflowFinished" THEN "Finished"
               ELSE IF t = "WorkflowSuspended" THEN "Suspended" ELSE "Failed"
(* There, the status about to be persisted has been told.                  *)
Announced ==
  Complete(plan) =>
    /\ wf.phase \in {"ready", "persisting"} => Agent \subseteq wf.served
    /\ wf.phase = "persisting" =>
         /\ \A t \in Closing : wf.eff = <<[type |-> t]>> => told = StatusOf(t)
         /\ \A t \in Nat : wf.eff = <<[type |-> "WorkflowPaused", tool |-> t]>>
              => told = "AwaitingUserInput"

AgentsInv == AgentTypes /\ Lengths /\ AgentsRest /\ RunsLive
FlowInv   == FlowTypes /\ Childless /\ FlowPersists /\ Current /\ Addressed
             /\ Chain /\ Announced

-----------------------------------------------------------------------------
(* One session's journal T and mailbox B.                                  *)

(* The first event a run of the kind persists.                             *)
First(kind) == IF kind = "continue" THEN 1 ELSE 0
(* Event n of run r is journaled, or waits before the k-th command.        *)
Has(T, r, n) == \E j \in 1 .. Len(T) : T[j].run = r /\ T[j].n = n
Waits(B, k, r, n) ==
  \E j \in 1 .. k - 1 : /\ B[j].cmd = "PersistProgress"
                        /\ B[j].entry.run = r /\ B[j].entry.n = n
Due(T, B, k, r, n) == Has(T, r, n) \/ Waits(B, k, r, n)
(* No event is told twice, or before the one it follows.                   *)
Ordered(T) ==
  \A i \in 1 .. Len(T) :
    /\ \A j \in 1 .. Len(T) : T[j].run = T[i].run /\ T[j].n = T[i].n => i = j
    /\ T[i].n > First(T[i].kind) =>
         \E j \in 1 .. i - 1 : T[j].run = T[i].run /\ T[j].n = T[i].n - 1
(* So it will be when the mailbox has been handled, and a run that reports *)
(* its end has passed everything on.                                       *)
BoxInv(T, B) ==
  \A k \in 1 .. Len(B) :
    /\ B[k].cmd = "PersistProgress" =>
         LET e == B[k].entry IN
         /\ ~Due(T, B, k, e.run, e.n)
         /\ e.n > First(e.kind) => Due(T, B, k, e.run, e.n - 1)
    /\ B[k].cmd = "RunFinished" =>
         \A n \in First(B[k].kind) .. B[k].sent : Due(T, B, k, B[k].run, n)
RunsKnown(T, B, N) ==
  /\ \A j \in 1 .. Len(T) : T[j].run <= N
  /\ \A k \in 1 .. Len(B) : B[k].cmd = "PersistProgress" => B[k].entry.run <= N
(* What a run has passed on is on its way, and nothing else of it is.      *)
RunInv(T, B, r, kind, passed) ==
  /\ \A n \in First(kind) .. passed : Due(T, B, Len(B) + 1, r, n)
  /\ \A n \in Nat : Due(T, B, Len(B) + 1, r, n) => n <= passed

(* A session's tape, and all that is said of it.                           *)
Tape(s) == hist[s] \o ag[s].eff
Story(s) ==
  /\ Ordered(Tape(s)) /\ BoxInv(Tape(s), ag[s].box) /\ RunsKnown(Tape(s), ag[s].box, nruns)
  /\ \A r \in DOMAIN runs : runs[r].session = s =>
       RunInv(Tape(s), ag[s].box, r, runs[r].kind, runs[r].passed)
(* What the i-th command of the workflow's mailbox reports is durable.     *)
Told(i) ==
  wbox[i].cmd \in Reports =>
    \A n \in First(wbox[i].kind) .. wbox[i].sent : Has(hist[wbox[i].session], wbox[i].run, n)
Stories == \A s \in 1 .. Len(ag) : Story(s)
AllTold == \A i \in 1 .. Len(wbox) : Told(i)
(* The child is the current session's, or the one about to be entered.     *)
HoldsCurrent ==
  /\ wf.phase \in {"ready", "persisting"} /\ wf.child # 0
  /\ wf.phase = "persisting" => Settling
  => wf.child = State.session
StoryInv == ~plan.journalFails => Stories /\ AllTold /\ HoldsCurrent
IInv     == AgentsInv /\ FlowInv /\ StoryInv

-----------------------------------------------------------------------------
(* Facts of numbers. *)

NatLess == {p \in Nat \X Nat : p[1] < p[2]}

(* The natural numbers are well founded, which stands for induction.       *)
LEMMA NatLessIsWellFounded == IsWellFoundedOn(NatLess, Nat)
  <1>1. IsWellFoundedOn(OpToRel(<, Nat), Nat)
    BY NatLessThanWellFounded
  <1>2. OpToRel(<, Nat) = NatLess
    BY DEF OpToRel, NatLess
  <1> QED BY <1>1, <1>2

(* Induction over a set of numbers: by its least counterexample.           *)
LEMMA Induction ==
  ASSUME NEW S, 0 \in S, \A n \in Nat : n \in S => n + 1 \in S
  PROVE  Nat \subseteq S
  <1> SUFFICES ASSUME Nat \ S # {} PROVE FALSE
    OBVIOUS
  <1>1. IsWellFoundedOn(NatLess, Nat)
    BY NatLessIsWellFounded
  <1>2. Nat \ S \in SUBSET Nat
    OBVIOUS
  <1>3. PICK m \in Nat \ S : \A k \in Nat \ S : ~(<<k, m>> \in NatLess)
    BY <1>1, <1>2, WFMin
  <1>4. m \in Nat /\ m # 0 /\ m - 1 \in Nat /\ m - 1 < m
    OBVIOUS
  <1>5. m - 1 \in S
    <2>1. <<m - 1, m>> \in NatLess
      BY <1>4 DEF NatLess
    <2> QED BY <2>1, <1>3, <1>4
  <1>6. m - 1 + 1 = m
    BY <1>4
  <1> QED BY <1>3, <1>4, <1>5, <1>6

(* Min is an element of a set of numbers.                                  *)
LEMMA MinFact ==
  ASSUME NEW S \in SUBSET Nat, S # {}
  PROVE  Min(S) \in S
  <1>1. IsWellFoundedOn(NatLess, Nat)
    BY NatLessIsWellFounded
  <1>2. PICK x \in S : \A y \in S : ~(<<y, x>> \in NatLess)
    BY <1>1, WFMin
  <1>3. ASSUME NEW y \in S PROVE x <= y
    <2>1. <<y, x>> \in Nat \X Nat /\ ~(<<y, x>> \in NatLess)
      BY <1>2
    <2>2. ~(y < x)
      BY <2>1 DEF NatLess
    <2> QED BY <2>2
  <1>4. \E z \in S : \A y \in S : z <= y
    BY <1>3
  <1> QED BY <1>4 DEF Min

(* What find_next_transition finds is what a rule names.                   *)
LEMMA RuleFound ==
  ASSUME NEW a \in Agent, NEW o, find_next_transition(a, o) # Nobody
  PROVE  Ruled(a, find_next_transition(a, o))
  <1> DEFINE m == Matching(a, o)
  <1>1. m \in SUBSET Nat /\ m \subseteq DOMAIN Transitions[a]
    BY WorkflowAssumption DEF Matching
  <1>2. m # {} /\ find_next_transition(a, o) = Transitions[a][Min(m)].to
    BY DEF find_next_transition
  <1> HIDE DEF m
  <1>3. Min(m) \in DOMAIN Transitions[a]
    BY <1>1, <1>2, MinFact
  <1> QED BY <1>2, <1>3 DEF Ruled

-----------------------------------------------------------------------------
(* The fold of a log. *)

(* The state after i events, from that after those before.                 *)
FoldStep(log, u, i) ==
  IF i = 0 THEN Pending ELSE apply_event(u[i - 1], log[i])

(* The recursion of Folded has a value for each event.                     *)
LEMMA FoldExists ==
  ASSUME NEW log
  PROVE  \A n \in Nat : \E u : u = [i \in 0 .. n |-> FoldStep(log, u, i)]
  <1> DEFINE S == {n \in Nat : \E u : u = [i \in 0 .. n |-> FoldStep(log, u, i)]}
  <1>1. 0 \in S
    <2> DEFINE u == [i \in 0 .. 0 |-> Pending]
    <2>1. u = [i \in 0 .. 0 |-> FoldStep(log, u, i)]
      BY DEF FoldStep
    <2> QED BY <2>1
  <1>2. ASSUME NEW n \in Nat, n \in S PROVE n + 1 \in S
    <2>1. PICK u : u = [i \in 0 .. n |-> FoldStep(log, u, i)]
      BY <1>2
    <2> DEFINE g == [i \in 0 .. n + 1 |-> IF i = n + 1 THEN FoldStep(log, u, i) ELSE u[i]]
    <2>2. ASSUME NEW i \in 0 .. n + 1 PROVE g[i] = FoldStep(log, g, i)
      <3>1. CASE i = 0
        BY <3>1, <2>1 DEF FoldStep
      <3>2. CASE i \in 1 .. n
        <4>1. g[i] = u[i] /\ g[i - 1] = u[i - 1] /\ i # 0
          BY <3>2
        <4>2. u[i] = FoldStep(log, u, i)
          BY <2>1, <3>2
        <4> QED BY <4>1, <4>2 DEF FoldStep
      <3>3. CASE i = n + 1
        <4>1. g[i] = FoldStep(log, u, i) /\ g[i - 1] = u[i - 1] /\ i # 0
          BY <3>3
        <4> QED BY <4>1 DEF FoldStep
      <3> QED BY <3>1, <3>2, <3>3
    <2>3. g = [i \in 0 .. n + 1 |-> FoldStep(log, g, i)]
      BY <2>2
    <2>4. \E e : e = [i \in 0 .. n + 1 |-> FoldStep(log, e, i)]
      <3> HIDE DEF g
      <3> QED BY <2>3
    <2> QED BY <2>4
  <1>3. Nat \subseteq S
    <2> HIDE DEF S
    <2> QED BY <1>1, <1>2, Induction
  <1> QED BY <1>3

(* The state after the first n events.                                     *)
After(log, n) ==
  (CHOOSE u : u = [i \in 0 .. Len(log) |-> FoldStep(log, u, i)])[n]

(* Folded is the state after all events, and After obeys its recursion.    *)
LEMMA FoldIs ==
  ASSUME NEW log \in Seq(FlowEvent)
  PROVE  /\ Folded(log) = After(log, Len(log))
         /\ After(log, 0) = Pending
         /\ \A n \in 1 .. Len(log) : After(log, n) = apply_event(After(log, n - 1), log[n])
  <1> DEFINE L == Len(log)
  <1> DEFINE u == CHOOSE g : g = [i \in 0 .. L |-> FoldStep(log, g, i)]
  <1>1. L \in Nat
    OBVIOUS
  <1>2. u = [i \in 0 .. L |-> FoldStep(log, u, i)]
    <2> HIDE DEF L
    <2>1. \E g : g = [i \in 0 .. L |-> FoldStep(log, g, i)]
      BY <1>1, FoldExists
    <2> QED BY <2>1
  <1>3. Folded(log) = u[L]
    BY DEF Folded, FoldStep
  <1>4. \A n : After(log, n) = u[n]
    BY DEF After
  <1> HIDE DEF u
  <1>5. u[0] = Pending
    BY <1>1, <1>2 DEF FoldStep
  <1>6. ASSUME NEW n \in 1 .. L
        PROVE  u[n] = apply_event(u[n - 1], log[n])
    <2>1. n \in 0 .. L /\ n # 0
      BY <1>1
    <2>2. u[n] = FoldStep(log, u, n)
      BY <1>2, <2>1
    <2> QED BY <2>1, <2>2 DEF FoldStep
  <1> QED BY <1>3, <1>4, <1>5, <1>6

(* The empty log is a pending workflow.                                    *)
LEMMA FoldEmpty == Folded(<<>>) = Pending
  <1>1. <<>> \in Seq(FlowEvent) /\ Len(<<>>) = 0
    BY EmptySeq
  <1>2. Folded(<<>>) = After(<<>>, Len(<<>>)) /\ After(<<>>, 0) = Pending
    BY <1>1, FoldIs
  <1> QED BY <1>1, <1>2

(* One more event is applied to the state before it.                       *)
LEMMA FoldAppend ==
  ASSUME NEW log \in Seq(FlowEvent), NEW e \in FlowEvent
  PROVE  Folded(Append(log, e)) = apply_event(Folded(log), e)
  <1> DEFINE L == Len(log)
  <1> DEFINE g == Append(log, e)
  <1>1. L \in Nat /\ DOMAIN log = 1 .. L
    OBVIOUS
  <1>2. /\ g \in Seq(FlowEvent) /\ Len(g) = L + 1
        /\ g[L + 1] = e /\ \A i \in 1 .. L : g[i] = log[i]
    BY AppendProperties
  <1> HIDE DEF g
  <1> DEFINE S == {n \in Nat : n <= L => After(g, n) = After(log, n)}
  <1>3. 0 \in S
    <2>1. After(log, 0) = Pending
      BY FoldIs
    <2>2. After(g, 0) = Pending
      BY <1>2, FoldIs
    <2> QED BY <2>1, <2>2
  <1>4. ASSUME NEW k \in 1 .. L, After(g, k - 1) = After(log, k - 1)
        PROVE  After(g, k) = After(log, k)
    <2>1. k \in 1 .. Len(g)
      BY <1>1, <1>2
    <2>2. After(log, k) = apply_event(After(log, k - 1), log[k])
      BY FoldIs
    <2>3. After(g, k) = apply_event(After(g, k - 1), g[k])
      BY <2>1, <1>2, FoldIs
    <2> QED BY <2>2, <2>3, <1>2, <1>4
  <1>5. ASSUME NEW n \in Nat, n \in S PROVE n + 1 \in S
    <2> SUFFICES ASSUME n + 1 <= L PROVE After(g, n + 1) = After(log, n + 1)
      OBVIOUS
    <2>1. n + 1 \in 1 .. L /\ n + 1 - 1 = n /\ After(g, n) = After(log, n)
      BY <1>1, <1>5
    <2> HIDE DEF L
    <2> QED BY <2>1, <1>4
  <1>6. Nat \subseteq S
    <2> HIDE DEF S
    <2> QED BY <1>3, <1>5, Induction
  <1>7. After(g, L) = Folded(log)
    <2>1. Folded(log) = After(log, L)
      BY FoldIs
    <2> QED BY <2>1, <1>1, <1>6
  <1>8. Folded(g) = apply_event(After(g, L), e)
    <2> DEFINE k == L + 1
    <2>1. k \in 1 .. Len(g) /\ k - 1 = L /\ Len(g) = k /\ g[k] = e
      BY <1>1, <1>2
    <2>2. Folded(g) = After(g, Len(g))
      BY <1>2, FoldIs
    <2>3. After(g, k) = apply_event(After(g, k - 1), g[k])
      <3> HIDE DEF k
      <3> QED BY <2>1, <1>2, FoldIs
    <2> QED BY <2>1, <2>2, <2>3
  <1> QED BY <1>7, <1>8 DEF g

(* The events the handlers persist.                                        *)
LEMMA EventTypes ==
  /\ \A t \in Closing \cup {"WorkflowStarted"} : [type |-> t] \in FlowEvent
  /\ \A tool \in Nat : [type |-> "WorkflowPaused", tool |-> tool] \in FlowEvent
  /\ \A a \in Agent, s \in Nat : Started(a, s) \in FlowEvent
  /\ \A a \in Agent, from \in Nat, s \in Nat : Handed(a, from, s) \in FlowEvent
  BY DEF FlowEvent, Started, Handed

(* The initial state of a workflow.                                        *)
LEMMA PendingType == Pending \in StateRec /\ Pending.session = 0
  BY DEF Pending, StateRec, Statuses

(* A closing event sets the status and nothing else.                       *)
LEMMA ApplyClosing ==
  ASSUME NEW st \in StateRec, NEW t \in Closing
  PROVE  LET after == apply_event(st, [type |-> t])
         IN  /\ after \in StateRec /\ after.status = StatusOf(t)
             /\ after.session = st.session /\ after.agent = st.agent
  <1> DEFINE e == [type |-> t]
  <1>1. e.type = t
    OBVIOUS
  <1> HIDE DEF e
  <1>2. CASE t = "WorkflowFinished"
    BY <1>1, <1>2 DEF apply_event, StateRec, Statuses, StatusOf
  <1>3. CASE t = "WorkflowSuspended"
    BY <1>1, <1>3 DEF apply_event, StateRec, Statuses, StatusOf
  <1>4. CASE t = "WorkflowFailed"
    BY <1>1, <1>4 DEF apply_event, StateRec, Statuses, StatusOf
  <1> QED BY <1>2, <1>3, <1>4 DEF Closing, e

(* A pause keeps the session and notes the question.                       *)
LEMMA ApplyPaused ==
  ASSUME NEW st \in StateRec, NEW tool \in Nat
  PROVE  LET after == apply_event(st, [type |-> "WorkflowPaused", tool |-> tool])
         IN  /\ after \in StateRec /\ after.status = "AwaitingUserInput"
             /\ after.session = st.session /\ after.agent = st.agent
  BY DEF apply_event, StateRec, Statuses

(* The start of the workflow has no session yet.                          *)
LEMMA ApplyStarted ==
  ASSUME NEW st \in StateRec
  PROVE  LET after == apply_event(st, [type |-> "WorkflowStarted"])
         IN  /\ after \in StateRec /\ after.status = "Running"
             /\ after.session = st.session /\ after.agent = st.agent
  BY DEF apply_event, StateRec, Statuses

(* The start of an agent makes its session the current one.               *)
LEMMA ApplyEntered ==
  ASSUME NEW st \in StateRec, NEW a \in Agent, NEW s \in Nat
  PROVE  LET after == apply_event(st, Started(a, s))
         IN  /\ after \in StateRec /\ after.status = "Running"
             /\ after.session = s /\ after.agent = a
  BY DEF apply_event, StateRec, Statuses, Started

(* So does the hand-off to it.                                            *)
LEMMA ApplyHanded ==
  ASSUME NEW st \in StateRec, NEW a \in Agent, NEW from \in Nat, NEW s \in Nat
  PROVE  LET after == apply_event(st, Handed(a, from, s))
         IN  /\ after \in StateRec /\ after.status = "Running"
             /\ after.session = s /\ after.agent = a
  BY DEF apply_event, StateRec, Statuses, Handed

(* A log with one or two more events.                                      *)
LEMMA FoldTwo ==
  ASSUME NEW log \in Seq(FlowEvent), NEW e \in FlowEvent, NEW f \in FlowEvent
  PROVE  /\ log \o <<e>> = Append(log, e)
         /\ log \o <<e, f>> = Append(Append(log, e), f)
         /\ Folded(log \o <<e>>) = apply_event(Folded(log), e)
         /\ Folded(log \o <<e, f>>) = apply_event(apply_event(Folded(log), e), f)
  <1>1. log \o <<e>> = Append(log, e)
    BY AppendIsConcat
  <1>2. /\ Append(log, e) \in Seq(FlowEvent)
        /\ Folded(Append(log, e)) = apply_event(Folded(log), e)
    BY FoldAppend, AppendProperties
  <1>3. Folded(Append(Append(log, e), f)) = apply_event(Folded(Append(log, e)), f)
    BY <1>2, FoldAppend
  <1>4. log \o <<e, f>> = Append(Append(log, e), f)
    <2>1. Append(Append(log, e), f) = (log \o <<e>>) \o <<f>>
      BY <1>1, <1>2, AppendIsConcat
    <2>2. (log \o <<e>>) \o <<f>> = log \o (<<e>> \o <<f>>)
      <3>1. <<e>> \in Seq(FlowEvent) /\ <<f>> \in Seq(FlowEvent)
        OBVIOUS
      <3> QED BY <3>1, ConcatAssociative
    <2>3. <<e>> \o <<f>> = <<e, f>>
      <3>1. Append(<<e>>, f) = <<e, f>>
        <4>1. <<e>> \in Seq(FlowEvent) /\ Len(<<e>>) = 1 /\ <<e>>[1] = e
          OBVIOUS
        <4>2. /\ Append(<<e>>, f) \in Seq(FlowEvent) /\ Len(Append(<<e>>, f)) = 2
              /\ Append(<<e>>, f)[1] = e /\ Append(<<e>>, f)[2] = f
          BY <4>1, AppendProperties
        <4>3. /\ <<e, f>> \in Seq(FlowEvent) /\ Len(<<e, f>>) = 2
              /\ <<e, f>>[1] = e /\ <<e, f>>[2] = f
          OBVIOUS
        <4>4. \A i \in 1 .. 2 : Append(<<e>>, f)[i] = <<e, f>>[i]
          BY <4>2, <4>3
        <4> HIDE DEF FlowEvent
        <4> QED BY <4>2, <4>3, <4>4, SeqEqual
      <3>2. <<e>> \in Seq(FlowEvent)
        OBVIOUS
      <3>3. Append(<<e>>, f) = <<e>> \o <<f>>
        BY <3>2, AppendIsConcat
      <3> QED BY <3>1, <3>3
    <2> QED BY <2>1, <2>2, <2>3
  <1> QED BY <1>1, <1>2, <1>3, <1>4

-----------------------------------------------------------------------------
(* One journal and one mailbox. *)

(* The mailbox's commands and their fields.                                *)
LEMMA CommandFacts ==
  ASSUME NEW c \in AgentCommand
  PROVE  /\ c.cmd = "PersistProgress" => c.entry \in EntrySet
         /\ c.cmd = "RunFinished" => c.run \in Nat /\ c.sent \in Nat /\ c.kind \in Kinds
                                     /\ c.outcome \in Outcome
         /\ c.cmd = "InjectToolResult" => c.tool \in Nat
         /\ c.cmd \in {"Run", "Cancel", "InjectToolResult", "PersistProgress", "RunFinished"}
  BY DEF AgentCommand

(* c carries the n-th event of run r.                                      *)
Carries(c, r, n) == c.cmd = "PersistProgress" /\ c.entry.run = r /\ c.entry.n = n

(* A journal with one entry more.                                          *)
LEMMA HasAppend ==
  ASSUME NEW T \in Seq(EntrySet), NEW e \in EntrySet
  PROVE  /\ Append(T, e) \in Seq(EntrySet)
         /\ \A r, n : Has(Append(T, e), r, n) <=> Has(T, r, n) \/ (e.run = r /\ e.n = n)
  <1> DEFINE g == Append(T, e)
  <1>1. /\ g \in Seq(EntrySet) /\ Len(g) = Len(T) + 1 /\ Len(T) \in Nat
        /\ \A i \in 1 .. Len(T) : g[i] = T[i]
        /\ g[Len(T) + 1] = e
    BY AppendProperties
  <1> HIDE DEF g
  <1>2. \A i \in 1 .. Len(g) : i \in 1 .. Len(T) \/ i = Len(T) + 1
    BY <1>1
  <1>3. Len(T) + 1 \in 1 .. Len(g) /\ 1 .. Len(T) \subseteq 1 .. Len(g)
    BY <1>1
  <1>4. ASSUME NEW r, NEW n PROVE Has(g, r, n) <=> Has(T, r, n) \/ (e.run = r /\ e.n = n)
    BY <1>1, <1>2, <1>3 DEF Has
  <1> QED BY <1>1, <1>4 DEF g

(* A mailbox with one command more.                                        *)
LEMMA WaitsAppend ==
  ASSUME NEW B \in Seq(AgentCommand), NEW c \in AgentCommand
  PROVE  LET D == Append(B, c) IN
         /\ D \in Seq(AgentCommand) /\ Len(D) = Len(B) + 1
         /\ \A i \in 1 .. Len(B) : D[i] = B[i]
         /\ D[Len(B) + 1] = c
         /\ \A k \in 1 .. Len(B) + 1 : \A r, n : Waits(D, k, r, n) <=> Waits(B, k, r, n)
         /\ \A r, n : Waits(D, Len(D) + 1, r, n) <=>
                        Waits(B, Len(B) + 1, r, n) \/ Carries(c, r, n)
  <1> DEFINE D == Append(B, c)
  <1> DEFINE L == Len(B)
  <1>1. /\ D \in Seq(AgentCommand) /\ Len(D) = L + 1 /\ L \in Nat
        /\ \A i \in 1 .. L : D[i] = B[i]
        /\ D[L + 1] = c
    BY AppendProperties
  <1> HIDE DEF D, L
  <1>2. ASSUME NEW k \in 1 .. L + 1, NEW r, NEW n
        PROVE  Waits(D, k, r, n) <=> Waits(B, k, r, n)
    <2>1. \A j \in 1 .. k - 1 : D[j] = B[j]
      BY <1>1
    <2> QED BY <2>1 DEF Waits
  <1>3. ASSUME NEW r, NEW n
        PROVE  Waits(D, Len(D) + 1, r, n) <=> Waits(B, L + 1, r, n) \/ Carries(c, r, n)
    <2>1. Len(D) + 1 - 1 = L + 1 /\ L + 1 - 1 = L
      BY <1>1
    <2>2. \A j \in 1 .. L + 1 : j \in 1 .. L \/ j = L + 1
      BY <1>1
    <2>3. L + 1 \in 1 .. L + 1 /\ 1 .. L \subseteq 1 .. L + 1
      BY <1>1
    <2>4. Waits(D, Len(D) + 1, r, n) <=> \E j \in 1 .. L + 1 : Carries(D[j], r, n)
      BY <2>1 DEF Waits, Carries
    <2>5. Waits(B, L + 1, r, n) <=> \E j \in 1 .. L : Carries(B[j], r, n)
      <3> DEFINE k == L + 1
      <3>1. k - 1 = L
        BY <1>1
      <3> HIDE DEF k
      <3>2. Waits(B, k, r, n) <=> \E j \in 1 .. L : Carries(B[j], r, n)
        BY <3>1 DEF Waits, Carries
      <3> QED BY <3>2 DEF k
    <2>6. \A j \in 1 .. L : Carries(D[j], r, n) <=> Carries(B[j], r, n)
      BY <1>1
    <2>7. Carries(D[L + 1], r, n) <=> Carries(c, r, n)
      BY <1>1
    <2>8. (\E j \in 1 .. L + 1 : Carries(D[j], r, n)) <=>
            (\E j \in 1 .. L : Carries(D[j], r, n)) \/ Carries(D[L + 1], r, n)
      BY <2>2, <2>3
    <2> QED BY <2>4, <2>5, <2>6, <2>7, <2>8
  <1> QED BY <1>1, <1>2, <1>3 DEF D, L

(* A mailbox without its first command.                                    *)
LEMMA WaitsTail ==
  ASSUME NEW B \in Seq(AgentCommand), B # <<>>
  PROVE  LET D == Tail(B) IN
         /\ D \in Seq(AgentCommand) /\ Len(D) = Len(B) - 1 /\ Head(B) = B[1]
         /\ B[1] \in AgentCommand /\ Len(B) \in Nat /\ Len(B) >= 1
         /\ \A i \in 1 .. Len(D) : D[i] = B[i + 1]
         /\ \A k \in 1 .. Len(D) + 1 : \A r, n :
              Waits(B, k + 1, r, n) <=> Waits(D, k, r, n) \/ Carries(B[1], r, n)
  <1> DEFINE D == Tail(B)
  <1>1. /\ D \in Seq(AgentCommand) /\ Len(D) = Len(B) - 1 /\ Head(B) = B[1]
        /\ \A i \in 1 .. Len(D) : D[i] = B[i + 1]
    BY HeadTailProperties
  <1>2. Len(B) \in Nat /\ Len(B) >= 1 /\ B[1] \in AgentCommand
    BY EmptySeq
  <1> HIDE DEF D
  <1>3. ASSUME NEW k \in 1 .. Len(D) + 1, NEW r, NEW n
        PROVE  Waits(B, k + 1, r, n) <=> Waits(D, k, r, n) \/ Carries(B[1], r, n)
    <2>1. Waits(B, k + 1, r, n) <=> \E j \in 1 .. k : Carries(B[j], r, n)
      <3>1. k + 1 - 1 = k
        BY <1>1, <1>2
      <3> QED BY <3>1 DEF Waits, Carries
    <2>2. Waits(D, k, r, n) <=> \E j \in 1 .. k - 1 : Carries(D[j], r, n)
      BY DEF Waits, Carries
    <2>3. \A j \in 1 .. k - 1 : j + 1 \in 1 .. k /\ D[j] = B[j + 1]
      BY <1>1, <1>2
    <2>4. \A j \in 1 .. k : j = 1 \/ (j - 1 \in 1 .. k - 1 /\ D[j - 1] = B[j])
      <3> TAKE j \in 1 .. k
      <3> SUFFICES ASSUME j # 1 PROVE j - 1 \in 1 .. k - 1 /\ D[j - 1] = B[j]
        OBVIOUS
      <3>1. j - 1 \in 1 .. k - 1 /\ j - 1 \in 1 .. Len(D) /\ j - 1 + 1 = j
        BY <1>1, <1>2
      <3> QED BY <3>1, <1>1
    <2>5. 1 \in 1 .. k
      BY <1>1, <1>2
    <2> QED BY <2>1, <2>2, <2>3, <2>4, <2>5
  <1> QED BY <1>1, <1>2, <1>3 DEF D

(* Journal, mailbox and runs of a session, when a command that carries no  *)
(* event is taken.                                                         *)
LEMMA TakeOther ==
  ASSUME NEW T \in Seq(EntrySet), NEW B \in Seq(AgentCommand), B # <<>>,
         B[1].cmd # "PersistProgress"
  PROVE  /\ BoxInv(T, B) => BoxInv(T, Tail(B))
         /\ \A N : RunsKnown(T, B, N) => RunsKnown(T, Tail(B), N)
         /\ \A r, kind, passed : RunInv(T, B, r, kind, passed) => RunInv(T, Tail(B), r, kind, passed)
  <1> DEFINE D == Tail(B)
  <1>1. /\ D \in Seq(AgentCommand) /\ Len(D) = Len(B) - 1
        /\ Len(B) \in Nat /\ Len(B) >= 1
        /\ \A i \in 1 .. Len(D) : D[i] = B[i + 1]
        /\ \A k \in 1 .. Len(D) + 1 : \A r, n :
              Waits(B, k + 1, r, n) <=> Waits(D, k, r, n) \/ Carries(B[1], r, n)
    BY WaitsTail
  <1> HIDE DEF D
  <1>2. \A k \in 1 .. Len(D) + 1 : \A r, n : Due(T, B, k + 1, r, n) <=> Due(T, D, k, r, n)
    BY <1>1 DEF Due, Carries
  <1>3. \A k \in 1 .. Len(D) : k \in 1 .. Len(D) + 1 /\ k + 1 \in 1 .. Len(B)
    BY <1>1
  <1>4. ASSUME BoxInv(T, B) PROVE BoxInv(T, D)
    <2> SUFFICES ASSUME NEW k \in 1 .. Len(D)
        PROVE /\ D[k].cmd = "PersistProgress" =>
                   /\ ~Due(T, D, k, D[k].entry.run, D[k].entry.n)
                   /\ D[k].entry.n > First(D[k].entry.kind) =>
                        Due(T, D, k, D[k].entry.run, D[k].entry.n - 1)
              /\ D[k].cmd = "RunFinished" =>
                   \A n \in First(D[k].kind) .. D[k].sent : Due(T, D, k, D[k].run, n)
      BY DEF BoxInv
    <2>1. D[k] = B[k + 1] /\ k + 1 \in 1 .. Len(B) /\ k \in 1 .. Len(D) + 1
      BY <1>1, <1>3
    <2>2. /\ B[k + 1].cmd = "PersistProgress" =>
               /\ ~Due(T, B, k + 1, B[k + 1].entry.run, B[k + 1].entry.n)
               /\ B[k + 1].entry.n > First(B[k + 1].entry.kind) =>
                    Due(T, B, k + 1, B[k + 1].entry.run, B[k + 1].entry.n - 1)
          /\ B[k + 1].cmd = "RunFinished" =>
               \A n \in First(B[k + 1].kind) .. B[k + 1].sent : Due(T, B, k + 1, B[k + 1].run, n)
      BY <2>1, <1>4 DEF BoxInv
    <2> QED BY <2>1, <2>2, <1>2
  <1>5. ASSUME NEW N, RunsKnown(T, B, N) PROVE RunsKnown(T, D, N)
    BY <1>1, <1>3, <1>5 DEF RunsKnown
  <1>6. ASSUME NEW r, NEW kind, NEW passed, RunInv(T, B, r, kind, passed)
        PROVE  RunInv(T, D, r, kind, passed)
    <2>1. Len(D) + 1 \in 1 .. Len(D) + 1 /\ Len(D) + 1 + 1 = Len(B) + 1
      BY <1>1
    <2>2. \A n : Due(T, B, Len(B) + 1, r, n) <=> Due(T, D, Len(D) + 1, r, n)
      BY <2>1, <1>2
    <2> QED BY <2>2, <1>6 DEF RunInv
  <1> QED BY <1>4, <1>5, <1>6 DEF D

(* When an event is taken from the mailbox and written down: the journal's *)
(* order is that of the mailbox.                                           *)
LEMMA TakeProgress ==
  ASSUME NEW T \in Seq(EntrySet), NEW B \in Seq(AgentCommand), B # <<>>,
         B[1].cmd = "PersistProgress"
  PROVE  LET U == Append(T, B[1].entry) IN
         /\ U \in Seq(EntrySet)
         /\ Ordered(T) /\ BoxInv(T, B) => Ordered(U) /\ BoxInv(U, Tail(B))
         /\ \A N : RunsKnown(T, B, N) => RunsKnown(U, Tail(B), N)
         /\ \A r, kind, passed : RunInv(T, B, r, kind, passed) => RunInv(U, Tail(B), r, kind, passed)
  <1> DEFINE D == Tail(B)
  <1> DEFINE e == B[1].entry
  <1> DEFINE U == Append(T, e)
  <1>1. /\ D \in Seq(AgentCommand) /\ Len(D) = Len(B) - 1
        /\ Len(B) \in Nat /\ Len(B) >= 1 /\ B[1] \in AgentCommand
        /\ \A i \in 1 .. Len(D) : D[i] = B[i + 1]
        /\ \A k \in 1 .. Len(D) + 1 : \A r, n :
              Waits(B, k + 1, r, n) <=> Waits(D, k, r, n) \/ Carries(B[1], r, n)
    BY WaitsTail
  <1>2. e \in EntrySet
    BY <1>1, CommandFacts
  <1>3. \A r, n : Carries(B[1], r, n) <=> e.run = r /\ e.n = n
    BY DEF Carries
  <1>4. 1 \in 1 .. Len(B)
    BY <1>1
  <1> HIDE DEF e
  <1>5. U \in Seq(EntrySet) /\ \A r, n : Has(U, r, n) <=> Has(T, r, n) \/ (e.run = r /\ e.n = n)
    BY <1>2, HasAppend
  <1>6. /\ Len(U) = Len(T) + 1 /\ Len(T) \in Nat
        /\ \A i \in 1 .. Len(T) : U[i] = T[i]
        /\ U[Len(T) + 1] = e
    BY <1>2, AppendProperties
  <1> HIDE DEF D, U
  <1>7. \A k \in 1 .. Len(D) + 1 : \A r, n : Due(T, B, k + 1, r, n) <=> Due(U, D, k, r, n)
    BY <1>1, <1>3, <1>5 DEF Due
  <1>8. \A k \in 1 .. Len(D) : k \in 1 .. Len(D) + 1 /\ k + 1 \in 1 .. Len(B)
    BY <1>1
  <1>9. ASSUME BoxInv(T, B) PROVE BoxInv(U, D)
    <2> SUFFICES ASSUME NEW k \in 1 .. Len(D)
        PROVE /\ D[k].cmd = "PersistProgress" =>
                   /\ ~Due(U, D, k, D[k].entry.run, D[k].entry.n)
                   /\ D[k].entry.n > First(D[k].entry.kind) =>
                        Due(U, D, k, D[k].entry.run, D[k].entry.n - 1)
              /\ D[k].cmd = "RunFinished" =>
                   \A n \in First(D[k].kind) .. D[k].sent : Due(U, D, k, D[k].run, n)
      BY DEF BoxInv
    <2>1. D[k] = B[k + 1] /\ k + 1 \in 1 .. Len(B) /\ k \in 1 .. Len(D) + 1
      BY <1>1, <1>8
    <2>2. /\ B[k + 1].cmd = "PersistProgress" =>
               /\ ~Due(T, B, k + 1, B[k + 1].entry.run, B[k + 1].entry.n)
               /\ B[k + 1].entry.n > First(B[k + 1].entry.kind) =>
                    Due(T, B, k + 1, B[k + 1].entry.run, B[k + 1].entry.n - 1)
          /\ B[k + 1].cmd = "RunFinished" =>
               \A n \in First(B[k + 1].kind) .. B[k + 1].sent : Due(T, B, k + 1, B[k + 1].run, n)
      BY <2>1, <1>9 DEF BoxInv
    <2> QED BY <2>1, <2>2, <1>7
  <1>10. ASSUME NEW N, RunsKnown(T, B, N) PROVE RunsKnown(U, D, N)
    <2>1. e.run <= N
      BY <1>10, <1>4 DEF RunsKnown, e
    <2>2. \A j \in 1 .. Len(U) : U[j].run <= N
      <3> TAKE j \in 1 .. Len(U)
      <3>1. j \in 1 .. Len(T) \/ j = Len(T) + 1
        BY <1>6
      <3>2. CASE j \in 1 .. Len(T)
        BY <3>2, <1>6, <1>10 DEF RunsKnown
      <3>3. CASE j = Len(T) + 1
        BY <3>3, <2>1, <1>6
      <3> QED BY <3>1, <3>2, <3>3
    <2>3. \A k \in 1 .. Len(D) : D[k].cmd = "PersistProgress" => D[k].entry.run <= N
      BY <1>1, <1>8, <1>10 DEF RunsKnown
    <2> QED BY <2>2, <2>3 DEF RunsKnown
  <1>11. ASSUME NEW r, NEW kind, NEW passed, RunInv(T, B, r, kind, passed)
         PROVE  RunInv(U, D, r, kind, passed)
    <2>1. Len(D) + 1 \in 1 .. Len(D) + 1 /\ Len(D) + 1 + 1 = Len(B) + 1
      BY <1>1
    <2>2. \A n : Due(T, B, Len(B) + 1, r, n) <=> Due(U, D, Len(D) + 1, r, n)
      BY <2>1, <1>7
    <2> QED BY <2>2, <1>11 DEF RunInv
  <1>12. ASSUME Ordered(T), BoxInv(T, B) PROVE Ordered(U)
    <2>1. ~Due(T, B, 1, e.run, e.n) /\ (e.n > First(e.kind) => Due(T, B, 1, e.run, e.n - 1))
      BY <1>4, <1>12 DEF BoxInv, e
    <2>2. \A r, n : Due(T, B, 1, r, n) <=> Has(T, r, n)
      BY DEF Due, Waits
    <2>3. ~Has(T, e.run, e.n) /\ (e.n > First(e.kind) => Has(T, e.run, e.n - 1))
      BY <2>1, <2>2
    <2>4. ASSUME NEW i \in 1 .. Len(U), NEW j \in 1 .. Len(U),
                 U[j].run = U[i].run, U[j].n = U[i].n
          PROVE  i = j
      <3>1. /\ i \in 1 .. Len(T) \/ i = Len(T) + 1
            /\ j \in 1 .. Len(T) \/ j = Len(T) + 1
        BY <1>6
      <3>2. CASE i \in 1 .. Len(T) /\ j \in 1 .. Len(T)
        BY <3>2, <2>4, <1>6, <1>12 DEF Ordered
      <3>3. CASE i \in 1 .. Len(T) /\ j = Len(T) + 1
        BY <3>3, <2>3, <2>4, <1>6 DEF Has
      <3>4. CASE i = Len(T) + 1 /\ j \in 1 .. Len(T)
        BY <3>4, <2>3, <2>4, <1>6 DEF Has
      <3> QED BY <3>1, <3>2, <3>3, <3>4
    <2>5. ASSUME NEW i \in 1 .. Len(U), U[i].n > First(U[i].kind)
          PROVE  \E j \in 1 .. i - 1 : U[j].run = U[i].run /\ U[j].n = U[i].n - 1
      <3>1. i \in 1 .. Len(T) \/ i = Len(T) + 1
        BY <1>6
      <3>2. CASE i \in 1 .. Len(T)
        <4>1. U[i] = T[i]
          BY <3>2, <1>6
        <4>2. PICK j \in 1 .. i - 1 : T[j].run = T[i].run /\ T[j].n = T[i].n - 1
          BY <4>1, <3>2, <2>5, <1>12 DEF Ordered
        <4>3. j \in 1 .. Len(T)
          BY <3>2, <1>6
        <4> QED BY <4>1, <4>2, <4>3, <1>6
      <3>3. CASE i = Len(T) + 1
        <4>1. PICK j \in 1 .. Len(T) : T[j].run = e.run /\ T[j].n = e.n - 1
          BY <3>3, <2>3, <2>5, <1>6 DEF Has
        <4>2. j \in 1 .. i - 1 /\ U[i] = e
          BY <3>3, <1>6
        <4> QED BY <4>1, <4>2, <1>6
      <3> QED BY <3>1, <3>2, <3>3
    <2> QED BY <2>4, <2>5 DEF Ordered
  <1> QED BY <1>5, <1>9, <1>10, <1>11, <1>12 DEF D, U, e

(* A command that carries no event is put into the mailbox; the end of a   *)
(* run when all its events are there.                                      *)
LEMMA PushOther ==
  ASSUME NEW T \in Seq(EntrySet), NEW B \in Seq(AgentCommand), NEW c \in AgentCommand,
         c.cmd # "PersistProgress",
         c.cmd = "RunFinished" =>
           \A n \in First(c.kind) .. c.sent : Due(T, B, Len(B) + 1, c.run, n)
  PROVE  /\ BoxInv(T, B) => BoxInv(T, Append(B, c))
         /\ \A N : RunsKnown(T, B, N) => RunsKnown(T, Append(B, c), N)
         /\ \A r, kind, passed :
              RunInv(T, B, r, kind, passed) => RunInv(T, Append(B, c), r, kind, passed)
  <1> DEFINE D == Append(B, c)
  <1>1. /\ D \in Seq(AgentCommand) /\ Len(D) = Len(B) + 1 /\ Len(B) \in Nat
        /\ \A i \in 1 .. Len(B) : D[i] = B[i]
        /\ D[Len(B) + 1] = c
        /\ \A k \in 1 .. Len(B) + 1 : \A r, n : Waits(D, k, r, n) <=> Waits(B, k, r, n)
        /\ \A r, n : Waits(D, Len(D) + 1, r, n) <=>
                       Waits(B, Len(B) + 1, r, n) \/ Carries(c, r, n)
    BY WaitsAppend
  <1> HIDE DEF D
  <1>2. \A k \in 1 .. Len(B) + 1 : \A r, n : Due(T, D, k, r, n) <=> Due(T, B, k, r, n)
    BY <1>1 DEF Due
  <1>3. \A r, n : Due(T, D, Len(D) + 1, r, n) <=> Due(T, B, Len(B) + 1, r, n)
    BY <1>1 DEF Due, Carries
  <1>4. \A k \in 1 .. Len(D) : k \in 1 .. Len(B) \/ k = Len(B) + 1
    BY <1>1
  <1>5. \A k \in 1 .. Len(B) : k \in 1 .. Len(B) + 1
    BY <1>1
  <1>6. ASSUME BoxInv(T, B) PROVE BoxInv(T, D)
    <2> SUFFICES ASSUME NEW k \in 1 .. Len(D)
        PROVE /\ D[k].cmd = "PersistProgress" =>
                   /\ ~Due(T, D, k, D[k].entry.run, D[k].entry.n)
                   /\ D[k].entry.n > First(D[k].entry.kind) =>
                        Due(T, D, k, D[k].entry.run, D[k].entry.n - 1)
              /\ D[k].cmd = "RunFinished" =>
                   \A n \in First(D[k].kind) .. D[k].sent : Due(T, D, k, D[k].run, n)
      BY DEF BoxInv
    <2>1. CASE k \in 1 .. Len(B)
      <3>1. D[k] = B[k] /\ k \in 1 .. Len(B) + 1
        BY <2>1, <1>1, <1>5
      <3>2. /\ B[k].cmd = "PersistProgress" =>
                 /\ ~Due(T, B, k, B[k].entry.run, B[k].entry.n)
                 /\ B[k].entry.n > First(B[k].entry.kind) =>
                      Due(T, B, k, B[k].entry.run, B[k].entry.n - 1)
            /\ B[k].cmd = "RunFinished" =>
                 \A n \in First(B[k].kind) .. B[k].sent : Due(T, B, k, B[k].run, n)
        BY <2>1, <1>6 DEF BoxInv
      <3> QED BY <3>1, <3>2, <1>2
    <2>2. CASE k = Len(B) + 1
      <3>1. D[k] = c /\ k \in 1 .. Len(B) + 1
        BY <2>2, <1>1
      <3> QED BY <3>1, <2>2, <1>2
    <2> QED BY <2>1, <2>2, <1>4
  <1>7. ASSUME NEW N, RunsKnown(T, B, N) PROVE RunsKnown(T, D, N)
    BY <1>1, <1>4, <1>7 DEF RunsKnown
  <1>8. ASSUME NEW r, NEW kind, NEW passed, RunInv(T, B, r, kind, passed)
        PROVE  RunInv(T, D, r, kind, passed)
    BY <1>3, <1>8 DEF RunInv
  <1> QED BY <1>6, <1>7, <1>8 DEF D

(* A run passes its next event on.                                         *)
LEMMA PushProgress ==
  ASSUME NEW T \in Seq(EntrySet), NEW B \in Seq(AgentCommand), NEW c \in AgentCommand,
         c.cmd = "PersistProgress", NEW passed \in Nat,
         c.entry.n = passed + 1,
         RunInv(T, B, c.entry.run, c.entry.kind, passed)
  PROVE  /\ BoxInv(T, B) => BoxInv(T, Append(B, c))
         /\ \A N : RunsKnown(T, B, N) /\ c.entry.run <= N => RunsKnown(T, Append(B, c), N)
         /\ RunInv(T, Append(B, c), c.entry.run, c.entry.kind, passed + 1)
         /\ \A r, kind, p : r # c.entry.run /\ RunInv(T, B, r, kind, p)
              => RunInv(T, Append(B, c), r, kind, p)
  <1> DEFINE D == Append(B, c)
  <1> DEFINE e == c.entry
  <1>1. /\ D \in Seq(AgentCommand) /\ Len(D) = Len(B) + 1 /\ Len(B) \in Nat
        /\ \A i \in 1 .. Len(B) : D[i] = B[i]
        /\ D[Len(B) + 1] = c
        /\ \A k \in 1 .. Len(B) + 1 : \A r, n : Waits(D, k, r, n) <=> Waits(B, k, r, n)
        /\ \A r, n : Waits(D, Len(D) + 1, r, n) <=>
                       Waits(B, Len(B) + 1, r, n) \/ Carries(c, r, n)
    BY WaitsAppend
  <1> HIDE DEF D
  <1>2. \A k \in 1 .. Len(B) + 1 : \A r, n : Due(T, D, k, r, n) <=> Due(T, B, k, r, n)
    BY <1>1 DEF Due
  <1>3. \A r, n : Due(T, D, Len(D) + 1, r, n) <=>
                    Due(T, B, Len(B) + 1, r, n) \/ (e.run = r /\ e.n = n)
    BY <1>1 DEF Due, Carries
  <1>4. \A k \in 1 .. Len(D) : k \in 1 .. Len(B) \/ k = Len(B) + 1
    BY <1>1
  <1>5. \A k \in 1 .. Len(B) : k \in 1 .. Len(B) + 1
    BY <1>1
  <1>6. e \in EntrySet /\ e.n = passed + 1 /\ e.n \in Nat /\ e.kind \in Kinds
    BY CommandFacts DEF EntrySet
  <1>7. /\ \A n \in First(e.kind) .. passed : Due(T, B, Len(B) + 1, e.run, n)
        /\ \A n \in Nat : Due(T, B, Len(B) + 1, e.run, n) => n <= passed
    BY DEF RunInv
  <1> HIDE DEF e
  <1>8. ~Due(T, B, Len(B) + 1, e.run, e.n)
    <2>1. ~(passed + 1 <= passed)
      OBVIOUS
    <2> QED BY <2>1, <1>6, <1>7
  <1>9. e.n > First(e.kind) => Due(T, B, Len(B) + 1, e.run, e.n - 1)
    <2> SUFFICES ASSUME e.n > First(e.kind) PROVE Due(T, B, Len(B) + 1, e.run, e.n - 1)
      OBVIOUS
    <2>1. First(e.kind) \in Nat
      BY DEF First
    <2>2. e.n - 1 \in First(e.kind) .. passed
      BY <2>1, <1>6
    <2> QED BY <2>2, <1>7
  <1>10. ASSUME BoxInv(T, B) PROVE BoxInv(T, D)
    <2> SUFFICES ASSUME NEW k \in 1 .. Len(D)
        PROVE /\ D[k].cmd = "PersistProgress" =>
                   /\ ~Due(T, D, k, D[k].entry.run, D[k].entry.n)
                   /\ D[k].entry.n > First(D[k].entry.kind) =>
                        Due(T, D, k, D[k].entry.run, D[k].entry.n - 1)
              /\ D[k].cmd = "RunFinished" =>
                   \A n \in First(D[k].kind) .. D[k].sent : Due(T, D, k, D[k].run, n)
      BY DEF BoxInv
    <2>1. CASE k \in 1 .. Len(B)
      <3>1. D[k] = B[k] /\ k \in 1 .. Len(B) + 1
        BY <2>1, <1>1, <1>5
      <3>2. /\ B[k].cmd = "PersistProgress" =>
                 /\ ~Due(T, B, k, B[k].entry.run, B[k].entry.n)
                 /\ B[k].entry.n > First(B[k].entry.kind) =>
                      Due(T, B, k, B[k].entry.run, B[k].entry.n - 1)
            /\ B[k].cmd = "RunFinished" =>
                 \A n \in First(B[k].kind) .. B[k].sent : Due(T, B, k, B[k].run, n)
        BY <2>1, <1>10 DEF BoxInv
      <3> QED BY <3>1, <3>2, <1>2
    <2>2. CASE k = Len(B) + 1
      <3>1. D[k] = c /\ k \in 1 .. Len(B) + 1 /\ D[k].cmd # "RunFinished" /\ D[k].entry = e
        BY <2>2, <1>1 DEF e
      <3> QED BY <3>1, <2>2, <1>2, <1>8, <1>9
    <2> QED BY <2>1, <2>2, <1>4
  <1>11. ASSUME NEW N, RunsKnown(T, B, N), e.run <= N PROVE RunsKnown(T, D, N)
    <2>1. ASSUME NEW k \in 1 .. Len(D), D[k].cmd = "PersistProgress"
          PROVE  D[k].entry.run <= N
      <3>1. CASE k \in 1 .. Len(B)
        BY <3>1, <2>1, <1>1, <1>11 DEF RunsKnown
      <3>2. CASE k = Len(B) + 1
        BY <3>2, <1>1, <1>11 DEF e
      <3> QED BY <3>1, <3>2, <1>4
    <2> QED BY <2>1, <1>11 DEF RunsKnown
  <1>12. RunInv(T, D, e.run, e.kind, passed + 1)
    <2>1. ASSUME NEW n \in First(e.kind) .. passed + 1 PROVE Due(T, D, Len(D) + 1, e.run, n)
      <3>1. First(e.kind) \in Nat
        BY DEF First
      <3>2. n \in First(e.kind) .. passed \/ n = e.n
        BY <3>1, <1>6
      <3> QED BY <3>2, <1>3, <1>7
    <2>2. ASSUME NEW n \in Nat, Due(T, D, Len(D) + 1, e.run, n) PROVE n <= passed + 1
      <3>1. n <= passed \/ n = e.n
        BY <2>2, <1>3, <1>7
      <3> QED BY <3>1, <1>6
    <2> QED BY <2>1, <2>2 DEF RunInv
  <1>13. ASSUME NEW r, NEW kind, NEW p, r # e.run, RunInv(T, B, r, kind, p)
         PROVE  RunInv(T, D, r, kind, p)
    BY <1>3, <1>13 DEF RunInv
  <1> QED BY <1>10, <1>11, <1>12, <1>13 DEF D, e

(* A run begins: its input is written down.                                *)
LEMMA BeginsWithInput ==
  ASSUME NEW T \in Seq(EntrySet), NEW B \in Seq(AgentCommand), NEW N \in Nat,
         NEW e \in EntrySet, e.run = N + 1, e.n = 0,
         RunsKnown(T, B, N)
  PROVE  /\ Append(T, e) \in Seq(EntrySet)
         /\ Ordered(T) => Ordered(Append(T, e))
         /\ BoxInv(T, B) => BoxInv(Append(T, e), B)
         /\ RunsKnown(Append(T, e), B, N + 1)
         /\ e.kind # "continue" => RunInv(Append(T, e), B, N + 1, e.kind, 0)
         /\ \A r, kind, p : r <= N /\ r \in Nat /\ RunInv(T, B, r, kind, p)
              => RunInv(Append(T, e), B, r, kind, p)
  <1> DEFINE U == Append(T, e)
  <1>1. U \in Seq(EntrySet) /\ \A r, n : Has(U, r, n) <=> Has(T, r, n) \/ (N + 1 = r /\ 0 = n)
    BY HasAppend
  <1>2. /\ Len(U) = Len(T) + 1 /\ Len(T) \in Nat
        /\ \A i \in 1 .. Len(T) : U[i] = T[i]
        /\ U[Len(T) + 1] = e
    BY AppendProperties
  <1> HIDE DEF U
  <1>3. \A j \in 1 .. Len(T) : T[j] \in EntrySet /\ T[j].run <= N /\ T[j].run \in Nat
    <2> TAKE j \in 1 .. Len(T)
    <2>1. T[j] \in EntrySet
      OBVIOUS
    <2>2. T[j].run <= N
      BY DEF RunsKnown
    <2> QED BY <2>1, <2>2 DEF EntrySet
  <1>4. \A k \in 1 .. Len(B) : B[k].cmd = "PersistProgress" =>
          B[k].entry \in EntrySet /\ B[k].entry.run <= N /\ B[k].entry.run \in Nat
    <2> TAKE k \in 1 .. Len(B)
    <2> SUFFICES ASSUME B[k].cmd = "PersistProgress"
        PROVE  B[k].entry \in EntrySet /\ B[k].entry.run <= N /\ B[k].entry.run \in Nat
      OBVIOUS
    <2>1. B[k] \in AgentCommand
      OBVIOUS
    <2>2. B[k].entry \in EntrySet
      BY <2>1, CommandFacts
    <2>3. B[k].entry.run <= N
      BY DEF RunsKnown
    <2> QED BY <2>2, <2>3 DEF EntrySet
  <1>5. \A k \in 1 .. Len(B) + 1 : \A n : ~Due(T, B, k, N + 1, n)
    <2> TAKE k \in 1 .. Len(B) + 1
    <2> TAKE n
    <2>1. \A j \in 1 .. Len(T) : T[j].run # N + 1
      BY <1>3
    <2>2. \A j \in 1 .. k - 1 : j \in 1 .. Len(B)
      OBVIOUS
    <2>3. \A j \in 1 .. Len(B) : B[j].cmd = "PersistProgress" => B[j].entry.run # N + 1
      BY <1>4
    <2> QED BY <2>1, <2>2, <2>3 DEF Due, Has, Waits
  <1>6. \A k : \A r, n : Due(U, B, k, r, n) <=> Due(T, B, k, r, n) \/ (N + 1 = r /\ 0 = n)
    BY <1>1 DEF Due
  <1>7. \A k : \A r, n : r # N + 1 => (Due(U, B, k, r, n) <=> Due(T, B, k, r, n))
    BY <1>6
  <1>8. ASSUME BoxInv(T, B) PROVE BoxInv(U, B)
    <2> SUFFICES ASSUME NEW k \in 1 .. Len(B)
        PROVE /\ B[k].cmd = "PersistProgress" =>
                   /\ ~Due(U, B, k, B[k].entry.run, B[k].entry.n)
                   /\ B[k].entry.n > First(B[k].entry.kind) =>
                        Due(U, B, k, B[k].entry.run, B[k].entry.n - 1)
              /\ B[k].cmd = "RunFinished" =>
                   \A n \in First(B[k].kind) .. B[k].sent : Due(U, B, k, B[k].run, n)
      BY DEF BoxInv
    <2>1. /\ B[k].cmd = "PersistProgress" =>
               /\ ~Due(T, B, k, B[k].entry.run, B[k].entry.n)
               /\ B[k].entry.n > First(B[k].entry.kind) =>
                    Due(T, B, k, B[k].entry.run, B[k].entry.n - 1)
          /\ B[k].cmd = "RunFinished" =>
               \A n \in First(B[k].kind) .. B[k].sent : Due(T, B, k, B[k].run, n)
      BY <1>8 DEF BoxInv
    <2>2. B[k].cmd = "PersistProgress" => B[k].entry.run # N + 1
      BY <1>4
    <2> QED BY <2>1, <2>2, <1>6
  <1>9. RunsKnown(U, B, N + 1)
    <2>1. ASSUME NEW j \in 1 .. Len(U) PROVE U[j].run <= N + 1
      <3>1. j \in 1 .. Len(T) \/ j = Len(T) + 1
        BY <1>2
      <3>2. CASE j \in 1 .. Len(T)
        <4>1. U[j] = T[j] /\ T[j].run <= N /\ T[j].run \in Nat
          BY <3>2, <1>2, <1>3
        <4> QED BY <4>1
      <3>3. CASE j = Len(T) + 1
        BY <3>3, <1>2
      <3> QED BY <3>1, <3>2, <3>3
    <2>2. ASSUME NEW k \in 1 .. Len(B), B[k].cmd = "PersistProgress"
          PROVE  B[k].entry.run <= N + 1
      <3>1. B[k].entry.run <= N /\ B[k].entry.run \in Nat
        BY <2>2, <1>4
      <3> QED BY <3>1
    <2> QED BY <2>1, <2>2 DEF RunsKnown
  <1>10. ASSUME e.kind # "continue" PROVE RunInv(U, B, N + 1, e.kind, 0)
    <2>1. First(e.kind) = 0
      BY <1>10 DEF First
    <2>2. Len(B) + 1 \in 1 .. Len(B) + 1
      OBVIOUS
    <2>3. \A n : Due(U, B, Len(B) + 1, N + 1, n) <=> n = 0
      BY <2>2, <1>5, <1>6
    <2> QED BY <2>1, <2>3 DEF RunInv
  <1>11. ASSUME NEW r, NEW kind, NEW p, r <= N, r \in Nat, RunInv(T, B, r, kind, p)
         PROVE  RunInv(U, B, r, kind, p)
    <2>1. r # N + 1
      BY <1>11
    <2>2. \A n : Due(U, B, Len(B) + 1, r, n) <=> Due(T, B, Len(B) + 1, r, n)
      BY <2>1, <1>7
    <2> QED BY <2>2, <1>11 DEF RunInv
  <1>12. ASSUME Ordered(T) PROVE Ordered(U)
    <2>1. ASSUME NEW i \in 1 .. Len(U), NEW j \in 1 .. Len(U),
                 U[j].run = U[i].run, U[j].n = U[i].n
          PROVE  i = j
      <3>1. /\ i \in 1 .. Len(T) \/ i = Len(T) + 1
            /\ j \in 1 .. Len(T) \/ j = Len(T) + 1
        BY <1>2
      <3>2. CASE i \in 1 .. Len(T) /\ j \in 1 .. Len(T)
        BY <3>2, <2>1, <1>2, <1>12 DEF Ordered
      <3>3. CASE i \in 1 .. Len(T) /\ j = Len(T) + 1
        <4>1. U[i] = T[i] /\ T[i].run <= N /\ T[i].run \in Nat /\ U[j].run = N + 1
          BY <3>3, <1>2, <1>3
        <4> QED BY <4>1, <2>1
      <3>4. CASE i = Len(T) + 1 /\ j \in 1 .. Len(T)
        <4>1. U[j] = T[j] /\ T[j].run <= N /\ T[j].run \in Nat /\ U[i].run = N + 1
          BY <3>4, <1>2, <1>3
        <4> QED BY <4>1, <2>1
      <3> QED BY <3>1, <3>2, <3>3, <3>4
    <2>2. ASSUME NEW i \in 1 .. Len(U), U[i].n > First(U[i].kind)
          PROVE  \E j \in 1 .. i - 1 : U[j].run = U[i].run /\ U[j].n = U[i].n - 1
      <3>1. i \in 1 .. Len(T) \/ i = Len(T) + 1
        BY <1>2
      <3>2. CASE i \in 1 .. Len(T)
        <4>1. U[i] = T[i]
          BY <3>2, <1>2
        <4>2. PICK j \in 1 .. i - 1 : T[j].run = T[i].run /\ T[j].n = T[i].n - 1
          BY <4>1, <3>2, <2>2, <1>12 DEF Ordered
        <4>3. j \in 1 .. Len(T)
          BY <3>2, <1>2
        <4> QED BY <4>1, <4>2, <4>3, <1>2
      <3>3. CASE i = Len(T) + 1
        <4>1. U[i].n = 0
          BY <3>3, <1>2
        <4> QED BY <4>1, <2>2 DEF First
      <3> QED BY <3>1, <3>2, <3>3
    <2> QED BY <2>1, <2>2 DEF Ordered
  <1> QED BY <1>1, <1>8, <1>9, <1>10, <1>11, <1>12 DEF U

(* A run that continues a conversation begins: nothing of it is due.       *)
LEMMA BeginsContinuing ==
  ASSUME NEW T \in Seq(EntrySet), NEW B \in Seq(AgentCommand), NEW N \in Nat,
         RunsKnown(T, B, N)
  PROVE  RunsKnown(T, B, N + 1) /\ RunInv(T, B, N + 1, "continue", 0)
  <1>1. \A j \in 1 .. Len(T) : T[j].run <= N /\ T[j].run \in Nat
    <2> TAKE j \in 1 .. Len(T)
    <2>1. T[j] \in EntrySet
      OBVIOUS
    <2> QED BY <2>1 DEF EntrySet, RunsKnown
  <1>2. \A k \in 1 .. Len(B) : B[k].cmd = "PersistProgress" =>
          B[k].entry.run <= N /\ B[k].entry.run \in Nat
    <2> TAKE k \in 1 .. Len(B)
    <2> SUFFICES ASSUME B[k].cmd = "PersistProgress"
        PROVE  B[k].entry.run <= N /\ B[k].entry.run \in Nat
      OBVIOUS
    <2>1. B[k] \in AgentCommand
      OBVIOUS
    <2>2. B[k].entry \in EntrySet
      BY <2>1, CommandFacts
    <2> QED BY <2>2 DEF EntrySet, RunsKnown
  <1>3. \A n : ~Due(T, B, Len(B) + 1, N + 1, n)
    <2> TAKE n
    <2>1. \A j \in 1 .. Len(T) : T[j].run # N + 1
      BY <1>1
    <2>2. \A j \in 1 .. Len(B) + 1 - 1 : j \in 1 .. Len(B)
      OBVIOUS
    <2>3. \A j \in 1 .. Len(B) : B[j].cmd = "PersistProgress" => B[j].entry.run # N + 1
      BY <1>2
    <2> QED BY <2>1, <2>2, <2>3 DEF Due, Has, Waits
  <1>4. RunInv(T, B, N + 1, "continue", 0)
    BY <1>3 DEF RunInv, First
  <1>5. RunsKnown(T, B, N + 1)
    BY <1>1, <1>2 DEF RunsKnown
  <1> QED BY <1>4, <1>5

(* What is kept of a journal when its actor ends with an event in hand, or *)
(* when its first k entries are copied.                                    *)
LEMMA PrefixOrdered ==
  ASSUME NEW T \in Seq(EntrySet), NEW N, NEW k \in 0 .. Len(T)
  PROVE  LET P == SubSeq(T, 1, k) IN
         /\ P \in Seq(EntrySet) /\ Len(P) = k
         /\ Ordered(T) => Ordered(P)
         /\ RunsKnown(T, <<>>, N) => RunsKnown(P, <<>>, N)
  <1> DEFINE P == SubSeq(T, 1, k)
  <1>1. Len(T) \in Nat /\ \A i \in 1 .. k : T[i] \in EntrySet /\ i \in 1 .. Len(T)
    OBVIOUS
  <1>2. P \in Seq(EntrySet) /\ Len(P) = k /\ \A i \in 1 .. k : P[i] = T[i]
    BY <1>1, SubSeqProperties
  <1> HIDE DEF P
  <1>3. ASSUME Ordered(T) PROVE Ordered(P)
    <2>1. ASSUME NEW i \in 1 .. k, NEW j \in 1 .. k, P[j].run = P[i].run, P[j].n = P[i].n
          PROVE  i = j
      BY <2>1, <1>1, <1>2, <1>3 DEF Ordered
    <2>2. ASSUME NEW i \in 1 .. k, P[i].n > First(P[i].kind)
          PROVE  \E j \in 1 .. i - 1 : P[j].run = P[i].run /\ P[j].n = P[i].n - 1
      <3>1. PICK j \in 1 .. i - 1 : T[j].run = T[i].run /\ T[j].n = T[i].n - 1
        BY <2>2, <1>1, <1>2, <1>3 DEF Ordered
      <3>2. j \in 1 .. k
        OBVIOUS
      <3> QED BY <3>1, <3>2, <1>2
    <2> QED BY <2>1, <2>2, <1>2 DEF Ordered
  <1>4. RunsKnown(T, <<>>, N) => RunsKnown(P, <<>>, N)
    BY <1>1, <1>2 DEF RunsKnown
  <1> QED BY <1>2, <1>3, <1>4 DEF P

(* Nothing is asked of an empty mailbox, and a longer journal has what a   *)
(* shorter one has.                                                        *)
LEMMA EmptyBox ==
  ASSUME NEW T \in Seq(EntrySet)
  PROVE  /\ BoxInv(T, <<>>)
         /\ \A B, N : RunsKnown(T, B, N) => RunsKnown(T, <<>>, N)
  <1>1. Len(<<>>) = 0 /\ 1 .. 0 = {}
    BY EmptySeq
  <1> QED BY <1>1 DEF BoxInv, RunsKnown

-----------------------------------------------------------------------------
(* The actors as sequences of records. *)

(* An actor's record.                                                      *)
Agt(p, n, e, b) == [phase |-> p, running |-> n, eff |-> e, box |-> b]
Phases == {"down", "starting", "ready", "persisting"}

(* One field of a record is set.                                           *)
LEMMA FieldSet ==
  ASSUME NEW p, NEW n, NEW e, NEW b, NEW x
  PROVE  /\ [Agt(p, n, e, b) EXCEPT !.phase = x] = Agt(x, n, e, b)
         /\ [Agt(p, n, e, b) EXCEPT !.running = x] = Agt(p, x, e, b)
         /\ [Agt(p, n, e, b) EXCEPT !.eff = x] = Agt(p, n, x, b)
         /\ [Agt(p, n, e, b) EXCEPT !.box = x] = Agt(p, n, e, x)
         /\ Agt(p, n, e, b).phase = p /\ Agt(p, n, e, b).running = n
         /\ Agt(p, n, e, b).eff = e /\ Agt(p, n, e, b).box = b
  BY DEF Agt

(* An actor record put together from its parts.                            *)
LEMMA AgtType ==
  ASSUME NEW p \in Phases, NEW n \in Nat, NEW e \in Seq(EntrySet), NEW b \in Seq(AgentCommand)
  PROVE  Agt(p, n, e, b) \in AgentRec
  BY DEF AgentRec, Agt, Phases

(* Only the actor of session s changes.                                    *)
Alters(s, p, n, e, b) ==
  /\ ag' \in Seq(AgentRec) /\ Len(ag') = Len(ag)
  /\ ag'[s] = Agt(p, n, e, b)
  /\ ag'[s].phase = p /\ ag'[s].running = n /\ ag'[s].eff = e /\ ag'[s].box = b
  /\ \A t \in 1 .. Len(ag) : t # s => ag'[t] = ag[t]

(* A record put in the place of an actor.                                  *)
LEMMA AltersIs ==
  ASSUME ag \in Seq(AgentRec), NEW s \in 1 .. Len(ag), NEW p \in Phases, NEW n \in Nat,
         NEW e \in Seq(EntrySet), NEW b \in Seq(AgentCommand),
         ag' = [ag EXCEPT ![s] = Agt(p, n, e, b)]
  PROVE  Alters(s, p, n, e, b)
  <1> DEFINE R == Agt(p, n, e, b)
  <1>1. R \in AgentRec
    BY AgtType
  <1>2. R.phase = p /\ R.running = n /\ R.eff = e /\ R.box = b
    BY DEF Agt
  <1>4. ag' = [ag EXCEPT ![s] = R]
    OBVIOUS
  <1> HIDE DEF R
  <1>3. /\ ag' \in Seq(AgentRec) /\ Len(ag') = Len(ag) /\ ag'[s] = R
        /\ \A t \in 1 .. Len(ag) : t # s => ag'[t] = ag[t]
    BY <1>1, <1>4, ExceptSeq
  <1> QED BY <1>2, <1>3 DEF Alters, R

(* The types of an actor's parts.                                          *)
LEMMA AgentFacts ==
  ASSUME ag \in Seq(AgentRec)
  PROVE  /\ Len(ag) \in Nat /\ DOMAIN ag = 1 .. Len(ag)
         /\ \A s \in 1 .. Len(ag) :
              /\ ag[s] \in AgentRec
              /\ ag[s] = Agt(ag[s].phase, ag[s].running, ag[s].eff, ag[s].box)
              /\ ag[s].phase \in Phases
              /\ ag[s].running \in Nat /\ ag[s].eff \in Seq(EntrySet)
              /\ ag[s].box \in Seq(AgentCommand)
  <1>1. Len(ag) \in Nat /\ DOMAIN ag = 1 .. Len(ag)
    OBVIOUS
  <1>2. \A s \in 1 .. Len(ag) : ag[s] \in AgentRec
    OBVIOUS
  <1> QED BY <1>1, <1>2 DEF AgentRec, Agt, Phases

(* An actor's phase is set.                                                *)
LEMMA SetsPhase ==
  ASSUME ag \in Seq(AgentRec), NEW s \in 1 .. Len(ag), NEW p \in Phases,
         ag' = [ag EXCEPT ![s].phase = p]
  PROVE  Alters(s, p, ag[s].running, ag[s].eff, ag[s].box)
  <1> DEFINE a == ag[s]
  <1>1. /\ a = Agt(a.phase, a.running, a.eff, a.box) /\ s \in DOMAIN ag
        /\ a.phase \in Phases /\ a.running \in Nat /\ a.eff \in Seq(EntrySet)
        /\ a.box \in Seq(AgentCommand)
    BY AgentFacts
  <1>2. ag' = [ag EXCEPT ![s].phase = p]
    OBVIOUS
  <1>3. ag' = [ag EXCEPT ![s] = [a EXCEPT !.phase = p]]
    BY <1>1, <1>2
  <1>4. [Agt(a.phase, a.running, a.eff, a.box) EXCEPT !.phase = p] = Agt(p, a.running, a.eff, a.box)
    BY DEF Agt
  <1>5. [a EXCEPT !.phase = p] = Agt(p, a.running, a.eff, a.box)
    BY <1>1, <1>4
  <1>6. ag' = [ag EXCEPT ![s] = Agt(p, a.running, a.eff, a.box)]
    BY <1>3, <1>5
  <1>7. Alters(s, p, a.running, a.eff, a.box)
    BY <1>1, <1>6, AltersIs
  <1> QED BY <1>7

(* An actor's phase and running are set.                                   *)
LEMMA SetsPhaseRunning ==
  ASSUME ag \in Seq(AgentRec), NEW s \in 1 .. Len(ag), NEW p \in Phases, NEW n \in Nat,
         ag' = [ag EXCEPT ![s].phase = p, ![s].running = n]
  PROVE  Alters(s, p, n, ag[s].eff, ag[s].box)
  <1> DEFINE a == ag[s]
  <1>1. /\ a = Agt(a.phase, a.running, a.eff, a.box) /\ s \in DOMAIN ag
        /\ a.phase \in Phases /\ a.running \in Nat /\ a.eff \in Seq(EntrySet)
        /\ a.box \in Seq(AgentCommand)
    BY AgentFacts
  <1>2. ag' = [ag EXCEPT ![s].phase = p, ![s].running = n]
    OBVIOUS
  <1>3. ag' = [ag EXCEPT ![s] = [a EXCEPT !.phase = p, !.running = n]]
    BY <1>1, <1>2
  <1>4. [Agt(a.phase, a.running, a.eff, a.box) EXCEPT !.phase = p] = Agt(p, a.running, a.eff, a.box)
    BY DEF Agt
  <1>5. [Agt(p, a.running, a.eff, a.box) EXCEPT !.running = n] = Agt(p, n, a.eff, a.box)
    BY DEF Agt
  <1>6. [a EXCEPT !.phase = p, !.running = n] = Agt(p, n, a.eff, a.box)
    BY <1>1, <1>4, <1>5
  <1>7. ag' = [ag EXCEPT ![s] = Agt(p, n, a.eff, a.box)]
    BY <1>3, <1>6
  <1>8. Alters(s, p, n, a.eff, a.box)
    BY <1>1, <1>7, AltersIs
  <1> QED BY <1>8

(* An actor's phase and eff are set.                                       *)
LEMMA SetsPhaseEff ==
  ASSUME ag \in Seq(AgentRec), NEW s \in 1 .. Len(ag), NEW p \in Phases, NEW e \in Seq(EntrySet),
         ag' = [ag EXCEPT ![s].phase = p, ![s].eff = e]
  PROVE  Alters(s, p, ag[s].running, e, ag[s].box)
  <1> DEFINE a == ag[s]
  <1>1. /\ a = Agt(a.phase, a.running, a.eff, a.box) /\ s \in DOMAIN ag
        /\ a.phase \in Phases /\ a.running \in Nat /\ a.eff \in Seq(EntrySet)
        /\ a.box \in Seq(AgentCommand)
    BY AgentFacts
  <1>2. ag' = [ag EXCEPT ![s].phase = p, ![s].eff = e]
    OBVIOUS
  <1>3. ag' = [ag EXCEPT ![s] = [a EXCEPT !.phase = p, !.eff = e]]
    BY <1>1, <1>2
  <1>4. [Agt(a.phase, a.running, a.eff, a.box) EXCEPT !.phase = p] = Agt(p, a.running, a.eff, a.box)
    BY DEF Agt
  <1>5. [Agt(p, a.running, a.eff, a.box) EXCEPT !.eff = e] = Agt(p, a.running, e, a.box)
    BY DEF Agt
  <1>6. [a EXCEPT !.phase = p, !.eff = e] = Agt(p, a.running, e, a.box)
    BY <1>1, <1>4, <1>5
  <1>7. ag' = [ag EXCEPT ![s] = Agt(p, a.running, e, a.box)]
    BY <1>3, <1>6
  <1>8. Alters(s, p, a.running, e, a.box)
    BY <1>1, <1>7, AltersIs
  <1> QED BY <1>8

(* An actor takes a command.                                               *)
LEMMA SetsBox ==
  ASSUME ag \in Seq(AgentRec), NEW s \in 1 .. Len(ag),
         ag[s].box # <<>>, ag' = [ag EXCEPT ![s].box = Tail(@)]
  PROVE  Alters(s, ag[s].phase, ag[s].running, ag[s].eff, Tail(ag[s].box))
  <1> DEFINE a == ag[s]
  <1> DEFINE b == Tail(a.box)
  <1>1. /\ a = Agt(a.phase, a.running, a.eff, a.box) /\ s \in DOMAIN ag
        /\ a.phase \in Phases /\ a.running \in Nat /\ a.eff \in Seq(EntrySet)
        /\ a.box \in Seq(AgentCommand)
    BY AgentFacts
  <1>2. b \in Seq(AgentCommand)
    BY <1>1, HeadTailProperties
  <1>3. ag' = [ag EXCEPT ![s].box = b]
    OBVIOUS
  <1> HIDE DEF b
  <1>4. ag' = [ag EXCEPT ![s] = [a EXCEPT !.box = b]]
    BY <1>1, <1>3
  <1>5. [Agt(a.phase, a.running, a.eff, a.box) EXCEPT !.box = b] = Agt(a.phase, a.running, a.eff, b)
    BY DEF Agt
  <1>6. [a EXCEPT !.box = b] = Agt(a.phase, a.running, a.eff, b)
    BY <1>1, <1>5
  <1>7. ag' = [ag EXCEPT ![s] = Agt(a.phase, a.running, a.eff, b)]
    BY <1>4, <1>6
  <1>8. Alters(s, a.phase, a.running, a.eff, b)
    BY <1>1, <1>2, <1>7, AltersIs
  <1> QED BY <1>8 DEF b

(* An actor takes a command, and its phase and eff are set.                *)
LEMMA SetsPhaseBoxEff ==
  ASSUME ag \in Seq(AgentRec), NEW s \in 1 .. Len(ag), NEW p \in Phases, NEW e \in Seq(EntrySet),
         ag[s].box # <<>>, ag' = [ag EXCEPT ![s].phase = p, ![s].box = Tail(@), ![s].eff = e]
  PROVE  Alters(s, p, ag[s].running, e, Tail(ag[s].box))
  <1> DEFINE a == ag[s]
  <1> DEFINE b == Tail(a.box)
  <1>1. /\ a = Agt(a.phase, a.running, a.eff, a.box) /\ s \in DOMAIN ag
        /\ a.phase \in Phases /\ a.running \in Nat /\ a.eff \in Seq(EntrySet)
        /\ a.box \in Seq(AgentCommand)
    BY AgentFacts
  <1>2. b \in Seq(AgentCommand)
    BY <1>1, HeadTailProperties
  <1>3. ag' = [ag EXCEPT ![s].phase = p, ![s].box = b, ![s].eff = e]
    OBVIOUS
  <1> HIDE DEF b
  <1>4. ag' = [ag EXCEPT ![s] = [a EXCEPT !.phase = p, !.box = b, !.eff = e]]
    BY <1>1, <1>3
  <1>5. [Agt(a.phase, a.running, a.eff, a.box) EXCEPT !.phase = p] = Agt(p, a.running, a.eff, a.box)
    BY DEF Agt
  <1>6. [Agt(p, a.running, a.eff, a.box) EXCEPT !.box = b] = Agt(p, a.running, a.eff, b)
    BY DEF Agt
  <1>7. [Agt(p, a.running, a.eff, b) EXCEPT !.eff = e] = Agt(p, a.running, e, b)
    BY FieldSet
  <1>8. [a EXCEPT !.phase = p, !.box = b, !.eff = e] = Agt(p, a.running, e, b)
    BY <1>1, <1>5, <1>6, <1>7
  <1>9. ag' = [ag EXCEPT ![s] = Agt(p, a.running, e, b)]
    BY <1>4, <1>8
  <1>10. Alters(s, p, a.running, e, b)
    BY <1>1, <1>2, <1>9, AltersIs
  <1> QED BY <1>10 DEF b

(* An actor takes a command, and its phase and running are set.            *)
LEMMA SetsPhaseRunningBox ==
  ASSUME ag \in Seq(AgentRec), NEW s \in 1 .. Len(ag), NEW p \in Phases, NEW n \in Nat,
         ag[s].box # <<>>, ag' = [ag EXCEPT ![s].phase = p, ![s].running = n, ![s].box = Tail(@)]
  PROVE  Alters(s, p, n, ag[s].eff, Tail(ag[s].box))
  <1> DEFINE a == ag[s]
  <1> DEFINE b == Tail(a.box)
  <1>1. /\ a = Agt(a.phase, a.running, a.eff, a.box) /\ s \in DOMAIN ag
        /\ a.phase \in Phases /\ a.running \in Nat /\ a.eff \in Seq(EntrySet)
        /\ a.box \in Seq(AgentCommand)
    BY AgentFacts
  <1>2. b \in Seq(AgentCommand)
    BY <1>1, HeadTailProperties
  <1>3. ag' = [ag EXCEPT ![s].phase = p, ![s].running = n, ![s].box = b]
    OBVIOUS
  <1> HIDE DEF b
  <1>4. ag' = [ag EXCEPT ![s] = [a EXCEPT !.phase = p, !.running = n, !.box = b]]
    BY <1>1, <1>3
  <1>5. [Agt(a.phase, a.running, a.eff, a.box) EXCEPT !.phase = p] = Agt(p, a.running, a.eff, a.box)
    BY DEF Agt
  <1>6. [Agt(p, a.running, a.eff, a.box) EXCEPT !.running = n] = Agt(p, n, a.eff, a.box)
    BY DEF Agt
  <1>7. [Agt(p, n, a.eff, a.box) EXCEPT !.box = b] = Agt(p, n, a.eff, b)
    BY DEF Agt
  <1>8. [a EXCEPT !.phase = p, !.running = n, !.box = b] = Agt(p, n, a.eff, b)
    BY <1>1, <1>5, <1>6, <1>7
  <1>9. ag' = [ag EXCEPT ![s] = Agt(p, n, a.eff, b)]
    BY <1>4, <1>8
  <1>10. Alters(s, p, n, a.eff, b)
    BY <1>1, <1>2, <1>9, AltersIs
  <1> QED BY <1>10 DEF b

(* The commands.                                                           *)
LEMMA CommandTypes ==
  /\ RunCmd \in AgentCommand /\ [cmd |-> "Cancel"] \in AgentCommand
  /\ \A t \in Nat : InjectCmd(t) \in AgentCommand
  /\ \A e \in EntrySet : [cmd |-> "PersistProgress", entry |-> e] \in AgentCommand
  /\ \A r \in Nat, k \in Kinds, n \in Nat, o \in Outcome :
       [cmd |-> "RunFinished", run |-> r, kind |-> k, sent |-> n, outcome |-> o] \in AgentCommand
  BY DEF AgentCommand, RunCmd, InjectCmd

(* Fresh and ended actors.                                                 *)
LEMMA FreshTypes ==
  /\ GoneAgent \in AgentRec /\ GoneAgent = Agt("down", 0, <<>>, <<>>)
  /\ \A b : Fresh(b) = Agt("starting", 0, <<>>, b)
  /\ \A b \in Seq(AgentCommand) : Fresh(b) \in AgentRec
  <1>1. <<>> \in Seq(EntrySet) /\ <<>> \in Seq(AgentCommand)
    BY EmptySeq
  <1>2. GoneAgent = Agt("down", 0, <<>>, <<>>)
    BY DEF GoneAgent, Agt
  <1>3. \A b : Fresh(b) = Agt("starting", 0, <<>>, b)
    BY DEF Fresh, Agt
  <1>4. \A p \in Phases, b \in Seq(AgentCommand) : Agt(p, 0, <<>>, b) \in AgentRec
    BY <1>1, AgtType
  <1>5. "down" \in Phases /\ "starting" \in Phases
    BY DEF Phases
  <1>6. GoneAgent \in AgentRec
    BY <1>1, <1>2, <1>4, <1>5
  <1>7. \A b \in Seq(AgentCommand) : Fresh(b) \in AgentRec
    BY <1>3, <1>4, <1>5
  <1> QED BY <1>2, <1>3, <1>6, <1>7

(* What a tell does to the actors: nothing, if the addressee has ended.    *)
LEMMA DeliveredFacts ==
  ASSUME ag \in Seq(AgentRec), NEW s \in 0 .. Len(ag), NEW c \in AgentCommand,
         ag' = Delivered(s, c)
  PROVE  \/ ag' = ag /\ (s = 0 \/ ag[s].phase = "down")
         \/ /\ s # 0 /\ s \in 1 .. Len(ag) /\ ag[s].phase # "down"
            /\ Append(ag[s].box, c) \in Seq(AgentCommand)
            /\ Alters(s, ag[s].phase, ag[s].running, ag[s].eff, Append(ag[s].box, c))
  <1> SUFFICES ASSUME s # 0, ag[s].phase # "down"
      PROVE /\ s \in 1 .. Len(ag)
            /\ Append(ag[s].box, c) \in Seq(AgentCommand)
            /\ Alters(s, ag[s].phase, ag[s].running, ag[s].eff, Append(ag[s].box, c))
    BY DEF Delivered
  <1>1. s \in 1 .. Len(ag)
    OBVIOUS
  <1>2. /\ ag[s] = Agt(ag[s].phase, ag[s].running, ag[s].eff, ag[s].box)
        /\ ag[s].phase \in Phases
        /\ ag[s].running \in Nat /\ ag[s].eff \in Seq(EntrySet)
        /\ ag[s].box \in Seq(AgentCommand)
    BY <1>1, AgentFacts
  <1> DEFINE b == Append(ag[s].box, c)
  <1>3. b \in Seq(AgentCommand)
    BY <1>2, AppendProperties
  <1>4. ag' = [ag EXCEPT ![s].box = b]
    BY DEF Delivered
  <1> HIDE DEF b
  <1>5. [ag[s] EXCEPT !.box = b] = Agt(ag[s].phase, ag[s].running, ag[s].eff, b)
    BY <1>2, FieldSet
  <1>6. ag' = [ag EXCEPT ![s] = Agt(ag[s].phase, ag[s].running, ag[s].eff, b)]
    BY <1>4, <1>5
  <1>7. Alters(s, ag[s].phase, ag[s].running, ag[s].eff, b)
    BY <1>1, <1>2, <1>3, <1>6, AltersIs
  <1> QED BY <1>1, <1>3, <1>7 DEF b

-----------------------------------------------------------------------------
(* What a step does that is about one session. *)

(* A run is as it was, but for the token that cancels it.                  *)
Alike(r) ==
  /\ r \in DOMAIN runs /\ runs'[r] \in RunRec
  /\ runs'[r].session = runs[r].session /\ runs'[r].kind = runs[r].kind
  /\ runs'[r].sent = runs[r].sent /\ runs'[r].passed = runs[r].passed

(* The runs of the other sessions that are left are as they were; those of *)
(* session s, whose actor is in the phase given, are well formed.          *)
RunsLocal(s, phase) ==
  /\ nruns' \in Nat /\ nruns <= nruns'
  /\ DOMAIN runs' \subseteq 1 .. nruns'
  /\ \A r \in DOMAIN runs' :
       \/ Alike(r) /\ runs[r].session # s
       \/ /\ runs'[r] \in RunRec /\ runs'[r].session = s
          /\ runs'[r].passed <= runs'[r].sent
          /\ phase \in {"ready", "persisting"}

(* So are the journals, snapshots and actors of the other sessions.        *)
Local(s) ==
  /\ s \in 1 .. Len(ag)
  /\ ag' \in Seq(AgentRec) /\ Len(ag') = Len(ag)
  /\ hist' \in Seq(Seq(EntrySet)) /\ Len(hist') = Len(hist)
  /\ snap' \in Seq(Nat) /\ Len(snap') = Len(snap) /\ snap'[s] <= Len(hist'[s])
  /\ \A t \in 1 .. Len(ag) :
       t # s => ag'[t] = ag[t] /\ hist'[t] = hist[t] /\ snap'[t] = snap[t]
  /\ ag'[s].phase = "down" => ag'[s] = GoneAgent
  /\ ag'[s].phase # "persisting" => ag'[s].eff = <<>>
  /\ RunsLocal(s, ag'[s].phase)

(* Such a step keeps the types of agents and runs.                         *)
LEMMA LocalKeeps ==
  ASSUME AgentsInv, NEW s, Local(s)
  PROVE  AgentsInv'
  <1>1. AgentTypes'
    <2>1. ag' \in Seq(AgentRec) /\ hist' \in Seq(Seq(EntrySet)) /\ snap' \in Seq(Nat)
      BY DEF Local
    <2>2. nruns' \in Nat /\ DOMAIN runs' \subseteq 1 .. nruns'
      BY DEF Local, RunsLocal
    <2>3. \A r \in DOMAIN runs' : runs'[r] \in RunRec
      BY DEF Local, RunsLocal, AgentsInv, AgentTypes, Alike
    <2> QED BY <2>1, <2>2, <2>3 DEF AgentTypes
  <1>2. Lengths'
    BY DEF AgentsInv, Lengths, Local
  <1>3. AgentsRest'
    BY DEF AgentsInv, AgentsRest, Local
  <1>4. RunsLive'
    <2> SUFFICES ASSUME NEW r \in DOMAIN runs'
                 PROVE  /\ runs'[r].session \in 1 .. Len(ag')
                        /\ ag'[runs'[r].session].phase \in {"ready", "persisting"}
                        /\ runs'[r].passed <= runs'[r].sent
      BY DEF RunsLive
    <2>1. Len(ag') = Len(ag) /\ s \in 1 .. Len(ag)
      BY DEF Local
    <2>2. CASE Alike(r) /\ runs[r].session # s
      <3>1. /\ runs[r].session \in 1 .. Len(ag) /\ runs[r].passed <= runs[r].sent
            /\ ag[runs[r].session].phase \in {"ready", "persisting"}
        BY <2>2 DEF AgentsInv, RunsLive, Alike
      <3>2. ag'[runs[r].session] = ag[runs[r].session]
        BY <3>1, <2>2 DEF Local
      <3> QED BY <2>1, <2>2, <3>1, <3>2 DEF Alike
    <2>3. CASE /\ runs'[r].session = s /\ runs'[r].passed <= runs'[r].sent
               /\ ag'[s].phase \in {"ready", "persisting"}
      BY <2>1, <2>3
    <2> QED BY <2>2, <2>3 DEF Local, RunsLocal
  <1> QED BY <1>1, <1>2, <1>3, <1>4 DEF AgentsInv

(* Numbers of runs are drawn in order.                                     *)
LEMMA KnownLater ==
  ASSUME NEW T \in Seq(EntrySet), NEW B \in Seq(AgentCommand), NEW N \in Nat, NEW M \in Nat,
         N <= M, RunsKnown(T, B, N)
  PROVE  RunsKnown(T, B, M)
  <1>1. \A j \in 1 .. Len(T) : T[j].run \in Nat /\ T[j].run <= N
    <2>1. \A j \in 1 .. Len(T) : T[j] \in EntrySet
      OBVIOUS
    <2>2. \A e \in EntrySet : e.run \in Nat
      BY DEF EntrySet
    <2> QED BY <2>1, <2>2 DEF RunsKnown
  <1>2. \A k \in 1 .. Len(B) : B[k].cmd = "PersistProgress" =>
          B[k].entry.run \in Nat /\ B[k].entry.run <= N
    <2>1. \A k \in 1 .. Len(B) : B[k] \in AgentCommand
      OBVIOUS
    <2>2. \A e \in EntrySet : e.run \in Nat
      BY DEF EntrySet
    <2>3. \A k \in 1 .. Len(B) : B[k].cmd = "PersistProgress" => B[k].entry \in EntrySet
      BY <2>1, CommandFacts
    <2> QED BY <2>2, <2>3 DEF RunsKnown
  <1>3. \A x \in Nat : x <= N => x <= M
    OBVIOUS
  <1> QED BY <1>1, <1>2, <1>3 DEF RunsKnown

(* The types of what a session's story is about.                           *)
LEMMA StoryTypes ==
  ASSUME AgentsInv, NEW s \in 1 .. Len(ag)
  PROVE  /\ hist[s] \in Seq(EntrySet) /\ ag[s].eff \in Seq(EntrySet)
         /\ Tape(s) \in Seq(EntrySet) /\ ag[s].box \in Seq(AgentCommand)
         /\ ag[s].phase # "persisting" => Tape(s) = hist[s]
         /\ snap[s] \in Nat
         /\ nruns \in Nat /\ Len(ag) \in Nat
  <1>1. hist[s] \in Seq(EntrySet) /\ snap[s] \in Nat /\ nruns \in Nat /\ Len(ag) \in Nat
    BY DEF AgentsInv, AgentTypes, Lengths
  <1>2. ag[s].eff \in Seq(EntrySet) /\ ag[s].box \in Seq(AgentCommand)
    BY AgentFacts DEF AgentsInv, AgentTypes
  <1>3. Tape(s) \in Seq(EntrySet)
    BY <1>1, <1>2, ConcatProperties DEF Tape
  <1>4. ag[s].phase # "persisting" => Tape(s) = hist[s]
    BY <1>1, ConcatEmptySeq DEF Tape, AgentsInv, AgentsRest
  <1> QED BY <1>1, <1>2, <1>3, <1>4

(* The stories of the other sessions are as they were.                     *)
LEMMA LocalStories ==
  ASSUME AgentsInv, NEW s, Local(s), Stories, Story(s)'
  PROVE  Stories'
  <1> SUFFICES ASSUME NEW t \in 1 .. Len(ag), t # s PROVE Story(t)'
    BY DEF Stories, Local
  <1>1. ag'[t] = ag[t] /\ hist'[t] = hist[t] /\ Tape(t)' = Tape(t)
    BY DEF Local, Tape
  <1>2. Story(t)
    BY DEF Stories
  <1>3. RunsKnown(Tape(t), ag[t].box, nruns')
    <2>1. Tape(t) \in Seq(EntrySet) /\ ag[t].box \in Seq(AgentCommand) /\ nruns \in Nat
      BY StoryTypes
    <2>2. nruns' \in Nat /\ nruns <= nruns'
      BY DEF Local, RunsLocal
    <2>3. RunsKnown(Tape(t), ag[t].box, nruns)
      BY <1>2 DEF Story
    <2> QED BY <2>1, <2>2, <2>3, KnownLater
  <1>4. ASSUME NEW r \in DOMAIN runs', runs'[r].session = t
        PROVE  RunInv(Tape(t), ag[t].box, r, runs'[r].kind, runs'[r].passed)
    <2>1. Alike(r)
      BY <1>4 DEF Local, RunsLocal
    <2> QED BY <2>1, <1>2, <1>4 DEF Story, Alike
  <1> QED BY <1>1, <1>2, <1>3, <1>4 DEF Story

(* One actor changes alone.                                                *)
LEMMA AltersLocal ==
  ASSUME AgentsInv, NEW s \in 1 .. Len(ag), NEW p, NEW n, NEW e, NEW b,
         Alters(s, p, n, e, b), UNCHANGED <<hist, snap>>,
         p = "down" => n = 0 /\ e = <<>> /\ b = <<>>,
         p # "persisting" => e = <<>>, RunsLocal(s, p)
  PROVE  Local(s)
  <1>1. p = "down" => ag'[s] = GoneAgent
    BY FreshTypes DEF Alters
  <1>2. /\ ag' \in Seq(AgentRec) /\ Len(ag') = Len(ag)
        /\ ag'[s].phase = p /\ ag'[s].eff = e
        /\ \A t \in 1 .. Len(ag) : t # s => ag'[t] = ag[t]
    BY DEF Alters
  <1>3. /\ hist' \in Seq(Seq(EntrySet)) /\ snap' \in Seq(Nat)
        /\ snap'[s] <= Len(hist'[s])
    BY DEF AgentsInv, AgentTypes, Lengths
  <1> QED BY <1>1, <1>2, <1>3 DEF Local

(* The runs are as before, and one more of session s has begun.            *)
Begins(s, kind) ==
  /\ nruns' = nruns + 1
  /\ DOMAIN runs' = DOMAIN runs \cup {nruns + 1}
  /\ \A r \in DOMAIN runs : r # nruns + 1 /\ runs'[r] = runs[r]
  /\ runs'[nruns + 1] = [session |-> s, kind |-> kind, sent |-> 0, passed |-> 0,
                         cancelled |-> FALSE, outcome |-> "none"]

(* StartRun begins a run under a number that no run has.                   *)
LEMMA StartRunFacts ==
  ASSUME AgentTypes, NEW s, NEW kind, StartRun(s, kind)
  PROVE  Begins(s, kind)
  <1>1. nruns + 1 \notin DOMAIN runs
    BY DEF AgentTypes
  <1>2. /\ nruns' = nruns + 1
        /\ DOMAIN runs' = DOMAIN runs \cup {nruns + 1}
        /\ \A r \in DOMAIN runs \cup {nruns + 1} : runs'[r] =
             IF r \in DOMAIN runs THEN runs[r]
             ELSE [session |-> s, kind |-> kind, sent |-> 0, passed |-> 0,
                   cancelled |-> FALSE, outcome |-> "none"]
    BY DEF StartRun
  <1> QED BY <1>1, <1>2 DEF Begins

(* A run that begins is one of its session.                                *)
LEMMA BeginsLocal ==
  ASSUME AgentsInv, NEW s \in 1 .. Len(ag), NEW kind \in Kinds, Begins(s, kind),
         NEW p \in {"ready", "persisting"}, ag[s].phase \in {"starting", "ready", "persisting"},
         \A r \in DOMAIN runs : runs[r].session = s => ag[s].phase \in {"ready", "persisting"}
  PROVE  RunsLocal(s, p)
  <1>1. nruns \in Nat /\ DOMAIN runs \subseteq 1 .. nruns
        /\ \A r \in DOMAIN runs : runs[r] \in RunRec /\ runs[r].passed <= runs[r].sent
    BY DEF AgentsInv, AgentTypes, RunsLive
  <1>2. nruns' \in Nat /\ nruns <= nruns' /\ DOMAIN runs' \subseteq 1 .. nruns'
    BY <1>1 DEF Begins
  <1>3. [session |-> s, kind |-> kind, sent |-> 0, passed |-> 0,
         cancelled |-> FALSE, outcome |-> "none"] \in RunRec
    BY DEF RunRec
  <1>4. ASSUME NEW r \in DOMAIN runs'
        PROVE  \/ Alike(r) /\ runs[r].session # s
               \/ /\ runs'[r] \in RunRec /\ runs'[r].session = s
                  /\ runs'[r].passed <= runs'[r].sent
    <2>1. CASE r \in DOMAIN runs
      BY <2>1, <1>1 DEF Begins, Alike
    <2>2. CASE r = nruns + 1
      BY <2>2, <1>3 DEF Begins
    <2> QED BY <2>1, <2>2 DEF Begins
  <1> QED BY <1>2, <1>4 DEF RunsLocal

(* Runs of session s change or end, and none begins.                       *)
LEMMA SameLocal ==
  ASSUME AgentsInv, NEW s \in 1 .. Len(ag), NEW p, UNCHANGED nruns,
         DOMAIN runs' \subseteq DOMAIN runs,
         \A r \in DOMAIN runs' :
           \/ runs'[r] = runs[r] \/ Alike(r)
           \/ runs[r].session = s /\ runs'[r].session = s /\ runs'[r] \in RunRec
              /\ runs'[r].passed <= runs'[r].sent,
         \/ p \in {"ready", "persisting"}
         \/ \A r \in DOMAIN runs' : runs[r].session # s
  PROVE  RunsLocal(s, p)
  <1>1. nruns \in Nat /\ DOMAIN runs \subseteq 1 .. nruns
        /\ \A r \in DOMAIN runs : runs[r] \in RunRec /\ runs[r].passed <= runs[r].sent
    BY DEF AgentsInv, AgentTypes, RunsLive
  <1>2. nruns' \in Nat /\ nruns <= nruns' /\ DOMAIN runs' \subseteq 1 .. nruns'
    BY <1>1
  <1>3. ASSUME NEW r \in DOMAIN runs'
        PROVE  \/ Alike(r) /\ runs[r].session # s
               \/ /\ runs'[r] \in RunRec /\ runs'[r].session = s
                  /\ runs'[r].passed <= runs'[r].sent
                  /\ p \in {"ready", "persisting"}
    BY <1>1 DEF Alike
  <1> QED BY <1>2, <1>3 DEF RunsLocal

-----------------------------------------------------------------------------
(* The steps of the agents. *)

(* What a session's story is told from.                                    *)
LEMMA StoryIs ==
  ASSUME NEW s, NEW T, NEW B, Tape(s)' = T, ag'[s].box = B,
         Ordered(T), BoxInv(T, B), RunsKnown(T, B, nruns'),
         \A r \in DOMAIN runs' : runs'[r].session = s =>
           RunInv(T, B, r, runs'[r].kind, runs'[r].passed)
  PROVE  Story(s)'
  BY DEF Story

(* Recovery of an agent: the phase changes, and a run may begin.           *)
LEMMA RecoversStep ==
  ASSUME AgentsInv, NEW s \in 1 .. Len(ag), AgentRecovers(s)
  PROVE  /\ Local(s) /\ UNCHANGED <<wlog, wf, wbox, told, hist, ops, crashes, plan>>
         /\ ag[s].phase # "down"
         /\ Story(s) => Story(s)'
  <1>1. ag \in Seq(AgentRec) /\ nruns + 1 \in Nat /\ nruns \in Nat
    BY DEF AgentsInv, AgentTypes
  <1>2. /\ ag[s].phase = "starting" /\ ag[s].eff = <<>>
        /\ UNCHANGED <<wlog, wf, wbox, told, hist, snap, ops, crashes, plan>>
    BY DEF AgentRecovers, bounds, AgentsInv, AgentsRest
  <1>3. "ready" \in Phases
    BY DEF Phases
  <1>4. \A r \in DOMAIN runs : runs[r].session # s
    BY <1>2 DEF AgentsInv, RunsLive
  <1>5. Tape(s) \in Seq(EntrySet) /\ ag[s].box \in Seq(AgentCommand)
    BY StoryTypes
  <1>6. CASE hist[s] = <<>>
    <2>1. ag' = [ag EXCEPT ![s].phase = "ready"] /\ UNCHANGED <<runs, nruns>>
      BY <1>6 DEF AgentRecovers
    <2>2. Alters(s, "ready", ag[s].running, ag[s].eff, ag[s].box)
      BY <1>1, <1>3, <2>1, SetsPhase
    <2>3. RunsLocal(s, "ready")
      BY <2>1, SameLocal
    <2>4. Local(s)
      BY <1>2, <2>2, <2>3, AltersLocal
    <2>5. Tape(s)' = Tape(s) /\ ag'[s].box = ag[s].box
      BY <1>2, <2>2 DEF Tape, Alters
    <2>6. Story(s) => Story(s)'
      BY <2>1, <2>5 DEF Story
    <2> QED BY <1>2, <2>4, <2>6
  <1>7. CASE hist[s] # <<>>
    <2>1. /\ ag' = [ag EXCEPT ![s].phase = "ready", ![s].running = nruns + 1]
          /\ StartRun(s, "continue")
      BY <1>7 DEF AgentRecovers
    <2>2. Alters(s, "ready", nruns + 1, ag[s].eff, ag[s].box)
      <3> DEFINE n == nruns + 1
      <3>1. n \in Nat /\ ag' = [ag EXCEPT ![s].phase = "ready", ![s].running = n]
        BY <1>1, <2>1
      <3> HIDE DEF n
      <3>2. Alters(s, "ready", n, ag[s].eff, ag[s].box)
        BY <1>1, <1>3, <3>1, SetsPhaseRunning
      <3> QED BY <3>2 DEF n
    <2>3. Begins(s, "continue")
      BY <2>1, StartRunFacts DEF AgentsInv
    <2>4. RunsLocal(s, "ready")
      BY <1>2, <1>4, <2>3, BeginsLocal DEF Kinds
    <2>5. Local(s)
      BY <1>2, <2>2, <2>4, AltersLocal
    <2>6. Tape(s)' = Tape(s) /\ ag'[s].box = ag[s].box
      BY <1>2, <2>2 DEF Tape, Alters
    <2>7. ASSUME Story(s) PROVE Story(s)'
      <3>1. RunsKnown(Tape(s), ag[s].box, nruns)
        BY <2>7 DEF Story
      <3>2. /\ RunsKnown(Tape(s), ag[s].box, nruns + 1)
            /\ RunInv(Tape(s), ag[s].box, nruns + 1, "continue", 0)
        BY <1>1, <1>5, <3>1, BeginsContinuing
      <3>3. ASSUME NEW r \in DOMAIN runs', runs'[r].session = s
            PROVE  RunInv(Tape(s), ag[s].box, r, runs'[r].kind, runs'[r].passed)
        <4>1. r = nruns + 1
          BY <1>4, <2>3, <3>3 DEF Begins
        <4>2. runs'[r].kind = "continue" /\ runs'[r].passed = 0
          BY <2>3, <4>1 DEF Begins
        <4> QED BY <3>2, <4>1, <4>2
      <3>4. Ordered(Tape(s)) /\ BoxInv(Tape(s), ag[s].box) /\ nruns' = nruns + 1
        BY <2>3, <2>7 DEF Story, Begins
      <3> QED BY <2>6, <3>2, <3>3, <3>4, StoryIs
    <2> QED BY <1>2, <2>5, <2>7
  <1> QED BY <1>6, <1>7

(* An agent that cannot recover has ended before it did anything.          *)
LEMMA RecoveryFailsStep ==
  ASSUME AgentsInv, NEW s \in 1 .. Len(ag), AgentRecoveryFails(s)
  PROVE  /\ Local(s) /\ UNCHANGED <<wlog, wf, wbox, told, hist, ops, crashes, plan>>
         /\ ag[s].phase # "down" /\ plan.journalFails
  <1>1. /\ ag[s].phase = "starting" /\ plan.journalFails
        /\ ag' = [ag EXCEPT ![s] = Agt("down", 0, <<>>, <<>>)]
        /\ UNCHANGED <<wlog, wf, wbox, told, hist, snap, runs, nruns, ops, crashes, plan>>
    BY FreshTypes DEF AgentRecoveryFails, others
  <1>2. ag \in Seq(AgentRec)
    BY DEF AgentsInv, AgentTypes
  <1>3. "down" \in Phases /\ <<>> \in Seq(EntrySet) /\ <<>> \in Seq(AgentCommand)
    BY EmptySeq DEF Phases
  <1>4. Alters(s, "down", 0, <<>>, <<>>)
    BY <1>1, <1>2, <1>3, AltersIs
  <1>5. \A r \in DOMAIN runs : runs[r].session # s
    BY <1>1 DEF AgentsInv, RunsLive
  <1>6. RunsLocal(s, "down")
    BY <1>1, <1>5, SameLocal
  <1> QED BY <1>1, <1>4, <1>6, AltersLocal

(* A command taken from an agent's mailbox.                                *)
LEMMA TakesFacts ==
  ASSUME AgentsInv, NEW s \in 1 .. Len(ag), NEW c, AgentTakes(s, c)
  PROVE  /\ ag[s].phase = "ready" /\ ag[s].box # <<>> /\ ag[s].box \in Seq(AgentCommand)
         /\ Head(ag[s].box) = ag[s].box[1] /\ ag[s].box[1].cmd = c
         /\ ag[s].box[1] \in AgentCommand /\ Tail(ag[s].box) \in Seq(AgentCommand)
         /\ ag[s] = Agt(ag[s].phase, ag[s].running, ag[s].eff, ag[s].box)
         /\ ag[s].running \in Nat /\ ag[s].eff = <<>> /\ ag[s].eff \in Seq(EntrySet)
         /\ ag \in Seq(AgentRec) /\ s \in DOMAIN ag /\ nruns \in Nat
  <1>1. ag[s].phase = "ready" /\ ag[s].box # <<>> /\ Head(ag[s].box).cmd = c
    BY DEF AgentTakes
  <1>2. /\ ag \in Seq(AgentRec) /\ nruns \in Nat
        /\ ag[s].phase # "persisting" => ag[s].eff = <<>>
    BY DEF AgentsInv, AgentTypes, AgentsRest
  <1>3. /\ ag[s] = Agt(ag[s].phase, ag[s].running, ag[s].eff, ag[s].box)
        /\ ag[s].running \in Nat /\ ag[s].eff \in Seq(EntrySet)
        /\ ag[s].box \in Seq(AgentCommand) /\ s \in DOMAIN ag
    BY <1>2, AgentFacts
  <1>4. /\ Head(ag[s].box) = ag[s].box[1] /\ ag[s].box[1] \in AgentCommand
        /\ Tail(ag[s].box) \in Seq(AgentCommand)
    BY <1>1, <1>3, WaitsTail
  <1> QED BY <1>1, <1>2, <1>3, <1>4

(* The tape of an actor that persists one entry.                           *)
LEMMA TapeOne ==
  ASSUME AgentsInv, NEW s \in 1 .. Len(ag), ag[s].eff = <<>>, NEW e \in EntrySet,
         ag'[s].eff = <<e>>, hist' = hist
  PROVE  Tape(s) = hist[s] /\ Tape(s)' = Append(Tape(s), e)
  <1>1. hist[s] \in Seq(EntrySet)
    BY StoryTypes
  <1>2. Tape(s) = hist[s]
    BY <1>1, ConcatEmptySeq DEF Tape
  <1>3. Tape(s)' = hist[s] \o <<e>>
    BY DEF Tape
  <1>4. Append(hist[s], e) = hist[s] \o <<e>>
    BY <1>1, AppendIsConcat
  <1> QED BY <1>2, <1>3, <1>4

(* An input begins a run, and is what the run's story begins with.         *)
LEMMA RunStepIs ==
  ASSUME AgentsInv, NEW s \in 1 .. Len(ag), AgentRun(s)
  PROVE  /\ Local(s) /\ UNCHANGED <<wlog, wf, wbox, told, hist, ops, crashes, plan>>
         /\ ag[s].phase # "down"
         /\ Story(s) => Story(s)'
  <1>0. AgentTakes(s, "Run") \/ AgentTakes(s, "InjectToolResult")
    BY DEF AgentRun
  <1>1. /\ ag[s].phase = "ready" /\ ag[s].box # <<>> /\ ag[s].box \in Seq(AgentCommand)
        /\ Head(ag[s].box) = ag[s].box[1]
        /\ ag[s].box[1].cmd \in {"Run", "InjectToolResult"}
        /\ ag[s].box[1] \in AgentCommand /\ Tail(ag[s].box) \in Seq(AgentCommand)
        /\ ag[s].eff = <<>> /\ ag \in Seq(AgentRec) /\ nruns \in Nat /\ nruns + 1 \in Nat
    BY <1>0, TakesFacts
  <1> DEFINE cmd  == Head(ag[s].box)
  <1> DEFINE kind == IF cmd.cmd = "Run" THEN "user" ELSE "reply"
  <1> DEFINE tool == IF cmd.cmd = "Run" THEN 0 ELSE cmd.tool
  <1> DEFINE e == Entry(nruns + 1, 0, kind, tool)
  <1> DEFINE b == Tail(ag[s].box)
  <1>2. kind \in Kinds /\ kind # "continue"
    BY DEF Kinds
  <1>3. tool \in Nat
    BY <1>1, CommandFacts
  <1>4. e \in EntrySet /\ e.run = nruns + 1 /\ e.n = 0 /\ e.kind = kind
    <2> HIDE DEF kind, tool
    <2> QED BY <1>1, <1>2, <1>3 DEF Entry, EntrySet
  <1>5. StartRun(s, kind)
    BY DEF AgentRun
  <1>6. UNCHANGED <<wlog, wf, wbox, told, hist, snap, ops, crashes, plan>>
    BY DEF AgentRun, bounds
  <1>7. ag' = [ag EXCEPT ![s] = Agt("persisting", nruns + 1, <<e>>, b)]
    BY <1>1 DEF AgentRun, Agt
  <1> HIDE DEF e, kind, b
  <1>8. <<e>> \in Seq(EntrySet) /\ "persisting" \in Phases /\ b \in Seq(AgentCommand)
    BY <1>1, <1>4 DEF Phases, b
  <1>9. Alters(s, "persisting", nruns + 1, <<e>>, b)
    BY <1>1, <1>7, <1>8, AltersIs
  <1>10. Begins(s, kind)
    BY <1>5, StartRunFacts DEF AgentsInv
  <1>11. RunsLocal(s, "persisting")
    BY <1>1, <1>2, <1>10, BeginsLocal
  <1>12. Local(s)
    BY <1>6, <1>9, <1>11, AltersLocal
  <1>13. ag'[s].eff = <<e>> /\ ag'[s].box = b
    BY <1>9 DEF Alters
  <1>14. Tape(s)' = Append(Tape(s), e)
    BY <1>1, <1>4, <1>6, <1>13, TapeOne
  <1>15. Tape(s) \in Seq(EntrySet)
    BY StoryTypes
  <1>16. ASSUME Story(s) PROVE Story(s)'
    <2> DEFINE T == Tape(s)
    <2>1. /\ Ordered(T) /\ BoxInv(T, ag[s].box) /\ RunsKnown(T, ag[s].box, nruns)
          /\ \A r \in DOMAIN runs : runs[r].session = s =>
               RunInv(T, ag[s].box, r, runs[r].kind, runs[r].passed)
      BY <1>16 DEF Story
    <2> HIDE DEF T
    <2>2. /\ BoxInv(T, b) /\ RunsKnown(T, b, nruns)
          /\ \A r \in DOMAIN runs : runs[r].session = s =>
               RunInv(T, b, r, runs[r].kind, runs[r].passed)
      BY <1>1, <1>15, <2>1, TakeOther DEF b, T
    <2> DEFINE U == Append(T, e)
    <2>3. /\ Ordered(U) /\ BoxInv(U, b) /\ RunsKnown(U, b, nruns + 1)
          /\ RunInv(U, b, nruns + 1, kind, 0)
          /\ \A r, k, p : r <= nruns /\ r \in Nat /\ RunInv(T, b, r, k, p)
               => RunInv(U, b, r, k, p)
      BY <1>1, <1>2, <1>4, <1>8, <1>15, <2>1, <2>2, BeginsWithInput DEF T
    <2>4. ASSUME NEW r \in DOMAIN runs', runs'[r].session = s
          PROVE  RunInv(U, b, r, runs'[r].kind, runs'[r].passed)
      <3> HIDE DEF U
      <3>1. CASE r \in DOMAIN runs
        <4>1. runs'[r] = runs[r] /\ r <= nruns /\ r \in Nat
          BY <1>1, <1>10, <3>1 DEF Begins, AgentsInv, AgentTypes
        <4> QED BY <2>2, <2>3, <2>4, <3>1, <4>1
      <3>2. CASE r = nruns + 1
        <4>1. runs'[r].kind = kind /\ runs'[r].passed = 0
          BY <1>10, <3>2 DEF Begins
        <4> QED BY <2>3, <3>2, <4>1
      <3> QED BY <1>10, <3>1, <3>2 DEF Begins
    <2>5. Tape(s)' = U /\ nruns' = nruns + 1
      BY <1>10, <1>14 DEF T, Begins
    <2> HIDE DEF U
    <2> QED BY <1>13, <2>3, <2>4, <2>5, StoryIs
  <1> QED BY <1>1, <1>6, <1>12, <1>16

(* An event of a run is persisted.                                         *)
LEMMA ProgressStep ==
  ASSUME AgentsInv, NEW s \in 1 .. Len(ag), AgentProgress(s)
  PROVE  /\ Local(s) /\ UNCHANGED <<wlog, wf, wbox, told, hist, ops, crashes, plan>>
         /\ ag[s].phase # "down"
         /\ Story(s) => Story(s)'
  <1>0. AgentTakes(s, "PersistProgress")
    BY DEF AgentProgress
  <1>1. /\ ag[s].phase = "ready" /\ ag[s].box # <<>> /\ ag[s].box \in Seq(AgentCommand)
        /\ Head(ag[s].box) = ag[s].box[1]
        /\ ag[s].box[1].cmd = "PersistProgress" /\ ag[s].box[1] \in AgentCommand
        /\ Tail(ag[s].box) \in Seq(AgentCommand)
        /\ ag[s].eff = <<>> /\ ag \in Seq(AgentRec) /\ ag[s].running \in Nat
    BY <1>0, TakesFacts
  <1> DEFINE e == ag[s].box[1].entry
  <1> DEFINE b == Tail(ag[s].box)
  <1>2. e \in EntrySet
    BY <1>1, CommandFacts
  <1>3. UNCHANGED <<wlog, wf, wbox, told, hist, snap, runs, nruns, ops, crashes, plan>>
    BY DEF AgentProgress, others
  <1>4. ag' = [ag EXCEPT ![s].phase = "persisting", ![s].box = Tail(@), ![s].eff = <<e>>]
    BY <1>1 DEF AgentProgress
  <1> HIDE DEF e
  <1>5. <<e>> \in Seq(EntrySet) /\ "persisting" \in Phases
    BY <1>2 DEF Phases
  <1>6. Alters(s, "persisting", ag[s].running, <<e>>, b)
    BY <1>1, <1>4, <1>5, SetsPhaseBoxEff
  <1> HIDE DEF b
  <1>7. RunsLocal(s, "persisting")
    BY <1>3, SameLocal
  <1>8. Local(s)
    BY <1>3, <1>6, <1>7, AltersLocal
  <1>9. ag'[s].eff = <<e>> /\ ag'[s].box = b
    BY <1>6 DEF Alters
  <1>10. Tape(s)' = Append(Tape(s), e)
    BY <1>1, <1>2, <1>3, <1>9, TapeOne
  <1>11. Tape(s) \in Seq(EntrySet)
    BY StoryTypes
  <1>12. ASSUME Story(s) PROVE Story(s)'
    <2> DEFINE T == Tape(s)
    <2> DEFINE U == Append(T, e)
    <2>1. /\ Ordered(T) /\ BoxInv(T, ag[s].box) /\ RunsKnown(T, ag[s].box, nruns)
          /\ \A r \in DOMAIN runs : runs[r].session = s =>
               RunInv(T, ag[s].box, r, runs[r].kind, runs[r].passed)
      BY <1>12 DEF Story
    <2>2. /\ Ordered(U) /\ BoxInv(U, b) /\ RunsKnown(U, b, nruns)
          /\ \A r, kind, passed : RunInv(T, ag[s].box, r, kind, passed)
               => RunInv(U, b, r, kind, passed)
      <3> HIDE DEF T
      <3>1. T \in Seq(EntrySet)
        BY <1>11 DEF T
      <3> QED BY <1>1, <2>1, <3>1, TakeProgress DEF b, e
    <2>3. \A r \in DOMAIN runs' : runs'[r].session = s =>
            RunInv(U, b, r, runs'[r].kind, runs'[r].passed)
      <3> HIDE DEF U, T
      <3> QED BY <1>3, <2>1, <2>2
    <2>4. Tape(s)' = U /\ nruns' = nruns
      BY <1>3, <1>10
    <2> HIDE DEF U
    <2> QED BY <1>9, <2>2, <2>3, <2>4, StoryIs
  <1> QED BY <1>1, <1>3, <1>8, <1>12

(* A cancelled run is as before, but for its token.                        *)
LEMMA CancelStep ==
  ASSUME AgentsInv, NEW s \in 1 .. Len(ag), AgentCancel(s)
  PROVE  /\ Local(s) /\ UNCHANGED <<wlog, wf, wbox, told, hist, ops, crashes, plan>>
         /\ ag[s].phase # "down"
         /\ Story(s) => Story(s)'
  <1>1. /\ ag[s].phase = "ready" /\ ag[s].box # <<>> /\ ag \in Seq(AgentRec)
        /\ ag[s].box[1].cmd = "Cancel" /\ ag[s].eff = <<>>
        /\ ag[s].box \in Seq(AgentCommand)
    BY TakesFacts DEF AgentCancel
  <1>2. UNCHANGED <<wlog, wf, wbox, told, hist, snap, nruns, ops, crashes, plan>>
    BY DEF AgentCancel, bounds
  <1>3. ag' = [ag EXCEPT ![s].box = Tail(@)]
    BY DEF AgentCancel
  <1>4. Alters(s, ag[s].phase, ag[s].running, ag[s].eff, Tail(ag[s].box))
    BY <1>1, <1>3, SetsBox
  <1>5. /\ DOMAIN runs' = DOMAIN runs
        /\ \A r \in DOMAIN runs : runs'[r] = IF r = ag[s].running
             THEN [runs[r] EXCEPT !.cancelled = TRUE] ELSE runs[r]
    BY DEF AgentCancel
  <1>6. ASSUME NEW r \in DOMAIN runs' PROVE Alike(r)
    <2>1. runs[r] \in RunRec
      BY <1>5 DEF AgentsInv, AgentTypes
    <2>2. \A x \in RunRec : LET y == [x EXCEPT !.cancelled = TRUE] IN
            /\ y \in RunRec /\ y.session = x.session /\ y.kind = x.kind
            /\ y.sent = x.sent /\ y.passed = x.passed
      BY DEF RunRec
    <2> QED BY <1>5, <2>1, <2>2 DEF Alike
  <1>7. RunsLocal(s, ag[s].phase)
    BY <1>1, <1>2, <1>5, <1>6, SameLocal
  <1>8. Local(s)
    BY <1>1, <1>2, <1>4, <1>7, AltersLocal
  <1>9. Tape(s)' = Tape(s) /\ ag'[s].box = Tail(ag[s].box)
    BY <1>2, <1>4 DEF Alters, Tape
  <1>10. Tape(s) \in Seq(EntrySet)
    BY StoryTypes
  <1>11. ASSUME Story(s) PROVE Story(s)'
    <2> DEFINE T == Tape(s)
    <2> DEFINE b == Tail(ag[s].box)
    <2>1. /\ Ordered(T) /\ BoxInv(T, ag[s].box) /\ RunsKnown(T, ag[s].box, nruns)
          /\ \A r \in DOMAIN runs : runs[r].session = s =>
               RunInv(T, ag[s].box, r, runs[r].kind, runs[r].passed)
      BY <1>11 DEF Story
    <2>2. /\ BoxInv(T, b) /\ RunsKnown(T, b, nruns)
          /\ \A r, kind, passed : RunInv(T, ag[s].box, r, kind, passed)
               => RunInv(T, b, r, kind, passed)
      <3> HIDE DEF T
      <3>1. T \in Seq(EntrySet)
        BY <1>10 DEF T
      <3> QED BY <1>1, <2>1, <3>1, TakeOther
    <2>3. \A r \in DOMAIN runs' : runs'[r].session = s =>
            RunInv(T, b, r, runs'[r].kind, runs'[r].passed)
      <3> HIDE DEF T, b
      <3> QED BY <1>5, <1>6, <2>1, <2>2 DEF Alike
    <2>4. Tape(s)' = T /\ nruns' = nruns /\ ag'[s].box = b
      BY <1>2, <1>9
    <2> HIDE DEF T, b
    <2> QED BY <2>1, <2>2, <2>3, <2>4, StoryIs
  <1> QED BY <1>1, <1>2, <1>8, <1>11

(* A command that carries no event is taken, and the runs go on.           *)
LEMMA TakeStory ==
  ASSUME AgentsInv, NEW s \in 1 .. Len(ag), ag[s].box # <<>>,
         ag[s].box[1].cmd # "PersistProgress",
         Tape(s)' = Tape(s), ag'[s].box = Tail(ag[s].box), UNCHANGED <<runs, nruns>>, Story(s)
  PROVE  Story(s)'
  <1> DEFINE T == Tape(s)
  <1> DEFINE b == Tail(ag[s].box)
  <1>1. /\ Ordered(T) /\ BoxInv(T, ag[s].box) /\ RunsKnown(T, ag[s].box, nruns)
        /\ \A r \in DOMAIN runs : runs[r].session = s =>
             RunInv(T, ag[s].box, r, runs[r].kind, runs[r].passed)
    BY DEF Story
  <1>2. /\ BoxInv(T, b) /\ RunsKnown(T, b, nruns)
        /\ \A r, kind, passed : RunInv(T, ag[s].box, r, kind, passed)
             => RunInv(T, b, r, kind, passed)
    <2> HIDE DEF T
    <2>1. T \in Seq(EntrySet) /\ ag[s].box \in Seq(AgentCommand)
      BY StoryTypes DEF T
    <2> QED BY <1>1, <2>1, TakeOther
  <1>3. \A r \in DOMAIN runs' : runs'[r].session = s =>
          RunInv(T, b, r, runs'[r].kind, runs'[r].passed)
    <2> HIDE DEF T, b
    <2> QED BY <1>1, <1>2
  <1>4. Tape(s)' = T /\ nruns' = nruns /\ ag'[s].box = b
    OBVIOUS
  <1> HIDE DEF T, b
  <1> QED BY <1>1, <1>2, <1>3, <1>4, StoryIs

(* A session without an actor has its journal, and no more.                *)
LEMMA GoneStory ==
  ASSUME AgentsInv, NEW s \in 1 .. Len(ag), ag[s].eff = <<>>, hist' = hist,
         ag'[s].eff = <<>>, ag'[s].box = <<>>, UNCHANGED nruns,
         \A r \in DOMAIN runs' : runs'[r].session # s, Story(s)
  PROVE  Story(s)'
  <1>1. Tape(s)' = Tape(s)
    BY DEF Tape
  <1>2. Tape(s) \in Seq(EntrySet)
    BY StoryTypes
  <1>3. Ordered(Tape(s)) /\ RunsKnown(Tape(s), ag[s].box, nruns)
    BY DEF Story
  <1> DEFINE T == Tape(s)
  <1>4. BoxInv(T, <<>>) /\ RunsKnown(T, <<>>, nruns)
    <2>1. T \in Seq(EntrySet) /\ RunsKnown(T, ag[s].box, nruns)
      BY <1>2, <1>3
    <2> HIDE DEF T
    <2> QED BY <2>1, EmptyBox
  <1> QED BY <1>1, <1>3, <1>4, StoryIs

(* What an actor has reported is what its parent is told.                  *)
LEMMA FinishedIs ==
  ASSUME AgentsInv, NEW s \in 1 .. Len(ag), AgentFinished(s)
  PROVE  LET c == ag[s].box[1] IN
         /\ UNCHANGED <<wlog, wf, told, hist, ops, crashes, plan>>
         /\ ag[s].phase # "down" /\ ag[s].phase # "persisting" /\ ag[s].eff = <<>>
         /\ ag[s].box # <<>> /\ c.cmd = "RunFinished"
         /\ UNCHANGED nruns
         /\ snap' = snap \/ snap' = [snap EXCEPT ![s] = Len(hist[s])]
         /\ \/ wbox' = wbox
            \/ \E x \in Reports :
                 wbox' = Append(wbox, [cmd |-> x, session |-> s, run |-> c.run, sent |-> c.sent,
                                       kind |-> c.kind, outcome |-> c.outcome])
         /\ \/ /\ Alters(s, "down", 0, <<>>, <<>>) /\ snap' = snap
               /\ runs' = Only(Heard(s))
            \/ \E p \in {"ready", "persisting"} :
                 /\ Alters(s, p, 0, <<>>, Tail(ag[s].box))
                 /\ UNCHANGED runs
  <1>1. /\ ag[s].phase = "ready" /\ ag[s].box # <<>> /\ ag \in Seq(AgentRec)
        /\ Head(ag[s].box) = ag[s].box[1]
        /\ ag[s].box[1].cmd = "RunFinished" /\ ag[s].eff = <<>>
    BY TakesFacts DEF AgentFinished
  <1> DEFINE c == ag[s].box[1]
  <1> DEFINE Message(x) == [cmd |-> x, session |-> s, run |-> c.run, sent |-> c.sent,
                            kind |-> c.kind, outcome |-> c.outcome]
  <1>2. UNCHANGED <<wlog, wf, told, hist, nruns, ops, crashes, plan>>
    BY DEF AgentFinished, bounds
  <1>3. ASSUME NEW x \in Reports, TellParent(Message(x))
        PROVE  \/ wbox' = wbox
               \/ \E y \in Reports : wbox' = Append(wbox, Message(y))
    <2> HIDE DEF c
    <2> QED BY <1>3 DEF TellParent
  <1>4. ASSUME ag' = [ag EXCEPT ![s] = GoneAgent]
        PROVE  Alters(s, "down", 0, <<>>, <<>>)
    <2>1. ag' = [ag EXCEPT ![s] = Agt("down", 0, <<>>, <<>>)]
      BY <1>4, FreshTypes
    <2>2. "down" \in Phases /\ <<>> \in Seq(EntrySet) /\ <<>> \in Seq(AgentCommand)
      BY EmptySeq DEF Phases
    <2> QED BY <1>1, <2>1, <2>2, AltersIs
  <1>5. ASSUME NEW p \in {"ready", "persisting"},
               ag' = [ag EXCEPT ![s].phase = p, ![s].running = 0, ![s].box = Tail(@)]
        PROVE  Alters(s, p, 0, <<>>, Tail(ag[s].box))
    <2>1. p \in Phases /\ 0 \in Nat
      BY DEF Phases
    <2> DEFINE n == 0
    <2>2. n \in Nat /\ ag' = [ag EXCEPT ![s].phase = p, ![s].running = n, ![s].box = Tail(@)]
      BY <1>5
    <2> HIDE DEF n
    <2>3. Alters(s, p, n, ag[s].eff, Tail(ag[s].box))
      BY <1>1, <2>1, <2>2, SetsPhaseRunningBox
    <2> QED BY <1>1, <2>3 DEF n
  <1>6. /\ "AgentConcluded" \in Reports /\ "AgentFailed" \in Reports /\ "AgentAsked" \in Reports
    BY DEF Reports
  <1>7. CASE /\ TellParent(Message("AgentConcluded")) \/ TellParent(Message("AgentFailed"))
             /\ ag' = [ag EXCEPT ![s] = GoneAgent] /\ runs' = Only(Heard(s))
             /\ UNCHANGED snap
    <2> HIDE DEF Message
    <2>1. \/ wbox' = wbox
          \/ \E y \in Reports : wbox' = Append(wbox, Message(y))
      BY <1>3, <1>6, <1>7
    <2> QED BY <1>1, <1>2, <1>4, <1>7, <2>1 DEF Message
  <1>8. CASE /\ TellParent(Message("AgentAsked"))
             /\ ag' = [ag EXCEPT ![s].phase = "ready", ![s].running = 0, ![s].box = Tail(@)]
             /\ snap' = IF plan.snapshots THEN [snap EXCEPT ![s] = Len(hist[s])] ELSE snap
             /\ UNCHANGED runs
    <2> HIDE DEF Message
    <2>1. \/ wbox' = wbox
          \/ \E y \in Reports : wbox' = Append(wbox, Message(y))
      BY <1>3, <1>6, <1>8
    <2> QED BY <1>1, <1>2, <1>5, <1>8, <2>1 DEF Message
  <1>9. CASE /\ ag' = [ag EXCEPT ![s].phase = "persisting", ![s].running = 0, ![s].box = Tail(@)]
             /\ snap' = IF plan.snapshots THEN [snap EXCEPT ![s] = Len(hist[s])] ELSE snap
             /\ UNCHANGED <<wbox, runs>>
    BY <1>1, <1>2, <1>5, <1>9
  <1> QED BY <1>1, <1>7, <1>8, <1>9 DEF AgentFinished

(* The outcome of a run: what the parent hears is durable.                 *)
LEMMA FinishedStep ==
  ASSUME AgentsInv, NEW s \in 1 .. Len(ag), AgentFinished(s)
  PROVE  /\ Local(s) /\ UNCHANGED <<wlog, wf, told, hist, ops, crashes, plan>>
         /\ ag[s].phase # "down"
         /\ Story(s) => Story(s)'
         /\ \/ wbox' = wbox
            \/ \E c \in FlowCommand :
                 /\ wbox' = Append(wbox, c) /\ c.cmd \in Reports /\ c.session = s
                 /\ Story(s) => \A n \in First(c.kind) .. c.sent : Has(hist[s], c.run, n)
  <1> DEFINE c == ag[s].box[1]
  <1> DEFINE Message(x) == [cmd |-> x, session |-> s, run |-> c.run, sent |-> c.sent,
                            kind |-> c.kind, outcome |-> c.outcome]
  <1>1. /\ UNCHANGED <<wlog, wf, told, hist, ops, crashes, plan>>
        /\ ag[s].phase # "down" /\ ag[s].phase # "persisting" /\ ag[s].eff = <<>>
        /\ ag[s].box # <<>> /\ c.cmd = "RunFinished"
        /\ UNCHANGED nruns
        /\ snap' = snap \/ snap' = [snap EXCEPT ![s] = Len(hist[s])]
        /\ wbox' = wbox \/ \E x \in Reports : wbox' = Append(wbox, Message(x))
        /\ \/ /\ Alters(s, "down", 0, <<>>, <<>>) /\ snap' = snap
              /\ runs' = Only(Heard(s))
           \/ \E p \in {"ready", "persisting"} :
                /\ Alters(s, p, 0, <<>>, Tail(ag[s].box))
                /\ UNCHANGED runs
    BY FinishedIs
  <1>2. /\ ag[s].box \in Seq(AgentCommand) /\ Tape(s) \in Seq(EntrySet)
        /\ Tape(s) = hist[s] /\ hist[s] \in Seq(EntrySet) /\ s \in Nat
    BY <1>1, StoryTypes
  <1>3. /\ snap' \in Seq(Nat) /\ Len(snap') = Len(snap) /\ snap'[s] <= Len(hist[s])
        /\ \A t \in 1 .. Len(ag) : t # s => snap'[t] = snap[t]
    <2>1. snap \in Seq(Nat) /\ Len(snap) = Len(ag) /\ snap[s] <= Len(hist[s])
      BY DEF AgentsInv, AgentTypes, Lengths
    <2>2. Len(hist[s]) \in Nat
      BY <1>2
    <2>3. CASE snap' = snap
      BY <2>1, <2>3
    <2>4. CASE snap' = [snap EXCEPT ![s] = Len(hist[s])]
      BY <2>1, <2>2, <2>4, ExceptSeq
    <2> QED BY <1>1, <2>3, <2>4
  <1>4. ASSUME Alters(s, "down", 0, <<>>, <<>>), runs' = Only(Heard(s))
        PROVE  Local(s) /\ (Story(s) => Story(s)')
    <2>1. /\ DOMAIN runs' \subseteq DOMAIN runs
          /\ \A r \in DOMAIN runs' : runs'[r] = runs[r] /\ runs[r].session # s
      BY <1>4 DEF Only, Heard
    <2>2. RunsLocal(s, "down")
      BY <1>1, <2>1, SameLocal
    <2>3. ag'[s] = GoneAgent /\ ag'[s].phase = "down" /\ ag'[s].eff = <<>> /\ ag'[s].box = <<>>
      BY <1>4, FreshTypes DEF Alters
    <2>4. Local(s)
      BY <1>1, <1>3, <1>4, <2>2, <2>3 DEF Local, Alters, AgentsInv, AgentTypes
    <2>5. Story(s) => Story(s)'
      BY <1>1, <2>1, <2>3, GoneStory
    <2> QED BY <2>4, <2>5
  <1>5. ASSUME NEW p \in {"ready", "persisting"}, Alters(s, p, 0, <<>>, Tail(ag[s].box)),
               UNCHANGED runs
        PROVE  Local(s) /\ (Story(s) => Story(s)')
    <2>1. RunsLocal(s, p)
      BY <1>1, <1>5, SameLocal
    <2>2. ag'[s].phase = p /\ ag'[s].eff = <<>> /\ ag'[s].box = Tail(ag[s].box)
      BY <1>5 DEF Alters
    <2>3. Local(s)
      BY <1>1, <1>3, <1>5, <2>1, <2>2 DEF Local, Alters, AgentsInv, AgentTypes
    <2>4. Tape(s)' = Tape(s)
      BY <1>1, <2>2 DEF Tape
    <2>5. Story(s) => Story(s)'
      BY <1>1, <1>5, <2>2, <2>4, TakeStory
    <2> QED BY <2>3, <2>5
  <1>6. Local(s) /\ (Story(s) => Story(s)')
    BY <1>1, <1>4, <1>5
  <1>7. ASSUME NEW x \in Reports
        PROVE  /\ Message(x) \in FlowCommand /\ Message(x).cmd = x /\ Message(x).session = s
               /\ Story(s) => \A n \in First(Message(x).kind) .. Message(x).sent :
                                Has(hist[s], Message(x).run, n)
    <2>1. c \in AgentCommand /\ Len(ag[s].box) \in Nat /\ 1 \in 1 .. Len(ag[s].box)
      <3>1. Len(ag[s].box) \in Nat /\ Len(ag[s].box) >= 1 /\ ag[s].box[1] \in AgentCommand
        BY <1>1, <1>2, WaitsTail
      <3> QED BY <3>1
    <2>2. c.run \in Nat /\ c.sent \in Nat /\ c.kind \in Kinds /\ c.outcome \in Outcome
      <3> HIDE DEF c
      <3> QED BY <1>1, <2>1, CommandFacts
    <2>3. Message(x) \in FlowCommand
      <3> HIDE DEF c
      <3> QED BY <1>2, <2>2 DEF FlowCommand
    <2>4. ASSUME Story(s), NEW n \in First(c.kind) .. c.sent
          PROVE  Has(hist[s], c.run, n)
      <3>1. BoxInv(Tape(s), ag[s].box)
        BY <2>4 DEF Story
      <3>2. Due(Tape(s), ag[s].box, 1, c.run, n)
        BY <1>1, <2>1, <2>4, <3>1 DEF BoxInv
      <3>3. ~Waits(ag[s].box, 1, c.run, n)
        BY DEF Waits
      <3> QED BY <1>2, <3>2, <3>3 DEF Due
    <2> QED BY <2>3, <2>4
  <1>8. ASSUME NEW x \in Reports, wbox' = Append(wbox, Message(x))
        PROVE  \E m \in FlowCommand :
                 /\ wbox' = Append(wbox, m) /\ m.cmd \in Reports /\ m.session = s
                 /\ Story(s) => \A n \in First(m.kind) .. m.sent : Has(hist[s], m.run, n)
    <2> HIDE DEF Message
    <2> QED BY <1>7, <1>8
  <1> QED BY <1>1, <1>6, <1>8

(* A journal that is continued.                                            *)
LEMMA HasConcat ==
  ASSUME NEW T \in Seq(EntrySet), NEW U \in Seq(EntrySet)
  PROVE  /\ T \o U \in Seq(EntrySet) /\ Len(T) \in Nat /\ Len(T) <= Len(T \o U)
         /\ \A r, n : Has(T, r, n) => Has(T \o U, r, n)
  <1> DEFINE V == T \o U
  <1>1. /\ V \in Seq(EntrySet) /\ Len(V) = Len(T) + Len(U)
        /\ \A j \in 1 .. Len(T) : V[j] = T[j]
    BY ConcatProperties
  <1>2. Len(T) \in Nat /\ Len(U) \in Nat
    OBVIOUS
  <1> HIDE DEF V
  <1>3. Len(T) <= Len(V) /\ \A j \in 1 .. Len(T) : j \in 1 .. Len(V)
    BY <1>1, <1>2
  <1>4. \A r, n : Has(T, r, n) => Has(V, r, n)
    BY <1>1, <1>3 DEF Has
  <1> QED BY <1>1, <1>2, <1>3, <1>4 DEF V

(* The entry of a persisting actor is stored, or the journal refuses it.   *)
LEMMA PersistsStep ==
  ASSUME AgentsInv, NEW s \in 1 .. Len(ag), NEW stored \in BOOLEAN, AgentPersists(s, stored)
  PROVE  /\ Local(s) /\ UNCHANGED <<wlog, wf, wbox, told, ops, crashes, plan>>
         /\ ag[s].phase # "down"
         /\ \A r, n : Has(hist[s], r, n) => Has(hist'[s], r, n)
         /\ stored /\ Story(s) => Story(s)'
  <1>1. /\ ag[s].phase = "persisting"
        /\ hist' = IF stored THEN [hist EXCEPT ![s] = @ \o ag[s].eff] ELSE hist
        /\ ag' = [ag EXCEPT ![s].phase = "ready", ![s].eff = <<>>]
        /\ UNCHANGED <<wlog, wf, wbox, told, snap, runs, nruns, ops, crashes, plan>>
    BY DEF AgentPersists, others
  <1>2. /\ hist[s] \in Seq(EntrySet) /\ ag[s].eff \in Seq(EntrySet) /\ Tape(s) \in Seq(EntrySet)
        /\ ag \in Seq(AgentRec)
    BY StoryTypes DEF AgentsInv, AgentTypes
  <1>3. /\ hist \in Seq(Seq(EntrySet)) /\ Len(hist) = Len(ag)
        /\ snap \in Seq(Nat) /\ Len(snap) = Len(ag) /\ snap[s] <= Len(hist[s]) /\ snap[s] \in Nat
    BY DEF AgentsInv, AgentTypes, Lengths
  <1>4. Alters(s, "ready", ag[s].running, <<>>, ag[s].box)
    <2>1. "ready" \in Phases
      BY DEF Phases
    <2> DEFINE e == <<>>
    <2>2. e \in Seq(EntrySet) /\ ag' = [ag EXCEPT ![s].phase = "ready", ![s].eff = e]
      BY <1>1, EmptySeq
    <2> HIDE DEF e
    <2>3. Alters(s, "ready", ag[s].running, e, ag[s].box)
      BY <1>2, <2>1, <2>2, SetsPhaseEff
    <2> QED BY <2>3 DEF e
  <1>5. /\ Len(hist[s]) \in Nat /\ Len(Tape(s)) \in Nat /\ Len(hist[s]) <= Len(Tape(s))
        /\ \A r, n : Has(hist[s], r, n) => Has(Tape(s), r, n)
    <2>1. Len(Tape(s)) \in Nat
      BY <1>2
    <2> QED BY <1>2, <2>1, HasConcat DEF Tape
  <1>6. /\ hist' \in Seq(Seq(EntrySet)) /\ Len(hist') = Len(hist)
        /\ hist'[s] = IF stored THEN Tape(s) ELSE hist[s]
        /\ \A t \in 1 .. Len(ag) : t # s => hist'[t] = hist[t]
    <2>1. CASE stored
      <3> DEFINE U == Tape(s)
      <3>1. hist' = [hist EXCEPT ![s] = U]
        BY <1>1, <2>1 DEF Tape
      <3>2. U \in Seq(EntrySet)
        BY <1>2
      <3> HIDE DEF U
      <3>3. /\ hist' \in Seq(Seq(EntrySet)) /\ Len(hist') = Len(hist) /\ hist'[s] = U
            /\ \A t \in 1 .. Len(ag) : t # s => hist'[t] = hist[t]
        BY <1>3, <3>1, <3>2, ExceptSeq
      <3> QED BY <2>1, <3>3 DEF U
    <2>2. CASE ~stored
      BY <1>1, <1>3, <2>2
    <2> QED BY <2>1, <2>2
  <1>8. snap'[s] <= Len(hist'[s])
    BY <1>1, <1>3, <1>5, <1>6
  <1>9. RunsLocal(s, "ready")
    BY <1>1, SameLocal
  <1>10. ag'[s].phase = "ready" /\ ag'[s].eff = <<>> /\ ag'[s].box = ag[s].box
    BY <1>4 DEF Alters
  <1>11. Local(s)
    BY <1>1, <1>3, <1>4, <1>6, <1>8, <1>9, <1>10 DEF Local, Alters
  <1>12. \A r, n : Has(hist[s], r, n) => Has(hist'[s], r, n)
    BY <1>5, <1>6
  <1>13. ASSUME stored, Story(s) PROVE Story(s)'
    <2>1. Tape(s)' = Tape(s)
      <3>1. hist'[s] = Tape(s) /\ ag'[s].eff = <<>>
        BY <1>6, <1>10, <1>13
      <3>2. Tape(s)' = hist'[s] \o ag'[s].eff
        BY DEF Tape
      <3> QED BY <1>2, <3>1, <3>2, ConcatEmptySeq
    <2> QED BY <1>1, <1>10, <1>13, <2>1 DEF Story
  <1> QED BY <1>1, <1>11, <1>12, <1>13

-----------------------------------------------------------------------------
(* The steps of the background runs. *)

(* A run belongs to a session whose actor is up.                           *)
LEMMA RunFacts ==
  ASSUME AgentsInv, NEW r \in DOMAIN runs
  PROVE  /\ r \in 1 .. nruns /\ runs[r] \in RunRec
         /\ runs[r].session \in 1 .. Len(ag)
         /\ ag[runs[r].session].phase \in {"ready", "persisting"}
         /\ runs[r].passed \in Nat /\ runs[r].sent \in Nat /\ runs[r].passed <= runs[r].sent
         /\ runs[r].kind \in Kinds /\ runs[r].outcome \in Outcome \cup {"none"}
         /\ nruns \in Nat
  <1>1. r \in 1 .. nruns /\ runs[r] \in RunRec /\ nruns \in Nat
    BY DEF AgentsInv, AgentTypes
  <1>2. /\ runs[r].session \in 1 .. Len(ag) /\ runs[r].passed <= runs[r].sent
        /\ ag[runs[r].session].phase \in {"ready", "persisting"}
    BY DEF AgentsInv, RunsLive
  <1> QED BY <1>1, <1>2 DEF RunRec

(* Nothing changes but a run, which stays what its story says.             *)
LEMMA OnlyRun ==
  ASSUME AgentsInv, NEW r \in DOMAIN runs, NEW s, s = runs[r].session,
         UNCHANGED <<ag, hist, snap, nruns>>,
         DOMAIN runs' = DOMAIN runs, \A q \in DOMAIN runs : q # r => runs'[q] = runs[q],
         runs'[r] \in RunRec, runs'[r].session = runs[r].session,
         runs'[r].kind = runs[r].kind, runs'[r].passed = runs[r].passed,
         runs'[r].passed <= runs'[r].sent
  PROVE  Local(s) /\ (Story(s) => Story(s)')
  <1>1. s \in 1 .. Len(ag) /\ ag[s].phase \in {"ready", "persisting"}
    BY RunFacts
  <1>2. RunsLocal(s, ag[s].phase)
    BY <1>1, SameLocal
  <1>3. Local(s)
    BY <1>1, <1>2 DEF Local, AgentsInv, AgentTypes, Lengths, AgentsRest
  <1>4. Tape(s)' = Tape(s)
    BY DEF Tape
  <1>5. \A q \in DOMAIN runs' : /\ q \in DOMAIN runs /\ runs'[q].session = runs[q].session
                                /\ runs'[q].kind = runs[q].kind /\ runs'[q].passed = runs[q].passed
    OBVIOUS
  <1>6. Story(s) => Story(s)'
    <2>1. SUFFICES ASSUME Story(s) PROVE Story(s)'
      OBVIOUS
    <2>2. \A q \in DOMAIN runs' : runs'[q].session = s =>
            RunInv(Tape(s), ag[s].box, q, runs'[q].kind, runs'[q].passed)
      BY <1>5, <2>1 DEF Story
    <2>3. /\ Ordered(Tape(s)) /\ BoxInv(Tape(s), ag[s].box)
          /\ RunsKnown(Tape(s), ag[s].box, nruns')
      BY <2>1 DEF Story
    <2>4. Tape(s)' = Tape(s) /\ ag'[s].box = ag[s].box
      BY <1>4
    <2> QED BY <2>2, <2>3, <2>4, StoryIs
  <1> QED BY <1>3, <1>6

(* A coarse event is emitted.                                              *)
LEMMA EmitStep ==
  ASSUME AgentsInv, NEW r \in DOMAIN runs, NEW s, s = runs[r].session, Emit(r)
  PROVE  /\ Local(s) /\ UNCHANGED <<wlog, wf, wbox, told, hist, ops, crashes, plan>>
         /\ Story(s) => Story(s)'
  <1>1. UNCHANGED <<wlog, wf, wbox, told, ag, hist, snap, nruns, ops, crashes, plan>>
    BY DEF Emit, agents, bounds
  <1>2. /\ DOMAIN runs' = DOMAIN runs
        /\ \A q \in DOMAIN runs : q # r => runs'[q] = runs[q]
        /\ runs'[r] = [runs[r] EXCEPT !.sent = @ + 1]
    BY DEF Emit
  <1>3. runs[r] \in RunRec /\ runs[r].passed <= runs[r].sent
    BY RunFacts
  <1>4. \A x \in RunRec : LET y == [x EXCEPT !.sent = @ + 1] IN
          /\ y \in RunRec /\ y.session = x.session /\ y.kind = x.kind
          /\ y.passed = x.passed /\ (x.passed <= x.sent => y.passed <= y.sent)
    BY DEF RunRec
  <1>5. /\ runs'[r] \in RunRec /\ runs'[r].session = runs[r].session
        /\ runs'[r].kind = runs[r].kind /\ runs'[r].passed = runs[r].passed
        /\ runs'[r].passed <= runs'[r].sent
    BY <1>2, <1>3, <1>4
  <1> QED BY <1>1, <1>2, <1>5, OnlyRun

(* A run returns its outcome.                                              *)
LEMMA ReturnStep ==
  ASSUME AgentsInv, NEW r \in DOMAIN runs, NEW s, s = runs[r].session, Return(r)
  PROVE  /\ Local(s) /\ UNCHANGED <<wlog, wf, wbox, told, hist, ops, crashes, plan>>
         /\ Story(s) => Story(s)'
  <1>1. UNCHANGED <<wlog, wf, wbox, told, ag, hist, snap, nruns, ops, crashes, plan>>
    BY DEF Return, agents, bounds
  <1>2. PICK o \in Outcomes(r) : runs' = [runs EXCEPT ![r].outcome = o]
    BY DEF Return
  <1>3. o \in Outcome
    BY <1>2 DEF Outcomes, Outcome
  <1>4. /\ DOMAIN runs' = DOMAIN runs
        /\ \A q \in DOMAIN runs : q # r => runs'[q] = runs[q]
        /\ runs'[r] = [runs[r] EXCEPT !.outcome = o]
    BY <1>2
  <1>5. runs[r] \in RunRec /\ runs[r].passed <= runs[r].sent
    BY RunFacts
  <1>6. \A x \in RunRec : LET y == [x EXCEPT !.outcome = o] IN
          /\ y \in RunRec /\ y.session = x.session /\ y.kind = x.kind
          /\ y.passed = x.passed /\ y.sent = x.sent
    BY <1>3 DEF RunRec
  <1>7. /\ runs'[r] \in RunRec /\ runs'[r].session = runs[r].session
        /\ runs'[r].kind = runs[r].kind /\ runs'[r].passed = runs[r].passed
        /\ runs'[r].passed <= runs'[r].sent
    BY <1>4, <1>5, <1>6
  <1> QED BY <1>1, <1>4, <1>7, OnlyRun

(* The next event of a run is passed on to its actor.                      *)
LEMMA ForwardStep ==
  ASSUME AgentsInv, NEW r \in DOMAIN runs, NEW s, s = runs[r].session, Forward(r)
  PROVE  /\ Local(s) /\ UNCHANGED <<wlog, wf, wbox, told, hist, ops, crashes, plan>>
         /\ Story(s) => Story(s)'
  <1> DEFINE n == runs[r].passed + 1
  <1> DEFINE e == Entry(r, n, runs[r].kind, 0)
  <1> DEFINE c == [cmd |-> "PersistProgress", entry |-> e]
  <1>1. /\ r \in 1 .. nruns /\ runs[r] \in RunRec /\ s \in 1 .. Len(ag)
        /\ ag[s].phase \in {"ready", "persisting"} /\ ag \in Seq(AgentRec)
        /\ runs[r].passed \in Nat /\ runs[r].sent \in Nat /\ runs[r].kind \in Kinds /\ nruns \in Nat
    BY RunFacts DEF AgentsInv, AgentTypes
  <1>2. /\ UNCHANGED <<wlog, wf, wbox, told, hist, snap, nruns, ops, crashes, plan>>
        /\ n <= runs[r].sent /\ ag' = Delivered(s, c)
        /\ runs' = [runs EXCEPT ![r].passed = n]
    BY DEF Forward, bounds
  <1>3. /\ DOMAIN runs' = DOMAIN runs
        /\ \A q \in DOMAIN runs : q # r => runs'[q] = runs[q]
        /\ runs'[r] = [runs[r] EXCEPT !.passed = n]
    BY <1>2
  <1>4. n \in Nat /\ n = runs[r].passed + 1
    BY <1>1
  <1>5. e \in EntrySet /\ e.run = r /\ e.n = n /\ e.kind = runs[r].kind
    <2> HIDE DEF n
    <2> QED BY <1>1, <1>4 DEF Entry, EntrySet
  <1>6. c \in AgentCommand /\ c.cmd = "PersistProgress" /\ c.entry = e
    <2> HIDE DEF e
    <2> QED BY <1>5, CommandTypes
  <1> HIDE DEF n, e, c
  <1>7. /\ runs'[r] \in RunRec /\ runs'[r].session = s /\ runs'[r].kind = runs[r].kind
        /\ runs'[r].passed = n /\ runs'[r].passed <= runs'[r].sent
    <2>1. \A x \in RunRec : LET y == [x EXCEPT !.passed = n] IN
            /\ y \in RunRec /\ y.session = x.session /\ y.kind = x.kind
            /\ y.passed = n /\ y.sent = x.sent
      BY <1>4 DEF RunRec
    <2> QED BY <1>1, <1>2, <1>3, <2>1
  <1>8. /\ Append(ag[s].box, c) \in Seq(AgentCommand)
        /\ Alters(s, ag[s].phase, ag[s].running, ag[s].eff, Append(ag[s].box, c))
    <2>1. s \in 0 .. Len(ag) /\ s # 0 /\ ag[s].phase # "down"
      BY <1>1
    <2> QED BY <1>1, <1>2, <1>6, <2>1, DeliveredFacts
  <1>9. RunsLocal(s, ag[s].phase)
    <2>1. runs[r].session = s /\ UNCHANGED nruns /\ DOMAIN runs' \subseteq DOMAIN runs
      BY <1>2, <1>3
    <2>2. \A q \in DOMAIN runs' :
            \/ runs'[q] = runs[q]
            \/ runs[q].session = s /\ runs'[q].session = s /\ runs'[q] \in RunRec
               /\ runs'[q].passed <= runs'[q].sent
      BY <1>3, <1>7, <2>1
    <2> QED BY <1>1, <2>1, <2>2, SameLocal
  <1>10. ag[s].phase # "persisting" => ag[s].eff = <<>>
    BY <1>1 DEF AgentsInv, AgentsRest
  <1>11. Local(s)
    <2> QED BY <1>1, <1>2, <1>8, <1>9, <1>10, AltersLocal
  <1>12. Tape(s)' = Tape(s) /\ ag'[s].box = Append(ag[s].box, c)
    BY <1>2, <1>8 DEF Alters, Tape
  <1>13. ASSUME Story(s) PROVE Story(s)'
    <2> DEFINE T == Tape(s)
    <2> DEFINE B == ag[s].box
    <2> DEFINE D == Append(B, c)
    <2>1. /\ Ordered(T) /\ BoxInv(T, B) /\ RunsKnown(T, B, nruns)
          /\ \A q \in DOMAIN runs : runs[q].session = s =>
               RunInv(T, B, q, runs[q].kind, runs[q].passed)
      BY <1>13 DEF Story
    <2>2. T \in Seq(EntrySet) /\ B \in Seq(AgentCommand)
      BY <1>1, StoryTypes
    <2> HIDE DEF T, B
    <2>3. RunInv(T, B, r, runs[r].kind, runs[r].passed)
      BY <2>1
    <2> DEFINE m == runs[r].passed
    <2>4. m \in Nat /\ c.entry.n = m + 1 /\ RunInv(T, B, c.entry.run, c.entry.kind, m)
          /\ c.entry.run <= nruns
      BY <1>1, <1>4, <1>5, <1>6, <2>3
    <2> HIDE DEF m
    <2>5. /\ BoxInv(T, B) => BoxInv(T, D)
          /\ \A N : RunsKnown(T, B, N) /\ c.entry.run <= N => RunsKnown(T, D, N)
          /\ RunInv(T, D, c.entry.run, c.entry.kind, m + 1)
          /\ \A q, kind, p : q # c.entry.run /\ RunInv(T, B, q, kind, p) => RunInv(T, D, q, kind, p)
      BY <1>6, <2>2, <2>4, PushProgress
    <2>6. RunInv(T, D, r, runs[r].kind, n)
      BY <1>4, <1>5, <1>6, <2>5 DEF m
    <2> HIDE DEF D
    <2>7. ASSUME NEW q \in DOMAIN runs', runs'[q].session = s
          PROVE  RunInv(T, D, q, runs'[q].kind, runs'[q].passed)
      <3>1. CASE q = r
        BY <1>7, <2>6, <3>1
      <3>2. CASE q # r
        BY <1>3, <1>5, <1>6, <2>1, <2>5, <2>7, <3>2
      <3> QED BY <3>1, <3>2
    <2>8. BoxInv(T, D) /\ RunsKnown(T, D, nruns)
      BY <2>1, <2>4, <2>5
    <2>9. Tape(s)' = T /\ nruns' = nruns /\ ag'[s].box = D
      BY <1>2, <1>12 DEF T, D, B
    <2> QED BY <2>1, <2>7, <2>8, <2>9, StoryIs
  <1> QED BY <1>2, <1>11, <1>13

(* The outcome is sent once every event has been passed on.                *)
LEMMA ReportStep ==
  ASSUME AgentsInv, NEW r \in DOMAIN runs, NEW s, s = runs[r].session, Report(r)
  PROVE  /\ Local(s) /\ UNCHANGED <<wlog, wf, wbox, told, hist, ops, crashes, plan>>
         /\ Story(s) => Story(s)'
  <1> DEFINE c == [cmd |-> "RunFinished", run |-> r, kind |-> runs[r].kind,
                   sent |-> runs[r].sent, outcome |-> runs[r].outcome]
  <1>1. /\ r \in 1 .. nruns /\ runs[r] \in RunRec /\ s \in 1 .. Len(ag)
        /\ ag[s].phase \in {"ready", "persisting"} /\ ag \in Seq(AgentRec)
        /\ runs[r].passed \in Nat /\ runs[r].sent \in Nat /\ runs[r].kind \in Kinds /\ nruns \in Nat
        /\ runs[r].outcome \in Outcome \cup {"none"}
    BY RunFacts DEF AgentsInv, AgentTypes
  <1>2. /\ UNCHANGED <<wlog, wf, wbox, told, hist, snap, nruns, ops, crashes, plan>>
        /\ runs[r].outcome # "none" /\ runs[r].passed = runs[r].sent
        /\ ag' = Delivered(s, c) /\ runs' = Only(DOMAIN runs \ {r})
    BY DEF Report, bounds
  <1>3. /\ DOMAIN runs' \subseteq DOMAIN runs
        /\ \A q \in DOMAIN runs' : runs'[q] = runs[q]
    BY <1>2 DEF Only
  <1>4. /\ c \in AgentCommand /\ c.cmd = "RunFinished" /\ c.run = r /\ c.kind = runs[r].kind
        /\ c.sent = runs[r].sent
    BY <1>1, <1>2, CommandTypes
  <1> HIDE DEF c
  <1>5. /\ Append(ag[s].box, c) \in Seq(AgentCommand)
        /\ Alters(s, ag[s].phase, ag[s].running, ag[s].eff, Append(ag[s].box, c))
    <2>1. s \in 0 .. Len(ag) /\ s # 0 /\ ag[s].phase # "down"
      BY <1>1
    <2> QED BY <1>1, <1>2, <1>4, <2>1, DeliveredFacts
  <1>6. RunsLocal(s, ag[s].phase)
    BY <1>1, <1>2, <1>3, SameLocal
  <1>7. ag[s].phase # "persisting" => ag[s].eff = <<>>
    BY <1>1 DEF AgentsInv, AgentsRest
  <1>8. Local(s)
    <2> QED BY <1>1, <1>2, <1>5, <1>6, <1>7, AltersLocal
  <1>9. Tape(s)' = Tape(s) /\ ag'[s].box = Append(ag[s].box, c)
    BY <1>2, <1>5 DEF Alters, Tape
  <1>10. ASSUME Story(s) PROVE Story(s)'
    <2> DEFINE T == Tape(s)
    <2> DEFINE B == ag[s].box
    <2> DEFINE D == Append(B, c)
    <2>1. /\ Ordered(T) /\ BoxInv(T, B) /\ RunsKnown(T, B, nruns)
          /\ \A q \in DOMAIN runs : runs[q].session = s =>
               RunInv(T, B, q, runs[q].kind, runs[q].passed)
      BY <1>10 DEF Story
    <2>2. T \in Seq(EntrySet) /\ B \in Seq(AgentCommand)
      BY <1>1, StoryTypes
    <2> HIDE DEF T, B
    <2>3. RunInv(T, B, r, runs[r].kind, runs[r].passed)
      BY <2>1
    <2>4. \A n \in First(c.kind) .. c.sent : Due(T, B, Len(B) + 1, c.run, n)
      BY <1>2, <1>4, <2>3 DEF RunInv
    <2>5. /\ BoxInv(T, B) => BoxInv(T, D)
          /\ \A N : RunsKnown(T, B, N) => RunsKnown(T, D, N)
          /\ \A q, kind, passed : RunInv(T, B, q, kind, passed) => RunInv(T, D, q, kind, passed)
      BY <1>4, <2>2, <2>4, PushOther
    <2> HIDE DEF D
    <2>6. \A q \in DOMAIN runs' : runs'[q].session = s =>
            RunInv(T, D, q, runs'[q].kind, runs'[q].passed)
      BY <1>3, <2>1, <2>5
    <2>7. Tape(s)' = T /\ nruns' = nruns /\ ag'[s].box = D
      BY <1>2, <1>9 DEF T, D, B
    <2> QED BY <2>1, <2>5, <2>6, <2>7, StoryIs
  <1> QED BY <1>2, <1>8, <1>10

-----------------------------------------------------------------------------
(* The workflow, while its agents and their runs move. *)

(* The workflow's own part of the invariant.                               *)
LEMMA FlowKept ==
  ASSUME FlowInv, UNCHANGED <<wlog, wf, told, plan>>, Len(ag') = Len(ag)
  PROVE  /\ FlowPersists' /\ Current' /\ Chain' /\ Announced'
         /\ HoldsCurrent => HoldsCurrent'
  <1>1. State' = State
    BY DEF State
  <1>2. Entering' <=> Entering
    BY <1>1 DEF Entering
  <1>3. Settling' <=> Settling
    BY DEF Settling
  <1>4. FlowPersists'
    BY <1>2, <1>3 DEF FlowPersists, FlowInv
  <1>5. Current'
    BY <1>1 DEF Current, FlowInv
  <1>6. Chain'
    BY <1>1 DEF Chain, HandOffsChain, FlowInv
  <1>7. Announced'
    BY DEF Announced, FlowInv
  <1>8. HoldsCurrent => HoldsCurrent'
    BY <1>1, <1>3 DEF HoldsCurrent
  <1> QED BY <1>4, <1>5, <1>6, <1>7, <1>8

(* No journal loses an entry.                                              *)
Grows == \A t \in 1 .. Len(ag) : \A r, n : Has(hist[t], r, n) => Has(hist'[t], r, n)

(* A report that was true of the journals stays so.                        *)
LEMMA ToldKept ==
  ASSUME Addressed, Grows, NEW i \in 1 .. Len(wbox), Told(i), NEW j, wbox'[j] = wbox[i]
  PROVE  Told(j)'
  <1> SUFFICES ASSUME wbox[i].cmd \in Reports,
                      NEW n \in First(wbox[i].kind) .. wbox[i].sent
               PROVE  Has(hist'[wbox[i].session], wbox[i].run, n)
    BY DEF Told
  <1>1. wbox[i].session \in 1 .. Len(ag)
    BY DEF Addressed
  <1>2. Has(hist[wbox[i].session], wbox[i].run, n)
    BY DEF Told
  <1> QED BY <1>1, <1>2 DEF Grows

(* What every step of an agent or a run amounts to.                        *)
Quiet(s) ==
  /\ Local(s) /\ UNCHANGED <<wlog, wf, told, ops, crashes, plan>>
  /\ ag[s].phase # "down"
  /\ ~plan.journalFails /\ Story(s) => Story(s)'
  /\ \A r, n : Has(hist[s], r, n) => Has(hist'[s], r, n)
  /\ \/ wbox' = wbox
     \/ \E c \in FlowCommand :
          /\ wbox' = Append(wbox, c) /\ c.cmd \in Reports /\ c.session = s
          /\ Story(s) => \A n \in First(c.kind) .. c.sent : Has(hist[s], c.run, n)

(* A step of an agent is quiet.                                            *)
LEMMA AgentIsQuiet ==
  ASSUME AgentsInv, NEW s \in 1 .. Len(ag),
         AgentStep(s) \/ (plan.journalFails /\ (AgentPersists(s, FALSE) \/ AgentRecoveryFails(s)))
  PROVE  Quiet(s)
  <1>1. CASE AgentRecovers(s)
    BY <1>1, RecoversStep DEF Quiet
  <1>2. CASE AgentRun(s)
    BY <1>2, RunStepIs DEF Quiet
  <1>3. CASE AgentProgress(s)
    BY <1>3, ProgressStep DEF Quiet
  <1>4. CASE AgentCancel(s)
    BY <1>4, CancelStep DEF Quiet
  <1>5. CASE AgentFinished(s)
    BY <1>5, FinishedStep DEF Quiet
  <1>6. CASE AgentPersists(s, TRUE)
    BY <1>6, PersistsStep DEF Quiet
  <1>7. CASE plan.journalFails /\ AgentPersists(s, FALSE)
    BY <1>7, PersistsStep DEF Quiet
  <1>8. CASE AgentRecoveryFails(s)
    BY <1>8, RecoveryFailsStep DEF Quiet
  <1> QED BY <1>1, <1>2, <1>3, <1>4, <1>5, <1>6, <1>7, <1>8 DEF AgentStep

(* So is a step of a run.                                                  *)
LEMMA RunIsQuiet ==
  ASSUME AgentsInv, NEW r \in DOMAIN runs, RunStep(r)
  PROVE  runs[r].session \in 1 .. Len(ag) /\ \E s \in 1 .. Len(ag) : Quiet(s)
  <1>1. PICK s : s = runs[r].session
    OBVIOUS
  <1>2. s \in 1 .. Len(ag) /\ ag[s].phase # "down"
    BY <1>1, RunFacts
  <1>3. CASE Emit(r)
    BY <1>1, <1>2, <1>3, EmitStep DEF Quiet
  <1>4. CASE Forward(r)
    BY <1>1, <1>2, <1>4, ForwardStep DEF Quiet
  <1>5. CASE Return(r)
    BY <1>1, <1>2, <1>5, ReturnStep DEF Quiet
  <1>6. CASE Report(r)
    BY <1>1, <1>2, <1>6, ReportStep DEF Quiet
  <1> QED BY <1>1, <1>2, <1>3, <1>4, <1>5, <1>6 DEF RunStep

(* A quiet step keeps the invariant.                                       *)
LEMMA QuietKeeps ==
  ASSUME IInv, NEW s, Quiet(s)
  PROVE  IInv'
  <1>1. AgentsInv'
    BY LocalKeeps DEF IInv, Quiet
  <1>2. /\ s \in 1 .. Len(ag) /\ Len(ag') = Len(ag) /\ Local(s)
        /\ \A t \in 1 .. Len(ag) : t # s => hist'[t] = hist[t]
        /\ UNCHANGED <<wlog, wf, told, ops, crashes, plan>> /\ ag[s].phase # "down"
    BY DEF Quiet, Local
  <1>3. Grows
    BY <1>2 DEF Grows, Quiet
  <1>4. wbox \in Seq(FlowCommand) /\ Len(wbox) \in Nat
    BY DEF IInv, FlowInv, FlowTypes
  <1>5. \/ wbox' = wbox
        \/ \E c \in FlowCommand :
             /\ wbox' = Append(wbox, c) /\ c.cmd \in Reports /\ c.session = s
             /\ Story(s) => \A n \in First(c.kind) .. c.sent : Has(hist[s], c.run, n)
    BY DEF Quiet
  <1> DEFINE Boxes ==
        /\ wbox' \in Seq(FlowCommand)
        /\ \A i \in 1 .. Len(wbox') :
             \/ i \in 1 .. Len(wbox) /\ wbox'[i] = wbox[i]
             \/ /\ wbox'[i].cmd \in Reports /\ wbox'[i].session = s
                /\ Story(s) => \A n \in First(wbox'[i].kind) .. wbox'[i].sent :
                                 Has(hist[s], wbox'[i].run, n)
  <1>6. Boxes
    <2>1. CASE wbox' = wbox
      BY <2>1, <1>4
    <2>2. ASSUME NEW c \in FlowCommand, wbox' = Append(wbox, c), c.cmd \in Reports, c.session = s,
                 Story(s) => \A n \in First(c.kind) .. c.sent : Has(hist[s], c.run, n)
          PROVE  Boxes
      <3>1. /\ wbox' \in Seq(FlowCommand) /\ Len(wbox') = Len(wbox) + 1
            /\ \A i \in 1 .. Len(wbox) : wbox'[i] = wbox[i]
            /\ wbox'[Len(wbox) + 1] = c
        BY <1>4, <2>2, AppendProperties
      <3>2. \A i \in 1 .. Len(wbox') : i \in 1 .. Len(wbox) \/ i = Len(wbox) + 1
        BY <1>4, <3>1
      <3> QED BY <2>2, <3>1, <3>2
    <2> QED BY <1>5, <2>1, <2>2
  <1>7. FlowTypes'
    BY <1>2, <1>6 DEF IInv, FlowInv, FlowTypes
  <1>8. Childless'
    <2>1. ~NoAgents
      BY <1>2 DEF NoAgents
    <2> QED BY <1>2, <2>1 DEF IInv, FlowInv, Childless
  <1>9. FlowPersists' /\ Current' /\ Chain' /\ Announced' /\ (HoldsCurrent => HoldsCurrent')
    BY <1>2, FlowKept DEF IInv
  <1>10. Addressed'
    <2> SUFFICES ASSUME NEW i \in 1 .. Len(wbox'), wbox'[i].cmd \in Reports \cup {"Fork"}
                 PROVE  wbox'[i].session \in 1 .. Len(ag)
      BY <1>2 DEF Addressed
    <2> QED BY <1>2, <1>6 DEF IInv, FlowInv, Addressed
  <1>11. StoryInv'
    <2> SUFFICES ASSUME ~plan.journalFails PROVE Stories' /\ AllTold' /\ HoldsCurrent'
      BY <1>2 DEF StoryInv
    <2>1. Stories /\ AllTold /\ HoldsCurrent /\ Story(s)
      BY <1>2 DEF IInv, StoryInv, Stories
    <2>2. Story(s)'
      BY <2>1 DEF Quiet
    <2>3. Stories'
      BY <1>2, <2>1, <2>2, LocalStories DEF IInv
    <2>4. ASSUME NEW i \in 1 .. Len(wbox') PROVE Told(i)'
      <3>1. CASE i \in 1 .. Len(wbox) /\ wbox'[i] = wbox[i]
        <4>1. Told(i) /\ Addressed
          BY <2>1, <3>1 DEF AllTold, IInv, FlowInv
        <4> QED BY <1>3, <3>1, <4>1, ToldKept
      <3>2. CASE /\ wbox'[i].cmd \in Reports /\ wbox'[i].session = s
                 /\ \A n \in First(wbox'[i].kind) .. wbox'[i].sent :
                      Has(hist[s], wbox'[i].run, n)
        BY <1>2, <1>3, <3>2 DEF Told, Grows
      <3> QED BY <1>6, <2>1, <3>1, <3>2
    <2> QED BY <1>9, <2>1, <2>3, <2>4 DEF AllTold
  <1> QED BY <1>1, <1>7, <1>8, <1>9, <1>10, <1>11 DEF IInv, FlowInv

-----------------------------------------------------------------------------
(* What the handlers of the workflow have in common. *)

(* Two elements appended one by one.                                       *)
LEMMA AppendTwo ==
  ASSUME NEW S, NEW e \in S, NEW f \in S
  PROVE  /\ <<e>> \in Seq(S) /\ Append(<<>>, e) = <<e>>
         /\ Append(<<e>>, f) = <<e, f>> /\ <<e, f>> \in Seq(S)
  <1>1. <<e>> \in Seq(S) /\ Len(<<e>>) = 1 /\ <<e>>[1] = e
    OBVIOUS
  <1>2. /\ Append(<<e>>, f) \in Seq(S) /\ Len(Append(<<e>>, f)) = 2
        /\ Append(<<e>>, f)[1] = e /\ Append(<<e>>, f)[2] = f
    BY <1>1, AppendProperties
  <1>3. /\ <<e, f>> \in Seq(S) /\ Len(<<e, f>>) = 2
        /\ <<e, f>>[1] = e /\ <<e, f>>[2] = f
    OBVIOUS
  <1>4. \A i \in 1 .. 2 : Append(<<e>>, f)[i] = <<e, f>>[i]
    BY <1>2, <1>3
  <1>5. Append(<<e>>, f) = <<e, f>>
    BY <1>2, <1>3, <1>4, SeqEqual
  <1>6. Append(<<>>, e) = <<e>>
    OBVIOUS
  <1> QED BY <1>1, <1>3, <1>5, <1>6

(* The commands of the workflow's mailbox and their fields.                *)
LEMMA FlowCommandFacts ==
  ASSUME NEW c \in FlowCommand
  PROVE  /\ c.cmd \in Reports => c.session \in Nat /\ c.run \in Nat /\ c.outcome \in Outcome
         /\ c.cmd \in {"Cancel", "Fork"} => c.session \in Nat
  BY DEF FlowCommand, Reports

(* The first command is taken.                                             *)
LEMMA TailKept ==
  ASSUME FlowInv, wbox # <<>>, wbox' = Tail(wbox), Len(ag) \in Nat, Len(ag') \in Nat,
         Len(ag) <= Len(ag')
  PROVE  /\ wbox' \in Seq(FlowCommand) /\ Addressed'
         /\ Grows /\ AllTold => AllTold'
         /\ Head(wbox) \in FlowCommand
         /\ Head(wbox).cmd \in Reports \cup {"Fork"} => Head(wbox).session \in 1 .. Len(ag)
  <1>1. wbox \in Seq(FlowCommand)
    BY DEF FlowInv, FlowTypes
  <1>2. /\ wbox' \in Seq(FlowCommand) /\ Len(wbox') = Len(wbox) - 1 /\ Head(wbox) = wbox[1]
        /\ \A i \in 1 .. Len(wbox') : wbox'[i] = wbox[i + 1]
    BY <1>1, HeadTailProperties
  <1>3. Len(wbox) \in Nat /\ Len(wbox) >= 1 /\ wbox[1] \in FlowCommand
    BY <1>1, EmptySeq
  <1>4. \A i \in 1 .. Len(wbox') : i + 1 \in 1 .. Len(wbox)
    BY <1>2, <1>3
  <1>5. Addressed'
    BY <1>2, <1>4 DEF FlowInv, Addressed
  <1>6. ASSUME Grows, AllTold, NEW i \in 1 .. Len(wbox') PROVE Told(i)'
    <2> DEFINE j == i + 1
    <2>1. j \in 1 .. Len(wbox) /\ wbox'[i] = wbox[j]
      BY <1>2, <1>4
    <2> HIDE DEF j
    <2>2. Told(j) /\ Addressed
      BY <1>6, <2>1 DEF AllTold, FlowInv
    <2> QED BY <1>6, <2>1, <2>2, ToldKept
  <1>7. Grows /\ AllTold => AllTold'
    BY <1>6 DEF AllTold
  <1>8. Head(wbox).cmd \in Reports \cup {"Fork"} => Head(wbox).session \in 1 .. Len(ag)
    BY <1>2, <1>3 DEF FlowInv, Addressed
  <1> QED BY <1>2, <1>3, <1>5, <1>7, <1>8

(* The record of a workflow that persists.                                 *)
LEMMA PersistsIs ==
  ASSUME wf \in FlowRec, NEW events \in Seq(FlowEvent), NEW stops \in BOOLEAN, NEW child \in Nat,
         Persists(events, stops, child)
  PROVE  /\ wf' \in FlowRec /\ wf'.phase = "persisting" /\ wf'.eff = events
         /\ wf'.stop = stops /\ wf'.child = child /\ wf'.served = wf.served
  BY DEF FlowRec, Persists

(* What may be settled: an end, a suspension or a pause, and the observer  *)
(* is told of it.                                                          *)
Settles(stops) ==
  \/ \E t \in Closing : /\ Persists(<<[type |-> t]>>, stops, wf.child)
                        /\ Complete(plan) => told' = StatusOf(t)
  \/ \E t \in Nat : /\ Persists(<<[type |-> "WorkflowPaused", tool |-> t]>>, stops, wf.child)
                    /\ told' = "AwaitingUserInput"

(* The four ways an event can be alone.                                    *)
LEMMA SingleEvents ==
  /\ \A t, u : <<[type |-> t]>> = <<[type |-> u]>> => t = u
  /\ \A t, u, x : u \in Closing =>
       <<[type |-> "WorkflowPaused", tool |-> x]>> # <<[type |-> u]>>
  /\ \A u, x, a, s : u \in Closing \cup {"WorkflowPaused"} =>
       <<Started(a, s)>> # <<[type |-> u]>> /\ <<Started(a, s)>> # <<[type |-> u, tool |-> x]>>
  /\ \A e, f, g : <<e, f>> # <<g>>
  <1>1. ASSUME NEW x, NEW y, <<x>> = <<y>> PROVE x = y
    <2>1. <<x>>[1] = <<y>>[1]
      BY <1>1
    <2> QED BY <2>1
  <1>2. ASSUME NEW t, NEW u, <<[type |-> t]>> = <<[type |-> u]>> PROVE t = u
    <2>1. [type |-> t] = [type |-> u]
      BY <1>1, <1>2
    <2>2. [type |-> t].type = [type |-> u].type
      BY <2>1
    <2> QED BY <2>2
  <1>3. ASSUME NEW u \in Closing, NEW x,
               <<[type |-> "WorkflowPaused", tool |-> x]>> = <<[type |-> u]>>
        PROVE  FALSE
    <2> DEFINE e == [type |-> "WorkflowPaused", tool |-> x]
    <2> DEFINE f == [type |-> u]
    <2>1. e.type = "WorkflowPaused" /\ f.type = u /\ <<e>> = <<f>>
      BY <1>3
    <2> HIDE DEF e, f
    <2>2. e = f
      BY <2>1, <1>1
    <2> QED BY <2>1, <2>2 DEF Closing
  <1>4. ASSUME NEW u \in Closing \cup {"WorkflowPaused"}, NEW a, NEW s
        PROVE  <<Started(a, s)>> # <<[type |-> u]>>
    <2> DEFINE e == Started(a, s)
    <2> DEFINE f == [type |-> u]
    <2>1. e.type = "AgentStarted" /\ f.type = u
      BY DEF Started
    <2> HIDE DEF e, f
    <2>2. <<e>> = <<f>> => e = f
      BY <1>1
    <2>3. <<e>> # <<f>>
      BY <2>1, <2>2 DEF Closing
    <2> QED BY <2>3 DEF e, f
  <1>5. ASSUME NEW u \in Closing \cup {"WorkflowPaused"}, NEW x, NEW a, NEW s
        PROVE  <<Started(a, s)>> # <<[type |-> u, tool |-> x]>>
    <2> DEFINE e == Started(a, s)
    <2> DEFINE f == [type |-> u, tool |-> x]
    <2>1. e.type = "AgentStarted" /\ f.type = u
      BY DEF Started
    <2> HIDE DEF e, f
    <2>2. <<e>> = <<f>> => e = f
      BY <1>1
    <2>3. <<e>> # <<f>>
      BY <2>1, <2>2 DEF Closing
    <2> QED BY <2>3 DEF e, f
  <1>6. ASSUME NEW e, NEW f, NEW g PROVE <<e, f>> # <<g>>
    <2>1. Len(<<e, f>>) = 2 /\ Len(<<g>>) = 1
      OBVIOUS
    <2> QED BY <2>1
  <1> QED BY <1>2, <1>3, <1>4, <1>5, <1>6

(* A workflow that settles persists what it says.                          *)
LEMMA SettlesKeeps ==
  ASSUME FlowInv, wf.phase = "ready", UNCHANGED <<wlog, plan>>, Len(ag') = Len(ag),
         NEW stops \in BOOLEAN, Settles(stops), wf.child = 0 /\ NoAgents => NoAgents'
  PROVE  /\ wf' \in FlowRec /\ Childless' /\ FlowPersists' /\ Current' /\ Chain' /\ Announced'
         /\ HoldsCurrent => HoldsCurrent'
  <1>1. wf \in FlowRec /\ wf.child \in Nat
    BY DEF FlowInv, FlowTypes, FlowRec
  <1>2. /\ wf' \in FlowRec /\ wf'.phase = "persisting" /\ wf'.child = wf.child
        /\ wf'.served = wf.served
        /\ \/ \E t \in Closing : /\ wf'.eff = <<[type |-> t]>>
                                 /\ Complete(plan) => told' = StatusOf(t)
           \/ \E t \in Nat : /\ wf'.eff = <<[type |-> "WorkflowPaused", tool |-> t]>>
                             /\ told' = "AwaitingUserInput"
    <2>1. \A t \in Closing : <<[type |-> t]>> \in Seq(FlowEvent)
      <3> TAKE t \in Closing
      <3> DEFINE e == [type |-> t]
      <3>1. e \in FlowEvent
        BY EventTypes
      <3> HIDE DEF e
      <3>2. <<e>> \in Seq(FlowEvent)
        BY <3>1
      <3> QED BY <3>2 DEF e
    <2>2. \A t \in Nat : <<[type |-> "WorkflowPaused", tool |-> t]>> \in Seq(FlowEvent)
      <3> TAKE t \in Nat
      <3> DEFINE e == [type |-> "WorkflowPaused", tool |-> t]
      <3>1. e \in FlowEvent
        BY EventTypes
      <3> HIDE DEF e
      <3>2. <<e>> \in Seq(FlowEvent)
        BY <3>1
      <3> QED BY <3>2 DEF e
    <2>3. ASSUME NEW t \in Closing, Persists(<<[type |-> t]>>, stops, wf.child)
          PROVE  /\ wf' \in FlowRec /\ wf'.phase = "persisting" /\ wf'.child = wf.child
                 /\ wf'.served = wf.served /\ wf'.eff = <<[type |-> t]>>
      BY <1>1, <2>1, <2>3, PersistsIs
    <2>4. ASSUME NEW t \in Nat,
                 Persists(<<[type |-> "WorkflowPaused", tool |-> t]>>, stops, wf.child)
          PROVE  /\ wf' \in FlowRec /\ wf'.phase = "persisting" /\ wf'.child = wf.child
                 /\ wf'.served = wf.served
                 /\ wf'.eff = <<[type |-> "WorkflowPaused", tool |-> t]>>
      BY <1>1, <2>2, <2>4, PersistsIs
    <2> QED BY <2>3, <2>4 DEF Settles
  <1>3. State' = State
    BY DEF State
  <1>4. Childless'
    <2>1. wf'.child = 0 => NoAgents'
      BY <1>2 DEF FlowInv, Childless
    <2> QED BY <1>2, <2>1 DEF Childless
  <1>5. Settling'
    BY <1>2 DEF Settling
  <1>6. FlowPersists'
    BY <1>2, <1>5 DEF FlowPersists
  <1>7. Current'
    BY <1>2, <1>3 DEF FlowInv, Current
  <1>8. Chain'
    BY <1>3 DEF FlowInv, Chain, HandOffsChain
  <1>9. Announced'
    <2> SUFFICES ASSUME Complete(plan)
                 PROVE  /\ Agent \subseteq wf'.served
                        /\ \A t \in Closing : wf'.eff = <<[type |-> t]>> => told' = StatusOf(t)
                        /\ \A t \in Nat : wf'.eff = <<[type |-> "WorkflowPaused", tool |-> t]>>
                             => told' = "AwaitingUserInput"
      BY <1>2 DEF Announced
    <2>1. Agent \subseteq wf'.served
      BY <1>2 DEF FlowInv, Announced
    <2>2. ASSUME NEW t \in Closing, wf'.eff = <<[type |-> t]>>, told' = StatusOf(t)
          PROVE  /\ \A u \in Closing : wf'.eff = <<[type |-> u]>> => told' = StatusOf(u)
                 /\ \A u \in Nat : wf'.eff # <<[type |-> "WorkflowPaused", tool |-> u]>>
      BY <2>2, SingleEvents
    <2>3. ASSUME NEW t \in Nat, wf'.eff = <<[type |-> "WorkflowPaused", tool |-> t]>>
          PROVE  \A u \in Closing : wf'.eff # <<[type |-> u]>>
      BY <2>3, SingleEvents
    <2> QED BY <1>2, <2>1, <2>2, <2>3
  <1>10. HoldsCurrent => HoldsCurrent'
    BY <1>2, <1>3 DEF HoldsCurrent
  <1> QED BY <1>2, <1>4, <1>6, <1>7, <1>8, <1>9, <1>10

(* A fresh actor over a journal, with one command to begin with.           *)
LEMMA FreshStory ==
  ASSUME NEW s, NEW T \in Seq(EntrySet), NEW c \in AgentCommand,
         c.cmd \notin {"PersistProgress", "RunFinished"},
         hist'[s] = T, ag'[s].eff = <<>>, ag'[s].box \in {<<>>, <<c>>},
         Ordered(T), RunsKnown(T, <<>>, nruns'),
         \A r \in DOMAIN runs' : runs'[r].session # s
  PROVE  Story(s)'
  <1>1. Tape(s)' = T
    BY ConcatEmptySeq DEF Tape
  <1>2. BoxInv(T, <<>>) /\ <<>> \in Seq(AgentCommand)
    BY EmptyBox, EmptySeq
  <1>3. BoxInv(T, <<c>>) /\ RunsKnown(T, <<c>>, nruns')
    <2> DEFINE B == <<>>
    <2>1. B \in Seq(AgentCommand) /\ BoxInv(T, B) /\ RunsKnown(T, B, nruns')
      BY <1>2
    <2>2. Append(B, c) = <<c>>
      OBVIOUS
    <2> HIDE DEF B
    <2>3. /\ BoxInv(T, B) => BoxInv(T, Append(B, c))
          /\ \A N : RunsKnown(T, B, N) => RunsKnown(T, Append(B, c), N)
      BY <2>1, PushOther
    <2> QED BY <2>1, <2>2, <2>3
  <1> DEFINE D == ag'[s].box
  <1>4. BoxInv(T, D) /\ RunsKnown(T, D, nruns')
    <2>1. CASE D = <<>>
      BY <1>2, <2>1
    <2>2. CASE D = <<c>>
      BY <1>3, <2>2
    <2> QED BY <2>1, <2>2
  <1>5. ag'[s].box = D
    OBVIOUS
  <1> HIDE DEF D
  <1> QED BY <1>1, <1>4, <1>5, StoryIs

(* A new session.                                                          *)
LEMMA GrowsAgents ==
  ASSUME AgentsInv, NEW copied \in Seq(EntrySet), UNCHANGED <<runs, nruns>>,
         ag' = Append(ag, Fresh(<<RunCmd>>)), hist' = Append(hist, copied),
         snap' = Append(snap, Len(copied))
  PROVE  /\ AgentsInv' /\ Grows /\ Len(ag') = Len(ag) + 1
         /\ Stories /\ Ordered(copied) /\ RunsKnown(copied, <<>>, nruns) => Stories'
  <1> DEFINE R == Fresh(<<RunCmd>>)
  <1> DEFINE N == Len(ag) + 1
  <1> DEFINE k == Len(copied)
  <1>0. /\ ag \in Seq(AgentRec) /\ hist \in Seq(Seq(EntrySet)) /\ snap \in Seq(Nat)
        /\ Len(hist) = Len(ag) /\ Len(snap) = Len(ag) /\ Len(ag) \in Nat /\ k \in Nat
        /\ \A t \in 1 .. Len(ag) : snap[t] <= Len(hist[t])
    BY DEF AgentsInv, AgentTypes, Lengths
  <1>1. RunCmd \in AgentCommand /\ RunCmd.cmd = "Run"
    BY CommandTypes DEF RunCmd
  <1>2. <<RunCmd>> \in Seq(AgentCommand)
    BY <1>1
  <1>3. R \in AgentRec /\ R.phase = "starting" /\ R.eff = <<>> /\ R.box = <<RunCmd>>
    <2>1. R = Agt("starting", 0, <<>>, <<RunCmd>>)
      BY FreshTypes
    <2>2. R \in AgentRec
      BY <1>2, FreshTypes
    <2> DEFINE b == <<RunCmd>>
    <2> DEFINE e == <<>>
    <2>3. R = Agt("starting", 0, e, b)
      BY <2>1
    <2> HIDE DEF R, b, e
    <2>4. R.phase = "starting" /\ R.eff = e /\ R.box = b
      BY <2>3 DEF Agt
    <2> QED BY <2>2, <2>4 DEF b, e
  <1> HIDE DEF R, k
  <1>4. /\ ag' \in Seq(AgentRec) /\ Len(ag') = N /\ ag'[N] = R
        /\ \A t \in 1 .. Len(ag) : ag'[t] = ag[t]
    BY <1>0, <1>3, AppendProperties DEF R
  <1>5. /\ hist' \in Seq(Seq(EntrySet)) /\ Len(hist') = N /\ hist'[N] = copied
        /\ \A t \in 1 .. Len(ag) : hist'[t] = hist[t]
    BY <1>0, AppendProperties
  <1>6. /\ snap' \in Seq(Nat) /\ Len(snap') = N /\ snap'[N] = k
        /\ \A t \in 1 .. Len(ag) : snap'[t] = snap[t]
    BY <1>0, AppendProperties DEF k
  <1>7. \A t \in 1 .. N : t \in 1 .. Len(ag) \/ t = N
    BY <1>0
  <1>8. N \notin 1 .. Len(ag) /\ \A t \in 1 .. Len(ag) : t \in 1 .. N
    BY <1>0
  <1> HIDE DEF N
  <1>9. AgentTypes'
    BY <1>4, <1>5, <1>6 DEF AgentsInv, AgentTypes
  <1>10. Lengths'
    <2>1. k <= k /\ k = Len(copied)
      BY <1>0 DEF k
    <2> QED BY <1>0, <1>4, <1>5, <1>6, <1>7, <2>1 DEF Lengths
  <1>11. AgentsRest'
    BY <1>3, <1>4, <1>7 DEF AgentsRest, AgentsInv
  <1>12. RunsLive'
    BY <1>4, <1>8 DEF RunsLive, AgentsInv
  <1>13. Grows
    BY <1>5 DEF Grows
  <1>14. ASSUME Stories, Ordered(copied), RunsKnown(copied, <<>>, nruns) PROVE Stories'
    <2> SUFFICES ASSUME NEW t \in 1 .. N PROVE Story(t)'
      BY <1>4 DEF Stories
    <2>1. CASE t \in 1 .. Len(ag)
      <3>1. Story(t) /\ ag'[t] = ag[t] /\ hist'[t] = hist[t]
        BY <1>4, <1>5, <1>14, <2>1 DEF Stories
      <3> QED BY <3>1 DEF Story, Tape
    <2>2. CASE t = N
      <3>1. \A r \in DOMAIN runs' : runs'[r].session # N
        BY <1>8 DEF AgentsInv, RunsLive
      <3>2. hist'[t] = copied /\ ag'[t].eff = <<>> /\ ag'[t].box = <<RunCmd>>
        BY <1>3, <1>4, <1>5, <2>2
      <3>3. ag'[t].box \in {<<>>, <<RunCmd>>}
        BY <3>2
      <3>4. RunCmd.cmd \notin {"PersistProgress", "RunFinished"}
        BY <1>1
      <3> QED BY <1>1, <1>14, <2>2, <3>1, <3>2, <3>3, <3>4, FreshStory
    <2> QED BY <1>7, <2>1, <2>2
  <1> QED BY <1>4, <1>9, <1>10, <1>11, <1>12, <1>13, <1>14 DEF AgentsInv, N

(* What a workflow persists when it enters an agent.                       *)
EntersWith(a, events) ==
  LET n == Len(ag) + 1 IN
  \/ events = <<[type |-> "WorkflowStarted"], Started(a, n)>>
  \/ events = <<Started(a, n)>>
  \/ events = <<Handed(a, State.session, n), Started(a, n)>> /\ Ruled(State.agent, a)

(* A workflow that enters an agent.                                        *)
LEMMA EntersFlow ==
  ASSUME FlowInv, Len(ag) \in Nat, wf.phase = "ready", NEW a \in Agent, NEW events,
         EntersWith(a, events), Len(ag') = Len(ag) + 1,
         Persists(events, FALSE, Len(ag) + 1), UNCHANGED <<wlog, plan>>
  PROVE  /\ wf' \in FlowRec /\ Childless' /\ FlowPersists' /\ Current' /\ Chain' /\ Announced'
         /\ HoldsCurrent'
  <1> DEFINE n == Len(ag) + 1
  <1>1. State \in StateRec /\ State.session \in Nat /\ State.session <= Len(ag)
    BY DEF FlowInv, Current, StateRec
  <1>2. n \in Nat /\ n # 0 /\ State.session < n
    BY <1>1
  <1>3. /\ Started(a, n) \in FlowEvent /\ Handed(a, State.session, n) \in FlowEvent
        /\ [type |-> "WorkflowStarted"] \in FlowEvent
    BY <1>1, <1>2, EventTypes
  <1>4. events \in Seq(FlowEvent)
    <2> DEFINE e == Started(a, n)
    <2> DEFINE f == Handed(a, State.session, n)
    <2> DEFINE g == [type |-> "WorkflowStarted"]
    <2>1. e \in FlowEvent /\ f \in FlowEvent /\ g \in FlowEvent
      BY <1>3
    <2>2. events = <<g, e>> \/ events = <<e>> \/ events = <<f, e>>
      BY DEF EntersWith
    <2> HIDE DEF e, f, g
    <2> QED BY <2>1, <2>2, AppendTwo
  <1>5. wf \in FlowRec /\ Persists(events, FALSE, n)
    BY DEF FlowInv, FlowTypes
  <1> HIDE DEF n
  <1>6. /\ wf' \in FlowRec /\ wf'.phase = "persisting" /\ wf'.eff = events
        /\ wf'.child = n /\ wf'.served = wf.served
    BY <1>2, <1>4, <1>5, PersistsIs
  <1>7. State' = State
    BY DEF State
  <1>8. Childless'
    BY <1>2, <1>6 DEF Childless
  <1>9. Entering'
    BY <1>2, <1>6, <1>7 DEF Entering, EntersWith, n
  <1>10. FlowPersists'
    BY <1>6, <1>9 DEF FlowPersists
  <1>11. Current'
    <2>1. Len(ag') = n /\ n <= n /\ State.session <= n
      BY <1>1, <1>2 DEF n
    <2>2. State.session # 0 => State.agent \in Agent
      BY DEF FlowInv, Current
    <2> QED BY <1>1, <1>6, <1>7, <2>1, <2>2 DEF Current
  <1>12. Chain'
    BY <1>7 DEF FlowInv, Chain, HandOffsChain
  <1>13. /\ \A t \in Closing : events # <<[type |-> t]>>
         /\ \A t \in Nat : events # <<[type |-> "WorkflowPaused", tool |-> t]>>
    <2>1. ASSUME NEW t \in Closing PROVE events # <<[type |-> t]>>
      <3>1. \A e, f, g : <<e, f>> # <<g>>
        BY SingleEvents
      <3>2. \A s : <<Started(a, s)>> # <<[type |-> t]>>
        BY SingleEvents
      <3> QED BY <3>1, <3>2 DEF EntersWith
    <2>2. ASSUME NEW t \in Nat PROVE events # <<[type |-> "WorkflowPaused", tool |-> t]>>
      <3>1. \A e, f, g : <<e, f>> # <<g>>
        BY SingleEvents
      <3>2. \A s : <<Started(a, s)>> # <<[type |-> "WorkflowPaused", tool |-> t]>>
        BY SingleEvents
      <3> QED BY <3>1, <3>2 DEF EntersWith
    <2> QED BY <2>1, <2>2
  <1>14. Announced'
    BY <1>6, <1>13 DEF FlowInv, Announced
  <1>15. HoldsCurrent'
    <2>1. ~Settling'
      BY <1>6, <1>13 DEF Settling
    <2> QED BY <1>6, <2>1 DEF HoldsCurrent
  <1> QED BY <1>6, <1>8, <1>10, <1>11, <1>12, <1>14, <1>15

(* A command the workflow sends to an agent, if to any.                    *)
LEMMA DeliverKeeps ==
  ASSUME AgentsInv, NEW s \in 0 .. Len(ag), NEW c \in AgentCommand,
         c.cmd \notin {"PersistProgress", "RunFinished"},
         ag' = ag \/ ag' = Delivered(s, c), UNCHANGED <<hist, snap, runs, nruns>>
  PROVE  /\ AgentsInv' /\ Grows /\ Len(ag') = Len(ag)
         /\ Stories => Stories'
         /\ s = 0 /\ NoAgents => NoAgents'
  <1>1. ag \in Seq(AgentRec) /\ nruns \in Nat
    BY DEF AgentsInv, AgentTypes
  <1>2. Grows
    BY DEF Grows
  <1>3. ASSUME ag' = ag
        PROVE  /\ AgentsInv' /\ Len(ag') = Len(ag) /\ (Stories => Stories')
               /\ (NoAgents => NoAgents')
    <2>1. AgentsInv'
      BY <1>3 DEF AgentsInv, AgentTypes, Lengths, AgentsRest, RunsLive
    <2>2. Stories => Stories'
      BY <1>3 DEF Stories, Story, Tape
    <2>3. NoAgents => NoAgents'
      BY <1>3 DEF NoAgents
    <2> QED BY <1>3, <2>1, <2>2, <2>3
  <1>4. ASSUME s # 0, s \in 1 .. Len(ag), ag[s].phase # "down",
               Append(ag[s].box, c) \in Seq(AgentCommand),
               Alters(s, ag[s].phase, ag[s].running, ag[s].eff, Append(ag[s].box, c))
        PROVE  AgentsInv' /\ Len(ag') = Len(ag) /\ (Stories => Stories')
    <2>1. RunsLocal(s, ag[s].phase)
      <3>1. \A r \in DOMAIN runs : runs[r].session = s => ag[s].phase \in {"ready", "persisting"}
        BY DEF AgentsInv, RunsLive
      <3>2. CASE ag[s].phase \in {"ready", "persisting"}
        BY <1>4, <3>2, SameLocal
      <3>3. CASE \A r \in DOMAIN runs : runs[r].session # s
        BY <1>4, <3>3, SameLocal
      <3> QED BY <3>1, <3>2, <3>3
    <2>2. ag[s].phase # "persisting" => ag[s].eff = <<>>
      BY <1>4 DEF AgentsInv, AgentsRest
    <2>3. Local(s)
      BY <1>4, <2>1, <2>2, AltersLocal
    <2>4. ASSUME Stories PROVE Stories'
      <3>1. Tape(s)' = Tape(s) /\ ag'[s].box = Append(ag[s].box, c)
        BY <1>4 DEF Alters, Tape
      <3>2. Tape(s) \in Seq(EntrySet) /\ ag[s].box \in Seq(AgentCommand) /\ Story(s)
        BY <1>4, <2>4, StoryTypes DEF Stories
      <3> DEFINE T == Tape(s)
      <3> DEFINE B == ag[s].box
      <3> DEFINE D == Append(B, c)
      <3>3. /\ Ordered(T) /\ BoxInv(T, B) /\ RunsKnown(T, B, nruns)
            /\ \A r \in DOMAIN runs : runs[r].session = s =>
                 RunInv(T, B, r, runs[r].kind, runs[r].passed)
        BY <3>2 DEF Story
      <3>4. T \in Seq(EntrySet) /\ B \in Seq(AgentCommand)
        BY <3>2
      <3>5. Tape(s)' = T /\ ag'[s].box = D
        BY <3>1
      <3> HIDE DEF T, B
      <3>6. /\ BoxInv(T, B) => BoxInv(T, D)
            /\ \A N : RunsKnown(T, B, N) => RunsKnown(T, D, N)
            /\ \A r, kind, passed : RunInv(T, B, r, kind, passed) => RunInv(T, D, r, kind, passed)
        BY <3>4, PushOther
      <3> HIDE DEF D
      <3>7. \A r \in DOMAIN runs' : runs'[r].session = s =>
              RunInv(T, D, r, runs'[r].kind, runs'[r].passed)
        BY <3>3, <3>6
      <3>8. Story(s)'
        BY <3>3, <3>5, <3>6, <3>7, StoryIs
      <3> QED BY <2>3, <2>4, <3>8, LocalStories
    <2> QED BY <2>3, <2>4, LocalKeeps DEF Local
  <1>5. CASE ag' = ag
    BY <1>2, <1>3, <1>5
  <1>6. CASE ag' = Delivered(s, c)
    <2>1. \/ ag' = ag
          \/ /\ s # 0 /\ s \in 1 .. Len(ag) /\ ag[s].phase # "down"
             /\ Append(ag[s].box, c) \in Seq(AgentCommand)
             /\ Alters(s, ag[s].phase, ag[s].running, ag[s].eff, Append(ag[s].box, c))
      BY <1>1, <1>6, DeliveredFacts
    <2> QED BY <1>2, <1>3, <1>4, <2>1
  <1> QED BY <1>5, <1>6

(* The agent of a session is spawned again.                                *)
LEMMA RespawnKeeps ==
  ASSUME AgentsInv, NoAgents, NEW s \in 1 .. Len(ag), NEW c \in AgentCommand,
         c.cmd \notin {"PersistProgress", "RunFinished"}, NEW b \in {<<>>, <<c>>},
         ag' = [ag EXCEPT ![s] = Fresh(b)], UNCHANGED <<hist, snap, runs, nruns>>
  PROVE  /\ AgentsInv' /\ Grows /\ Len(ag') = Len(ag)
         /\ Stories => Stories'
  <1>1. ag \in Seq(AgentRec) /\ nruns \in Nat /\ ag[s].phase = "down" /\ ag[s] = GoneAgent
    BY DEF AgentsInv, AgentTypes, NoAgents, AgentsRest
  <1>2. b \in Seq(AgentCommand) /\ <<>> \in Seq(EntrySet)
    <2>1. <<>> \in Seq(AgentCommand) /\ <<>> \in Seq(EntrySet)
      BY EmptySeq
    <2>2. <<c>> \in Seq(AgentCommand)
      BY AppendTwo
    <2> QED BY <2>1, <2>2
  <1>3. ag' = [ag EXCEPT ![s] = Agt("starting", 0, <<>>, b)]
    BY FreshTypes
  <1>4. Alters(s, "starting", 0, <<>>, b)
    <2>1. "starting" \in Phases /\ 0 \in Nat
      BY DEF Phases
    <2> HIDE DEF Agt
    <2> QED BY <1>1, <1>2, <1>3, <2>1, AltersIs
  <1>5. DOMAIN runs = {}
    BY DEF NoAgents
  <1>6. RunsLocal(s, "starting")
    BY <1>5, SameLocal
  <1>7. Local(s)
    BY <1>4, <1>6, AltersLocal
  <1>8. Grows
    BY DEF Grows
  <1>9. ASSUME Stories PROVE Stories'
    <2>1. Story(s) /\ hist[s] \in Seq(EntrySet) /\ Tape(s) \in Seq(EntrySet)
          /\ Tape(s) = hist[s] /\ ag[s].box \in Seq(AgentCommand)
      BY <1>1, <1>9, StoryTypes DEF Stories
    <2>2. Ordered(hist[s]) /\ RunsKnown(hist[s], ag[s].box, nruns)
      BY <2>1 DEF Story
    <2>3. RunsKnown(hist[s], <<>>, nruns)
      BY <2>1, <2>2, EmptyBox
    <2>4. ag'[s].eff = <<>> /\ ag'[s].box \in {<<>>, <<c>>} /\ hist'[s] = hist[s]
      BY <1>4 DEF Alters
    <2> DEFINE T == hist[s]
    <2>5. /\ T \in Seq(EntrySet) /\ hist'[s] = T /\ Ordered(T)
          /\ RunsKnown(T, <<>>, nruns') /\ \A r \in DOMAIN runs' : runs'[r].session # s
      BY <1>5, <2>1, <2>2, <2>3, <2>4
    <2> HIDE DEF T
    <2>6. Story(s)'
      BY <2>4, <2>5, FreshStory
    <2> QED BY <1>7, <1>9, <2>6, LocalStories
  <1> QED BY <1>7, <1>8, <1>9, LocalKeeps DEF Local

-----------------------------------------------------------------------------
(* The handlers of the workflow. *)

(* A handler that settles.                                                 *)
LEMMA HandlerSettles ==
  ASSUME IInv, wf.phase = "ready", wbox # <<>>, Took, UNCHANGED <<wlog, hist, snap, others>>,
         NEW stops \in BOOLEAN, Settles(stops),
         NEW c \in AgentCommand, c.cmd \notin {"PersistProgress", "RunFinished"},
         ag' = ag \/ ag' = Delivered(wf.child, c)
  PROVE  IInv'
  <1>1. UNCHANGED <<runs, nruns, ops, crashes, plan>> /\ wbox' = Tail(wbox)
    BY DEF others, Took
  <1>2. Len(ag) \in Nat /\ wf.child \in 0 .. Len(ag)
    BY DEF IInv, AgentsInv, AgentTypes, FlowInv, FlowTypes, FlowRec, Current
  <1>3. /\ AgentsInv' /\ Grows /\ Len(ag') = Len(ag)
        /\ Stories => Stories'
        /\ wf.child = 0 /\ NoAgents => NoAgents'
    BY <1>1, <1>2, DeliverKeeps DEF IInv
  <1>4. wbox' \in Seq(FlowCommand) /\ Addressed' /\ (AllTold => AllTold')
    BY <1>1, <1>2, <1>3, TailKept DEF IInv
  <1>5. /\ wf' \in FlowRec /\ Childless' /\ FlowPersists' /\ Current' /\ Chain' /\ Announced'
        /\ HoldsCurrent => HoldsCurrent'
    BY <1>1, <1>3, SettlesKeeps DEF IInv
  <1>6. FlowTypes'
    BY <1>1, <1>4, <1>5 DEF IInv, FlowInv, FlowTypes
  <1>7. StoryInv'
    BY <1>1, <1>3, <1>4, <1>5 DEF IInv, StoryInv
  <1> QED BY <1>3, <1>4, <1>5, <1>6, <1>7 DEF IInv, FlowInv

(* A handler that persists nothing and keeps what it holds.                *)
LEMMA HandlerReturns ==
  ASSUME IInv, wf.phase = "ready", wbox # <<>>, Took,
         UNCHANGED <<wlog, wf, told, hist, snap, others>>,
         NEW c \in AgentCommand, c.cmd \notin {"PersistProgress", "RunFinished"},
         ag' = ag \/ ag' = Delivered(wf.child, c)
  PROVE  IInv'
  <1>1. UNCHANGED <<runs, nruns, ops, crashes, plan>> /\ wbox' = Tail(wbox)
    BY DEF others, Took
  <1>2. Len(ag) \in Nat /\ wf.child \in 0 .. Len(ag)
    BY DEF IInv, AgentsInv, AgentTypes, FlowInv, FlowTypes, FlowRec, Current
  <1>3. /\ AgentsInv' /\ Grows /\ Len(ag') = Len(ag)
        /\ Stories => Stories'
        /\ wf.child = 0 /\ NoAgents => NoAgents'
    BY <1>1, <1>2, DeliverKeeps DEF IInv
  <1>4. wbox' \in Seq(FlowCommand) /\ Addressed' /\ (AllTold => AllTold')
    BY <1>1, <1>2, <1>3, TailKept DEF IInv
  <1>5. /\ FlowPersists' /\ Current' /\ Chain' /\ Announced'
        /\ HoldsCurrent => HoldsCurrent'
    BY <1>1, <1>3, FlowKept DEF IInv
  <1>6. Childless'
    BY <1>3 DEF IInv, FlowInv, Childless
  <1>7. FlowTypes'
    BY <1>1, <1>4 DEF IInv, FlowInv, FlowTypes
  <1>8. StoryInv'
    BY <1>1, <1>3, <1>4, <1>5 DEF IInv, StoryInv
  <1> QED BY <1>3, <1>4, <1>5, <1>6, <1>7, <1>8 DEF IInv, FlowInv

(* A handler that enters an agent.                                         *)
LEMMA HandlerEnters ==
  ASSUME IInv, wf.phase = "ready", wbox # <<>>, Took, UNCHANGED <<wlog, others>>,
         NEW a \in Agent, NEW copied \in Seq(EntrySet), NEW before,
         Enters(a, RunCmd, copied, before),
         EntersWith(a, Append(before, Started(a, Len(ag) + 1))),
         ~plan.journalFails => Ordered(copied) /\ RunsKnown(copied, <<>>, nruns)
  PROVE  IInv'
  <1>1. UNCHANGED <<runs, nruns, ops, crashes, plan>> /\ wbox' = Tail(wbox)
    BY DEF others, Took
  <1>2. Len(ag) \in Nat
    BY DEF IInv, AgentsInv, AgentTypes
  <1> DEFINE events == Append(before, Started(a, Len(ag) + 1))
  <1>3. /\ ag' = Append(ag, Fresh(<<RunCmd>>)) /\ hist' = Append(hist, copied)
        /\ snap' = Append(snap, Len(copied)) /\ Persists(events, FALSE, Len(ag) + 1)
    BY DEF Enters, NewSession, Started
  <1>4. /\ AgentsInv' /\ Grows /\ Len(ag') = Len(ag) + 1
        /\ Stories /\ Ordered(copied) /\ RunsKnown(copied, <<>>, nruns) => Stories'
    BY <1>1, <1>3, GrowsAgents DEF IInv
  <1>5. Len(ag') \in Nat /\ Len(ag) <= Len(ag')
    BY <1>2, <1>4
  <1>6. wbox' \in Seq(FlowCommand) /\ Addressed' /\ (AllTold => AllTold')
    BY <1>1, <1>2, <1>4, <1>5, TailKept DEF IInv
  <1>7. EntersWith(a, events)
    OBVIOUS
  <1> HIDE DEF events
  <1>8. /\ wf' \in FlowRec /\ Childless' /\ FlowPersists' /\ Current' /\ Chain' /\ Announced'
        /\ HoldsCurrent'
    BY <1>1, <1>2, <1>3, <1>4, <1>7, EntersFlow DEF IInv
  <1>9. FlowTypes'
    BY <1>1, <1>6, <1>8 DEF IInv, FlowInv, FlowTypes
  <1>10. StoryInv'
    BY <1>1, <1>4, <1>6, <1>8 DEF IInv, StoryInv
  <1> QED BY <1>4, <1>6, <1>8, <1>9, <1>10 DEF IInv, FlowInv

(* A prefix of a journal is one of the tape.                               *)
LEMMA PrefixOfTape ==
  ASSUME NEW T \in Seq(EntrySet), NEW U \in Seq(EntrySet), NEW k \in 0 .. Len(T)
  PROVE  /\ SubSeq(T, 1, k) = SubSeq(T \o U, 1, k) /\ k \in 0 .. Len(T \o U)
         /\ SubSeq(T, 1, Len(T)) = T
  <1> DEFINE V == T \o U
  <1>1. /\ V \in Seq(EntrySet) /\ Len(V) = Len(T) + Len(U)
        /\ \A j \in 1 .. Len(T) : V[j] = T[j]
    BY ConcatProperties
  <1>2. Len(T) \in Nat /\ Len(U) \in Nat
    OBVIOUS
  <1> HIDE DEF V
  <1>3. k \in 0 .. Len(V)
    BY <1>1, <1>2
  <1>4. /\ SubSeq(T, 1, k) \in Seq(EntrySet) /\ Len(SubSeq(T, 1, k)) = k
        /\ SubSeq(V, 1, k) \in Seq(EntrySet) /\ Len(SubSeq(V, 1, k)) = k
    BY <1>1, <1>3, PrefixOrdered
  <1>5. \A j \in 1 .. k : SubSeq(T, 1, k)[j] = SubSeq(V, 1, k)[j]
    BY <1>1, <1>2, <1>3
  <1>6. SubSeq(T, 1, k) = SubSeq(V, 1, k)
    BY <1>4, <1>5, SeqEqual
  <1>7. SubSeq(T, 1, Len(T)) = T
    OBVIOUS
  <1> QED BY <1>3, <1>6, <1>7 DEF V

(* What a session's story says of a prefix of its journal.                 *)
LEMMA PrefixStory ==
  ASSUME AgentsInv, NEW s \in 1 .. Len(ag), NEW k \in 0 .. Len(hist[s])
  PROVE  /\ SubSeq(hist[s], 1, k) \in Seq(EntrySet)
         /\ Story(s) => /\ Ordered(SubSeq(hist[s], 1, k))
                        /\ RunsKnown(SubSeq(hist[s], 1, k), <<>>, nruns)
                        /\ Ordered(hist[s])
  <1> DEFINE T == hist[s]
  <1> DEFINE U == ag[s].eff
  <1>1. /\ T \in Seq(EntrySet) /\ U \in Seq(EntrySet) /\ Tape(s) = T \o U
        /\ Tape(s) \in Seq(EntrySet) /\ ag[s].box \in Seq(AgentCommand)
    BY StoryTypes DEF Tape
  <1>2. k \in 0 .. Len(T)
    OBVIOUS
  <1> HIDE DEF T, U
  <1>3. SubSeq(T, 1, k) \in Seq(EntrySet)
    BY <1>1, <1>2, PrefixOrdered
  <1>4. ASSUME Story(s), NEW m \in 0 .. Len(T)
        PROVE  Ordered(SubSeq(T, 1, m)) /\ RunsKnown(SubSeq(T, 1, m), <<>>, nruns)
    <2>1. Ordered(Tape(s)) /\ RunsKnown(Tape(s), ag[s].box, nruns)
      BY <1>4 DEF Story
    <2>2. RunsKnown(Tape(s), <<>>, nruns)
      BY <1>1, <2>1, EmptyBox
    <2>3. SubSeq(T, 1, m) = SubSeq(Tape(s), 1, m) /\ m \in 0 .. Len(Tape(s))
      BY <1>1, <1>4, PrefixOfTape
    <2> HIDE DEF Tape
    <2> DEFINE V == Tape(s)
    <2>4. V \in Seq(EntrySet) /\ m \in 0 .. Len(V) /\ Ordered(V) /\ RunsKnown(V, <<>>, nruns)
          /\ SubSeq(T, 1, m) = SubSeq(V, 1, m)
      BY <1>1, <2>1, <2>2, <2>3
    <2> HIDE DEF V
    <2> QED BY <2>4, PrefixOrdered
  <1>5. Len(T) \in 0 .. Len(T) /\ SubSeq(T, 1, Len(T)) = T
    <2>1. Len(T) \in Nat
      BY <1>1
    <2> QED BY <1>1, <2>1, PrefixOfTape
  <1>6. Story(s) => Ordered(T)
    BY <1>4, <1>5
  <1> QED BY <1>2, <1>3, <1>4, <1>6 DEF T

(* What a handler finds.                                                   *)
LEMMA TakesIs ==
  ASSUME IInv, NEW c, Takes(c)
  PROVE  /\ wf.phase = "ready" /\ wbox # <<>> /\ Head(wbox).cmd = c
         /\ Head(wbox) \in FlowCommand
         /\ c \in Reports \cup {"Fork"} => Head(wbox).session \in 1 .. Len(ag)
         /\ State \in StateRec /\ State.session \in Nat /\ State.session <= Len(ag)
         /\ State.tool \in Nat /\ wf.child \in 0 .. Len(ag) /\ Len(ag) \in Nat
         /\ State.session # 0 => State.agent \in Agent
         /\ Complete(plan) => Agent \subseteq wf.served
  <1>1. wf.phase = "ready" /\ wbox # <<>> /\ Head(wbox).cmd = c
    BY DEF Takes
  <1>2. Len(ag) \in Nat
    BY DEF IInv, AgentsInv, AgentTypes
  <1>3. wbox \in Seq(FlowCommand) /\ wf \in FlowRec
    BY DEF IInv, FlowInv, FlowTypes
  <1>4. Head(wbox) = wbox[1] /\ wbox[1] \in FlowCommand /\ 1 \in 1 .. Len(wbox)
    BY <1>1, <1>3, EmptySeq, HeadTailProperties
  <1>5. c \in Reports \cup {"Fork"} => Head(wbox).session \in 1 .. Len(ag)
    BY <1>1, <1>4 DEF IInv, FlowInv, Addressed
  <1>6. /\ State \in StateRec /\ State.session <= Len(ag)
        /\ State.session # 0 => State.agent \in Agent
        /\ wf.child <= Len(ag)
    BY DEF IInv, FlowInv, Current
  <1>7. State.session \in Nat /\ State.tool \in Nat
    BY <1>6 DEF StateRec
  <1>8. wf.child \in Nat
    BY <1>3 DEF FlowRec
  <1>9. Complete(plan) => Agent \subseteq wf.served
    BY <1>1 DEF IInv, FlowInv, Announced
  <1> QED BY <1>1, <1>2, <1>4, <1>5, <1>6, <1>7, <1>8, <1>9

(* A workflow that ends.                                                   *)
LEMMA EndsSettles ==
  ASSUME NEW t \in Closing, Ends(t), Complete(plan) => told' = StatusOf(t)
  PROVE  Settles(TRUE)
  BY DEF Ends, Settles

(* Start.                                                                  *)
LEMMA StartKeeps ==
  ASSUME IInv, OnStart
  PROVE  IInv'
  <1>1. Takes("Start") /\ Took /\ UNCHANGED <<wlog, others>>
    BY DEF OnStart
  <1>2. wf.phase = "ready" /\ wbox # <<>> /\ Len(ag) \in Nat
    BY <1>1, TakesIs
  <1>3. CASE CanSpawn(StartAgent)
    <2>1. Enters(StartAgent, RunCmd, <<>>, <<[type |-> "WorkflowStarted"]>>)
      BY <1>3 DEF OnStart
    <2>2. StartAgent \in Agent
      BY <1>3 DEF CanSpawn
    <2> DEFINE e == [type |-> "WorkflowStarted"]
    <2> DEFINE f == Started(StartAgent, Len(ag) + 1)
    <2>3. EntersWith(StartAgent, Append(<<e>>, f))
      <3>1. e \in FlowEvent /\ f \in FlowEvent
        BY <1>2, <2>2, EventTypes
      <3> HIDE DEF e, f
      <3>2. Append(<<e>>, f) = <<e, f>>
        BY <3>1, AppendTwo
      <3> QED BY <3>2 DEF EntersWith, e, f
    <2>4. <<>> \in Seq(EntrySet) /\ Ordered(<<>>) /\ RunsKnown(<<>>, <<>>, nruns)
      <3>1. <<>> \in Seq(EntrySet) /\ Len(<<>>) = 0
        BY EmptySeq
      <3> QED BY <3>1 DEF Ordered, RunsKnown
    <2> QED BY <1>1, <1>2, <2>1, <2>2, <2>3, <2>4, HandlerEnters
  <1>4. CASE ~CanSpawn(StartAgent)
    <2>1. Ends("WorkflowFailed") /\ told' = "Failed" /\ UNCHANGED <<ag, hist, snap>>
      BY <1>4 DEF OnStart, agents
    <2>2. Settles(TRUE)
      BY <2>1, EndsSettles DEF Closing, StatusOf
    <2>3. RunCmd \in AgentCommand /\ RunCmd.cmd \notin {"PersistProgress", "RunFinished"}
      BY CommandTypes DEF RunCmd
    <2> QED BY <1>1, <1>2, <2>1, <2>2, <2>3, HandlerSettles
  <1> QED BY <1>3, <1>4

(* Cancel.                                                                 *)
LEMMA CancelKeeps ==
  ASSUME IInv, OnCancel
  PROVE  IInv'
  <1>1. /\ Takes("Cancel") /\ Took /\ UNCHANGED <<wlog, hist, snap, others>>
        /\ ag' = Delivered(wf.child, [cmd |-> "Cancel"]) /\ told' = "Suspended"
        /\ Persists(<<[type |-> "WorkflowSuspended"]>>, FALSE, wf.child)
    BY DEF OnCancel
  <1>2. wf.phase = "ready" /\ wbox # <<>>
    BY <1>1, TakesIs
  <1>3. Settles(FALSE)
    <2>1. "WorkflowSuspended" \in Closing /\ told' = StatusOf("WorkflowSuspended")
      BY <1>1 DEF Closing, StatusOf
    <2> QED BY <1>1, <2>1 DEF Settles
  <1> DEFINE c == [cmd |-> "Cancel"]
  <1>4. c \in AgentCommand /\ c.cmd \notin {"PersistProgress", "RunFinished"}
        /\ ag' = Delivered(wf.child, c)
    BY <1>1, CommandTypes
  <1> HIDE DEF c
  <1> QED BY <1>1, <1>2, <1>3, <1>4, HandlerSettles

(* A report of a session that is not the current one.                      *)
LEMMA StaleKeeps ==
  ASSUME IInv, OnStaleReport
  PROVE  IInv'
  <1>1. /\ Took /\ UNCHANGED <<wlog, wf, told, ag, hist, snap, others>>
        /\ wf.phase = "ready" /\ wbox # <<>>
    BY DEF OnStaleReport, Takes, agents
  <1>2. RunCmd \in AgentCommand /\ RunCmd.cmd \notin {"PersistProgress", "RunFinished"}
    BY CommandTypes DEF RunCmd
  <1> QED BY <1>1, <1>2, HandlerReturns

(* AgentFailed.                                                            *)
LEMMA FailedKeeps ==
  ASSUME IInv, OnAgentFailed
  PROVE  IInv'
  <1>1. /\ Took /\ UNCHANGED <<wlog, ag, hist, snap, others>>
        /\ wf.phase = "ready" /\ wbox # <<>>
    BY DEF OnAgentFailed, Takes, agents
  <1>2. RunCmd \in AgentCommand /\ RunCmd.cmd \notin {"PersistProgress", "RunFinished"}
    BY CommandTypes DEF RunCmd
  <1>3. CASE Head(wbox).outcome = "recoverable"
    <2>1. /\ Persists(<<[type |-> "WorkflowSuspended"]>>, FALSE, wf.child)
          /\ told' = "Suspended"
      BY <1>3 DEF OnAgentFailed
    <2>2. "WorkflowSuspended" \in Closing /\ told' = StatusOf("WorkflowSuspended")
      BY <2>1 DEF Closing, StatusOf
    <2>3. Settles(FALSE)
      BY <2>1, <2>2 DEF Settles
    <2> QED BY <1>1, <1>2, <2>3, HandlerSettles
  <1>4. CASE Head(wbox).outcome # "recoverable"
    <2>1. Ends("WorkflowFailed") /\ told' = "Failed"
      BY <1>4 DEF OnAgentFailed
    <2>2. Settles(TRUE)
      BY <2>1, EndsSettles DEF Closing, StatusOf
    <2> QED BY <1>1, <1>2, <2>2, HandlerSettles
  <1> QED BY <1>3, <1>4

(* AgentAsked.                                                             *)
LEMMA AskedKeeps ==
  ASSUME IInv, OnAgentAsked
  PROVE  IInv'
  <1>1. /\ Took /\ UNCHANGED <<wlog, ag, hist, snap, others>> /\ Takes("AgentAsked")
        /\ Persists(<<[type |-> "WorkflowPaused", tool |-> Head(wbox).run]>>, FALSE, wf.child)
        /\ told' = "AwaitingUserInput"
    BY DEF OnAgentAsked, agents
  <1>2. RunCmd \in AgentCommand /\ RunCmd.cmd \notin {"PersistProgress", "RunFinished"}
    BY CommandTypes DEF RunCmd
  <1>3. wf.phase = "ready" /\ wbox # <<>> /\ Head(wbox).cmd = "AgentAsked" /\ Head(wbox) \in FlowCommand
    BY <1>1, TakesIs
  <1>4. Head(wbox).run \in Nat
    BY <1>3, FlowCommandFacts DEF Reports
  <1>5. Settles(FALSE)
    BY <1>1, <1>4 DEF Settles
  <1> QED BY <1>1, <1>2, <1>3, <1>5, HandlerSettles

(* A command a handler may hand over without a message.                    *)
LEMMA RunCmdIs == RunCmd \in AgentCommand /\ RunCmd.cmd \notin {"PersistProgress", "RunFinished"}
  BY CommandTypes DEF RunCmd

(* AgentConcluded.                                                         *)
LEMMA ConcludedKeeps ==
  ASSUME IInv, OnConcluded
  PROVE  IInv'
  <1> DEFINE to == find_next_transition(State.agent, Head(wbox).outcome)
  <1>1. /\ Takes("AgentConcluded") /\ IsCurrent /\ Took /\ UNCHANGED <<wlog, others>>
        /\ \/ /\ to = Nobody
              /\ Ends("WorkflowFinished") /\ told' = "Finished"
              /\ UNCHANGED agents
           \/ /\ to # Nobody /\ CanSpawn(to)
              /\ Enters(to, RunCmd, <<>>, <<Handed(to, Head(wbox).session, NewSession)>>)
              /\ UNCHANGED told
           \/ /\ to # Nobody /\ ~CanSpawn(to)
              /\ Ends("WorkflowFailed") /\ told' = "Failed"
              /\ UNCHANGED agents
    BY DEF OnConcluded, Handed
  <1>2. /\ wf.phase = "ready" /\ wbox # <<>> /\ Len(ag) \in Nat
        /\ Head(wbox).session \in 1 .. Len(ag)
        /\ State.session \in Nat
        /\ State.session # 0 => State.agent \in Agent
    BY <1>1, TakesIs DEF Reports
  <1>3. State.session = Head(wbox).session /\ State.agent \in Agent
    BY <1>1, <1>2 DEF IsCurrent
  <1>4. to # Nobody => Ruled(State.agent, to)
    BY <1>3, RuleFound
  <1> HIDE DEF to
  <1>5. CASE Ends("WorkflowFinished") /\ told' = "Finished" /\ UNCHANGED agents
    <2>1. UNCHANGED <<ag, hist, snap>>
      BY <1>5 DEF agents
    <2>2. Settles(TRUE)
      BY <1>5, EndsSettles DEF Closing, StatusOf
    <2> QED BY <1>1, <1>2, <2>1, <2>2, RunCmdIs, HandlerSettles
  <1>6. CASE Ends("WorkflowFailed") /\ told' = "Failed" /\ UNCHANGED agents
    <2>1. UNCHANGED <<ag, hist, snap>>
      BY <1>6 DEF agents
    <2>2. Settles(TRUE)
      BY <1>6, EndsSettles DEF Closing, StatusOf
    <2> QED BY <1>1, <1>2, <2>1, <2>2, RunCmdIs, HandlerSettles
  <1>7. CASE /\ to # Nobody /\ CanSpawn(to)
             /\ Enters(to, RunCmd, <<>>, <<Handed(to, Head(wbox).session, NewSession)>>)
    <2> DEFINE n == Len(ag) + 1
    <2> DEFINE e == Handed(to, State.session, n)
    <2> DEFINE f == Started(to, n)
    <2>1. to \in Agent
      BY <1>7 DEF CanSpawn
    <2>2. Enters(to, RunCmd, <<>>, <<e>>)
      BY <1>3, <1>7 DEF NewSession
    <2>3. EntersWith(to, Append(<<e>>, f))
      <3>1. e \in FlowEvent /\ f \in FlowEvent
        BY <1>2, <2>1, EventTypes
      <3> HIDE DEF e, f
      <3>2. Append(<<e>>, f) = <<e, f>>
        BY <3>1, AppendTwo
      <3> QED BY <1>4, <1>7, <3>2 DEF EntersWith, e, f, n
    <2>4. <<>> \in Seq(EntrySet) /\ Ordered(<<>>) /\ RunsKnown(<<>>, <<>>, nruns)
      <3>1. <<>> \in Seq(EntrySet) /\ Len(<<>>) = 0
        BY EmptySeq
      <3> QED BY <3>1 DEF Ordered, RunsKnown
    <2>5. EntersWith(to, Append(<<e>>, Started(to, Len(ag) + 1)))
      BY <2>3
    <2> DEFINE b == <<e>>
    <2>6. Enters(to, RunCmd, <<>>, b) /\ EntersWith(to, Append(b, Started(to, Len(ag) + 1)))
      BY <2>2, <2>5
    <2> HIDE DEF b
    <2> QED BY <1>1, <1>2, <2>1, <2>4, <2>6, HandlerEnters
  <1> QED BY <1>1, <1>5, <1>6, <1>7

(* Fork.                                                                   *)
LEMMA ForkKeeps ==
  ASSUME IInv, OnFork
  PROVE  IInv'
  <1> DEFINE from == Head(wbox).session
  <1> DEFINE copies == plan.snapshots => snap[from] > 0
  <1> DEFINE T == SubSeq(hist[from], 1, snap[from])
  <1>1. /\ Takes("Fork") /\ Took /\ UNCHANGED <<wlog, told, others>>
        /\ \/ UNCHANGED wf /\ UNCHANGED agents
           \/ /\ State.session # 0 /\ copies /\ CanSpawn(State.agent)
              /\ Enters(State.agent, RunCmd, T, <<>>)
           \/ /\ State.session # 0
              /\ ~copies \/ plan.journalFails \/ ~CanSpawn(State.agent)
              /\ Ends("WorkflowFailed") /\ UNCHANGED agents
    BY DEF OnFork
  <1>2. /\ wf.phase = "ready" /\ wbox # <<>> /\ Len(ag) \in Nat
        /\ from \in 1 .. Len(ag)
        /\ State.session # 0 => State.agent \in Agent
        /\ Complete(plan) => Agent \subseteq wf.served
    BY <1>1, TakesIs
  <1>3. CASE UNCHANGED wf /\ UNCHANGED agents
    <2>1. UNCHANGED <<wlog, wf, told, ag, hist, snap, others>>
      BY <1>1, <1>3 DEF agents
    <2> QED BY <1>1, <1>2, <2>1, RunCmdIs, HandlerReturns
  <1>4. CASE /\ State.session # 0 /\ copies /\ CanSpawn(State.agent)
             /\ Enters(State.agent, RunCmd, T, <<>>)
    <2>1. State.agent \in Agent
      BY <1>2, <1>4
    <2>2. /\ snap[from] \in 0 .. Len(hist[from])
          /\ ~plan.journalFails => Story(from)
      <3>1. snap[from] \in Nat /\ snap[from] <= Len(hist[from]) /\ Len(hist[from]) \in Nat
        BY <1>2 DEF IInv, AgentsInv, AgentTypes, Lengths
      <3>2. ~plan.journalFails => Story(from)
        BY <1>2 DEF IInv, StoryInv, Stories
      <3> QED BY <3>1, <3>2
    <2>3. /\ T \in Seq(EntrySet)
          /\ ~plan.journalFails => Ordered(T) /\ RunsKnown(T, <<>>, nruns)
      <3> DEFINE k == snap[from]
      <3>1. k \in 0 .. Len(hist[from]) /\ T = SubSeq(hist[from], 1, k) /\ AgentsInv
        BY <2>2 DEF IInv
      <3> HIDE DEF k, T, from
      <3> QED BY <1>2, <2>2, <3>1, PrefixStory
    <2> DEFINE f == Started(State.agent, Len(ag) + 1)
    <2> DEFINE b == <<>>
    <2>4. Enters(State.agent, RunCmd, T, b) /\ EntersWith(State.agent, Append(b, f))
      <3>1. Append(b, f) = <<f>>
        OBVIOUS
      <3> QED BY <1>4, <3>1 DEF EntersWith
    <2> HIDE DEF T, b, from
    <2>5. EntersWith(State.agent, Append(b, Started(State.agent, Len(ag) + 1)))
      BY <2>4
    <2>6. UNCHANGED <<wlog, others>> /\ Took
      BY <1>1
    <2> QED BY <1>2, <2>1, <2>3, <2>4, <2>5, <2>6, HandlerEnters
  <1>5. CASE /\ State.session # 0
             /\ ~copies \/ plan.journalFails \/ ~CanSpawn(State.agent)
             /\ Ends("WorkflowFailed") /\ UNCHANGED agents
    <2>1. UNCHANGED <<ag, hist, snap>> /\ UNCHANGED <<wlog, others>> /\ Took
      BY <1>1, <1>5 DEF agents
    <2>2. ~Complete(plan)
      BY <1>2, <1>5 DEF Complete, CanSpawn
    <2>3. Settles(TRUE)
      BY <1>5, <2>2, EndsSettles DEF Closing
    <2> QED BY <1>2, <2>1, <2>3, RunCmdIs, HandlerSettles
  <1> QED BY <1>1, <1>3, <1>4, <1>5

(* Resume.                                                                 *)
LEMMA ResumeKeeps ==
  ASSUME IInv, OnResume
  PROVE  IInv'
  <1> DEFINE awaiting == Status = "AwaitingUserInput"
  <1> DEFINE c == IF awaiting THEN InjectCmd(State.tool) ELSE RunCmd
  <1>1. /\ Takes("Resume") /\ Took /\ UNCHANGED <<wlog, others>>
        /\ \/ UNCHANGED wf /\ UNCHANGED told /\ UNCHANGED agents
           \/ /\ State.session # 0 /\ UNCHANGED <<hist, snap>>
              /\ \/ /\ wf.child # 0
                    /\ ag' = Delivered(wf.child, c)
                    /\ UNCHANGED <<wf, told>>
                 \/ /\ wf.child = 0 /\ CanSpawn(State.agent)
                    /\ ag' = [ag EXCEPT ![State.session] = Fresh(<<c>>)]
                    /\ wf' = [wf EXCEPT !.child = State.session]
                    /\ UNCHANGED told
                 \/ /\ wf.child = 0 /\ ~CanSpawn(State.agent)
                    /\ Ends("WorkflowFailed")
                    /\ UNCHANGED ag
    BY DEF OnResume
  <1>2. /\ wf.phase = "ready" /\ wbox # <<>> /\ Len(ag) \in Nat
        /\ State \in StateRec /\ State.session \in Nat /\ State.session <= Len(ag)
        /\ State.tool \in Nat
        /\ State.session # 0 => State.agent \in Agent
        /\ Complete(plan) => Agent \subseteq wf.served
    BY <1>1, TakesIs
  <1>3. c \in AgentCommand /\ c.cmd \notin {"PersistProgress", "RunFinished"}
    <2>1. CASE awaiting
      <3>1. c = InjectCmd(State.tool)
        BY <2>1
      <3> HIDE DEF c
      <3> QED BY <1>2, <3>1, CommandTypes DEF InjectCmd
    <2>2. CASE ~awaiting
      <3>1. c = RunCmd
        BY <2>2
      <3> HIDE DEF c
      <3> QED BY <3>1, RunCmdIs
    <2> QED BY <2>1, <2>2
  <1> HIDE DEF c
  <1>4. CASE UNCHANGED wf /\ UNCHANGED told /\ UNCHANGED agents
    <2>1. UNCHANGED <<wlog, wf, told, ag, hist, snap, others>>
      BY <1>1, <1>4 DEF agents
    <2> QED BY <1>1, <1>2, <2>1, RunCmdIs, HandlerReturns
  <1>5. CASE /\ UNCHANGED <<hist, snap>> /\ ag' = Delivered(wf.child, c)
             /\ UNCHANGED <<wf, told>>
    <2>1. UNCHANGED <<wlog, wf, told, hist, snap, others>>
      BY <1>1, <1>5
    <2> QED BY <1>1, <1>2, <1>3, <1>5, <2>1, HandlerReturns
  <1>6. CASE /\ State.session # 0 /\ UNCHANGED <<hist, snap>> /\ wf.child = 0
             /\ ~CanSpawn(State.agent) /\ Ends("WorkflowFailed") /\ UNCHANGED ag
    <2>1. ~Complete(plan)
      BY <1>2, <1>6 DEF Complete, CanSpawn
    <2>2. Settles(TRUE)
      BY <1>6, <2>1, EndsSettles DEF Closing
    <2>3. UNCHANGED <<wlog, hist, snap, others>>
      BY <1>1, <1>6
    <2> QED BY <1>1, <1>2, <1>6, <2>2, <2>3, RunCmdIs, HandlerSettles
  <1>7. CASE /\ State.session # 0 /\ UNCHANGED <<hist, snap>> /\ wf.child = 0
             /\ ag' = [ag EXCEPT ![State.session] = Fresh(<<c>>)]
             /\ wf' = [wf EXCEPT !.child = State.session]
             /\ UNCHANGED told
    <2>1. UNCHANGED <<runs, nruns, ops, crashes, plan>> /\ wbox' = Tail(wbox)
      BY <1>1 DEF others, Took
    <2>2. NoAgents /\ State.session \in 1 .. Len(ag)
      BY <1>2, <1>7 DEF IInv, FlowInv, Childless
    <2>3. /\ AgentsInv' /\ Grows /\ Len(ag') = Len(ag)
          /\ Stories => Stories'
      <3> DEFINE s == State.session
      <3> DEFINE b == <<c>>
      <3>1. /\ s \in 1 .. Len(ag) /\ b \in {<<>>, <<c>>} /\ ag' = [ag EXCEPT ![s] = Fresh(b)]
            /\ UNCHANGED <<hist, snap, runs, nruns>> /\ AgentsInv
        BY <1>7, <2>1, <2>2 DEF IInv
      <3> HIDE DEF s, b
      <3> QED BY <1>3, <2>2, <3>1, RespawnKeeps
    <2>4. wbox' \in Seq(FlowCommand) /\ Addressed' /\ (AllTold => AllTold')
      BY <1>2, <2>1, <2>3, TailKept DEF IInv
    <2>5. State' = State
      BY <1>1 DEF State
    <2>6. /\ wf' \in FlowRec /\ wf'.phase = wf.phase /\ wf'.child = State.session
          /\ wf'.served = wf.served /\ wf'.eff = wf.eff
      BY <1>2, <1>7 DEF IInv, FlowInv, FlowTypes, FlowRec
    <2>7. FlowTypes'
      BY <1>1, <2>1, <2>4, <2>6 DEF IInv, FlowInv, FlowTypes
    <2>8. Childless'
      BY <1>2, <1>7, <2>5, <2>6 DEF Childless
    <2>9. FlowPersists'
      BY <1>2, <2>6 DEF IInv, FlowInv, FlowPersists
    <2>10. Current'
      BY <1>2, <2>3, <2>5, <2>6 DEF Current
    <2>11. Chain'
      BY <1>1, <2>5 DEF IInv, FlowInv, Chain, HandOffsChain
    <2>12. Announced'
      BY <1>2, <2>1, <2>6 DEF IInv, FlowInv, Announced
    <2>13. HoldsCurrent'
      BY <2>5, <2>6 DEF HoldsCurrent
    <2>14. StoryInv'
      BY <2>1, <2>3, <2>4, <2>13 DEF IInv, StoryInv
    <2> QED BY <2>3, <2>4, <2>7, <2>8, <2>9, <2>10, <2>11, <2>12, <2>14 DEF IInv, FlowInv
  <1> QED BY <1>1, <1>4, <1>5, <1>6, <1>7

-----------------------------------------------------------------------------
(* The chain of hand-offs in a log. *)

(* One hand-off, and all of a log; none left the session that is current.  *)
Link(log, i) ==
  log[i].type = "AgentTransitioned" =>
    LET before == Folded(SubSeq(log, 1, i - 1)) IN
    /\ log[i].from = before.session
    /\ Ruled(before.agent, log[i].agent)
    /\ i < Len(log) /\ log[i + 1].type = "AgentStarted"
    /\ log[i + 1].session = log[i].session
    /\ \A j \in 1 .. i - 1 :
         log[j].type = "AgentTransitioned" => log[j].from # log[i].from
Tidy(log) ==
  /\ \A i \in 1 .. Len(log) : Link(log, i)
  /\ \A i \in 1 .. Len(log) :
       log[i].type = "AgentTransitioned" => log[i].from < Folded(log).session

(* Chain says that the workflow's log is tidy.                             *)
LEMMA ChainIs ==
  ASSUME wlog \in Seq(FlowEvent)
  PROVE  Chain <=> Tidy(wlog)
  <1>1. DOMAIN wlog = 1 .. Len(wlog)
    OBVIOUS
  <1>2. HandOffsChain <=> \A i \in 1 .. Len(wlog) : Link(wlog, i)
    BY <1>1 DEF HandOffsChain, Link, Ruled
  <1> QED BY <1>2 DEF Chain, Tidy, State

(* A log and one that begins with it have the same prefixes.               *)
LEMMA SamePrefix ==
  ASSUME NEW log \in Seq(FlowEvent), NEW g \in Seq(FlowEvent), Len(log) <= Len(g),
         \A i \in 1 .. Len(log) : g[i] = log[i], NEW k \in 0 .. Len(log)
  PROVE  SubSeq(g, 1, k) = SubSeq(log, 1, k) /\ SubSeq(g, 1, Len(log)) = log
  <1>1. Len(log) \in Nat /\ Len(g) \in Nat
    OBVIOUS
  <1>2. ASSUME NEW m \in 0 .. Len(log)
        PROVE  SubSeq(g, 1, m) = SubSeq(log, 1, m)
    <2>1. 1 \in 1 .. Len(log) + 1 /\ m \in 1 - 1 .. Len(log) /\ m - 1 + 1 = m
      BY <1>1
    <2>2. 1 \in 1 .. Len(g) + 1 /\ m \in 1 - 1 .. Len(g)
      BY <1>1
    <2>3. /\ SubSeq(log, 1, m) \in Seq(FlowEvent) /\ Len(SubSeq(log, 1, m)) = m
          /\ \A i \in 1 .. m : SubSeq(log, 1, m)[i] = log[i]
      BY <2>1
    <2>4. /\ SubSeq(g, 1, m) \in Seq(FlowEvent) /\ Len(SubSeq(g, 1, m)) = m
          /\ \A i \in 1 .. m : SubSeq(g, 1, m)[i] = g[i]
      BY <2>2
    <2>5. \A i \in 1 .. m : SubSeq(g, 1, m)[i] = SubSeq(log, 1, m)[i]
      BY <1>1, <2>3, <2>4
    <2> QED BY <2>3, <2>4, <2>5, SeqEqual
  <1>3. SubSeq(log, 1, Len(log)) = log /\ Len(log) \in 0 .. Len(log)
    BY <1>1
  <1> QED BY <1>2, <1>3

(* A hand-off of a log stays one when the log is continued.                *)
LEMMA LinkKept ==
  ASSUME NEW log \in Seq(FlowEvent), NEW g \in Seq(FlowEvent), Len(log) <= Len(g),
         \A i \in 1 .. Len(log) : g[i] = log[i], NEW k \in 1 .. Len(log), Link(log, k)
  PROVE  Link(g, k)
  <1> SUFFICES ASSUME g[k].type = "AgentTransitioned" PROVE Link(g, k)
    BY DEF Link
  <1>1. Len(log) \in Nat /\ Len(g) \in Nat /\ g[k] = log[k]
    OBVIOUS
  <1>2. k - 1 \in 0 .. Len(log)
    BY <1>1
  <1>3. SubSeq(g, 1, k - 1) = SubSeq(log, 1, k - 1)
    BY <1>2, SamePrefix
  <1>4. k < Len(log) /\ k + 1 \in 1 .. Len(log) /\ \A j \in 1 .. k - 1 : j \in 1 .. Len(log)
    BY <1>1 DEF Link
  <1>5. g[k + 1] = log[k + 1] /\ k < Len(g)
    BY <1>1, <1>4
  <1>6. \A j \in 1 .. k - 1 : g[j] = log[j]
    BY <1>4
  <1> QED BY <1>1, <1>3, <1>5, <1>6 DEF Link

(* An event that hands nothing off.                                        *)
LEMMA TidyStays ==
  ASSUME NEW log \in Seq(FlowEvent), NEW e \in FlowEvent, e.type # "AgentTransitioned",
         Tidy(log), Folded(log).session \in Nat, apply_event(Folded(log), e).session \in Nat,
         Folded(log).session <= apply_event(Folded(log), e).session
  PROVE  Tidy(Append(log, e))
  <1> DEFINE g == Append(log, e)
  <1>1. /\ g \in Seq(FlowEvent) /\ Len(g) = Len(log) + 1 /\ Len(log) \in Nat
        /\ \A i \in 1 .. Len(log) : g[i] = log[i]
        /\ g[Len(log) + 1] = e
    BY AppendProperties
  <1>2. Folded(g) = apply_event(Folded(log), e)
    BY FoldAppend
  <1> HIDE DEF g
  <1>3. \A i \in 1 .. Len(g) : i \in 1 .. Len(log) \/ i = Len(log) + 1
    BY <1>1
  <1>4. ASSUME NEW i \in 1 .. Len(g) PROVE Link(g, i)
    <2>1. CASE i \in 1 .. Len(log)
      <3>1. Link(log, i) /\ Len(log) <= Len(g)
        BY <1>1, <2>1 DEF Tidy
      <3> QED BY <1>1, <2>1, <3>1, LinkKept
    <2>2. CASE i = Len(log) + 1
      BY <1>1, <2>2 DEF Link
    <2> QED BY <1>3, <2>1, <2>2
  <1>5. ASSUME NEW i \in 1 .. Len(g), g[i].type = "AgentTransitioned"
        PROVE  g[i].from < Folded(g).session
    <2>1. i \in 1 .. Len(log)
      BY <1>1, <1>3, <1>5
    <2>2. log[i] \in FlowEvent /\ log[i].type = "AgentTransitioned" /\ log[i].from < Folded(log).session
      BY <1>1, <1>5, <2>1 DEF Tidy
    <2>3. log[i].from \in Nat
      BY <2>2 DEF FlowEvent, Closing
    <2> QED BY <1>1, <1>2, <2>1, <2>2, <2>3
  <1> QED BY <1>4, <1>5 DEF Tidy, g

(* A hand-off from the current session, and the start of the entered one.  *)
LEMMA TidyHands ==
  ASSUME NEW log \in Seq(FlowEvent), NEW a \in Agent, NEW s \in Nat, Tidy(log),
         Folded(log) \in StateRec, Folded(log).session < s, Ruled(Folded(log).agent, a)
  PROVE  Tidy(Append(Append(log, Handed(a, Folded(log).session, s)), Started(a, s)))
  <1> DEFINE n == Len(log)
  <1> DEFINE from == Folded(log).session
  <1> DEFINE e == Handed(a, from, s)
  <1> DEFINE f == Started(a, s)
  <1> DEFINE h == Append(log, e)
  <1> DEFINE g == Append(h, f)
  <1>1. from \in Nat /\ n \in Nat /\ from < s
    BY DEF StateRec
  <1>2. e \in FlowEvent /\ f \in FlowEvent
    BY <1>1, EventTypes
  <1>3. /\ e.type = "AgentTransitioned" /\ e.from = from /\ e.session = s /\ e.agent = a
        /\ f.type = "AgentStarted" /\ f.session = s
    BY DEF Handed, Started
  <1>4. apply_event(Folded(log), e) \in StateRec
    BY <1>1, ApplyHanded
  <1>5. apply_event(apply_event(Folded(log), e), f).session = s
    BY <1>4, ApplyEntered
  <1>6. Folded(log).session = from /\ Ruled(Folded(log).agent, a)
    OBVIOUS
  <1> HIDE DEF e, f, from
  <1>7. /\ h \in Seq(FlowEvent) /\ Len(h) = n + 1 /\ h[n + 1] = e
        /\ \A i \in 1 .. n : h[i] = log[i]
    BY <1>2, AppendProperties
  <1>8. Folded(h) = apply_event(Folded(log), e)
    BY <1>2, FoldAppend
  <1> HIDE DEF h
  <1>9. /\ g \in Seq(FlowEvent) /\ Len(g) = n + 2 /\ g[n + 2] = f
        /\ \A i \in 1 .. n + 1 : g[i] = h[i]
    <2>1. /\ g \in Seq(FlowEvent) /\ Len(g) = Len(h) + 1 /\ g[Len(h) + 1] = f
          /\ \A i \in 1 .. Len(h) : g[i] = h[i]
      BY <1>2, <1>7, AppendProperties
    <2>2. Len(h) + 1 = n + 2
      BY <1>1, <1>7
    <2> QED BY <1>7, <2>1, <2>2
  <1>10. Folded(g).session = s
    <2>1. Folded(g) = apply_event(Folded(h), f)
      BY <1>2, <1>7, FoldAppend
    <2> QED BY <1>5, <1>8, <2>1
  <1> HIDE DEF g
  <1>11. /\ \A i \in 1 .. n : g[i] = log[i]
         /\ g[n + 1] = e /\ n <= Len(g) /\ n + 1 < Len(g)
    BY <1>1, <1>7, <1>9
  <1>12. \A i \in 1 .. Len(g) : i \in 1 .. n \/ i = n + 1 \/ i = n + 2
    BY <1>1, <1>9
  <1>13. ASSUME NEW i \in 1 .. n, log[i].type = "AgentTransitioned"
         PROVE  log[i].from \in Nat /\ log[i].from < from
    <2>1. log[i] \in FlowEvent /\ log[i].from < Folded(log).session
      BY <1>13 DEF Tidy
    <2>2. log[i].from \in Nat
      BY <1>13, <2>1 DEF FlowEvent, Closing
    <2> QED BY <1>6, <2>1, <2>2
  <1>14. SubSeq(g, 1, n) = log
    <2>1. 0 \in 0 .. Len(log)
      BY <1>1
    <2> QED BY <1>9, <1>11, <2>1, SamePrefix
  <1>15. Link(g, n + 1)
    <2> DEFINE m == n + 1
    <2>1. m - 1 = n /\ m + 1 = n + 2 /\ m < Len(g) /\ g[m] = e
      BY <1>1, <1>11
    <2>2. SubSeq(g, 1, m - 1) = log /\ g[m + 1] = f
      BY <1>9, <1>14, <2>1
    <2>3. \A j \in 1 .. m - 1 : g[j].type = "AgentTransitioned" => g[j].from # from
      BY <1>1, <1>11, <1>13, <2>1
    <2> HIDE DEF m
    <2> QED BY <1>3, <1>6, <2>1, <2>2, <2>3 DEF Link, m
  <1>16. ASSUME NEW i \in 1 .. Len(g) PROVE Link(g, i)
    <2>1. CASE i \in 1 .. n
      <3>1. Link(log, i)
        BY <2>1 DEF Tidy
      <3> QED BY <1>9, <1>11, <2>1, <3>1, LinkKept
    <2>2. CASE i = n + 1
      BY <1>15, <2>2
    <2>3. CASE i = n + 2
      BY <1>3, <1>9, <2>3 DEF Link
    <2> QED BY <1>12, <2>1, <2>2, <2>3
  <1>17. ASSUME NEW i \in 1 .. Len(g), g[i].type = "AgentTransitioned"
         PROVE  g[i].from < Folded(g).session
    <2>1. CASE i \in 1 .. n
      <3>1. log[i].from \in Nat /\ log[i].from < from
        BY <1>11, <1>13, <1>17, <2>1
      <3> QED BY <1>1, <1>10, <1>11, <2>1, <3>1
    <2>2. CASE i = n + 1
      BY <1>1, <1>3, <1>10, <1>11, <2>2
    <2>3. CASE i = n + 2
      BY <1>3, <1>9, <1>17, <2>3
    <2> QED BY <1>12, <2>1, <2>2, <2>3
  <1> QED BY <1>16, <1>17 DEF Tidy, g, h, e, f, from

-----------------------------------------------------------------------------
(* What a workflow persists is stored or refused. *)

(* The log once the events are stored.                                     *)
Stored == wlog \o wf.eff

(* It is as tidy as before, and its state is what the handler meant.       *)
LEMMA StoredIs ==
  ASSUME FlowTypes, FlowPersists, Current, Chain, Len(ag) \in Nat, wf.phase = "persisting"
  PROVE  /\ Stored \in Seq(FlowEvent) /\ Tidy(Stored)
         /\ Folded(Stored) \in StateRec /\ Folded(Stored).session <= Len(ag)
         /\ Folded(Stored).session # 0 => Folded(Stored).agent \in Agent
         /\ Entering => Folded(Stored).session = wf.child
         /\ Settling => Folded(Stored).session = State.session
         /\ Entering => Folded(Stored).status = "Running"
         /\ Announced /\ Complete(plan) /\ Settling => told = Folded(Stored).status
  <1> DEFINE st == State
  <1>1. /\ wlog \in Seq(FlowEvent) /\ Folded(wlog) = st /\ st \in StateRec
        /\ st.session \in Nat /\ st.session <= Len(ag)
        /\ st.session # 0 => st.agent \in Agent
        /\ Tidy(wlog)
    BY ChainIs DEF FlowTypes, Current, State, StateRec
  <1> HIDE DEF st
  <1>2. ASSUME Entering
        PROVE  /\ Stored \in Seq(FlowEvent) /\ Tidy(Stored)
               /\ Folded(Stored) \in StateRec /\ Folded(Stored).session = Len(ag)
               /\ Folded(Stored).agent \in Agent
               /\ Folded(Stored).session = wf.child
               /\ Folded(Stored).status = "Running"
    <2> DEFINE n == Len(ag)
    <2>1. PICK a \in Agent :
            \/ wf.eff = <<[type |-> "WorkflowStarted"], Started(a, n)>>
            \/ wf.eff = <<Started(a, n)>>
            \/ wf.eff = <<Handed(a, st.session, n), Started(a, n)>> /\ Ruled(st.agent, a)
      BY <1>2 DEF Entering, st
    <2>2. n \in Nat /\ st.session < n /\ wf.child = n
      BY <1>2 DEF Entering, st
    <2> DEFINE e == Started(a, n)
    <2> DEFINE f == [type |-> "WorkflowStarted"]
    <2> DEFINE h == Handed(a, st.session, n)
    <2>3. e \in FlowEvent /\ f \in FlowEvent /\ h \in FlowEvent
      BY <1>1, <2>2, EventTypes
    <2>4. /\ e.type = "AgentStarted" /\ f.type = "WorkflowStarted"
      BY DEF Started
    <2>5. \A x \in StateRec :
            LET y == apply_event(x, e)
            IN  y \in StateRec /\ y.session = n /\ y.agent = a /\ y.status = "Running"
      BY <2>2, ApplyEntered
    <2>6. apply_event(st, f) \in StateRec /\ apply_event(st, f).session = st.session
      BY <1>1, ApplyStarted
    <2>7. apply_event(st, h) \in StateRec
      BY <1>1, <2>2, ApplyHanded
    <2>8. Ruled(st.agent, a) => Tidy(Append(Append(wlog, h), e))
      BY <1>1, <2>2, TidyHands
    <2> HIDE DEF e, f, h, n
    <2>9. CASE wf.eff = <<e>>
      <3>1. Stored = Append(wlog, e) /\ Folded(Stored) = apply_event(st, e)
        BY <1>1, <2>3, <2>9, FoldTwo DEF Stored
      <3>2. Stored \in Seq(FlowEvent)
        BY <1>1, <2>3, <3>1, AppendProperties
      <3>3. apply_event(st, e) \in StateRec /\ apply_event(st, e).session = n
            /\ apply_event(st, e).agent = a /\ apply_event(st, e).status = "Running"
        BY <1>1, <2>5
      <3>4. Folded(wlog).session <= apply_event(Folded(wlog), e).session
        BY <1>1, <2>2, <3>3
      <3>5. Tidy(Append(wlog, e))
        BY <1>1, <2>2, <2>3, <2>4, <3>3, <3>4, TidyStays
      <3> QED BY <2>1, <2>2, <3>1, <3>2, <3>3, <3>5 DEF n
    <2>10. CASE wf.eff = <<f, e>>
      <3> DEFINE log == Append(wlog, f)
      <3>1. Stored = Append(log, e) /\ Folded(Stored) = apply_event(apply_event(st, f), e)
        <4>1. Stored = wlog \o <<f, e>>
          BY <2>10 DEF Stored
        <4>2. wlog \o <<f, e>> = Append(Append(wlog, f), e)
          BY <1>1, <2>3, FoldTwo
        <4>3. Folded(wlog \o <<f, e>>) = apply_event(apply_event(Folded(wlog), f), e)
          BY <1>1, <2>3, FoldTwo
        <4> QED BY <1>1, <4>1, <4>2, <4>3
      <3>2. log \in Seq(FlowEvent) /\ Folded(log) = apply_event(st, f)
        BY <1>1, <2>3, FoldAppend, AppendProperties
      <3>3. Tidy(log)
        BY <1>1, <2>3, <2>4, <2>6, TidyStays
      <3> HIDE DEF log
      <3>4. Stored \in Seq(FlowEvent)
        BY <2>3, <3>1, <3>2, AppendProperties
      <3> DEFINE x == apply_event(st, f)
      <3>5. x \in StateRec /\ x.session = st.session /\ Folded(log) = x
        BY <2>6, <3>2
      <3> HIDE DEF x
      <3>6. apply_event(x, e) \in StateRec /\ apply_event(x, e).session = n
            /\ apply_event(x, e).agent = a /\ apply_event(x, e).status = "Running"
        BY <2>5, <3>5
      <3>7. /\ Folded(log).session \in Nat /\ apply_event(Folded(log), e).session \in Nat
            /\ Folded(log).session <= apply_event(Folded(log), e).session
        BY <1>1, <2>2, <3>5, <3>6
      <3>8. Tidy(Append(log, e))
        BY <2>3, <2>4, <3>2, <3>3, <3>7, TidyStays
      <3> QED BY <2>1, <2>2, <3>1, <3>4, <3>6, <3>8 DEF n, x
    <2>11. CASE wf.eff = <<h, e>> /\ Ruled(st.agent, a)
      <3>1. /\ Stored = Append(Append(wlog, h), e)
            /\ Folded(Stored) = apply_event(apply_event(st, h), e)
        <4>1. Stored = wlog \o <<h, e>>
          BY <2>11 DEF Stored
        <4>2. wlog \o <<h, e>> = Append(Append(wlog, h), e)
          BY <1>1, <2>3, FoldTwo
        <4>3. Folded(wlog \o <<h, e>>) = apply_event(apply_event(Folded(wlog), h), e)
          BY <1>1, <2>3, FoldTwo
        <4> QED BY <1>1, <4>1, <4>2, <4>3
      <3>2. Append(wlog, h) \in Seq(FlowEvent)
        BY <1>1, <2>3, AppendProperties
      <3>3. Stored \in Seq(FlowEvent)
        BY <2>3, <3>1, <3>2, AppendProperties
      <3> DEFINE x == apply_event(st, h)
      <3>4. x \in StateRec /\ Folded(Stored) = apply_event(x, e)
        BY <2>7, <3>1
      <3> HIDE DEF x
      <3>5. apply_event(x, e) \in StateRec /\ apply_event(x, e).session = n
            /\ apply_event(x, e).agent = a /\ apply_event(x, e).status = "Running"
        BY <2>5, <3>4
      <3> QED BY <2>1, <2>2, <2>8, <2>11, <3>1, <3>3, <3>4, <3>5 DEF n
    <2> QED BY <2>1, <2>9, <2>10, <2>11 DEF e, f, h
  <1>3. ASSUME NEW e \in FlowEvent, e.type # "AgentTransitioned", wf.eff = <<e>>,
               apply_event(st, e) \in StateRec, apply_event(st, e).session = st.session
        PROVE  /\ Stored \in Seq(FlowEvent) /\ Tidy(Stored)
               /\ Folded(Stored) = apply_event(st, e)
    <2>1. Stored = Append(wlog, e) /\ Folded(Stored) = apply_event(st, e)
      BY <1>1, <1>3, FoldTwo DEF Stored
    <2>2. Stored \in Seq(FlowEvent)
      BY <1>1, <2>1, AppendProperties
    <2>3. Tidy(Append(wlog, e))
      BY <1>1, <1>3, TidyStays
    <2> QED BY <2>1, <2>2, <2>3
  <1>4. ASSUME Settling
        PROVE  /\ Stored \in Seq(FlowEvent) /\ Tidy(Stored)
               /\ Folded(Stored) \in StateRec /\ Folded(Stored).session = st.session
               /\ Folded(Stored).agent = st.agent
               /\ Announced /\ Complete(plan) => told = Folded(Stored).status
    <2>1. CASE \E t \in Closing : wf.eff = <<[type |-> t]>>
      <3>1. PICK t \in Closing : wf.eff = <<[type |-> t]>>
        BY <2>1
      <3> DEFINE e == [type |-> t]
      <3>2. /\ e \in FlowEvent /\ e.type # "AgentTransitioned" /\ wf.eff = <<e>>
            /\ apply_event(st, e) \in StateRec /\ apply_event(st, e).session = st.session
            /\ apply_event(st, e).agent = st.agent /\ apply_event(st, e).status = StatusOf(t)
        <4>1. e \in FlowEvent
          BY EventTypes
        <4>2. e.type # "AgentTransitioned" /\ wf.eff = <<e>>
          BY <3>1 DEF Closing
        <4>3. /\ apply_event(st, e) \in StateRec /\ apply_event(st, e).session = st.session
              /\ apply_event(st, e).agent = st.agent /\ apply_event(st, e).status = StatusOf(t)
          BY <1>1, ApplyClosing
        <4> QED BY <4>1, <4>2, <4>3
      <3>3. Announced /\ Complete(plan) => told = StatusOf(t)
        BY <3>1 DEF Announced
      <3> HIDE DEF e
      <3>4. /\ Stored \in Seq(FlowEvent) /\ Tidy(Stored) /\ Folded(Stored) = apply_event(st, e)
        BY <3>2, <1>3
      <3> QED BY <3>2, <3>3, <3>4
    <2>2. CASE \E t \in Nat : wf.eff = <<[type |-> "WorkflowPaused", tool |-> t]>>
      <3>1. PICK t \in Nat : wf.eff = <<[type |-> "WorkflowPaused", tool |-> t]>>
        BY <2>2
      <3> DEFINE e == [type |-> "WorkflowPaused", tool |-> t]
      <3>2. /\ e \in FlowEvent /\ e.type # "AgentTransitioned" /\ wf.eff = <<e>>
            /\ apply_event(st, e) \in StateRec /\ apply_event(st, e).session = st.session
            /\ apply_event(st, e).agent = st.agent
            /\ apply_event(st, e).status = "AwaitingUserInput"
        <4>1. e \in FlowEvent
          BY EventTypes
        <4>2. e.type # "AgentTransitioned" /\ wf.eff = <<e>>
          BY <3>1
        <4>3. /\ apply_event(st, e) \in StateRec /\ apply_event(st, e).session = st.session
              /\ apply_event(st, e).agent = st.agent
              /\ apply_event(st, e).status = "AwaitingUserInput"
          BY <1>1, ApplyPaused
        <4> QED BY <4>1, <4>2, <4>3
      <3>3. Announced /\ Complete(plan) => told = "AwaitingUserInput"
        BY <3>1 DEF Announced
      <3> HIDE DEF e
      <3>4. /\ Stored \in Seq(FlowEvent) /\ Tidy(Stored) /\ Folded(Stored) = apply_event(st, e)
        BY <3>2, <1>3
      <3> QED BY <3>2, <3>3, <3>4
    <2> QED BY <1>4, <2>1, <2>2 DEF Settling
  <1>5. Entering \/ Settling
    BY DEF FlowPersists
  <1>6. Len(ag) <= Len(ag)
    OBVIOUS
  <1>7. CASE Entering /\ ~Settling
    BY <1>2, <1>6, <1>7
  <1>8. CASE Settling /\ ~Entering
    BY <1>1, <1>4, <1>8 DEF st
  <1>9. ~(Entering /\ Settling)
    <2> SUFFICES ASSUME Entering, Settling PROVE FALSE
      OBVIOUS
    <2>1. Folded(Stored).session = Len(ag) /\ Folded(Stored).session = st.session
      BY <1>2, <1>4
    <2>2. st.session < Len(ag)
      BY DEF Entering, st
    <2> QED BY <1>1, <2>1, <2>2
  <1> QED BY <1>5, <1>7, <1>8, <1>9

(* Nothing of the agents moves.                                            *)
LEMMA AgentsStay ==
  ASSUME AgentsInv, UNCHANGED <<ag, hist, snap, runs, nruns>>
  PROVE  /\ AgentsInv' /\ Grows /\ Len(ag') = Len(ag) /\ Len(ag) \in Nat
         /\ Stories => Stories'
         /\ NoAgents => NoAgents'
  <1>1. Len(ag) \in Nat
    BY DEF AgentsInv, AgentTypes
  <1>2. AgentsInv'
    BY DEF AgentsInv, AgentTypes, Lengths, AgentsRest, RunsLive
  <1>3. Stories => Stories'
    BY DEF Stories, Story, Tape
  <1>4. Grows
    BY DEF Grows
  <1>5. NoAgents => NoAgents'
    BY DEF NoAgents
  <1> QED BY <1>1, <1>2, <1>3, <1>4, <1>5

(* The events are stored, or the journal refuses them.                     *)
LEMMA PersistsKeeps ==
  ASSUME IInv, NEW stored \in BOOLEAN, WorkflowPersists(stored), stored \/ plan.journalFails
  PROVE  IInv'
  <1>1. /\ wf.phase = "persisting" /\ UNCHANGED <<told, ag, hist, snap>>
        /\ UNCHANGED <<runs, nruns, ops, crashes, plan>>
        /\ wlog' = IF stored THEN Stored ELSE wlog
    BY DEF WorkflowPersists, agents, others, Stored
  <1>2. /\ AgentsInv' /\ Grows /\ Len(ag') = Len(ag) /\ Len(ag) \in Nat
        /\ Stories => Stories'
        /\ NoAgents => NoAgents'
    BY <1>1, AgentsStay DEF IInv
  <1>3. FlowTypes /\ FlowPersists /\ Current /\ Chain /\ Addressed /\ Childless
    BY DEF IInv, FlowInv
  <1>4. /\ Stored \in Seq(FlowEvent) /\ Tidy(Stored)
        /\ Folded(Stored) \in StateRec /\ Folded(Stored).session <= Len(ag)
        /\ Folded(Stored).session # 0 => Folded(Stored).agent \in Agent
        /\ Entering => Folded(Stored).session = wf.child
        /\ Settling => Folded(Stored).session = State.session
    BY <1>1, <1>2, <1>3, StoredIs
  <1>5. wlog \in Seq(FlowEvent) /\ wf \in FlowRec /\ wbox \in Seq(FlowCommand)
        /\ wf.child \in Nat /\ wf.child <= Len(ag)
    BY <1>3 DEF FlowTypes, FlowRec, Current
  <1>6. wlog' \in Seq(FlowEvent) /\ Chain'
    <2>1. CASE stored
      <3>1. wlog' = Stored
        BY <1>1, <2>1
      <3>2. Tidy(wlog)' /\ wlog' \in Seq(FlowEvent)
        BY <1>4, <3>1 DEF Tidy, Link
      <3>3. wlog' \in Seq(FlowEvent) => (Chain' <=> Tidy(wlog)')
        <4>1. DOMAIN wlog' = 1 .. Len(wlog') \/ wlog' \notin Seq(FlowEvent)
          OBVIOUS
        <4>2. wlog' \in Seq(FlowEvent) =>
                (HandOffsChain' <=> \A i \in 1 .. Len(wlog') : Link(wlog, i)')
          BY <4>1 DEF HandOffsChain, Link, Ruled
        <4> QED BY <4>2 DEF Chain, Tidy, State
      <3> QED BY <3>2, <3>3
    <2>2. CASE ~stored
      <3>1. wlog' = wlog
        BY <1>1, <2>2
      <3> QED BY <1>3, <1>5, <3>1 DEF Chain, HandOffsChain, State
    <2> QED BY <2>1, <2>2
  <1>7. /\ State' \in StateRec /\ State'.session <= Len(ag)
        /\ State'.session # 0 => State'.agent \in Agent
        /\ stored /\ Entering => State'.session = wf.child
        /\ stored /\ Settling => State'.session = State.session
    <2>1. State' = IF stored THEN Folded(Stored) ELSE State
      BY <1>1 DEF State
    <2> QED BY <1>3, <1>4, <2>1 DEF Current
  <1> DEFINE Over == wf' = GoneFlow("stopped") /\ wbox' = <<>>
  <1> DEFINE On == wf' = [wf EXCEPT !.phase = "ready", !.eff = <<>>] /\ wbox' = wbox
  <1>8. Over \/ On
    BY DEF WorkflowPersists
  <1>9. /\ wf' \in FlowRec /\ wf'.phase \in {"ready", "stopped"} /\ wf'.eff = <<>>
        /\ wf'.child \in Nat /\ wf'.child <= Len(ag)
        /\ wf'.phase = "ready" => wf'.child = wf.child /\ wf'.served = wf.served
    <2>1. <<>> \in Seq(FlowEvent)
      BY EmptySeq
    <2>2. CASE Over
      BY <1>2, <2>1, <2>2 DEF GoneFlow, FlowRec
    <2>3. CASE On
      BY <1>5, <2>1, <2>3 DEF FlowRec
    <2> QED BY <1>8, <2>2, <2>3
  <1>10. /\ wbox' \in Seq(FlowCommand) /\ Addressed'
         /\ AllTold => AllTold'
    <2>1. CASE wbox' = <<>>
      <3>1. wbox' \in Seq(FlowCommand) /\ Len(wbox') = 0
        BY <2>1, EmptySeq
      <3> QED BY <3>1 DEF Addressed, AllTold
    <2>2. CASE wbox' = wbox
      <3>1. Addressed'
        BY <1>2, <1>3, <2>2 DEF Addressed
      <3>2. AllTold => AllTold'
        BY <1>1, <2>2 DEF AllTold, Told
      <3> QED BY <1>5, <2>2, <3>1, <3>2
    <2> QED BY <1>8, <2>1, <2>2
  <1> HIDE DEF Over, On
  <1>11. FlowTypes'
    BY <1>1, <1>3, <1>6, <1>9, <1>10 DEF FlowTypes
  <1>12. Childless'
    <2>1. wf'.phase = "ready" /\ wf'.child = 0 => NoAgents'
      BY <1>1, <1>2, <1>3, <1>9 DEF Childless
    <2> QED BY <1>9, <2>1 DEF Childless
  <1>13. FlowPersists'
    BY <1>9 DEF FlowPersists
  <1>14. Current'
    BY <1>2, <1>7, <1>9 DEF Current
  <1>15. Announced'
    <2>1. Complete(plan) => Agent \subseteq wf.served
      BY <1>1 DEF IInv, FlowInv, Announced
    <2> QED BY <1>1, <1>9, <2>1 DEF Announced
  <1>16. StoryInv'
    <2> SUFFICES ASSUME ~plan.journalFails PROVE Stories' /\ AllTold' /\ HoldsCurrent'
      BY <1>1 DEF StoryInv
    <2>1. Stories /\ AllTold /\ HoldsCurrent /\ stored
      BY DEF IInv, StoryInv
    <2>2. HoldsCurrent'
      <3> SUFFICES ASSUME wf'.phase \in {"ready", "persisting"}, wf'.child # 0
                   PROVE  wf'.child = State'.session
        BY DEF HoldsCurrent
      <3>1. wf'.child = wf.child /\ (Entering \/ Settling)
        BY <1>1, <1>3, <1>9 DEF FlowPersists
      <3>2. Settling => wf.child = State.session
        BY <1>1, <2>1, <3>1 DEF HoldsCurrent
      <3> QED BY <1>7, <2>1, <3>1, <3>2
    <2> QED BY <1>2, <1>10, <2>1, <2>2
  <1> QED BY <1>2, <1>6, <1>10, <1>11, <1>12, <1>13, <1>14, <1>15, <1>16 DEF IInv, FlowInv

-----------------------------------------------------------------------------
(* The daemon, its operator, and crashes. *)

(* A mailbox with one command, or none, that reports nothing.              *)
LEMMA FreshMailbox ==
  ASSUME NEW c \in FlowCommand, c.cmd \notin Reports \cup {"Fork"}, wbox' \in {<<>>, <<c>>}
  PROVE  wbox' \in Seq(FlowCommand) /\ Addressed' /\ AllTold'
  <1>1. <<>> \in Seq(FlowCommand) /\ Len(<<>>) = 0
    BY EmptySeq
  <1>2. <<c>> \in Seq(FlowCommand) /\ Len(<<c>>) = 1 /\ <<c>>[1] = c
    OBVIOUS
  <1>3. CASE wbox' = <<>>
    BY <1>1, <1>3 DEF Addressed, AllTold
  <1>4. CASE wbox' = <<c>>
    <2>1. \A i \in 1 .. Len(wbox') : wbox'[i].cmd \notin Reports \cup {"Fork"}
      BY <1>2, <1>4
    <2> QED BY <1>2, <1>4, <2>1 DEF Addressed, AllTold, Told
  <1> QED BY <1>3, <1>4

(* Launch.                                                                 *)
LEMMA LaunchKeeps ==
  ASSUME IInv, NEW served \in plan.configs, NEW resume \in BOOLEAN, Launch(served, resume)
  PROVE  IInv'
  <1> DEFINE s == State.session
  <1>1. /\ wf.phase = "down" /\ UNCHANGED <<wlog, told, hist, snap, runs, nruns, crashes, plan>>
        /\ \/ wbox' = <<>> \/ wbox' = <<[cmd |-> "Start"]>> \/ wbox' = <<[cmd |-> "Resume"]>>
        /\ ops' = ops + 1 \/ ops' = ops
        /\ \/ /\ wf' = [GoneFlow("ready") EXCEPT !.served = served, !.child = s]
              /\ ag' = [ag EXCEPT ![s] = Fresh(<<>>)] /\ s # 0
           \/ /\ wf' = [GoneFlow("ready") EXCEPT !.served = served, !.child = 0]
              /\ ag' = ag
    BY DEF Launch
  <1>2. /\ plan \in Plans /\ ops \in Nat /\ crashes \in Nat /\ wlog \in Seq(FlowEvent)
        /\ served \subseteq Agent
        /\ Complete(plan) => Agent \subseteq served
    <2>1. plan \in Plans /\ ops \in Nat /\ crashes \in Nat /\ wlog \in Seq(FlowEvent)
      BY DEF IInv, FlowInv, FlowTypes
    <2>2. plan.configs \subseteq SUBSET Agent
      BY <2>1, WorkflowAssumption
    <2> QED BY <2>1, <2>2 DEF Complete
  <1>3. NoAgents /\ Len(ag) \in Nat /\ s \in Nat /\ s <= Len(ag)
    BY <1>1 DEF IInv, FlowInv, Childless, AgentsInv, AgentTypes, Current, StateRec
  <1>4. /\ AgentsInv' /\ Len(ag') = Len(ag)
        /\ Stories => Stories'
        /\ ag' = ag => NoAgents'
    <2>1. CASE ag' = ag
      BY <1>1, <1>3, <2>1, AgentsStay DEF IInv
    <2>2. CASE s # 0 /\ ag' = [ag EXCEPT ![s] = Fresh(<<>>)]
      <3> DEFINE b == <<>>
      <3>1. s \in 1 .. Len(ag) /\ b \in {<<>>, <<RunCmd>>} /\ ag' = [ag EXCEPT ![s] = Fresh(b)]
        BY <1>3, <2>2
      <3>2. UNCHANGED <<hist, snap, runs, nruns>> /\ AgentsInv
        BY <1>1 DEF IInv
      <3> HIDE DEF b, s
      <3>3. AgentsInv' /\ Len(ag') = Len(ag) /\ (Stories => Stories')
        BY <1>3, <3>1, <3>2, RunCmdIs, RespawnKeeps
      <3>4. ag' = ag => NoAgents'
        BY <1>1, <1>3, <3>2 DEF NoAgents
      <3> QED BY <3>3, <3>4
    <2> QED BY <1>1, <2>1, <2>2
  <1>5. wbox' \in Seq(FlowCommand) /\ Addressed' /\ AllTold'
    <2>1. [cmd |-> "Start"] \in FlowCommand /\ [cmd |-> "Resume"] \in FlowCommand
      BY DEF FlowCommand
    <2>2. [cmd |-> "Start"].cmd = "Start" /\ [cmd |-> "Resume"].cmd = "Resume"
      OBVIOUS
    <2> DEFINE x == [cmd |-> "Start"]
    <2> DEFINE y == [cmd |-> "Resume"]
    <2>3. x \in FlowCommand /\ y \in FlowCommand
          /\ x.cmd \notin Reports \cup {"Fork"} /\ y.cmd \notin Reports \cup {"Fork"}
          /\ (wbox' \in {<<>>, <<x>>} \/ wbox' \in {<<>>, <<y>>})
      BY <1>1, <2>1, <2>2 DEF Reports
    <2> HIDE DEF x, y
    <2> QED BY <2>3, FreshMailbox
  <1>6. State' = State
    BY <1>1 DEF State
  <1>7. /\ wf' \in FlowRec /\ wf'.phase = "ready" /\ wf'.eff = <<>> /\ wf'.served = served
        /\ wf'.child \in {0, s}
        /\ wf'.child = 0 => ag' = ag
    <2>1. <<>> \in Seq(FlowEvent)
      BY EmptySeq
    <2> HIDE DEF s
    <2>2. CASE /\ wf' = [GoneFlow("ready") EXCEPT !.served = served, !.child = s] /\ s # 0
      BY <1>2, <1>3, <2>1, <2>2 DEF GoneFlow, FlowRec
    <2>3. CASE /\ wf' = [GoneFlow("ready") EXCEPT !.served = served, !.child = 0] /\ ag' = ag
      BY <1>2, <2>1, <2>3 DEF GoneFlow, FlowRec
    <2> QED BY <1>1, <2>2, <2>3
  <1>8. FlowTypes'
    BY <1>1, <1>2, <1>5, <1>7 DEF FlowTypes
  <1>9. Childless'
    BY <1>4, <1>7 DEF Childless
  <1>10. FlowPersists'
    BY <1>7 DEF FlowPersists
  <1>11. Current'
    <2>1. Current
      BY DEF IInv, FlowInv
    <2> QED BY <1>3, <1>4, <1>6, <1>7, <2>1 DEF Current
  <1>12. Chain'
    BY <1>1, <1>6 DEF IInv, FlowInv, Chain, HandOffsChain
  <1>13. Announced'
    BY <1>1, <1>2, <1>7 DEF Announced
  <1>14. HoldsCurrent'
    BY <1>6, <1>7 DEF HoldsCurrent
  <1>15. StoryInv'
    BY <1>1, <1>4, <1>5, <1>14 DEF IInv, StoryInv
  <1> QED BY <1>4, <1>5, <1>8, <1>9, <1>10, <1>11, <1>12, <1>13, <1>15 DEF IInv, FlowInv

(* An operator's command.                                                  *)
LEMMA OperateKeeps ==
  ASSUME IInv, NEW c, NEW s, Operate(c, s),
         \/ c \in {"Cancel", "Resume"} /\ s = 0
         \/ c = "Fork" /\ s \in DOMAIN ag
  PROVE  IInv'
  <1> DEFINE e == [cmd |-> c, session |-> s]
  <1>1. /\ ops' = ops + 1 /\ wbox' = Append(wbox, e)
        /\ UNCHANGED <<wlog, wf, told, ag, hist, snap, runs, nruns, crashes, plan>>
    BY DEF Operate, agents
  <1>2. /\ AgentsInv' /\ Grows /\ Len(ag') = Len(ag) /\ Len(ag) \in Nat
        /\ Stories => Stories'
        /\ NoAgents => NoAgents'
    BY <1>1, AgentsStay DEF IInv
  <1>3. DOMAIN ag = 1 .. Len(ag)
    BY DEF IInv, AgentsInv, AgentTypes
  <1>4. /\ e \in FlowCommand /\ e.cmd \notin Reports
        /\ e.cmd = "Fork" => e.session \in 1 .. Len(ag)
    <2>1. s \in Nat
      BY <1>2, <1>3
    <2>2. e.cmd = c /\ e.session = s
      OBVIOUS
    <2>3. e \in FlowCommand
      BY <2>1 DEF FlowCommand
    <2> QED BY <1>3, <2>2, <2>3 DEF Reports
  <1> HIDE DEF e
  <1>5. wbox \in Seq(FlowCommand) /\ Len(wbox) \in Nat
    BY DEF IInv, FlowInv, FlowTypes
  <1>6. /\ wbox' \in Seq(FlowCommand) /\ Len(wbox') = Len(wbox) + 1
        /\ \A i \in 1 .. Len(wbox) : wbox'[i] = wbox[i]
        /\ wbox'[Len(wbox) + 1] = e
    BY <1>1, <1>4, <1>5, AppendProperties
  <1>7. \A i \in 1 .. Len(wbox') : i \in 1 .. Len(wbox) \/ i = Len(wbox) + 1
    BY <1>5, <1>6
  <1>8. Addressed'
    <2> SUFFICES ASSUME NEW i \in 1 .. Len(wbox'), wbox'[i].cmd \in Reports \cup {"Fork"}
                 PROVE  wbox'[i].session \in 1 .. Len(ag)
      BY <1>2 DEF Addressed
    <2>1. CASE i \in 1 .. Len(wbox)
      BY <1>6, <2>1 DEF IInv, FlowInv, Addressed
    <2>2. CASE i = Len(wbox) + 1
      BY <1>4, <1>6, <2>2
    <2> QED BY <1>7, <2>1, <2>2
  <1>9. AllTold => AllTold'
    <2> SUFFICES ASSUME AllTold, NEW i \in 1 .. Len(wbox') PROVE Told(i)'
      BY DEF AllTold
    <2>1. CASE i \in 1 .. Len(wbox)
      <3>1. Told(i) /\ Addressed /\ wbox'[i] = wbox[i]
        BY <1>6, <2>1 DEF AllTold, IInv, FlowInv
      <3> QED BY <1>2, <2>1, <3>1, ToldKept
    <2>2. CASE i = Len(wbox) + 1
      BY <1>4, <1>6, <2>2 DEF Told
    <2> QED BY <1>7, <2>1, <2>2
  <1>10. /\ FlowPersists' /\ Current' /\ Chain' /\ Announced'
         /\ HoldsCurrent => HoldsCurrent'
    BY <1>1, <1>2, FlowKept DEF IInv
  <1>11. FlowTypes'
    <2>1. ops' \in Nat
      BY <1>1 DEF IInv, FlowInv, FlowTypes
    <2> QED BY <1>1, <1>6, <2>1 DEF IInv, FlowInv, FlowTypes
  <1>12. Childless'
    BY <1>1, <1>2 DEF IInv, FlowInv, Childless
  <1>13. StoryInv'
    BY <1>1, <1>2, <1>9, <1>10 DEF IInv, StoryInv
  <1> QED BY <1>2, <1>8, <1>10, <1>11, <1>12, <1>13 DEF IInv, FlowInv

(* Crash.                                                                  *)
LEMMA CrashKeeps ==
  ASSUME IInv, Crash
  PROVE  IInv'
  <1>1. /\ crashes' = crashes + 1 /\ wf' = GoneFlow("down") /\ wbox' = <<>> /\ told' = "none"
        /\ ag' = [s \in DOMAIN ag |-> GoneAgent] /\ runs' = <<>>
        /\ UNCHANGED <<wlog, hist, snap, nruns, ops, plan>>
    BY DEF Crash
  <1>2. ag \in Seq(AgentRec) /\ Len(ag) \in Nat /\ DOMAIN ag = 1 .. Len(ag)
    BY DEF IInv, AgentsInv, AgentTypes
  <1>3. GoneAgent \in AgentRec /\ GoneAgent.phase = "down" /\ GoneAgent.eff = <<>>
        /\ GoneAgent.box = <<>>
    <2>1. <<>> \in Seq(EntrySet) /\ <<>> \in Seq(AgentCommand)
      BY EmptySeq
    <2> QED BY <2>1 DEF GoneAgent, AgentRec
  <1>4. /\ ag' \in Seq(AgentRec) /\ Len(ag') = Len(ag)
        /\ \A s \in 1 .. Len(ag) : ag'[s] = GoneAgent
    <2> HIDE DEF GoneAgent
    <2>1. ag' = [s \in 1 .. Len(ag) |-> GoneAgent]
      BY <1>1, <1>2
    <2>2. ag' \in Seq(AgentRec)
      BY <1>2, <1>3, <2>1
    <2>3. Len(ag') = Len(ag)
      BY <1>2, <2>1
    <2> QED BY <2>1, <2>2, <2>3
  <1>5. DOMAIN runs' = {}
    BY <1>1
  <1>6. NoAgents'
    BY <1>3, <1>4, <1>5 DEF NoAgents
  <1>7. AgentsInv'
    <2>1. AgentTypes'
      BY <1>1, <1>4, <1>5 DEF IInv, AgentsInv, AgentTypes
    <2>2. Lengths'
      BY <1>1, <1>4 DEF IInv, AgentsInv, Lengths
    <2>3. AgentsRest'
      BY <1>3, <1>4 DEF AgentsRest
    <2>4. RunsLive'
      BY <1>5 DEF RunsLive
    <2> QED BY <2>1, <2>2, <2>3, <2>4 DEF AgentsInv
  <1>8. Stories => Stories'
    <2> SUFFICES ASSUME Stories, NEW s \in 1 .. Len(ag) PROVE Story(s)'
      BY <1>4 DEF Stories
    <2> DEFINE T == hist[s]
    <2>1. Story(s) /\ T \in Seq(EntrySet) /\ AgentsInv
      BY DEF Stories, IInv, AgentsInv, AgentTypes, Lengths
    <2>2. Len(T) \in 0 .. Len(T) /\ SubSeq(T, 1, Len(T)) = T
      <3> HIDE DEF T
      <3>1. Len(T) \in 0 .. Len(T)
        BY <2>1
      <3> QED BY <2>1, <3>1, PrefixOfTape
    <2> DEFINE k == Len(T)
    <2>3. k \in 0 .. Len(hist[s]) /\ SubSeq(hist[s], 1, k) = T
      BY <2>2
    <2> HIDE DEF k
    <2>4. Ordered(T) /\ RunsKnown(T, <<>>, nruns)
      BY <2>1, <2>3, PrefixStory
    <2>5. /\ hist'[s] = T /\ ag'[s].eff = <<>> /\ ag'[s].box \in {<<>>, <<RunCmd>>}
          /\ RunsKnown(T, <<>>, nruns') /\ \A r \in DOMAIN runs' : runs'[r].session # s
      BY <1>1, <1>3, <1>4, <1>5, <2>4
    <2> HIDE DEF T
    <2> QED BY <2>1, <2>4, <2>5, RunCmdIs, FreshStory
  <1>9. wbox' \in Seq(FlowCommand) /\ Addressed' /\ AllTold'
    <2>1. wbox' \in Seq(FlowCommand) /\ Len(wbox') = 0
      BY <1>1, EmptySeq
    <2> QED BY <2>1 DEF Addressed, AllTold
  <1>10. wf' \in FlowRec /\ wf'.phase = "down" /\ wf'.eff = <<>> /\ wf'.child = 0
    <2>1. <<>> \in Seq(FlowEvent)
      BY EmptySeq
    <2> QED BY <1>1, <2>1 DEF GoneFlow, FlowRec
  <1>11. State' = State
    BY <1>1 DEF State
  <1>12. FlowTypes'
    BY <1>1, <1>9, <1>10 DEF IInv, FlowInv, FlowTypes
  <1>13. Childless'
    BY <1>6, <1>10 DEF Childless
  <1>14. FlowPersists'
    BY <1>10 DEF FlowPersists
  <1>15. Current'
    BY <1>2, <1>4, <1>10, <1>11 DEF IInv, FlowInv, Current
  <1>16. Chain'
    BY <1>1, <1>11 DEF IInv, FlowInv, Chain, HandOffsChain
  <1>17. Announced'
    BY <1>10 DEF Announced
  <1>18. HoldsCurrent'
    BY <1>10 DEF HoldsCurrent
  <1>19. StoryInv'
    BY <1>1, <1>8, <1>9, <1>18 DEF IInv, StoryInv
  <1> QED BY <1>7, <1>9, <1>12, <1>13, <1>14, <1>15, <1>16, <1>17, <1>19 DEF IInv, FlowInv

-----------------------------------------------------------------------------
(* The invariant holds at first and is kept by every step. *)

(* The first state.                                                        *)
LEMMA InitHolds == Init => IInv
  <1> SUFFICES ASSUME Init PROVE IInv
    OBVIOUS
  <1>1. /\ wlog = <<>> /\ wf = GoneFlow("down") /\ wbox = <<>>
        /\ ag = <<>> /\ hist = <<>> /\ snap = <<>> /\ runs = <<>> /\ nruns = 0
        /\ ops = 0 /\ crashes = 0 /\ plan \in Plans
    BY DEF Init
  <1>2. /\ Len(ag) = 0 /\ Len(hist) = 0 /\ Len(snap) = 0 /\ Len(wlog) = 0 /\ Len(wbox) = 0
        /\ DOMAIN runs = {} /\ DOMAIN wlog = {}
    BY <1>1
  <1>3. /\ ag \in Seq(AgentRec) /\ hist \in Seq(Seq(EntrySet)) /\ snap \in Seq(Nat)
        /\ wlog \in Seq(FlowEvent) /\ wbox \in Seq(FlowCommand) /\ <<>> \in Seq(FlowEvent)
    BY <1>1, EmptySeq
  <1>4. State = Pending
    BY <1>1, FoldEmpty DEF State
  <1>5. wf \in FlowRec /\ wf.phase = "down" /\ wf.eff = <<>> /\ wf.child = 0
    BY <1>1, <1>3 DEF GoneFlow, FlowRec
  <1>6. AgentsInv
    BY <1>1, <1>2, <1>3 DEF AgentsInv, AgentTypes, Lengths, AgentsRest, RunsLive
  <1>7. FlowTypes
    BY <1>1, <1>3, <1>5 DEF FlowTypes
  <1>8. Childless
    BY <1>2 DEF Childless, NoAgents
  <1>9. FlowPersists
    BY <1>5 DEF FlowPersists
  <1>10. Current
    BY <1>2, <1>4, <1>5, PendingType DEF Current
  <1>11. Addressed
    BY <1>2 DEF Addressed
  <1>12. Chain
    BY <1>2 DEF Chain, HandOffsChain
  <1>13. Announced
    BY <1>5 DEF Announced
  <1>14. StoryInv
    BY <1>2, <1>5 DEF StoryInv, Stories, AllTold, HoldsCurrent
  <1> QED BY <1>6, <1>7, <1>8, <1>9, <1>10, <1>11, <1>12, <1>13, <1>14 DEF IInv, FlowInv

(* Nothing happens.                                                        *)
LEMMA StutterKeeps ==
  ASSUME IInv, UNCHANGED vars
  PROVE  IInv'
  <1>1. UNCHANGED <<wlog, wf, wbox, told, ag, hist, snap, runs, nruns, ops, crashes, plan>>
    BY DEF vars
  <1>2. /\ AgentsInv' /\ Grows /\ Len(ag') = Len(ag) /\ Len(ag) \in Nat
        /\ Stories => Stories'
        /\ NoAgents => NoAgents'
    BY <1>1, AgentsStay DEF IInv
  <1>3. /\ FlowPersists' /\ Current' /\ Chain' /\ Announced'
        /\ HoldsCurrent => HoldsCurrent'
    BY <1>1, <1>2, FlowKept DEF IInv
  <1>4. FlowTypes' /\ Addressed' /\ (AllTold => AllTold')
    BY <1>1 DEF IInv, FlowInv, FlowTypes, Addressed, AllTold, Told
  <1>5. Childless'
    BY <1>1, <1>2 DEF IInv, FlowInv, Childless
  <1>6. StoryInv'
    BY <1>1, <1>2, <1>3, <1>4 DEF IInv, StoryInv
  <1> QED BY <1>2, <1>3, <1>4, <1>5, <1>6 DEF IInv, FlowInv

(* Every step.                                                             *)
LEMMA NextKeeps ==
  ASSUME IInv, [Next]_vars
  PROVE  IInv'
  <1>1. DOMAIN ag = 1 .. Len(ag)
    BY DEF IInv, AgentsInv, AgentTypes
  <1>2. CASE WorkflowStep
    <2>1. CASE OnStart
      BY <2>1, StartKeeps
    <2>2. CASE OnCancel
      BY <2>2, CancelKeeps
    <2>3. CASE OnResume
      BY <2>3, ResumeKeeps
    <2>4. CASE OnFork
      BY <2>4, ForkKeeps
    <2>5. CASE OnStaleReport
      BY <2>5, StaleKeeps
    <2>6. CASE OnConcluded
      BY <2>6, ConcludedKeeps
    <2>7. CASE OnAgentFailed
      BY <2>7, FailedKeeps
    <2>8. CASE OnAgentAsked
      BY <2>8, AskedKeeps
    <2>9. CASE WorkflowPersists(TRUE)
      BY <2>9, PersistsKeeps
    <2> QED BY <1>2, <2>1, <2>2, <2>3, <2>4, <2>5, <2>6, <2>7, <2>8, <2>9 DEF WorkflowStep
  <1>3. CASE \E s \in DOMAIN ag : AgentStep(s)
    <2>1. PICK s \in 1 .. Len(ag) : AgentStep(s)
      BY <1>1, <1>3
    <2>2. Quiet(s)
      BY <2>1, AgentIsQuiet DEF IInv
    <2> QED BY <2>2, QuietKeeps
  <1>4. CASE \E r \in DOMAIN runs : RunStep(r)
    <2>1. PICK r \in DOMAIN runs : RunStep(r)
      BY <1>4
    <2>2. PICK s \in 1 .. Len(ag) : Quiet(s)
      BY <2>1, RunIsQuiet DEF IInv
    <2> QED BY <2>2, QuietKeeps
  <1>5. CASE \E served \in plan.configs, resume \in BOOLEAN : Launch(served, resume)
    BY <1>5, LaunchKeeps
  <1>6. CASE \E c \in {"Cancel", "Resume"} : Operate(c, 0)
    BY <1>6, OperateKeeps
  <1>7. CASE \E s \in DOMAIN ag : Operate("Fork", s)
    BY <1>7, OperateKeeps
  <1>8. CASE Crash
    BY <1>8, CrashKeeps
  <1>9. CASE JournalError
    <2>1. CASE plan.journalFails /\ WorkflowPersists(FALSE)
      BY <2>1, PersistsKeeps
    <2>2. CASE /\ plan.journalFails
               /\ \E s \in DOMAIN ag : AgentPersists(s, FALSE) \/ AgentRecoveryFails(s)
      <3>1. PICK s \in 1 .. Len(ag) : AgentPersists(s, FALSE) \/ AgentRecoveryFails(s)
        BY <1>1, <2>2
      <3>2. Quiet(s)
        BY <2>2, <3>1, AgentIsQuiet DEF IInv
      <3> QED BY <3>2, QuietKeeps
    <2> QED BY <1>9, <2>1, <2>2 DEF JournalError
  <1>10. CASE UNCHANGED vars
    BY <1>10, StutterKeeps
  <1> QED BY <1>2, <1>3, <1>4, <1>5, <1>6, <1>7, <1>8, <1>9, <1>10 DEF Next

(* Only persisted events change the log, and nothing the circumstances.    *)
LEMMA LogMoves ==
  ASSUME IInv, [Next]_vars
  PROVE  plan' = plan /\ (wlog' = wlog \/ WorkflowPersists(TRUE))
  <1>1. DOMAIN ag = 1 .. Len(ag)
    BY DEF IInv, AgentsInv, AgentTypes
  <1>2. CASE WorkflowStep
    <2>1. CASE OnStart
      BY <2>1 DEF OnStart, others
    <2>2. CASE OnCancel
      BY <2>2 DEF OnCancel, others
    <2>3. CASE OnResume
      BY <2>3 DEF OnResume, others
    <2>4. CASE OnFork
      BY <2>4 DEF OnFork, others
    <2>5. CASE OnStaleReport
      BY <2>5 DEF OnStaleReport, others
    <2>6. CASE OnConcluded
      BY <2>6 DEF OnConcluded, others
    <2>7. CASE OnAgentFailed
      BY <2>7 DEF OnAgentFailed, others
    <2>8. CASE OnAgentAsked
      BY <2>8 DEF OnAgentAsked, others
    <2>9. CASE WorkflowPersists(TRUE)
      BY <2>9 DEF WorkflowPersists, others
    <2> QED BY <1>2, <2>1, <2>2, <2>3, <2>4, <2>5, <2>6, <2>7, <2>8, <2>9 DEF WorkflowStep
  <1>3. CASE \E s \in DOMAIN ag : AgentStep(s)
    <2>1. PICK s \in 1 .. Len(ag) : AgentStep(s)
      BY <1>1, <1>3
    <2>2. Quiet(s)
      BY <2>1, AgentIsQuiet DEF IInv
    <2> QED BY <2>2 DEF Quiet
  <1>4. CASE \E r \in DOMAIN runs : RunStep(r)
    <2>1. PICK r \in DOMAIN runs : RunStep(r)
      BY <1>4
    <2>2. PICK s \in 1 .. Len(ag) : Quiet(s)
      BY <2>1, RunIsQuiet DEF IInv
    <2> QED BY <2>2 DEF Quiet
  <1>5. CASE \E served \in plan.configs, resume \in BOOLEAN : Launch(served, resume)
    BY <1>5 DEF Launch
  <1>6. CASE \E c \in {"Cancel", "Resume"} : Operate(c, 0)
    BY <1>6 DEF Operate
  <1>7. CASE \E s \in DOMAIN ag : Operate("Fork", s)
    BY <1>7 DEF Operate
  <1>8. CASE Crash
    BY <1>8 DEF Crash
  <1>9. CASE JournalError
    <2>1. CASE WorkflowPersists(FALSE)
      BY <2>1 DEF WorkflowPersists, others
    <2>2. CASE /\ plan.journalFails
               /\ \E s \in DOMAIN ag : AgentPersists(s, FALSE) \/ AgentRecoveryFails(s)
      <3>1. PICK s \in 1 .. Len(ag) : AgentPersists(s, FALSE) \/ AgentRecoveryFails(s)
        BY <1>1, <2>2
      <3>2. Quiet(s)
        BY <2>2, <3>1, AgentIsQuiet DEF IInv
      <3> QED BY <3>2 DEF Quiet
    <2> QED BY <1>9, <2>1, <2>2 DEF JournalError
  <1>10. CASE UNCHANGED vars
    BY <1>10 DEF vars
  <1> QED BY <1>2, <1>3, <1>4, <1>5, <1>6, <1>7, <1>8, <1>9, <1>10 DEF Next

-----------------------------------------------------------------------------
(* The theorems. *)

(* The invariant gives the types.                                          *)
LEMMA TypesFollow == IInv => TypeOK
  <1> SUFFICES ASSUME IInv PROVE TypeOK
    OBVIOUS
  <1>1. AgentTypes /\ Lengths /\ RunsLive /\ FlowTypes /\ Current
    BY DEF IInv, AgentsInv, FlowInv
  <1>2. DOMAIN ag = 1 .. Len(ag) /\ Len(ag) \in Nat
    BY <1>1 DEF AgentTypes
  <1>3. /\ Status \in Statuses /\ State.session \in 0 .. Len(ag)
    BY <1>1, <1>2 DEF Current, StateRec, Status
  <1>4. /\ wf.phase \in {"down", "ready", "persisting", "stopped"}
        /\ wf.child \in 0 .. Len(ag)
    BY <1>1, <1>2 DEF FlowTypes, FlowRec, Current
  <1>5. \A s \in DOMAIN ag :
          /\ ag[s].phase \in {"down", "starting", "ready", "persisting"}
          /\ snap[s] <= Len(hist[s])
    <2> SUFFICES ASSUME NEW s \in 1 .. Len(ag)
                 PROVE  /\ ag[s].phase \in {"down", "starting", "ready", "persisting"}
                        /\ snap[s] <= Len(hist[s])
      BY <1>2
    <2>1. ag[s] \in AgentRec
      BY <1>1 DEF AgentTypes
    <2>2. ag[s].phase \in {"down", "starting", "ready", "persisting"}
      BY <2>1 DEF AgentRec
    <2>3. snap[s] <= Len(hist[s])
      BY <1>1 DEF Lengths
    <2> QED BY <2>2, <2>3
  <1>6. \A r \in DOMAIN runs :
          /\ r <= nruns /\ ag[runs[r].session].phase # "down"
          /\ runs[r].passed <= runs[r].sent
    <2> SUFFICES ASSUME NEW r \in DOMAIN runs
                 PROVE  /\ r <= nruns /\ ag[runs[r].session].phase # "down"
                        /\ runs[r].passed <= runs[r].sent
      OBVIOUS
    <2>1. r \in 1 .. nruns /\ nruns \in Nat
      BY <1>1 DEF AgentTypes
    <2>2. r <= nruns
      BY <2>1
    <2>3. ag[runs[r].session].phase # "down" /\ runs[r].passed <= runs[r].sent
      BY <1>1 DEF RunsLive
    <2> QED BY <2>2, <2>3
  <1>7. Len(hist) = Len(ag) /\ Len(snap) = Len(ag)
    BY <1>1 DEF Lengths
  <1> QED BY <1>3, <1>4, <1>5, <1>6, <1>7 DEF TypeOK, Statuses

(* With a journal that works it gives the rest of Inv.                     *)
LEMMA ChildFollows == IInv /\ ~plan.journalFails => ChildIsCurrent
  BY DEF IInv, StoryInv, HoldsCurrent, ChildIsCurrent

(* The order of every session's journal.                                   *)
LEMMA OrderFollows == IInv /\ ~plan.journalFails => JournalIsOrdered
  <1> SUFFICES ASSUME IInv, ~plan.journalFails, NEW s \in DOMAIN hist, NEW i \in DOMAIN hist[s]
               PROVE  LET e == hist[s][i] IN
                      /\ \A j \in DOMAIN hist[s] :
                           hist[s][j].run = e.run /\ hist[s][j].n = e.n => i = j
                      /\ e.n > 1 \/ (e.n = 1 /\ e.kind # "continue") =>
                           \E j \in 1 .. i - 1 :
                             hist[s][j].run = e.run /\ hist[s][j].n = e.n - 1
    BY DEF JournalIsOrdered
  <1>1. /\ AgentsInv /\ Stories
        /\ hist \in Seq(Seq(EntrySet)) /\ Len(hist) = Len(ag)
    BY DEF IInv, StoryInv, AgentsInv, AgentTypes, Lengths
  <1>2. s \in 1 .. Len(ag) /\ hist[s] \in Seq(EntrySet)
    BY <1>1
  <1>3. 0 \in 0 .. Len(hist[s]) /\ Story(s)
    BY <1>1, <1>2 DEF Stories
  <1>4. Ordered(hist[s])
    BY <1>1, <1>2, <1>3, PrefixStory
  <1>5. DOMAIN hist[s] = 1 .. Len(hist[s]) /\ hist[s][i] \in EntrySet
    BY <1>2
  <1> DEFINE e == hist[s][i]
  <1>6. /\ i \in 1 .. Len(hist[s]) /\ e.n \in Nat
        /\ \A j \in 1 .. Len(hist[s]) : hist[s][j].run = e.run /\ hist[s][j].n = e.n => i = j
        /\ e.n > First(e.kind) =>
             \E j \in 1 .. i - 1 : hist[s][j].run = e.run /\ hist[s][j].n = e.n - 1
    BY <1>4, <1>5 DEF Ordered, EntrySet
  <1>7. e.n > 1 \/ (e.n = 1 /\ e.kind # "continue") => e.n > First(e.kind)
    BY <1>6 DEF First
  <1> QED BY <1>5, <1>6, <1>7

(* What the reports say is durable.                                        *)
LEMMA DurableFollows == IInv /\ ~plan.journalFails => ReportedIsJournaled
  <1> SUFFICES ASSUME IInv, ~plan.journalFails, NEW i \in DOMAIN wbox,
                      wbox[i].cmd \in {"AgentConcluded", "AgentAsked", "AgentFailed"},
                      NEW n \in (IF wbox[i].kind = "continue" THEN 1 ELSE 0) .. wbox[i].sent
               PROVE  \E j \in DOMAIN hist[wbox[i].session] :
                        /\ hist[wbox[i].session][j].run = wbox[i].run
                        /\ hist[wbox[i].session][j].n = n
    BY DEF ReportedIsJournaled
  <1>1. /\ AllTold /\ Addressed /\ wbox \in Seq(FlowCommand)
        /\ hist \in Seq(Seq(EntrySet)) /\ Len(hist) = Len(ag)
    BY DEF IInv, StoryInv, AgentsInv, AgentTypes, Lengths, FlowInv, FlowTypes
  <1>2. i \in 1 .. Len(wbox) /\ wbox[i].cmd \in Reports
    BY <1>1 DEF Reports
  <1>3. wbox[i].session \in 1 .. Len(hist)
    BY <1>1, <1>2 DEF Addressed
  <1>4. DOMAIN hist[wbox[i].session] = 1 .. Len(hist[wbox[i].session])
    BY <1>1, <1>3
  <1>5. Has(hist[wbox[i].session], wbox[i].run, n)
    BY <1>1, <1>2 DEF AllTold, Told, First
  <1> QED BY <1>4, <1>5 DEF Has

(* The invariant holds always.                                             *)
LEMMA InvariantHolds == Spec => []IInv
  <1>1. IInv /\ [Next]_vars => IInv'
    BY NextKeeps
  <1> QED BY <1>1, InitHolds, PTL DEF Spec

(* As long as it does the circumstances stay as they are.                  *)
LEMMA JournalWorks == Spec /\ ~plan.journalFails => []~plan.journalFails
  <1>1. ~plan.journalFails /\ IInv /\ [Next]_vars => (~plan.journalFails)'
    BY LogMoves
  <1> QED BY <1>1, InvariantHolds, PTL DEF Spec

(* The types hold in every circumstance: sessions are never addressed that *)
(* do not exist, and no run belongs to an agent that has ended.            *)
THEOREM ActorsAreTyped == Spec => []TypeOK
  BY InvariantHolds, TypesFollow, PTL

(* Over a journal that does not fail, the agent the workflow talks to is   *)
(* the one its journal calls current.                                      *)
THEOREM ChildStaysCurrent == Spec /\ ~plan.journalFails => []Inv
  <1>1. IInv /\ ~plan.journalFails => Inv
    BY TypesFollow, ChildFollows DEF Inv
  <1> QED BY <1>1, InvariantHolds, JournalWorks, PTL

(* Over a journal that does not fail, a session's journal tells each run   *)
(* in order and once.                                                      *)
THEOREM SessionsAreOrdered == Spec /\ ~plan.journalFails => []JournalIsOrdered
  BY InvariantHolds, JournalWorks, OrderFollows, PTL

(* Over a journal that does not fail, what an agent reports is durable     *)
(* when the workflow hears of it.                                          *)
THEOREM ReportsAreDurable == Spec /\ ~plan.journalFails => []ReportedIsJournaled
  BY InvariantHolds, JournalWorks, DurableFollows, PTL

(* In every circumstance, the hand-offs form one chain along the rules.    *)
THEOREM HandOffsAreAChain == Spec => []HandOffsChain
  <1>1. IInv => HandOffsChain
    BY DEF IInv, FlowInv, Chain
  <1> QED BY <1>1, InvariantHolds, PTL

(* Where every agent has a provider, the journal does not fail and keeps   *)
(* no snapshots, the observer is told of a status before it is durable.    *)
THEOREM StatusesAreNotified == Spec /\ Complete(plan) => StatusIsNotified
  <1> DEFINE A == Status' # Status /\ Status' \in {"Suspended", "AwaitingUserInput",
                                                  "Finished", "Failed"}
                    => told' = Status'
  <1>1. IInv /\ Complete(plan) /\ [Next]_vars => Complete(plan)'
    <2> SUFFICES ASSUME IInv, Complete(plan), [Next]_vars PROVE Complete(plan)'
      OBVIOUS
    <2>1. plan' = plan
      BY LogMoves
    <2> QED BY <2>1 DEF Complete
  <1>2. IInv /\ Complete(plan) /\ [Next]_vars => A
    <2> SUFFICES ASSUME IInv, Complete(plan), [Next]_vars, Status' # Status,
                        Status' \in {"Suspended", "AwaitingUserInput", "Finished", "Failed"}
                 PROVE  told' = Status'
      OBVIOUS
    <2>1. WorkflowPersists(TRUE)
      <3>1. wlog' = wlog => Status' = Status
        BY DEF Status, State
      <3> QED BY <3>1, LogMoves
    <2>2. /\ wf.phase = "persisting" /\ told' = told /\ wlog' = Stored
      BY <2>1 DEF WorkflowPersists, Stored
    <2>3. FlowTypes /\ FlowPersists /\ Current /\ Chain /\ Announced /\ Len(ag) \in Nat
      BY DEF IInv, FlowInv, AgentsInv, AgentTypes
    <2>4. /\ Entering => Folded(Stored).status = "Running"
          /\ Announced /\ Complete(plan) /\ Settling => told = Folded(Stored).status
      BY <2>2, <2>3, StoredIs
    <2>5. Status' = Folded(Stored).status
      BY <2>2 DEF Status, State
    <2>6. Entering \/ Settling
      BY <2>2, <2>3 DEF FlowPersists
    <2> QED BY <2>2, <2>3, <2>4, <2>5, <2>6
  <1>3. [][IInv /\ Complete(plan) /\ [Next]_vars]_vars => [][A]_vars
    <2>1. [IInv /\ Complete(plan) /\ [Next]_vars]_vars => [A]_vars
      BY <1>2
    <2> QED BY <2>1, PTL
  <1>4. Spec /\ Complete(plan) => []Complete(plan)
    BY <1>1, InvariantHolds, PTL DEF Spec
  <1>5. Spec /\ Complete(plan) => [][A]_vars
    BY <1>3, <1>4, InvariantHolds, PTL DEF Spec
  <1> QED BY <1>5 DEF StatusIsNotified
=============================================================================
