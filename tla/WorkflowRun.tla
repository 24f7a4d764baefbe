----------------------------- MODULE WorkflowRun -----------------------------
(***************************************************************************)
(* One workflow run: the workflow actor, the agent actor of every session  *)
(* it starts, and the background runs (LLM loops) those agents drive.      *)
(* They talk through mailboxes; the process may die between any two steps, *)
(* and is then relaunched over what the journal holds.                     *)
(*                                                                         *)
(* Of each actor's journal this module keeps the log alone: that an idle   *)
(* actor holds the fold of its log is the business of ActorRuntime.  A     *)
(* run emits coarse events 1, 2, ... and ends with an outcome; what a turn *)
(* does inside is left to agentcore.  Sessions and runs are numbered in    *)
(* the order their fresh ids are drawn.                                    *)
(***************************************************************************)
EXTENDS Integers, Sequences, FiniteSets, SequencesExt

CONSTANTS Agent,        \* the agents the definition declares
          StartAgent,   \* `def.start`; need not be declared
          Transitions,  \* Transitions[a]: the rules [to, when] of agent a
          Output,       \* what a run may conclude with
          Nobody,       \* no rule matches
          MaxSent,      \* bound: coarse events of a run
          Plans         \* the circumstances a behaviour may have:
                        \*   configs: sets of agents a daemon may have a
                        \*     provider for
                        \*   operations: what the operator does
                        \*   snapshots: the journal keeps them (in-memory: TRUE)
                        \*   journalFails: journal operations may return errors
                        \*   maxOps, maxCrashes: bounds of commands and crashes

ASSUME WorkflowAssumption ==
  /\ Nobody \notin Agent
  /\ \A a \in Agent :
       /\ DOMAIN Transitions[a] \subseteq Nat
       /\ \A i \in DOMAIN Transitions[a] : Transitions[a][i].when \subseteq Output
  /\ MaxSent \in Nat
  /\ \A p \in Plans :
       /\ p.configs \subseteq SUBSET Agent
       /\ p.operations \subseteq {"Cancel", "Resume", "Fork"}
       /\ {p.snapshots, p.journalFails} \subseteq BOOLEAN
       /\ {p.maxOps, p.maxCrashes} \subseteq Nat

VARIABLES
  wlog,    \* the workflow's persisted events
  wf,      \* the workflow actor
  wbox,    \* its mailbox
  told,    \* the last WorkflowNotification, or "none"
  ag,      \* ag[s]: the agent actor of session s
  hist,    \* hist[s]: the persisted messages of session s
  snap,    \* snap[s]: how many of them its snapshot holds; 0 for none
  runs,    \* the live background runs, by number
  nruns,   \* runs begun so far
  ops,     \* operator commands so far
  crashes, \* crashes so far
  plan     \* the circumstances of this behaviour

vars == <<wlog, wf, wbox, told, ag, hist, snap, runs, nruns, ops, crashes, plan>>

agents == <<ag, hist, snap>>
bounds == <<ops, crashes, plan>>
others == <<runs, nruns, ops, crashes, plan>>

-----------------------------------------------------------------------------
(* The workflow's state is the fold of its events.                         *)

Pending == [status |-> "Pending", agent |-> Nobody, session |-> 0, tool |-> 0]

apply_event(st, e) ==
  CASE e.type = "WorkflowStarted" -> [st EXCEPT !.status = "Running"]
    [] e.type \in {"AgentStarted", "AgentTransitioned"} ->
         [st EXCEPT !.agent = e.agent, !.session = e.session,
                    !.status = "Running"]
    [] e.type = "WorkflowFinished"  -> [st EXCEPT !.status = "Finished"]
    [] e.type = "WorkflowSuspended" -> [st EXCEPT !.status = "Suspended"]
    [] e.type = "WorkflowFailed"    -> [st EXCEPT !.status = "Failed"]
    [] e.type = "WorkflowPaused"    ->
         [st EXCEPT !.status = "AwaitingUserInput", !.tool = e.tool]

Folded(log) ==
  LET upTo[i \in 0 .. Len(log)] ==
        IF i = 0 THEN Pending ELSE apply_event(upTo[i - 1], log[i])
  IN  upTo[Len(log)]
State  == Folded(wlog)
Status == State.status

Matching(a, o) == {i \in DOMAIN Transitions[a] : o \in Transitions[a][i].when}

(* Mutant: the rules of the start agent are consulted for every agent.     *)
find_any_transition(a, o) ==
  LET m == Matching(StartAgent, o)
  IN  IF m = {} THEN Nobody ELSE Transitions[StartAgent][Min(m)].to

(* The first rule whose condition holds of the output; a rule without a    *)
(* condition holds of all, one that fails to evaluate of none.             *)
find_next_transition(a, o) ==
  LET m == Matching(a, o)
  IN  IF m = {} THEN Nobody ELSE Transitions[a][Min(m)].to

(* agent_def finds it, and a provider is registered for its model.         *)
CanSpawn(a) == a \in Agent /\ a \in wf.served

-----------------------------------------------------------------------------
(* Actors.                                                                 *)

Fresh(box)  == [phase |-> "starting", running |-> 0, eff |-> <<>>, box |-> box]
GoneAgent   == [phase |-> "down", running |-> 0, eff |-> <<>>, box |-> <<>>]
GoneFlow(p) == [phase |-> p, child |-> 0, served |-> {}, eff |-> <<>>,
                stop |-> FALSE]

(* A tell reaches an actor that has not ended.                             *)
Delivered(s, cmd) ==
  IF s = 0 \/ ag[s].phase = "down" THEN ag
  ELSE [ag EXCEPT ![s].box = Append(@, cmd)]
TellParent(cmd) ==
  wbox' = IF wf.phase \in {"down", "stopped"} THEN wbox ELSE Append(wbox, cmd)

RunCmd       == [cmd |-> "Run"]
InjectCmd(t) == [cmd |-> "InjectToolResult", tool |-> t]
NewSession   == Len(ag) + 1

Init ==
  /\ wlog = <<>> /\ wf = GoneFlow("down") /\ wbox = <<>> /\ told = "none"
  /\ ag = <<>> /\ hist = <<>> /\ snap = <<>>
  /\ runs = <<>> /\ nruns = 0
  /\ ops = 0 /\ crashes = 0 /\ plan \in Plans

-----------------------------------------------------------------------------
(* The workflow actor.                                                     *)

Takes(c) == wf.phase = "ready" /\ wbox # <<>> /\ Head(wbox).cmd = c
Took     == wbox' = Tail(wbox)

(* The handler has returned an effect that persists events.                *)
Persists(events, stops, child) ==
  wf' = [wf EXCEPT !.phase = "persisting", !.eff = events, !.stop = stops,
                   !.child = child]
Ends(type) == Persists(<<[type |-> type]>>, TRUE, wf.child)

(* Mutant: the new handle is not stored.                                   *)
EntersUnheld(a, cmd, copied, before) ==
  /\ ag' = Append(ag, Fresh(<<cmd>>))
  /\ hist' = Append(hist, copied)
  /\ snap' = Append(snap, Len(copied))
  /\ Persists(Append(before, [type |-> "AgentStarted", agent |-> a,
                              session |-> NewSession]),
              FALSE, wf.child)

(* spawn_agent for a fresh session, the command it is sent, and the events *)
(* that make it current.                                                   *)
Enters(a, cmd, copied, before) ==
  /\ ag' = Append(ag, Fresh(<<cmd>>))
  /\ hist' = Append(hist, copied)
  /\ snap' = Append(snap, Len(copied))
  /\ Persists(Append(before, [type |-> "AgentStarted", agent |-> a,
                              session |-> NewSession]),
              FALSE, NewSession)

OnStart ==
  /\ Takes("Start") /\ Took
  /\ IF CanSpawn(StartAgent)
     THEN /\ Enters(StartAgent, RunCmd, <<>>, <<[type |-> "WorkflowStarted"]>>)
          /\ UNCHANGED told
     ELSE /\ Ends("WorkflowFailed") /\ told' = "Failed"
          /\ UNCHANGED agents
  /\ UNCHANGED <<wlog, others>>

OnCancel ==
  /\ Takes("Cancel") /\ Took
  /\ ag' = Delivered(wf.child, [cmd |-> "Cancel"])
  /\ told' = "Suspended"
  /\ Persists(<<[type |-> "WorkflowSuspended"]>>, FALSE, wf.child)
  /\ UNCHANGED <<wlog, hist, snap, others>>

(* Resume sends the message and persists nothing; without a child handle   *)
(* the agent of the current session is spawned again.                      *)
OnResume ==
  /\ Takes("Resume") /\ Took
  /\ LET awaiting == Status = "AwaitingUserInput"
         cmd == IF awaiting THEN InjectCmd(State.tool) ELSE RunCmd
     IN
     \/ /\ Status \notin {"AwaitingUserInput", "Suspended"} \/ State.session = 0
        /\ UNCHANGED <<wf, told, agents>>
     \/ /\ Status \in {"AwaitingUserInput", "Suspended"} /\ State.session # 0
        /\ \/ /\ wf.child # 0
              /\ ag' = Delivered(wf.child, cmd)
              /\ UNCHANGED <<wf, told>>
           \/ /\ wf.child = 0 /\ CanSpawn(State.agent)
              /\ ag' = [ag EXCEPT ![State.session] = Fresh(<<cmd>>)]
              /\ wf' = [wf EXCEPT !.child = State.session]
              /\ UNCHANGED told
           \/ /\ wf.child = 0 /\ ~CanSpawn(State.agent)
              /\ Ends("WorkflowFailed")
              /\ told' = IF awaiting THEN "Failed" ELSE told
              /\ UNCHANGED ag
        /\ UNCHANGED <<hist, snap>>
  /\ UNCHANGED <<wlog, others>>

(* Fork: a fresh session over the snapshot of another one.  A journal that *)
(* keeps snapshots must have one; one that keeps none copies nothing.      *)
OnFork ==
  /\ Takes("Fork") /\ Took
  /\ LET from   == Head(wbox).session
         copies == plan.snapshots => snap[from] > 0
     IN
     \/ /\ Status # "Suspended" \/ State.session = 0
        /\ UNCHANGED <<wf, agents>>
     \/ /\ Status = "Suspended" /\ State.session # 0
        /\ \/ /\ copies /\ CanSpawn(State.agent)
              /\ Enters(State.agent, RunCmd,
                        SubSeq(hist[from], 1, snap[from]), <<>>)
           \/ /\ ~copies \/ plan.journalFails \/ ~CanSpawn(State.agent)
              /\ Ends("WorkflowFailed")
              /\ UNCHANGED agents
  /\ UNCHANGED <<wlog, told, others>>

IsCurrent == Head(wbox).session = State.session

(* A report of a session that is not the current one.                      *)
OnStaleReport ==
  /\ Takes("AgentConcluded") \/ Takes("AgentFailed") \/ Takes("AgentAsked")
  /\ ~IsCurrent
  /\ Took
  /\ UNCHANGED <<wlog, wf, told, agents, others>>

OnConcluded ==
  /\ Takes("AgentConcluded") /\ IsCurrent /\ Took
  /\ LET to == find_next_transition(State.agent, Head(wbox).outcome) IN
     \/ /\ to = Nobody
        /\ Ends("WorkflowFinished") /\ told' = "Finished"
        /\ UNCHANGED agents
     \/ /\ to # Nobody /\ CanSpawn(to)
        /\ Enters(to, RunCmd, <<>>,
                  <<[type |-> "AgentTransitioned", agent |-> to,
                     from |-> Head(wbox).session, session |-> NewSession]>>)
        /\ UNCHANGED told
     \/ /\ to # Nobody /\ ~CanSpawn(to)
        /\ Ends("WorkflowFailed") /\ told' = "Failed"
        /\ UNCHANGED agents
  /\ UNCHANGED <<wlog, others>>

OnAgentFailed ==
  /\ Takes("AgentFailed") /\ IsCurrent /\ Took
  /\ IF Head(wbox).outcome = "recoverable"
     THEN /\ Persists(<<[type |-> "WorkflowSuspended"]>>, FALSE, wf.child)
          /\ told' = "Suspended"
     ELSE Ends("WorkflowFailed") /\ told' = "Failed"
  /\ UNCHANGED <<wlog, agents, others>>

(* Mutant: nobody is told of the pause.                                    *)
OnAgentAskedSilently ==
  /\ Takes("AgentAsked") /\ IsCurrent /\ Took
  /\ Persists(<<[type |-> "WorkflowPaused", tool |-> Head(wbox).run]>>,
              FALSE, wf.child)
  /\ UNCHANGED <<wlog, told, agents, others>>

OnAgentAsked ==
  /\ Takes("AgentAsked") /\ IsCurrent /\ Took
  /\ Persists(<<[type |-> "WorkflowPaused", tool |-> Head(wbox).run]>>,
              FALSE, wf.child)
  /\ told' = "AwaitingUserInput"
  /\ UNCHANGED <<wlog, agents, others>>

(* persist_events has returned, with the events stored or refused.         *)
WorkflowPersists(stored) ==
  /\ wf.phase = "persisting"
  /\ wlog' = IF stored THEN wlog \o wf.eff ELSE wlog
  /\ IF wf.stop
     THEN wf' = GoneFlow("stopped") /\ wbox' = <<>>
     ELSE wf' = [wf EXCEPT !.phase = "ready", !.eff = <<>>] /\ UNCHANGED wbox
  /\ UNCHANGED <<told, agents, others>>

WorkflowStep ==
  \/ OnStart \/ OnCancel \/ OnResume \/ OnFork
  \/ OnStaleReport \/ OnConcluded \/ OnAgentFailed \/ OnAgentAsked
  \/ WorkflowPersists(TRUE)

-----------------------------------------------------------------------------
(* The agent actors.                                                       *)

(* start_run: a background task, and the token that can cancel it.         *)
StartRun(s, kind) ==
  /\ nruns' = nruns + 1
  /\ runs' = [r \in DOMAIN runs \cup {nruns + 1} |->
                IF r \in DOMAIN runs THEN runs[r]
                ELSE [session |-> s, kind |-> kind, sent |-> 0, passed |-> 0,
                      cancelled |-> FALSE, outcome |-> "none"]]

Only(S) == [r \in DOMAIN runs \cap S |-> runs[r]]

(* Nobody hears the runs of an actor that has ended.                       *)
Heard(s) == {r \in DOMAIN runs : runs[r].session # s}

Entry(r, n, kind, tool) == [run |-> r, n |-> n, kind |-> kind, tool |-> tool]

(* Mutant: recovery leaves the loop to be resumed by somebody else.        *)
AgentRecoversIdle(s) ==
  /\ ag[s].phase = "starting"
  /\ ag' = [ag EXCEPT ![s].phase = "ready"]
  /\ UNCHANGED <<wlog, wf, wbox, told, hist, snap, others>>

(* Recovery: a session with a history re-enters the loop.                  *)
AgentRecovers(s) ==
  /\ ag[s].phase = "starting"
  /\ IF hist[s] = <<>>
     THEN /\ ag' = [ag EXCEPT ![s].phase = "ready"]
          /\ UNCHANGED <<runs, nruns>>
     ELSE /\ StartRun(s, "continue")
          /\ ag' = [ag EXCEPT ![s].phase = "ready", ![s].running = nruns + 1]
  /\ UNCHANGED <<wlog, wf, wbox, told, hist, snap, bounds>>

AgentRecoveryFails(s) ==
  /\ plan.journalFails
  /\ ag[s].phase = "starting"
  /\ ag' = [ag EXCEPT ![s] = GoneAgent]
  /\ UNCHANGED <<wlog, wf, wbox, told, hist, snap, others>>

AgentTakes(s, c) ==
  ag[s].phase = "ready" /\ ag[s].box # <<>> /\ Head(ag[s].box).cmd = c

(* Mutant: the input is handed to the loop and not persisted.              *)
AgentRunUnpersisted(s) ==
  /\ AgentTakes(s, "Run") \/ AgentTakes(s, "InjectToolResult")
  /\ StartRun(s, IF Head(ag[s].box).cmd = "Run" THEN "user" ELSE "reply")
  /\ ag' = [ag EXCEPT ![s].running = nruns + 1, ![s].box = Tail(@)]
  /\ UNCHANGED <<wlog, wf, wbox, told, hist, snap, bounds>>

(* Run and InjectToolResult begin a run and persist its input.             *)
AgentRun(s) ==
  /\ AgentTakes(s, "Run") \/ AgentTakes(s, "InjectToolResult")
  /\ LET cmd  == Head(ag[s].box)
         kind == IF cmd.cmd = "Run" THEN "user" ELSE "reply"
         tool == IF cmd.cmd = "Run" THEN 0 ELSE cmd.tool
     IN
     /\ StartRun(s, kind)
     /\ ag' = [ag EXCEPT
                 ![s] = [phase |-> "persisting", running |-> nruns + 1,
                         eff |-> <<Entry(nruns + 1, 0, kind, tool)>>,
                         box |-> Tail(@.box)]]
  /\ UNCHANGED <<wlog, wf, wbox, told, hist, snap, bounds>>

AgentProgress(s) ==
  /\ AgentTakes(s, "PersistProgress")
  /\ ag' = [ag EXCEPT ![s].phase = "persisting", ![s].box = Tail(@),
                      ![s].eff = <<Head(ag[s].box).entry>>]
  /\ UNCHANGED <<wlog, wf, wbox, told, hist, snap, others>>

AgentCancel(s) ==
  /\ AgentTakes(s, "Cancel")
  /\ runs' = [r \in DOMAIN runs |->
                IF r = ag[s].running THEN [runs[r] EXCEPT !.cancelled = TRUE]
                ELSE runs[r]]
  /\ ag' = [ag EXCEPT ![s].box = Tail(@)]
  /\ UNCHANGED <<wlog, wf, wbox, told, hist, snap, nruns, bounds>>

(* handle_finished: the outcome decides what the parent hears and whether  *)
(* the actor lives on.                                                     *)
AgentFinished(s) ==
  /\ AgentTakes(s, "RunFinished")
  /\ LET cmd == Head(ag[s].box)
         tell(c) == TellParent([cmd |-> c, session |-> s, run |-> cmd.run,
                                sent |-> cmd.sent, kind |-> cmd.kind,
                                outcome |-> cmd.outcome])
         stops == ag' = [ag EXCEPT ![s] = GoneAgent] /\ runs' = Only(Heard(s))
         stays(phase) == ag' = [ag EXCEPT ![s].phase = phase, ![s].running = 0,
                                          ![s].box = Tail(@)]
     IN
     \/ /\ cmd.outcome \in Output
        /\ tell("AgentConcluded")
        /\ stops /\ UNCHANGED snap
     \/ /\ cmd.outcome \in {"recoverable", "fatal"}
        /\ tell("AgentFailed")
        /\ stops /\ UNCHANGED snap
     \/ /\ cmd.outcome = "ask"
        /\ tell("AgentAsked")
        /\ stays("ready")
        /\ snap' = IF plan.snapshots THEN [snap EXCEPT ![s] = Len(hist[s])] ELSE snap
        /\ UNCHANGED runs
     \/ /\ cmd.outcome = "cancelled"
        /\ stays("persisting")
        /\ snap' = IF plan.snapshots THEN [snap EXCEPT ![s] = Len(hist[s])] ELSE snap
        /\ UNCHANGED <<wbox, runs>>
  /\ UNCHANGED <<wlog, wf, told, hist, nruns, bounds>>

AgentPersists(s, stored) ==
  /\ ag[s].phase = "persisting"
  /\ hist' = IF stored THEN [hist EXCEPT ![s] = @ \o ag[s].eff] ELSE hist
  /\ ag' = [ag EXCEPT ![s].phase = "ready", ![s].eff = <<>>]
  /\ UNCHANGED <<wlog, wf, wbox, told, snap, others>>

AgentStep(s) ==
  \/ AgentRecovers(s)
  \/ AgentRun(s) \/ AgentProgress(s) \/ AgentCancel(s) \/ AgentFinished(s)
  \/ AgentPersists(s, TRUE)

-----------------------------------------------------------------------------
(* The background runs.                                                    *)

(* The loop emits a coarse event; nothing waits for it to be persisted.    *)
Emit(r) ==
  /\ runs[r].outcome = "none" /\ runs[r].sent < MaxSent
  /\ runs' = [runs EXCEPT ![r].sent = @ + 1]
  /\ UNCHANGED <<wlog, wf, wbox, told, agents, nruns, bounds>>

(* The forwarder passes the next event on to the actor.                    *)
Forward(r) ==
  LET s == runs[r].session
      n == runs[r].passed + 1
  IN
  /\ n <= runs[r].sent
  /\ ag' = Delivered(s, [cmd |-> "PersistProgress",
                         entry |-> Entry(r, n, runs[r].kind, 0)])
  /\ runs' = [runs EXCEPT ![r].passed = n]
  /\ UNCHANGED <<wlog, wf, wbox, told, hist, snap, nruns, bounds>>

(* run_with_retries returns.  Only a cancelled token ends it as cancelled, *)
(* and a turn is concluded by a message it has emitted.                    *)
Outcomes(r) ==
  {"recoverable", "fatal"}
  \cup (IF runs[r].cancelled THEN {"cancelled"} ELSE {})
  \cup (IF runs[r].sent > 0 THEN Output \cup {"ask"} ELSE {})

Return(r) ==
  /\ runs[r].outcome = "none"
  /\ \E o \in Outcomes(r) : runs' = [runs EXCEPT ![r].outcome = o]
  /\ UNCHANGED <<wlog, wf, wbox, told, agents, nruns, bounds>>

(* Mutant: the outcome is sent without waiting for the forwarder.          *)
ReportAtOnce(r) ==
  /\ runs[r].outcome # "none"
  /\ ag' = Delivered(runs[r].session,
                     [cmd |-> "RunFinished", run |-> r, kind |-> runs[r].kind,
                      sent |-> runs[r].sent, outcome |-> runs[r].outcome])
  /\ runs' = Only(DOMAIN runs \ {r})
  /\ UNCHANGED <<wlog, wf, wbox, told, hist, snap, nruns, bounds>>

(* The forwarder is done: the outcome is sent, and the task ends.          *)
Report(r) ==
  /\ runs[r].outcome # "none" /\ runs[r].passed = runs[r].sent
  /\ ag' = Delivered(runs[r].session,
                     [cmd |-> "RunFinished", run |-> r, kind |-> runs[r].kind,
                      sent |-> runs[r].sent, outcome |-> runs[r].outcome])
  /\ runs' = Only(DOMAIN runs \ {r})
  /\ UNCHANGED <<wlog, wf, wbox, told, hist, snap, nruns, bounds>>

RunStep(r) == Emit(r) \/ Forward(r) \/ Return(r) \/ Report(r)

-----------------------------------------------------------------------------
(* The daemon and its operator.                                            *)

(* The job launches the workflow: with Start the first time, afterwards to *)
(* recover it, or because the job is resumed.  Recovery of a workflow that *)
(* was running spawns the current agent.                                   *)
Launch(served, resume) ==
  /\ wf.phase = "down"
  /\ resume => crashes > 0 /\ ops < plan.maxOps /\ "Resume" \in plan.operations
  /\ wbox' = IF crashes = 0 THEN <<[cmd |-> "Start"]>>
             ELSE IF resume THEN <<[cmd |-> "Resume"]>> ELSE <<>>
  /\ ops' = IF resume THEN ops + 1 ELSE ops
  /\ LET respawns == Status = "Running" /\ State.session # 0
                     /\ State.agent \in Agent \cap served
     IN
     /\ wf' = [GoneFlow("ready") EXCEPT
                 !.served = served,
                 !.child = IF respawns THEN State.session ELSE 0]
     /\ ag' = IF respawns THEN [ag EXCEPT ![State.session] = Fresh(<<>>)] ELSE ag
  /\ UNCHANGED <<wlog, told, hist, snap, runs, nruns, crashes, plan>>

Operate(c, s) ==
  /\ c \in plan.operations /\ ops < plan.maxOps
  /\ wf.phase \in {"ready", "persisting"}
  /\ ops' = ops + 1
  /\ wbox' = Append(wbox, [cmd |-> c, session |-> s])
  /\ UNCHANGED <<wlog, wf, told, agents, runs, nruns, crashes, plan>>

Crash ==
  /\ wf.phase # "down" /\ crashes < plan.maxCrashes
  /\ crashes' = crashes + 1
  /\ wf' = GoneFlow("down") /\ wbox' = <<>> /\ told' = "none"
  /\ ag' = [s \in DOMAIN ag |-> GoneAgent]
  /\ runs' = <<>>
  /\ UNCHANGED <<wlog, hist, snap, nruns, ops, plan>>

JournalError ==
  /\ plan.journalFails
  /\ \/ WorkflowPersists(FALSE)
     \/ \E s \in DOMAIN ag : AgentPersists(s, FALSE) \/ AgentRecoveryFails(s)

Next ==
  \/ WorkflowStep
  \/ \E s \in DOMAIN ag : AgentStep(s)
  \/ \E r \in DOMAIN runs : RunStep(r)
  \/ \E served \in plan.configs, resume \in BOOLEAN : Launch(served, resume)
  \/ \E c \in {"Cancel", "Resume"} : Operate(c, 0)
  \/ \E s \in DOMAIN ag : Operate("Fork", s)
  \/ Crash
  \/ JournalError

Spec == Init /\ [][Next]_vars

(* Every task is scheduled, and every provider call and tool returns, so   *)
(* a run goes on and ends.  Nobody has to operate or restart anything.     *)
FairSpec ==
  /\ Spec
  /\ WF_vars(WorkflowStep)
  /\ WF_vars(\E s \in DOMAIN ag : AgentStep(s))
  /\ WF_vars(\E r \in DOMAIN runs : RunStep(r))

-----------------------------------------------------------------------------
(* Properties.                                                             *)

TypeOK ==
  /\ Status \in {"Pending", "Running", "Suspended", "AwaitingUserInput",
                 "Finished", "Failed"}
  /\ wf.phase \in {"down", "ready", "persisting", "stopped"}
  /\ wf.child \in 0 .. Len(ag) /\ State.session \in 0 .. Len(ag)
  /\ Len(hist) = Len(ag) /\ Len(snap) = Len(ag)
  /\ \A s \in DOMAIN ag :
       /\ ag[s].phase \in {"down", "starting", "ready", "persisting"}
       /\ snap[s] <= Len(hist[s])
  /\ \A r \in DOMAIN runs :
       /\ r <= nruns /\ ag[runs[r].session].phase # "down"
       /\ runs[r].passed <= runs[r].sent

(* Nothing is journaled twice or out of order, whichever runs, retries and *)
(* restarts feed the one mailbox: an event of a run follows the one before *)
(* it, and the first of them the input the run began with.                 *)
JournalIsOrdered ==
  \A s \in DOMAIN hist : \A i \in DOMAIN hist[s] :
    LET e == hist[s][i] IN
    /\ \A j \in DOMAIN hist[s] :
         hist[s][j].run = e.run /\ hist[s][j].n = e.n => i = j
    /\ e.n > 1 \/ (e.n = 1 /\ e.kind # "continue") =>
         \E j \in 1 .. i - 1 :
           hist[s][j].run = e.run /\ hist[s][j].n = e.n - 1

(* "mailbox order == persistence order" (agent_actor.rs): when the         *)
(* workflow hears of an outcome, the conversation it concludes is durable. *)
ReportedIsJournaled ==
  \A i \in DOMAIN wbox :
    wbox[i].cmd \in {"AgentConcluded", "AgentAsked", "AgentFailed"} =>
      LET c == wbox[i] IN
      \A n \in (IF c.kind = "continue" THEN 1 ELSE 0) .. c.sent :
        \E j \in DOMAIN hist[c.session] :
          hist[c.session][j].run = c.run /\ hist[c.session][j].n = n

(* The hand-offs form one chain: each leaves the session that is current,  *)
(* enters the agent a rule of the leaving one names, and no session is     *)
(* left twice, whatever late, repeated or superseded reports arrive.       *)
HandOffsChain ==
  \A i \in DOMAIN wlog :
    wlog[i].type = "AgentTransitioned" =>
      LET before == Folded(SubSeq(wlog, 1, i - 1)) IN
      /\ wlog[i].from = before.session
      /\ \E t \in DOMAIN Transitions[before.agent] :
           Transitions[before.agent][t].to = wlog[i].agent
      /\ i < Len(wlog) /\ wlog[i + 1].type = "AgentStarted"
      /\ wlog[i + 1].session = wlog[i].session
      /\ \A j \in 1 .. i - 1 :
           wlog[j].type = "AgentTransitioned" => wlog[j].from # wlog[i].from

(* The handle the workflow talks to is the agent of the session its        *)
(* journal calls current.                                                  *)
ChildIsCurrent ==
  wf.phase = "ready" /\ wf.child # 0 => wf.child = State.session

(* The state invariant of the actors: the types, and the current child.    *)
Inv == TypeOK /\ ChildIsCurrent

(* Every status the observer has to know of is told before it is durable.  *)
StatusIsNotified ==
  [][Status' # Status /\ Status' \in {"Suspended", "AwaitingUserInput",
                                      "Finished", "Failed"}
       => told' = Status']_vars

(* A running workflow whose session has a history does not stay as it is:  *)
(* the session is left, or the workflow stops running, or is down.         *)
RunningOn(s) ==
  /\ wf.phase \in {"ready", "persisting"}
  /\ Status = "Running" /\ State.session = s /\ s # 0
  /\ hist[s] # <<>>
MaxSessions == 3 + Max({p.maxOps + p.maxCrashes : p \in Plans})
RunningMovesOn ==
  \A s \in 1 .. MaxSessions : RunningOn(s) ~> ~RunningOn(s)

-----------------------------------------------------------------------------
(* Refuted: what the comments and the design documents say, and the code   *)
(* does otherwise.                                                         *)

(* "Operator can send `Resume` to retry" after a recoverable failure       *)
(* (workflow-design, 3.2): the message reaches a live agent.               *)
ResumeIsDelivered ==
  [][OnResume /\ Status = "Suspended" /\ State.session # 0
       => wf'.phase = "persisting" \/ ag'[wf'.child].phase # "down"]_vars

(* The actor sends "at the point it decides a transition" (cli-nono        *)
(* design): no workflow fails without saying so.                           *)
FailureIsNotified ==
  [][Status' # Status /\ Status' = "Failed" => told' = "Failed"]_vars

(* "so resume is idempotent" (workflow_actor.rs): a question has one       *)
(* answer in the history.                                                  *)
ResumeIsIdempotent ==
  \A s \in DOMAIN hist : \A i, j \in DOMAIN hist[s] :
    hist[s][i].kind = "reply" /\ hist[s][j].kind = "reply"
    /\ hist[s][i].n = 0 /\ hist[s][j].n = 0
    /\ hist[s][i].tool = hist[s][j].tool => i = j

(* "Auto-resume applies to Running only" (daemon design): no run continues *)
(* a session of a workflow that was paused.                                *)
OnlyRunningContinues ==
  [][\A r \in DOMAIN runs' \ DOMAIN runs :
       runs'[r].kind = "continue" => Status = "Running"]_vars

(* "An empty history means nothing ran yet (the workflow will send `Run`)" *)
(* (agent_actor.rs): the current session gets its first input.             *)
Unbegun(s) == s \in DOMAIN ag /\ ag[s].phase = "ready" /\ hist[s] = <<>>
FirstInputArrives ==
  \A s \in 1 .. MaxSessions : Unbegun(s) ~> ~Unbegun(s)

(* "Cancel an in-flight run" (agent_actor.rs): none stays uncancelled.     *)
CancelReachesRuns ==
  [][\A s \in DOMAIN ag : AgentCancel(s) =>
       \A r \in DOMAIN runs : runs[r].session = s /\ runs[r].outcome = "none"
         => runs'[r].cancelled]_vars

(* "a crash loses at most the single in-flight message" (daemon design).   *)
OneMessageAtRisk ==
  \A r \in DOMAIN runs :
    Cardinality({n \in 1 .. runs[r].sent :
                   ~ \E i \in DOMAIN hist[runs[r].session] :
                       LET e == hist[runs[r].session][i]
                       IN  e.run = r /\ e.n = n}) <= 1

(* `WorkflowFailed { recoverable: false }` "-> terminal" (workflow-design) *)
(* and Finished likewise: no later event changes the status.               *)
Terminal == Status \in {"Finished", "Failed"}
TerminalIsFinal == [][Terminal => Status' = Status]_vars
=============================================================================
