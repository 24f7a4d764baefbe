--------------------------- MODULE JobSupervision ---------------------------
(***************************************************************************)
(* The daemon's supervisor, one job actor for every job, and each job's    *)
(* workflow as the job sees it: a mailbox it sends Start, Resume and       *)
(* Cancel to, and a channel of status notifications coming back.  What a   *)
(* workflow does by itself is WorkflowRun's concern; here a driven one     *)
(* finishes, fails, pauses or hands over as it likes.                      *)
(*                                                                         *)
(* The registry, the job statuses and the workflow statuses are three      *)
(* journals, written one by one.  Each write may be refused: the actor     *)
(* keeps its state and goes on as if nothing had happened.  And the daemon *)
(* may die between any two writes.                                         *)
(***************************************************************************)
EXTENDS Integers, Sequences, FiniteSets

CONSTANTS Job,          \* the ids jobs are submitted under
          Operations,   \* what clients ask: "Stop", "Resume", "Remove",
                        \* "Shutdown", "Drain"
          LaunchFails,  \* a launch may fail
          ProviderLoss, \* a resumed workflow may find no provider
          JournalFails, \* a journal may refuse a write
          MaxOps,       \* bound: Stop, Resume and Remove requests, and records
                        \* out of date at once
          MaxBoots      \* bound: starts of the daemon

ASSUME SupervisionAssumption ==
  /\ IsFiniteSet(Job)
  /\ Operations \subseteq {"Stop", "Resume", "Remove", "Shutdown", "Drain"}
  /\ {LaunchFails, ProviderLoss, JournalFails} \subseteq BOOLEAN
  /\ {MaxOps, MaxBoots} \subseteq Nat

VARIABLES
  reg,      \* journal: reg[j], the registry's row of j, or "absent"
  jst,      \* journal: jst[j], the job's own status, or "None"
  wst,      \* journal: wst[j], the status of its workflow
  stale,    \* the records that are out of date: <<"row", j>>, <<"status", j>>
            \* or <<"flow", j>> when the last write of it was refused
  sup,      \* the supervisor actor
  sbox,     \* its mailbox
  children, \* the jobs it holds a handle of
  job,      \* job[j]: the job actor
  jbox,     \* jbox[j]: its mailbox
  flow,     \* flow[j]: the workflow actor, and how many of them are alive
  fbox,     \* fbox[j]: its mailbox
  news,     \* news[j]: notifications under way to the job
  sandbox,  \* the jobs whose october-runtime child is up
  client,   \* the shutdown request: "none", "draining", "shutting", "done"
  used,     \* the ids submitted so far
  ops,      \* requests so far
  boots     \* starts so far

vars == <<reg, jst, wst, stale, sup, sbox, children, job, jbox, flow, fbox,
          news, sandbox, client, used, ops, boots>>

journals  == <<reg, jst, wst, stale>>
superv    == <<sup, sbox, children>>
jobs      == <<job, jbox>>
flows     == <<flow, fbox, news>>
outside   == <<client, used, ops, boots>>

Terminal == {"Finished", "Failed"}
Status   == {"Running", "Suspended", "AwaitingUserInput"} \cup Terminal

NoSup  == [phase |-> "down", row |-> <<>>, awaited |-> {}]
NoJob  == [phase |-> "down", held |-> FALSE, eff |-> "", stop |-> FALSE]
NoFlow == [phase |-> "down", driven |-> FALSE, eff |-> "", stop |-> FALSE,
           alive |-> 0]

Live == {"starting", "ready", "persisting"}
ToJob(j, c)  == IF job[j].phase \in Live THEN Append(jbox[j], c) ELSE jbox[j]
ToFlow(j, c) == IF flow[j].phase \in Live THEN Append(fbox[j], c) ELSE fbox[j]
Report(j, s) == sbox' = Append(sbox, [cmd |-> "JobStatusChanged", job |-> j,
                                      status |-> s])

(* Bound: requests so far, and records out of date at this moment.         *)
Room == ops + Cardinality(stale) < MaxOps

(* The journal refuses a write.  It is logged, and that is all.  (Bound:   *)
(* not in the last life of the daemon.)                                    *)
Refused(record, j) ==
  /\ JournalFails /\ Room /\ boots < MaxBoots
  /\ stale' = stale \cup {<<record, j>>}
  /\ UNCHANGED <<reg, jst, wst>>

Init ==
  /\ reg = [j \in Job |-> "absent"]
  /\ jst = [j \in Job |-> "None"] /\ wst = [j \in Job |-> "Pending"]
  /\ stale = {}
  /\ sup = NoSup /\ sbox = <<>> /\ children = {}
  /\ job = [j \in Job |-> NoJob] /\ jbox = [j \in Job |-> <<>>]
  /\ flow = [j \in Job |-> NoFlow] /\ fbox = [j \in Job |-> <<>>]
  /\ news = [j \in Job |-> <<>>]
  /\ sandbox = {} /\ client = "none" /\ used = {} /\ ops = 0 /\ boots = 0

-----------------------------------------------------------------------------
(* The supervisor.                                                         *)

(* The daemon starts; recovery spawns a job for every non-terminal row.    *)
Boot ==
  /\ sup.phase = "down" /\ boots < MaxBoots
  /\ boots' = boots + 1
  /\ sup' = [NoSup EXCEPT !.phase = "ready"]
  /\ children' = {j \in Job : reg[j] \notin Terminal \cup {"absent"}}
  /\ job' = [j \in Job |-> IF j \in children' THEN [NoJob EXCEPT !.phase = "starting"]
                           ELSE job[j]]
  /\ UNCHANGED <<journals, sbox, jbox, flows, sandbox, client, used, ops>>

SupTakes(c) == sup.phase = "ready" /\ sbox # <<>> /\ Head(sbox).cmd = c

(* The row is persisted after the handler has done everything else.        *)
PersistsRow(j, s) == sup' = [sup EXCEPT !.phase = "persisting", !.row = <<j, s>>]

Submit ==
  /\ SupTakes("Submit")
  /\ sbox' = Tail(sbox)
  /\ LET j == Head(sbox).job IN
     /\ children' = children \cup {j}
     /\ job' = [job EXCEPT ![j] = [NoJob EXCEPT !.phase = "starting"]]
     /\ jbox' = [jbox EXCEPT ![j] = <<"Start">>]
     /\ PersistsRow(j, "Running")
  /\ UNCHANGED <<journals, flows, sandbox, outside>>

(* Stop and Resume are passed on to the child, if there is one.            *)
PassOn ==
  /\ SupTakes("Stop") \/ SupTakes("Resume")
  /\ sbox' = Tail(sbox)
  /\ LET j == Head(sbox).job IN
     jbox' = IF j \in children THEN [jbox EXCEPT ![j] = ToJob(j, Head(sbox).cmd)]
             ELSE jbox
  /\ UNCHANGED <<journals, sup, children, job, flows, sandbox, outside>>

Remove ==
  /\ SupTakes("Remove")
  /\ sbox' = Tail(sbox)
  /\ LET j == Head(sbox).job IN
     \/ /\ reg[j] \notin Terminal
        /\ UNCHANGED <<sup, children>>
     \/ /\ reg[j] \in Terminal
        /\ children' = children \ {j}
        /\ PersistsRow(j, "absent")
  /\ UNCHANGED <<journals, jobs, flows, sandbox, outside>>

StatusChanged ==
  /\ SupTakes("JobStatusChanged")
  /\ sbox' = Tail(sbox)
  /\ PersistsRow(Head(sbox).job, Head(sbox).status)
  /\ UNCHANGED <<journals, children, jobs, flows, sandbox, outside>>

(* A change of a row that is not there is persisted and changes nothing.   *)
SupPersists ==
  /\ sup.phase = "persisting"
  /\ LET j == sup.row[1]
         s == sup.row[2]
     IN  IF s # "Running" /\ reg[j] = "absent" THEN UNCHANGED <<reg, stale>>
         ELSE reg' = [reg EXCEPT ![j] = s] /\ stale' = stale \ {<<"row", j>>}
  /\ sup' = [sup EXCEPT !.phase = "ready", !.row = <<>>]
  /\ UNCHANGED <<jst, wst, sbox, children, jobs, flows, sandbox, outside>>

(* The job the row is about may have been spawned and told to start.       *)
SupRefused ==
  /\ sup.phase = "persisting"
  /\ Refused("row", sup.row[1])
  /\ sup' = [sup EXCEPT !.phase = "ready", !.row = <<>>]
  /\ UNCHANGED <<sbox, children, jobs, flows, sandbox, outside>>

(* Every live child is asked to release its sandbox, and all are waited    *)
(* for, on the supervisor's own mailbox turn.                              *)
Shutdown ==
  /\ SupTakes("Shutdown")
  /\ sbox' = Tail(sbox)
  /\ jbox' = [j \in Job |-> IF j \in children THEN ToJob(j, "Shutdown") ELSE jbox[j]]
  /\ sup' = [sup EXCEPT !.phase = "awaiting",
                        !.awaited = {j \in children : job[j].phase \in Live}]
  /\ children' = {}
  /\ UNCHANGED <<journals, job, flows, sandbox, outside>>

(* An ack has come, or its sender is gone, for each of them.               *)
ShutdownDone ==
  /\ sup.phase = "awaiting"
  /\ \A j \in sup.awaited : job[j].phase \notin Live
  /\ sup' = [sup EXCEPT !.phase = "ready", !.awaited = {}]
  /\ client' = "done"
  /\ UNCHANGED <<journals, sbox, children, jobs, flows, sandbox, used, ops, boots>>

SupStep == Submit \/ PassOn \/ Remove \/ StatusChanged
           \/ SupPersists \/ SupRefused \/ Shutdown \/ ShutdownDone

-----------------------------------------------------------------------------
(* The job actors.                                                         *)

JobTakes(j, c) == job[j].phase = "ready" /\ jbox[j] # <<>> /\ Head(jbox[j]) = c
JobTook(j)     == jbox' = [jbox EXCEPT ![j] = Tail(@)]

JobPersists(j, s, stops) ==
  job' = [job EXCEPT ![j].phase = "persisting", ![j].eff = s, ![j].stop = stops]

(* launch_workflow: a sandbox, and a workflow that recovers - its current  *)
(* agent goes on when it was running - and then gets the kickoff.          *)
Launches(j, kickoff) ==
  /\ sandbox' = sandbox \cup {j}
  /\ flow' = [flow EXCEPT ![j] = [NoFlow EXCEPT !.phase = "ready",
                                                !.driven = wst[j] = "Running",
                                                !.alive = flow[j].alive + 1]]
  /\ fbox' = [fbox EXCEPT ![j] = kickoff]
  /\ news' = [news EXCEPT ![j] = <<>>]

(* The launch failed: reported, persisted, over.                           *)
LaunchFailed(j) ==
  /\ LaunchFails
  /\ Report(j, "Failed")
  /\ JobPersists(j, "Failed", TRUE)
  /\ UNCHANGED <<flows, sandbox>>

(* Recovery relaunches a job that was running, and only that.              *)
JobRecovers(j) ==
  /\ job[j].phase = "starting"
  /\ \/ /\ jst[j] = "Running"
        /\ Launches(j, <<>>)
        /\ job' = [job EXCEPT ![j].phase = "ready", ![j].held = TRUE]
     \/ /\ jst[j] = "Running" => LaunchFails
        /\ job' = [job EXCEPT ![j].phase = "ready"]
        /\ UNCHANGED <<flows, sandbox>>
  /\ UNCHANGED <<journals, superv, jbox, outside>>

JobStart(j) ==
  /\ JobTakes(j, "Start") /\ JobTook(j)
  /\ \/ /\ Launches(j, <<"Start">>)
        /\ job' = [job EXCEPT ![j].phase = "persisting", ![j].eff = "Running",
                              ![j].held = TRUE]
        /\ UNCHANGED sbox
     \/ LaunchFailed(j)
  /\ UNCHANGED <<journals, sup, children, outside>>

JobResume(j) ==
  /\ JobTakes(j, "Resume") /\ JobTook(j)
  /\ \/ /\ job[j].held
        /\ fbox' = [fbox EXCEPT ![j] = ToFlow(j, "Resume")]
        /\ UNCHANGED <<sbox, job, flow, news, sandbox>>
     \/ /\ ~job[j].held
        /\ Launches(j, <<"Resume">>)
        /\ job' = [job EXCEPT ![j].held = TRUE]
        /\ UNCHANGED sbox
     \/ ~job[j].held /\ LaunchFailed(j)
  /\ UNCHANGED <<journals, sup, children, outside>>

JobStop(j) ==
  /\ JobTakes(j, "Stop") /\ JobTook(j)
  /\ fbox' = IF job[j].held THEN [fbox EXCEPT ![j] = ToFlow(j, "Cancel")] ELSE fbox
  /\ UNCHANGED <<journals, superv, job, flow, news, sandbox, outside>>

(* Mutant: the status is persisted, and the actor goes on without an ack.  *)
JobShutdownPersists(j) ==
  /\ JobTakes(j, "Shutdown") /\ JobTook(j)
  /\ sandbox' = sandbox \ {j}
  /\ JobPersists(j, "Suspended", FALSE)
  /\ UNCHANGED <<journals, superv, flows, outside>>

(* Teardown, ack, stop; nothing is persisted.                              *)
JobShutdown(j) ==
  /\ JobTakes(j, "Shutdown")
  /\ sandbox' = sandbox \ {j}
  /\ job' = [job EXCEPT ![j] = [NoJob EXCEPT !.phase = "ended"]]
  /\ jbox' = [jbox EXCEPT ![j] = <<>>]
  /\ UNCHANGED <<journals, superv, flows, outside>>

(* Mutant: a terminal notification does not tear the sandbox down.         *)
OnWorkflowEventKeeps(j) ==
  /\ \E s \in Status : JobTakes(j, s)
  /\ JobTook(j)
  /\ LET s == Head(jbox[j]) IN
     /\ Report(j, s)
     /\ JobPersists(j, s, s \in Terminal)
  /\ UNCHANGED <<journals, sup, children, flows, sandbox, outside>>

(* A notification: reported to the supervisor, then persisted; a terminal  *)
(* one is preceded by the teardown and ends the actor.                     *)
OnWorkflowEvent(j) ==
  /\ \E s \in Status : JobTakes(j, s)
  /\ JobTook(j)
  /\ LET s == Head(jbox[j]) IN
     /\ Report(j, s)
     /\ sandbox' = IF s \in Terminal THEN sandbox \ {j} ELSE sandbox
     /\ job' = [job EXCEPT ![j].phase = "persisting", ![j].eff = s,
                           ![j].stop = s \in Terminal,
                           ![j].held = @ /\ s \notin Terminal]
  /\ UNCHANGED <<journals, sup, children, flows, outside>>

(* An actor that was to stop stops, whatever became of its last write.     *)
JobGoesOn(j) ==
  IF job[j].stop
  THEN /\ job' = [job EXCEPT ![j] = [NoJob EXCEPT !.phase = "ended"]]
       /\ jbox' = [jbox EXCEPT ![j] = <<>>]
  ELSE /\ job' = [job EXCEPT ![j].phase = "ready", ![j].eff = ""]
       /\ UNCHANGED jbox

JobPersisted(j) ==
  /\ job[j].phase = "persisting"
  /\ jst' = [jst EXCEPT ![j] = job[j].eff] /\ stale' = stale \ {<<"status", j>>}
  /\ JobGoesOn(j)
  /\ UNCHANGED <<reg, wst, superv, flows, sandbox, outside>>

(* The supervisor has been told of the status all the same.                *)
JobRefused(j) ==
  /\ job[j].phase = "persisting"
  /\ Refused("status", j)
  /\ JobGoesOn(j)
  /\ UNCHANGED <<superv, flows, sandbox, outside>>

(* The forwarder task carries a notification into the mailbox.             *)
Forward(j) ==
  /\ news[j] # <<>>
  /\ jbox' = [jbox EXCEPT ![j] = ToJob(j, Head(news[j]))]
  /\ news' = [news EXCEPT ![j] = Tail(@)]
  /\ UNCHANGED <<journals, superv, job, flow, fbox, sandbox, outside>>

JobStep(j) ==
  \/ JobRecovers(j) \/ JobStart(j) \/ JobResume(j) \/ JobStop(j)
  \/ JobShutdown(j) \/ OnWorkflowEvent(j) \/ JobPersisted(j) \/ JobRefused(j)
  \/ Forward(j)

-----------------------------------------------------------------------------
(* The workflows, as far as jobs can tell.                                 *)

FlowTakes(j, c) == flow[j].phase = "ready" /\ fbox[j] # <<>> /\ Head(fbox[j]) = c
FlowTook(j)     == fbox' = [fbox EXCEPT ![j] = Tail(@)]
Notify(j, s)    == news' = [news EXCEPT ![j] = Append(@, s)]

FlowPersists(j, s, drives) ==
  flow' = [flow EXCEPT ![j].phase = "persisting", ![j].eff = s,
                       ![j].stop = s \in Terminal, ![j].driven = drives]

FlowStart(j) ==
  /\ FlowTakes(j, "Start") /\ FlowTook(j)
  /\ \/ FlowPersists(j, "Running", TRUE) /\ UNCHANGED news
     \/ FlowPersists(j, "Failed", FALSE) /\ Notify(j, "Failed")
  /\ UNCHANGED <<journals, superv, jobs, sandbox, outside>>

(* Mutant: the suspension is not notified.                                 *)
FlowCancelSilently(j) ==
  /\ FlowTakes(j, "Cancel") /\ FlowTook(j)
  /\ FlowPersists(j, "Suspended", flow[j].driven)
  /\ UNCHANGED <<journals, superv, jobs, news, sandbox, outside>>

(* Cancel suspends at once; the agent's run is left to end by itself.      *)
FlowCancel(j) ==
  /\ FlowTakes(j, "Cancel") /\ FlowTook(j)
  /\ FlowPersists(j, "Suspended", flow[j].driven) /\ Notify(j, "Suspended")
  /\ UNCHANGED <<journals, superv, jobs, sandbox, outside>>

(* Resume drives a paused workflow again and changes no status; without a  *)
(* provider it fails, and a suspended one says so to nobody.               *)
FlowResume(j) ==
  /\ FlowTakes(j, "Resume") /\ FlowTook(j)
  /\ \/ /\ wst[j] \in {"Suspended", "AwaitingUserInput"}
        /\ flow' = [flow EXCEPT ![j].driven = TRUE]
        /\ UNCHANGED news
     \/ /\ ProviderLoss /\ wst[j] \in {"Suspended", "AwaitingUserInput"}
        /\ FlowPersists(j, "Failed", FALSE)
        /\ IF wst[j] = "Suspended" THEN UNCHANGED news ELSE Notify(j, "Failed")
     \/ /\ wst[j] \notin {"Suspended", "AwaitingUserInput"}
        /\ UNCHANGED <<flow, news>>
  /\ UNCHANGED <<journals, superv, jobs, sandbox, outside>>

(* The driven agent reports: it concludes, with or without a next agent,   *)
(* asks or fails; or it was cancelled, and the workflow hears nothing      *)
(* (the suspension may have been refused).                                 *)
FlowMoves(j) ==
  /\ flow[j].phase = "ready" /\ flow[j].driven
  /\ \/ \E s \in Status \ {"Running"} :
          FlowPersists(j, s, FALSE) /\ Notify(j, s)
     \/ FlowPersists(j, "Running", TRUE) /\ UNCHANGED news
     \/ /\ wst[j] = "Suspended" \/ <<"flow", j>> \in stale
        /\ flow' = [flow EXCEPT ![j].driven = FALSE]
        /\ UNCHANGED news
  /\ UNCHANGED <<journals, superv, jobs, fbox, sandbox, outside>>

FlowGoesOn(j, drives) ==
  IF flow[j].stop
  THEN /\ flow' = [flow EXCEPT ![j] = [NoFlow EXCEPT !.phase = "ended",
                                                   !.alive = flow[j].alive - 1]]
       /\ fbox' = [fbox EXCEPT ![j] = <<>>]
  ELSE /\ flow' = [flow EXCEPT ![j].phase = "ready", ![j].eff = "",
                               ![j].driven = drives]
       /\ UNCHANGED fbox

FlowPersisted(j) ==
  /\ flow[j].phase = "persisting"
  /\ wst' = [wst EXCEPT ![j] = flow[j].eff] /\ stale' = stale \ {<<"flow", j>>}
  /\ FlowGoesOn(j, flow[j].driven)
  /\ UNCHANGED <<reg, jst, superv, jobs, news, sandbox, outside>>

(* An agent whose start is not recorded runs, but is not the current one:  *)
(* its reports are ignored.                                                *)
FlowRefused(j) ==
  /\ flow[j].phase = "persisting"
  /\ Refused("flow", j)
  /\ FlowGoesOn(j, flow[j].driven /\ flow[j].eff # "Running")
  /\ UNCHANGED <<superv, jobs, news, sandbox, outside>>

FlowStep(j) == FlowStart(j) \/ FlowCancel(j) \/ FlowResume(j) \/ FlowMoves(j)
               \/ FlowPersisted(j) \/ FlowRefused(j)

-----------------------------------------------------------------------------
(* Clients, and the end of the daemon.                                     *)

Up == sup.phase # "down"

ClientSubmits(j) ==
  /\ Up /\ j \notin used
  /\ used' = used \cup {j}
  /\ sbox' = Append(sbox, [cmd |-> "Submit", job |-> j])
  /\ UNCHANGED <<journals, sup, children, jobs, flows, sandbox, client, ops, boots>>

ClientAsks(c, j) ==
  /\ Up /\ c \in Operations /\ Room /\ j \in used
  /\ ops' = ops + 1
  /\ sbox' = Append(sbox, [cmd |-> c, job |-> j])
  /\ UNCHANGED <<journals, sup, children, jobs, flows, sandbox, client, used, boots>>

ClientDrains ==
  /\ Up /\ "Drain" \in Operations /\ client = "none"
  /\ client' = "draining"
  /\ UNCHANGED <<journals, superv, jobs, flows, sandbox, used, ops, boots>>

(* The supervisor has listed the jobs, and none of them is Running.        *)
Drained ==
  /\ client = "draining"
  /\ sup.phase = "ready" /\ \A j \in Job : reg[j] # "Running"

ClientShutsDown ==
  /\ Up
  /\ Drained \/ (client = "none" /\ "Shutdown" \in Operations)
  /\ client' = "shutting"
  /\ sbox' = Append(sbox, [cmd |-> "Shutdown", job |-> "all"])
  /\ UNCHANGED <<journals, sup, children, jobs, flows, sandbox, used, ops, boots>>

(* The process ends: after the shutdown has been acknowledged, or killed.  *)
(* What it held in memory and the sandboxes it started are gone.  The      *)
(* actors of the next daemon begin with what is recorded.                  *)
Gone ==
  /\ sup' = NoSup /\ sbox' = <<>> /\ children' = {}
  /\ job' = [j \in Job |-> NoJob] /\ jbox' = [j \in Job |-> <<>>]
  /\ flow' = [j \in Job |-> NoFlow] /\ fbox' = [j \in Job |-> <<>>]
  /\ news' = [j \in Job |-> <<>>]
  /\ sandbox' = {} /\ client' = "none" /\ stale' = {}
  /\ UNCHANGED <<reg, jst, wst, used, ops, boots>>

Exit == client = "done" /\ Gone
Kill == Up /\ boots < MaxBoots /\ Gone

Next ==
  \/ Boot
  \/ SupStep
  \/ \E j \in Job : JobStep(j)
  \/ \E j \in Job : FlowStep(j)
  \/ \E j \in Job : ClientSubmits(j)
  \/ \E c \in {"Stop", "Resume", "Remove"}, j \in Job : ClientAsks(c, j)
  \/ ClientDrains \/ ClientShutsDown
  \/ Exit \/ Kill

Spec == Init /\ [][Next]_vars

(* Every actor is scheduled while the daemon is up.  A driven workflow     *)
(* need not ever pause or end, and nobody has to ask or start anything.    *)
FairSpec ==
  /\ Spec
  /\ WF_vars(SupStep)
  /\ \A j \in Job : WF_vars(JobStep(j)) /\ WF_vars(FlowStep(j))

-----------------------------------------------------------------------------
(* Properties.                                                             *)

Request == [cmd : {"Submit", "Stop", "Resume", "Remove", "Subscribe", "List"}, job : Job]
Notice  == [cmd : {"JobStatusChanged"}, job : Job, status : Status]
Mail    == Request \cup Notice \cup [cmd : {"Shutdown"}, job : {"all"}]

Records == {"row", "status", "flow"}
SupervisorOK ==
  /\ reg \in [Job -> Status \cup {"absent"}]
  /\ stale \subseteq Records \X Job
  /\ sup \in [phase : {"down", "ready", "persisting", "awaiting"},
             row : {<<>>} \cup (Job \X (Status \cup {"absent"})), awaited : SUBSET Job]
  /\ sup.phase = "persisting" <=> sup.row # <<>>
  /\ sbox \in Seq(Mail)
  /\ used \subseteq Job /\ children \subseteq used /\ sandbox \subseteq used

JobMail == Status \cup {"Start", "Stop", "Resume", "Subscribe", "Shutdown"}
JobsOK ==
  /\ jst \in [Job -> Status \cup {"None"}]
  /\ job \in [Job -> [phase : Live \cup {"down", "ended"}, held : BOOLEAN,
                     eff : Status \cup {""}, stop : BOOLEAN]]
  /\ jbox \in [Job -> Seq(JobMail)]

FlowsOK ==
  /\ wst \in [Job -> Status \cup {"Pending"}]
  /\ flow \in [Job -> [phase : {"down", "ready", "persisting", "ended"},
                      driven : BOOLEAN, eff : Status \cup {""}, stop : BOOLEAN,
                      alive : Nat]]
  /\ news \in [Job -> Seq(Status)]

TypeOK == SupervisorOK /\ JobsOK /\ FlowsOK

(* A job the registry shows as over, or does not show, has released its    *)
(* sandbox: the teardown comes before the report, over two mailboxes and   *)
(* any restart, and nothing launches such a job again.  The one exception  *)
(* is a job whose row was refused: until the daemon ends it runs unlisted  *)
(* (HoldersAreListed below), and then it is forgotten.                     *)
BeingSubmitted(j) == sup.row = <<j, "Running">>
Unwritten(j) == <<"row", j>> \in stale
UnlistedHoldsNothing ==
  \A j \in Job :
    /\ reg[j] \in Terminal => j \notin sandbox
    /\ reg[j] = "absent" /\ ~BeingSubmitted(j) /\ ~Unwritten(j) => j \notin sandbox

(* "no duplicate spawn", "else we'd double-launch" (job_actor.rs): never   *)
(* two workflow actors over one journal.                                   *)
OneWorkflow == \A j \in Job : flow[j].alive <= 1

(* What these two rest on, job by job.  Who persists has what to persist,  *)
(* and who is gone has no mail.                                            *)
EffectsOK(j) ==
  /\ job[j].phase \notin Live => jbox[j] = <<>>
  /\ job[j].phase = "persisting" => job[j].eff # ""
  /\ flow[j].phase = "persisting" => flow[j].eff # ""

(* A sandbox is that of a job which holds a workflow; a job that starts or *)
(* ends holds none.                                                        *)
HeldWhileUp(j) ==
  /\ j \in sandbox => job[j].held
  /\ job[j].held => \/ job[j].phase = "ready"
                    \/ job[j].phase = "persisting" /\ ~job[j].stop
  /\ job[j].phase \in {"starting", "ready"} => ~job[j].stop

(* An actor of a workflow is that of a job which holds it or is over.      *)
Over(j) == \/ job[j].phase \in {"down", "ended"}
           \/ job[j].phase = "persisting" /\ job[j].stop
IsUp(j) == flow[j].phase \in {"ready", "persisting"}
FlowIsHeld(j) ==
  /\ flow[j].alive = IF IsUp(j) THEN 1 ELSE 0
  /\ IsUp(j) => job[j].held \/ (Over(j) /\ job[j].phase # "down")

(* A job whose end is recorded, reported or under way to the registry, or  *)
(* which is in no row and about to be in none, is over.                    *)
Reported(j, i) == sbox[i].cmd = "JobStatusChanged" /\ sbox[i].job = j
EndedIsOver(j) ==
  /\ reg[j] \in Terminal => Over(j)
  /\ reg[j] = "absent" => Over(j) \/ BeingSubmitted(j) \/ Unwritten(j)
  /\ \A s \in Terminal \cup {"absent"} : sup.row = <<j, s>> => Over(j)
  /\ \A i \in 1 .. Len(sbox) :
       Reported(j, i) /\ sbox[i].status \in Terminal => Over(j)

(* A job is started once: nothing is known of it while its Submit is under *)
(* way, and there is one; its Start is the first it finds in its mailbox.  *)
Unknown(j) ==
  /\ reg[j] = "absent" /\ jst[j] = "None" /\ j \notin children
  /\ job[j].phase = "down" /\ flow[j].phase = "down" /\ news[j] = <<>>
  /\ \A s \in Status \cup {"absent"} : sup.row # <<j, s>>
  /\ \A i \in 1 .. Len(sbox) : ~Reported(j, i)
Submits(j, i) == sbox[i].cmd = "Submit" /\ sbox[i].job = j
SubmittedOnce(j) ==
  /\ j \notin used => Unknown(j) /\ \A i \in 1 .. Len(sbox) : ~Submits(j, i)
  /\ \A i \in 1 .. Len(sbox) : Submits(j, i) =>
       Unknown(j) /\ \A k \in 1 .. Len(sbox) : Submits(j, k) => k = i
StartsFirst(j) ==
  \A i \in 1 .. Len(jbox[j]) : jbox[j][i] = "Start" =>
    /\ i = 1 /\ job[j].phase \in {"starting", "ready"} /\ ~job[j].held
    /\ jst[j] = "None"

JobInv(j) == /\ EffectsOK(j) /\ HeldWhileUp(j) /\ FlowIsHeld(j)
             /\ EndedIsOver(j) /\ SubmittedOnce(j) /\ StartsFirst(j)

(* A daemon that is down has nothing in memory.                            *)
DownIsEmpty ==
  sup.phase = "down" =>
    /\ stale = {} /\ sbox = <<>> /\ sandbox = {} /\ children = {}
    /\ \A j \in Job :
         job[j].phase = "down" /\ flow[j].phase = "down" /\ news[j] = <<>>

(* The state invariant: the types, no sandbox beside the registry, no job  *)
(* launched twice, and what makes it inductive.                            *)
Inv ==
  /\ TypeOK /\ UnlistedHoldsNothing /\ OneWorkflow /\ DownIsEmpty
  /\ \A j \in Job : JobInv(j)

(* Without a restart, once all messages about a job have been handled, the *)
(* registry shows what the job recorded, and a job whose workflow rests    *)
(* recorded the status it rests in - unless the last write of one of the   *)
(* two was refused.  A refused write is not repaired, but the next one     *)
(* that is accepted brings the two together again.                         *)
UpToDate(record, j) == <<record, j>> \notin stale
Quiet(j) ==
  /\ sup.phase = "ready" /\ \A i \in DOMAIN sbox : sbox[i].job # j
  /\ job[j].phase \in {"ready", "ended"} /\ jbox[j] = <<>> /\ news[j] = <<>>
Rests(j) ==
  /\ flow[j].phase \in {"ready", "ended"} /\ fbox[j] = <<>>
  /\ ~flow[j].driven
StatusesAgree ==
  boots = 1 =>
    \A j \in Job : Quiet(j) =>
      /\ reg[j] # "absent" /\ UpToDate("row", j) /\ UpToDate("status", j)
           => reg[j] = jst[j]
      /\ job[j].phase = "ready" /\ Rests(j)
           /\ UpToDate("status", j) /\ UpToDate("flow", j)
           => jst[j] = wst[j]

(* When the shutdown is acknowledged no sandbox is up: neither of a job    *)
(* that was being launched, resumed or stopped when it was asked, nor of   *)
(* one that ended by itself meanwhile.  (A job submitted after that is     *)
(* launched all the same: NoOrphans below.)                                *)
ReleasedWhenAcked ==
  [][sup.phase = "awaiting" /\ sup'.phase = "ready" => sandbox = {}]_vars

(* The supervisor waits for every ack on its own turn, while the jobs      *)
(* report to it: the shutdown is acknowledged all the same, no sandbox up. *)
ShutdownCompletes ==
  ReleasedWhenAcked /\ (client = "shutting" ~> client # "shutting")

-----------------------------------------------------------------------------
(* Refuted: what the comments and the design documents say, and the code   *)
(* does otherwise.                                                         *)

(* "re-spawn a JobActor for every non-terminal job so it can auto-resume   *)
(* (Running)" (supervisor_actor.rs): a job listed as Running runs.         *)
RunningJobsRun ==
  \A j \in Job :
    (Up /\ reg[j] = "Running")
      ~> (~Up \/ reg[j] # "Running" \/ flow[j].driven)

(* "Suspended / awaiting-input jobs don't hold active compute" (daemon):   *)
(* when the drain is over, no agent is at work.                            *)
DrainIsQuiet ==
  [][ClientShutsDown /\ client = "draining"
       => \A j \in Job : ~flow[j].driven]_vars

(* "no october-runtime process is orphaned when the daemon exits"          *)
(* (supervisor_actor.rs, daemon/mod.rs).                                   *)
NoOrphans == [][Exit => sandbox = {}]_vars

(* "re-spawn a JobActor for every non-terminal job" (supervisor_actor.rs)  *)
(* finds the jobs in the registry: one that has a sandbox is in it.        *)
HoldersAreListed ==
  \A j \in Job : j \in sandbox => reg[j] # "absent" \/ BeingSubmitted(j)
=============================================================================
