----------------------------- MODULE AttachedRun -----------------------------
(***************************************************************************)
(* `october run`: a client that submits a job to the daemon, follows its   *)
(* log until the stream ends, asks for the list of jobs and makes its exit *)
(* code of the job's status.  The supervisor, the jobs and the workflows   *)
(* are those of JobSupervision; the frames of the log are left out, what   *)
(* counts is when their stream is opened and when it ends.                 *)
(***************************************************************************)
EXTENDS JobSupervision

CONSTANT AttachedOps \* bound: requests of others beside an attached client,
                     \* or made after a restart

VARIABLE run \* the attached client: where it is, its job, the status it read

allvars == <<vars, run>>

Where == {"off", "idle", "submitting", "replaying", "asking", "following",
          "ended", "listing", "done", "error"}

At(places)    == run.at \in places
Goes(place)   == run' = [run EXCEPT !.at = place]
Mine          == run.job
Queued(c)     == \E i \in DOMAIN sbox : sbox[i].cmd = c /\ sbox[i].job = Mine
Tell(c)       == sbox' = Append(sbox, [cmd |-> c, job |-> Mine])

AttachedInit ==
  /\ Init
  /\ \E j \in Job, at \in {"off", "idle"} :
       run = [at |-> at, job |-> j, status |-> "none"]

-----------------------------------------------------------------------------
(* The client, and the daemon's tasks that serve its connections.          *)

RunSubmits == At({"idle"}) /\ ClientSubmits(Mine) /\ Goes("submitting")

(* The id is replied by the handler, before the row is persisted.          *)
RunSubmitted ==
  /\ At({"submitting"}) /\ ~Queued("Submit")
  /\ Goes("replaying") /\ UNCHANGED vars

(* The history has been sent; then the job's live log is asked for.        *)
AskSubscription ==
  /\ At({"replaying"}) /\ Up
  /\ Tell("Subscribe") /\ Goes("asking")
  /\ UNCHANGED <<journals, sup, children, jobs, flows, sandbox, outside>>

(* The supervisor passes the question on, or has nobody to ask.            *)
SupSubscribe ==
  /\ SupTakes("Subscribe")
  /\ sbox' = Tail(sbox)
  /\ LET j == Head(sbox).job IN
     jbox' = IF j \in children THEN [jbox EXCEPT ![j] = ToJob(j, "Subscribe")]
             ELSE jbox
  /\ UNCHANGED <<journals, sup, children, job, flows, sandbox, outside, run>>

JobSubscribe(j) ==
  /\ JobTakes(j, "Subscribe") /\ JobTook(j)
  /\ run' = IF At({"asking"}) /\ j = Mine THEN [run EXCEPT !.at = "following"] ELSE run
  /\ UNCHANGED <<journals, superv, job, flows, sandbox, outside>>

(* There was no job to ask, or it ended with the question in its mailbox.  *)
NoSubscription ==
  /\ At({"asking"}) /\ ~Queued("Subscribe")
  /\ \A i \in DOMAIN jbox[Mine] : jbox[Mine][i] # "Subscribe"
  /\ Goes("ended") /\ UNCHANGED vars

(* Mutant: the job actor keeps no sender of its own log.                   *)
StreamEndsWithFlow ==
  /\ At({"following"}) /\ flow[Mine].alive = 0
  /\ Goes("ended") /\ UNCHANGED vars

(* Mutant: a sender outlives the actors.                                   *)
StreamStays ==
  /\ At({"following"}) /\ sup.phase = "down"
  /\ Goes("ended") /\ UNCHANGED vars

(* The channel closes when its senders are gone: the job actor's and the   *)
(* one in the sink of the workflow and its agents.                         *)
StreamEnds ==
  /\ At({"following"})
  /\ job[Mine].phase \notin Live /\ flow[Mine].alive = 0
  /\ Goes("ended") /\ UNCHANGED vars

AskList ==
  /\ At({"ended"}) /\ Up
  /\ Tell("List") /\ Goes("listing")
  /\ UNCHANGED <<journals, sup, children, jobs, flows, sandbox, outside>>

SupList ==
  /\ SupTakes("List")
  /\ sbox' = Tail(sbox)
  /\ run' = [run EXCEPT !.at = "done", !.status = reg[Mine]]
  /\ UNCHANGED <<journals, sup, children, jobs, flows, sandbox, outside>>

NoDaemon == At({"ended"}) /\ ~Up /\ Goes("error") /\ UNCHANGED vars

(* The exit code.                                                          *)
Code == IF run.status = "Failed" THEN 1 ELSE 0

(* When the daemon is gone, a log stream just ends; a request that waits   *)
(* for its response fails.                                                 *)
Cut ==
  run' = [run EXCEPT !.at = IF At({"replaying", "asking", "following"}) THEN "ended"
                            ELSE IF At({"submitting", "listing"}) THEN "error"
                            ELSE @]

RunStep == RunSubmitted \/ AskSubscription \/ NoSubscription \/ StreamEnds
           \/ AskList \/ NoDaemon

-----------------------------------------------------------------------------
Alone(A) == A /\ UNCHANGED run

SupServes == Alone(SupStep) \/ SupSubscribe \/ SupList
JobServes(j) == Alone(JobStep(j)) \/ JobSubscribe(j)

(* Bound: once the attached client is through, nobody asks anything and    *)
(* the daemon goes on alone; it does not start again under a client.       *)
Watched == ~At({"done", "error"})

AttachedNext ==
  \/ At({"off", "idle"}) /\ Alone(Boot)
  \/ SupServes
  \/ \E j \in Job : JobServes(j)
  \/ \E j \in Job : Alone(FlowStep(j))
  \/ RunSubmits \/ RunStep
  \/ At({"off"}) /\ \E j \in Job : Alone(ClientSubmits(j))
  \/ /\ (At({"off"}) /\ boots = 1) \/ (Watched /\ ops < AttachedOps)
     /\ \E c \in {"Stop", "Resume", "Remove"}, j \in Job : Alone(ClientAsks(c, j))
  \/ At({"off"}) /\ Alone(ClientDrains)
  \/ Watched /\ Alone(ClientShutsDown)
  \/ Exit /\ Cut
  \/ Watched /\ Kill /\ Cut

AttachedSpec == AttachedInit /\ [][AttachedNext]_allvars

(* As in JobSupervision; the client and the tasks that serve it run too.   *)
AttachedFairSpec ==
  /\ AttachedSpec
  /\ WF_allvars(SupServes)
  /\ \A j \in Job : WF_allvars(JobServes(j)) /\ WF_allvars(Alone(FlowStep(j)))
  /\ WF_allvars(RunStep)

-----------------------------------------------------------------------------
(* Properties.                                                             *)

(* The status an attached client reads after the stream has ended is the   *)
(* one the job recorded at its end, so that the exit code is 1 for a       *)
(* failed job and only then: the report is in the supervisor's mailbox     *)
(* before the stream can end, whoever subscribes when.  A job removed in   *)
(* between, a shutdown, and a refused last write of the job's status or of *)
(* its row are left out.                                                   *)
ExitIsTrue ==
  [][/\ run.at # "done" /\ run'.at = "done"
     /\ client = "none" /\ UpToDate("row", Mine) /\ UpToDate("status", Mine)
     => \/ /\ run'.status \in Terminal
           /\ run'.status = jst[Mine]
           /\ (Code' = 1) = (jst[Mine] = "Failed")
        \/ run'.status = "absent"]_allvars

(* Once its job is over the attached client comes to an end: whether it    *)
(* subscribes before, while or after the job ends, no stream stays open.   *)
RunEnds ==
  (At({"submitting", "replaying", "asking", "following", "ended", "listing"})
     /\ reg[Mine] \in Terminal)
    ~> At({"done", "error"})

-----------------------------------------------------------------------------
(* Refuted: "0 = finished/suspended/awaiting, 1 = failed" (client.rs).     *)

(* The client returns when its job waits for the user or is suspended.     *)
PausedReturns ==
  (At({"following"}) /\ Up /\ reg[Mine] \in {"Suspended", "AwaitingUserInput"})
    ~> (At({"done", "error"}) \/ reg[Mine] \notin {"Suspended", "AwaitingUserInput"})

(* A code is given for a job that ended or paused, not for a running one.  *)
CodeIsFinal == At({"done"}) => run.status # "Running"
=============================================================================
