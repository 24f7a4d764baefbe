------------------------ MODULE JobSupervisionProofs ------------------------
(* Theorems about JobSupervision with its attached client, for any jobs,   *)
(* any number of requests and any number of starts of the daemon.  Inv     *)
(* holds: no job has two workflows and none that is over has a sandbox.    *)
(* The registry shows what a job recorded, which is the status its         *)
(* workflow rests in, and the client's exit code is that of its job's end. *)
EXTENDS AttachedRun, SequenceTheorems, TLAPS

(* What is inductive; the rest of Inv follows from it.                     *)
Core == TypeOK /\ DownIsEmpty /\ \A j \in Job : JobInv(j)

-----------------------------------------------------------------------------
(* Mailboxes: what is taken and added.                                     *)

LEMMA Taken ==
  ASSUME NEW S, NEW s \in Seq(S), s # <<>>
  PROVE  /\ Head(s) \in S /\ Head(s) = s[1] /\ Tail(s) \in Seq(S)
         /\ Len(s) \in Nat /\ 1 \in 1 .. Len(s) /\ Len(Tail(s)) = Len(s) - 1
         /\ \A i \in 1 .. Len(Tail(s)) :
              i + 1 \in 1 .. Len(s) /\ i + 1 # 1 /\ Tail(s)[i] = s[i + 1]
PROOF
  <1>1. Len(s) \in Nat \ {0}
    BY EmptySeq
  <1> QED
    BY <1>1, HeadTailProperties

LEMMA Added ==
  ASSUME NEW S, NEW s \in Seq(S), NEW e \in S
  PROVE  /\ Append(s, e) \in Seq(S) /\ Len(s) \in Nat
         /\ Len(s) + 1 \notin 1 .. Len(s)
         /\ \A i \in 1 .. Len(Append(s, e)) :
              \/ i \in 1 .. Len(s) /\ Append(s, e)[i] = s[i]
              \/ i = Len(s) + 1 /\ Append(s, e)[i] = e
  OBVIOUS

(* The supervisor takes a message, or is sent one.                         *)
LEMMA SupTaken ==
  ASSUME SupervisorOK, NEW c, SupTakes(c), sbox' = Tail(sbox)
  PROVE  /\ sbox' \in Seq(Mail) /\ 1 \in 1 .. Len(sbox)
         /\ Head(sbox) \in Mail /\ Head(sbox) = sbox[1] /\ sbox[1].cmd = c
         /\ sup.phase = "ready" /\ sup.row = <<>>
         /\ \A i \in 1 .. Len(sbox') :
              i + 1 \in 1 .. Len(sbox) /\ i + 1 # 1 /\ sbox'[i] = sbox[i + 1]
PROOF
  <1>1. /\ sbox \in Seq(Mail) /\ sbox # <<>> /\ Head(sbox).cmd = c
        /\ sup.phase = "ready" /\ sup.row = <<>>
    BY DEF SupervisorOK, SupTakes
  <1> QED
    BY <1>1, Taken

LEMMA SupTold ==
  ASSUME SupervisorOK, NEW e \in Mail, sbox' = Append(sbox, e)
  PROVE  /\ sbox' \in Seq(Mail)
         /\ \A i \in 1 .. Len(sbox') :
              \/ i \in 1 .. Len(sbox) /\ sbox'[i] = sbox[i]
              \/ i = Len(sbox) + 1 /\ i \notin 1 .. Len(sbox) /\ sbox'[i] = e
PROOF
  <1>1. sbox \in Seq(Mail)
    BY DEF SupervisorOK
  <1> QED
    BY <1>1, Added

-----------------------------------------------------------------------------
(* What a step leaves as it was about a job.                               *)

(* The mail about k is what it was, less the first message perhaps, and    *)
(* more of what is no Submit and reports no end perhaps.                   *)
MailKept(k) ==
  \E n \in {0, 1} : \A i \in 1 .. Len(sbox') :
    \/ i + n \in 1 .. Len(sbox) /\ sbox'[i] = sbox[i + n]
    \/ ~Submits(k, i)' /\ ~Reported(k, i)'

(* The row about to be written is no other one of k's than before.         *)
RowKept(k) ==
  /\ \A s \in Status \cup {"absent"} : sup'.row = <<k, s>> => sup.row = <<k, s>>
  /\ BeingSubmitted(k) => BeingSubmitted(k)'

ActorsKept(k) ==
  /\ job'[k] = job[k] /\ jbox'[k] = jbox[k] /\ jst'[k] = jst[k]
  /\ flow'[k] = flow[k] /\ news'[k] = news[k]
  /\ k \in sandbox' <=> k \in sandbox

RowsKept(k) ==
  /\ reg'[k] = reg[k] /\ RowKept(k) /\ MailKept(k)
  /\ Unwritten(k) => Unwritten(k)'
  /\ k \in children' => k \in children
  /\ k \in used' <=> k \in used

(* No row that was refused is forgotten.                                   *)
MarksKept == /\ stale' \subseteq Records \X Job
             /\ \A k \in Job : Unwritten(k) => Unwritten(k)'

LEMMA MarksStay ==
  ASSUME Core, UNCHANGED stale
  PROVE  MarksKept
  BY DEF MarksKept, Unwritten, Core, TypeOK, SupervisorOK

LEMMA ActorsInv ==
  ASSUME NEW k \in Job, JobInv(k), ActorsKept(k)
  PROVE  EffectsOK(k)' /\ HeldWhileUp(k)' /\ FlowIsHeld(k)' /\ StartsFirst(k)'
PROOF
  <1>1. EffectsOK(k)'
    BY DEF ActorsKept, JobInv, EffectsOK
  <1>2. HeldWhileUp(k)'
    BY DEF ActorsKept, JobInv, HeldWhileUp
  <1>3. FlowIsHeld(k)'
    BY DEF ActorsKept, JobInv, FlowIsHeld, Over, IsUp
  <1>4. StartsFirst(k)'
    BY DEF ActorsKept, JobInv, StartsFirst
  <1> QED
    BY <1>1, <1>2, <1>3, <1>4

LEMMA UnknownKept ==
  ASSUME NEW k \in Job, Unknown(k), RowsKept(k), jst'[k] = jst[k],
         job'[k].phase = job[k].phase, flow'[k].phase = flow[k].phase,
         news'[k] = news[k]
  PROVE  Unknown(k)'
PROOF
  <1>1. \A i \in 1 .. Len(sbox') : ~Reported(k, i)'
    BY DEF RowsKept, MailKept, Unknown, Reported
  <1>2. \A s \in Status \cup {"absent"} : sup'.row # <<k, s>>
    BY DEF RowsKept, RowKept, Unknown
  <1> QED
    BY <1>1, <1>2 DEF RowsKept, Unknown

LEMMA RowsInv ==
  ASSUME TypeOK, NEW k \in Job, JobInv(k), RowsKept(k), Over(k) => Over(k)',
         Unknown(k) => Unknown(k)'
  PROVE  EndedIsOver(k)' /\ SubmittedOnce(k)'
PROOF
  <1>1. EndedIsOver(k) /\ SubmittedOnce(k)
    BY DEF JobInv
  <1>2. PICK n \in {0, 1} : \A i \in 1 .. Len(sbox') :
          \/ i + n \in 1 .. Len(sbox) /\ sbox'[i] = sbox[i + n]
          \/ ~Submits(k, i)' /\ ~Reported(k, i)'
    BY DEF RowsKept, MailKept
  <1>3. \A i \in 1 .. Len(sbox') :
          /\ Reported(k, i)' => /\ i + n \in 1 .. Len(sbox) /\ Reported(k, i + n)
                                /\ sbox'[i].status = sbox[i + n].status
          /\ Submits(k, i)' => i + n \in 1 .. Len(sbox) /\ Submits(k, i + n)
    BY <1>2 DEF Reported, Submits
  <1>4. EndedIsOver(k)'
    <2>1. /\ reg'[k] = reg[k]
          /\ \A s \in Terminal \cup {"absent"} : sup'.row = <<k, s>> => sup.row = <<k, s>>
          /\ BeingSubmitted(k) => BeingSubmitted(k)'
          /\ Unwritten(k) => Unwritten(k)'
      BY DEF RowsKept, RowKept, Terminal, Status
    <2> QED
      BY <1>1, <1>3, <2>1 DEF EndedIsOver
  <1>5. SubmittedOnce(k)'
    <2>1. k \notin used' => Unknown(k)' /\ \A i \in 1 .. Len(sbox') : ~Submits(k, i)'
      BY <1>1, <1>3 DEF RowsKept, SubmittedOnce
    <2>2. ASSUME NEW i \in 1 .. Len(sbox'), Submits(k, i)',
                 NEW h \in 1 .. Len(sbox'), Submits(k, h)'
          PROVE  h = i
      <3>1. i + n = h + n
        BY <1>1, <1>3, <2>2 DEF SubmittedOnce
      <3> QED
        BY <3>1
    <2>3. ASSUME NEW i \in 1 .. Len(sbox'), Submits(k, i)' PROVE Unknown(k)'
      BY <1>1, <1>3, <2>3 DEF SubmittedOnce
    <2> QED
      BY <2>1, <2>2, <2>3 DEF SubmittedOnce
  <1> QED
    BY <1>4, <1>5

(* A step that concerns another job keeps what is known of this one.       *)
LEMMA OthersInv ==
  ASSUME TypeOK, NEW k \in Job, JobInv(k), ActorsKept(k), RowsKept(k)
  PROVE  JobInv(k)'
PROOF
  <1>1. /\ Over(k) => Over(k)'
        /\ Unknown(k) => Unknown(k)'
    BY UnknownKept DEF ActorsKept, Over
  <1> QED
    BY <1>1, ActorsInv, RowsInv DEF JobInv

(* A step that only tells a job something, which is no Start.              *)
LEMMA ToldInv ==
  ASSUME TypeOK, NEW k \in Job, JobInv(k), RowsKept(k),
         NEW c \in JobMail, c # "Start", jbox'[k] \in {jbox[k], ToJob(k, c)},
         job'[k] = job[k], flow'[k] = flow[k], jst'[k] = jst[k],
         Unknown(k) => news'[k] = news[k], k \in sandbox' <=> k \in sandbox
  PROVE  JobInv(k)' /\ jbox'[k] \in Seq(JobMail)
PROOF
  <1>1. jbox[k] \in Seq(JobMail)
    BY DEF TypeOK, JobsOK
  <1>2. /\ Append(jbox[k], c) \in Seq(JobMail)
        /\ \A i \in 1 .. Len(Append(jbox[k], c)) :
             \/ i \in 1 .. Len(jbox[k]) /\ Append(jbox[k], c)[i] = jbox[k][i]
             \/ Append(jbox[k], c)[i] = c
    BY <1>1, Added
  <1>3. /\ jbox'[k] \in Seq(JobMail)
        /\ job[k].phase \notin Live => jbox'[k] = jbox[k]
        /\ \A i \in 1 .. Len(jbox'[k]) : jbox'[k][i] = "Start" =>
             i \in 1 .. Len(jbox[k]) /\ jbox[k][i] = "Start"
    <2>1. CASE jbox'[k] = jbox[k]
      BY <1>1, <2>1
    <2>2. CASE jbox'[k] = Append(jbox[k], c) /\ job[k].phase \in Live
      BY <1>2, <2>2
    <2> QED
      BY <2>1, <2>2 DEF ToJob
  <1>4. EffectsOK(k)' /\ HeldWhileUp(k)' /\ FlowIsHeld(k)'
    BY <1>3 DEF JobInv, EffectsOK, HeldWhileUp, FlowIsHeld, Over, IsUp
  <1>5. StartsFirst(k)'
    BY <1>3 DEF JobInv, StartsFirst
  <1>6. /\ Over(k) => Over(k)'
        /\ Unknown(k) => Unknown(k)'
    BY UnknownKept DEF Over
  <1> QED
    BY <1>3, <1>4, <1>5, <1>6, RowsInv DEF JobInv

-----------------------------------------------------------------------------
(* The initial state, and the supervisor's actions.                        *)

LEMMA InitCore == Init => Core
PROOF
  <1> SUFFICES ASSUME Init PROVE Core
    OBVIOUS
  <1>1. TypeOK
    BY EmptySeq
    DEF Init, TypeOK, SupervisorOK, JobsOK, FlowsOK, NoSup, NoJob, NoFlow, Status, Live
  <1>2. /\ sup.row = <<>> /\ sbox = <<>> /\ Len(sbox) = 0
        /\ sandbox = {} /\ children = {} /\ used = {} /\ stale = {}
    BY EmptySeq DEF Init, NoSup
  <1>3. ASSUME NEW k \in Job
        PROVE  /\ JobInv(k)
               /\ job[k].phase = "down" /\ flow[k].phase = "down" /\ news[k] = <<>>
    <2>1. /\ job[k].phase = "down" /\ ~job[k].held /\ ~job[k].stop
          /\ jbox[k] = <<>> /\ Len(jbox[k]) = 0
          /\ flow[k].phase = "down" /\ flow[k].alive = 0
          /\ news[k] = <<>> /\ jst[k] = "None" /\ reg[k] = "absent"
      BY EmptySeq DEF Init, NoJob, NoFlow
    <2>2. EffectsOK(k) /\ HeldWhileUp(k) /\ FlowIsHeld(k) /\ StartsFirst(k)
      BY <1>2, <2>1 DEF EffectsOK, HeldWhileUp, FlowIsHeld, StartsFirst, Over, IsUp
    <2>3. EndedIsOver(k) /\ SubmittedOnce(k)
      BY <1>2, <2>1 DEF EndedIsOver, SubmittedOnce, Unknown, Submits, Reported, Over
    <2> QED
      BY <2>1, <2>2, <2>3 DEF JobInv
  <1> QED
    BY <1>1, <1>2, <1>3 DEF Core, DownIsEmpty

(* The daemon starts: the rows that are not terminal are of known jobs.    *)
LEMMA BootCore ==
  ASSUME Core, Boot
  PROVE  Core'
PROOF
  <1>1. UNCHANGED <<reg, jst, wst, stale, sbox, jbox, flow, news, sandbox, used>>
    BY DEF Boot, journals, flows
  <1>2. /\ sup.phase = "down" /\ sup'.phase = "ready" /\ sup'.row = <<>>
        /\ children' = {k \in Job : reg[k] \notin Terminal \cup {"absent"}}
        /\ \A k \in Job : IF k \in children' THEN /\ job'[k].phase = "starting"
                                                  /\ ~job'[k].held /\ ~job'[k].stop
                          ELSE job'[k] = job[k]
    BY DEF Boot, NoSup, NoJob
  <1>3. /\ sbox = <<>> /\ Len(sbox) = 0 /\ sandbox = {}
        /\ \A k \in Job : /\ job[k].phase = "down" /\ flow[k].phase = "down"
                          /\ news[k] = <<>> /\ jbox[k] = <<>> /\ Len(jbox[k]) = 0
    BY <1>2, EmptySeq DEF Core, DownIsEmpty, JobInv, EffectsOK, Live
  <1>4. \A k \in Job : k \notin used => reg[k] = "absent"
    BY DEF Core, JobInv, SubmittedOnce, Unknown
  <1>5. SupervisorOK'
    BY <1>1, <1>2, <1>4 DEF Boot, NoSup, Core, TypeOK, SupervisorOK
  <1>6. JobsOK'
    BY <1>1 DEF Boot, NoJob, Live, Core, TypeOK, JobsOK
  <1>7. FlowsOK'
    BY <1>1 DEF Core, TypeOK, FlowsOK
  <1>8. ASSUME NEW k \in Job PROVE JobInv(k)'
    <2>1. JobInv(k)
      BY DEF Core
    <2>2. EffectsOK(k)' /\ HeldWhileUp(k)' /\ StartsFirst(k)'
      BY <1>1, <1>2, <1>3, <2>1
      DEF JobInv, EffectsOK, HeldWhileUp, StartsFirst
    <2>3. FlowIsHeld(k)'
      BY <1>1, <1>3, <2>1 DEF JobInv, FlowIsHeld, IsUp
    <2>4. EndedIsOver(k)'
      BY <1>1, <1>2, <1>3, <2>1 DEF EndedIsOver, Over, Reported
    <2>5. SubmittedOnce(k)'
      BY <1>1, <1>2, <1>3, <2>1 DEF JobInv, SubmittedOnce, Unknown, Submits, Reported
    <2> QED
      BY <2>2, <2>3, <2>4, <2>5 DEF JobInv
  <1> QED
    BY <1>2, <1>5, <1>6, <1>7, <1>8 DEF Core, TypeOK, DownIsEmpty

LEMMA StartSeq == /\ <<"Start">> \in Seq(JobMail) /\ Len(<<"Start">>) = 1
                  /\ <<"Start">>[1] = "Start"
  BY DEF JobMail

(* A job is submitted: nothing was known of it.                            *)
LEMMA SubmitCore ==
  ASSUME Core, Submit
  PROVE  Core'
PROOF
  <1>1. UNCHANGED <<reg, jst, wst, stale, flow, news, sandbox, used>>
    BY DEF Submit, journals, flows, outside
  <1>2. /\ sbox' \in Seq(Mail) /\ 1 \in 1 .. Len(sbox)
        /\ Head(sbox) \in Mail /\ Head(sbox) = sbox[1] /\ sbox[1].cmd = "Submit"
        /\ sup.phase = "ready" /\ sup.row = <<>>
        /\ \A i \in 1 .. Len(sbox') :
             i + 1 \in 1 .. Len(sbox) /\ i + 1 # 1 /\ sbox'[i] = sbox[i + 1]
    BY SupTaken DEF Submit, Core, TypeOK
  <1>3. PICK j \in Job : j = Head(sbox).job
    BY <1>2 DEF Mail, Request, Notice
  <1>4. /\ j \in used /\ Unknown(j) /\ JobInv(j)
        /\ \A i \in 1 .. Len(sbox) : Submits(j, i) => i = 1
    BY <1>2, <1>3 DEF Core, JobInv, SubmittedOnce, Submits
  <1>5. /\ children' = children \cup {j}
        /\ job' = [job EXCEPT ![j] = [NoJob EXCEPT !.phase = "starting"]]
        /\ jbox' = [jbox EXCEPT ![j] = <<"Start">>]
        /\ sup' = [sup EXCEPT !.phase = "persisting", !.row = <<j, "Running">>]
    BY <1>3 DEF Submit, PersistsRow
  <1>6. /\ \A k \in Job \ {j} : job'[k] = job[k] /\ jbox'[k] = jbox[k]
        /\ job'[j].phase = "starting" /\ ~job'[j].held /\ ~job'[j].stop
        /\ jbox'[j] = <<"Start">>
        /\ sup'.phase = "persisting" /\ sup'.row = <<j, "Running">>
    BY <1>5 DEF NoJob, Core, TypeOK, JobsOK, SupervisorOK
  <1>7. SupervisorOK'
    BY <1>1, <1>2, <1>4, <1>5 DEF Status, Core, TypeOK, SupervisorOK
  <1>8. JobsOK'
    BY <1>1, <1>5, StartSeq DEF NoJob, Live, Core, TypeOK, JobsOK
  <1>9. FlowsOK'
    BY <1>1 DEF Core, TypeOK, FlowsOK
  <1>10. ASSUME NEW k \in Job \ {j} PROVE JobInv(k)'
    <2>1. ActorsKept(k)
      BY <1>1, <1>2, <1>5, <1>6 DEF ActorsKept
    <2>2. RowsKept(k)
      BY <1>1, <1>2, <1>5, <1>6 DEF RowsKept, RowKept, MailKept, BeingSubmitted, Unwritten
    <2> QED
      BY <2>1, <2>2, OthersInv DEF Core
  <1>11. JobInv(j)'
    <2>1. EffectsOK(j)' /\ HeldWhileUp(j)' /\ FlowIsHeld(j)'
      BY <1>1, <1>4, <1>6
      DEF Unknown, JobInv, EffectsOK, HeldWhileUp, FlowIsHeld, IsUp, Live
    <2>2. StartsFirst(j)'
      BY <1>1, <1>4, <1>6, StartSeq DEF Unknown, StartsFirst
    <2>3. \A i \in 1 .. Len(sbox') : ~Reported(j, i)' /\ ~Submits(j, i)'
      BY <1>2, <1>4 DEF Unknown, Reported, Submits
    <2>4. EndedIsOver(j)'
      BY <1>1, <1>4, <1>6, <2>3 DEF Unknown, EndedIsOver, BeingSubmitted, Terminal
    <2>5. SubmittedOnce(j)'
      BY <1>1, <1>4, <2>3 DEF SubmittedOnce
    <2> QED
      BY <2>1, <2>2, <2>4, <2>5 DEF JobInv
  <1> QED
    BY <1>6, <1>7, <1>8, <1>9, <1>10, <1>11 DEF Core, TypeOK, DownIsEmpty


(* Nothing but the supervisor and its mail changes, and jobs are told c.   *)
LEMMA TellsCore ==
  ASSUME Core, UNCHANGED <<reg, jst, wst, stale, job, flow, news, sandbox, used>>,
         SupervisorOK', sup'.phase # "down",
         NEW c \in JobMail, c # "Start", jbox' = [k \in Job |-> jbox'[k]],
         \A k \in Job : RowsKept(k) /\ jbox'[k] \in {jbox[k], ToJob(k, c)}
  PROVE  Core'
PROOF
  <1>1. ASSUME NEW k \in Job PROVE JobInv(k)' /\ jbox'[k] \in Seq(JobMail)
    BY ToldInv DEF Core
  <1>2. JobsOK'
    BY <1>1 DEF Core, TypeOK, JobsOK
  <1>3. FlowsOK'
    BY DEF Core, TypeOK, FlowsOK
  <1> QED
    BY <1>1, <1>2, <1>3 DEF Core, TypeOK, DownIsEmpty

(* A request is passed on: it is no Start.                                 *)
LEMMA PassOnCore ==
  ASSUME Core, PassOn
  PROVE  Core'
PROOF
  <1>1. UNCHANGED <<reg, jst, wst, stale, sup, children, job, flow, news, sandbox, used>>
    BY DEF PassOn, journals, flows, outside
  <1>2. PICK c \in {"Stop", "Resume"} : SupTakes(c) /\ sbox' = Tail(sbox)
    BY DEF PassOn
  <1>3. /\ sbox' \in Seq(Mail) /\ Head(sbox).cmd = c /\ sup.phase = "ready"
        /\ \A i \in 1 .. Len(sbox') : i + 1 \in 1 .. Len(sbox) /\ sbox'[i] = sbox[i + 1]
    BY <1>2, SupTaken DEF Core, TypeOK
  <1>4. /\ jbox' = [k \in Job |-> jbox'[k]]
        /\ \A k \in Job : jbox'[k] \in {jbox[k], ToJob(k, c)}
    BY <1>3 DEF PassOn, Core, TypeOK, JobsOK
  <1>5. SupervisorOK'
    BY <1>1, <1>3 DEF Core, TypeOK, SupervisorOK
  <1>6. \A k \in Job : RowsKept(k)
    BY <1>1, <1>3 DEF RowsKept, RowKept, MailKept, BeingSubmitted, Unwritten
  <1> QED
    BY <1>1, <1>2, <1>3, <1>4, <1>5, <1>6, TellsCore DEF JobMail


(* A request is passed on: it is no Start.                                 *)
LEMMA SupSubscribeCore ==
  ASSUME Core, SupSubscribe
  PROVE  Core'
PROOF
  <1>1. UNCHANGED <<reg, jst, wst, stale, sup, children, job, flow, news, sandbox, used>>
    BY DEF SupSubscribe, journals, flows, outside
  <1>2. PICK c \in {"Subscribe"} : SupTakes(c) /\ sbox' = Tail(sbox)
    BY DEF SupSubscribe
  <1>3. /\ sbox' \in Seq(Mail) /\ Head(sbox).cmd = c /\ sup.phase = "ready"
        /\ \A i \in 1 .. Len(sbox') : i + 1 \in 1 .. Len(sbox) /\ sbox'[i] = sbox[i + 1]
    BY <1>2, SupTaken DEF Core, TypeOK
  <1>4. /\ jbox' = [k \in Job |-> jbox'[k]]
        /\ \A k \in Job : jbox'[k] \in {jbox[k], ToJob(k, c)}
    BY <1>3 DEF SupSubscribe, Core, TypeOK, JobsOK
  <1>5. SupervisorOK'
    BY <1>1, <1>3 DEF Core, TypeOK, SupervisorOK
  <1>6. \A k \in Job : RowsKept(k)
    BY <1>1, <1>3 DEF RowsKept, RowKept, MailKept, BeingSubmitted, Unwritten
  <1> QED
    BY <1>1, <1>2, <1>3, <1>4, <1>5, <1>6, TellsCore DEF JobMail


(* A row goes whose job is over.                                           *)
LEMMA RemoveCore ==
  ASSUME Core, Remove
  PROVE  Core'
PROOF
  <1>1. UNCHANGED <<reg, jst, wst, stale, job, jbox, flow, news, sandbox, used>>
    BY DEF Remove, journals, jobs, flows, outside
  <1>2. /\ sbox' \in Seq(Mail) /\ 1 \in 1 .. Len(sbox)
        /\ Head(sbox) \in Mail /\ Head(sbox) = sbox[1] /\ sbox[1].cmd = "Remove"
        /\ sup.phase = "ready" /\ sup.row = <<>>
        /\ \A i \in 1 .. Len(sbox') :
             i + 1 \in 1 .. Len(sbox) /\ i + 1 # 1 /\ sbox'[i] = sbox[i + 1]
    BY SupTaken DEF Remove, Core, TypeOK
  <1>3. PICK j \in Job : j = Head(sbox).job
    BY <1>2 DEF Mail, Request, Notice
  <1>4. \/ UNCHANGED <<sup, children>>
        \/ /\ reg[j] \in Terminal /\ children' = children \ {j}
           /\ sup' = [sup EXCEPT !.phase = "persisting", !.row = <<j, "absent">>]
    BY <1>3 DEF Remove, PersistsRow
  <1>5. \/ UNCHANGED <<sup, children>>
        \/ /\ reg[j] \in Terminal /\ children' = children \ {j}
           /\ sup'.phase = "persisting" /\ sup'.row = <<j, "absent">>
    BY <1>4 DEF Core, TypeOK, SupervisorOK
  <1>6. SupervisorOK'
    <2>1. CASE UNCHANGED <<sup, children>>
      BY <1>1, <1>2, <2>1 DEF Core, TypeOK, SupervisorOK
    <2>2. CASE /\ children' = children \ {j}
               /\ sup' = [sup EXCEPT !.phase = "persisting", !.row = <<j, "absent">>]
      BY <1>1, <1>2, <2>2 DEF Core, TypeOK, SupervisorOK
    <2> QED
      BY <1>4, <2>1, <2>2
  <1>7. JobsOK'
    BY <1>1 DEF Core, TypeOK, JobsOK
  <1>8. FlowsOK'
    BY <1>1 DEF Core, TypeOK, FlowsOK
  <1>9. ASSUME NEW k \in Job \ {j} PROVE JobInv(k)'
    <2>1. ActorsKept(k)
      BY <1>1, <1>2, <1>5 DEF ActorsKept
    <2>2. RowsKept(k)
      <3>1. MailKept(k)
        BY <1>2 DEF MailKept
      <3>2. RowKept(k)
        <4>1. CASE UNCHANGED sup
          BY <4>1 DEF RowKept, BeingSubmitted
        <4>2. CASE sup'.row = <<j, "absent">>
          BY <1>2, <4>2 DEF RowKept, BeingSubmitted
        <4> QED
          BY <1>5, <4>1, <4>2
      <3> QED
        BY <1>1, <1>5, <3>1, <3>2 DEF RowsKept, Unwritten
    <2> QED
      BY <2>1, <2>2, OthersInv DEF Core
  <1>10. JobInv(j)'
    <2>1. ActorsKept(j) /\ MailKept(j) /\ JobInv(j)
      BY <1>1, <1>2 DEF ActorsKept, MailKept, Core
    <2>2. CASE UNCHANGED <<sup, children>>
      <3>1. RowsKept(j)
        BY <1>1, <2>1, <2>2 DEF RowsKept, RowKept, BeingSubmitted, Unwritten
      <3> QED
        BY <2>1, <3>1, OthersInv DEF Core
    <2>3. CASE reg[j] \in Terminal /\ sup'.row = <<j, "absent">>
      <3>1. reg[j] # "absent" /\ Over(j) /\ ~Unknown(j)
        BY <2>1, <2>3 DEF Terminal, JobInv, EndedIsOver, Unknown
      <3>2. PICK n \in {0, 1} : \A i \in 1 .. Len(sbox') :
              \/ i + n \in 1 .. Len(sbox) /\ sbox'[i] = sbox[i + n]
              \/ ~Submits(j, i)' /\ ~Reported(j, i)'
        BY <2>1 DEF MailKept
      <3>3. EndedIsOver(j)'
        BY <1>1, <3>1 DEF EndedIsOver, Over
      <3>4. /\ j \in used /\ \A i \in 1 .. Len(sbox) : ~Submits(j, i)
        BY <2>1, <3>1 DEF JobInv, SubmittedOnce
      <3>5. SubmittedOnce(j)'
        BY <1>1, <3>2, <3>4 DEF SubmittedOnce, Submits
      <3> QED
        BY <2>1, <3>3, <3>5, ActorsInv DEF JobInv
    <2> QED
      BY <1>5, <2>2, <2>3
  <1> QED
    BY <1>2, <1>5, <1>6, <1>7, <1>8, <1>9, <1>10 DEF Core, TypeOK, DownIsEmpty


(* The row a report is about is that of a job which has reported.          *)
LEMMA StatusChangedCore ==
  ASSUME Core, StatusChanged
  PROVE  Core'
PROOF
  <1>1. UNCHANGED <<reg, jst, wst, stale, children, job, jbox, flow, news, sandbox, used>>
    BY DEF StatusChanged, journals, jobs, flows, outside
  <1>2. /\ sbox' \in Seq(Mail) /\ 1 \in 1 .. Len(sbox)
        /\ Head(sbox) \in Mail /\ Head(sbox) = sbox[1] /\ sbox[1].cmd = "JobStatusChanged"
        /\ sup.phase = "ready" /\ sup.row = <<>>
        /\ \A i \in 1 .. Len(sbox') :
             i + 1 \in 1 .. Len(sbox) /\ i + 1 # 1 /\ sbox'[i] = sbox[i + 1]
    BY SupTaken DEF StatusChanged, Core, TypeOK
  <1>3. PICK j \in Job, s \in Status : j = Head(sbox).job /\ s = Head(sbox).status
    BY <1>2 DEF Mail, Request, Notice
  <1>4. sup' = [sup EXCEPT !.phase = "persisting", !.row = <<j, s>>]
    BY <1>3 DEF StatusChanged, PersistsRow
  <1>5. sup'.phase = "persisting" /\ sup'.row = <<j, s>>
    BY <1>4 DEF Core, TypeOK, SupervisorOK
  <1>6. SupervisorOK'
    BY <1>1, <1>2, <1>4 DEF Core, TypeOK, SupervisorOK
  <1>7. JobsOK'
    BY <1>1 DEF Core, TypeOK, JobsOK
  <1>8. FlowsOK'
    BY <1>1 DEF Core, TypeOK, FlowsOK
  <1>9. ASSUME NEW k \in Job \ {j} PROVE JobInv(k)'
    <2>1. ActorsKept(k)
      BY <1>1, <1>2, <1>5 DEF ActorsKept
    <2>2. RowsKept(k)
      BY <1>1, <1>2, <1>5 DEF RowsKept, RowKept, MailKept, BeingSubmitted, Unwritten
    <2> QED
      BY <2>1, <2>2, OthersInv DEF Core
  <1>10. JobInv(j)'
    <2>1. ActorsKept(j) /\ JobInv(j)
      BY <1>1 DEF ActorsKept, Core
    <2>2. Reported(j, 1) /\ ~Unknown(j) /\ (s \in Terminal => Over(j))
      BY <1>2, <1>3, <2>1 DEF Reported, Unknown, JobInv, EndedIsOver
    <2>3. EndedIsOver(j)'
      <3>1. /\ reg'[j] \in Terminal => Over(j)'
            /\ reg'[j] = "absent" => Over(j)' \/ Unwritten(j)'
        BY <1>1, <1>2, <2>1
        DEF JobInv, EndedIsOver, Over, BeingSubmitted, Unwritten
      <3>2. \A t \in Terminal \cup {"absent"} : sup'.row = <<j, t>> => Over(j)'
        BY <1>1, <1>3, <1>5, <2>2 DEF Over, Status, Terminal
      <3>3. \A i \in 1 .. Len(sbox') :
              Reported(j, i)' /\ sbox'[i].status \in Terminal => Over(j)'
        BY <1>1, <1>2, <2>1 DEF JobInv, EndedIsOver, Over, Reported
      <3> QED
        BY <3>1, <3>2, <3>3 DEF EndedIsOver
    <2>4. j \in used /\ \A i \in 1 .. Len(sbox) : ~Submits(j, i)
      BY <2>1, <2>2 DEF JobInv, SubmittedOnce
    <2>5. SubmittedOnce(j)'
      BY <1>1, <1>2, <2>4 DEF SubmittedOnce, Submits
    <2> QED
      BY <2>1, <2>3, <2>5, ActorsInv DEF JobInv
  <1> QED
    BY <1>2, <1>5, <1>6, <1>7, <1>8, <1>9, <1>10 DEF Core, TypeOK, DownIsEmpty


(* A row is written: what it says of an end is true already.  Or it is     *)
(* refused, and remembered to be.                                          *)
RowWritten(j, s) ==
  \/ /\ s # "Running" /\ reg[j] = "absent"
     /\ UNCHANGED <<reg, stale>>
  \/ /\ s = "Running" \/ reg[j] # "absent"
     /\ reg' = [reg EXCEPT ![j] = s] /\ stale' = stale \ {<<"row", j>>}
  \/ UNCHANGED reg /\ stale' = stale \cup {<<"row", j>>}

LEMMA RowIsWritten ==
  ASSUME Core, SupPersists \/ SupRefused
  PROVE  /\ UNCHANGED <<jst, wst, sbox, children, job, jbox, flow, news, sandbox, used>>
         /\ sup' = [sup EXCEPT !.phase = "ready", !.row = <<>>]
         /\ sup'.phase = "ready" /\ sup'.row = <<>>
         /\ \E j \in Job, s \in Status \cup {"absent"} :
              sup.row = <<j, s>> /\ RowWritten(j, s)
PROOF
  <1>1. UNCHANGED <<jst, wst, sbox, children, job, jbox, flow, news, sandbox, used>>
    BY DEF SupPersists, SupRefused, Refused, jobs, flows, outside
  <1>2. PICK j \in Job, s \in Status \cup {"absent"} : sup.row = <<j, s>>
    BY DEF SupPersists, SupRefused, Core, TypeOK, SupervisorOK
  <1>3. sup.row[1] = j /\ sup.row[2] = s
    BY <1>2
  <1>4. SupPersists => RowWritten(j, s)
    BY <1>3 DEF SupPersists, RowWritten
  <1>5. SupRefused => RowWritten(j, s)
    BY <1>3 DEF SupRefused, Refused, RowWritten
  <1>6. sup' = [sup EXCEPT !.phase = "ready", !.row = <<>>]
    BY DEF SupPersists, SupRefused
  <1>7. sup'.phase = "ready" /\ sup'.row = <<>>
    BY <1>6 DEF Core, TypeOK, SupervisorOK
  <1> QED
    BY <1>1, <1>2, <1>4, <1>5, <1>6, <1>7

LEMMA SupPersistsCore ==
  ASSUME Core, SupPersists \/ SupRefused
  PROVE  Core'
PROOF
  <1>1. /\ UNCHANGED <<jst, wst, sbox, children, job, jbox, flow, news, sandbox, used>>
        /\ sup' = [sup EXCEPT !.phase = "ready", !.row = <<>>]
        /\ sup'.phase = "ready" /\ sup'.row = <<>>
    BY RowIsWritten
  <1>2. PICK j \in Job, s \in Status \cup {"absent"} :
          sup.row = <<j, s>> /\ RowWritten(j, s)
    BY RowIsWritten
  <1>3. /\ stale \subseteq Records \X Job /\ "row" \in Records
        /\ reg \in [Job -> Status \cup {"absent"}]
    BY DEF Records, Core, TypeOK, SupervisorOK
  <1>4. /\ \A k \in Job \ {j} : reg'[k] = reg[k] /\ (Unwritten(k)' <=> Unwritten(k))
        /\ \/ reg'[j] = reg[j] /\ s # "Running" /\ reg[j] = "absent"
              /\ (Unwritten(j)' <=> Unwritten(j))
           \/ reg'[j] = s
           \/ reg'[j] = reg[j] /\ Unwritten(j)'
        /\ stale' \subseteq Records \X Job /\ reg' \in [Job -> Status \cup {"absent"}]
    BY <1>2, <1>3 DEF RowWritten, Unwritten
  <1>5. SupervisorOK'
    BY <1>1, <1>4 DEF Core, TypeOK, SupervisorOK
  <1>6. JobsOK'
    BY <1>1 DEF Core, TypeOK, JobsOK
  <1>7. FlowsOK'
    BY <1>1 DEF Core, TypeOK, FlowsOK
  <1>8. ASSUME NEW k \in Job \ {j} PROVE JobInv(k)'
    <2>1. ActorsKept(k)
      BY <1>1, <1>2, <1>4 DEF ActorsKept
    <2>2. RowsKept(k)
      BY <1>1, <1>2, <1>4 DEF RowsKept, RowKept, MailKept, BeingSubmitted
    <2> QED
      BY <2>1, <2>2, OthersInv DEF Core
  <1>9. JobInv(j)'
    <2>1. ActorsKept(j) /\ JobInv(j)
      BY <1>1 DEF ActorsKept, Core
    <2>2. ~Unknown(j) /\ (s \in Terminal \cup {"absent"} => Over(j))
      BY <1>2, <2>1 DEF Unknown, JobInv, EndedIsOver
    <2>3. reg[j] = "absent" /\ s # "Running" => Over(j) \/ Unwritten(j)
      BY <1>2, <2>1 DEF JobInv, EndedIsOver, BeingSubmitted
    <2>4. /\ reg'[j] \in Terminal => Over(j)
          /\ reg'[j] = "absent" => Over(j) \/ Unwritten(j)'
      BY <1>4, <2>1, <2>2, <2>3 DEF JobInv, EndedIsOver, Terminal
    <2>5. EndedIsOver(j)'
      BY <1>1, <2>1, <2>4 DEF JobInv, EndedIsOver, Over, Reported
    <2>6. SubmittedOnce(j)'
      BY <1>1, <2>1, <2>2 DEF JobInv, SubmittedOnce, Submits
    <2> QED
      BY <2>1, <2>5, <2>6, ActorsInv DEF JobInv
  <1> QED
    BY <1>1, <1>5, <1>6, <1>7, <1>8, <1>9 DEF Core, TypeOK, DownIsEmpty


(* Everybody is told to shut down.                                         *)
LEMMA ShutdownCore ==
  ASSUME Core, Shutdown
  PROVE  Core'
PROOF
  <1>1. UNCHANGED <<reg, jst, wst, stale, job, flow, news, sandbox, used>>
    BY DEF Shutdown, journals, flows, outside
  <1>2. /\ sbox' \in Seq(Mail) /\ 1 \in 1 .. Len(sbox)
        /\ Head(sbox) \in Mail /\ Head(sbox) = sbox[1] /\ sbox[1].cmd = "Shutdown"
        /\ sup.phase = "ready" /\ sup.row = <<>>
        /\ \A i \in 1 .. Len(sbox') :
             i + 1 \in 1 .. Len(sbox) /\ i + 1 # 1 /\ sbox'[i] = sbox[i + 1]
    BY SupTaken DEF Shutdown, Core, TypeOK
  <1>3. /\ jbox' = [k \in Job |-> jbox'[k]]
        /\ \A k \in Job : jbox'[k] \in {jbox[k], ToJob(k, "Shutdown")}
    BY DEF Shutdown
  <1>4. /\ sup' = [sup EXCEPT !.phase = "awaiting",
                              !.awaited = {k \in children : job[k].phase \in Live}]
        /\ children' = {}
    BY DEF Shutdown
  <1>5. sup'.phase = "awaiting" /\ sup'.row = <<>>
    BY <1>2, <1>4 DEF Core, TypeOK, SupervisorOK
  <1>6. SupervisorOK'
    BY <1>1, <1>2, <1>4 DEF Core, TypeOK, SupervisorOK
  <1>7. \A k \in Job : RowsKept(k)
    BY <1>1, <1>2, <1>4, <1>5 DEF RowsKept, RowKept, MailKept, BeingSubmitted, Unwritten
  <1> QED
    BY <1>1, <1>3, <1>5, <1>6, <1>7, TellsCore DEF JobMail


(* All have acknowledged.                                                  *)
LEMMA ShutdownDoneCore ==
  ASSUME Core, ShutdownDone
  PROVE  Core'
PROOF
  <1>1. UNCHANGED <<reg, jst, wst, stale, sbox, children, job, jbox, flow, news, sandbox, used>>
    BY DEF ShutdownDone, journals, jobs, flows
  <1>2. sup' = [sup EXCEPT !.phase = "ready", !.awaited = {}] /\ sup.phase = "awaiting"
    BY DEF ShutdownDone
  <1>3. sup'.phase = "ready" /\ sup'.row = sup.row /\ sup.row = <<>>
    BY <1>2 DEF Core, TypeOK, SupervisorOK
  <1>4. SupervisorOK'
    BY <1>1, <1>2, <1>3 DEF Core, TypeOK, SupervisorOK
  <1>5. \A k \in Job : RowsKept(k)
    BY <1>1, <1>3 DEF RowsKept, RowKept, MailKept, BeingSubmitted, Unwritten, Core, TypeOK,
              SupervisorOK
  <1>6. jbox' = [k \in Job |-> jbox'[k]]
    BY <1>1 DEF Core, TypeOK, JobsOK
  <1> QED
    BY <1>1, <1>3, <1>4, <1>5, <1>6, TellsCore DEF JobMail


-----------------------------------------------------------------------------
(* The actions of the jobs and of the workflows.                           *)

(* An actor of job j steps: the supervisor is told of a status perhaps,    *)
(* of an end only when the job is over, which it stays.                    *)
LEMMA ActorStepCore ==
  ASSUME Core, NEW j \in Job, UNCHANGED <<reg, sup, children, used>>, MarksKept,
         \A k \in Job \ {j} : ActorsKept(k),
         \/ sbox' = sbox
         \/ \E s \in Status : Report(j, s) /\ (s \in Terminal => Over(j)'),
         job[j].phase # "down" \/ flow[j].phase # "down",
         Over(j) => Over(j)', sandbox' \subseteq sandbox \cup {j},
         JobsOK', FlowsOK',
         EffectsOK(j)', HeldWhileUp(j)', FlowIsHeld(j)', StartsFirst(j)'
  PROVE  Core'
PROOF
  <1>1. JobInv(j) /\ ~Unknown(j) /\ j \in used /\ sup.phase # "down"
    BY DEF Core, DownIsEmpty, JobInv, SubmittedOnce, Unknown
  <1>2. /\ sbox' \in Seq(Mail)
        /\ \A i \in 1 .. Len(sbox') :
             \/ i \in 1 .. Len(sbox) /\ sbox'[i] = sbox[i]
             \/ /\ sbox'[i].job = j /\ sbox'[i].cmd = "JobStatusChanged"
                /\ sbox'[i].status \in Terminal => Over(j)'
    <2>1. CASE sbox' = sbox
      BY <2>1 DEF Core, TypeOK, SupervisorOK
    <2>2. CASE \E s \in Status : Report(j, s) /\ (s \in Terminal => Over(j)')
      <3>1. PICK s \in Status : Report(j, s) /\ (s \in Terminal => Over(j)')
        BY <2>2
      <3>2. PICK e \in Mail :
              e = [cmd |-> "JobStatusChanged", job |-> j, status |-> s]
        BY DEF Mail, Notice
      <3>3. sbox' = Append(sbox, e)
        BY <3>1, <3>2 DEF Report
      <3>4. /\ sbox' \in Seq(Mail)
            /\ \A i \in 1 .. Len(sbox') :
                 \/ i \in 1 .. Len(sbox) /\ sbox'[i] = sbox[i]
                 \/ sbox'[i] = e
        BY <3>3, SupTold DEF Core, TypeOK
      <3>5. /\ e.cmd = "JobStatusChanged" /\ e.job = j
            /\ e.status \in Terminal => Over(j)'
        BY <3>1, <3>2
      <3> QED
        BY <3>4, <3>5
    <2> QED
      BY <2>1, <2>2
  <1>3. ASSUME NEW k \in Job \ {j} PROVE JobInv(k)'
    <2>1. MailKept(k)
      <3>1. \A i \in 1 .. Len(sbox') :
              \/ i + 0 \in 1 .. Len(sbox) /\ sbox'[i] = sbox[i + 0]
              \/ ~Submits(k, i)' /\ ~Reported(k, i)'
        BY <1>2 DEF Submits, Reported
      <3> QED
        BY <3>1 DEF MailKept
    <2>2. RowsKept(k)
      BY <2>1 DEF RowsKept, RowKept, BeingSubmitted, MarksKept
    <2> QED
      BY <2>2, OthersInv DEF Core
  <1>4. EndedIsOver(j)'
    <2>1. /\ EndedIsOver(j) /\ BeingSubmitted(j)' = BeingSubmitted(j)
          /\ Unwritten(j) => Unwritten(j)'
      BY <1>1 DEF JobInv, BeingSubmitted, MarksKept
    <2>2. ASSUME NEW i \in 1 .. Len(sbox'), Reported(j, i)',
                 sbox'[i].status \in Terminal
          PROVE  Over(j)'
      BY <1>2, <2>1, <2>2 DEF EndedIsOver, Reported
    <2> QED
      BY <2>1, <2>2 DEF EndedIsOver
  <1>5. SubmittedOnce(j)'
    <2>1. \A i \in 1 .. Len(sbox) : ~Submits(j, i)
      BY <1>1 DEF JobInv, SubmittedOnce
    <2>2. \A i \in 1 .. Len(sbox') : ~Submits(j, i)'
      BY <1>2, <2>1 DEF Submits
    <2> QED
      BY <1>1, <2>2 DEF SubmittedOnce
  <1>6. JobInv(j)'
    BY <1>4, <1>5 DEF JobInv
  <1>7. SupervisorOK'
    BY <1>1, <1>2 DEF MarksKept, Core, TypeOK, SupervisorOK
  <1> QED
    BY <1>1, <1>3, <1>6, <1>7 DEF Core, TypeOK, DownIsEmpty

(* A job takes a message: no Start is left behind it.                      *)
LEMMA JobTaken ==
  ASSUME Core, NEW j \in Job, NEW c, JobTakes(j, c), JobTook(j)
  PROVE  /\ jbox' \in [Job -> Seq(JobMail)] /\ c \in JobMail
         /\ c = "Start" => ~job[j].held /\ jst[j] = "None"
         /\ \A k \in Job \ {j} : jbox'[k] = jbox[k]
         /\ \A i \in 1 .. Len(jbox'[j]) : jbox'[j][i] # "Start"
         /\ job[j].phase = "ready" /\ ~job[j].stop /\ ~Over(j)
         /\ j \in used /\ jbox[j] # <<>>
PROOF
  <1>1. /\ jbox \in [Job -> Seq(JobMail)] /\ jbox[j] \in Seq(JobMail)
        /\ jbox[j] # <<>> /\ Head(jbox[j]) = c /\ job[j].phase = "ready"
    BY DEF Core, TypeOK, JobsOK, JobTakes
  <1>2. JobInv(j)
    BY DEF Core
  <1>3. /\ Head(jbox[j]) \in JobMail /\ Head(jbox[j]) = jbox[j][1]
        /\ Tail(jbox[j]) \in Seq(JobMail) /\ 1 \in 1 .. Len(jbox[j])
        /\ \A i \in 1 .. Len(Tail(jbox[j])) :
             /\ i + 1 \in 1 .. Len(jbox[j]) /\ i + 1 # 1
             /\ Tail(jbox[j])[i] = jbox[j][i + 1]
    BY <1>1, Taken
  <1>4. jbox' = [jbox EXCEPT ![j] = Tail(jbox[j])]
    BY DEF JobTook
  <1>5. \A i \in 1 .. Len(Tail(jbox[j])) : Tail(jbox[j])[i] # "Start"
    BY <1>2, <1>3 DEF JobInv, StartsFirst
  <1>6. ~job[j].stop /\ ~Over(j) /\ j \in used
    BY <1>1, <1>2 DEF JobInv, HeldWhileUp, Over, SubmittedOnce, Unknown
  <1>7. c = "Start" => ~job[j].held /\ jst[j] = "None"
    BY <1>1, <1>2, <1>3 DEF JobInv, StartsFirst
  <1> QED
    BY <1>1, <1>3, <1>4, <1>5, <1>6, <1>7

(* A job that holds no workflow launches one: there is no other.           *)
LEMMA Launched ==
  ASSUME Core, NEW j \in Job, job[j].phase \in {"starting", "ready"},
         ~job[j].held, NEW kickoff, Launches(j, kickoff), wst' = wst
  PROVE  /\ FlowsOK' /\ flow'[j].phase = "ready" /\ flow'[j].alive = 1
         /\ \A k \in Job \ {j} : flow'[k] = flow[k] /\ news'[k] = news[k]
         /\ sandbox' = sandbox \cup {j}
PROOF
  <1>1. JobInv(j)
    BY DEF Core
  <1>2. flow[j].alive = 0
    BY <1>1 DEF JobInv, FlowIsHeld, HeldWhileUp, Over
  <1>3. /\ flow \in [Job -> [phase : {"down", "ready", "persisting", "ended"},
                            driven : BOOLEAN, eff : Status \cup {""},
                            stop : BOOLEAN, alive : Nat]]
        /\ news \in [Job -> Seq(Status)] /\ wst \in [Job -> Status \cup {"Pending"}]
    BY DEF Core, TypeOK, FlowsOK
  <1> DEFINE new == [NoFlow EXCEPT !.phase = "ready", !.driven = wst[j] = "Running",
                                   !.alive = flow[j].alive + 1]
  <1>4. flow' = [flow EXCEPT ![j] = new]
    BY DEF Launches
  <1>5. /\ new \in [phase : {"down", "ready", "persisting", "ended"},
                    driven : BOOLEAN, eff : Status \cup {""},
                    stop : BOOLEAN, alive : Nat]
        /\ new.phase = "ready" /\ new.alive = 1
    <2>1. /\ NoFlow \in [phase : {"down", "ready", "persisting", "ended"},
                         driven : BOOLEAN, eff : Status \cup {""},
                         stop : BOOLEAN, alive : Nat]
          /\ flow[j].alive + 1 = 1 /\ flow[j].alive + 1 \in Nat
      BY <1>2 DEF NoFlow
    <2>2. new.phase = "ready" /\ new.alive = flow[j].alive + 1
      BY <2>1
    <2>3. new \in [phase : {"down", "ready", "persisting", "ended"},
                   driven : BOOLEAN, eff : Status \cup {""},
                   stop : BOOLEAN, alive : Nat]
      BY <2>1
    <2> QED
      BY <2>1, <2>2, <2>3
  <1> HIDE DEF new
  <1>6. news' = [news EXCEPT ![j] = <<>>] /\ <<>> \in Seq(Status)
    BY EmptySeq DEF Launches
  <1>7. FlowsOK'
    BY <1>3, <1>4, <1>5, <1>6 DEF FlowsOK
  <1>8. \A k \in Job \ {j} : flow'[k] = flow[k] /\ news'[k] = news[k]
    BY <1>3, <1>4, <1>6
  <1>9. flow'[j] = new
    BY <1>3, <1>4
  <1> QED
    BY <1>5, <1>7, <1>8, <1>9 DEF Launches

(* A job's record when it persists a status.                               *)
JobRecord == [phase : Live \cup {"down", "ended"}, held : BOOLEAN,
              eff : Status \cup {""}, stop : BOOLEAN]

LEMMA JobPersisting ==
  ASSUME NEW f \in [Job -> JobRecord], NEW j \in Job, NEW s \in Status \cup {""},
         NEW b \in BOOLEAN
  PROVE  [f EXCEPT ![j].phase = "persisting", ![j].eff = s, ![j].stop = b] \in [Job -> JobRecord]
PROOF
  <1>1. ASSUME NEW P, NEW B, NEW E, NEW p \in P, NEW e \in E, NEW v \in B, NEW w \in B,
               NEW g \in [Job -> [phase : P, held : B, eff : E, stop : B]]
        PROVE  [g EXCEPT ![j].phase = p, ![j].eff = e, ![j].stop = v]
                 \in [Job -> [phase : P, held : B, eff : E, stop : B]]
    OBVIOUS
  <1>2. {"ready", "persisting"} \subseteq Live \cup {"down", "ended"}
    BY DEF Live
  <1> QED
    BY <1>1, <1>2 DEF JobRecord

LEMMA JobHolding ==
  ASSUME NEW f \in [Job -> JobRecord], NEW j \in Job, NEW s \in Status \cup {""},
         NEW b \in BOOLEAN
  PROVE  [f EXCEPT ![j].phase = "persisting", ![j].eff = s, ![j].held = b] \in [Job -> JobRecord]
PROOF
  <1>1. ASSUME NEW P, NEW B, NEW E, NEW p \in P, NEW e \in E, NEW v \in B, NEW w \in B,
               NEW g \in [Job -> [phase : P, held : B, eff : E, stop : B]]
        PROVE  [g EXCEPT ![j].phase = p, ![j].eff = e, ![j].held = v]
                 \in [Job -> [phase : P, held : B, eff : E, stop : B]]
    OBVIOUS
  <1>2. {"ready", "persisting"} \subseteq Live \cup {"down", "ended"}
    BY DEF Live
  <1> QED
    BY <1>1, <1>2 DEF JobRecord

LEMMA JobReady ==
  ASSUME NEW f \in [Job -> JobRecord], NEW j \in Job, NEW b \in BOOLEAN
  PROVE  [f EXCEPT ![j].phase = "ready", ![j].held = b] \in [Job -> JobRecord]
PROOF
  <1>1. ASSUME NEW P, NEW B, NEW E, NEW p \in P, NEW e \in E, NEW v \in B, NEW w \in B,
               NEW g \in [Job -> [phase : P, held : B, eff : E, stop : B]]
        PROVE  [g EXCEPT ![j].phase = p, ![j].held = v]
                 \in [Job -> [phase : P, held : B, eff : E, stop : B]]
    OBVIOUS
  <1>2. {"ready", "persisting"} \subseteq Live \cup {"down", "ended"}
    BY DEF Live
  <1> QED
    BY <1>1, <1>2 DEF JobRecord

LEMMA JobThrough ==
  ASSUME NEW f \in [Job -> JobRecord], NEW j \in Job, NEW s \in Status \cup {""}
  PROVE  [f EXCEPT ![j].phase = "ready", ![j].eff = s] \in [Job -> JobRecord]
PROOF
  <1>1. ASSUME NEW P, NEW B, NEW E, NEW p \in P, NEW e \in E, NEW v \in B, NEW w \in B,
               NEW g \in [Job -> [phase : P, held : B, eff : E, stop : B]]
        PROVE  [g EXCEPT ![j].phase = p, ![j].eff = e]
                 \in [Job -> [phase : P, held : B, eff : E, stop : B]]
    OBVIOUS
  <1>2. {"ready", "persisting"} \subseteq Live \cup {"down", "ended"}
    BY DEF Live
  <1> QED
    BY <1>1, <1>2 DEF JobRecord

(* A launch that fails ends the job, which held nothing, and reports it.   *)
LEMMA LaunchFailedCore ==
  ASSUME Core, NEW j \in Job, NEW c, JobTakes(j, c), JobTook(j), ~job[j].held,
         LaunchFailed(j), UNCHANGED <<journals, sup, children, outside>>
  PROVE  Core'
PROOF
  <1>1. /\ UNCHANGED <<reg, sup, children, used, jst, wst, stale, flow, news, sandbox>>
        /\ Report(j, "Failed") /\ "Failed" \in Status
    BY DEF LaunchFailed, journals, outside, flows, Status, Terminal
  <1>2. /\ jbox' \in [Job -> Seq(JobMail)]
        /\ \A k \in Job \ {j} : jbox'[k] = jbox[k]
        /\ \A i \in 1 .. Len(jbox'[j]) : jbox'[j][i] # "Start"
        /\ job[j].phase = "ready" /\ ~Over(j)
    BY JobTaken
  <1>3. job' = [job EXCEPT ![j].phase = "persisting", ![j].eff = "Failed",
                           ![j].stop = TRUE]
    BY DEF LaunchFailed, JobPersists
  <1>4. /\ \A k \in Job \ {j} : job'[k] = job[k]
        /\ job'[j].phase = "persisting" /\ job'[j].eff = "Failed"
        /\ job'[j].stop /\ ~job'[j].held
    BY <1>3 DEF Core, TypeOK, JobsOK
  <1>5. JobsOK'
    <2>1. jst' \in [Job -> Status \cup {"None"}] /\ jbox' \in [Job -> Seq(JobMail)]
      BY <1>1, <1>2 DEF Core, TypeOK, JobsOK
    <2>2. job \in [Job -> JobRecord]
      BY DEF Core, TypeOK, JobsOK, JobRecord
    <2>3. "Failed" \in Status /\ TRUE \in BOOLEAN
      BY DEF Status, Terminal
    <2>4. job' \in [Job -> JobRecord]
      BY <1>3, <2>2, <2>3, JobPersisting
    <2> QED
      BY <2>1, <2>4 DEF JobsOK, JobRecord
  <1>6. FlowsOK'
    BY <1>1 DEF Core, TypeOK, FlowsOK
  <1>7. \A k \in Job \ {j} : ActorsKept(k)
    BY <1>1, <1>2, <1>4 DEF ActorsKept
  <1>8. JobInv(j)
    BY DEF Core
  <1>9. EffectsOK(j)' /\ HeldWhileUp(j)' /\ StartsFirst(j)'
    BY <1>1, <1>2, <1>4, <1>8
    DEF JobInv, EffectsOK, HeldWhileUp, StartsFirst, Live
  <1>10. FlowIsHeld(j)' /\ Over(j)'
    BY <1>1, <1>4, <1>8 DEF JobInv, FlowIsHeld, IsUp, Over
  <1> QED
    BY <1>1, <1>2, <1>5, <1>6, <1>7, <1>9, <1>10, ActorStepCore, MarksStay

(* Recovery: a job that was running launches its workflow again.           *)
LEMMA JobRecoversCore ==
  ASSUME Core, NEW j \in Job, JobRecovers(j)
  PROVE  Core'
PROOF
  <1>1. /\ UNCHANGED <<reg, sup, sbox, children, used, jst, wst, stale, jbox>>
        /\ job[j].phase = "starting"
    BY DEF JobRecovers, journals, superv, outside
  <1>2. JobInv(j) /\ ~job[j].held /\ ~job[j].stop /\ ~Over(j)
    BY <1>1 DEF Core, JobInv, HeldWhileUp, Over
  <1>3. CASE /\ jst[j] = "Running" /\ Launches(j, <<>>)
             /\ job' = [job EXCEPT ![j].phase = "ready", ![j].held = TRUE]
    <2>1. /\ FlowsOK' /\ flow'[j].phase = "ready" /\ flow'[j].alive = 1
          /\ \A k \in Job \ {j} : flow'[k] = flow[k] /\ news'[k] = news[k]
          /\ sandbox' = sandbox \cup {j}
      BY <1>1, <1>2, <1>3, Launched
    <2>2. /\ \A k \in Job \ {j} : job'[k] = job[k]
          /\ job'[j].phase = "ready" /\ job'[j].held /\ ~job'[j].stop
      BY <1>2, <1>3 DEF Core, TypeOK, JobsOK
    <2>3. JobsOK'
      <3>1. job \in [Job -> JobRecord] /\ TRUE \in BOOLEAN
        BY DEF Core, TypeOK, JobsOK, JobRecord
      <3>2. job' \in [Job -> JobRecord]
        BY <1>3, <3>1, JobReady
      <3> QED
        BY <1>1, <3>2 DEF Core, TypeOK, JobsOK, JobRecord
    <2>4. \A k \in Job \ {j} : ActorsKept(k)
      BY <1>1, <2>1, <2>2 DEF ActorsKept
    <2>5. EffectsOK(j)' /\ HeldWhileUp(j)' /\ StartsFirst(j)'
      BY <1>1, <1>2, <1>3, <2>1, <2>2
      DEF JobInv, EffectsOK, HeldWhileUp, StartsFirst, Live
    <2>6. FlowIsHeld(j)'
      BY <2>1, <2>2 DEF FlowIsHeld, IsUp
    <2> QED
      BY <1>1, <1>2, <2>1, <2>3, <2>4, <2>5, <2>6, ActorStepCore, MarksStay
  <1>4. CASE /\ job' = [job EXCEPT ![j].phase = "ready"]
             /\ UNCHANGED <<flows, sandbox>>
    <2>1. UNCHANGED <<flow, news, sandbox>>
      BY <1>4 DEF flows
    <2>2. /\ \A k \in Job \ {j} : job'[k] = job[k]
          /\ job'[j].phase = "ready" /\ ~job'[j].held /\ ~job'[j].stop
      BY <1>2, <1>4 DEF Core, TypeOK, JobsOK
    <2>3. JobsOK'
      BY <1>1, <1>4 DEF Live, Core, TypeOK, JobsOK
    <2>4. FlowsOK'
      BY <1>1, <2>1 DEF Core, TypeOK, FlowsOK
    <2>5. \A k \in Job \ {j} : ActorsKept(k)
      BY <1>1, <2>1, <2>2 DEF ActorsKept
    <2>6. EffectsOK(j)' /\ HeldWhileUp(j)' /\ StartsFirst(j)'
      BY <1>1, <1>2, <2>1, <2>2
      DEF JobInv, EffectsOK, HeldWhileUp, StartsFirst, Live
    <2>7. FlowIsHeld(j)'
      BY <1>2, <2>1, <2>2 DEF JobInv, FlowIsHeld, IsUp
    <2> QED
      BY <1>1, <1>2, <2>1, <2>3, <2>4, <2>5, <2>6, <2>7, ActorStepCore, MarksStay
  <1> QED
    BY <1>3, <1>4 DEF JobRecovers

(* The first launch: nothing is up yet.                                    *)
LEMMA JobStartCore ==
  ASSUME Core, NEW j \in Job, JobStart(j)
  PROVE  Core'
PROOF
  <1>1. UNCHANGED <<reg, sup, children, used, jst, wst, stale>>
    BY DEF JobStart, journals, outside
  <1>2. /\ JobTakes(j, "Start") /\ JobTook(j)
        /\ jbox' \in [Job -> Seq(JobMail)] /\ ~job[j].held
        /\ \A k \in Job \ {j} : jbox'[k] = jbox[k]
        /\ \A i \in 1 .. Len(jbox'[j]) : jbox'[j][i] # "Start"
        /\ job[j].phase = "ready" /\ ~job[j].stop /\ ~Over(j)
    BY JobTaken DEF JobStart
  <1>3. CASE LaunchFailed(j)
    BY <1>2, <1>3, LaunchFailedCore DEF JobStart
  <1>4. CASE /\ Launches(j, <<"Start">>) /\ UNCHANGED sbox
             /\ job' = [job EXCEPT ![j].phase = "persisting", ![j].eff = "Running",
                                   ![j].held = TRUE]
    <2>1. /\ FlowsOK' /\ flow'[j].phase = "ready" /\ flow'[j].alive = 1
          /\ \A k \in Job \ {j} : flow'[k] = flow[k] /\ news'[k] = news[k]
          /\ sandbox' = sandbox \cup {j}
      BY <1>1, <1>2, <1>4, Launched
    <2>2. /\ \A k \in Job \ {j} : job'[k] = job[k]
          /\ job'[j].phase = "persisting" /\ job'[j].eff = "Running"
          /\ job'[j].held /\ ~job'[j].stop
      BY <1>2, <1>4 DEF Core, TypeOK, JobsOK
    <2>3. JobsOK'
      <3>1. jst' \in [Job -> Status \cup {"None"}] /\ jbox' \in [Job -> Seq(JobMail)]
        BY <1>1, <1>2 DEF Core, TypeOK, JobsOK
      <3>2. job \in [Job -> JobRecord]
        BY DEF Core, TypeOK, JobsOK, JobRecord
      <3>3. "Running" \in Status /\ TRUE \in BOOLEAN
        BY DEF Status, Terminal
      <3>4. job' \in [Job -> JobRecord]
        BY <1>4, <3>2, <3>3, JobHolding
      <3> QED
        BY <3>1, <3>4 DEF JobsOK, JobRecord
    <2>4. \A k \in Job \ {j} : ActorsKept(k)
      BY <1>1, <1>2, <2>1, <2>2 DEF ActorsKept
    <2>5. EffectsOK(j)' /\ HeldWhileUp(j)' /\ StartsFirst(j)'
      BY <1>2, <2>1, <2>2 DEF EffectsOK, HeldWhileUp, StartsFirst, Live
    <2>6. FlowIsHeld(j)'
      BY <2>1, <2>2 DEF FlowIsHeld, IsUp
    <2> QED
      BY <1>1, <1>2, <1>4, <2>1, <2>3, <2>4, <2>5, <2>6, ActorStepCore, MarksStay
  <1> QED
    BY <1>3, <1>4 DEF JobStart

(* A job takes a message and, for what is told here, does nothing else.    *)
LEMMA JobTakesCore ==
  ASSUME Core, NEW j \in Job, NEW c, JobTakes(j, c), JobTook(j),
         UNCHANGED <<reg, jst, wst, stale, sup, sbox, children, job, flow, news,
                     sandbox, used>>
  PROVE  Core'
PROOF
  <1>1. /\ jbox' \in [Job -> Seq(JobMail)]
        /\ \A k \in Job \ {j} : jbox'[k] = jbox[k]
        /\ \A i \in 1 .. Len(jbox'[j]) : jbox'[j][i] # "Start"
        /\ job[j].phase = "ready"
    BY JobTaken
  <1>2. JobInv(j)
    BY DEF Core
  <1>3. JobsOK'
    BY <1>1 DEF Core, TypeOK, JobsOK
  <1>4. FlowsOK'
    BY DEF Core, TypeOK, FlowsOK
  <1>5. \A k \in Job \ {j} : ActorsKept(k)
    BY <1>1 DEF ActorsKept
  <1>6. EffectsOK(j)' /\ HeldWhileUp(j)' /\ StartsFirst(j)'
    BY <1>1, <1>2 DEF JobInv, EffectsOK, HeldWhileUp, StartsFirst, Live
  <1>7. FlowIsHeld(j)' /\ (Over(j) => Over(j)')
    BY <1>2 DEF JobInv, FlowIsHeld, IsUp, Over
  <1> QED
    BY <1>1, <1>3, <1>4, <1>5, <1>6, <1>7, ActorStepCore, MarksStay

LEMMA JobStopCore ==
  ASSUME Core, NEW j \in Job, JobStop(j)
  PROVE  Core'
  BY JobTakesCore DEF JobStop, journals, superv, outside

LEMMA JobSubscribeCore ==
  ASSUME Core, NEW j \in Job, JobSubscribe(j)
  PROVE  Core'
  BY JobTakesCore DEF JobSubscribe, journals, superv, flows, outside

(* A resume launches only when the job holds no workflow.                  *)
LEMMA JobResumeCore ==
  ASSUME Core, NEW j \in Job, JobResume(j)
  PROVE  Core'
PROOF
  <1>1. UNCHANGED <<reg, sup, children, used, jst, wst, stale>>
    BY DEF JobResume, journals, outside
  <1>2. /\ JobTakes(j, "Resume") /\ JobTook(j)
        /\ jbox' \in [Job -> Seq(JobMail)]
        /\ \A k \in Job \ {j} : jbox'[k] = jbox[k]
        /\ \A i \in 1 .. Len(jbox'[j]) : jbox'[j][i] # "Start"
        /\ job[j].phase = "ready" /\ ~job[j].stop /\ ~Over(j)
    BY JobTaken DEF JobResume
  <1>3. CASE ~job[j].held /\ LaunchFailed(j)
    BY <1>2, <1>3, LaunchFailedCore DEF JobResume
  <1>4. CASE UNCHANGED <<sbox, job, flow, news, sandbox>>
    BY <1>1, <1>2, <1>4, JobTakesCore
  <1>5. CASE /\ ~job[j].held /\ Launches(j, <<"Resume">>)
             /\ job' = [job EXCEPT ![j].held = TRUE] /\ UNCHANGED sbox
    <2>1. /\ FlowsOK' /\ flow'[j].phase = "ready" /\ flow'[j].alive = 1
          /\ \A k \in Job \ {j} : flow'[k] = flow[k] /\ news'[k] = news[k]
          /\ sandbox' = sandbox \cup {j}
      BY <1>1, <1>2, <1>5, Launched
    <2>2. /\ \A k \in Job \ {j} : job'[k] = job[k]
          /\ job'[j].phase = "ready" /\ job'[j].held /\ ~job'[j].stop
      BY <1>2, <1>5 DEF Core, TypeOK, JobsOK
    <2>3. JobsOK'
      BY <1>1, <1>2, <1>5 DEF Core, TypeOK, JobsOK
    <2>4. \A k \in Job \ {j} : ActorsKept(k)
      BY <1>1, <1>2, <2>1, <2>2 DEF ActorsKept
    <2>5. EffectsOK(j)' /\ HeldWhileUp(j)' /\ StartsFirst(j)'
      BY <1>2, <2>1, <2>2 DEF EffectsOK, HeldWhileUp, StartsFirst, Live
    <2>6. FlowIsHeld(j)'
      BY <2>1, <2>2 DEF FlowIsHeld, IsUp
    <2> QED
      BY <1>1, <1>2, <1>5, <2>1, <2>3, <2>4, <2>5, <2>6, ActorStepCore, MarksStay
  <1> QED
    BY <1>3, <1>4, <1>5 DEF JobResume

(* The sandbox goes before the job does.                                   *)
LEMMA JobShutdownCore ==
  ASSUME Core, NEW j \in Job, JobShutdown(j)
  PROVE  Core'
PROOF
  <1>1. UNCHANGED <<reg, jst, wst, stale, sup, sbox, children, flow, news, used>>
    BY DEF JobShutdown, journals, superv, flows, outside
  <1>2. /\ job[j].phase = "ready" /\ sandbox' = sandbox \ {j}
        /\ job' = [job EXCEPT ![j] = [NoJob EXCEPT !.phase = "ended"]]
        /\ jbox' = [jbox EXCEPT ![j] = <<>>]
    BY DEF JobShutdown, JobTakes
  <1>3. /\ \A k \in Job \ {j} : job'[k] = job[k] /\ jbox'[k] = jbox[k]
        /\ job'[j].phase = "ended" /\ ~job'[j].held
        /\ jbox'[j] = <<>> /\ Len(jbox'[j]) = 0
    BY <1>2, EmptySeq DEF NoJob, Core, TypeOK, JobsOK
  <1>4. JobsOK'
    BY <1>1, <1>2, EmptySeq DEF NoJob, Live, Core, TypeOK, JobsOK
  <1>5. FlowsOK'
    BY <1>1 DEF Core, TypeOK, FlowsOK
  <1>6. \A k \in Job \ {j} : ActorsKept(k)
    BY <1>1, <1>2, <1>3 DEF ActorsKept
  <1>7. JobInv(j)
    BY DEF Core
  <1>8. EffectsOK(j)' /\ StartsFirst(j)'
    <2>1. EffectsOK(j)'
      BY <1>1, <1>3, <1>7 DEF JobInv, EffectsOK
    <2>2. StartsFirst(j)'
      BY <1>3 DEF StartsFirst
    <2> QED
      BY <2>1, <2>2
  <1>9. HeldWhileUp(j)'
    BY <1>2, <1>3 DEF HeldWhileUp
  <1>10. FlowIsHeld(j)' /\ Over(j)'
    BY <1>1, <1>3, <1>7 DEF JobInv, FlowIsHeld, IsUp, Over
  <1> QED
    BY <1>1, <1>2, <1>4, <1>5, <1>6, <1>8, <1>9, <1>10, ActorStepCore, MarksStay

LEMMA JobReporting ==
  ASSUME NEW f \in [Job -> JobRecord], NEW j \in Job, NEW s \in Status \cup {""},
         NEW b \in BOOLEAN, NEW h \in BOOLEAN
  PROVE  [f EXCEPT ![j].phase = "persisting", ![j].eff = s, ![j].stop = b,
                   ![j].held = h] \in [Job -> JobRecord]
PROOF
  <1>1. ASSUME NEW P, NEW B, NEW E, NEW p \in P, NEW e \in E, NEW v \in B, NEW w \in B,
               NEW g \in [Job -> [phase : P, held : B, eff : E, stop : B]]
        PROVE  [g EXCEPT ![j].phase = p, ![j].eff = e, ![j].stop = v, ![j].held = w]
                 \in [Job -> [phase : P, held : B, eff : E, stop : B]]
    OBVIOUS
  <1>2. {"ready", "persisting"} \subseteq Live \cup {"down", "ended"}
    BY DEF Live
  <1> QED
    BY <1>1, <1>2 DEF JobRecord

(* A notification: a job that reports an end has let go of its workflow    *)
(* and its sandbox.                                                        *)
LEMMA OnWorkflowEventCore ==
  ASSUME Core, NEW j \in Job, OnWorkflowEvent(j)
  PROVE  Core'
PROOF
  <1>1. UNCHANGED <<reg, jst, wst, stale, sup, children, flow, news, used>>
    BY DEF OnWorkflowEvent, journals, flows, outside
  <1>2. PICK s \in Status : JobTakes(j, s) /\ JobTook(j)
    BY DEF OnWorkflowEvent
  <1>3. /\ jbox' \in [Job -> Seq(JobMail)]
        /\ \A k \in Job \ {j} : jbox'[k] = jbox[k]
        /\ \A i \in 1 .. Len(jbox'[j]) : jbox'[j][i] # "Start"
        /\ job[j].phase = "ready" /\ ~Over(j)
    BY <1>2, JobTaken
  <1>4. /\ Report(j, s)
        /\ sandbox' = IF s \in Terminal THEN sandbox \ {j} ELSE sandbox
        /\ job' = [job EXCEPT ![j].phase = "persisting", ![j].eff = s,
                              ![j].stop = s \in Terminal,
                              ![j].held = @ /\ s \notin Terminal]
    BY <1>2 DEF OnWorkflowEvent, JobTakes
  <1>5. JobInv(j) /\ job \in [Job -> JobRecord]
    BY DEF Core, TypeOK, JobsOK, JobRecord
  <1>6. job' = [job EXCEPT ![j].phase = "persisting", ![j].eff = s,
                           ![j].stop = s \in Terminal,
                           ![j].held = job[j].held /\ s \notin Terminal]
    BY <1>4, <1>5 DEF JobRecord
  <1>7. /\ \A k \in Job \ {j} : job'[k] = job[k]
        /\ job'[j].phase = "persisting" /\ job'[j].eff = s
        /\ job'[j].stop <=> s \in Terminal
        /\ job'[j].held <=> job[j].held /\ s \notin Terminal
    BY <1>5, <1>6 DEF JobRecord
  <1>8. JobsOK'
    <2>1. /\ (s \in Terminal) \in BOOLEAN
          /\ (job[j].held /\ s \notin Terminal) \in BOOLEAN
      OBVIOUS
    <2>2. job' \in [Job -> JobRecord]
      BY <1>5, <1>6, <2>1, JobReporting
    <2>3. jst' \in [Job -> Status \cup {"None"}]
      BY <1>1 DEF Core, TypeOK, JobsOK
    <2> QED
      BY <1>3, <2>2, <2>3 DEF JobsOK, JobRecord
  <1>9. FlowsOK'
    BY <1>1 DEF Core, TypeOK, FlowsOK
  <1>10. \A k \in Job \ {j} : ActorsKept(k)
    BY <1>1, <1>3, <1>4, <1>7 DEF ActorsKept
  <1>11. EffectsOK(j)' /\ StartsFirst(j)'
    BY <1>1, <1>3, <1>5, <1>7
    DEF JobInv, EffectsOK, StartsFirst, Live, Status, Terminal
  <1>12. HeldWhileUp(j)'
    BY <1>4, <1>5, <1>7 DEF JobInv, HeldWhileUp
  <1>13. /\ FlowIsHeld(j)'
         /\ s \in Terminal => Over(j)'
    BY <1>1, <1>3, <1>5, <1>7 DEF JobInv, FlowIsHeld, IsUp, Over
  <1> QED
    BY <1>1, <1>3, <1>4, <1>8, <1>9, <1>10, <1>11, <1>12, <1>13, ActorStepCore, MarksStay

(* The status is written or refused, and a job that is over ends.          *)
LEMMA JobGoesOnCore ==
  ASSUME Core, NEW j \in Job, job[j].phase = "persisting", MarksKept,
         UNCHANGED <<reg, wst, sup, sbox, children, flow, news, sandbox, used>>,
         jst' \in {jst, [jst EXCEPT ![j] = job[j].eff]}, JobGoesOn(j)
  PROVE  Core'
PROOF
  <1>1. /\ UNCHANGED <<reg, wst, sup, sbox, children, flow, news, sandbox, used>>
        /\ job[j].phase = "persisting"
        /\ jst' \in {jst, [jst EXCEPT ![j] = job[j].eff]}
    OBVIOUS
  <1>2. JobInv(j) /\ job[j].eff # ""
    BY <1>1 DEF Core, JobInv, EffectsOK
  <1>3. /\ jst' \in [Job -> Status \cup {"None"}]
        /\ \A k \in Job \ {j} : jst'[k] = jst[k]
        /\ \A i \in 1 .. Len(jbox[j]) : jbox[j][i] # "Start"
    BY <1>1, <1>2 DEF Core, TypeOK, JobsOK, JobInv, StartsFirst
  <1>4. FlowsOK'
    BY <1>1 DEF Core, TypeOK, FlowsOK
  <1>5. CASE /\ job[j].stop /\ jbox' = [jbox EXCEPT ![j] = <<>>]
             /\ job' = [job EXCEPT ![j] = [NoJob EXCEPT !.phase = "ended"]]
    <2>1. /\ \A k \in Job \ {j} : job'[k] = job[k] /\ jbox'[k] = jbox[k]
          /\ job'[j].phase = "ended" /\ ~job'[j].held
          /\ jbox'[j] = <<>> /\ Len(jbox'[j]) = 0
      BY <1>5, EmptySeq DEF NoJob, Core, TypeOK, JobsOK
    <2>2. JobsOK'
      BY <1>3, <1>5, EmptySeq DEF NoJob, Live, Core, TypeOK, JobsOK
    <2>3. \A k \in Job \ {j} : ActorsKept(k)
      BY <1>1, <1>3, <2>1 DEF ActorsKept
    <2>4. EffectsOK(j)' /\ StartsFirst(j)'
      <3>1. EffectsOK(j)'
        BY <1>1, <1>2, <2>1 DEF JobInv, EffectsOK
      <3>2. StartsFirst(j)'
        BY <2>1 DEF StartsFirst
      <3> QED
        BY <3>1, <3>2
    <2>5. HeldWhileUp(j)'
      BY <1>1, <1>2, <1>5, <2>1 DEF JobInv, HeldWhileUp
    <2>6. FlowIsHeld(j)' /\ Over(j)'
      BY <1>1, <1>2, <1>5, <2>1 DEF JobInv, FlowIsHeld, HeldWhileUp, IsUp, Over
    <2> QED
      BY <1>1, <1>4, <2>2, <2>3, <2>4, <2>5, <2>6, ActorStepCore
  <1>6. CASE /\ ~job[j].stop /\ UNCHANGED jbox
             /\ job' = [job EXCEPT ![j].phase = "ready", ![j].eff = ""]
    <2>1. /\ \A k \in Job \ {j} : job'[k] = job[k]
          /\ job'[j].phase = "ready" /\ ~job'[j].stop
          /\ job'[j].held = job[j].held
      <3>1. job \in [Job -> JobRecord]
        BY DEF Core, TypeOK, JobsOK, JobRecord
      <3>2. \A k \in Job \ {j} : job'[k] = job[k]
        BY <1>6, <3>1
      <3>3. /\ job'[j].phase = "ready" /\ job'[j].stop = job[j].stop
            /\ job'[j].held = job[j].held
        <4>1. ASSUME NEW f \in JobRecord, NEW g, g = [f EXCEPT !.phase = "ready", !.eff = ""]
              PROVE  g.phase = "ready" /\ g.stop = f.stop /\ g.held = f.held
          BY <4>1 DEF JobRecord
        <4>2. job'[j] = [job[j] EXCEPT !.phase = "ready", !.eff = ""]
          BY <1>6, <3>1
        <4>3. job[j] \in JobRecord
          BY <3>1
        <4> QED
          BY <4>1, <4>2, <4>3
      <3> QED
        BY <1>6, <3>2, <3>3
    <2>2. JobsOK'
      <3>1. job \in [Job -> JobRecord] /\ jbox' \in [Job -> Seq(JobMail)]
        BY <1>6 DEF Core, TypeOK, JobsOK, JobRecord
      <3>2. job' \in [Job -> JobRecord]
        <4>1. "" \in Status \cup {""}
          OBVIOUS
        <4> QED
          BY <1>6, <3>1, <4>1, JobThrough
      <3> QED
        BY <1>3, <3>1, <3>2 DEF JobsOK, JobRecord
    <2>3. \A k \in Job \ {j} : ActorsKept(k)
      BY <1>1, <1>3, <1>6, <2>1 DEF ActorsKept
    <2>4. EffectsOK(j)' /\ HeldWhileUp(j)' /\ StartsFirst(j)'
      BY <1>1, <1>2, <1>3, <1>6, <2>1
      DEF JobInv, EffectsOK, HeldWhileUp, StartsFirst, Live
    <2>5. FlowIsHeld(j)' /\ ~Over(j)
      BY <1>1, <1>2, <1>6, <2>1 DEF JobInv, FlowIsHeld, IsUp, Over
    <2> QED
      BY <1>1, <1>4, <1>6, <2>2, <2>3, <2>4, <2>5, ActorStepCore
  <1> QED
    BY <1>5, <1>6 DEF JobGoesOn

LEMMA JobPersistedCore ==
  ASSUME Core, NEW j \in Job, JobPersisted(j) \/ JobRefused(j)
  PROVE  Core'
PROOF
  <1>1. /\ UNCHANGED <<reg, wst, sup, sbox, children, flow, news, sandbox, used>>
        /\ job[j].phase = "persisting" /\ JobGoesOn(j)
        /\ jst' \in {jst, [jst EXCEPT ![j] = job[j].eff]}
        /\ stale' \in {stale \ {<<"status", j>>}, stale \cup {<<"status", j>>}}
    BY DEF JobPersisted, JobRefused, Refused, superv, flows, outside
  <1>2. MarksKept
    BY <1>1 DEF MarksKept, Unwritten, Records, Core, TypeOK, SupervisorOK
  <1> QED
    BY <1>1, <1>2, JobGoesOnCore

(* The forwarder tells the job of a status, which is no Start.             *)
LEMMA ForwardCore ==
  ASSUME Core, NEW j \in Job, Forward(j)
  PROVE  Core'
PROOF
  <1>1. /\ UNCHANGED <<reg, jst, wst, stale, sup, sbox, children, job, flow, sandbox, used>>
        /\ news[j] # <<>>
        /\ jbox' = [jbox EXCEPT ![j] = ToJob(j, Head(news[j]))]
        /\ news' = [news EXCEPT ![j] = Tail(news[j])]
    BY DEF Forward, journals, superv, outside
  <1>2. /\ news \in [Job -> Seq(Status)] /\ Head(news[j]) \in Status
        /\ Tail(news[j]) \in Seq(Status)
    BY <1>1, Taken DEF Core, TypeOK, FlowsOK
  <1>3. FlowsOK'
    BY <1>1, <1>2 DEF Core, TypeOK, FlowsOK
  <1>4. PICK c \in JobMail : c = Head(news[j]) /\ c # "Start"
    BY <1>2 DEF JobMail, Status, Terminal
  <1>5. jbox \in [Job -> Seq(JobMail)]
    BY DEF Core, TypeOK, JobsOK
  <1>6. /\ jbox' = [k \in Job |-> jbox'[k]]
        /\ \A k \in Job : jbox'[k] \in {jbox[k], ToJob(k, c)}
    BY <1>1, <1>4, <1>5
  <1>7. ASSUME NEW k \in Job PROVE JobInv(k)' /\ jbox'[k] \in Seq(JobMail)
    <2>1. RowsKept(k)
      <3>1. \A i \in 1 .. Len(sbox') : i + 0 \in 1 .. Len(sbox) /\ sbox'[i] = sbox[i + 0]
        BY <1>1
      <3> QED
        BY <1>1, <3>1 DEF RowsKept, RowKept, MailKept, BeingSubmitted, Unwritten
    <2>2. Unknown(k) => news'[k] = news[k]
      BY <1>1, <1>2 DEF Unknown
    <2> QED
      BY <1>1, <1>4, <1>6, <2>1, <2>2, ToldInv DEF Core
  <1>8. JobsOK'
    BY <1>1, <1>6, <1>7 DEF Core, TypeOK, JobsOK
  <1>9. SupervisorOK'
    BY <1>1 DEF Core, TypeOK, SupervisorOK
  <1>10. sup.phase # "down"
    BY <1>1 DEF Core, DownIsEmpty
  <1> QED
    BY <1>1, <1>3, <1>7, <1>8, <1>9, <1>10 DEF Core, TypeOK, DownIsEmpty

LEMMA JobStepCore ==
  ASSUME Core, NEW j \in Job, JobStep(j)
  PROVE  Core'
  BY JobRecoversCore, JobStartCore, JobResumeCore, JobStopCore, JobShutdownCore,
     OnWorkflowEventCore, JobPersistedCore, ForwardCore DEF JobStep

(* The actor of a workflow.                                                *)
FlowRecord == [phase : {"down", "ready", "persisting", "ended"}, driven : BOOLEAN,
               eff : Status \cup {""}, stop : BOOLEAN, alive : Nat]

LEMMA FlowWriting ==
  ASSUME NEW f \in [Job -> FlowRecord], NEW j \in Job, NEW s \in Status
  PROVE  [f EXCEPT ![j].phase = "persisting", ![j].eff = s] \in [Job -> FlowRecord]
  BY DEF FlowRecord

LEMMA FlowStopping ==
  ASSUME NEW f \in [Job -> FlowRecord], NEW j \in Job, NEW b \in BOOLEAN,
         NEW d \in BOOLEAN
  PROVE  [f EXCEPT ![j].stop = b, ![j].driven = d] \in [Job -> FlowRecord]
  BY DEF FlowRecord

LEMMA FlowDriving ==
  ASSUME NEW f \in [Job -> FlowRecord], NEW j \in Job, NEW d \in BOOLEAN
  PROVE  [f EXCEPT ![j].driven = d] \in [Job -> FlowRecord]
PROOF
  <1>1. ASSUME NEW P, NEW B, NEW E, NEW N, NEW p \in P, NEW v \in B, NEW e \in E,
               NEW g \in [Job -> [phase : P, driven : B, eff : E, stop : B, alive : N]]
        PROVE  [g EXCEPT ![j].driven = v]
                 \in [Job -> [phase : P, driven : B, eff : E, stop : B, alive : N]]
    OBVIOUS
  <1>2. "ready" \in {"down", "ready", "persisting", "ended"} /\ "" \in Status \cup {""}
    OBVIOUS
  <1> QED
    BY <1>1, <1>2 DEF FlowRecord

LEMMA FlowThrough ==
  ASSUME NEW f \in [Job -> FlowRecord], NEW j \in Job, NEW d \in BOOLEAN
  PROVE  [f EXCEPT ![j].phase = "ready", ![j].eff = "", ![j].driven = d]
           \in [Job -> FlowRecord]
PROOF
  <1>1. ASSUME NEW P, NEW B, NEW E, NEW N, NEW p \in P, NEW v \in B, NEW e \in E,
               NEW g \in [Job -> [phase : P, driven : B, eff : E, stop : B, alive : N]]
        PROVE  [g EXCEPT ![j].phase = p, ![j].eff = e, ![j].driven = v]
                 \in [Job -> [phase : P, driven : B, eff : E, stop : B, alive : N]]
    OBVIOUS
  <1>2. "ready" \in {"down", "ready", "persisting", "ended"} /\ "" \in Status \cup {""}
    OBVIOUS
  <1> QED
    BY <1>1, <1>2 DEF FlowRecord

(* A workflow that stays up, whatever it notifies.                         *)
LEMMA FlowGoesOnCore ==
  ASSUME Core, NEW j \in Job,
         UNCHANGED <<reg, jst, sup, sbox, children, job, jbox, sandbox, used>>, MarksKept,
         IsUp(j), IsUp(j)', flow'[j].alive = flow[j].alive,
         flow'[j].phase = "persisting" => flow'[j].eff # "",
         \A k \in Job \ {j} : flow'[k] = flow[k] /\ news'[k] = news[k],
         FlowsOK'
  PROVE  Core'
PROOF
  <1>1. JobInv(j)
    BY DEF Core
  <1>2. JobsOK'
    BY DEF Core, TypeOK, JobsOK
  <1>3. \A k \in Job \ {j} : ActorsKept(k)
    BY DEF ActorsKept
  <1>4. EffectsOK(j)' /\ HeldWhileUp(j)'
    BY <1>1 DEF JobInv, EffectsOK, HeldWhileUp
  <1>5. StartsFirst(j)'
    BY <1>1 DEF JobInv, StartsFirst
  <1>6. FlowIsHeld(j)' /\ (Over(j) => Over(j)')
    BY <1>1 DEF JobInv, FlowIsHeld, Over
  <1>7. flow[j].phase # "down"
    BY DEF IsUp
  <1> QED
    BY <1>2, <1>3, <1>4, <1>5, <1>6, <1>7, ActorStepCore

(* It persists a status, and notifies it or does not.                      *)
LEMMA FlowPersistsCore ==
  ASSUME Core, NEW j \in Job, NEW s \in Status, NEW d \in BOOLEAN,
         UNCHANGED <<reg, jst, wst, stale, sup, sbox, children, job, jbox, sandbox, used>>,
         flow[j].phase = "ready", FlowPersists(j, s, d),
         news' = news \/ Notify(j, s)
  PROVE  Core'
PROOF
  <1>1. flow \in [Job -> FlowRecord] /\ news \in [Job -> Seq(Status)]
    BY DEF Core, TypeOK, FlowsOK, FlowRecord
  <1>2. flow' = [flow EXCEPT ![j].phase = "persisting", ![j].eff = s,
                             ![j].stop = s \in Terminal, ![j].driven = d]
    BY DEF FlowPersists
  <1>3. (s \in Terminal) \in BOOLEAN
    OBVIOUS
  <1>4. flow' \in [Job -> FlowRecord]
    <2> DEFINE f == [flow EXCEPT ![j].phase = "persisting", ![j].eff = s]
    <2>1. f \in [Job -> FlowRecord]
      BY <1>1, FlowWriting
    <2>2. flow' = [f EXCEPT ![j].stop = s \in Terminal, ![j].driven = d]
      BY <1>2
    <2> HIDE DEF f
    <2>3. [f EXCEPT ![j].stop = s \in Terminal, ![j].driven = d] \in [Job -> FlowRecord]
      BY <1>3, <2>1, FlowStopping
    <2> QED
      BY <2>2, <2>3
  <1>5. /\ \A k \in Job \ {j} : flow'[k] = flow[k]
        /\ flow'[j].phase = "persisting" /\ flow'[j].eff = s
        /\ flow'[j].alive = flow[j].alive
    BY <1>1, <1>2 DEF FlowRecord
  <1>6. /\ news' \in [Job -> Seq(Status)]
        /\ \A k \in Job \ {j} : news'[k] = news[k]
    <2>1. CASE news' = news
      BY <1>1, <2>1
    <2>2. CASE Notify(j, s)
      <3>1. Append(news[j], s) \in Seq(Status)
        BY <1>1
      <3> QED
        BY <1>1, <2>2, <3>1 DEF Notify
    <2> QED
      BY <2>1, <2>2
  <1>7. FlowsOK'
    BY <1>4, <1>6 DEF Core, TypeOK, FlowsOK, FlowRecord
  <1>8. s # "" /\ IsUp(j) /\ IsUp(j)'
    BY <1>5 DEF IsUp, Status, Terminal
  <1> QED
    BY <1>5, <1>6, <1>7, <1>8, FlowGoesOnCore, MarksStay

(* It is driven again, or no more.                                         *)
LEMMA FlowDrivenCore ==
  ASSUME Core, NEW j \in Job, NEW d \in BOOLEAN,
         UNCHANGED <<reg, jst, wst, stale, sup, sbox, children, job, jbox, news, sandbox, used>>,
         flow[j].phase = "ready",
         flow' = flow \/ flow' = [flow EXCEPT ![j].driven = d]
  PROVE  Core'
PROOF
  <1>1. flow \in [Job -> FlowRecord]
    BY DEF Core, TypeOK, FlowsOK, FlowRecord
  <1>2. /\ flow' \in [Job -> FlowRecord]
        /\ \A k \in Job \ {j} : flow'[k] = flow[k]
        /\ flow'[j].phase = "ready" /\ flow'[j].alive = flow[j].alive
    <2>1. CASE flow' = flow
      BY <1>1, <2>1
    <2>2. CASE flow' = [flow EXCEPT ![j].driven = d]
      <3>1. flow' \in [Job -> FlowRecord]
        BY <1>1, <2>2, FlowDriving
      <3>2. \A k \in Job \ {j} : flow'[k] = flow[k]
        BY <1>1, <2>2 DEF FlowRecord
      <3>3. flow'[j].phase = "ready" /\ flow'[j].alive = flow[j].alive
        BY <1>1, <2>2 DEF FlowRecord
      <3> QED
        BY <3>1, <3>2, <3>3
    <2> QED
      BY <2>1, <2>2
  <1>3. FlowsOK'
    BY <1>2 DEF Core, TypeOK, FlowsOK, FlowRecord
  <1>4. IsUp(j) /\ IsUp(j)'
    BY <1>2 DEF IsUp
  <1> QED
    BY <1>2, <1>3, <1>4, FlowGoesOnCore, MarksStay

LEMMA FlowStartCore ==
  ASSUME Core, NEW j \in Job, FlowStart(j)
  PROVE  Core'
PROOF
  <1>1. /\ UNCHANGED <<reg, jst, wst, stale, sup, sbox, children, job, jbox, sandbox, used>>
        /\ flow[j].phase = "ready"
    BY DEF FlowStart, FlowTakes, journals, superv, jobs, outside
  <1>2. {"Running", "Failed"} \subseteq Status
    BY DEF Status, Terminal
  <1>3. CASE FlowPersists(j, "Running", TRUE) /\ UNCHANGED news
    BY <1>1, <1>2, <1>3, FlowPersistsCore
  <1>4. CASE FlowPersists(j, "Failed", FALSE) /\ Notify(j, "Failed")
    BY <1>1, <1>2, <1>4, FlowPersistsCore
  <1> QED
    BY <1>3, <1>4 DEF FlowStart

LEMMA FlowCancelCore ==
  ASSUME Core, NEW j \in Job, FlowCancel(j)
  PROVE  Core'
PROOF
  <1>1. /\ UNCHANGED <<reg, jst, wst, stale, sup, sbox, children, job, jbox, sandbox, used>>
        /\ flow[j].phase = "ready"
    BY DEF FlowCancel, FlowTakes, journals, superv, jobs, outside
  <1>2. "Suspended" \in Status /\ flow[j].driven \in BOOLEAN
    BY DEF Status, Core, TypeOK, FlowsOK
  <1>3. FlowPersists(j, "Suspended", flow[j].driven) /\ Notify(j, "Suspended")
    BY DEF FlowCancel
  <1> QED
    BY <1>1, <1>2, <1>3, FlowPersistsCore

LEMMA FlowResumeCore ==
  ASSUME Core, NEW j \in Job, FlowResume(j)
  PROVE  Core'
PROOF
  <1>1. /\ UNCHANGED <<reg, jst, wst, stale, sup, sbox, children, job, jbox, sandbox, used>>
        /\ flow[j].phase = "ready"
    BY DEF FlowResume, FlowTakes, journals, superv, jobs, outside
  <1>2. "Failed" \in Status
    BY DEF Status, Terminal
  <1>3. CASE flow' = [flow EXCEPT ![j].driven = TRUE] /\ UNCHANGED news
    BY <1>1, <1>3, FlowDrivenCore
  <1>4. CASE FlowPersists(j, "Failed", FALSE) /\ (UNCHANGED news \/ Notify(j, "Failed"))
    BY <1>1, <1>2, <1>4, FlowPersistsCore
  <1>5. CASE UNCHANGED <<flow, news>>
    BY <1>1, <1>5, FlowDrivenCore
  <1> QED
    BY <1>3, <1>4, <1>5 DEF FlowResume

LEMMA FlowMovesCore ==
  ASSUME Core, NEW j \in Job, FlowMoves(j)
  PROVE  Core'
PROOF
  <1>1. /\ UNCHANGED <<reg, jst, wst, stale, sup, sbox, children, job, jbox, sandbox, used>>
        /\ flow[j].phase = "ready"
    BY DEF FlowMoves, journals, superv, jobs, outside
  <1>2. ASSUME NEW s \in Status, FlowPersists(j, s, FALSE), Notify(j, s)
        PROVE  Core'
    BY <1>1, <1>2, FlowPersistsCore
  <1>3. CASE FlowPersists(j, "Running", TRUE) /\ UNCHANGED news
    <2>1. "Running" \in Status
      BY DEF Status
    <2> QED
      BY <1>1, <1>3, <2>1, FlowPersistsCore
  <1>4. CASE flow' = [flow EXCEPT ![j].driven = FALSE] /\ UNCHANGED news
    BY <1>1, <1>4, FlowDrivenCore
  <1> QED
    BY <1>2, <1>3, <1>4 DEF FlowMoves

(* The status is written or refused, and a workflow that is over ends.     *)
LEMMA FlowThroughCore ==
  ASSUME Core, NEW j \in Job, NEW d \in BOOLEAN, flow[j].phase = "persisting", MarksKept,
         UNCHANGED <<reg, jst, sup, sbox, children, job, jbox, news, sandbox, used>>,
         wst' \in {wst, [wst EXCEPT ![j] = flow[j].eff]}, FlowGoesOn(j, d)
  PROVE  Core'
PROOF
  <1>1. /\ UNCHANGED <<reg, jst, sup, sbox, children, job, jbox, news, sandbox, used>>
        /\ flow[j].phase = "persisting"
        /\ wst' \in {wst, [wst EXCEPT ![j] = flow[j].eff]}
    OBVIOUS
  <1>2. JobInv(j) /\ flow[j].eff # "" /\ flow[j].alive = 1
    BY <1>1 DEF Core, JobInv, EffectsOK, FlowIsHeld, IsUp
  <1>3. /\ flow \in [Job -> FlowRecord] /\ wst' \in [Job -> Status \cup {"Pending"}]
        /\ news' \in [Job -> Seq(Status)]
    BY <1>1, <1>2 DEF Core, TypeOK, FlowsOK, FlowRecord
  <1>4. CASE flow' = [flow EXCEPT ![j] = [NoFlow EXCEPT !.phase = "ended",
                                                      !.alive = flow[j].alive - 1]]
    <2>1. flow' = [flow EXCEPT ![j] = [NoFlow EXCEPT !.phase = "ended", !.alive = 0]]
      <3>1. ASSUME NEW a \in Nat, a = 1 PROVE a - 1 = 0
        BY <3>1
      <3>2. flow[j].alive \in Nat
        BY <1>3 DEF FlowRecord
      <3>3. flow[j].alive - 1 = 0
        BY <1>2, <3>1, <3>2
      <3> QED
        BY <1>4, <3>3
    <2>2. /\ flow' \in [Job -> FlowRecord]
          /\ \A k \in Job \ {j} : flow'[k] = flow[k]
          /\ flow'[j].phase = "ended" /\ flow'[j].alive = 0
      BY <1>3, <2>1 DEF FlowRecord, NoFlow
    <2>3. FlowsOK'
      BY <1>3, <2>2 DEF FlowsOK, FlowRecord
    <2>4. JobsOK'
      BY <1>1 DEF Core, TypeOK, JobsOK
    <2>5. \A k \in Job \ {j} : ActorsKept(k)
      BY <1>1, <2>2 DEF ActorsKept
    <2>6. EffectsOK(j)' /\ HeldWhileUp(j)'
      BY <1>1, <1>2, <2>2 DEF JobInv, EffectsOK, HeldWhileUp
    <2>7. StartsFirst(j)'
      BY <1>1, <1>2 DEF JobInv, StartsFirst
    <2>8. FlowIsHeld(j)' /\ (Over(j) => Over(j)')
      BY <1>1, <2>2 DEF FlowIsHeld, IsUp, Over
    <2> QED
      BY <1>1, <2>3, <2>4, <2>5, <2>6, <2>7, <2>8, ActorStepCore
  <1>5. CASE flow' = [flow EXCEPT ![j].phase = "ready", ![j].eff = "",
                                  ![j].driven = d]
    <2>1. /\ flow' \in [Job -> FlowRecord]
          /\ \A k \in Job \ {j} : flow'[k] = flow[k]
          /\ flow'[j].phase = "ready" /\ flow'[j].alive = flow[j].alive
      <3>1. flow' \in [Job -> FlowRecord]
        BY <1>3, <1>5, FlowThrough
      <3>2. \A k \in Job \ {j} : flow'[k] = flow[k]
        BY <1>3, <1>5 DEF FlowRecord
      <3>3. flow'[j].phase = "ready" /\ flow'[j].alive = flow[j].alive
        <4>1. ASSUME NEW f \in FlowRecord,
                     NEW g, g = [f EXCEPT !.phase = "ready", !.eff = "", !.driven = d]
              PROVE  g.phase = "ready" /\ g.alive = f.alive
          BY <4>1 DEF FlowRecord
        <4>2. flow'[j] = [flow[j] EXCEPT !.phase = "ready", !.eff = "", !.driven = d]
          BY <1>3, <1>5
        <4>3. flow[j] \in FlowRecord
          BY <1>3
        <4> QED
          BY <4>1, <4>2, <4>3
      <3> QED
        BY <3>1, <3>2, <3>3
    <2>2. FlowsOK'
      BY <1>3, <2>1 DEF FlowsOK, FlowRecord
    <2>3. IsUp(j) /\ IsUp(j)'
      BY <1>1, <2>1 DEF IsUp
    <2> QED
      BY <1>1, <2>1, <2>2, <2>3, FlowGoesOnCore
  <1> QED
    BY <1>4, <1>5 DEF FlowGoesOn

LEMMA FlowPersistedCore ==
  ASSUME Core, NEW j \in Job, FlowPersisted(j) \/ FlowRefused(j)
  PROVE  Core'
PROOF
  <1>1. /\ UNCHANGED <<reg, jst, sup, sbox, children, job, jbox, news, sandbox, used>>
        /\ flow[j].phase = "persisting"
        /\ wst' \in {wst, [wst EXCEPT ![j] = flow[j].eff]}
        /\ stale' \in {stale \ {<<"flow", j>>}, stale \cup {<<"flow", j>>}}
    BY DEF FlowPersisted, FlowRefused, Refused, superv, jobs, outside
  <1>2. MarksKept
    BY <1>1 DEF MarksKept, Unwritten, Records, Core, TypeOK, SupervisorOK
  <1>3. flow[j].driven \in BOOLEAN
    BY DEF Core, TypeOK, FlowsOK
  <1>4. PICK d \in BOOLEAN : FlowGoesOn(j, d)
    <2>1. (flow[j].driven /\ flow[j].eff # "Running") \in BOOLEAN
      OBVIOUS
    <2> QED
      BY <1>3, <2>1 DEF FlowPersisted, FlowRefused
  <1> QED
    BY <1>1, <1>2, <1>4, FlowThroughCore

LEMMA FlowStepCore ==
  ASSUME Core, NEW j \in Job, FlowStep(j)
  PROVE  Core'
  BY FlowStartCore, FlowCancelCore, FlowResumeCore, FlowMovesCore,
     FlowPersistedCore DEF FlowStep

-----------------------------------------------------------------------------
(* Clients, and the end of the daemon.                                     *)

(* The first message about a job is its Submit.                            *)
LEMMA ClientSubmitsCore ==
  ASSUME Core, NEW j \in Job, ClientSubmits(j)
  PROVE  Core'
PROOF
  <1>1. /\ UNCHANGED <<reg, jst, wst, stale, sup, children, job, jbox, flow, news, sandbox>>
        /\ j \notin used /\ used' = used \cup {j} /\ sup.phase # "down"
    BY DEF ClientSubmits, Up, journals, jobs, flows
  <1>2. PICK e \in Mail : e = [cmd |-> "Submit", job |-> j]
    BY DEF Mail, Request
  <1>3. sbox' = Append(sbox, e)
    BY <1>2 DEF ClientSubmits
  <1>4. /\ sbox' \in Seq(Mail)
        /\ \A i \in 1 .. Len(sbox') :
             \/ i \in 1 .. Len(sbox) /\ sbox'[i] = sbox[i]
             \/ i = Len(sbox) + 1 /\ i \notin 1 .. Len(sbox) /\ sbox'[i] = e
    BY <1>3, SupTold DEF Core, TypeOK
  <1>5. e.cmd = "Submit" /\ e.job = j
    BY <1>2
  <1>6. SupervisorOK'
    BY <1>1, <1>4 DEF Core, TypeOK, SupervisorOK
  <1>7. JobsOK'
    BY <1>1 DEF Core, TypeOK, JobsOK
  <1>8. FlowsOK'
    BY <1>1 DEF Core, TypeOK, FlowsOK
  <1>9. \A k \in Job : ActorsKept(k)
    BY <1>1 DEF ActorsKept
  <1>10. ASSUME NEW k \in Job \ {j} PROVE JobInv(k)'
    <2>1. \A i \in 1 .. Len(sbox') :
            \/ i + 0 \in 1 .. Len(sbox) /\ sbox'[i] = sbox[i + 0]
            \/ ~Submits(k, i)' /\ ~Reported(k, i)'
      BY <1>4, <1>5 DEF Submits, Reported
    <2>2. RowsKept(k)
      BY <1>1, <2>1 DEF RowsKept, RowKept, MailKept, BeingSubmitted, Unwritten
    <2> QED
      BY <1>9, <2>2, OthersInv DEF Core
  <1>11. JobInv(j)'
    <2>1. JobInv(j) /\ Unknown(j) /\ \A i \in 1 .. Len(sbox) : ~Submits(j, i)
      BY <1>1 DEF Core, JobInv, SubmittedOnce
    <2>2. \A i \in 1 .. Len(sbox') : /\ ~Reported(j, i)'
                                     /\ Submits(j, i)' => i = Len(sbox) + 1
      BY <1>4, <1>5, <2>1 DEF Submits, Reported, Unknown
    <2>3. Unknown(j)'
      BY <1>1, <2>1, <2>2 DEF Unknown
    <2>4. SubmittedOnce(j)'
      BY <1>1, <2>2, <2>3 DEF SubmittedOnce
    <2>5. EndedIsOver(j)'
      BY <2>2, <2>3 DEF EndedIsOver, Unknown, Over
    <2> QED
      BY <1>9, <2>1, <2>4, <2>5, ActorsInv DEF JobInv
  <1> QED
    BY <1>1, <1>6, <1>7, <1>8, <1>10, <1>11 DEF Core, TypeOK, DownIsEmpty

(* Any other message says nothing new about a job.                         *)
LEMMA AsksCore ==
  ASSUME Core, sup.phase # "down", NEW e \in Mail, sbox' = Append(sbox, e),
         e.cmd \notin {"Submit", "JobStatusChanged"},
         UNCHANGED <<reg, jst, wst, stale, sup, children, job, jbox, flow, news,
                     sandbox, used>>
  PROVE  Core'
PROOF
  <1>1. /\ sbox' \in Seq(Mail)
        /\ \A i \in 1 .. Len(sbox') :
             \/ i \in 1 .. Len(sbox) /\ sbox'[i] = sbox[i]
             \/ i = Len(sbox) + 1 /\ i \notin 1 .. Len(sbox) /\ sbox'[i] = e
    BY SupTold DEF Core, TypeOK
  <1>2. SupervisorOK'
    BY <1>1 DEF Core, TypeOK, SupervisorOK
  <1>3. ASSUME NEW k \in Job PROVE RowsKept(k)
    <2>1. \A i \in 1 .. Len(sbox') :
            \/ i + 0 \in 1 .. Len(sbox) /\ sbox'[i] = sbox[i + 0]
            \/ ~Submits(k, i)' /\ ~Reported(k, i)'
      BY <1>1 DEF Submits, Reported
    <2> QED
      BY <2>1 DEF RowsKept, RowKept, MailKept, BeingSubmitted, Unwritten
  <1>4. jbox' = [k \in Job |-> jbox'[k]]
    BY DEF Core, TypeOK, JobsOK
  <1> QED
    BY <1>2, <1>3, <1>4, TellsCore DEF JobMail

LEMMA ClientAsksCore ==
  ASSUME Core, NEW c \in {"Stop", "Resume", "Remove"}, NEW j \in Job, ClientAsks(c, j)
  PROVE  Core'
PROOF
  <1>1. PICK e \in Mail : e = [cmd |-> c, job |-> j]
    BY DEF Mail, Request
  <1>2. e.cmd \notin {"Submit", "JobStatusChanged"}
    BY <1>1
  <1> QED
    BY <1>1, <1>2, AsksCore DEF ClientAsks, Up, journals, jobs, flows

LEMMA ClientShutsDownCore ==
  ASSUME Core, ClientShutsDown
  PROVE  Core'
PROOF
  <1>1. PICK e \in Mail : e = [cmd |-> "Shutdown", job |-> "all"]
    BY DEF Mail
  <1>2. e.cmd \notin {"Submit", "JobStatusChanged"}
    BY <1>1
  <1> QED
    BY <1>1, <1>2, AsksCore DEF ClientShutsDown, Up, journals, jobs, flows

(* What neither the daemon nor the journals notice.                        *)
LEMMA SameCore ==
  ASSUME Core, UNCHANGED <<reg, jst, wst, stale, sup, sbox, children, job, jbox, flow,
                           news, sandbox, used>>
  PROVE  Core'
PROOF
  <1>1. SupervisorOK' /\ JobsOK' /\ FlowsOK'
    BY DEF Core, TypeOK, SupervisorOK, JobsOK, FlowsOK
  <1>2. ASSUME NEW k \in Job PROVE JobInv(k)'
    <2>1. ActorsKept(k)
      BY DEF ActorsKept
    <2>2. \A i \in 1 .. Len(sbox') : i + 0 \in 1 .. Len(sbox) /\ sbox'[i] = sbox[i + 0]
      OBVIOUS
    <2>3. RowsKept(k)
      BY <2>2 DEF RowsKept, RowKept, MailKept, BeingSubmitted, Unwritten
    <2> QED
      BY <2>1, <2>3, OthersInv DEF Core
  <1> QED
    BY <1>1, <1>2 DEF Core, TypeOK, DownIsEmpty

(* The end of the daemon: the journals stay, and everybody is over.        *)
LEMMA GoneCore ==
  ASSUME Core, Gone
  PROVE  Core'
PROOF
  <1>1. UNCHANGED <<reg, jst, wst, used>>
    BY DEF Gone
  <1>2. /\ sup'.phase = "down" /\ sup'.row = <<>> /\ sbox' = <<>> /\ Len(sbox') = 0
        /\ sandbox' = {} /\ children' = {} /\ stale' = {}
    BY EmptySeq DEF Gone, NoSup
  <1>3. TypeOK'
    <2>1. SupervisorOK'
      BY <1>1, <1>2, EmptySeq DEF Gone, Core, TypeOK, SupervisorOK, NoSup
    <2>2. JobsOK'
      BY <1>1, EmptySeq DEF Gone, Core, TypeOK, JobsOK, NoJob, Live
    <2>3. FlowsOK'
      BY <1>1, EmptySeq DEF Gone, Core, TypeOK, FlowsOK, NoFlow
    <2> QED
      BY <2>1, <2>2, <2>3 DEF TypeOK
  <1>4. ASSUME NEW k \in Job
        PROVE  /\ JobInv(k)'
               /\ job'[k].phase = "down" /\ flow'[k].phase = "down" /\ news'[k] = <<>>
    <2>1. /\ job'[k].phase = "down" /\ ~job'[k].held /\ ~job'[k].stop
          /\ jbox'[k] = <<>> /\ Len(jbox'[k]) = 0
          /\ flow'[k].phase = "down" /\ flow'[k].alive = 0 /\ news'[k] = <<>>
      BY EmptySeq DEF Gone, NoJob, NoFlow
    <2>2. EffectsOK(k)' /\ HeldWhileUp(k)' /\ FlowIsHeld(k)' /\ StartsFirst(k)'
      BY <1>2, <2>1 DEF EffectsOK, HeldWhileUp, FlowIsHeld, StartsFirst, Over, IsUp
    <2>3. EndedIsOver(k)'
      BY <1>2, <2>1 DEF EndedIsOver, Reported, Over
    <2>4. k \notin used => Unknown(k)
      BY DEF Core, JobInv, SubmittedOnce
    <2>5. SubmittedOnce(k)'
      BY <1>1, <1>2, <2>1, <2>4 DEF SubmittedOnce, Unknown
    <2> QED
      BY <2>1, <2>2, <2>3, <2>5 DEF JobInv
  <1> QED
    BY <1>2, <1>3, <1>4 DEF Core, DownIsEmpty

-----------------------------------------------------------------------------
(* The attached client, and the theorem.                                   *)

Attached == run \in [at : Where, job : Job, status : Status \cup {"none", "absent"}]

LEMMA SupStepCore ==
  ASSUME Core, SupStep
  PROVE  Core'
  BY SubmitCore, PassOnCore, RemoveCore, StatusChangedCore, SupPersistsCore,
     ShutdownCore, ShutdownDoneCore DEF SupStep

LEMMA TellCore ==
  ASSUME Core, Attached, sup.phase # "down", NEW c \in {"Subscribe", "List"}, Tell(c),
         UNCHANGED <<reg, jst, wst, stale, sup, children, job, jbox, flow, news,
                     sandbox, used>>
  PROVE  Core'
PROOF
  <1>1. run.job \in Job
    BY DEF Attached
  <1>2. PICK e \in Mail : e = [cmd |-> c, job |-> run.job]
    BY <1>1 DEF Mail, Request
  <1>3. e.cmd \notin {"Submit", "JobStatusChanged"}
    BY <1>2
  <1> QED
    BY <1>2, <1>3, AsksCore DEF Tell, Mine

LEMMA SupListCore ==
  ASSUME Core, SupList
  PROVE  Core'
PROOF
  <1>1. UNCHANGED <<reg, jst, wst, stale, sup, children, job, jbox, flow, news, sandbox, used>>
    BY DEF SupList, journals, jobs, flows, outside
  <1>2. /\ sbox' \in Seq(Mail) /\ sup.phase = "ready"
        /\ \A i \in 1 .. Len(sbox') : i + 1 \in 1 .. Len(sbox) /\ sbox'[i] = sbox[i + 1]
    BY SupTaken DEF SupList, Core, TypeOK
  <1>3. SupervisorOK'
    BY <1>1, <1>2 DEF Core, TypeOK, SupervisorOK
  <1>4. \A k \in Job : RowsKept(k)
    BY <1>1, <1>2 DEF RowsKept, RowKept, MailKept, BeingSubmitted, Unwritten
  <1>5. jbox' = [k \in Job |-> jbox'[k]]
    BY <1>1 DEF Core, TypeOK, JobsOK
  <1> QED
    BY <1>1, <1>2, <1>3, <1>4, <1>5, TellsCore DEF JobMail

LEMMA RunStepCore ==
  ASSUME Core, Attached, RunStep
  PROVE  Core'
PROOF
  <1>1. CASE UNCHANGED vars
    BY <1>1, SameCore DEF vars
  <1>2. CASE AskSubscription
    BY <1>2, TellCore DEF AskSubscription, Up, journals, jobs, flows, outside
  <1>3. CASE AskList
    BY <1>3, TellCore DEF AskList, Up, journals, jobs, flows, outside
  <1> QED
    BY <1>1, <1>2, <1>3 DEF RunStep, RunSubmitted, NoSubscription, StreamEnds, NoDaemon

LEMMA NextCore ==
  ASSUME Core, Attached, [AttachedNext]_allvars
  PROVE  Core'
PROOF
  <1>1. CASE Boot
    BY <1>1, BootCore
  <1>2. CASE SupServes
    BY <1>2, SupStepCore, SupSubscribeCore, SupListCore DEF SupServes, Alone
  <1>3. ASSUME NEW j \in Job, JobServes(j) PROVE Core'
    BY <1>3, JobStepCore, JobSubscribeCore DEF JobServes, Alone
  <1>4. ASSUME NEW j \in Job, FlowStep(j) PROVE Core'
    BY <1>4, FlowStepCore
  <1>5. ASSUME NEW j \in Job, ClientSubmits(j) PROVE Core'
    BY <1>5, ClientSubmitsCore
  <1>6. CASE RunSubmits
    <2>1. Mine \in Job /\ ClientSubmits(Mine)
      BY <1>6 DEF RunSubmits, Attached, Mine
    <2> QED
      BY <2>1, ClientSubmitsCore
  <1>7. CASE RunStep
    BY <1>7, RunStepCore
  <1>8. ASSUME NEW c \in {"Stop", "Resume", "Remove"}, NEW j \in Job, ClientAsks(c, j)
        PROVE  Core'
    BY <1>8, ClientAsksCore
  <1>9. CASE ClientDrains
    BY <1>9, SameCore DEF ClientDrains, journals, superv, jobs, flows
  <1>10. CASE ClientShutsDown
    BY <1>10, ClientShutsDownCore
  <1>11. CASE Exit \/ Kill
    BY <1>11, GoneCore DEF Exit, Kill
  <1>12. CASE UNCHANGED allvars
    BY <1>12, SameCore DEF allvars, vars
  <1> QED
    BY <1>1, <1>2, <1>3, <1>4, <1>5, <1>6, <1>7, <1>8, <1>9, <1>10, <1>11, <1>12
    DEF AttachedNext, Alone

LEMMA NextAttached ==
  ASSUME Core, Attached, [AttachedNext]_allvars
  PROVE  Attached'
PROOF
  <1>1. \A j \in Job : reg[j] \in Status \cup {"absent"}
    BY DEF Core, TypeOK, SupervisorOK
  <1>2. \A place \in Where : Goes(place) => Attached'
    BY DEF Goes, Attached
  <1>3. UNCHANGED run => Attached'
    BY DEF Attached
  <1>4. Cut => Attached'
    BY DEF Cut, At, Attached, Where
  <1>5. SupList => Attached'
    BY <1>1 DEF SupList, Mine, Attached, Where
  <1>6. \A j \in Job : JobSubscribe(j) => Attached'
    BY DEF JobSubscribe, Attached, Where
  <1>7. RunSubmits \/ RunStep => \E place \in Where : Goes(place)
    BY DEF RunSubmits, RunStep, RunSubmitted, AskSubscription, NoSubscription,
           StreamEnds, AskList, NoDaemon, Where
  <1> QED
    BY <1>2, <1>3, <1>4, <1>5, <1>6, <1>7
    DEF AttachedNext, Alone, SupServes, SupSubscribe, JobServes, allvars

(* What is inductive says what is promised.                                *)
LEMMA CoreSays == Core => Inv
PROOF
  <1> SUFFICES ASSUME Core PROVE Inv
    OBVIOUS
  <1>1. OneWorkflow
    BY DEF OneWorkflow, Core, JobInv, FlowIsHeld
  <1>2. UnlistedHoldsNothing
    BY DEF UnlistedHoldsNothing, Core, JobInv, EndedIsOver, HeldWhileUp, Over
  <1> QED
    BY <1>1, <1>2 DEF Core, Inv

(* For any jobs and requests, over any number of restarts and whichever    *)
(* writes are refused: no job has two workflows, and none that the         *)
(* registry shows as over has a sandbox, nor one that it does not show,    *)
(* unless it is not there because its row was refused.                     *)
THEOREM SupervisionInvariance == AttachedSpec => []Inv
PROOF
  <1>1. AttachedInit => Core /\ Attached
    BY InitCore DEF AttachedInit, Attached, Where
  <1>2. Core /\ Attached /\ [AttachedNext]_allvars => (Core /\ Attached)'
    BY NextCore, NextAttached
  <1> QED
    BY <1>1, <1>2, CoreSays, PTL DEF AttachedSpec

-----------------------------------------------------------------------------

-----------------------------------------------------------------------------
(* The story of a job: its row and its record are what it was told last.   *)

(* No restart has come between a job and what became of it.                *)
OnItsWay == {"submitting", "replaying", "asking", "following", "ended", "listing"}
Unbroken(j) ==
  \/ j \notin used
  \/ boots = 1 /\ Up
  \/ j = Mine /\ At(OnItsWay) /\ Up

(* What the journals tell of a job and of its workflow: nothing, when the  *)
(* last write was refused.                                                 *)
JobRec(j)  == IF UpToDate("status", j) THEN jst[j] ELSE "lost"
FlowRec(j) == IF UpToDate("flow", j) THEN wst[j] ELSE "lost"
RowRec(j)  == IF UpToDate("row", j) THEN reg[j] ELSE "absent"

(* What a job has recorded or is about to, and what its row may say.       *)
Row == Status \cup {"absent"}
Recorded(j) == IF job[j].phase = "persisting" THEN job[j].eff ELSE JobRec(j)
Starting(j) == \E i \in 1 .. Len(jbox[j]) : jbox[j][i] = "Start"
Fitting(j)  == IF Recorded(j) = "lost" THEN Row
               ELSE {"absent", Recorded(j)} \cup (IF Starting(j) THEN {"Running"} ELSE {})
RowOf(j)    == IF sup.row # <<>> /\ sup.row[1] = j THEN sup.row[2] ELSE RowRec(j)

(* The last report about a job, or its row when there is none under way,   *)
(* is what it records.                                                     *)
RowIsRecorded(j) ==
  /\ \A i \in 1 .. Len(sbox) :
       Reported(j, i) /\ (\A k \in 1 .. Len(sbox) : Reported(j, k) => k <= i)
         => sbox[i].status \in Fitting(j)
  /\ (\A i \in 1 .. Len(sbox) : ~Reported(j, i)) => RowOf(j) \in Fitting(j)

(* A job that has not launched its workflow has yet to be started.         *)
LaunchedByStart(j) ==
  /\ flow[j].phase = "down" => wst[j] = "Pending" /\ news[j] = <<>>
  /\ flow[j].phase = "persisting" /\ flow[j].stop => flow[j].eff \in Terminal
  /\ job[j].phase \in Live /\ ~job[j].held /\ ~job[j].stop => Starting(j)
  /\ Starting(j) => /\ flow[j].phase = "down" /\ UpToDate("status", j)
                    /\ \A i \in 1 .. Len(jbox[j]) : jbox[j][i] \notin Status
  /\ job[j].phase = "down" => UpToDate("status", j)

(* The last of what a workflow notified is s, all the way to the record.   *)
NewsSays(j, s) ==
  /\ news[j] # <<>> => news[j][Len(news[j])] = s
  /\ news[j] = <<>> =>
       /\ \A i \in 1 .. Len(jbox[j]) :
            /\ jbox[j][i] \in Status
            /\ \A k \in 1 .. Len(jbox[j]) : jbox[j][k] \in Status => k <= i
            => jbox[j][i] = s
       /\ (\A i \in 1 .. Len(jbox[j]) : jbox[j][i] \notin Status)
            => Recorded(j) \in {s, "lost"}
FlowRecorded(j) == IF flow[j].phase = "persisting" THEN flow[j].eff ELSE FlowRec(j)

(* A job that holds a workflow hears of its status, but for what a resumed *)
(* workflow does until it rests again, and what a new one has yet to do.   *)
FlowIsRecorded(j) ==
  ~ProviderLoss /\ job[j].held =>
    /\ flow[j].phase # "down"
    /\ \/ NewsSays(j, FlowRecorded(j))
       \/ FlowRecorded(j) = "lost"
       \/ FlowRecorded(j) = "Running" /\ flow[j].driven
       \/ /\ fbox[j] # <<>> /\ Head(fbox[j]) = "Start" /\ NewsSays(j, "Running")
          /\ flow[j].phase = "ready" /\ ~flow[j].driven /\ wst[j] = "Pending"

Story(j) == RowIsRecorded(j) /\ LaunchedByStart(j) /\ FlowIsRecorded(j)

-----------------------------------------------------------------------------
(* What a step leaves of a job's story.                                    *)

(* The reports about k are what they were, less one that is not about k.   *)
ReportsKept(k) ==
  \E n \in {0, 1} :
    /\ \A i \in 1 .. Len(sbox') : Reported(k, i)' =>
         i + n \in 1 .. Len(sbox) /\ sbox'[i] = sbox[i + n]
    /\ \A i \in 1 .. Len(sbox) : Reported(k, i) =>
         i - n \in 1 .. Len(sbox') /\ sbox'[i - n] = sbox[i]

(* So are what its job has been notified of and whether it is to start.    *)
News == Status \cup {"Start"}
BoxKept(k) ==
  \E n \in {0, 1} :
    /\ \A i \in 1 .. Len(jbox'[k]) : jbox'[k][i] \in News =>
         i + n \in 1 .. Len(jbox[k]) /\ jbox'[k][i] = jbox[k][i + n]
    /\ \A i \in 1 .. Len(jbox[k]) : jbox[k][i] \in News =>
         i - n \in 1 .. Len(jbox'[k]) /\ jbox'[k][i - n] = jbox[k][i]

MarkKept(r, k) == UpToDate(r, k)' <=> UpToDate(r, k)
FittingKept(k) == \A s \in Row : s \in Fitting(k) => s \in Fitting(k)'

LEMMA RowsAreRows ==
  ASSUME SupervisorOK, NEW k \in Job
  PROVE  /\ RowOf(k) \in Row /\ Len(sbox) \in Nat
         /\ \A i \in 1 .. Len(sbox) : Reported(k, i) => sbox[i].status \in Row
PROOF
  <1>1. /\ reg[k] \in Row
        /\ sup.row \in {<<>>} \cup (Job \X Row)
        /\ sbox \in Seq(Mail)
    BY DEF SupervisorOK, Row
  <1>2. RowOf(k) \in Row
    BY <1>1 DEF RowOf, RowRec, Row
  <1>3. ASSUME NEW i \in 1 .. Len(sbox), Reported(k, i)
        PROVE  sbox[i].status \in Row
    <2>1. sbox[i] \in Mail /\ sbox[i].cmd = "JobStatusChanged"
      BY <1>1, <1>3 DEF Reported
    <2>2. sbox[i] \in Notice
      BY <2>1 DEF Mail, Request
    <2> QED
      BY <2>2 DEF Notice, Row
  <1> QED
    BY <1>1, <1>2, <1>3

LEMMA RowsKeptStory ==
  ASSUME SupervisorOK, SupervisorOK', NEW k \in Job, RowIsRecorded(k), ReportsKept(k),
         FittingKept(k), RowOf(k)' \in {RowOf(k), "absent"}
  PROVE  RowIsRecorded(k)'
PROOF
  <1>1. PICK n \in {0, 1} :
          /\ \A i \in 1 .. Len(sbox') : Reported(k, i)' =>
               i + n \in 1 .. Len(sbox) /\ sbox'[i] = sbox[i + n]
          /\ \A i \in 1 .. Len(sbox) : Reported(k, i) =>
               i - n \in 1 .. Len(sbox') /\ sbox'[i - n] = sbox[i]
    BY DEF ReportsKept
  <1>2. Len(sbox) \in Nat /\ Len(sbox') \in Nat
    BY RowsAreRows DEF SupervisorOK
  <1>3. ASSUME NEW i \in 1 .. Len(sbox'), Reported(k, i)',
               \A m \in 1 .. Len(sbox') : Reported(k, m)' => m <= i
        PROVE  sbox'[i].status \in Fitting(k)'
    <2>1. i + n \in 1 .. Len(sbox) /\ Reported(k, i + n) /\ sbox'[i] = sbox[i + n]
      BY <1>1, <1>3 DEF Reported
    <2>2. ASSUME NEW m \in 1 .. Len(sbox), Reported(k, m) PROVE m <= i + n
      <3>1. m - n \in 1 .. Len(sbox') /\ Reported(k, m - n)'
        BY <1>1, <2>2 DEF Reported
      <3>2. m - n <= i
        BY <1>3, <3>1
      <3> QED
        BY <1>2, <3>2
    <2>3. sbox[i + n].status \in Fitting(k)
      BY <2>1, <2>2 DEF RowIsRecorded
    <2> QED
      BY <2>1, <2>3, RowsAreRows DEF FittingKept
  <1>4. ASSUME \A i \in 1 .. Len(sbox') : ~Reported(k, i)'
        PROVE  RowOf(k)' \in Fitting(k)'
    <2>1. \A i \in 1 .. Len(sbox) : ~Reported(k, i)
      <3> SUFFICES ASSUME NEW i \in 1 .. Len(sbox), Reported(k, i) PROVE FALSE
        OBVIOUS
      <3>1. i - n \in 1 .. Len(sbox') /\ Reported(k, i - n)'
        BY <1>1 DEF Reported
      <3> QED
        BY <1>4, <3>1
    <2>2. RowOf(k) \in Fitting(k)
      BY <2>1 DEF RowIsRecorded
    <2>3. RowOf(k) \in Row /\ "absent" \in Fitting(k)'
      BY RowsAreRows DEF Fitting, Row
    <2> QED
      BY <2>2, <2>3 DEF FittingKept
  <1> QED
    BY <1>3, <1>4 DEF RowIsRecorded

(* The newest report speaks for all.                                       *)
LEMMA ReportedStory ==
  ASSUME SupervisorOK, SupervisorOK', NEW k \in Job, NEW s \in Status, Report(k, s),
         Recorded(k)' = s
  PROVE  RowIsRecorded(k)'
PROOF
  <1>1. PICK e \in Mail : e = [cmd |-> "JobStatusChanged", job |-> k, status |-> s]
    BY DEF Mail, Notice
  <1>2. /\ sbox' = Append(sbox, e) /\ e.status = s
        /\ e.cmd = "JobStatusChanged" /\ e.job = k
    BY <1>1 DEF Report
  <1>3. PICK l \in Nat : l = Len(sbox') /\ l \in 1 .. Len(sbox') /\ sbox'[l] = e
    <2>1. sbox \in Seq(Mail)
      BY DEF SupervisorOK
    <2> QED
      BY <1>2, <2>1
  <1>5. Reported(k, l)'
    BY <1>2, <1>3 DEF Reported
  <1>6. ASSUME NEW i \in 1 .. Len(sbox'), \A m \in 1 .. Len(sbox') : Reported(k, m)' => m <= i
        PROVE  i = l
    BY <1>3, <1>5, <1>6
  <1>7. s \in Fitting(k)'
    BY DEF Fitting, Row
  <1>8. ASSUME NEW i \in 1 .. Len(sbox'), \A m \in 1 .. Len(sbox') : Reported(k, m)' => m <= i
        PROVE  sbox'[i].status \in Fitting(k)'
    BY <1>2, <1>3, <1>6, <1>7, <1>8
  <1>9. ~ \A i \in 1 .. Len(sbox') : ~Reported(k, i)'
    BY <1>3, <1>5
  <1> QED
    BY <1>8, <1>9 DEF RowIsRecorded

LEMMA StartKept ==
  ASSUME NEW k \in Job, BoxKept(k)
  PROVE  Starting(k)' <=> Starting(k)
PROOF
  <1>1. PICK n \in {0, 1} :
          /\ \A i \in 1 .. Len(jbox'[k]) : jbox'[k][i] \in News =>
               i + n \in 1 .. Len(jbox[k]) /\ jbox'[k][i] = jbox[k][i + n]
          /\ \A i \in 1 .. Len(jbox[k]) : jbox[k][i] \in News =>
               i - n \in 1 .. Len(jbox'[k]) /\ jbox'[k][i - n] = jbox[k][i]
    BY DEF BoxKept
  <1> QED
    BY <1>1 DEF Starting, News

LEMMA NoNewsKept ==
  ASSUME NEW k \in Job, BoxKept(k), \A i \in 1 .. Len(jbox[k]) : jbox[k][i] \notin Status
  PROVE  \A i \in 1 .. Len(jbox'[k]) : jbox'[k][i] \notin Status
PROOF
  <1>1. PICK n \in {0, 1} :
          \A i \in 1 .. Len(jbox'[k]) : jbox'[k][i] \in News =>
               i + n \in 1 .. Len(jbox[k]) /\ jbox'[k][i] = jbox[k][i + n]
    BY DEF BoxKept
  <1> QED
    BY <1>1 DEF News

LEMMA NewsKept ==
  ASSUME JobsOK, JobsOK', NEW k \in Job, NEW s, BoxKept(k), news'[k] = news[k],
         Recorded(k)' = Recorded(k), NewsSays(k, s)
  PROVE  NewsSays(k, s)'
PROOF
  <1>1. PICK n \in {0, 1} :
          /\ \A i \in 1 .. Len(jbox'[k]) : jbox'[k][i] \in News =>
               i + n \in 1 .. Len(jbox[k]) /\ jbox'[k][i] = jbox[k][i + n]
          /\ \A i \in 1 .. Len(jbox[k]) : jbox[k][i] \in News =>
               i - n \in 1 .. Len(jbox'[k]) /\ jbox'[k][i - n] = jbox[k][i]
    BY DEF BoxKept
  <1>2. Len(jbox[k]) \in Nat /\ Len(jbox'[k]) \in Nat
    <2>1. jbox[k] \in Seq(JobMail) /\ jbox'[k] \in Seq(JobMail)
      BY DEF JobsOK
    <2> QED
      BY <2>1
  <1>3. ASSUME news[k] = <<>>, NEW i \in 1 .. Len(jbox'[k]), jbox'[k][i] \in Status,
               \A m \in 1 .. Len(jbox'[k]) : jbox'[k][m] \in Status => m <= i
        PROVE  jbox'[k][i] = s
    <2>1. i + n \in 1 .. Len(jbox[k]) /\ jbox'[k][i] = jbox[k][i + n]
      BY <1>1, <1>3 DEF News
    <2>2. ASSUME NEW m \in 1 .. Len(jbox[k]), jbox[k][m] \in Status PROVE m <= i + n
      <3>1. m - n \in 1 .. Len(jbox'[k]) /\ jbox'[k][m - n] \in Status
        BY <1>1, <2>2 DEF News
      <3>2. m - n <= i
        BY <1>3, <3>1
      <3> QED
        BY <1>2, <3>2
    <2> QED
      BY <1>3, <2>1, <2>2 DEF NewsSays
  <1>4. ASSUME news[k] = <<>>, \A i \in 1 .. Len(jbox'[k]) : jbox'[k][i] \notin Status
        PROVE  Recorded(k)' \in {s, "lost"}
    <2>1. \A i \in 1 .. Len(jbox[k]) : jbox[k][i] \notin Status
      BY <1>1, <1>4 DEF News
    <2> QED
      BY <1>4, <2>1 DEF NewsSays
  <1> QED
    BY <1>3, <1>4 DEF NewsSays

(* A job whose workflow is left alone, and that is told nothing new.       *)
LEMMA LaunchKept ==
  ASSUME NEW k \in Job, LaunchedByStart(k), BoxKept(k),
         flow'[k] = flow[k], wst'[k] = wst[k], news'[k] = news[k],
         UpToDate("status", k) => UpToDate("status", k)',
         job'[k].phase = "down" => job[k].phase = "down",
         job'[k].phase \in Live /\ ~job'[k].held /\ ~job'[k].stop =>
           job[k].phase \in Live /\ ~job[k].held /\ ~job[k].stop
  PROVE  LaunchedByStart(k)'
PROOF
  <1>1. Starting(k)' <=> Starting(k)
    BY StartKept
  <1>2. ASSUME Starting(k)
        PROVE  /\ flow[k].phase = "down" /\ UpToDate("status", k)
               /\ \A i \in 1 .. Len(jbox'[k]) : jbox'[k][i] \notin Status
    BY <1>2, NoNewsKept DEF LaunchedByStart
  <1> QED
    BY <1>1, <1>2 DEF LaunchedByStart

FlowKept(k) ==
  /\ MarkKept("flow", k)
  /\ flow'[k] = flow[k] /\ wst'[k] = wst[k] /\ news'[k] = news[k]
  /\ fbox[k] # <<>> => fbox'[k] # <<>> /\ Head(fbox'[k]) = Head(fbox[k])

LEMMA FlowKeptStory ==
  ASSUME JobsOK, JobsOK', NEW k \in Job, FlowIsRecorded(k), BoxKept(k), FlowKept(k),
         job'[k].held => job[k].held, Recorded(k)' = Recorded(k)
  PROVE  FlowIsRecorded(k)'
PROOF
  <1>1. \A s \in Status \cup {"Pending", ""} : NewsSays(k, s) => NewsSays(k, s)'
    BY NewsKept DEF FlowKept
  <1>2. FlowRecorded(k)' = FlowRecorded(k)
    BY DEF FlowRecorded, FlowRec, FlowKept, MarkKept
  <1>3. ASSUME NewsSays(k, FlowRecorded(k)) PROVE NewsSays(k, FlowRecorded(k))'
    <2>1. PICK s : s = FlowRecorded(k)
      OBVIOUS
    <2>2. NewsSays(k, s)'
      BY <1>3, <2>1, NewsKept DEF FlowKept
    <2> QED
      BY <1>2, <2>1, <2>2
  <1>4. NewsSays(k, "Running") => NewsSays(k, "Running")'
    BY <1>1 DEF Status
  <1> QED
    BY <1>2, <1>3, <1>4 DEF FlowIsRecorded, FlowKept

(* A step that changes nothing of what a job's story tells of.             *)
LEMMA KeptStory ==
  ASSUME TypeOK, TypeOK', NEW k \in Job, Story(k), ReportsKept(k), BoxKept(k), FlowKept(k),
         RowOf(k)' \in {RowOf(k), "absent"}, Recorded(k)' = Recorded(k),
         UpToDate("status", k) => UpToDate("status", k)',
         job'[k].held => job[k].held, job'[k].phase = "down" => job[k].phase = "down",
         job'[k].phase \in Live /\ ~job'[k].held /\ ~job'[k].stop =>
           job[k].phase \in Live /\ ~job[k].held /\ ~job[k].stop
  PROVE  Story(k)'
PROOF
  <1>1. Starting(k)' <=> Starting(k)
    BY StartKept
  <1>2. FittingKept(k)
    BY <1>1 DEF FittingKept, Fitting
  <1>3. RowIsRecorded(k)'
    BY <1>2, RowsKeptStory DEF Story, TypeOK
  <1>4. LaunchedByStart(k)'
    BY LaunchKept DEF Story, FlowKept
  <1>5. FlowIsRecorded(k)'
    BY FlowKeptStory DEF Story, TypeOK
  <1> QED
    BY <1>3, <1>4, <1>5 DEF Story

(* Of an id that was never submitted there is nothing to tell.             *)
LEMMA UnknownStory ==
  ASSUME SupervisorOK, NEW k \in Job, EffectsOK(k), HeldWhileUp(k), Unknown(k),
         wst[k] = "Pending", \A r \in Records : UpToDate(r, k)
  PROVE  Story(k)
PROOF
  <1>1. /\ job[k].phase = "down" /\ ~job[k].held /\ jbox[k] = <<>> /\ Len(jbox[k]) = 0
        /\ flow[k].phase = "down" /\ news[k] = <<>> /\ reg[k] = "absent"
    BY EmptySeq DEF EffectsOK, HeldWhileUp, Unknown, Live
  <1>2. ~Starting(k)
    BY <1>1 DEF Starting
  <1>3. RowOf(k) = "absent"
    <2>1. sup.row \in {<<>>} \cup (Job \X (Status \cup {"absent"}))
      BY DEF SupervisorOK
    <2>2. sup.row = <<>> \/ sup.row[1] # k
      BY <2>1 DEF Unknown
    <2> QED
      BY <1>1, <2>2 DEF RowOf, RowRec
  <1>4. \A i \in 1 .. Len(sbox) : ~Reported(k, i)
    BY DEF Unknown
  <1>5. RowIsRecorded(k)
    BY <1>3, <1>4 DEF RowIsRecorded, Fitting, Row
  <1>6. LaunchedByStart(k)
    BY <1>1, <1>2 DEF LaunchedByStart, Live, Records
  <1> QED
    BY <1>1, <1>5, <1>6 DEF Story, FlowIsRecorded

LEMMA SameReports ==
  ASSUME NEW k \in Job, sbox' = sbox
  PROVE  ReportsKept(k)
PROOF
  <1>1. /\ \A i \in 1 .. Len(sbox') : i + 0 \in 1 .. Len(sbox) /\ sbox'[i] = sbox[i + 0]
        /\ \A i \in 1 .. Len(sbox) : i - 0 \in 1 .. Len(sbox') /\ sbox'[i - 0] = sbox[i]
    OBVIOUS
  <1> QED
    BY <1>1 DEF ReportsKept

LEMMA TookReports ==
  ASSUME SupervisorOK, NEW k \in Job, NEW c, SupTakes(c), sbox' = Tail(sbox),
         c # "JobStatusChanged" \/ Head(sbox).job # k
  PROVE  ReportsKept(k)
PROOF
  <1>1. /\ sbox \in Seq(Mail) /\ sbox # <<>> /\ Head(sbox).cmd = c
    BY DEF SupervisorOK, SupTakes
  <1>2. /\ Head(sbox) = sbox[1] /\ Len(sbox) \in Nat /\ Len(sbox') = Len(sbox) - 1
        /\ \A i \in 1 .. Len(sbox') :
             i + 1 \in 1 .. Len(sbox) /\ sbox'[i] = sbox[i + 1]
    BY <1>1, Taken
  <1>3. ~Reported(k, 1)
    BY <1>1, <1>2 DEF Reported
  <1>4. ASSUME NEW i \in 1 .. Len(sbox), Reported(k, i)
        PROVE  i - 1 \in 1 .. Len(sbox') /\ sbox'[i - 1] = sbox[i]
    <2>1. i # 1
      BY <1>3, <1>4
    <2>2. i - 1 \in 1 .. Len(sbox') /\ (i - 1) + 1 = i
      BY <1>2, <2>1
    <2> QED
      BY <1>2, <2>2
  <1> QED
    BY <1>2, <1>4 DEF ReportsKept

LEMMA ToldReports ==
  ASSUME SupervisorOK, NEW k \in Job, NEW e \in Mail, sbox' = Append(sbox, e),
         e.cmd # "JobStatusChanged" \/ e.job # k
  PROVE  ReportsKept(k)
PROOF
  <1>1. /\ sbox \in Seq(Mail) /\ Len(sbox) \in Nat /\ Len(sbox') = Len(sbox) + 1
        /\ \A i \in 1 .. Len(sbox') :
              \/ i \in 1 .. Len(sbox) /\ sbox'[i] = sbox[i]
              \/ i = Len(sbox) + 1 /\ sbox'[i] = e
    BY DEF SupervisorOK
  <1>2. \A i \in 1 .. Len(sbox') : Reported(k, i)' =>
          i + 0 \in 1 .. Len(sbox) /\ sbox'[i] = sbox[i + 0]
    BY <1>1 DEF Reported
  <1>3. ASSUME NEW i \in 1 .. Len(sbox)
        PROVE  i - 0 \in 1 .. Len(sbox') /\ sbox'[i - 0] = sbox[i]
    BY <1>1
  <1> QED
    BY <1>2, <1>3 DEF ReportsKept

LEMMA SameBox ==
  ASSUME NEW k \in Job, jbox'[k] = jbox[k]
  PROVE  BoxKept(k)
PROOF
  <1>1. /\ \A i \in 1 .. Len(jbox'[k]) :
             i + 0 \in 1 .. Len(jbox[k]) /\ jbox'[k][i] = jbox[k][i + 0]
        /\ \A i \in 1 .. Len(jbox[k]) :
             i - 0 \in 1 .. Len(jbox'[k]) /\ jbox'[k][i - 0] = jbox[k][i]
    OBVIOUS
  <1> QED
    BY <1>1 DEF BoxKept

LEMMA TookBox ==
  ASSUME JobsOK, NEW k \in Job, jbox[k] # <<>>, jbox'[k] = Tail(jbox[k]),
         Head(jbox[k]) \notin News
  PROVE  BoxKept(k)
PROOF
  <1>1. jbox[k] \in Seq(JobMail)
    BY DEF JobsOK
  <1>2. /\ Head(jbox[k]) = jbox[k][1] /\ Len(jbox[k]) \in Nat
        /\ Len(jbox'[k]) = Len(jbox[k]) - 1
        /\ \A i \in 1 .. Len(jbox'[k]) :
             i + 1 \in 1 .. Len(jbox[k]) /\ jbox'[k][i] = jbox[k][i + 1]
    BY <1>1, Taken
  <1>3. ASSUME NEW i \in 1 .. Len(jbox[k]), jbox[k][i] \in News
        PROVE  i - 1 \in 1 .. Len(jbox'[k]) /\ jbox'[k][i - 1] = jbox[k][i]
    <2>1. i # 1
      BY <1>2, <1>3
    <2>2. i - 1 \in 1 .. Len(jbox'[k]) /\ (i - 1) + 1 = i
      BY <1>2, <2>1
    <2> QED
      BY <1>2, <2>2
  <1> QED
    BY <1>2, <1>3 DEF BoxKept

LEMMA ToldBox ==
  ASSUME JobsOK, NEW k \in Job, NEW c \in JobMail \ News, jbox'[k] = ToJob(k, c)
  PROVE  BoxKept(k)
PROOF
  <1>1. CASE jbox'[k] = jbox[k]
    BY <1>1, SameBox
  <1>2. CASE jbox'[k] = Append(jbox[k], c)
    <2>1. jbox[k] \in Seq(JobMail)
      BY DEF JobsOK
    <2>2. /\ Len(jbox[k]) \in Nat /\ Len(jbox'[k]) = Len(jbox[k]) + 1
          /\ \A i \in 1 .. Len(jbox'[k]) :
                \/ i \in 1 .. Len(jbox[k]) /\ jbox'[k][i] = jbox[k][i]
                \/ i = Len(jbox[k]) + 1 /\ jbox'[k][i] = c
      BY <1>2, <2>1
    <2>3. \A i \in 1 .. Len(jbox'[k]) : jbox'[k][i] \in News =>
            i + 0 \in 1 .. Len(jbox[k]) /\ jbox'[k][i] = jbox[k][i + 0]
      BY <2>2
    <2>4. ASSUME NEW i \in 1 .. Len(jbox[k])
          PROVE  i - 0 \in 1 .. Len(jbox'[k]) /\ jbox'[k][i - 0] = jbox[k][i]
      BY <2>2
    <2> QED
      BY <2>3, <2>4 DEF BoxKept
  <1> QED
    BY <1>1, <1>2 DEF ToJob

(* The mail between clients and supervisor and its rows, jobs left alone.  *)
LEMMA MailStory ==
  ASSUME Core, Core', NEW k \in Job, Story(k), ReportsKept(k), BoxKept(k),
         RowOf(k)' \in {RowOf(k), "absent"}, job'[k] = job[k],
         UNCHANGED <<jst, wst, flow, fbox, news>>,
         UNCHANGED stale \/ (MarkKept("status", k) /\ MarkKept("flow", k))
  PROVE  Story(k)'
PROOF
  <1>0. MarkKept("status", k) /\ MarkKept("flow", k)
    BY DEF MarkKept, UpToDate
  <1>1. Recorded(k)' = Recorded(k)
    BY <1>0 DEF Recorded, JobRec, MarkKept
  <1>2. FlowKept(k)
    BY <1>0 DEF FlowKept
  <1> QED
    BY <1>0, <1>1, <1>2, KeptStory DEF Core, MarkKept

-----------------------------------------------------------------------------
(* The supervisor serves.                                                  *)

LEMMA SameRow ==
  ASSUME NEW k \in Job, reg'[k] = reg[k], MarkKept("row", k), sup'.row = sup.row
  PROVE  RowOf(k)' \in {RowOf(k), "absent"}
  BY DEF RowOf, RowRec, MarkKept

LEMMA SameMarks ==
  ASSUME UNCHANGED stale, NEW k \in Job
  PROVE  \A r : MarkKept(r, k)
  BY DEF MarkKept, UpToDate

LEMMA SubmitStory ==
  ASSUME Core, Core', NEW k \in Job, Story(k), Submit
  PROVE  Story(k)'
PROOF
  <1>1. /\ sbox[1] \in Mail /\ Head(sbox) = sbox[1] /\ sbox[1].cmd = "Submit"
        /\ 1 \in 1 .. Len(sbox) /\ sup.row = <<>>
        /\ \A i \in 1 .. Len(sbox') : i + 1 \in 1 .. Len(sbox) /\ sbox'[i] = sbox[i + 1]
    BY SupTaken DEF Submit, Core, TypeOK
  <1>2. PICK j \in Job : j = Head(sbox).job
    BY <1>1 DEF Mail, Request, Notice
  <1>3. /\ job' = [job EXCEPT ![j] = [NoJob EXCEPT !.phase = "starting"]]
        /\ jbox' = [jbox EXCEPT ![j] = <<"Start">>] /\ sup'.row = <<j, "Running">>
        /\ UNCHANGED <<reg, jst, wst, stale, flow, fbox, news>>
        /\ SupTakes("Submit") /\ sbox' = Tail(sbox)
    <2>1. sup' = [sup EXCEPT !.phase = "persisting", !.row = <<j, "Running">>]
      BY <1>2 DEF Submit, PersistsRow
    <2>2. sup'.row = <<j, "Running">>
      BY <2>1 DEF Core, TypeOK, SupervisorOK
    <2> QED
      BY <1>2, <2>2 DEF Submit, journals, flows
  <1>4. job \in [Job -> JobRecord] /\ jbox \in [Job -> Seq(JobMail)]
    BY DEF Core, TypeOK, JobsOK, JobRecord
  <1>5. CASE k # j
    <2>1. ReportsKept(k)
      BY <1>3, TookReports DEF Core, TypeOK
    <2>2. job'[k] = job[k] /\ jbox'[k] = jbox[k]
      BY <1>3, <1>4, <1>5
    <2>3. RowOf(k)' \in {RowOf(k), "absent"}
      BY <1>1, <1>3, <1>5 DEF RowOf, RowRec, UpToDate
    <2> QED
      BY <1>3, <2>1, <2>2, <2>3, SameBox, MailStory
  <1>6. CASE k = j
    <2>1. Unknown(k)
      BY <1>1, <1>2, <1>6 DEF Core, JobInv, SubmittedOnce, Submits
    <2>2. \A i \in 1 .. Len(sbox') : ~Reported(k, i)'
      BY <1>1, <2>1 DEF Unknown, Reported
    <2>3. /\ job'[k] = [NoJob EXCEPT !.phase = "starting"] /\ jbox'[k] = <<"Start">>
      BY <1>3, <1>4, <1>6
    <2>4. /\ ~job'[k].held /\ Len(jbox'[k]) = 1 /\ jbox'[k][1] = "Start"
      BY <2>3, StartSeq DEF NoJob
    <2>5. Starting(k)' /\ \A i \in 1 .. Len(jbox'[k]) : jbox'[k][i] \notin Status
      BY <2>4 DEF Starting, Status, Terminal
    <2>6. RowOf(k)' = "Running"
      BY <1>3, <1>6 DEF RowOf, RowRec, UpToDate
    <2>7. RowIsRecorded(k)'
      BY <2>2, <2>5, <2>6 DEF RowIsRecorded, Fitting, Row, Status
    <2>8. flow[k].phase = "down" /\ wst[k] = "Pending" /\ news[k] = <<>> /\ UpToDate("status", k)
      BY <2>1 DEF Unknown, Story, LaunchedByStart
    <2>9. LaunchedByStart(k)'
      BY <1>3, <2>5, <2>8 DEF LaunchedByStart, UpToDate
    <2> QED
      BY <2>4, <2>7, <2>9 DEF Story, FlowIsRecorded
  <1> QED
    BY <1>5, <1>6

LEMMA PassOnStory ==
  ASSUME Core, Core', NEW k \in Job, Story(k), PassOn \/ SupSubscribe
  PROVE  Story(k)'
PROOF
  <1>1. PICK c \in {"Stop", "Resume", "Subscribe"} :
          /\ SupTakes(c) /\ sbox' = Tail(sbox) /\ c = Head(sbox).cmd
          /\ \/ jbox' = jbox
             \/ jbox' = [jbox EXCEPT ![Head(sbox).job] = ToJob(Head(sbox).job, c)]
    <2>1. CASE PassOn
      BY <2>1 DEF PassOn, SupTakes
    <2>2. CASE SupSubscribe
      BY <2>2 DEF SupSubscribe, SupTakes
    <2> QED
      BY <2>1, <2>2
  <1>2. UNCHANGED <<reg, jst, wst, stale, sup, job, flow, fbox, news>>
    BY DEF PassOn, SupSubscribe, journals, flows
  <1>3. c \in JobMail \ News
    BY DEF JobMail, News, Status, Terminal
  <1>4. jbox'[k] = jbox[k] \/ jbox'[k] = ToJob(k, c)
    <2>1. jbox \in [Job -> Seq(JobMail)]
      BY DEF Core, TypeOK, JobsOK
    <2>2. PICK j : j = Head(sbox).job
      OBVIOUS
    <2>3. jbox' = jbox \/ jbox' = [jbox EXCEPT ![j] = ToJob(j, c)]
      BY <1>1, <2>2
    <2>4. CASE j = k
      BY <2>1, <2>3, <2>4
    <2>5. CASE j # k
      BY <2>1, <2>3, <2>5
    <2> QED
      BY <2>4, <2>5
  <1>5. BoxKept(k)
    BY <1>3, <1>4, SameBox, ToldBox DEF Core, TypeOK
  <1>6. ReportsKept(k)
    BY <1>1, TookReports DEF Core, TypeOK
  <1> QED
    BY <1>2, <1>5, <1>6, SameRow, SameMarks, MailStory

LEMMA RemoveStory ==
  ASSUME Core, Core', NEW k \in Job, Story(k), Remove
  PROVE  Story(k)'
PROOF
  <1>1. SupTakes("Remove") /\ sbox' = Tail(sbox) /\ sup.row = <<>>
    BY SupTaken DEF Remove, Core, TypeOK
  <1>2. UNCHANGED <<reg, jst, wst, stale, job, jbox, flow, fbox, news>>
    BY DEF Remove, journals, jobs, flows
  <1>3. RowOf(k)' \in {RowOf(k), "absent"}
    <2>1. \/ sup' = sup
          \/ sup' = [sup EXCEPT !.phase = "persisting", !.row = <<Head(sbox).job, "absent">>]
      BY DEF Remove, PersistsRow
    <2>2. sup' = sup \/ sup'.row = <<Head(sbox).job, "absent">>
      BY <2>1 DEF Core, TypeOK, SupervisorOK
    <2> QED
      BY <1>1, <1>2, <2>2 DEF RowOf, RowRec, UpToDate
  <1>4. ReportsKept(k)
    BY <1>1, TookReports DEF Core, TypeOK
  <1> QED
    BY <1>2, <1>3, <1>4, SameBox, MailStory

(* A report that is taken is the row of its job; no other job's matters.   *)
LEMMA StatusChangedStory ==
  ASSUME Core, Core', NEW k \in Job, Story(k), StatusChanged
  PROVE  Story(k)'
PROOF
  <1>1. /\ SupTakes("JobStatusChanged") /\ sbox' = Tail(sbox) /\ sup.row = <<>>
        /\ Head(sbox) = sbox[1] /\ sbox[1].cmd = "JobStatusChanged" /\ 1 \in 1 .. Len(sbox)
        /\ \A i \in 1 .. Len(sbox') : i + 1 \in 1 .. Len(sbox) /\ sbox'[i] = sbox[i + 1]
    BY SupTaken DEF StatusChanged, Core, TypeOK
  <1>2. UNCHANGED <<reg, jst, wst, stale, job, jbox, flow, fbox, news>>
    BY DEF StatusChanged, journals, jobs, flows
  <1>3. sup'.row = <<sbox[1].job, sbox[1].status>>
    <2>1. sup' = [sup EXCEPT !.phase = "persisting", !.row = <<sbox[1].job, sbox[1].status>>]
      BY <1>1 DEF StatusChanged, PersistsRow
    <2> QED
      BY <2>1 DEF Core, TypeOK, SupervisorOK
  <1>4. CASE sbox[1].job # k
    <2>1. ReportsKept(k)
      BY <1>1, <1>4, TookReports DEF Core, TypeOK
    <2>2. RowOf(k)' \in {RowOf(k), "absent"}
      BY <1>1, <1>2, <1>3, <1>4 DEF RowOf, RowRec, UpToDate
    <2> QED
      BY <1>2, <2>1, <2>2, SameBox, MailStory
  <1>5. CASE sbox[1].job = k
    <2>1. Fitting(k)' = Fitting(k)
      BY <1>2 DEF Fitting, Recorded, JobRec, Starting, UpToDate
    <2>2. RowOf(k)' = sbox[1].status
      BY <1>3, <1>5 DEF RowOf, RowRec, UpToDate
    <2>3. Reported(k, 1)
      BY <1>1, <1>5 DEF Reported
    <2>4. Len(sbox) \in Nat /\ Len(sbox') = Len(sbox) - 1
      <3>1. sbox \in Seq(Mail) /\ sbox # <<>>
        BY <1>1 DEF Core, TypeOK, SupervisorOK, SupTakes
      <3> QED
        BY <1>1, <3>1, Taken
    <2>5. ASSUME NEW i \in 1 .. Len(sbox'), Reported(k, i)',
                 \A m \in 1 .. Len(sbox') : Reported(k, m)' => m <= i
          PROVE  sbox'[i].status \in Fitting(k)'
      <3>1. i + 1 \in 1 .. Len(sbox) /\ Reported(k, i + 1) /\ sbox'[i] = sbox[i + 1]
        BY <1>1, <2>5 DEF Reported
      <3>2. ASSUME NEW m \in 1 .. Len(sbox), Reported(k, m), m # 1 PROVE m <= i + 1
        <4>1. m - 1 \in 1 .. Len(sbox') /\ (m - 1) + 1 = m
          BY <2>4, <3>2
        <4>2. Reported(k, m - 1)'
          BY <1>1, <3>2, <4>1 DEF Reported
        <4> QED
          BY <2>4, <2>5, <4>1, <4>2
      <3>3. \A m \in 1 .. Len(sbox) : Reported(k, m) => m <= i + 1
        BY <2>4, <3>1, <3>2
      <3> QED
        BY <2>1, <3>1, <3>3 DEF Story, RowIsRecorded
    <2>6. ASSUME \A i \in 1 .. Len(sbox') : ~Reported(k, i)'
          PROVE  sbox[1].status \in Fitting(k)'
      <3>1. ASSUME NEW m \in 1 .. Len(sbox), Reported(k, m) PROVE m <= 1
        <4> SUFFICES ASSUME m # 1 PROVE FALSE
          BY <2>4
        <4>1. m - 1 \in 1 .. Len(sbox') /\ (m - 1) + 1 = m
          BY <2>4
        <4>2. Reported(k, m - 1)'
          BY <1>1, <3>1, <4>1 DEF Reported
        <4> QED
          BY <2>6, <4>1, <4>2
      <3> QED
        BY <1>1, <2>1, <2>3, <3>1 DEF Story, RowIsRecorded
    <2>7. RowIsRecorded(k)'
      BY <2>2, <2>5, <2>6 DEF RowIsRecorded
    <2>8. LaunchedByStart(k)' /\ FlowIsRecorded(k)'
      BY <1>2 DEF Story, LaunchedByStart, FlowIsRecorded, NewsSays, FlowRecorded, FlowRec, UpToDate,
                  Recorded, JobRec, Starting, UpToDate
    <2> QED
      BY <2>7, <2>8 DEF Story
  <1> QED
    BY <1>4, <1>5

LEMMA SupPersistsStory ==
  ASSUME Core, Core', NEW k \in Job, Story(k), SupPersists \/ SupRefused
  PROVE  Story(k)'
PROOF
  <1>1. /\ UNCHANGED <<sbox, jst, wst, job, jbox, flow, fbox, news>>
        /\ sup'.row = <<>>
    BY RowIsWritten DEF SupPersists, SupRefused, flows
  <1>2. PICK j \in Job, s \in Row : sup.row = <<j, s>> /\ RowWritten(j, s)
    BY RowIsWritten DEF Row
  <1>3. reg \in [Job -> Row]
    BY DEF Core, TypeOK, SupervisorOK, Row
  <1>4. RowOf(k)' = RowRec(k)' /\ (j # k => RowOf(k) = RowRec(k)) /\ (j = k => RowOf(k) = s)
    BY <1>1, <1>2 DEF RowOf
  <1>5. (j # k => RowRec(k)' = RowRec(k)) /\ (j = k => RowRec(k)' \in {s, "absent"})
    <2>1. CASE j # k
      BY <1>2, <1>3, <2>1 DEF RowWritten, RowRec, UpToDate
    <2>2. CASE j = k
      BY <1>2, <1>3, <2>2 DEF RowWritten, RowRec, UpToDate
    <2> QED
      BY <2>1, <2>2
  <1>6. MarkKept("status", k) /\ MarkKept("flow", k)
    BY <1>2 DEF RowWritten, MarkKept, UpToDate
  <1> QED
    BY <1>1, <1>4, <1>5, <1>6, SameReports, SameBox, MailStory

LEMMA ShutdownStory ==
  ASSUME Core, Core', NEW k \in Job, Story(k), Shutdown
  PROVE  Story(k)'
PROOF
  <1>1. /\ UNCHANGED <<reg, jst, wst, stale, job, flow, fbox, news>>
        /\ SupTakes("Shutdown") /\ sbox' = Tail(sbox)
        /\ jbox'[k] = jbox[k] \/ jbox'[k] = ToJob(k, "Shutdown")
    BY DEF Shutdown, journals, flows
  <1>2. sup'.row = sup.row
    BY DEF Shutdown, Core, TypeOK, SupervisorOK
  <1>3. "Shutdown" \in JobMail \ News
    BY DEF JobMail, News, Status, Terminal
  <1>4. BoxKept(k)
    BY <1>1, <1>3, SameBox, ToldBox DEF Core, TypeOK
  <1>5. ReportsKept(k)
    BY <1>1, TookReports DEF Core, TypeOK
  <1> QED
    BY <1>1, <1>2, <1>4, <1>5, SameRow, SameMarks, MailStory

LEMMA ShutdownDoneStory ==
  ASSUME Core, Core', NEW k \in Job, Story(k), ShutdownDone
  PROVE  Story(k)'
PROOF
  <1>1. /\ UNCHANGED <<reg, jst, wst, stale, sbox, job, jbox, flow, fbox, news>>
    BY DEF ShutdownDone, journals, jobs, flows
  <1>2. sup'.row = sup.row
    BY DEF ShutdownDone, Core, TypeOK, SupervisorOK
  <1> QED
    BY <1>1, <1>2, SameRow, SameMarks, SameReports, SameBox, MailStory

LEMMA SupServesStory ==
  ASSUME Core, Core', NEW k \in Job, Story(k), SupServes
  PROVE  Story(k)'
PROOF
  <1>1. CASE SupStep
    BY <1>1, SubmitStory, PassOnStory, RemoveStory, StatusChangedStory,
       SupPersistsStory, ShutdownStory, ShutdownDoneStory DEF SupStep
  <1>2. CASE SupSubscribe
    BY <1>2, PassOnStory
  <1>3. CASE SupList
    <2>1. /\ UNCHANGED <<reg, jst, wst, stale, sup, job, jbox, flow, fbox, news>>
          /\ SupTakes("List") /\ sbox' = Tail(sbox)
      BY <1>3 DEF SupList, journals, jobs, flows
    <2>2. ReportsKept(k)
      BY <2>1, TookReports DEF Core, TypeOK
    <2> QED
      BY <2>1, <2>2, SameRow, SameMarks, SameBox, MailStory
  <1> QED
    BY <1>1, <1>2, <1>3 DEF SupServes, Alone

-----------------------------------------------------------------------------
(* The jobs serve.                                                         *)

(* The types of a workflow's mailbox.                                      *)
FlowMail == {"Start", "Resume", "Cancel"}
FlowBoxOK == fbox \in [Job -> Seq(FlowMail)]

(* What a job's actor does leaves the others' stories alone.               *)
LEMMA JobServesOthers ==
  ASSUME Core, FlowBoxOK, NEW j \in Job, NEW k \in Job \ {j}, JobServes(j)
  PROVE  /\ job'[k] = job[k] /\ jbox'[k] = jbox[k] /\ jst'[k] = jst[k]
         /\ flow'[k] = flow[k] /\ fbox'[k] = fbox[k] /\ news'[k] = news[k]
         /\ UNCHANGED <<reg, wst, sup>> /\ \A r : MarkKept(r, k)
         /\ sbox' = sbox \/ \E s \in Status : Report(j, s)
PROOF
  <1>0. UNCHANGED stale => \A r : MarkKept(r, k)
    BY SameMarks
  <1>1. /\ job \in [Job -> JobRecord] /\ jbox \in [Job -> Seq(JobMail)]
        /\ jst \in [Job -> Status \cup {"None"}] /\ news \in [Job -> Seq(Status)]
        /\ flow \in [Job -> FlowRecord] /\ fbox \in [Job -> Seq(FlowMail)]
    BY DEF Core, TypeOK, JobsOK, FlowsOK, FlowBoxOK, JobRecord, FlowRecord
  <1>2. \A kickoff : Launches(j, kickoff) =>
          flow'[k] = flow[k] /\ fbox'[k] = fbox[k] /\ news'[k] = news[k]
    BY <1>1 DEF Launches
  <1>3. LaunchFailed(j) =>
          /\ flow'[k] = flow[k] /\ fbox'[k] = fbox[k] /\ news'[k] = news[k]
          /\ job'[k] = job[k] /\ \E s \in Status : Report(j, s)
    BY <1>1 DEF LaunchFailed, JobPersists, flows, Status, Terminal
  <1>4. JobTook(j) => jbox'[k] = jbox[k]
    BY <1>1 DEF JobTook
  <1>5. CASE JobRecovers(j)
    BY <1>0, <1>1, <1>2, <1>5 DEF JobRecovers, journals, superv, flows
  <1>6. CASE JobStart(j)
    BY <1>0, <1>1, <1>2, <1>3, <1>4, <1>6 DEF JobStart, journals
  <1>7. CASE JobResume(j)
    BY <1>0, <1>1, <1>2, <1>3, <1>4, <1>7 DEF JobResume, journals
  <1>8. CASE JobStop(j)
    BY <1>0, <1>1, <1>4, <1>8 DEF JobStop, journals, superv
  <1>9. CASE JobShutdown(j)
    BY <1>0, <1>1, <1>9 DEF JobShutdown, journals, superv, flows
  <1>10. CASE OnWorkflowEvent(j)
    <2>1. PICK s \in Status : JobTakes(j, s)
      BY <1>10 DEF OnWorkflowEvent
    <2>2. Report(j, s)
      BY <1>10, <2>1 DEF OnWorkflowEvent, JobTakes
    <2> QED
      BY <1>0, <1>1, <1>4, <1>10, <2>2 DEF OnWorkflowEvent, journals, flows
  <1>11. CASE JobPersisted(j) \/ JobRefused(j)
    <2>1. /\ UNCHANGED <<reg, wst, sup, sbox, flow, fbox, news>> /\ JobGoesOn(j)
          /\ jst' \in {jst, [jst EXCEPT ![j] = job[j].eff]}
          /\ stale' \in {stale \ {<<"status", j>>}, stale \cup {<<"status", j>>}}
      BY <1>11 DEF JobPersisted, JobRefused, Refused, superv, flows
    <2>2. \A r : MarkKept(r, k)
      BY <2>1 DEF MarkKept, UpToDate
    <2>3. job'[k] = job[k] /\ jbox'[k] = jbox[k] /\ jst'[k] = jst[k]
      BY <1>1, <2>1 DEF JobGoesOn
    <2> QED
      BY <2>1, <2>2, <2>3
  <1>12. CASE Forward(j)
    BY <1>0, <1>1, <1>12 DEF Forward, journals, superv
  <1>13. CASE JobSubscribe(j)
    BY <1>0, <1>1, <1>4, <1>13 DEF JobSubscribe, journals, superv, flows
  <1> QED
    BY <1>5, <1>6, <1>7, <1>8, <1>9, <1>10, <1>11, <1>12, <1>13
    DEF JobServes, Alone, JobStep

LEMMA ReportOfOther ==
  ASSUME SupervisorOK, NEW k \in Job, NEW j \in Job \ {k},
         sbox' = sbox \/ \E s \in Status : Report(j, s)
  PROVE  ReportsKept(k)
PROOF
  <1>1. CASE sbox' = sbox
    BY <1>1, SameReports
  <1>2. ASSUME NEW s \in Status, Report(j, s) PROVE ReportsKept(k)
    <2>1. PICK e \in Mail : e = [cmd |-> "JobStatusChanged", job |-> j, status |-> s]
      BY DEF Mail, Notice
    <2>2. sbox' = Append(sbox, e) /\ e.job # k
      BY <1>2, <2>1 DEF Report
    <2> QED
      BY <2>2, ToldReports
  <1> QED
    BY <1>1, <1>2

LEMMA JobServesStoryOfOthers ==
  ASSUME Core, Core', FlowBoxOK, NEW j \in Job, NEW k \in Job \ {j}, JobServes(j), Story(k)
  PROVE  Story(k)'
PROOF
  <1>1. /\ job'[k] = job[k] /\ jbox'[k] = jbox[k] /\ jst'[k] = jst[k]
        /\ flow'[k] = flow[k] /\ fbox'[k] = fbox[k] /\ news'[k] = news[k]
        /\ UNCHANGED <<reg, wst, sup>>
        /\ sbox' = sbox \/ \E s \in Status : Report(j, s)
    BY JobServesOthers
  <1>0. MarkKept("row", k) /\ MarkKept("status", k) /\ MarkKept("flow", k)
    BY JobServesOthers
  <1>2. ReportsKept(k)
    BY <1>1, ReportOfOther DEF Core, TypeOK
  <1>3. FlowKept(k)
    BY <1>0, <1>1 DEF FlowKept
  <1>4. Recorded(k)' = Recorded(k)
    BY <1>0, <1>1 DEF Recorded, JobRec, MarkKept
  <1> QED
    BY <1>0, <1>1, <1>2, <1>3, <1>4, SameBox, SameRow, KeptStory DEF Core, MarkKept

(* A job that takes something else than its Start has taken that.          *)
LEMMA StartedStory ==
  ASSUME Core, NEW j \in Job, NEW c, JobTakes(j, c), JobTook(j), c # "Start", Story(j)
  PROVE  /\ ~Starting(j) /\ job[j].held /\ job[j].phase = "ready" /\ ~job[j].stop
         /\ jbox[j] # <<>> /\ jbox'[j] = Tail(jbox[j]) /\ Head(jbox[j]) = c
         /\ c \notin Status => BoxKept(j)
PROOF
  <1>1. /\ jbox \in [Job -> Seq(JobMail)] /\ jbox[j] \in Seq(JobMail) /\ jbox[j] # <<>>
        /\ Head(jbox[j]) = c /\ job[j].phase = "ready"
    BY DEF Core, TypeOK, JobsOK, JobTakes
  <1>2. Head(jbox[j]) = jbox[j][1]
    BY <1>1, Taken
  <1>3. ~Starting(j)
    BY <1>1, <1>2 DEF Starting, Core, JobInv, StartsFirst
  <1>4. jbox'[j] = Tail(jbox[j])
    BY <1>1 DEF JobTook
  <1>5. ~job[j].stop
    BY <1>1 DEF Core, JobInv, HeldWhileUp
  <1>6. job \in [Job -> JobRecord]
    BY DEF Core, TypeOK, JobsOK, JobRecord
  <1>7. job[j].held
    BY <1>1, <1>3, <1>5, <1>6 DEF Story, LaunchedByStart, Live, JobRecord
  <1>8. c \notin Status => BoxKept(j)
    BY <1>1, <1>4, TookBox DEF News, Core, TypeOK
  <1> QED
    BY <1>1, <1>3, <1>4, <1>5, <1>7, <1>8

(* A job that takes a request passes it on at most.                        *)
LEMMA JobPassesStory ==
  ASSUME Core, Core', NEW j \in Job, NEW c, JobTakes(j, c), JobTook(j), c # "Start",
         c \notin Status, Story(j), UNCHANGED <<reg, jst, wst, stale, sup, sbox, job, flow, news>>,
         fbox[j] # <<>> => fbox'[j] # <<>> /\ Head(fbox'[j]) = Head(fbox[j])
  PROVE  Story(j)'
PROOF
  <1>1. BoxKept(j)
    BY StartedStory
  <1>2. Recorded(j)' = Recorded(j)
    BY DEF Recorded, JobRec, UpToDate
  <1>3. FlowKept(j) /\ MarkKept("row", j) /\ MarkKept("status", j)
    BY SameMarks DEF FlowKept
  <1> QED
    BY <1>1, <1>2, <1>3, SameReports, SameRow, KeptStory DEF Core, MarkKept

LEMMA ToldFlow ==
  ASSUME FlowBoxOK, NEW j \in Job, NEW c \in FlowMail, fbox' = [fbox EXCEPT ![j] = ToFlow(j, c)]
  PROVE  fbox[j] # <<>> => fbox'[j] # <<>> /\ Head(fbox'[j]) = Head(fbox[j])
PROOF
  <1>1. fbox \in [Job -> Seq(FlowMail)] /\ fbox[j] \in Seq(FlowMail)
    BY DEF FlowBoxOK
  <1>2. fbox'[j] = fbox[j] \/ fbox'[j] = Append(fbox[j], c)
    BY <1>1 DEF ToFlow
  <1> QED
    BY <1>1, <1>2

LEMMA JobResumeStory ==
  ASSUME Core, Core', FlowBoxOK, NEW j \in Job, Story(j), JobResume(j)
  PROVE  Story(j)'
PROOF
  <1>1. JobTakes(j, "Resume") /\ JobTook(j) /\ "Resume" \notin Status /\ "Resume" # "Start"
    BY DEF JobResume, Status, Terminal
  <1>2. job[j].held
    BY <1>1, StartedStory
  <1>3. /\ fbox' = [fbox EXCEPT ![j] = ToFlow(j, "Resume")]
        /\ UNCHANGED <<reg, jst, wst, stale, sup, sbox, job, flow, news>>
    BY <1>2 DEF JobResume, journals
  <1> QED
    BY <1>1, <1>3, ToldFlow, JobPassesStory DEF FlowMail

LEMMA JobStopStory ==
  ASSUME Core, Core', FlowBoxOK, NEW j \in Job, Story(j), JobStop(j)
  PROVE  Story(j)'
PROOF
  <1>1. JobTakes(j, "Stop") /\ JobTook(j) /\ "Stop" \notin Status /\ "Stop" # "Start"
    BY DEF JobStop, Status, Terminal
  <1>2. /\ fbox' = [fbox EXCEPT ![j] = ToFlow(j, "Cancel")] \/ fbox' = fbox
        /\ UNCHANGED <<reg, jst, wst, stale, sup, sbox, job, flow, news>>
    BY DEF JobStop, journals, superv
  <1> QED
    BY <1>1, <1>2, ToldFlow, JobPassesStory DEF FlowMail

LEMMA JobSubscribeStory ==
  ASSUME Core, Core', NEW j \in Job, Story(j), JobSubscribe(j)
  PROVE  Story(j)'
PROOF
  <1>1. /\ JobTakes(j, "Subscribe") /\ JobTook(j) /\ "Subscribe" \notin Status
        /\ "Subscribe" # "Start"
    BY DEF JobSubscribe, Status, Terminal
  <1>2. UNCHANGED <<reg, jst, wst, stale, sup, sbox, job, flow, fbox, news>>
    BY DEF JobSubscribe, journals, superv, flows
  <1> QED
    BY <1>1, <1>2, JobPassesStory

LEMMA JobShutdownStory ==
  ASSUME Core, Core', NEW j \in Job, Story(j), JobShutdown(j)
  PROVE  Story(j)'
PROOF
  <1>1. /\ jbox \in [Job -> Seq(JobMail)] /\ jbox[j] \in Seq(JobMail) /\ jbox[j] # <<>>
        /\ Head(jbox[j]) = "Shutdown" /\ job[j].phase = "ready"
    BY DEF Core, TypeOK, JobsOK, JobTakes, JobShutdown
  <1>2. Head(jbox[j]) = jbox[j][1]
    BY <1>1, Taken
  <1>3. ~Starting(j)
    BY <1>1, <1>2 DEF Starting, Core, JobInv, StartsFirst
  <1>4. /\ UNCHANGED <<reg, jst, wst, stale, sup, sbox, flow, fbox, news>>
        /\ job' = [job EXCEPT ![j] = [NoJob EXCEPT !.phase = "ended"]]
        /\ jbox' = [jbox EXCEPT ![j] = <<>>]
    BY DEF JobShutdown, journals, superv, flows
  <1>5. job'[j] = [NoJob EXCEPT !.phase = "ended"] /\ jbox'[j] = <<>> /\ Len(jbox'[j]) = 0
    BY <1>1, <1>4, EmptySeq DEF Core, TypeOK, JobsOK
  <1>6. job'[j].phase = "ended" /\ ~job'[j].held
    BY <1>5 DEF NoJob
  <1>7. Recorded(j)' = Recorded(j)
    BY <1>1, <1>4, <1>6 DEF Recorded, JobRec, UpToDate
  <1>8. ~Starting(j)' /\ FittingKept(j)
    BY <1>3, <1>5, <1>7 DEF Starting, FittingKept, Fitting
  <1>9. RowIsRecorded(j)'
    BY <1>4, <1>8, SameReports, SameRow, SameMarks, RowsKeptStory DEF Story, Core, TypeOK
  <1> QED
    BY <1>4, <1>6, <1>8, <1>9 DEF Story, LaunchedByStart, FlowIsRecorded, Live

(* Recovery finds a job that was never started, and launches nothing.      *)
LEMMA JobRecoversStory ==
  ASSUME Core, Core', NEW j \in Job, Story(j), JobRecovers(j)
  PROVE  Story(j)'
PROOF
  <1>1. job[j].phase = "starting" /\ ~job[j].held /\ ~job[j].stop
    BY DEF JobRecovers, Core, JobInv, HeldWhileUp
  <1>2. Starting(j)
    BY <1>1 DEF Story, LaunchedByStart, Live
  <1>3. jst[j] = "None"
    BY <1>2 DEF Starting, Core, JobInv, StartsFirst
  <1>4. /\ job' = [job EXCEPT ![j].phase = "ready"]
        /\ UNCHANGED <<reg, jst, wst, stale, sup, sbox, jbox, flow, fbox, news>>
    BY <1>3 DEF JobRecovers, journals, superv, flows
  <1>5. job'[j].phase = "ready" /\ job'[j].held = job[j].held /\ job'[j].stop = job[j].stop
    <2>1. job \in [Job -> JobRecord]
      BY DEF Core, TypeOK, JobsOK, JobRecord
    <2> QED
      BY <1>4, <2>1 DEF JobRecord
  <1>6. Recorded(j)' = Recorded(j)
    BY <1>1, <1>4, <1>5 DEF Recorded, JobRec, UpToDate
  <1>7. FlowKept(j) /\ MarkKept("row", j) /\ MarkKept("status", j)
    BY <1>4, SameMarks DEF FlowKept
  <1> QED
    BY <1>1, <1>4, <1>5, <1>6, <1>7, SameReports, SameRow, SameBox, KeptStory
    DEF Core, Live, MarkKept

LEMMA JobStartStory ==
  ASSUME Core, Core', FlowBoxOK, NEW j \in Job, Story(j), JobStart(j)
  PROVE  Story(j)'
PROOF
  <1>1. /\ jbox'[j] \in Seq(JobMail) /\ ~job[j].held /\ jst[j] = "None"
        /\ job[j].phase = "ready" /\ ~job[j].stop
        /\ \A i \in 1 .. Len(jbox'[j]) : jbox'[j][i] # "Start"
    BY JobTaken DEF JobStart
  <1>2. Starting(j)
    BY <1>1 DEF Story, LaunchedByStart, Live
  <1>3. ~Starting(j)'
    BY <1>1 DEF Starting
  <1>4. /\ flow[j].phase = "down" /\ wst[j] = "Pending" /\ news[j] = <<>>
        /\ UpToDate("status", j)
        /\ \A i \in 1 .. Len(jbox[j]) : jbox[j][i] \notin Status
    BY <1>2 DEF Story, LaunchedByStart
  <1>5. \A i \in 1 .. Len(jbox'[j]) : jbox'[j][i] \notin Status
    <2>1. jbox \in [Job -> Seq(JobMail)] /\ jbox[j] \in Seq(JobMail) /\ jbox[j] # <<>>
      BY DEF Core, TypeOK, JobsOK, JobStart, JobTakes
    <2>2. jbox'[j] = Tail(jbox[j])
      BY <2>1 DEF JobStart, JobTook
    <2> QED
      BY <1>4, <2>1, <2>2, Taken
  <1>6. UNCHANGED <<reg, jst, wst, stale, sup>>
    BY DEF JobStart, journals
  <1>7. job \in [Job -> JobRecord] /\ flow \in [Job -> FlowRecord]
    BY DEF Core, TypeOK, JobsOK, FlowsOK, JobRecord, FlowRecord
  <1>8. CASE /\ Launches(j, <<"Start">>) /\ UNCHANGED sbox
             /\ job' = [job EXCEPT ![j].phase = "persisting", ![j].eff = "Running",
                                   ![j].held = TRUE]
    <2>1. job'[j].phase = "persisting" /\ job'[j].eff = "Running" /\ job'[j].held
      BY <1>7, <1>8 DEF JobRecord
    <2>2. flow'[j] = [NoFlow EXCEPT !.phase = "ready", !.driven = wst[j] = "Running",
                                    !.alive = flow[j].alive + 1]
      BY <1>7, <1>8 DEF Launches
    <2>3. flow'[j].phase = "ready" /\ ~flow'[j].driven
      BY <1>4, <2>2 DEF NoFlow
    <2>4. fbox'[j] = <<"Start">> /\ news'[j] = <<>>
      <3>1. /\ fbox' = [fbox EXCEPT ![j] = <<"Start">>] /\ news' = [news EXCEPT ![j] = <<>>]
        BY <1>8 DEF Launches
      <3>2. fbox \in [Job -> Seq(FlowMail)] /\ news \in [Job -> Seq(Status)]
        BY DEF FlowBoxOK, Core, TypeOK, FlowsOK
      <3> QED
        BY <3>1, <3>2
    <2>5. Recorded(j)' = "Running"
      BY <2>1 DEF Recorded, JobRec, UpToDate
    <2>6. FittingKept(j)
      <3>1. Recorded(j) = "None"
        BY <1>1, <1>4 DEF Recorded, JobRec
      <3> QED
        BY <2>5, <3>1 DEF FittingKept, Fitting, Row, Status, Terminal
    <2>7. RowIsRecorded(j)'
      BY <1>6, <1>8, <2>6, SameReports, SameRow, SameMarks, RowsKeptStory DEF Story, Core, TypeOK
    <2>8. LaunchedByStart(j)'
      BY <1>3, <2>1, <2>3 DEF LaunchedByStart
    <2>9. NewsSays(j, "Running")'
      BY <1>5, <2>4, <2>5 DEF NewsSays
    <2>10. Head(fbox'[j]) = "Start" /\ fbox'[j] # <<>>
      BY <2>4
    <2>11. FlowIsRecorded(j)'
      BY <1>4, <1>6, <2>3, <2>9, <2>10 DEF FlowIsRecorded
    <2> QED
      BY <2>7, <2>8, <2>11 DEF Story
  <1>9. CASE LaunchFailed(j)
    <2>1. /\ Report(j, "Failed") /\ UNCHANGED <<flow, news>> /\ "Failed" \in Status
          /\ job' = [job EXCEPT ![j].phase = "persisting", ![j].eff = "Failed",
                                ![j].stop = TRUE]
      BY <1>9 DEF LaunchFailed, JobPersists, flows, Status, Terminal
    <2>2. /\ job'[j].phase = "persisting" /\ job'[j].eff = "Failed"
          /\ job'[j].stop /\ ~job'[j].held
      BY <1>1, <1>7, <2>1 DEF JobRecord
    <2>3. RowIsRecorded(j)'
      BY <2>1, <2>2, ReportedStory DEF Recorded, JobRec, Core, TypeOK, UpToDate
    <2>4. LaunchedByStart(j)'
      BY <1>3, <1>4, <1>6, <2>1, <2>2 DEF LaunchedByStart
    <2> QED
      BY <2>2, <2>3, <2>4 DEF Story, FlowIsRecorded
  <1> QED
    BY <1>8, <1>9 DEF JobStart

(* A notification becomes report and record at once.                       *)
LEMMA OnWorkflowEventStory ==
  ASSUME Core, Core', NEW j \in Job, Story(j), OnWorkflowEvent(j)
  PROVE  Story(j)'
PROOF
  <1>1. PICK s \in Status : JobTakes(j, s)
    BY DEF OnWorkflowEvent
  <1>2. JobTook(j) /\ s # "Start" /\ s = Head(jbox[j])
    BY <1>1 DEF OnWorkflowEvent, JobTakes, Status, Terminal
  <1>3. /\ ~Starting(j) /\ job[j].held /\ job[j].phase = "ready" /\ ~job[j].stop
        /\ jbox[j] # <<>> /\ jbox'[j] = Tail(jbox[j])
    BY <1>1, <1>2, StartedStory
  <1>4. /\ Report(j, s) /\ UNCHANGED <<reg, jst, wst, stale, sup, flow, fbox, news>>
        /\ job' = [job EXCEPT ![j].phase = "persisting", ![j].eff = s,
                              ![j].stop = s \in Terminal, ![j].held = @ /\ s \notin Terminal]
    BY <1>2 DEF OnWorkflowEvent, journals, flows
  <1>5. job \in [Job -> JobRecord]
    BY DEF Core, TypeOK, JobsOK, JobRecord
  <1>6. /\ job'[j].phase = "persisting" /\ job'[j].eff = s
        /\ job'[j].stop = (s \in Terminal) /\ job'[j].held = (s \notin Terminal)
    BY <1>3, <1>4, <1>5 DEF JobRecord
  <1>7. Recorded(j)' = s
    BY <1>6 DEF Recorded, JobRec, UpToDate
  <1>8. RowIsRecorded(j)'
    BY <1>4, <1>7, ReportedStory DEF Core, TypeOK
  <1>9. /\ jbox[j] \in Seq(JobMail) /\ jbox[j][1] = s /\ Len(jbox[j]) \in Nat
        /\ 1 \in 1 .. Len(jbox[j]) /\ Len(jbox'[j]) = Len(jbox[j]) - 1
        /\ \A i \in 1 .. Len(jbox'[j]) : i + 1 \in 1 .. Len(jbox[j]) /\ jbox'[j][i] = jbox[j][i + 1]
    <2>1. jbox[j] \in Seq(JobMail)
      BY DEF Core, TypeOK, JobsOK
    <2> QED
      BY <1>2, <1>3, <2>1, Taken
  <1>10. ~Starting(j)'
    BY <1>3, <1>9 DEF Starting
  <1>11. LaunchedByStart(j)'
    BY <1>4, <1>6, <1>10 DEF LaunchedByStart, Story
  <1>12. ASSUME NEW m \in 2 .. Len(jbox[j]), NEW i \in 1 .. Len(jbox'[j]), jbox[j][m] \in Status,
                \A l \in 1 .. Len(jbox'[j]) : jbox'[j][l] \in Status => l <= i
         PROVE  m <= i + 1
    <2>1. m - 1 \in 1 .. Len(jbox'[j]) /\ (m - 1) + 1 = m
      BY <1>9
    <2>2. m - 1 <= i
      BY <1>9, <1>12, <2>1
    <2> QED
      BY <2>2
  <1>13. ASSUME NEW x, NewsSays(j, x) PROVE NewsSays(j, x)'
    <2>1. ASSUME news[j] = <<>>, NEW i \in 1 .. Len(jbox'[j]), jbox'[j][i] \in Status,
                 \A l \in 1 .. Len(jbox'[j]) : jbox'[j][l] \in Status => l <= i
          PROVE  jbox'[j][i] = x
      <3>1. i + 1 \in 1 .. Len(jbox[j]) /\ jbox[j][i + 1] = jbox'[j][i]
        BY <1>9
      <3>2. \A m \in 1 .. Len(jbox[j]) : jbox[j][m] \in Status => m <= i + 1
        BY <1>9, <1>12, <2>1
      <3> QED
        BY <1>13, <2>1, <3>1, <3>2 DEF NewsSays
    <2>2. ASSUME news[j] = <<>>, \A i \in 1 .. Len(jbox'[j]) : jbox'[j][i] \notin Status
          PROVE  s = x
      <3>1. ASSUME NEW m \in 1 .. Len(jbox[j]), jbox[j][m] \in Status PROVE m <= 1
        <4> SUFFICES ASSUME m # 1 PROVE FALSE
          BY <1>9
        <4>1. m - 1 \in 1 .. Len(jbox'[j]) /\ (m - 1) + 1 = m
          BY <1>9
        <4> QED
          BY <1>9, <2>2, <3>1, <4>1
      <3> QED
        BY <1>9, <1>13, <2>2, <3>1 DEF NewsSays
    <2> QED
      BY <1>4, <1>7, <1>13, <2>1, <2>2 DEF NewsSays
  <1>14. FlowRecorded(j)' = FlowRecorded(j)
    BY <1>4 DEF FlowRecorded, FlowRec, UpToDate
  <1>15. NewsSays(j, FlowRecorded(j)) => NewsSays(j, FlowRecorded(j))'
    <2>1. PICK x : x = FlowRecorded(j)
      OBVIOUS
    <2> QED
      BY <1>13, <1>14, <2>1
  <1>16. FlowIsRecorded(j)'
    BY <1>3, <1>4, <1>13, <1>14, <1>15 DEF FlowIsRecorded, Story
  <1> QED
    BY <1>8, <1>11, <1>16 DEF Story

(* What is recorded is what was to be, or the write was refused.           *)
LEMMA JobPersistedStory ==
  ASSUME Core, Core', NEW j \in Job, Story(j), JobPersisted(j) \/ JobRefused(j)
  PROVE  Story(j)'
PROOF
  <1>1. /\ job[j].phase = "persisting" /\ JobGoesOn(j)
        /\ UNCHANGED <<reg, wst, sup, sbox, flow, fbox, news>>
    BY DEF JobPersisted, JobRefused, Refused, superv, flows
  <1>2. ~Starting(j)
    BY <1>1 DEF Starting, Core, JobInv, StartsFirst
  <1>3. JobRec(j)' \in {Recorded(j), "lost"}
    <2>1. CASE JobPersisted(j)
      BY <1>1, <2>1 DEF JobPersisted, JobRec, UpToDate, Recorded, Core, TypeOK, JobsOK
    <2>2. CASE JobRefused(j)
      BY <2>2 DEF JobRefused, Refused, JobRec, UpToDate
    <2> QED
      BY <2>1, <2>2
  <1>4. job \in [Job -> JobRecord] /\ jbox \in [Job -> Seq(JobMail)]
    BY DEF Core, TypeOK, JobsOK, JobRecord
  <1>5. /\ \A r \in {"row", "flow"} : MarkKept(r, j)
    <2>1. stale' \in {stale \ {<<"status", j>>}, stale \cup {<<"status", j>>}}
      BY DEF JobPersisted, JobRefused, Refused
    <2> QED
      BY <2>1 DEF MarkKept, UpToDate
  <1>6. CASE job[j].stop
    <2>1. /\ job' = [job EXCEPT ![j] = [NoJob EXCEPT !.phase = "ended"]]
          /\ jbox' = [jbox EXCEPT ![j] = <<>>]
      BY <1>1, <1>6 DEF JobGoesOn
    <2>2. job'[j] = [NoJob EXCEPT !.phase = "ended"] /\ jbox'[j] = <<>> /\ Len(jbox'[j]) = 0
      BY <1>4, <2>1, EmptySeq
    <2>3. job'[j].phase = "ended" /\ ~job'[j].held
      BY <2>2 DEF NoJob
    <2>4. Recorded(j)' \in {Recorded(j), "lost"}
      BY <1>3, <2>3 DEF Recorded
    <2>5. ~Starting(j)'
      BY <2>2 DEF Starting
    <2>6. FittingKept(j)
      BY <1>2, <2>4, <2>5 DEF FittingKept, Fitting
    <2>7. RowIsRecorded(j)'
      BY <1>1, <1>5, <2>6, SameReports, SameRow, RowsKeptStory DEF Story, Core, TypeOK
    <2> QED
      BY <1>1, <2>3, <2>5, <2>7 DEF Story, LaunchedByStart, FlowIsRecorded, Live
  <1>7. CASE ~job[j].stop
    <2>1. job' = [job EXCEPT ![j].phase = "ready", ![j].eff = ""] /\ jbox' = jbox
      BY <1>1, <1>7 DEF JobGoesOn
    <2>2. /\ job'[j].phase = "ready" /\ job'[j].held = job[j].held
          /\ job'[j].stop = job[j].stop
      BY <1>4, <2>1 DEF JobRecord
    <2>3. Recorded(j)' \in {Recorded(j), "lost"}
      BY <1>3, <2>2 DEF Recorded
    <2>4. ~Starting(j)'
      BY <1>2, <2>1 DEF Starting
    <2>5. FittingKept(j)
      BY <1>2, <2>3, <2>4 DEF FittingKept, Fitting
    <2>6. RowIsRecorded(j)'
      BY <1>1, <1>5, <2>5, SameReports, SameRow, RowsKeptStory DEF Story, Core, TypeOK
    <2>7. LaunchedByStart(j)'
      BY <1>1, <1>2, <2>2, <2>4 DEF Story, LaunchedByStart, Live
    <2>8. FlowRecorded(j)' = FlowRecorded(j)
      BY <1>1, <1>5 DEF FlowRecorded, FlowRec, MarkKept
    <2>9. ASSUME NEW x, NewsSays(j, x) PROVE NewsSays(j, x)'
      BY <1>1, <2>1, <2>3, <2>9 DEF NewsSays
    <2>10. NewsSays(j, FlowRecorded(j)) => NewsSays(j, FlowRecorded(j))'
      <3>1. PICK x : x = FlowRecorded(j)
        OBVIOUS
      <3> QED
        BY <2>8, <2>9, <3>1
    <2>11. FlowIsRecorded(j)'
      BY <1>1, <2>2, <2>8, <2>9, <2>10 DEF Story, FlowIsRecorded
    <2> QED
      BY <2>6, <2>7, <2>11 DEF Story
  <1> QED
    BY <1>6, <1>7

(* The forwarder carries the newest notification over as the last.         *)
LEMMA ForwardStory ==
  ASSUME Core, Core', NEW j \in Job, Story(j), Forward(j)
  PROVE  Story(j)'
PROOF
  <1>1. /\ news[j] # <<>> /\ UNCHANGED <<reg, jst, wst, stale, sup, sbox, job, flow, fbox>>
        /\ jbox' = [jbox EXCEPT ![j] = ToJob(j, Head(news[j]))]
        /\ news' = [news EXCEPT ![j] = Tail(@)]
    BY DEF Forward, journals, superv
  <1>2. /\ news \in [Job -> Seq(Status)] /\ jbox \in [Job -> Seq(JobMail)]
        /\ news[j] \in Seq(Status) /\ jbox[j] \in Seq(JobMail)
    BY DEF Core, TypeOK, JobsOK, FlowsOK
  <1>3. PICK c \in Status : c = Head(news[j]) /\ c = news[j][1] /\ Len(news[j]) \in Nat \ {0}
    BY <1>1, <1>2, Taken
  <1>4. /\ news'[j] = Tail(news[j]) /\ Len(news'[j]) = Len(news[j]) - 1
        /\ \A i \in 1 .. Len(news'[j]) : news'[j][i] = news[j][i + 1]
        /\ news'[j] \in Seq(Status)
    BY <1>1, <1>2, Taken
  <1>5. jbox'[j] = IF job[j].phase \in Live THEN Append(jbox[j], c) ELSE jbox[j]
    BY <1>1, <1>2, <1>3 DEF ToJob
  <1>6. flow[j].phase # "down" /\ ~Starting(j)
    BY <1>1 DEF Story, LaunchedByStart
  <1>7. c # "Start"
    BY <1>3 DEF Status, Terminal
  <1>8. ~Starting(j)'
    BY <1>2, <1>5, <1>6, <1>7 DEF Starting
  <1>9. Recorded(j)' = Recorded(j) /\ FlowRecorded(j)' = FlowRecorded(j)
    BY <1>1 DEF Recorded, JobRec, FlowRecorded, FlowRec, UpToDate
  <1>10. FittingKept(j)
    BY <1>6, <1>8, <1>9 DEF FittingKept, Fitting
  <1>11. RowIsRecorded(j)'
    BY <1>1, <1>10, SameReports, SameRow, SameMarks, RowsKeptStory DEF Story, Core, TypeOK
  <1>12. LaunchedByStart(j)'
    BY <1>1, <1>6, <1>8 DEF Story, LaunchedByStart, UpToDate
  <1>13. ASSUME NEW x, NewsSays(j, x), job[j].held PROVE NewsSays(j, x)'
    <2>1. job[j].phase \in Live
      BY <1>13 DEF Core, JobInv, HeldWhileUp, Live
    <2>2. CASE Len(news[j]) # 1
      <3>1. news'[j] # <<>> /\ Len(news'[j]) \in 1 .. Len(news'[j])
        <4>1. Len(news'[j]) \in Nat \ {0}
          BY <1>3, <1>4, <2>2
        <4> QED
          BY <4>1, EmptySeq
      <3>2. news'[j][Len(news'[j])] = news[j][Len(news[j])]
        BY <1>3, <1>4, <3>1
      <3> QED
        BY <1>1, <1>13, <3>1, <3>2 DEF NewsSays
    <2>3. CASE Len(news[j]) = 1
      <3>1. news'[j] = <<>> /\ x = c
        BY <1>1, <1>3, <1>4, <1>13, <2>3, EmptySeq DEF NewsSays
      <3>2. /\ Len(jbox[j]) \in Nat /\ Len(jbox'[j]) = Len(jbox[j]) + 1
            /\ jbox'[j][Len(jbox[j]) + 1] = c
        BY <1>2, <1>5, <2>1
      <3>3. ASSUME NEW i \in 1 .. Len(jbox'[j]), jbox'[j][i] \in Status,
                   \A l \in 1 .. Len(jbox'[j]) : jbox'[j][l] \in Status => l <= i
            PROVE  jbox'[j][i] = x
        <4>1. Len(jbox[j]) + 1 <= i
          BY <1>3, <3>2, <3>3
        <4> QED
          BY <3>1, <3>2, <3>3, <4>1
      <3>4. ~ \A i \in 1 .. Len(jbox'[j]) : jbox'[j][i] \notin Status
        BY <1>3, <3>2
      <3> QED
        BY <3>1, <3>3, <3>4 DEF NewsSays
    <2> QED
      BY <2>2, <2>3
  <1>14. job[j].held /\ NewsSays(j, FlowRecorded(j)) => NewsSays(j, FlowRecorded(j))'
    <2>1. PICK x : x = FlowRecorded(j)
      OBVIOUS
    <2> QED
      BY <1>9, <1>13, <2>1
  <1>15. FlowIsRecorded(j)'
    BY <1>1, <1>9, <1>13, <1>14 DEF FlowIsRecorded, Story
  <1> QED
    BY <1>11, <1>12, <1>15 DEF Story

LEMMA JobServesStory ==
  ASSUME Core, Core', FlowBoxOK, NEW j \in Job, NEW k \in Job, JobServes(j), Story(k)
  PROVE  Story(k)'
PROOF
  <1>1. CASE k = j
    BY <1>1, JobRecoversStory, JobStartStory, JobResumeStory, JobStopStory,
       JobShutdownStory, OnWorkflowEventStory, JobPersistedStory, ForwardStory,
       JobSubscribeStory DEF JobServes, Alone, JobStep
  <1>2. CASE k # j
    BY <1>2, JobServesStoryOfOthers
  <1> QED
    BY <1>1, <1>2

-----------------------------------------------------------------------------
(* The workflows act, and the clients ask.                                 *)

(* A workflow whose actor acts is not the one a Start is still to launch.  *)
LEMMA FlowActsStory ==
  ASSUME Core, Core', NEW j \in Job, Story(j),
         UNCHANGED <<reg, jst, sup, sbox, job, jbox>>,
         MarkKept("row", j), MarkKept("status", j),
         flow[j].phase # "down", flow'[j].phase # "down",
         flow'[j].phase = "persisting" /\ flow'[j].stop => flow'[j].eff \in Terminal,
         FlowIsRecorded(j)'
  PROVE  Story(j)'
PROOF
  <1>1. ~Starting(j) /\ ~Starting(j)' /\ Recorded(j)' = Recorded(j)
    BY DEF Story, LaunchedByStart, Starting, Recorded, JobRec, MarkKept
  <1>2. RowIsRecorded(j)'
    <2>1. FittingKept(j)
      BY <1>1 DEF FittingKept, Fitting
    <2> QED
      BY <2>1, SameReports, SameRow, RowsKeptStory DEF Story, Core, TypeOK
  <1>3. LaunchedByStart(j)'
    BY <1>1 DEF Story, LaunchedByStart, MarkKept
  <1> QED
    BY <1>2, <1>3 DEF Story

LEMMA Notified ==
  ASSUME FlowsOK, NEW j \in Job, NEW s \in Status, Notify(j, s)
  PROVE  NewsSays(j, s)'
PROOF
  <1>1. news \in [Job -> Seq(Status)] /\ news[j] \in Seq(Status)
    BY DEF FlowsOK
  <1>2. news'[j] = Append(news[j], s)
    BY <1>1 DEF Notify
  <1>3. news'[j] # <<>> /\ news'[j][Len(news'[j])] = s
    BY <1>1, <1>2
  <1> QED
    BY <1>3 DEF NewsSays

LEMMA FlowPersistsStory ==
  ASSUME Core, Core', NEW j \in Job, Story(j), NEW s \in Status, NEW d \in BOOLEAN,
         UNCHANGED <<reg, jst, stale, sup, sbox, job, jbox>>, flow[j].phase # "down",
         FlowPersists(j, s, d), Notify(j, s) \/ (s = "Running" /\ d)
  PROVE  Story(j)'
PROOF
  <1>1. flow \in [Job -> FlowRecord]
    BY DEF Core, TypeOK, FlowsOK, FlowRecord
  <1>2. /\ flow'[j].phase = "persisting" /\ flow'[j].eff = s
        /\ flow'[j].stop = (s \in Terminal) /\ flow'[j].driven = d
    BY <1>1 DEF FlowPersists, FlowRecord
  <1>3. Notify(j, s) => NewsSays(j, s)'
    BY Notified DEF Core, TypeOK
  <1>4. FlowRecorded(j)' = s
    BY <1>2 DEF FlowRecorded, FlowRec, UpToDate
  <1>5. NewsSays(j, s)' => NewsSays(j, FlowRecorded(j))'
    BY <1>4 DEF NewsSays
  <1>6. FlowIsRecorded(j)'
    BY <1>2, <1>3, <1>4, <1>5 DEF FlowIsRecorded
  <1> QED
    BY <1>2, <1>6, SameMarks, FlowActsStory

LEMMA SameNews ==
  ASSUME NEW j \in Job, UNCHANGED <<jst, job, jbox, news>>, MarkKept("status", j),
         NEW s, NewsSays(j, s)
  PROVE  NewsSays(j, s)'
PROOF
  <1>1. Recorded(j)' = Recorded(j)
    BY DEF Recorded, JobRec, MarkKept
  <1> QED
    BY <1>1 DEF NewsSays

LEMMA FlowResumeStory ==
  ASSUME Core, Core', NEW j \in Job, Story(j), FlowResume(j)
  PROVE  Story(j)'
PROOF
  <1>1. /\ flow[j].phase = "ready" /\ Head(fbox[j]) = "Resume"
        /\ UNCHANGED <<reg, jst, wst, stale, sup, sbox, job, jbox>>
    BY DEF FlowResume, FlowTakes, journals, superv, jobs
  <1>2. flow \in [Job -> FlowRecord]
    BY DEF Core, TypeOK, FlowsOK, FlowRecord
  <1>3. CASE ProviderLoss
    <2>1. CASE flow' = [flow EXCEPT ![j].driven = TRUE] \/ UNCHANGED flow
      <3>1. flow'[j].phase = "ready"
        BY <1>1, <1>2, <2>1 DEF FlowRecord
      <3> QED
        BY <1>1, <1>3, <3>1, SameMarks, FlowActsStory DEF FlowIsRecorded
    <2>2. CASE FlowPersists(j, "Failed", FALSE)
      <3>1. flow'[j].phase = "persisting" /\ flow'[j].eff = "Failed"
        BY <1>2, <2>2 DEF FlowPersists, FlowRecord
      <3> QED
        BY <1>1, <1>3, <3>1, SameMarks, FlowActsStory DEF FlowIsRecorded, Terminal
    <2> QED
      BY <2>1, <2>2 DEF FlowResume
  <1>4. CASE ~ProviderLoss
    <2>1. /\ news' = news /\ flow'[j].phase = "ready" /\ (flow[j].driven => flow'[j].driven)
      <3>1. CASE flow' = [flow EXCEPT ![j].driven = TRUE] /\ UNCHANGED news
        BY <1>1, <1>2, <3>1 DEF FlowRecord
      <3>2. CASE UNCHANGED <<flow, news>>
        BY <1>1, <3>2
      <3> QED
        BY <1>4, <3>1, <3>2 DEF FlowResume
    <2>2. FlowRecorded(j) = FlowRec(j) /\ FlowRecorded(j)' = FlowRec(j)
      BY <1>1, <2>1 DEF FlowRecorded, FlowRec, UpToDate
    <2>3. NewsSays(j, FlowRec(j)) => NewsSays(j, FlowRecorded(j))'
      <3>1. PICK x : x = FlowRec(j)
        OBVIOUS
      <3> QED
        BY <1>1, <2>1, <2>2, <3>1, SameMarks, SameNews
    <2>4. FlowIsRecorded(j)'
      BY <1>1, <2>1, <2>2, <2>3 DEF Story, FlowIsRecorded
    <2> QED
      BY <1>1, <2>1, <2>4, SameMarks, FlowActsStory
  <1> QED
    BY <1>3, <1>4

LEMMA FlowMovesStory ==
  ASSUME Core, Core', NEW j \in Job, Story(j), FlowMoves(j)
  PROVE  Story(j)'
PROOF
  <1>1. /\ flow[j].phase = "ready" /\ flow[j].driven
        /\ UNCHANGED <<reg, jst, wst, stale, sup, sbox, job, jbox>>
    BY DEF FlowMoves, journals, superv, jobs
  <1>2. CASE \E s \in Status \ {"Running"} : FlowPersists(j, s, FALSE) /\ Notify(j, s)
    BY <1>1, <1>2, FlowPersistsStory
  <1>3. CASE FlowPersists(j, "Running", TRUE) /\ UNCHANGED news
    BY <1>1, <1>3, FlowPersistsStory DEF Status
  <1>4. CASE /\ wst[j] = "Suspended" \/ ~UpToDate("flow", j)
             /\ flow' = [flow EXCEPT ![j].driven = FALSE]
             /\ UNCHANGED news
    <2>1. flow \in [Job -> FlowRecord]
      BY DEF Core, TypeOK, FlowsOK, FlowRecord
    <2>2. flow'[j].phase = "ready"
      BY <1>1, <1>4, <2>1 DEF FlowRecord
    <2>3. PICK x \in {"Suspended", "lost"} : FlowRecorded(j) = x /\ FlowRecorded(j)' = x
      BY <1>1, <1>4, <2>2 DEF FlowRecorded, FlowRec, UpToDate
    <2>4. NewsSays(j, x) => NewsSays(j, FlowRecorded(j))'
      BY <1>1, <1>4, <2>3, SameMarks, SameNews
    <2>5. FlowIsRecorded(j)'
      BY <1>1, <2>2, <2>3, <2>4 DEF Story, FlowIsRecorded
    <2> QED
      BY <1>1, <2>2, <2>5, SameMarks, FlowActsStory
  <1> QED
    BY <1>2, <1>3, <1>4 DEF FlowMoves, UpToDate

LEMMA FlowPersistedStory ==
  ASSUME Core, Core', NEW j \in Job, Story(j), FlowPersisted(j) \/ FlowRefused(j)
  PROVE  Story(j)'
PROOF
  <1>1. /\ flow[j].phase = "persisting" /\ UNCHANGED <<reg, jst, sup, sbox, job, jbox, news>>
        /\ MarkKept("row", j) /\ MarkKept("status", j)
    BY DEF FlowPersisted, FlowRefused, Refused, superv, jobs, MarkKept, UpToDate
  <1>2. PICK x : x = flow[j].eff
    OBVIOUS
  <1>3. FlowRecorded(j) = x /\ (flow[j].stop => x # "Running")
    BY <1>1, <1>2 DEF FlowRecorded, Story, LaunchedByStart, Terminal
  <1>4. PICK d \in BOOLEAN : /\ FlowGoesOn(j, d)
                             /\ FlowPersisted(j) => d = flow[j].driven
    <2>1. flow[j].driven \in BOOLEAN
      BY DEF Core, TypeOK, FlowsOK
    <2> QED
      BY <2>1 DEF FlowPersisted, FlowRefused
  <1>5. FlowRec(j)' = IF FlowPersisted(j) THEN x ELSE "lost"
    <2>1. CASE FlowPersisted(j)
      BY <1>2, <2>1 DEF FlowPersisted, FlowRec, UpToDate, Core, TypeOK, FlowsOK
    <2>2. CASE ~FlowPersisted(j)
      BY <2>2 DEF FlowRefused, Refused, FlowRec, UpToDate
    <2> QED
      BY <2>1, <2>2
  <1>6. /\ flow'[j].phase \in {"ready", "ended"}
        /\ flow'[j].phase = "ready" => flow'[j].driven = d /\ ~flow[j].stop
        /\ flow'[j].phase = "ended" => flow[j].stop
    <2>1. flow \in [Job -> FlowRecord]
      BY DEF Core, TypeOK, FlowsOK, FlowRecord
    <2>2. CASE flow[j].stop
      <3>1. flow'[j] = [NoFlow EXCEPT !.phase = "ended", !.alive = flow[j].alive - 1]
        BY <1>4, <2>1, <2>2 DEF FlowGoesOn
      <3> QED
        BY <2>2, <3>1 DEF NoFlow
    <2>3. CASE ~flow[j].stop
      <3>1. flow'[j] = [flow[j] EXCEPT !.phase = "ready", !.eff = "", !.driven = d]
        BY <1>4, <2>1, <2>3 DEF FlowGoesOn
      <3>2. ASSUME NEW f \in FlowRecord,
                   NEW g, g = [f EXCEPT !.phase = "ready", !.eff = "", !.driven = d]
            PROVE  g.phase = "ready" /\ g.driven = d
        BY <3>2 DEF FlowRecord
      <3>3. flow[j] \in FlowRecord
        BY <2>1
      <3> QED
        BY <2>3, <3>1, <3>2, <3>3
    <2> QED
      BY <2>2, <2>3
  <1>7. FlowRecorded(j)' = IF FlowPersisted(j) THEN x ELSE "lost"
    BY <1>5, <1>6 DEF FlowRecorded
  <1>8. NewsSays(j, x) => NewsSays(j, x)'
    BY <1>1, SameNews
  <1>9. FlowIsRecorded(j)'
    <2>1. CASE FlowPersisted(j)
      <3>1. FlowRecorded(j)' = x /\ d = flow[j].driven
        BY <1>4, <1>7, <2>1
      <3>2. NewsSays(j, x) => NewsSays(j, FlowRecorded(j))'
        BY <1>8, <3>1
      <3> QED
        BY <1>1, <1>3, <1>6, <3>1, <3>2 DEF Story, FlowIsRecorded
    <2>2. CASE ~FlowPersisted(j)
      BY <1>1, <1>6, <1>7, <2>2 DEF FlowIsRecorded
    <2> QED
      BY <2>1, <2>2
  <1>10. flow[j].phase # "down" /\ flow'[j].phase # "down" /\ flow'[j].phase # "persisting"
    BY <1>1, <1>6
  <1> QED
    BY <1>1, <1>9, <1>10, FlowActsStory

LEMMA FlowStepStory ==
  ASSUME Core, Core', FlowBoxOK, NEW j \in Job, NEW k \in Job, FlowStep(j), Story(k)
  PROVE  Story(k)'
PROOF
  <1>1. UNCHANGED <<reg, jst, sup, sbox, job, jbox>> /\ flow[j].phase # "down"
    BY DEF FlowStep, FlowStart, FlowCancel, FlowResume, FlowMoves, FlowPersisted,
           FlowRefused, Refused, FlowTakes, journals, superv, jobs
  <1>0. /\ UNCHANGED stale \/ FlowPersisted(j) \/ FlowRefused(j)
        /\ stale' \in {stale, stale \ {<<"flow", j>>}, stale \cup {<<"flow", j>>}}
    BY DEF FlowStep, FlowStart, FlowCancel, FlowResume, FlowMoves, FlowPersisted,
           FlowRefused, Refused, journals
  <1>2. CASE k = j
    <2>1. CASE FlowStart(j)
      <3>1. \/ FlowPersists(j, "Running", TRUE)
            \/ FlowPersists(j, "Failed", FALSE) /\ Notify(j, "Failed")
        BY <2>1 DEF FlowStart
      <3> QED
        BY <1>1, <1>2, <2>1, <3>1, FlowPersistsStory DEF FlowStart, journals, Status, Terminal
    <2>2. CASE FlowCancel(j)
      <3>1. FlowPersists(j, "Suspended", flow[j].driven) /\ Notify(j, "Suspended")
        BY <2>2 DEF FlowCancel
      <3>2. flow[j].driven \in BOOLEAN /\ "Suspended" \in Status
        BY DEF Core, TypeOK, FlowsOK, Status
      <3> QED
        BY <1>1, <1>2, <2>2, <3>1, <3>2, FlowPersistsStory DEF FlowCancel, journals
    <2> QED
      BY <1>2, <2>1, <2>2, FlowResumeStory, FlowMovesStory, FlowPersistedStory DEF FlowStep
  <1>3. CASE k # j
    <2>1. /\ flow \in [Job -> FlowRecord] /\ fbox \in [Job -> Seq(FlowMail)]
          /\ news \in [Job -> Seq(Status)] /\ wst \in [Job -> Status \cup {"Pending"}]
      BY DEF Core, TypeOK, FlowsOK, FlowRecord, FlowBoxOK
    <2>2. \A s : Notify(j, s) => news'[k] = news[k]
      BY <1>3, <2>1 DEF Notify
    <2>3. \A s, d : FlowPersists(j, s, d) => flow'[k] = flow[k]
      BY <1>3, <2>1 DEF FlowPersists
    <2>4. FlowTook(j) => fbox'[k] = fbox[k]
      BY <1>3, <2>1 DEF FlowTook
    <2>0. \A r : MarkKept(r, k)
      BY <1>0, <1>3 DEF MarkKept, UpToDate
    <2>5. FlowKept(k)
      <3>1. CASE FlowStart(j)
        BY <2>0, <2>2, <2>3, <2>4, <3>1 DEF FlowStart, FlowKept, journals
      <3>2. CASE FlowCancel(j)
        BY <2>0, <2>2, <2>3, <2>4, <3>2 DEF FlowCancel, FlowKept, journals
      <3>3. CASE FlowResume(j)
        BY <1>3, <2>0, <2>1, <2>2, <2>3, <2>4, <3>3 DEF FlowResume, FlowKept, journals
      <3>4. CASE FlowMoves(j)
        BY <1>3, <2>0, <2>1, <2>2, <2>3, <3>4 DEF FlowMoves, FlowKept, journals
      <3>5. CASE FlowPersisted(j) \/ FlowRefused(j)
        <4>1. PICK d : FlowGoesOn(j, d)
          BY <3>5 DEF FlowPersisted, FlowRefused
        <4>2. flow'[k] = flow[k] /\ fbox'[k] = fbox[k]
          BY <1>3, <2>1, <4>1 DEF FlowGoesOn
        <4>3. wst'[k] = wst[k] /\ news'[k] = news[k]
          BY <1>3, <2>1, <3>5 DEF FlowPersisted, FlowRefused, Refused
        <4> QED
          BY <2>0, <4>2, <4>3 DEF FlowKept
      <3> QED
        BY <3>1, <3>2, <3>3, <3>4, <3>5 DEF FlowStep
    <2>6. Recorded(k)' = Recorded(k)
      BY <1>1, <2>0 DEF Recorded, JobRec, MarkKept
    <2> QED
      BY <1>1, <2>0, <2>5, <2>6, SameReports, SameRow, SameBox, KeptStory DEF Core, MarkKept
  <1> QED
    BY <1>2, <1>3

LEMMA FlowBoxKept ==
  ASSUME Core, FlowBoxOK, [AttachedNext]_allvars
  PROVE  FlowBoxOK'
PROOF
  <1>1. fbox \in [Job -> Seq(FlowMail)]
    BY DEF FlowBoxOK
  <1>2. /\ <<>> \in Seq(FlowMail) /\ <<"Start">> \in Seq(FlowMail)
        /\ <<"Resume">> \in Seq(FlowMail)
    BY EmptySeq DEF FlowMail
  <1>3. fbox' = fbox => FlowBoxOK'
    BY DEF FlowBoxOK
  <1>4. ASSUME NEW j \in Job, NEW s \in Seq(FlowMail), fbox' = [fbox EXCEPT ![j] = s]
        PROVE  FlowBoxOK'
    BY <1>1, <1>4 DEF FlowBoxOK
  <1>5. ASSUME NEW j \in Job,
               FlowTakes(j, "Start") \/ FlowTakes(j, "Cancel") \/ FlowTakes(j, "Resume"),
               FlowTook(j)
        PROVE  FlowBoxOK'
    <2>1. Tail(fbox[j]) \in Seq(FlowMail)
      BY <1>1, <1>5, Taken DEF FlowTakes
    <2> QED
      BY <1>4, <1>5, <2>1 DEF FlowTook
  <1>6. ASSUME NEW j \in Job, NEW c \in FlowMail PROVE ToFlow(j, c) \in Seq(FlowMail)
    <2>1. fbox[j] \in Seq(FlowMail)
      BY <1>1
    <2> QED
      BY <2>1, Added DEF ToFlow
  <1>7. CASE SupServes
    BY <1>3, <1>7 DEF SupServes, Alone, SupStep, Submit, PassOn, Remove, StatusChanged,
          SupPersists, SupRefused, Shutdown, ShutdownDone, SupSubscribe, SupList, flows
  <1>8. ASSUME NEW j \in Job, JobServes(j) PROVE FlowBoxOK'
    <2>1. ASSUME NEW kickoff \in Seq(FlowMail), Launches(j, kickoff) PROVE FlowBoxOK'
      BY <1>4, <2>1 DEF Launches
    <2>2. CASE JobRecovers(j)
      BY <1>2, <1>3, <2>1, <2>2 DEF JobRecovers, flows
    <2>3. CASE JobStart(j)
      BY <1>2, <1>3, <2>1, <2>3 DEF JobStart, LaunchFailed, flows
    <2>4. CASE JobResume(j)
      <3>1. "Resume" \in FlowMail
        BY DEF FlowMail
      <3> QED
        BY <1>2, <1>3, <1>4, <1>6, <2>1, <2>4, <3>1 DEF JobResume, LaunchFailed, flows
    <2>5. CASE JobStop(j)
      <3>1. "Cancel" \in FlowMail
        BY DEF FlowMail
      <3> QED
        BY <1>3, <1>4, <1>6, <2>5, <3>1 DEF JobStop
    <2>6. CASE \/ JobShutdown(j) \/ OnWorkflowEvent(j) \/ JobPersisted(j) \/ JobRefused(j)
               \/ Forward(j) \/ JobSubscribe(j)
      BY <1>3, <2>6 DEF JobShutdown, OnWorkflowEvent, JobPersisted, JobRefused, Forward,
            JobSubscribe, flows
    <2> QED
      BY <1>8, <2>2, <2>3, <2>4, <2>5, <2>6 DEF JobServes, Alone, JobStep
  <1>9. ASSUME NEW j \in Job, FlowStep(j) PROVE FlowBoxOK'
    <2>1. CASE FlowStart(j) \/ FlowCancel(j) \/ FlowResume(j)
      BY <1>5, <2>1 DEF FlowStart, FlowCancel, FlowResume
    <2>2. CASE FlowMoves(j)
      BY <1>3, <2>2 DEF FlowMoves
    <2>3. CASE FlowPersisted(j) \/ FlowRefused(j)
      BY <1>2, <1>3, <1>4, <2>3 DEF FlowPersisted, FlowRefused, FlowGoesOn
    <2> QED
      BY <1>9, <2>1, <2>2, <2>3 DEF FlowStep
  <1>10. ASSUME NEW j, ClientSubmits(j) PROVE FlowBoxOK'
    BY <1>3, <1>10 DEF ClientSubmits, flows
  <1>11. ASSUME NEW c, NEW j, ClientAsks(c, j) PROVE FlowBoxOK'
    BY <1>3, <1>11 DEF ClientAsks, flows
  <1>12. CASE Boot \/ ClientDrains \/ ClientShutsDown \/ RunStep \/ UNCHANGED allvars
    BY <1>3, <1>12 DEF Boot, ClientDrains, ClientShutsDown, RunStep, RunSubmitted,
          AskSubscription, NoSubscription, StreamEnds, AskList, NoDaemon, allvars, vars, flows
  <1>13. CASE Exit \/ Kill
    BY <1>2, <1>13 DEF Exit, Kill, Gone, FlowBoxOK
  <1> QED
    BY <1>7, <1>8, <1>9, <1>10, <1>11, <1>12, <1>13 DEF AttachedNext, Alone, RunSubmits

(* Clients add to the supervisor's mail, or to nothing.                    *)
LEMMA AskedStory ==
  ASSUME Core, Core', NEW k \in Job, Story(k),
         UNCHANGED <<reg, jst, wst, stale, sup, job, jbox, flow, fbox, news>>,
         \/ sbox' = sbox
         \/ \E e \in Mail : sbox' = Append(sbox, e) /\ e.cmd # "JobStatusChanged"
  PROVE  Story(k)'
PROOF
  <1>1. ReportsKept(k)
    BY SameReports, ToldReports DEF Core, TypeOK
  <1> QED
    BY <1>1, SameBox, SameRow, SameMarks, MailStory

LEMMA ClientsStory ==
  ASSUME Core, Core', Attached, NEW k \in Job, Story(k),
         \/ \E j \in Job : ClientSubmits(j)
         \/ \E c \in {"Stop", "Resume", "Remove"}, j \in Job : ClientAsks(c, j)
         \/ ClientDrains \/ ClientShutsDown \/ RunSubmits \/ RunStep \/ UNCHANGED allvars
  PROVE  Story(k)'
PROOF
  <1>1. ASSUME NEW c \in {"Submit", "Stop", "Resume", "Remove", "Subscribe", "List"}, NEW j \in Job,
               sbox' = Append(sbox, [cmd |-> c, job |-> j]),
               UNCHANGED <<reg, jst, wst, stale, sup, job, jbox, flow, fbox, news>>
        PROVE  Story(k)'
    <2>1. PICK e \in Mail : e = [cmd |-> c, job |-> j]
      BY DEF Mail, Request
    <2>2. e.cmd # "JobStatusChanged"
      BY <2>1
    <2> QED
      BY <1>1, <2>1, <2>2, AskedStory
  <1>2. Mine \in Job
    BY DEF Attached, Mine
  <1>3. ASSUME NEW j \in Job, ClientSubmits(j) PROVE Story(k)'
    BY <1>1, <1>3 DEF ClientSubmits, journals, jobs, flows
  <1>4. ASSUME NEW c \in {"Stop", "Resume", "Remove"}, NEW j \in Job, ClientAsks(c, j)
        PROVE  Story(k)'
    BY <1>1, <1>4 DEF ClientAsks, journals, jobs, flows
  <1>5. CASE ClientShutsDown
    <2>1. PICK e \in Mail : e = [cmd |-> "Shutdown", job |-> "all"]
      BY DEF Mail
    <2>2. e.cmd # "JobStatusChanged"
      BY <2>1
    <2> QED
      BY <1>5, <2>1, <2>2, AskedStory DEF ClientShutsDown, journals, jobs, flows
  <1>6. CASE ClientDrains \/ UNCHANGED vars
    BY <1>6, AskedStory DEF ClientDrains, vars, journals, superv, jobs, flows
  <1>7. CASE AskSubscription \/ AskList
    BY <1>1, <1>2, <1>7 DEF AskSubscription, AskList, Tell, journals, jobs, flows
  <1>8. CASE RunSubmits
    BY <1>2, <1>3, <1>8 DEF RunSubmits
  <1> QED
    BY <1>3, <1>4, <1>5, <1>6, <1>7, <1>8
    DEF RunStep, RunSubmitted, NoSubscription, StreamEnds, NoDaemon, allvars

-----------------------------------------------------------------------------
(* The registry agrees.                                                    *)

(* No story is broken, and nothing was submitted before the first start.   *)
StoryInv ==
  /\ boots \in Nat /\ (boots = 0 => used = {} /\ ~Up)
  /\ FlowBoxOK
  /\ \A j \in Job : Unbroken(j) => Story(j)

(* What is neither a start nor an end of the daemon.                       *)
Serves ==
  \/ SupServes
  \/ \E j \in Job : JobServes(j) \/ Alone(FlowStep(j)) \/ Alone(ClientSubmits(j))
  \/ \E c \in {"Stop", "Resume", "Remove"}, j \in Job : Alone(ClientAsks(c, j))
  \/ Alone(ClientDrains) \/ Alone(ClientShutsDown)
  \/ RunSubmits \/ RunStep \/ UNCHANGED allvars

LEMMA EveryStep ==
  ASSUME [AttachedNext]_allvars
  PROVE  \/ At({"off", "idle"}) /\ Alone(Boot)
         \/ Serves
         \/ Gone /\ UNCHANGED boots
  BY DEF AttachedNext, Serves, Exit, Kill, Gone

LEMMA SupStepUp ==
  ASSUME SupServes
  PROVE  boots' = boots /\ used' = used /\ Up
  BY DEF SupServes, Alone, SupStep, Submit, PassOn, Remove, StatusChanged, SupPersists,
         SupRefused, Shutdown, ShutdownDone, SupSubscribe, SupList, SupTakes, outside, Up

LEMMA ActorStepUp ==
  ASSUME NEW j \in Job, JobServes(j) \/ FlowStep(j)
  PROVE  UNCHANGED <<boots, used, sup>>
  BY DEF JobServes, Alone, JobStep, JobRecovers, JobStart, JobResume, JobStop, JobShutdown,
         OnWorkflowEvent, JobPersisted, JobRefused, Forward, JobSubscribe, FlowStep, FlowStart,
         FlowCancel, FlowResume, FlowMoves, FlowPersisted, FlowRefused, superv, outside

LEMMA ServesInBetween ==
  ASSUME Serves
  PROVE  /\ boots' = boots /\ used \subseteq used' /\ (Up' => Up)
         /\ used' # used => Up
PROOF
  <1>1. CASE SupServes
    BY <1>1, SupStepUp
  <1>2. ASSUME NEW j \in Job, JobServes(j) \/ FlowStep(j)
        PROVE  UNCHANGED <<boots, used, sup>>
    BY <1>2, ActorStepUp
  <1>3. ASSUME NEW j, ClientSubmits(j)
        PROVE  boots' = boots /\ used \subseteq used' /\ Up
    BY <1>3 DEF ClientSubmits
  <1>4. CASE RunStep \/ UNCHANGED allvars
    BY <1>4 DEF RunStep, RunSubmitted, AskSubscription, NoSubscription, StreamEnds,
          AskList, NoDaemon, vars, allvars, outside, Up
  <1>5. ASSUME NEW c, NEW j, ClientAsks(c, j) PROVE UNCHANGED <<boots, used, sup>>
    BY <1>5 DEF ClientAsks
  <1>6. CASE ClientDrains \/ ClientShutsDown
    BY <1>6 DEF ClientDrains, ClientShutsDown, superv, Up
  <1> QED
    BY <1>1, <1>2, <1>3, <1>4, <1>5, <1>6 DEF Serves, Alone, RunSubmits, Up

LEMMA StaysOnItsWay ==
  ASSUME Attached, Serves, run'.at \in OnItsWay
  PROVE  run'.job = run.job /\ (run.at \in OnItsWay \/ run.job \notin used)
PROOF
  <1>1. \A place : Goes(place) => run'.at = place /\ run'.job = run.job
    BY DEF Goes, Attached
  <1>2. CASE UNCHANGED run
    BY <1>2
  <1>3. CASE SupList
    BY <1>3 DEF SupList, Attached, OnItsWay
  <1>4. ASSUME NEW j, JobSubscribe(j)
        PROVE  run'.job = run.job /\ run.at \in OnItsWay
    BY <1>4 DEF JobSubscribe, At, Attached, OnItsWay
  <1>5. CASE RunSubmits
    BY <1>1, <1>5 DEF RunSubmits, ClientSubmits, Mine
  <1>6. CASE RunStep
    BY <1>1, <1>6 DEF RunStep, RunSubmitted, AskSubscription, NoSubscription, StreamEnds,
          AskList, NoDaemon, At, OnItsWay
  <1> QED
    BY <1>2, <1>3, <1>4, <1>5, <1>6 DEF Serves, Alone, SupServes, SupSubscribe, JobServes, allvars

LEMMA WasUnbroken ==
  ASSUME Core, Attached, Serves, NEW k \in Job, Unbroken(k)'
  PROVE  Unbroken(k)
  BY ServesInBetween, StaysOnItsWay DEF Unbroken, At, Mine

LEMMA ServesStory ==
  ASSUME Core, Core', Attached, FlowBoxOK, Serves, NEW k \in Job, Story(k)
  PROVE  Story(k)'
  BY SupServesStory, JobServesStory, FlowStepStory, ClientsStory DEF Serves, Alone

(* Over a start or an end of the daemon nothing is told but of ids that    *)
(* were never submitted.                                                   *)
LEMMA NewStory ==
  ASSUME Core, Core', NEW k \in Job, Unbroken(k) => Story(k), k \notin used, k \notin used',
         wst' = wst, \A r \in Records : UpToDate(r, k)'
  PROVE  Story(k)'
PROOF
  <1>1. Unknown(k) /\ Unknown(k)'
    BY DEF Core, JobInv, SubmittedOnce
  <1>2. wst[k] = "Pending"
    BY <1>1 DEF Unbroken, Story, LaunchedByStart, Unknown
  <1>3. (wst[k] = "Pending")'
    BY <1>2
  <1>4. (/\ SupervisorOK /\ EffectsOK(k) /\ HeldWhileUp(k) /\ Unknown(k) /\ wst[k] = "Pending"
         /\ \A r \in Records : UpToDate(r, k))'
    BY <1>1, <1>3 DEF Core, TypeOK, JobInv
  <1> QED
    BY <1>4, UnknownStory, PTL

LEMMA NextStory ==
  ASSUME Core, Core', Attached, Attached', StoryInv, [AttachedNext]_allvars
  PROVE  StoryInv'
PROOF
  <1>1. FlowBoxOK'
    BY FlowBoxKept DEF StoryInv
  <1>2. CASE At({"off", "idle"}) /\ Alone(Boot)
    <2>1. boots' \in Nat /\ boots' # 0 /\ UNCHANGED <<wst, used, run>> /\ stale' = {}
      BY <1>2 DEF Boot, Alone, StoryInv, journals, Core, DownIsEmpty
    <2>2. boots = 0 => used' = {}
      BY <2>1 DEF StoryInv
    <2>3. ASSUME NEW k \in Job, Unbroken(k)' PROVE Story(k)'
      <3>1. k \notin used' /\ k \notin used
        <4>1. ~At(OnItsWay)'
          BY <1>2, <2>1 DEF At, OnItsWay
        <4>2. k \notin used' \/ boots' = 1
          BY <2>3, <4>1 DEF Unbroken
        <4>3. boots' = 1 => used' = {}
          BY <1>2, <2>2 DEF Boot, Alone, StoryInv
        <4> QED
          BY <2>1, <4>2, <4>3
      <3> QED
        BY <2>1, <3>1, NewStory DEF StoryInv, UpToDate
    <2> QED
      BY <1>1, <2>1, <2>3 DEF StoryInv
  <1>3. CASE Serves
    <2>1. ASSUME NEW k \in Job, Unbroken(k)' PROVE Story(k)'
      BY <1>3, <2>1, WasUnbroken, ServesStory DEF StoryInv
    <2>2. boots' \in Nat /\ (boots' = 0 => used' = {} /\ ~Up')
      BY <1>3, ServesInBetween DEF StoryInv
    <2> QED
      BY <1>1, <2>1, <2>2 DEF StoryInv
  <1>4. CASE Gone /\ UNCHANGED boots
    <2>1. ~Up' /\ UNCHANGED <<wst, used>> /\ stale' = {}
      BY <1>4 DEF Gone, Up, NoSup, journals
    <2>2. ASSUME NEW k \in Job, Unbroken(k)' PROVE Story(k)'
      <3>1. k \notin used' /\ k \notin used
        BY <2>1, <2>2 DEF Unbroken
      <3> QED
        BY <2>1, <3>1, NewStory DEF StoryInv, UpToDate
    <2> QED
      BY <1>1, <1>4, <2>1, <2>2 DEF StoryInv
  <1> QED
    BY <1>2, <1>3, <1>4, EveryStep

LEMMA InitStory == AttachedInit /\ Core => StoryInv
PROOF
  <1> SUFFICES ASSUME AttachedInit, Core PROVE StoryInv
    OBVIOUS
  <1>1. Init
    BY DEF AttachedInit
  <1>2. boots = 0 /\ used = {} /\ ~Up /\ FlowBoxOK /\ stale = {}
    BY <1>1, EmptySeq DEF Init, Up, NoSup, FlowBoxOK
  <1>3. ASSUME NEW k \in Job PROVE Story(k)
    <2>1. Unknown(k) /\ wst[k] = "Pending" /\ \A r \in Records : UpToDate(r, k)
      BY <1>1, <1>2 DEF Init, Core, JobInv, SubmittedOnce, UpToDate
    <2> QED
      BY <2>1, UnknownStory DEF Core, TypeOK, JobInv
  <1> QED
    BY <1>2, <1>3 DEF StoryInv

LEMMA StoryAgrees ==
  ASSUME Core, StoryInv, ~ProviderLoss
  PROVE  StatusesAgree
PROOF
  <1> SUFFICES ASSUME boots = 1, NEW j \in Job, Quiet(j)
               PROVE  /\ reg[j] # "absent" /\ UpToDate("row", j) /\ UpToDate("status", j)
                           => reg[j] = jst[j]
                      /\ job[j].phase = "ready" /\ Rests(j)
                           /\ UpToDate("status", j) /\ UpToDate("flow", j)
                           => jst[j] = wst[j]
    BY DEF StatusesAgree
  <1>1. Story(j)
    BY DEF Quiet, StoryInv, Unbroken, Up
  <1>2. /\ job[j].phase \in {"ready", "ended"} /\ jbox[j] = <<>> /\ Len(jbox[j]) = 0
        /\ news[j] = <<>> /\ sup.row = <<>>
    BY EmptySeq DEF Quiet, Core, TypeOK, SupervisorOK
  <1>3. /\ ~Starting(j)
        /\ UpToDate("status", j) => Recorded(j) = jst[j] /\ jst[j] # "lost"
    <2>1. jst[j] \in Status \cup {"None"}
      BY DEF Core, TypeOK, JobsOK
    <2>2. jst[j] # "lost"
      BY <2>1 DEF Status, Terminal
    <2> QED
      BY <1>2, <2>2 DEF Starting, Recorded, JobRec
  <1>4. \A i \in 1 .. Len(sbox) : ~Reported(j, i)
    BY DEF Quiet, Reported
  <1>5. reg[j] # "absent" /\ UpToDate("row", j) /\ UpToDate("status", j) => reg[j] = jst[j]
    BY <1>1, <1>2, <1>3, <1>4 DEF Story, RowIsRecorded, RowOf, RowRec, Fitting
  <1>6. ASSUME job[j].phase = "ready", Rests(j), UpToDate("status", j), UpToDate("flow", j)
        PROVE  jst[j] = wst[j]
    <2>1. job[j].held
      <3>1. job[j].held \in BOOLEAN /\ ~job[j].stop
        BY <1>6 DEF Core, TypeOK, JobsOK, JobInv, HeldWhileUp
      <3> QED
        BY <1>1, <1>3, <1>6, <3>1 DEF Story, LaunchedByStart, Live
    <2>3. FlowRecorded(j) = wst[j] /\ wst[j] # "lost"
      BY <1>6 DEF FlowRecorded, FlowRec, Rests, Core, TypeOK, FlowsOK, Status, Terminal
    <2>2. NewsSays(j, FlowRecorded(j))
      BY <1>1, <1>6, <2>1, <2>3 DEF Story, FlowIsRecorded, Rests
    <2>4. \A i \in 1 .. Len(jbox[j]) : jbox[j][i] \notin Status
      BY <1>2
    <2> QED
      BY <1>2, <1>3, <1>6, <2>2, <2>3, <2>4 DEF NewsSays
  <1> QED
    BY <1>5, <1>6

(* Unless a Resume can fail for want of a provider: without a restart, and *)
(* once all messages about a job have been handled, the registry shows     *)
(* what the job recorded, and a job whose workflow rests recorded the      *)
(* status it rests in, for any jobs, requests, launches that fail and      *)
(* writes that are refused - unless it is the last write of one of the two *)
(* that was refused.                                                       *)
THEOREM RestingStatusesAgree == ~ProviderLoss => (AttachedSpec => []StatusesAgree)
PROOF
  <1> SUFFICES ASSUME ~ProviderLoss PROVE AttachedSpec => []StatusesAgree
    OBVIOUS
  <1>1. AttachedInit => Core /\ Attached /\ StoryInv
    BY InitCore, InitStory DEF AttachedInit, Attached, Where
  <1>2. Core /\ Attached /\ StoryInv /\ [AttachedNext]_allvars
          => (Core /\ Attached /\ StoryInv)'
    BY NextCore, NextAttached, NextStory
  <1>3. Core /\ StoryInv => StatusesAgree
    BY StoryAgrees
  <1> QED
    BY <1>1, <1>2, <1>3, PTL DEF AttachedSpec

-----------------------------------------------------------------------------
(* The exit code: what the list says of a job that is over.                *)

(* The report of an end is the last one of a job, and a removed job is in  *)
(* no report and no row.  (Nothing follows from a row that is not there    *)
(* because it was refused.)                                                *)
Removed(j) == reg[j] = "absent" /\ ~BeingSubmitted(j) /\ ~Unwritten(j)
RowEnds(j) ==
  \/ \E s \in Terminal \cup {"absent"} : sup.row = <<j, s>>
  \/ reg[j] \in Terminal \/ Removed(j)
LastWord(j) ==
  /\ \A i, k \in 1 .. Len(sbox) :
       Reported(j, i) /\ sbox[i].status \in Terminal /\ Reported(j, k) => k <= i
  /\ RowEnds(j) => \A i \in 1 .. Len(sbox) : ~Reported(j, i)
  /\ \A s \in Row : sup.row = <<j, s>> =>
       ~Removed(j) /\ (reg[j] \in Terminal <=> s = "absent")
StopsAtEnd(j) == job[j].phase = "persisting" /\ job[j].stop => job[j].eff \in Terminal

(* Without a shutdown a job ends with its workflow, and one that is in the *)
(* memory of the supervisor is its child or removed, or the removal of its *)
(* row, which tells of its end, was refused.                               *)
Dropped(j) == Removed(j) \/ (reg[j] \in Terminal /\ Unwritten(j))
Calm == client \in {"none", "draining"}
NoShutdown ==
  Calm =>
    /\ \A i \in 1 .. Len(sbox) : sbox[i].cmd # "Shutdown"
    /\ \A j \in Job : \A i \in 1 .. Len(jbox[j]) : jbox[j][i] # "Shutdown"
EndsByItself(j) ==
  Calm =>
    /\ job[j].phase = "ended" => jst[j] \in Terminal \/ ~UpToDate("status", j)
    /\ job[j].phase # "down" => j \in children \/ sup.row = <<j, "absent">> \/ Dropped(j)

(* The attached client gets on only as its job does.                       *)
SentFor(c) == \E i \in 1 .. Len(sbox) : sbox[i].cmd = c /\ sbox[i].job = Mine
Left(j)    == job[j].phase = "ended" \/ Dropped(j)
Asked(j)   == \E i \in 1 .. Len(jbox[j]) : jbox[j][i] = "Subscribe"
JobIsThere ==
  Up =>
    /\ At({"submitting"}) => SentFor("Submit") \/ job[Mine].phase # "down"
    /\ At({"replaying", "asking", "following", "ended", "listing"}) => job[Mine].phase # "down"
EndIsSeen ==
  Up /\ client = "none" =>
    /\ At({"asking"}) => SentFor("Subscribe") \/ Asked(Mine) \/ Left(Mine)
    /\ At({"ended", "listing"}) => Left(Mine)
ListedLast ==
  \A i \in 1 .. Len(sbox) : sbox[i].cmd = "List" =>
    /\ At({"listing"})
    /\ \A k \in 1 .. Len(sbox) : sbox[k].cmd = "List" => k = i
    /\ client = "none" => \A k \in 1 .. Len(sbox) : Reported(Mine, k) => k < i

ExitInv ==
  /\ \A j \in Job : LastWord(j) /\ StopsAtEnd(j) /\ EndsByItself(j)
  /\ NoShutdown /\ JobIsThere /\ EndIsSeen /\ ListedLast

-----------------------------------------------------------------------------
(* The last word of a job.                                                 *)

RowsOf(k) ==
  /\ reg'[k] = reg[k] /\ MarkKept("row", k)
  /\ \A s \in Row : sup'.row = <<k, s>> <=> sup.row = <<k, s>>

LEMMA LastKept ==
  ASSUME SupervisorOK, SupervisorOK', NEW k \in Job, LastWord(k), ReportsKept(k), RowsOf(k)
  PROVE  LastWord(k)'
PROOF
  <1>1. PICK n \in {0, 1} :
          \A i \in 1 .. Len(sbox') : Reported(k, i)' =>
            i + n \in 1 .. Len(sbox) /\ sbox'[i] = sbox[i + n]
    BY DEF ReportsKept
  <1>2. \A i \in 1 .. Len(sbox') : Reported(k, i)' =>
          i + n \in 1 .. Len(sbox) /\ Reported(k, i + n) /\ sbox'[i] = sbox[i + n]
    BY <1>1 DEF Reported
  <1>3. RowEnds(k)' => RowEnds(k)
    BY DEF RowEnds, RowsOf, Removed, BeingSubmitted, Unwritten, MarkKept, UpToDate, Row, Status
  <1>4. ASSUME NEW i \in 1 .. Len(sbox'), NEW m \in 1 .. Len(sbox'), Reported(k, i)',
               sbox'[i].status \in Terminal, Reported(k, m)'
        PROVE  m <= i
    <2>1. m + n <= i + n
      BY <1>2, <1>4 DEF LastWord
    <2> QED
      BY <2>1
  <1>5. RowEnds(k)' => \A i \in 1 .. Len(sbox') : ~Reported(k, i)'
    BY <1>2, <1>3 DEF LastWord
  <1>6. Removed(k)' <=> Removed(k)
    BY DEF RowsOf, Removed, BeingSubmitted, Unwritten, MarkKept, UpToDate, Row, Status
  <1>7. \A s \in Row : sup'.row = <<k, s>> =>
          ~Removed(k)' /\ (reg'[k] \in Terminal <=> s = "absent")
    BY <1>6 DEF LastWord, RowsOf
  <1> QED
    BY <1>4, <1>5, <1>7 DEF LastWord

(* A job that is not over may speak.                                       *)
LEMMA LastTold ==
  ASSUME Core, NEW k \in Job, LastWord(k), ~Over(k), NEW s \in Status, Report(k, s),
         UNCHANGED <<reg, stale, sup>>
  PROVE  LastWord(k)'
PROOF
  <1>1. PICK e \in Mail : e = [cmd |-> "JobStatusChanged", job |-> k, status |-> s]
    BY DEF Mail, Notice
  <1>2. sbox' = Append(sbox, e)
    BY <1>1 DEF Report
  <1>3. /\ sbox \in Seq(Mail) /\ Len(sbox) \in Nat /\ Len(sbox') = Len(sbox) + 1
        /\ \A i \in 1 .. Len(sbox') :
              \/ i \in 1 .. Len(sbox) /\ sbox'[i] = sbox[i]
              \/ i = Len(sbox) + 1 /\ sbox'[i] = e
    BY <1>2 DEF Core, TypeOK, SupervisorOK
  <1>4. EndedIsOver(k)
    BY DEF Core, JobInv
  <1>5. \A i \in 1 .. Len(sbox) : Reported(k, i) => sbox[i].status \notin Terminal
    BY <1>4 DEF EndedIsOver
  <1>6. ASSUME NEW i \in 1 .. Len(sbox'), NEW m \in 1 .. Len(sbox'), Reported(k, i)',
               sbox'[i].status \in Terminal
        PROVE  m <= i
    <2>1. i = Len(sbox) + 1
      BY <1>3, <1>5, <1>6 DEF Reported
    <2> QED
      BY <1>3, <2>1
  <1>7. ~RowEnds(k)'
    BY <1>4 DEF EndedIsOver, RowEnds, Removed, BeingSubmitted, Unwritten
  <1>8. \A r \in Row : sup'.row = <<k, r>> =>
          ~Removed(k)' /\ (reg'[k] \in Terminal <=> r = "absent")
    BY DEF LastWord, Removed, BeingSubmitted, Unwritten
  <1> QED
    BY <1>6, <1>7, <1>8 DEF LastWord

LEMMA SameRows ==
  ASSUME NEW k \in Job, reg'[k] = reg[k], MarkKept("row", k), sup'.row = sup.row
  PROVE  RowsOf(k)
  BY DEF RowsOf

LEMMA SubmitLast ==
  ASSUME Core, Core', NEW k \in Job, LastWord(k), Submit
  PROVE  LastWord(k)'
PROOF
  <1>1. /\ sbox[1] \in Mail /\ Head(sbox) = sbox[1] /\ sbox[1].cmd = "Submit"
        /\ 1 \in 1 .. Len(sbox) /\ sup.row = <<>>
        /\ \A i \in 1 .. Len(sbox') : i + 1 \in 1 .. Len(sbox) /\ sbox'[i] = sbox[i + 1]
    BY SupTaken DEF Submit, Core, TypeOK
  <1>2. PICK j \in Job : j = Head(sbox).job
    BY <1>1 DEF Mail, Request, Notice
  <1>3. /\ sup'.row = <<j, "Running">> /\ UNCHANGED <<reg, stale>>
        /\ SupTakes("Submit") /\ sbox' = Tail(sbox)
    <2>1. sup' = [sup EXCEPT !.phase = "persisting", !.row = <<j, "Running">>]
      BY <1>2 DEF Submit, PersistsRow
    <2>2. sup'.row = <<j, "Running">>
      BY <2>1 DEF Core, TypeOK, SupervisorOK
    <2> QED
      BY <2>2 DEF Submit, journals
  <1>4. CASE k # j
    <2>1. ReportsKept(k)
      BY <1>3, TookReports DEF Core, TypeOK
    <2>2. RowsOf(k)
      BY <1>1, <1>3, <1>4 DEF RowsOf, MarkKept, UpToDate
    <2> QED
      BY <2>1, <2>2, LastKept DEF Core, TypeOK
  <1>5. CASE k = j
    <2>1. Unknown(k)
      BY <1>1, <1>2, <1>5 DEF Core, JobInv, SubmittedOnce, Submits
    <2>2. \A i \in 1 .. Len(sbox') : ~Reported(k, i)'
      BY <1>1, <2>1 DEF Unknown, Reported
    <2>3. ~Removed(k)' /\ reg'[k] = "absent" /\ "absent" \notin Terminal
      BY <1>3, <1>5, <2>1 DEF Removed, BeingSubmitted, Unknown, Terminal
    <2> QED
      <3>1. \A s \in Row : sup'.row = <<k, s>> => s = "Running"
        BY <1>3, <1>5
      <3> QED
        BY <2>2, <2>3, <3>1 DEF LastWord
  <1> QED
    BY <1>4, <1>5

LEMMA RemoveLast ==
  ASSUME Core, Core', NEW k \in Job, LastWord(k), Remove
  PROVE  LastWord(k)'
PROOF
  <1>1. /\ SupTakes("Remove") /\ sbox' = Tail(sbox) /\ sup.row = <<>>
        /\ UNCHANGED <<reg, stale>>
    BY SupTaken DEF Remove, Core, TypeOK, journals
  <1>2. ReportsKept(k)
    BY <1>1, TookReports DEF Core, TypeOK
  <1>3. CASE sup' = sup
    BY <1>1, <1>2, <1>3, SameRows, SameMarks, LastKept DEF Core, TypeOK
  <1>4. CASE reg[Head(sbox).job] \in Terminal /\ PersistsRow(Head(sbox).job, "absent")
    <2>1. PICK j : j = Head(sbox).job
      OBVIOUS
    <2>2. sup' = [sup EXCEPT !.phase = "persisting", !.row = <<j, "absent">>]
      BY <1>4, <2>1 DEF PersistsRow
    <2>3. sup'.row = <<j, "absent">>
      BY <2>2 DEF Core, TypeOK, SupervisorOK
    <2>4. CASE k # j
      <3>1. RowsOf(k)
        BY <1>1, <2>3, <2>4 DEF RowsOf, MarkKept, UpToDate
      <3> QED
        BY <1>2, <3>1, LastKept DEF Core, TypeOK
    <2>5. CASE k = j
      <3>1. RowEnds(k) /\ reg'[k] # "absent"
        BY <1>1, <1>4, <2>1, <2>5 DEF RowEnds, Terminal
      <3>2. \A i \in 1 .. Len(sbox') : ~Reported(k, i)'
        BY <1>2, <3>1 DEF LastWord, ReportsKept, Reported
      <3> QED
        <4>1. \A s \in Row : sup'.row = <<k, s>> => s = "absent"
          BY <2>3, <2>5
        <4>2. reg'[k] \in Terminal
          BY <1>1, <1>4, <2>1, <2>5
        <4> QED
          BY <3>1, <3>2, <4>1, <4>2 DEF LastWord, Removed
    <2> QED
      BY <2>4, <2>5
  <1> QED
    BY <1>3, <1>4 DEF Remove

LEMMA StatusChangedLast ==
  ASSUME Core, Core', NEW k \in Job, LastWord(k), StatusChanged
  PROVE  LastWord(k)'
PROOF
  <1>1. /\ SupTakes("JobStatusChanged") /\ sbox' = Tail(sbox) /\ sup.row = <<>>
        /\ Head(sbox) = sbox[1] /\ sbox[1].cmd = "JobStatusChanged" /\ 1 \in 1 .. Len(sbox)
        /\ \A i \in 1 .. Len(sbox') : i + 1 \in 1 .. Len(sbox) /\ sbox'[i] = sbox[i + 1]
    BY SupTaken DEF StatusChanged, Core, TypeOK
  <1>2. UNCHANGED <<reg, stale>> /\ sup'.row = <<sbox[1].job, sbox[1].status>>
    <2>1. sup' = [sup EXCEPT !.phase = "persisting", !.row = <<sbox[1].job, sbox[1].status>>]
      BY <1>1 DEF StatusChanged, PersistsRow
    <2> QED
      BY <2>1 DEF Core, TypeOK, SupervisorOK, StatusChanged, journals
  <1>3. CASE sbox[1].job # k
    <2>1. ReportsKept(k)
      BY <1>1, <1>3, TookReports DEF Core, TypeOK
    <2>2. RowsOf(k)
      BY <1>1, <1>2, <1>3 DEF RowsOf, MarkKept, UpToDate
    <2> QED
      BY <2>1, <2>2, LastKept DEF Core, TypeOK
  <1>4. CASE sbox[1].job = k
    <2>1. Reported(k, 1)
      BY <1>1, <1>4 DEF Reported
    <2>2. ~RowEnds(k)
      BY <1>1, <2>1 DEF LastWord
    <2>3. reg'[k] \notin Terminal /\ ~Removed(k)'
      BY <1>1, <1>2, <2>2 DEF RowEnds, Removed, BeingSubmitted, Unwritten
    <2>4. \A i \in 1 .. Len(sbox') : Reported(k, i)' =>
            i + 1 \in 1 .. Len(sbox) /\ Reported(k, i + 1) /\ sbox'[i] = sbox[i + 1]
      BY <1>1 DEF Reported
    <2>5. ASSUME NEW i \in 1 .. Len(sbox'), NEW m \in 1 .. Len(sbox'), Reported(k, i)',
                 sbox'[i].status \in Terminal, Reported(k, m)'
          PROVE  m <= i
      <3>1. m + 1 <= i + 1
        BY <2>4, <2>5 DEF LastWord
      <3> QED
        BY <3>1
    <2>6. ASSUME NEW i \in 1 .. Len(sbox'), Reported(k, i)' PROVE ~RowEnds(k)'
      <3>1. i + 1 \in 1 .. Len(sbox) /\ Reported(k, i + 1)
        BY <2>4, <2>6
      <3>2. sbox[1].status \notin Terminal
        BY <1>1, <2>1, <3>1 DEF LastWord
      <3>3. sbox[1].status \in Status
        <4>1. sbox[1] \in Mail
          BY <1>1 DEF Core, TypeOK, SupervisorOK
        <4> QED
          BY <1>1, <4>1 DEF Mail, Request, Notice
      <3>4. sbox[1].status # "absent"
        BY <3>3 DEF Status, Terminal
      <3> QED
        BY <1>2, <1>4, <2>3, <3>2, <3>4 DEF RowEnds
    <2>7. \A s \in Row : sup'.row = <<k, s>> =>
            ~Removed(k)' /\ (reg'[k] \in Terminal <=> s = "absent")
      <3>1. sbox[1] \in Mail /\ "absent" \notin Status
        BY <1>1 DEF Core, TypeOK, SupervisorOK, Status, Terminal
      <3>2. sbox[1].status # "absent"
        BY <1>1, <3>1 DEF Mail, Request, Notice
      <3> QED
        BY <1>2, <2>3, <3>2
    <2> QED
      BY <2>5, <2>6, <2>7 DEF LastWord
  <1> QED
    BY <1>3, <1>4

LEMMA SupPersistsLast ==
  ASSUME Core, Core', NEW k \in Job, LastWord(k), SupPersists \/ SupRefused
  PROVE  LastWord(k)'
PROOF
  <1>1. sbox' = sbox /\ sup'.row = <<>>
    BY RowIsWritten
  <1>2. PICK j \in Job, s \in Status \cup {"absent"} : sup.row = <<j, s>> /\ RowWritten(j, s)
    BY RowIsWritten
  <1>3. reg \in [Job -> Row]
    BY DEF Core, TypeOK, SupervisorOK, Row
  <1>4. RowEnds(k)' => RowEnds(k)
    <2>1. CASE j # k
      <3>1. reg'[k] = reg[k] /\ (Unwritten(k)' <=> Unwritten(k)) /\ ~BeingSubmitted(k)
        BY <1>2, <1>3, <2>1 DEF RowWritten, BeingSubmitted, Unwritten
      <3> QED
        BY <1>1, <3>1 DEF RowEnds, Removed
    <2>2. CASE j = k
      <3>1. s \in Terminal \cup {"absent"} => RowEnds(k)
        BY <1>2, <2>2 DEF RowEnds
      <3>2. CASE s \notin Terminal \cup {"absent"}
        <4>1. \/ s # "Running" /\ reg'[k] = reg[k] /\ (Unwritten(k)' <=> Unwritten(k))
              \/ reg'[k] = s
              \/ reg'[k] = reg[k] /\ Unwritten(k)'
          BY <1>2, <1>3, <2>2 DEF RowWritten, Unwritten
        <4>2. s # "Running" => ~BeingSubmitted(k)
          BY <1>2 DEF BeingSubmitted
        <4> QED
          BY <1>1, <3>2, <4>1, <4>2 DEF RowEnds, Removed
      <3> QED
        BY <3>1, <3>2
    <2> QED
      BY <2>1, <2>2
  <1> QED
    BY <1>1, <1>4 DEF LastWord, Reported

LEMMA SupServesLast ==
  ASSUME Core, Core', NEW k \in Job, LastWord(k), SupServes
  PROVE  LastWord(k)'
PROOF
  <1>1. CASE PassOn \/ SupSubscribe \/ SupList \/ Shutdown
    <2>1. PICK c : c # "JobStatusChanged" /\ SupTakes(c) /\ sbox' = Tail(sbox)
      <3>1. \/ SupTakes("Stop") \/ SupTakes("Resume") \/ SupTakes("Subscribe")
            \/ SupTakes("List") \/ SupTakes("Shutdown")
        BY <1>1 DEF PassOn, SupSubscribe, SupList, Shutdown
      <3> QED
        BY <1>1, <3>1 DEF PassOn, SupSubscribe, SupList, Shutdown
    <2>2. ReportsKept(k)
      BY <2>1, TookReports DEF Core, TypeOK
    <2>3. UNCHANGED <<reg, stale>> /\ sup'.row = sup.row
      <3>1. CASE PassOn \/ SupSubscribe \/ SupList
        BY <3>1 DEF PassOn, SupSubscribe, SupList, journals
      <3>2. CASE Shutdown
        BY <3>2 DEF Shutdown, journals, Core, TypeOK, SupervisorOK
      <3> QED
        BY <1>1, <3>1, <3>2
    <2> QED
      BY <2>2, <2>3, SameRows, SameMarks, LastKept DEF Core, TypeOK
  <1>2. CASE ShutdownDone
    <2>1. UNCHANGED <<reg, stale>> /\ sbox' = sbox
      BY <1>2 DEF ShutdownDone, journals
    <2>2. sup'.row = sup.row
      BY <1>2 DEF ShutdownDone, Core, TypeOK, SupervisorOK
    <2> QED
      BY <2>1, <2>2, SameRows, SameMarks, SameReports, LastKept DEF Core, TypeOK
  <1> QED
    BY <1>1, <1>2, SubmitLast, RemoveLast, StatusChangedLast, SupPersistsLast
    DEF SupServes, Alone, SupStep

LEMMA JobServesLast ==
  ASSUME Core, Core', FlowBoxOK, NEW j \in Job, NEW k \in Job, LastWord(k), JobServes(j)
  PROVE  LastWord(k)'
PROOF
  <1>1. CASE k # j
    <2>1. /\ UNCHANGED <<reg, sup>> /\ MarkKept("row", k)
          /\ sbox' = sbox \/ \E s \in Status : Report(j, s)
      BY <1>1, JobServesOthers
    <2>2. ReportsKept(k)
      BY <1>1, <2>1, ReportOfOther DEF Core, TypeOK
    <2> QED
      BY <2>1, <2>2, SameRows, LastKept DEF Core, TypeOK
  <1>2. CASE k = j
    <2>1. UNCHANGED <<reg, sup>> /\ MarkKept("row", k)
      <3>1. CASE JobPersisted(j) \/ JobRefused(j)
        <4>1. stale' \in {stale \ {<<"status", j>>}, stale \cup {<<"status", j>>}}
          BY <3>1 DEF JobPersisted, JobRefused, Refused
        <4> QED
          BY <3>1, <4>1 DEF JobPersisted, JobRefused, Refused, superv, MarkKept, UpToDate
      <3>2. CASE ~(JobPersisted(j) \/ JobRefused(j))
        <4>1. UNCHANGED <<reg, stale, sup>>
          BY <3>2 DEF JobServes, Alone, JobStep, JobRecovers, JobStart, JobResume, JobStop,
                 JobShutdown, OnWorkflowEvent, Forward, JobSubscribe, superv, journals
        <4> QED
          BY <4>1, SameMarks
      <3> QED
        BY <3>1, <3>2
    <2>2. \/ sbox' = sbox
          \/ /\ job[j].phase = "ready" /\ UNCHANGED stale
             /\ \E s \in Status : Report(j, s)
      <3>1. CASE JobStart(j) \/ JobResume(j)
        BY <3>1 DEF JobStart, JobResume, JobTakes, LaunchFailed, Status, Terminal, journals
      <3>2. CASE OnWorkflowEvent(j)
        BY <3>2 DEF OnWorkflowEvent, JobTakes, journals
      <3> QED
        BY <3>1, <3>2 DEF JobServes, Alone, JobStep, JobRecovers, JobStop, JobShutdown,
             JobPersisted, JobRefused, Forward, JobSubscribe, superv
    <2>3. job[j].phase = "ready" => ~Over(j)
      BY DEF Over
    <2> QED
      BY <1>2, <2>1, <2>2, <2>3, LastTold, SameRows, SameReports, LastKept DEF Core, TypeOK
  <1> QED
    BY <1>1, <1>2

LEMMA ClientsLast ==
  ASSUME Core, Core', Attached, NEW k \in Job, LastWord(k), UNCHANGED <<reg, sup>>,
         MarkKept("row", k),
         \/ sbox' = sbox
         \/ \E e \in Mail : sbox' = Append(sbox, e) /\ e.cmd # "JobStatusChanged"
  PROVE  LastWord(k)'
  BY SameRows, SameReports, ToldReports, LastKept DEF Core, TypeOK

(* What clients and workflows leave alone, and what clients send.          *)
LEMMA Sends ==
  ASSUME Attached,
         \/ \E j \in Job : FlowStep(j) \/ ClientSubmits(j)
         \/ \E c \in {"Stop", "Resume", "Remove"}, j \in Job : ClientAsks(c, j)
         \/ ClientDrains \/ ClientShutsDown \/ RunSubmits \/ RunStep \/ UNCHANGED allvars
  PROVE  /\ UNCHANGED <<reg, jst, sup, children, job, jbox>>
         /\ \A k : MarkKept("row", k) /\ MarkKept("status", k)
         /\ \/ sbox' = sbox
            \/ \E e \in Mail : /\ sbox' = Append(sbox, e) /\ e.cmd # "JobStatusChanged"
                               /\ e.cmd = "Shutdown" => client' = "shutting"
         /\ client' # client => client' = "shutting" \/ (client = "none" /\ client' = "draining")
PROOF
  <1>0. UNCHANGED stale => \A k : MarkKept("row", k) /\ MarkKept("status", k)
    BY DEF MarkKept, UpToDate
  <1>1. ASSUME NEW c \in {"Submit", "Stop", "Resume", "Remove", "Subscribe", "List"}, NEW j \in Job,
               sbox' = Append(sbox, [cmd |-> c, job |-> j])
        PROVE  \E e \in Mail : /\ sbox' = Append(sbox, e) /\ e.cmd # "JobStatusChanged"
                               /\ e.cmd = "Shutdown" => client' = "shutting"
    <2>1. PICK e \in Mail : e = [cmd |-> c, job |-> j]
      BY DEF Mail, Request
    <2>2. e.cmd # "JobStatusChanged" /\ e.cmd # "Shutdown"
      BY <2>1
    <2> QED
      BY <1>1, <2>1, <2>2
  <1>2. Mine \in Job
    BY DEF Attached, Mine
  <1>3. ASSUME NEW j \in Job, ClientSubmits(j)
        PROVE  /\ UNCHANGED <<reg, jst, stale, sup, children, job, jbox, client>>
               /\ \E e \in Mail : /\ sbox' = Append(sbox, e) /\ e.cmd # "JobStatusChanged"
                                  /\ e.cmd = "Shutdown" => client' = "shutting"
    BY <1>1, <1>3 DEF ClientSubmits, journals, jobs
  <1>4. ASSUME NEW c \in {"Stop", "Resume", "Remove"}, NEW j \in Job, ClientAsks(c, j)
        PROVE  /\ UNCHANGED <<reg, jst, stale, sup, children, job, jbox, client>>
               /\ \E e \in Mail : /\ sbox' = Append(sbox, e) /\ e.cmd # "JobStatusChanged"
                                  /\ e.cmd = "Shutdown" => client' = "shutting"
    BY <1>1, <1>4 DEF ClientAsks, journals, jobs
  <1>5. CASE ClientShutsDown
    <2>1. PICK e \in Mail : e = [cmd |-> "Shutdown", job |-> "all"]
      BY DEF Mail
    <2>2. e.cmd # "JobStatusChanged"
      BY <2>1
    <2>3. /\ UNCHANGED <<reg, jst, stale, sup, children, job, jbox>> /\ client' = "shutting"
          /\ sbox' = Append(sbox, e)
      BY <1>5, <2>1 DEF ClientShutsDown, journals, jobs
    <2> QED
      BY <1>0, <2>2, <2>3
  <1>6. CASE ClientDrains
    BY <1>6, <1>0 DEF ClientDrains, journals, superv, jobs
  <1>7. CASE UNCHANGED vars
    BY <1>7, <1>0 DEF vars
  <1>8. CASE AskSubscription \/ AskList
    <2>1. UNCHANGED <<reg, jst, stale, sup, children, job, jbox, client>>
      BY <1>8 DEF AskSubscription, AskList, journals, jobs, outside
    <2> QED
      BY <1>1, <1>2, <1>8, <1>0, <2>1 DEF AskSubscription, AskList, Tell
  <1>9. ASSUME NEW j \in Job, FlowStep(j)
        PROVE  /\ UNCHANGED <<reg, jst, sup, sbox, children, job, jbox, client>>
               /\ \A k : MarkKept("row", k) /\ MarkKept("status", k)
    <2>1. CASE FlowPersisted(j) \/ FlowRefused(j)
      <3>1. stale' \in {stale \ {<<"flow", j>>}, stale \cup {<<"flow", j>>}}
        BY <2>1 DEF FlowPersisted, FlowRefused, Refused
      <3> QED
        BY <2>1, <3>1 DEF FlowPersisted, FlowRefused, Refused, superv, jobs, outside,
                          MarkKept, UpToDate
    <2>2. CASE ~(FlowPersisted(j) \/ FlowRefused(j))
      <3>1. UNCHANGED <<reg, jst, stale, sup, sbox, children, job, jbox, client>>
        BY <1>9, <2>2 DEF FlowStep, FlowStart, FlowCancel, FlowResume, FlowMoves,
                          journals, superv, jobs, outside
      <3> QED
        BY <3>1 DEF MarkKept, UpToDate
    <2> QED
      BY <2>1, <2>2
  <1> QED
    BY <1>2, <1>3, <1>4, <1>5, <1>6, <1>7, <1>8, <1>9, <1>0
    DEF RunSubmits, RunStep, RunSubmitted, NoSubscription, StreamEnds, NoDaemon, allvars

Others ==
  \/ \E j \in Job : FlowStep(j) \/ ClientSubmits(j)
  \/ \E c \in {"Stop", "Resume", "Remove"}, j \in Job : ClientAsks(c, j)
  \/ ClientDrains \/ ClientShutsDown \/ RunSubmits \/ RunStep \/ UNCHANGED allvars

LEMMA ServesLast ==
  ASSUME Core, Core', Attached, FlowBoxOK, Serves, NEW k \in Job, LastWord(k)
  PROVE  LastWord(k)'
PROOF
  <1>1. SupServes \/ (\E j \in Job : JobServes(j)) \/ Others
    BY DEF Serves, Alone, Others
  <1>2. CASE Others
    BY <1>2, Sends, ClientsLast DEF Others
  <1> QED
    BY <1>1, <1>2, SupServesLast, JobServesLast

LEMMA StopsAtEndKept ==
  ASSUME Core, Core', Attached, FlowBoxOK, Serves, NEW k \in Job, StopsAtEnd(k)
  PROVE  StopsAtEnd(k)'
PROOF
  <1>1. job \in [Job -> JobRecord]
    BY DEF Core, TypeOK, JobsOK, JobRecord
  <1>2. job'[k] = job[k] => StopsAtEnd(k)'
    BY DEF StopsAtEnd
  <1>3. CASE SupServes
    <2>1. CASE Submit
      <3>1. job'[k] = job[k] \/ job'[k] = [NoJob EXCEPT !.phase = "starting"]
        BY <1>1, <2>1 DEF Submit
      <3> QED
        BY <1>2, <3>1 DEF NoJob, StopsAtEnd
    <2> QED
      BY <1>2, <1>3, <2>1 DEF SupServes, Alone, SupStep, PassOn, Remove, StatusChanged,
         SupPersists, SupRefused, Shutdown, ShutdownDone, SupSubscribe, SupList, jobs
  <1>4. ASSUME NEW j \in Job, JobServes(j), k # j PROVE StopsAtEnd(k)'
    BY <1>2, <1>4, JobServesOthers
  <1>5. CASE JobServes(k)
    <2>1. job[k].phase \in {"starting", "ready"} => ~job[k].stop
      BY DEF Core, JobInv, HeldWhileUp
    <2>2. ASSUME LaunchFailed(k) PROVE StopsAtEnd(k)'
      <3>1. job' = [job EXCEPT ![k].phase = "persisting", ![k].eff = "Failed", ![k].stop = TRUE]
        BY <2>2 DEF LaunchFailed, JobPersists
      <3>2. job'[k].eff = "Failed"
        BY <1>1, <3>1 DEF JobRecord
      <3> QED
        BY <3>2 DEF StopsAtEnd, Terminal
    <2>3. CASE JobRecovers(k)
      <3>1. \/ job' = [job EXCEPT ![k].phase = "ready", ![k].held = TRUE]
            \/ job' = [job EXCEPT ![k].phase = "ready"]
        BY <2>3 DEF JobRecovers
      <3>2. job'[k].phase = "ready"
        BY <1>1, <3>1 DEF JobRecord
      <3> QED
        BY <3>2 DEF StopsAtEnd
    <2>4. CASE JobStart(k)
      <3>1. CASE job' = [job EXCEPT ![k].phase = "persisting", ![k].eff = "Running",
                                    ![k].held = TRUE]
        <4>1. job'[k].stop = job[k].stop
          BY <1>1, <3>1 DEF JobRecord
        <4> QED
          BY <2>1, <2>4, <4>1 DEF JobStart, JobTakes, StopsAtEnd
      <3> QED
        BY <2>2, <2>4, <3>1 DEF JobStart
    <2>5. CASE JobResume(k)
      <3>1. CASE job' = [job EXCEPT ![k].held = TRUE]
        <4>1. job'[k].phase = job[k].phase
          BY <1>1, <3>1 DEF JobRecord
        <4> QED
          BY <2>5, <4>1 DEF JobResume, JobTakes, StopsAtEnd
      <3> QED
        BY <1>2, <2>2, <2>5, <3>1 DEF JobResume
    <2>6. CASE JobShutdown(k)
      <3>1. job'[k] = [NoJob EXCEPT !.phase = "ended"]
        BY <1>1, <2>6 DEF JobShutdown
      <3> QED
        BY <3>1 DEF NoJob, StopsAtEnd
    <2>7. CASE OnWorkflowEvent(k)
      <3>1. PICK s \in Status : JobTakes(k, s)
        BY <2>7 DEF OnWorkflowEvent
      <3>2. job' = [job EXCEPT ![k].phase = "persisting", ![k].eff = s,
                               ![k].stop = s \in Terminal, ![k].held = @ /\ s \notin Terminal]
        BY <2>7, <3>1 DEF OnWorkflowEvent, JobTakes
      <3>3. job'[k].eff = s
        BY <1>1, <3>2 DEF JobRecord
      <3>4. job'[k].stop = (s \in Terminal)
        BY <1>1, <3>2 DEF JobRecord
      <3> QED
        BY <3>3, <3>4 DEF StopsAtEnd
    <2>8. CASE JobPersisted(k) \/ JobRefused(k)
      <3>1. CASE job' = [job EXCEPT ![k] = [NoJob EXCEPT !.phase = "ended"]]
        <4>1. job'[k] = [NoJob EXCEPT !.phase = "ended"]
          BY <1>1, <3>1
        <4> QED
          BY <4>1 DEF NoJob, StopsAtEnd
      <3>2. CASE job' = [job EXCEPT ![k].phase = "ready", ![k].eff = ""]
        <4>1. job'[k].phase = "ready"
          BY <1>1, <3>2 DEF JobRecord
        <4> QED
          BY <4>1 DEF StopsAtEnd
      <3> QED
        BY <2>8, <3>1, <3>2 DEF JobPersisted, JobRefused, JobGoesOn
    <2> QED
      BY <1>2, <1>5, <2>3, <2>4, <2>5, <2>6, <2>7, <2>8
      DEF JobServes, Alone, JobStep, JobStop, Forward, JobSubscribe, superv
  <1>6. CASE Others
    BY <1>2, <1>6, Sends DEF Others
  <1> QED
    BY <1>3, <1>4, <1>5, <1>6 DEF Serves, Alone, Others

-----------------------------------------------------------------------------
(* What is taken from the mailboxes and what is put into them.             *)

SupTook(c) ==
  /\ SupTakes(c) /\ sbox' = Tail(sbox)
  /\ c = "Submit" => Submit
  /\ c = "Subscribe" => SupSubscribe
  /\ c = "List" => SupList
SupWasTold(e) ==
  /\ sbox' = Append(sbox, e)
  /\ e.cmd = "Shutdown" => client' = "shutting"
  /\ e.cmd = "List" => AskList
  /\ e.cmd = "JobStatusChanged" => ~Over(e.job)

LEMMA SupTakesTook ==
  ASSUME SupervisorOK, SupServes
  PROVE  sbox' = sbox \/ \E c : SupTook(c)
PROOF
  <1>1. CASE Submit
    BY <1>1 DEF Submit, SupTook, SupTakes
  <1>2. CASE PassOn
    BY <1>2 DEF PassOn, SupTook, SupTakes
  <1>3. CASE Remove
    BY <1>3 DEF Remove, SupTook, SupTakes
  <1>4. CASE StatusChanged
    BY <1>4 DEF StatusChanged, SupTook, SupTakes
  <1>5. CASE Shutdown
    BY <1>5 DEF Shutdown, SupTook, SupTakes
  <1>6. CASE SupSubscribe
    BY <1>6 DEF SupSubscribe, SupTook, SupTakes
  <1>7. CASE SupList
    BY <1>7 DEF SupList, SupTook, SupTakes
  <1>8. CASE SupPersists \/ SupRefused \/ ShutdownDone
    BY <1>8 DEF SupPersists, SupRefused, ShutdownDone
  <1> QED
    BY <1>1, <1>2, <1>3, <1>4, <1>5, <1>6, <1>7, <1>8 DEF SupServes, Alone, SupStep

LEMMA JobReports ==
  ASSUME NEW j \in Job, JobServes(j)
  PROVE  sbox' = sbox \/ \E e \in Mail : SupWasTold(e)
PROOF
  <1>1. ASSUME NEW s \in Status, Report(j, s), job[j].phase = "ready"
        PROVE  \E e \in Mail : SupWasTold(e)
    <2>1. PICK e \in Mail : e = [cmd |-> "JobStatusChanged", job |-> j, status |-> s]
      BY DEF Mail, Notice
    <2>2. e.cmd = "JobStatusChanged" /\ e.job = j
      BY <2>1
    <2> QED
      BY <1>1, <2>1, <2>2 DEF SupWasTold, Report, Over
  <1>2. CASE JobStart(j) \/ JobResume(j)
    BY <1>1, <1>2 DEF JobStart, JobResume, JobTakes, LaunchFailed, Status, Terminal
  <1>3. CASE OnWorkflowEvent(j)
    BY <1>1, <1>3 DEF OnWorkflowEvent, JobTakes
  <1> QED
    BY <1>2, <1>3 DEF JobServes, Alone, JobStep, JobRecovers, JobStop, JobShutdown,
       JobPersisted, JobRefused, Forward, JobSubscribe, superv

LEMMA OthersTell ==
  ASSUME Attached, Others
  PROVE  sbox' = sbox \/ \E e \in Mail : SupWasTold(e)
PROOF
  <1>1. CASE AskList
    <2>1. Mine \in Job
      BY DEF Attached, Mine
    <2>2. PICK e \in Mail : e = [cmd |-> "List", job |-> Mine]
      BY <2>1 DEF Mail, Request
    <2>3. e.cmd = "List"
      BY <2>2
    <2> QED
      BY <1>1, <2>2, <2>3 DEF SupWasTold, AskList, Tell
  <1>2. ASSUME NEW c \in {"Submit", "Stop", "Resume", "Remove", "Subscribe"}, NEW j \in Job,
               sbox' = Append(sbox, [cmd |-> c, job |-> j])
        PROVE  \E e \in Mail : SupWasTold(e)
    <2>1. PICK e \in Mail : e = [cmd |-> c, job |-> j]
      BY DEF Mail, Request
    <2>2. e.cmd \in {"Submit", "Stop", "Resume", "Remove", "Subscribe"}
      BY <2>1
    <2>3. e.cmd # "Shutdown" /\ e.cmd # "List" /\ e.cmd # "JobStatusChanged"
      BY <2>2
    <2> QED
      BY <1>2, <2>1, <2>3 DEF SupWasTold
  <1>3. ASSUME NEW j \in Job, ClientSubmits(j) PROVE \E e \in Mail : SupWasTold(e)
    BY <1>2, <1>3 DEF ClientSubmits
  <1>4. ASSUME NEW c \in {"Stop", "Resume", "Remove"}, NEW j \in Job, ClientAsks(c, j)
        PROVE  \E e \in Mail : SupWasTold(e)
    BY <1>2, <1>4 DEF ClientAsks
  <1>5. CASE ClientShutsDown
    <2>1. PICK e \in Mail : e = [cmd |-> "Shutdown", job |-> "all"]
      BY DEF Mail
    <2>2. e.cmd # "JobStatusChanged" /\ e.cmd # "List"
      BY <2>1
    <2> QED
      BY <1>5, <2>1, <2>2 DEF ClientShutsDown, SupWasTold
  <1>6. CASE AskSubscription
    <2>1. Mine \in Job
      BY DEF Attached, Mine
    <2> QED
      BY <1>2, <1>6, <2>1 DEF AskSubscription, Tell
  <1>7. CASE ClientDrains \/ UNCHANGED vars
    BY <1>7 DEF ClientDrains, superv, vars
  <1>8. ASSUME NEW j \in Job, FlowStep(j) PROVE sbox' = sbox
    BY <1>8 DEF FlowStep, FlowStart, FlowCancel, FlowResume, FlowMoves, FlowPersisted,
                FlowRefused, superv
  <1>9. Mine \in Job
    BY DEF Attached, Mine
  <1> QED
    BY <1>1, <1>3, <1>4, <1>5, <1>6, <1>7, <1>8, <1>9
    DEF Others, RunSubmits, RunStep, RunSubmitted, NoSubscription, StreamEnds, NoDaemon, allvars

LEMMA SupMail ==
  ASSUME Core, Attached, Serves
  PROVE  sbox' = sbox \/ (\E c : SupTook(c)) \/ (\E e \in Mail : SupWasTold(e))
PROOF
  <1>1. SupServes \/ (\E j \in Job : JobServes(j)) \/ Others
    BY DEF Serves, Alone, Others
  <1> QED
    BY <1>1, SupTakesTook, JobReports, OthersTell DEF Core, TypeOK

JobTookIt(k) ==
  \E c : /\ JobTakes(k, c) /\ jbox'[k] = Tail(jbox[k])
         /\ c = "Subscribe" => JobSubscribe(k)
JobWasTold(k) == \E c \in JobMail : jbox'[k] = ToJob(k, c) /\ (c = "Shutdown" => Shutdown)
JobMailOf(k) ==
  \/ jbox'[k] = jbox[k]
  \/ JobTookIt(k)
  \/ jbox'[k] = <<>> /\ job'[k].phase = "ended"
  \/ jbox'[k] = <<"Start">> /\ Unknown(k)
  \/ JobWasTold(k)

LEMMA SupTellsJob ==
  ASSUME Core, NEW k \in Job, SupServes
  PROVE  JobMailOf(k)
PROOF
  <1>1. jbox \in [Job -> Seq(JobMail)]
    BY DEF Core, TypeOK, JobsOK
  <1>2. CASE Submit
    <2>1. /\ sbox[1] \in Mail /\ Head(sbox) = sbox[1] /\ sbox[1].cmd = "Submit"
          /\ 1 \in 1 .. Len(sbox)
      BY <1>2, SupTaken DEF Submit, Core, TypeOK
    <2>2. PICK j \in Job : j = Head(sbox).job
      BY <2>1 DEF Mail, Request, Notice
    <2>3. Unknown(j)
      BY <2>1, <2>2 DEF Core, JobInv, SubmittedOnce, Submits
    <2>4. jbox' = [jbox EXCEPT ![j] = <<"Start">>]
      BY <1>2, <2>2 DEF Submit
    <2> QED
      BY <1>1, <2>3, <2>4 DEF JobMailOf
  <1>3. CASE PassOn
    <2>1. PICK c \in {"Stop", "Resume"} : SupTakes(c)
      BY <1>3 DEF PassOn
    <2>2. Head(sbox).cmd = c /\ c \in JobMail /\ c # "Shutdown"
      BY <2>1 DEF SupTakes, JobMail
    <2>3. jbox'[k] \in {jbox[k], ToJob(k, c)}
      BY <1>1, <1>3, <2>2 DEF PassOn
    <2> QED
      BY <2>2, <2>3 DEF JobMailOf, JobWasTold
  <1>4. CASE SupSubscribe
    <2>1. jbox'[k] \in {jbox[k], ToJob(k, "Subscribe")}
      BY <1>1, <1>4 DEF SupSubscribe
    <2> QED
      BY <2>1 DEF JobMailOf, JobWasTold, JobMail
  <1>5. CASE Shutdown
    <2>1. jbox'[k] \in {jbox[k], ToJob(k, "Shutdown")}
      BY <1>5 DEF Shutdown
    <2> QED
      BY <1>5, <2>1 DEF JobMailOf, JobWasTold, JobMail
  <1> QED
    BY <1>2, <1>3, <1>4, <1>5 DEF SupServes, Alone, SupStep, Remove, StatusChanged,
       SupPersists, SupRefused, ShutdownDone, SupList, jobs, JobMailOf

LEMMA JobTakesOwn ==
  ASSUME Core, NEW k \in Job, JobServes(k)
  PROVE  JobMailOf(k)
PROOF
  <1>1. /\ jbox \in [Job -> Seq(JobMail)] /\ job \in [Job -> JobRecord]
        /\ news \in [Job -> Seq(Status)]
    BY DEF Core, TypeOK, JobsOK, FlowsOK, JobRecord
  <1>2. ASSUME NEW c, JobTakes(k, c), JobTook(k), c # "Subscribe"
        PROVE  JobMailOf(k)
    <2>1. jbox'[k] = Tail(jbox[k])
      BY <1>1, <1>2 DEF JobTook
    <2> QED
      BY <1>2, <2>1 DEF JobMailOf, JobTookIt
  <1>3. CASE JobShutdown(k)
    <2>1. job' = [job EXCEPT ![k] = [NoJob EXCEPT !.phase = "ended"]] /\ jbox'[k] = <<>>
      BY <1>1, <1>3 DEF JobShutdown
    <2>2. job'[k].phase = "ended"
      BY <1>1, <2>1 DEF NoJob
    <2> QED
      BY <2>1, <2>2 DEF JobMailOf
  <1>4. CASE JobPersisted(k) \/ JobRefused(k)
    <2>1. CASE job' = [job EXCEPT ![k] = [NoJob EXCEPT !.phase = "ended"]]
               /\ jbox' = [jbox EXCEPT ![k] = <<>>]
      <3>1. job'[k].phase = "ended" /\ jbox'[k] = <<>>
        BY <1>1, <2>1 DEF NoJob
      <3> QED
        BY <3>1 DEF JobMailOf
    <2> QED
      BY <1>4, <2>1 DEF JobPersisted, JobRefused, JobGoesOn, JobMailOf
  <1>5. CASE Forward(k)
    <2>1. Head(news[k]) \in Status
      BY <1>1, <1>5, Taken DEF Forward
    <2>2. jbox'[k] = ToJob(k, Head(news[k]))
      BY <1>1, <1>5 DEF Forward
    <2> QED
      BY <2>1, <2>2 DEF JobMailOf, JobWasTold, JobMail, Status, Terminal
  <1>6. CASE JobSubscribe(k)
    <2>1. JobTakes(k, "Subscribe") /\ jbox'[k] = Tail(jbox[k])
      BY <1>1, <1>6 DEF JobSubscribe, JobTook
    <2> QED
      BY <1>6, <2>1 DEF JobMailOf, JobTookIt
  <1>7. CASE OnWorkflowEvent(k)
    <2>1. PICK s \in Status : JobTakes(k, s)
      BY <1>7 DEF OnWorkflowEvent
    <2> QED
      BY <1>2, <1>7, <2>1 DEF OnWorkflowEvent, Status, Terminal
  <1>8. CASE JobRecovers(k)
    BY <1>8 DEF JobRecovers, JobMailOf
  <1>9. CASE JobStart(k) \/ JobResume(k) \/ JobStop(k)
    <2>1. PICK c \in {"Start", "Resume", "Stop"} : JobTakes(k, c) /\ JobTook(k)
      BY <1>9 DEF JobStart, JobResume, JobStop
    <2> QED
      BY <1>2, <2>1
  <1> QED
    BY <1>3, <1>4, <1>5, <1>6, <1>7, <1>8, <1>9 DEF JobServes, Alone, JobStep

LEMMA JobMailbox ==
  ASSUME Core, Attached, FlowBoxOK, Serves, NEW k \in Job
  PROVE  JobMailOf(k)
PROOF
  <1>1. SupServes \/ (\E j \in Job : JobServes(j)) \/ Others
    BY DEF Serves, Alone, Others
  <1>2. ASSUME NEW j \in Job, JobServes(j), k # j PROVE JobMailOf(k)
    BY <1>2, JobServesOthers DEF JobMailOf
  <1>3. CASE Others
    BY <1>3, Sends DEF Others, JobMailOf
  <1> QED
    BY <1>1, <1>2, <1>3, SupTellsJob, JobTakesOwn

-----------------------------------------------------------------------------
(* How a job comes and goes, and the client goes on.                       *)

(* A job comes with its Submit and goes with a shutdown or its last write. *)
JobGoes(k) ==
  /\ job'[k].phase = "ended"
  /\ \/ JobShutdown(k)
     \/ /\ JobPersisted(k) \/ JobRefused(k)
        /\ job[k].phase = "persisting" /\ job[k].stop
PhaseOf(k) ==
  \/ job'[k].phase = job[k].phase
  \/ job[k].phase \in Live /\ job'[k].phase \in Live
  \/ Submit /\ Unknown(k) /\ job'[k].phase = "starting" /\ k \in children'
  \/ JobGoes(k)

LEMMA SupStartsJob ==
  ASSUME Core, NEW k \in Job, SupServes
  PROVE  PhaseOf(k)
PROOF
  <1>1. CASE Submit
    <2>1. /\ sbox[1] \in Mail /\ Head(sbox) = sbox[1] /\ sbox[1].cmd = "Submit"
          /\ 1 \in 1 .. Len(sbox)
      BY <1>1, SupTaken DEF Submit, Core, TypeOK
    <2>2. PICK j \in Job : j = Head(sbox).job
      BY <2>1 DEF Mail, Request, Notice
    <2>3. Unknown(j)
      BY <2>1, <2>2 DEF Core, JobInv, SubmittedOnce, Submits
    <2>4. /\ job' = [job EXCEPT ![j] = [NoJob EXCEPT !.phase = "starting"]]
          /\ children' = children \cup {j}
      BY <1>1, <2>2 DEF Submit
    <2>5. CASE k # j
      BY <2>4, <2>5 DEF PhaseOf, Core, TypeOK, JobsOK
    <2>6. CASE k = j
      <3>1. job'[k] = [NoJob EXCEPT !.phase = "starting"]
        BY <2>4, <2>6 DEF Core, TypeOK, JobsOK
      <3>2. job'[k].phase = "starting"
        BY <3>1 DEF NoJob
      <3> QED
        BY <1>1, <2>3, <2>4, <2>6, <3>2 DEF PhaseOf
    <2> QED
      BY <2>5, <2>6
  <1> QED
    BY <1>1 DEF SupServes, Alone, SupStep, PassOn, Remove, StatusChanged, SupPersists,
       SupRefused, Shutdown, ShutdownDone, SupSubscribe, SupList, jobs, PhaseOf

LEMMA JobMoves ==
  ASSUME Core, NEW k \in Job, JobServes(k)
  PROVE  PhaseOf(k)
PROOF
  <1>1. job \in [Job -> JobRecord]
    BY DEF Core, TypeOK, JobsOK, JobRecord
  <1>2. ASSUME LaunchFailed(k), job[k].phase = "ready" PROVE PhaseOf(k)
    <2>1. job' = [job EXCEPT ![k].phase = "persisting", ![k].eff = "Failed", ![k].stop = TRUE]
      BY <1>2 DEF LaunchFailed, JobPersists
    <2>2. job'[k].phase = "persisting"
      BY <1>1, <2>1 DEF JobRecord
    <2> QED
      BY <1>2, <2>2 DEF PhaseOf, Live
  <1>3. CASE JobRecovers(k)
    <2>1. \/ job' = [job EXCEPT ![k].phase = "ready", ![k].held = TRUE]
          \/ job' = [job EXCEPT ![k].phase = "ready"]
      BY <1>3 DEF JobRecovers
    <2>2. job'[k].phase = "ready"
      BY <1>1, <2>1 DEF JobRecord
    <2> QED
      BY <1>3, <2>2 DEF JobRecovers, PhaseOf, Live
  <1>4. CASE JobStart(k)
    <2>1. CASE job' = [job EXCEPT ![k].phase = "persisting", ![k].eff = "Running",
                                  ![k].held = TRUE]
      <3>1. job'[k].phase = "persisting"
        BY <1>1, <2>1 DEF JobRecord
      <3> QED
        BY <1>4, <3>1 DEF JobStart, JobTakes, PhaseOf, Live
    <2> QED
      BY <1>2, <1>4, <2>1 DEF JobStart, JobTakes
  <1>5. CASE JobResume(k)
    <2>1. CASE job' = [job EXCEPT ![k].held = TRUE]
      <3>1. job'[k].phase = job[k].phase
        BY <1>1, <2>1 DEF JobRecord
      <3> QED
        BY <3>1 DEF PhaseOf
    <2> QED
      BY <1>2, <1>5, <2>1 DEF JobResume, JobTakes, PhaseOf
  <1>6. CASE JobShutdown(k)
    <2>1. job'[k] = [NoJob EXCEPT !.phase = "ended"]
      BY <1>1, <1>6 DEF JobShutdown
    <2> QED
      BY <1>6, <2>1 DEF NoJob, PhaseOf, JobGoes
  <1>7. CASE OnWorkflowEvent(k)
    <2>1. PICK s \in Status : JobTakes(k, s)
      BY <1>7 DEF OnWorkflowEvent
    <2>2. job' = [job EXCEPT ![k].phase = "persisting", ![k].eff = s,
                             ![k].stop = s \in Terminal, ![k].held = @ /\ s \notin Terminal]
      BY <1>7, <2>1 DEF OnWorkflowEvent, JobTakes
    <2>3. job'[k].phase = "persisting"
      BY <1>1, <2>2 DEF JobRecord
    <2> QED
      BY <2>1, <2>3 DEF JobTakes, PhaseOf, Live
  <1>8. CASE JobPersisted(k) \/ JobRefused(k)
    <2>1. CASE job[k].stop
      <3>1. job'[k] = [NoJob EXCEPT !.phase = "ended"] /\ job[k].phase = "persisting"
        BY <1>1, <1>8, <2>1 DEF JobPersisted, JobRefused, JobGoesOn
      <3> QED
        BY <1>8, <2>1, <3>1 DEF NoJob, PhaseOf, JobGoes
    <2>2. CASE ~job[k].stop
      <3>1. job' = [job EXCEPT ![k].phase = "ready", ![k].eff = ""]
        BY <1>8, <2>2 DEF JobPersisted, JobRefused, JobGoesOn
      <3>2. job'[k].phase = "ready" /\ job[k].phase = "persisting"
        BY <1>1, <1>8, <3>1 DEF JobRecord, JobPersisted, JobRefused
      <3> QED
        BY <3>2 DEF PhaseOf, Live
    <2> QED
      BY <2>1, <2>2
  <1> QED
    BY <1>3, <1>4, <1>5, <1>6, <1>7, <1>8
    DEF JobServes, Alone, JobStep, JobStop, Forward, JobSubscribe, superv, PhaseOf

LEMMA JobPhase ==
  ASSUME Core, Attached, FlowBoxOK, Serves, NEW k \in Job
  PROVE  PhaseOf(k)
PROOF
  <1>1. SupServes \/ (\E j \in Job : JobServes(j)) \/ Others
    BY DEF Serves, Alone, Others
  <1>2. ASSUME NEW j \in Job, JobServes(j), k # j PROVE PhaseOf(k)
    BY <1>2, JobServesOthers DEF PhaseOf
  <1>3. CASE Others
    BY <1>3, Sends DEF Others, PhaseOf
  <1> QED
    BY <1>1, <1>2, <1>3, SupStartsJob, JobMoves

(* The record of a job is its own to write.                                *)
LEMMA RecordOf ==
  ASSUME Core, Attached, FlowBoxOK, Serves, NEW k \in Job
  PROVE  \/ jst'[k] = jst[k] /\ (MarkKept("status", k) \/ ~UpToDate("status", k)')
         \/ JobPersisted(k) /\ jst'[k] = job[k].eff
PROOF
  <1>1. SupServes \/ (\E j \in Job : JobServes(j)) \/ Others
    BY DEF Serves, Alone, Others
  <1>2. CASE SupServes
    <2>1. CASE SupPersists \/ SupRefused
      <3>1. PICK j \in Job, s \in Status \cup {"absent"} : RowWritten(j, s)
        BY <2>1, RowIsWritten
      <3> QED
        BY <2>1, <3>1, RowIsWritten DEF RowWritten, MarkKept, UpToDate
    <2>2. CASE ~(SupPersists \/ SupRefused)
      <3>1. UNCHANGED <<jst, stale>>
        BY <1>2, <2>2 DEF SupServes, Alone, SupStep, Submit, PassOn, Remove, StatusChanged,
           Shutdown, ShutdownDone, SupSubscribe, SupList, journals
      <3> QED
        BY <3>1, SameMarks
    <2> QED
      BY <2>1, <2>2
  <1>3. ASSUME NEW j \in Job, JobServes(j), k # j
        PROVE  jst'[k] = jst[k] /\ MarkKept("status", k)
    BY <1>3, JobServesOthers
  <1>4. CASE JobServes(k)
    <2>1. jst \in [Job -> Status \cup {"None"}]
      BY DEF Core, TypeOK, JobsOK
    <2>2. CASE JobPersisted(k)
      BY <2>1, <2>2 DEF JobPersisted
    <2>3. CASE JobRefused(k)
      BY <2>3 DEF JobRefused, Refused, UpToDate
    <2>4. CASE ~JobPersisted(k) /\ ~JobRefused(k)
      <3>1. UNCHANGED <<jst, stale>>
        BY <1>4, <2>4 DEF JobServes, Alone, JobStep, JobRecovers, JobStart, JobResume, JobStop,
           JobShutdown, OnWorkflowEvent, Forward, JobSubscribe, journals
      <3> QED
        BY <3>1, SameMarks
    <2> QED
      BY <2>2, <2>3, <2>4
  <1>5. CASE Others
    BY <1>5, Sends DEF Others
  <1> QED
    BY <1>1, <1>2, <1>3, <1>4, <1>5

(* The client moves by its own steps, when its job takes its question, and *)
(* when the list is made.                                                  *)
LEMMA RunMoves ==
  ASSUME Attached, Serves
  PROVE  /\ run'.job = run.job
         /\ \/ run' = run
            \/ RunSubmits /\ run'.at = "submitting"
            \/ RunSubmitted /\ UNCHANGED vars /\ run'.at = "replaying"
            \/ AskSubscription /\ run'.at = "asking"
            \/ \E j \in Job : JobSubscribe(j) /\ At({"asking"}) /\ run'.at = "following"
            \/ NoSubscription /\ UNCHANGED vars /\ run'.at = "ended"
            \/ StreamEnds /\ UNCHANGED vars /\ run'.at = "ended"
            \/ AskList /\ run'.at = "listing"
            \/ NoDaemon /\ run'.at = "error"
            \/ SupList /\ run'.at = "done"
PROOF
  <1>1. \A place : Goes(place) => run'.at = place /\ run'.job = run.job
    BY DEF Goes, Attached
  <1>2. CASE SupList
    BY <1>2 DEF SupList, Attached
  <1>3. ASSUME NEW j \in Job, JobSubscribe(j)
        PROVE  /\ run'.job = run.job
               /\ run' = run \/ (At({"asking"}) /\ run'.at = "following")
    BY <1>3 DEF JobSubscribe, Attached
  <1>4. CASE RunSubmits
    BY <1>1, <1>4 DEF RunSubmits
  <1>5. CASE RunStep
    BY <1>1, <1>5 DEF RunStep, RunSubmitted, AskSubscription, NoSubscription, StreamEnds,
          AskList, NoDaemon
  <1> QED
    BY <1>2, <1>3, <1>4, <1>5 DEF Serves, Alone, SupServes, SupSubscribe, JobServes, allvars

-----------------------------------------------------------------------------
(* Without a shutdown.                                                     *)

LEMMA CalmBefore ==
  ASSUME Attached, Serves
  PROVE  (Calm' => Calm) /\ (client' = "none" => client = "none")
PROOF
  <1>1. SupServes \/ (\E j \in Job : JobServes(j)) \/ Others
    BY DEF Serves, Alone, Others
  <1>2. CASE SupServes
    <2>1. client' = client \/ client' = "done"
      BY <1>2 DEF SupServes, Alone, SupStep, Submit, PassOn, Remove, StatusChanged, SupPersists,
         SupRefused, Shutdown, ShutdownDone, SupSubscribe, SupList, outside
    <2> QED
      BY <2>1 DEF Calm
  <1>3. ASSUME NEW j \in Job, JobServes(j) PROVE client' = client
    BY <1>3 DEF JobServes, Alone, JobStep, JobRecovers, JobStart, JobResume, JobStop,
       JobShutdown, OnWorkflowEvent, JobPersisted, JobRefused, Forward, JobSubscribe, outside
  <1>4. CASE Others
    <2>1. client' # client => client' = "shutting" \/ (client = "none" /\ client' = "draining")
      BY <1>4, Sends DEF Others
    <2> QED
      BY <2>1 DEF Calm
  <1> QED
    BY <1>1, <1>2, <1>3, <1>4 DEF Calm

LEMMA NoShutdownTaken ==
  ASSUME Core, NoShutdown, Calm
  PROVE  ~Shutdown /\ \A j \in Job : ~JobShutdown(j)
PROOF
  <1>1. ~Shutdown
    <2> SUFFICES ASSUME Shutdown PROVE FALSE
      OBVIOUS
    <2>1. sbox[1].cmd = "Shutdown" /\ 1 \in 1 .. Len(sbox)
      BY SupTaken DEF Shutdown, Core, TypeOK
    <2> QED
      BY <2>1 DEF NoShutdown
  <1>2. ASSUME NEW j \in Job, JobShutdown(j) PROVE FALSE
    <2>1. jbox[j] \in Seq(JobMail) /\ jbox[j] # <<>> /\ Head(jbox[j]) = "Shutdown"
      BY <1>2 DEF JobShutdown, JobTakes, Core, TypeOK, JobsOK
    <2>2. jbox[j][1] = "Shutdown" /\ 1 \in 1 .. Len(jbox[j])
      BY <2>1, Taken
    <2> QED
      BY <2>2 DEF NoShutdown
  <1> QED
    BY <1>1, <1>2

(* What is in a mailbox was there or is what was put into it.              *)
LEMMA SupBox ==
  ASSUME SupervisorOK
  PROVE  /\ \A c : SupTook(c) =>
              /\ 1 \in 1 .. Len(sbox) /\ sbox[1].cmd = c /\ sup.phase = "ready" /\ sup.row = <<>>
              /\ sbox[1] = Head(sbox) /\ Len(sbox) \in Nat
              /\ \A i \in 1 .. Len(sbox') : i + 1 \in 1 .. Len(sbox) /\ sbox'[i] = sbox[i + 1]
              /\ \A i \in 1 .. Len(sbox) :
                    i # 1 => i - 1 \in 1 .. Len(sbox') /\ sbox'[i - 1] = sbox[i]
         /\ \A e \in Mail : SupWasTold(e) =>
              /\ Len(sbox) \in Nat /\ Len(sbox') = Len(sbox) + 1
              /\ sbox'[Len(sbox) + 1] = e /\ \A i \in 1 .. Len(sbox) : sbox'[i] = sbox[i]
              /\ \A i \in 1 .. Len(sbox') : i \in 1 .. Len(sbox) \/ i = Len(sbox) + 1
PROOF
  <1>1. sbox \in Seq(Mail)
    BY DEF SupervisorOK
  <1>2. ASSUME NEW c, SupTook(c)
        PROVE  /\ 1 \in 1 .. Len(sbox) /\ sbox[1].cmd = c /\ sup.phase = "ready" /\ sup.row = <<>>
               /\ sbox[1] = Head(sbox) /\ Len(sbox) \in Nat
               /\ \A i \in 1 .. Len(sbox') : i + 1 \in 1 .. Len(sbox) /\ sbox'[i] = sbox[i + 1]
               /\ \A i \in 1 .. Len(sbox) :
                     i # 1 => i - 1 \in 1 .. Len(sbox') /\ sbox'[i - 1] = sbox[i]
    <2>1. SupTakes(c) /\ sbox' = Tail(sbox)
      BY <1>2 DEF SupTook
    <2>2. /\ 1 \in 1 .. Len(sbox) /\ sbox[1].cmd = c /\ sup.phase = "ready" /\ sup.row = <<>>
          /\ sbox[1] = Head(sbox)
          /\ \A i \in 1 .. Len(sbox') : i + 1 \in 1 .. Len(sbox) /\ sbox'[i] = sbox[i + 1]
      BY <2>1, SupTaken
    <2>3. Len(sbox) \in Nat /\ Len(sbox') = Len(sbox) - 1
      BY <1>1, <2>1, Taken DEF SupTakes
    <2>4. ASSUME NEW i \in 1 .. Len(sbox), i # 1
          PROVE  i - 1 \in 1 .. Len(sbox') /\ sbox'[i - 1] = sbox[i]
      <3>1. i - 1 \in 1 .. Len(sbox') /\ (i - 1) + 1 = i
        BY <2>3, <2>4
      <3> QED
        BY <2>2, <3>1
    <2> QED
      BY <2>2, <2>3, <2>4
  <1>3. ASSUME NEW e \in Mail, SupWasTold(e)
        PROVE  /\ Len(sbox) \in Nat /\ Len(sbox') = Len(sbox) + 1
               /\ sbox'[Len(sbox) + 1] = e /\ \A i \in 1 .. Len(sbox) : sbox'[i] = sbox[i]
               /\ \A i \in 1 .. Len(sbox') : i \in 1 .. Len(sbox) \/ i = Len(sbox) + 1
    BY <1>1, <1>3 DEF SupWasTold
  <1> QED
    BY <1>2, <1>3

LEMMA JobBox ==
  ASSUME JobsOK, NEW k \in Job
  PROVE  /\ JobTookIt(k) =>
              /\ 1 \in 1 .. Len(jbox[k]) /\ JobTakes(k, jbox[k][1])
              /\ jbox[k][1] = "Subscribe" => JobSubscribe(k)
              /\ \A i \in 1 .. Len(jbox'[k]) :
                   i + 1 \in 1 .. Len(jbox[k]) /\ jbox'[k][i] = jbox[k][i + 1]
              /\ \A i \in 1 .. Len(jbox[k]) :
                   i # 1 => i - 1 \in 1 .. Len(jbox'[k]) /\ jbox'[k][i - 1] = jbox[k][i]
         /\ \A c \in JobMail : jbox'[k] = ToJob(k, c) =>
              /\ \A i \in 1 .. Len(jbox[k]) : i \in 1 .. Len(jbox'[k]) /\ jbox'[k][i] = jbox[k][i]
              /\ \A i \in 1 .. Len(jbox'[k]) :
                   (i \in 1 .. Len(jbox[k]) /\ jbox'[k][i] = jbox[k][i]) \/ jbox'[k][i] = c
              /\ job[k].phase \in Live =>
                   \E i \in 1 .. Len(jbox'[k]) : jbox'[k][i] = c
PROOF
  <1>1. jbox[k] \in Seq(JobMail) /\ Len(jbox[k]) \in Nat
    <2>1. jbox[k] \in Seq(JobMail)
      BY DEF JobsOK
    <2> QED
      BY <2>1
  <1>2. ASSUME NEW c, JobTakes(k, c), jbox'[k] = Tail(jbox[k]), c = "Subscribe" => JobSubscribe(k)
        PROVE  /\ 1 \in 1 .. Len(jbox[k]) /\ JobTakes(k, jbox[k][1])
               /\ jbox[k][1] = "Subscribe" => JobSubscribe(k)
               /\ \A i \in 1 .. Len(jbox'[k]) :
                    i + 1 \in 1 .. Len(jbox[k]) /\ jbox'[k][i] = jbox[k][i + 1]
               /\ \A i \in 1 .. Len(jbox[k]) :
                    i # 1 => i - 1 \in 1 .. Len(jbox'[k]) /\ jbox'[k][i - 1] = jbox[k][i]
    <2>1. /\ jbox[k] # <<>> /\ Head(jbox[k]) = jbox[k][1] /\ 1 \in 1 .. Len(jbox[k])
          /\ Len(jbox'[k]) = Len(jbox[k]) - 1
          /\ \A i \in 1 .. Len(jbox'[k]) :
               i + 1 \in 1 .. Len(jbox[k]) /\ jbox'[k][i] = jbox[k][i + 1]
      BY <1>1, <1>2, Taken DEF JobTakes
    <2>2. jbox[k][1] = c
      BY <1>2, <2>1 DEF JobTakes
    <2>3. ASSUME NEW i \in 1 .. Len(jbox[k]), i # 1
          PROVE  i - 1 \in 1 .. Len(jbox'[k]) /\ jbox'[k][i - 1] = jbox[k][i]
      <3>1. i - 1 \in 1 .. Len(jbox'[k]) /\ (i - 1) + 1 = i
        BY <1>1, <2>1, <2>3
      <3> QED
        BY <2>1, <3>1
    <2> QED
      BY <1>2, <2>1, <2>2, <2>3
  <1>3. ASSUME NEW c \in JobMail, jbox'[k] = ToJob(k, c)
        PROVE  /\ \A i \in 1 .. Len(jbox[k]) : i \in 1 .. Len(jbox'[k]) /\ jbox'[k][i] = jbox[k][i]
               /\ \A i \in 1 .. Len(jbox'[k]) :
                    (i \in 1 .. Len(jbox[k]) /\ jbox'[k][i] = jbox[k][i]) \/ jbox'[k][i] = c
               /\ job[k].phase \in Live => \E i \in 1 .. Len(jbox'[k]) : jbox'[k][i] = c
    <2>1. CASE job[k].phase \in Live
      <3>1. jbox'[k] = Append(jbox[k], c)
        BY <1>3, <2>1 DEF ToJob
      <3>2. /\ Len(jbox'[k]) = Len(jbox[k]) + 1 /\ jbox'[k][Len(jbox[k]) + 1] = c
            /\ \A i \in 1 .. Len(jbox[k]) : jbox'[k][i] = jbox[k][i]
        BY <1>1, <3>1
      <3> QED
        BY <1>1, <3>2
    <2>2. CASE job[k].phase \notin Live
      BY <1>3, <2>2 DEF ToJob
    <2> QED
      BY <2>1, <2>2
  <1> QED
    BY <1>2, <1>3 DEF JobTookIt

LEMMA NoShutdownKept ==
  ASSUME Core, Attached, FlowBoxOK, Serves, NoShutdown
  PROVE  NoShutdown'
PROOF
  <1> SUFFICES ASSUME Calm'
               PROVE  /\ \A i \in 1 .. Len(sbox') : sbox'[i].cmd # "Shutdown"
                      /\ \A k \in Job : \A i \in 1 .. Len(jbox'[k]) : jbox'[k][i] # "Shutdown"
    BY DEF NoShutdown
  <1>1. Calm /\ client' # "shutting"
    BY CalmBefore DEF Calm
  <1>2. \A i \in 1 .. Len(sbox) : sbox[i].cmd # "Shutdown"
    BY <1>1 DEF NoShutdown
  <1>3. \A i \in 1 .. Len(sbox') : sbox'[i].cmd # "Shutdown"
    <2>1. ASSUME NEW c, SupTook(c) PROVE \A i \in 1 .. Len(sbox') : sbox'[i].cmd # "Shutdown"
      BY <1>2, <2>1, SupBox DEF Core, TypeOK
    <2>2. ASSUME NEW e \in Mail, SupWasTold(e)
          PROVE  \A i \in 1 .. Len(sbox') : sbox'[i].cmd # "Shutdown"
      <3>1. e.cmd # "Shutdown"
        BY <1>1, <2>2 DEF SupWasTold
      <3> QED
        BY <1>2, <2>2, <3>1, SupBox DEF Core, TypeOK
    <2> QED
      BY <1>2, <2>1, <2>2, SupMail
  <1>4. ASSUME NEW k \in Job, NEW i \in 1 .. Len(jbox'[k]) PROVE jbox'[k][i] # "Shutdown"
    <2>1. \A m \in 1 .. Len(jbox[k]) : jbox[k][m] # "Shutdown"
      BY <1>1 DEF NoShutdown
    <2>2. JobMailOf(k) /\ JobsOK
      BY JobMailbox DEF Core, TypeOK
    <2>3. CASE JobTookIt(k)
      <3>1. i + 1 \in 1 .. Len(jbox[k]) /\ jbox'[k][i] = jbox[k][i + 1]
        BY <1>4, <2>2, <2>3, JobBox
      <3> QED
        BY <2>1, <3>1
    <2>4. CASE jbox'[k] = <<>> \/ jbox'[k] = <<"Start">>
      BY <1>4, <2>4
    <2>5. CASE JobWasTold(k)
      <3>1. PICK c \in JobMail : jbox'[k] = ToJob(k, c) /\ c # "Shutdown"
        BY <1>1, <2>5, NoShutdownTaken DEF JobWasTold
      <3> QED
        BY <1>4, <2>1, <2>2, <3>1, JobBox
    <2> QED
      BY <1>4, <2>1, <2>2, <2>3, <2>4, <2>5 DEF JobMailOf
  <1> QED
    BY <1>3, <1>4

-----------------------------------------------------------------------------
(* A job that has ended, or was removed, stays so.                         *)

(* The registry changes as the supervisor takes a report, a Submit or a    *)
(* Remove, and as it persists the row.                                     *)
RowMoves ==
  \/ reg' = reg /\ sup'.row = sup.row /\ \A k : MarkKept("row", k)
  \/ /\ UNCHANGED <<reg, stale>> /\ sup.row = <<>>
     /\ \/ Submit /\ sup'.row = <<sbox[1].job, "Running">> /\ Unknown(sbox[1].job)
        \/ Remove /\ sup'.row = <<sbox[1].job, "absent">>
        \/ Reported(sbox[1].job, 1) /\ 1 \in 1 .. Len(sbox)
           /\ sup'.row = <<sbox[1].job, sbox[1].status>>
  \/ (SupPersists \/ SupRefused) /\ sup'.row = <<>>

LEMMA SupMovesRow ==
  ASSUME Core, SupServes
  PROVE  RowMoves
PROOF
  <1>1. SupervisorOK
    BY DEF Core, TypeOK
  <1>2. \A j, s : PersistsRow(j, s) => sup'.row = <<j, s>>
    BY <1>1 DEF PersistsRow, SupervisorOK
  <1>0. UNCHANGED <<reg, stale>> /\ sup'.row = sup.row => RowMoves
    BY DEF RowMoves, MarkKept, UpToDate
  <1>3. CASE Submit
    <2>1. /\ sbox[1] \in Mail /\ Head(sbox) = sbox[1] /\ sbox[1].cmd = "Submit"
          /\ 1 \in 1 .. Len(sbox) /\ sup.row = <<>>
      BY <1>1, <1>3, SupTaken DEF Submit
    <2>2. PICK j \in Job : j = sbox[1].job
      BY <2>1 DEF Mail, Request, Notice
    <2>3. Unknown(j)
      BY <2>1, <2>2 DEF Core, JobInv, SubmittedOnce, Submits
    <2> QED
      BY <1>2, <1>3, <2>1, <2>2, <2>3 DEF RowMoves, Submit, journals
  <1>4. CASE Remove
    <2>1. Head(sbox) = sbox[1] /\ sup.row = <<>>
      BY <1>1, <1>4, SupTaken DEF Remove
    <2> QED
      BY <1>0, <1>2, <1>4, <2>1 DEF RowMoves, Remove, journals
  <1>5. CASE StatusChanged
    <2>1. /\ Head(sbox) = sbox[1] /\ sbox[1].cmd = "JobStatusChanged"
          /\ 1 \in 1 .. Len(sbox) /\ sup.row = <<>>
      BY <1>1, <1>5, SupTaken DEF StatusChanged
    <2> QED
      BY <1>2, <1>5, <2>1 DEF RowMoves, StatusChanged, journals, Reported
  <1>6. CASE SupPersists \/ SupRefused
    BY <1>6, RowIsWritten DEF RowMoves
  <1>7. CASE Shutdown
    BY <1>0, <1>1, <1>7 DEF Shutdown, SupervisorOK, journals
  <1>8. CASE ShutdownDone
    BY <1>0, <1>1, <1>8 DEF ShutdownDone, SupervisorOK, journals
  <1>9. CASE PassOn \/ SupSubscribe \/ SupList
    BY <1>0, <1>9 DEF PassOn, SupSubscribe, SupList, journals
  <1> QED
    BY <1>3, <1>4, <1>5, <1>6, <1>7, <1>8, <1>9 DEF SupServes, Alone, SupStep

LEMMA RowsMove ==
  ASSUME Core, Attached, Serves
  PROVE  RowMoves
PROOF
  <1>1. SupServes \/ (\E j \in Job : JobServes(j)) \/ Others
    BY DEF Serves, Alone, Others
  <1>2. ASSUME NEW j \in Job, JobServes(j)
        PROVE  UNCHANGED <<reg, sup>> /\ \A k : MarkKept("row", k)
    <2>1. CASE JobPersisted(j) \/ JobRefused(j)
      <3>1. stale' \in {stale \ {<<"status", j>>}, stale \cup {<<"status", j>>}}
        BY <2>1 DEF JobPersisted, JobRefused, Refused
      <3> QED
        BY <2>1, <3>1 DEF JobPersisted, JobRefused, Refused, superv, MarkKept, UpToDate
    <2>2. CASE ~(JobPersisted(j) \/ JobRefused(j))
      <3>1. UNCHANGED <<reg, stale, sup>>
        BY <1>2, <2>2 DEF JobServes, Alone, JobStep, JobRecovers, JobStart, JobResume, JobStop,
           JobShutdown, OnWorkflowEvent, Forward, JobSubscribe, superv, journals
      <3> QED
        BY <3>1 DEF MarkKept, UpToDate
    <2> QED
      BY <2>1, <2>2
  <1>3. Others => UNCHANGED <<reg, sup>> /\ \A k : MarkKept("row", k)
    BY Sends DEF Others
  <1>4. (UNCHANGED <<reg, sup>> /\ \A k : MarkKept("row", k)) => RowMoves
    BY DEF RowMoves
  <1> QED
    BY <1>1, <1>2, <1>3, <1>4, SupMovesRow

LEMMA DroppedStays ==
  ASSUME Core, Attached, Serves, NEW k \in Job, LastWord(k), Dropped(k), job[k].phase # "down"
  PROVE  Dropped(k)'
PROOF
  <1>1. RowMoves
    BY RowsMove
  <1>2. ~BeingSubmitted(k) /\ RowEnds(k)
    BY DEF Dropped, Removed, LastWord, BeingSubmitted, RowEnds, Row, Status, Terminal
  <1>3. ASSUME reg'[k] = reg[k], MarkKept("row", k), ~BeingSubmitted(k)' PROVE Dropped(k)'
    BY <1>3 DEF Dropped, Removed, Unwritten, MarkKept, UpToDate
  <1>4. UNCHANGED <<reg, stale>> => reg'[k] = reg[k] /\ MarkKept("row", k)
    BY DEF MarkKept, UpToDate
  <1>5. CASE reg' = reg /\ sup'.row = sup.row /\ \A j : MarkKept("row", j)
    BY <1>2, <1>3, <1>5 DEF BeingSubmitted
  <1>6. CASE (SupPersists \/ SupRefused) /\ sup'.row = <<>>
    <2>1. PICK j \in Job, s \in Status \cup {"absent"} : sup.row = <<j, s>> /\ RowWritten(j, s)
      BY <1>6, RowIsWritten
    <2>2. reg \in [Job -> Status \cup {"absent"}] /\ ~BeingSubmitted(k)'
      BY <1>6 DEF Core, TypeOK, SupervisorOK, BeingSubmitted
    <2>3. CASE j # k
      <3>1. reg'[k] = reg[k] /\ MarkKept("row", k)
        BY <2>1, <2>2, <2>3 DEF RowWritten, MarkKept, UpToDate
      <3> QED
        BY <1>3, <2>2, <3>1
    <2>4. CASE j = k
      <3>1. reg[k] \in Terminal /\ Unwritten(k) /\ s = "absent"
        BY <2>1, <2>4 DEF Dropped, LastWord, Row
      <3>2. \/ reg'[k] = "absent" /\ ~Unwritten(k)'
            \/ reg'[k] = reg[k] /\ Unwritten(k)'
        BY <2>1, <2>2, <2>4, <3>1 DEF RowWritten, Unwritten, Terminal
      <3> QED
        BY <2>2, <3>1, <3>2 DEF Dropped, Removed
    <2> QED
      BY <2>3, <2>4
  <1>7. CASE UNCHANGED <<reg, stale>> /\ sup'.row = <<sbox[1].job, "Running">>
             /\ Unknown(sbox[1].job)
    <2>1. sbox[1].job # k
      BY <1>7 DEF Unknown
    <2> QED
      BY <1>3, <1>4, <1>7, <2>1 DEF BeingSubmitted
  <1>8. CASE UNCHANGED <<reg, stale>> /\ sup'.row = <<sbox[1].job, "absent">>
    BY <1>3, <1>4, <1>8 DEF BeingSubmitted
  <1>9. CASE /\ UNCHANGED <<reg, stale>> /\ Reported(sbox[1].job, 1) /\ 1 \in 1 .. Len(sbox)
             /\ sup'.row = <<sbox[1].job, sbox[1].status>>
    <2>1. sbox[1].job # k
      BY <1>2, <1>9 DEF LastWord, Reported
    <2> QED
      BY <1>3, <1>4, <1>9, <2>1 DEF BeingSubmitted
  <1> QED
    BY <1>1, <1>5, <1>6, <1>7, <1>8, <1>9 DEF RowMoves

LEMMA ComeToStay ==
  ASSUME Core, Attached, FlowBoxOK, Serves, NEW k \in Job, job[k].phase # "down"
  PROVE  /\ job'[k].phase # "down"
         /\ job[k].phase = "ended" => job'[k].phase = "ended"
PROOF
  <1>1. PhaseOf(k)
    BY JobPhase
  <1>2. ~Unknown(k)
    BY DEF Unknown
  <1> QED
    BY <1>1, <1>2 DEF PhaseOf, Live, JobGoes

LEMMA LeftStays ==
  ASSUME Core, Attached, FlowBoxOK, Serves, NEW k \in Job, LastWord(k), Left(k),
         job[k].phase # "down"
  PROVE  Left(k)'
  BY DroppedStays, ComeToStay DEF Left

LEMMA RemoveOrphans ==
  ASSUME Core, Remove, NEW k \in children
  PROVE  k \in children' \/ sup'.row = <<k, "absent">>
PROOF
  <1>1. PICK j : j = Head(sbox).job
    OBVIOUS
  <1>2. CASE children' = children \ {j} /\ PersistsRow(j, "absent")
    <2>1. sup'.row = <<j, "absent">>
      BY <1>2 DEF PersistsRow, Core, TypeOK, SupervisorOK
    <2> QED
      BY <1>2, <2>1
  <1> QED
    BY <1>1, <1>2 DEF Remove

LEMMA EndsByItselfKept ==
  ASSUME Core, Attached, FlowBoxOK, Serves, NoShutdown,
         NEW k \in Job, LastWord(k), StopsAtEnd(k), EndsByItself(k)
  PROVE  EndsByItself(k)'
PROOF
  <1> SUFFICES ASSUME Calm'
               PROVE  /\ job'[k].phase = "ended" => jst'[k] \in Terminal \/ ~UpToDate("status", k)'
                      /\ job'[k].phase # "down" =>
                           k \in children' \/ sup'.row = <<k, "absent">> \/ Dropped(k)'
    BY DEF EndsByItself
  <1>1. Calm /\ ~Shutdown /\ ~JobShutdown(k)
    BY CalmBefore, NoShutdownTaken
  <1>2. PhaseOf(k)
    BY JobPhase
  <1>3. \/ jst'[k] = jst[k] /\ (MarkKept("status", k) \/ ~UpToDate("status", k)')
        \/ JobPersisted(k) /\ jst'[k] = job[k].eff
    BY RecordOf
  <1>4. ASSUME job'[k].phase = "ended" PROVE jst'[k] \in Terminal \/ ~UpToDate("status", k)'
    <2>1. CASE job[k].phase = "ended"
      BY <1>1, <1>3, <2>1 DEF EndsByItself, JobPersisted, MarkKept
    <2>3. CASE JobRefused(k)
      BY <2>3 DEF JobRefused, Refused, UpToDate
    <2>2. CASE JobPersisted(k) /\ job[k].phase = "persisting" /\ job[k].stop
      <3>1. jst'[k] = job[k].eff
        BY <2>2 DEF JobPersisted, Core, TypeOK, JobsOK
      <3> QED
        BY <2>2, <3>1 DEF StopsAtEnd
    <2> QED
      BY <1>1, <1>2, <1>4, <2>1, <2>2, <2>3 DEF PhaseOf, JobGoes, Live
  <1>5. ASSUME job'[k].phase # "down", ~(Submit /\ k \in children')
        PROVE  k \in children' \/ sup'.row = <<k, "absent">> \/ Dropped(k)'
    <2>1. job[k].phase # "down"
      BY <1>2, <1>5 DEF PhaseOf, JobGoes, JobShutdown, JobTakes, Live
    <2>2. CASE Dropped(k)
      BY <2>1, <2>2, DroppedStays
    <2>3. CASE sup.row = <<k, "absent">>
      <3>1. CASE (SupPersists \/ SupRefused) /\ sup'.row = <<>>
        <4>1. PICK j \in Job, s \in Status \cup {"absent"} : sup.row = <<j, s>> /\ RowWritten(j, s)
          BY <3>1, RowIsWritten
        <4>2. j = k /\ s = "absent" /\ reg \in [Job -> Status \cup {"absent"}]
          BY <2>3, <4>1 DEF Core, TypeOK, SupervisorOK
        <4>3. reg[k] \in Terminal
          BY <2>3 DEF LastWord, Row
        <4> QED
          BY <3>1, <4>1, <4>2, <4>3 DEF RowWritten, Dropped, Removed, BeingSubmitted, Unwritten
      <3> QED
        BY <2>3, <3>1, RowsMove DEF RowMoves
    <2>4. CASE k \in children
      <3>1. CASE SupServes
        <4>1. CASE Remove
          BY <2>4, <4>1, RemoveOrphans
        <4> QED
          BY <1>1, <2>4, <3>1, <4>1 DEF SupServes, Alone, SupStep, Submit, PassOn, StatusChanged,
             SupPersists, SupRefused, ShutdownDone, SupSubscribe, SupList
      <3>2. ASSUME NEW j \in Job, JobServes(j) PROVE children' = children
        BY <3>2 DEF JobServes, Alone, JobStep, JobRecovers, JobStart, JobResume, JobStop,
           JobShutdown, OnWorkflowEvent, JobPersisted, JobRefused, Forward, JobSubscribe, superv
      <3>3. Others => children' = children
        BY Sends DEF Others
      <3>4. SupServes \/ (\E j \in Job : JobServes(j)) \/ Others
        BY DEF Serves, Alone, Others
      <3> QED
        BY <2>4, <3>1, <3>2, <3>3, <3>4
    <2> QED
      BY <1>1, <2>1, <2>2, <2>3, <2>4 DEF EndsByItself
  <1> QED
    BY <1>4, <1>5

-----------------------------------------------------------------------------
(* The client gets on only as its job does.                                *)

(* What was sent for the client's job stays until it is taken.             *)
LEMMA SentStays ==
  ASSUME Core, Attached, Serves, NEW c, SentFor(c)
  PROVE  \/ SentFor(c)'
         \/ SupTook(c) /\ Head(sbox).job = Mine /\ sup.row = <<>>
PROOF
  <1>1. PICK i \in 1 .. Len(sbox) : sbox[i].cmd = c /\ sbox[i].job = Mine
    BY DEF SentFor
  <1>2. Mine' = Mine
    BY RunMoves DEF Mine
  <1>3. CASE sbox' = sbox
    BY <1>1, <1>2, <1>3 DEF SentFor
  <1>4. ASSUME NEW d, SupTook(d), i = 1
        PROVE  SupTook(c) /\ Head(sbox).job = Mine /\ sup.row = <<>>
    <2>1. sbox[1].cmd = d /\ sbox[1] = Head(sbox) /\ sup.row = <<>>
      BY <1>4, SupBox DEF Core, TypeOK
    <2> QED
      BY <1>1, <1>4, <2>1
  <1>5. ASSUME NEW d, SupTook(d), i # 1 PROVE SentFor(c)'
    <2>1. i - 1 \in 1 .. Len(sbox') /\ sbox'[i - 1] = sbox[i]
      BY <1>5, SupBox DEF Core, TypeOK
    <2> QED
      BY <1>1, <1>2, <2>1 DEF SentFor
  <1>6. ASSUME NEW e \in Mail, SupWasTold(e) PROVE SentFor(c)'
    <2>1. i \in 1 .. Len(sbox') /\ sbox'[i] = sbox[i]
      <3>1. Len(sbox) \in Nat /\ Len(sbox') = Len(sbox) + 1 /\ sbox'[i] = sbox[i]
        BY <1>6, SupBox DEF Core, TypeOK
      <3> QED
        BY <3>1
    <2> QED
      BY <1>1, <1>2, <2>1 DEF SentFor
  <1> QED
    BY <1>3, <1>4, <1>5, <1>6, SupMail

LEMMA Telling ==
  ASSUME Core, Attached, NEW c \in {"Submit", "Subscribe"},
         sbox' = Append(sbox, [cmd |-> c, job |-> Mine]), run'.job = run.job
  PROVE  SentFor(c)'
PROOF
  <1>1. PICK e : e = [cmd |-> c, job |-> Mine]
    OBVIOUS
  <1>2. e.cmd = c /\ e.job = Mine
    BY <1>1
  <1>3. e \in Mail
    BY <1>1 DEF Mail, Request, Attached, Mine
  <1>4. sbox \in Seq(Mail) /\ Len(sbox) \in Nat
    BY DEF Core, TypeOK, SupervisorOK
  <1>5. Len(sbox) + 1 \in 1 .. Len(sbox') /\ sbox'[Len(sbox) + 1] = e
    BY <1>1, <1>3, <1>4
  <1> QED
    BY <1>2, <1>5 DEF SentFor, Mine

LEMMA JobIsThereKept ==
  ASSUME Core, Attached, FlowBoxOK, Serves, JobIsThere
  PROVE  JobIsThere'
PROOF
  <1> SUFFICES ASSUME Up'
               PROVE  /\ At({"submitting"})' => SentFor("Submit")' \/ job'[Mine'].phase # "down"
                      /\ At({"replaying", "asking", "following", "ended", "listing"})'
                           => job'[Mine'].phase # "down"
    BY DEF JobIsThere
  <1>1. Up /\ Mine' = Mine /\ Mine \in Job
    BY ServesInBetween, RunMoves DEF Mine, Attached
  <1>2. job[Mine].phase # "down" => job'[Mine].phase # "down"
    BY <1>1, ComeToStay
  <1>3. ASSUME SentFor("Submit") PROVE SentFor("Submit")' \/ job'[Mine].phase # "down"
    <2>1. CASE SupTook("Submit") /\ Head(sbox).job = Mine
      <3>1. job' = [job EXCEPT ![Mine] = [NoJob EXCEPT !.phase = "starting"]]
        BY <2>1 DEF SupTook, Submit
      <3>2. job'[Mine] = [NoJob EXCEPT !.phase = "starting"]
        BY <1>1, <3>1 DEF Core, TypeOK, JobsOK
      <3> QED
        BY <3>2 DEF NoJob
    <2> QED
      BY <1>3, <2>1, SentStays
  <1>4. ASSUME At({"submitting"})' PROVE SentFor("Submit")' \/ job'[Mine].phase # "down"
    <2>1. CASE run' = run
      BY <1>1, <1>2, <1>3, <1>4, <2>1 DEF JobIsThere, At
    <2>2. CASE RunSubmits
      <3>1. run'.job = run.job
        BY RunMoves
      <3> QED
        BY <2>2, <3>1, Telling DEF RunSubmits, ClientSubmits
    <2> QED
      BY <1>4, <2>1, <2>2, RunMoves DEF At
  <1>5. ASSUME At({"replaying", "asking", "following", "ended", "listing"})'
        PROVE  job'[Mine].phase # "down"
    <2>1. At({"replaying", "asking", "following", "ended", "listing"}) \/ RunSubmitted
      BY <1>5, RunMoves DEF At, AskSubscription, NoSubscription, StreamEnds, AskList
    <2>2. CASE RunSubmitted
      <3>1. ~SentFor("Submit")
        <4>1. DOMAIN sbox = 1 .. Len(sbox)
          BY DEF Core, TypeOK, SupervisorOK
        <4> QED
          BY <2>2, <4>1 DEF RunSubmitted, Queued, SentFor
      <3> QED
        BY <1>1, <1>2, <2>2, <3>1 DEF RunSubmitted, JobIsThere
    <2> QED
      BY <1>1, <1>2, <2>1, <2>2 DEF JobIsThere
  <1> QED
    BY <1>1, <1>4, <1>5

(* A job that is asked keeps the question until it takes it or ends.       *)
LEMMA AskedStays ==
  ASSUME Core, Attached, FlowBoxOK, Serves, NEW k \in Job, Asked(k), job[k].phase # "down"
  PROVE  Asked(k)' \/ job'[k].phase = "ended" \/ JobSubscribe(k)
PROOF
  <1>1. PICK i \in 1 .. Len(jbox[k]) : jbox[k][i] = "Subscribe"
    BY DEF Asked
  <1>2. JobMailOf(k) /\ JobsOK
    BY JobMailbox DEF Core, TypeOK
  <1>3. CASE jbox'[k] = jbox[k]
    BY <1>1, <1>3 DEF Asked
  <1>4. CASE JobTookIt(k)
    <2>1. i = 1 => JobSubscribe(k)
      BY <1>1, <1>2, <1>4, JobBox
    <2>2. i # 1 => i - 1 \in 1 .. Len(jbox'[k]) /\ jbox'[k][i - 1] = jbox[k][i]
      BY <1>2, <1>4, JobBox
    <2> QED
      BY <1>1, <2>1, <2>2 DEF Asked
  <1>5. CASE JobWasTold(k)
    <2>1. PICK c \in JobMail : jbox'[k] = ToJob(k, c)
      BY <1>5 DEF JobWasTold
    <2>2. i \in 1 .. Len(jbox'[k]) /\ jbox'[k][i] = jbox[k][i]
      BY <1>2, <2>1, JobBox
    <2> QED
      BY <1>1, <2>2 DEF Asked
  <1>6. ~Unknown(k)
    BY DEF Unknown
  <1> QED
    BY <1>2, <1>3, <1>4, <1>5, <1>6 DEF JobMailOf

LEMMA EndIsSeenKept ==
  ASSUME Core, Attached, FlowBoxOK, Serves, JobIsThere, EndIsSeen,
         LastWord(Mine), EndsByItself(Mine)
  PROVE  EndIsSeen'
PROOF
  <1> SUFFICES ASSUME Up', client' = "none"
               PROVE  /\ At({"asking"})' => SentFor("Subscribe")' \/ Asked(Mine)' \/ Left(Mine)'
                      /\ At({"ended", "listing"})' => Left(Mine)'
    BY DEF EndIsSeen
  <1>1. Up /\ Mine' = Mine /\ Mine \in Job /\ client = "none"
    BY ServesInBetween, RunMoves, CalmBefore DEF Mine, Attached
  <1>2. ASSUME At({"asking", "following", "ended", "listing"}), Left(Mine) PROVE Left(Mine)'
    <2>1. job[Mine].phase # "down"
      BY <1>1, <1>2 DEF JobIsThere, At
    <2>2. PICK k \in Job : k = Mine
      BY <1>1
    <2>3. Left(k)'
      BY <1>2, <2>1, <2>2, LeftStays
    <2> QED
      BY <1>1, <2>2, <2>3 DEF Left, Dropped, Removed, BeingSubmitted, Unwritten
  <1>3. ASSUME At({"asking"})'
        PROVE  SentFor("Subscribe")' \/ Asked(Mine)' \/ Left(Mine)'
    <2>1. CASE AskSubscription
      <3>1. run'.job = run.job
        BY RunMoves
      <3> QED
        BY <2>1, <3>1, Telling DEF AskSubscription, Tell
    <2>2. CASE run' = run
      <3>1. At({"asking"}) /\ At({"asking", "following", "ended", "listing"})
        BY <1>3, <2>2 DEF At
      <3>2. job[Mine].phase # "down"
        BY <1>1, <3>1 DEF JobIsThere, At
      <3>3. CASE SentFor("Subscribe")
        <4>1. CASE SupTook("Subscribe") /\ Head(sbox).job = Mine /\ sup.row = <<>>
          <5>1. jbox'[Mine] = IF Mine \in children THEN ToJob(Mine, "Subscribe") ELSE jbox[Mine]
            BY <1>1, <4>1 DEF SupTook, SupSubscribe, Core, TypeOK, JobsOK
          <5>2. CASE Mine \in children /\ job[Mine].phase \in Live
            <6>1. "Subscribe" \in JobMail /\ JobsOK
              BY DEF JobMail, Core, TypeOK
            <6>2. \E i \in 1 .. Len(jbox'[Mine]) : jbox'[Mine][i] = "Subscribe"
              BY <1>1, <5>1, <5>2, <6>1, JobBox
            <6> QED
              BY <1>1, <6>2 DEF Asked
          <5>3. CASE job[Mine].phase \notin Live
            <6>1. job[Mine].phase \in Live \cup {"down", "ended"}
              BY <1>1 DEF Core, TypeOK, JobsOK
            <6> QED
              BY <1>2, <3>1, <3>2, <5>3, <6>1 DEF Left
          <5>4. CASE Mine \notin children
            <6>1. Dropped(Mine)
              BY <1>1, <3>2, <4>1, <5>4 DEF EndsByItself, Calm
            <6> QED
              BY <1>2, <3>1, <6>1 DEF Left
          <5> QED
            BY <5>2, <5>3, <5>4
        <4> QED
          BY <3>3, <4>1, SentStays
      <3>4. CASE Asked(Mine)
        <4>1. CASE JobSubscribe(Mine)
          BY <1>1, <2>2, <3>1, <4>1 DEF JobSubscribe, At, Attached, Mine
        <4>2. job'[Mine].phase = "ended" => Left(Mine)'
          BY <1>1 DEF Left
        <4>3. (\E i \in 1 .. Len(jbox'[Mine]) : jbox'[Mine][i] = "Subscribe") => Asked(Mine)'
          BY <1>1 DEF Asked
        <4> QED
          BY <1>1, <3>2, <3>4, <4>1, <4>2, <4>3, AskedStays DEF Asked
      <3> QED
        BY <1>1, <1>2, <3>1, <3>3, <3>4 DEF EndIsSeen
    <2> QED
      BY <1>3, <2>1, <2>2, RunMoves DEF At
  <1>4. ASSUME At({"ended", "listing"})' PROVE Left(Mine)'
    <2>1. CASE At({"ended", "listing"})
      BY <1>1, <1>2, <2>1 DEF EndIsSeen, At
    <2>2. CASE NoSubscription
      <3>1. At({"asking"}) /\ ~SentFor("Subscribe")
        <4>1. DOMAIN sbox = 1 .. Len(sbox)
          BY DEF Core, TypeOK, SupervisorOK
        <4> QED
          BY <2>2, <4>1 DEF NoSubscription, Queued, SentFor
      <3>2. ~Asked(Mine)
        <4>1. DOMAIN jbox[Mine] = 1 .. Len(jbox[Mine])
          <5>1. jbox[Mine] \in Seq(JobMail)
            BY <1>1 DEF Core, TypeOK, JobsOK
          <5> QED
            BY <5>1
        <4> QED
          BY <2>2, <4>1 DEF NoSubscription, Asked
      <3> QED
        BY <1>1, <1>2, <3>1, <3>2 DEF EndIsSeen, At
    <2>3. CASE StreamEnds
      <3>1. job[Mine].phase \in Live \cup {"down", "ended"}
        BY <1>1 DEF Core, TypeOK, JobsOK
      <3>2. job[Mine].phase = "ended"
        BY <1>1, <2>3, <3>1 DEF StreamEnds, JobIsThere, At
      <3> QED
        BY <1>2, <2>3, <3>2 DEF Left, StreamEnds, At
    <2> QED
      BY <1>4, <2>1, <2>2, <2>3, RunMoves DEF At, AskList
  <1> QED
    BY <1>3, <1>4

LEMMA ListedLastKept ==
  ASSUME Core, Attached, FlowBoxOK, Serves, JobIsThere, EndIsSeen, ListedLast, Up'
  PROVE  ListedLast'
PROOF
  <1>1. Up /\ Mine' = Mine /\ Mine \in Job /\ Len(sbox) \in Nat
    BY ServesInBetween, RunMoves DEF Mine, Attached, Core, TypeOK, SupervisorOK
  <1>2. ASSUME NEW i \in 1 .. Len(sbox), sbox[i].cmd = "List", ~SupList
        PROVE  At({"listing"})'
    <2>1. At({"listing"})
      BY <1>2 DEF ListedLast
    <2> QED
      BY <1>2, <2>1, RunMoves DEF At, RunSubmits, RunSubmitted, AskSubscription, NoSubscription,
         StreamEnds, AskList, NoDaemon
  <1>3. CASE sbox' = sbox
    <2>1. ~SupList
      <3> SUFFICES ASSUME SupList PROVE FALSE
        OBVIOUS
      <3>1. SupTook("List")
        BY DEF SupList, SupTook
      <3>2. sbox' = Tail(sbox) /\ sbox # <<>> /\ sbox \in Seq(Mail)
        BY DEF SupList, SupTakes, Core, TypeOK, SupervisorOK
      <3> QED
        BY <1>3, <3>2, Taken
    <2> QED
      BY <1>1, <1>2, <1>3, <2>1, CalmBefore DEF ListedLast, Reported
  <1>4. ASSUME NEW c, SupTook(c) PROVE ListedLast'
    <2>1. /\ 1 \in 1 .. Len(sbox) /\ sbox[1].cmd = c
          /\ \A i \in 1 .. Len(sbox') : i + 1 \in 1 .. Len(sbox) /\ sbox'[i] = sbox[i + 1]
      BY <1>4, SupBox DEF Core, TypeOK
    <2>2. ASSUME NEW i \in 1 .. Len(sbox'), sbox'[i].cmd = "List"
          PROVE  /\ At({"listing"})'
                 /\ \A k \in 1 .. Len(sbox') : sbox'[k].cmd = "List" => k = i
                 /\ client' = "none" => \A k \in 1 .. Len(sbox') : Reported(Mine, k)' => k < i
      <3>1. i + 1 \in 1 .. Len(sbox) /\ sbox[i + 1].cmd = "List" /\ i + 1 # 1
        BY <2>1, <2>2
      <3>2. ~SupList
        <4> SUFFICES ASSUME SupList PROVE FALSE
          OBVIOUS
        <4>1. sbox[1].cmd = "List"
          BY SupTaken DEF SupList, Core, TypeOK
        <4> QED
          BY <2>1, <3>1, <4>1 DEF ListedLast
      <3>3. ASSUME NEW k \in 1 .. Len(sbox'), sbox'[k].cmd = "List" PROVE k = i
        <4>1. k + 1 \in 1 .. Len(sbox) /\ sbox[k + 1].cmd = "List"
          BY <2>1, <3>3
        <4>2. k + 1 = i + 1
          BY <3>1, <4>1 DEF ListedLast
        <4> QED
          BY <4>2
      <3>4. ASSUME client' = "none", NEW k \in 1 .. Len(sbox'), Reported(Mine, k)' PROVE k < i
        <4>1. k + 1 \in 1 .. Len(sbox) /\ Reported(Mine, k + 1) /\ client = "none"
          BY <1>1, <2>1, <3>4, CalmBefore DEF Reported
        <4>2. k + 1 < i + 1
          BY <3>1, <4>1 DEF ListedLast
        <4> QED
          BY <4>2
      <3> QED
        BY <1>2, <3>1, <3>2, <3>3, <3>4
    <2> QED
      BY <2>2 DEF ListedLast
  <1>5. ASSUME NEW e \in Mail, SupWasTold(e) PROVE ListedLast'
    <2>1. /\ Len(sbox') = Len(sbox) + 1
          /\ sbox'[Len(sbox) + 1] = e /\ \A i \in 1 .. Len(sbox) : sbox'[i] = sbox[i]
          /\ \A i \in 1 .. Len(sbox') : i \in 1 .. Len(sbox) \/ i = Len(sbox) + 1
      BY <1>5, SupBox DEF Core, TypeOK
    <2>2. ~SupList
      <3> SUFFICES ASSUME SupList PROVE FALSE
        OBVIOUS
      <3>1. sbox' = Tail(sbox) /\ sbox # <<>> /\ sbox \in Seq(Mail)
        BY DEF SupList, SupTakes, Core, TypeOK, SupervisorOK
      <3> QED
        BY <1>1, <2>1, <3>1, Taken
    <2>3. CASE e.cmd = "List"
      <3>1. AskList
        BY <1>5, <2>3 DEF SupWasTold
      <3>2. run'.at = "listing" /\ At({"ended"})
        BY <3>1 DEF AskList, Goes, Attached
      <3>3. \A i \in 1 .. Len(sbox) : sbox[i].cmd # "List"
        BY <3>2 DEF ListedLast, At
      <3>4. \A i \in 1 .. Len(sbox') : sbox'[i].cmd = "List" => i = Len(sbox) + 1
        BY <2>1, <3>3
      <3>5. \A k \in 1 .. Len(sbox') : Reported(Mine, k)' => k \in 1 .. Len(sbox)
        BY <2>1, <2>3 DEF Reported
      <3>6. ASSUME NEW i \in 1 .. Len(sbox'), sbox'[i].cmd = "List"
            PROVE  /\ \A k \in 1 .. Len(sbox') : sbox'[k].cmd = "List" => k = i
                   /\ \A k \in 1 .. Len(sbox') : Reported(Mine, k)' => k < i
        BY <1>1, <3>4, <3>5, <3>6
      <3> QED
        BY <3>2, <3>6 DEF ListedLast, At
    <2>4. CASE e.cmd # "List"
      <3>1. ASSUME NEW i \in 1 .. Len(sbox'), sbox'[i].cmd = "List"
            PROVE  /\ At({"listing"})'
                   /\ \A k \in 1 .. Len(sbox') : sbox'[k].cmd = "List" => k = i
                   /\ client' = "none" => \A k \in 1 .. Len(sbox') : Reported(Mine, k)' => k < i
        <4>1. i \in 1 .. Len(sbox) /\ sbox[i].cmd = "List"
          BY <2>1, <2>4, <3>1
        <4>2. At({"listing"})'
          BY <1>2, <2>2, <4>1
        <4>3. \A k \in 1 .. Len(sbox') : sbox'[k].cmd = "List" => k = i
          BY <2>1, <2>4, <4>1 DEF ListedLast
        <4>4. ASSUME client' = "none", NEW k \in 1 .. Len(sbox'), Reported(Mine, k)' PROVE k < i
          <5>1. client = "none"
            BY <4>4, CalmBefore
          <5>2. CASE k \in 1 .. Len(sbox)
            <6>1. Reported(Mine, k)
              BY <1>1, <2>1, <4>4, <5>2 DEF Reported
            <6> QED
              BY <4>1, <5>1, <5>2, <6>1 DEF ListedLast
          <5>3. CASE k = Len(sbox) + 1
            <6>1. ~Over(Mine)
              BY <1>1, <1>5, <2>1, <4>4, <5>3 DEF Reported, SupWasTold
            <6>2. Left(Mine)
              BY <1>1, <4>1, <5>1 DEF ListedLast, EndIsSeen, At
            <6>3. EndedIsOver(Mine)
              BY <1>1 DEF Core, JobInv
            <6> QED
              BY <6>1, <6>2, <6>3 DEF Left, Dropped, Removed, EndedIsOver, Over
          <5> QED
            BY <2>1, <4>4, <5>2, <5>3
        <4> QED
          BY <4>2, <4>3, <4>4
      <3> QED
        BY <3>1 DEF ListedLast
    <2> QED
      BY <2>3, <2>4
  <1> QED
    BY <1>3, <1>4, <1>5, SupMail

-----------------------------------------------------------------------------
(* The exit code is true.                                                  *)

LEMMA ServesExit ==
  ASSUME Core, Core', Attached, FlowBoxOK, ExitInv, Serves
  PROVE  ExitInv'
PROOF
  <1>1. Mine \in Job
    BY DEF Attached, Mine
  <1>2. ASSUME NEW k \in Job PROVE LastWord(k)' /\ StopsAtEnd(k)' /\ EndsByItself(k)'
    BY <1>2, ServesLast, StopsAtEndKept, EndsByItselfKept DEF ExitInv
  <1>3. NoShutdown' /\ JobIsThere'
    BY NoShutdownKept, JobIsThereKept DEF ExitInv
  <1>4. EndIsSeen'
    BY <1>1, EndIsSeenKept DEF ExitInv
  <1>5. ListedLast'
    <2>1. CASE Up'
      BY <2>1, ListedLastKept DEF ExitInv
    <2>2. CASE ~Up'
      <3>1. sbox' = <<>>
        BY <2>2 DEF Up, Core, DownIsEmpty
      <3>2. 1 .. Len(sbox') = {}
        BY <3>1
      <3> QED
        BY <3>2 DEF ListedLast
    <2> QED
      BY <2>1, <2>2
  <1> QED
    BY <1>2, <1>3, <1>4, <1>5 DEF ExitInv

(* Over a start or an end of the daemon nothing is under way, and nobody   *)
(* waits.                                                                  *)
LEMMA BetweenExit ==
  ASSUME Core, sbox = <<>>, sup.row = <<>>, ~Up \/ At({"off", "idle"}),
         \A j \in Job : /\ jbox[j] = <<>> /\ job[j].phase \in {"down", "starting"}
                        /\ job[j].phase = "starting" => j \in children
  PROVE  ExitInv
PROOF
  <1>1. 1 .. Len(sbox) = {} /\ \A j \in Job : 1 .. Len(jbox[j]) = {}
    OBVIOUS
  <1>2. ASSUME NEW j \in Job PROVE LastWord(j) /\ StopsAtEnd(j) /\ EndsByItself(j)
    <2>1. \A s \in Row : sup.row # <<j, s>>
      OBVIOUS
    <2> QED
      BY <1>1, <2>1 DEF LastWord, StopsAtEnd, EndsByItself
  <1> QED
    BY <1>1, <1>2 DEF ExitInv, NoShutdown, JobIsThere, EndIsSeen, ListedLast, At

LEMMA NextExit ==
  ASSUME Core, Core', Attached, Attached', FlowBoxOK, ExitInv, [AttachedNext]_allvars
  PROVE  ExitInv'
PROOF
  <1>1. CASE At({"off", "idle"}) /\ Alone(Boot)
    <2>1. UNCHANGED <<sbox, jbox, run>> /\ ~Up /\ sup' = [NoSup EXCEPT !.phase = "ready"]
      BY <1>1 DEF Boot, Alone, Up
    <2>2. sbox' = <<>> /\ sup'.row = <<>> /\ At({"off", "idle"})'
      BY <1>1, <2>1 DEF Core, DownIsEmpty, Up, NoSup, At
    <2>3. ASSUME NEW j \in Job
          PROVE  /\ jbox'[j] = <<>> /\ job'[j].phase \in {"down", "starting"}
                 /\ job'[j].phase = "starting" => j \in children'
      <3>1. job[j].phase = "down" /\ jbox[j] = <<>>
        BY <2>1 DEF Core, DownIsEmpty, Up, JobInv, EffectsOK, Live
      <3>2. job'[j] = IF j \in children' THEN [NoJob EXCEPT !.phase = "starting"] ELSE job[j]
        BY <1>1 DEF Boot, Alone
      <3>3. CASE j \in children'
        BY <2>1, <3>1, <3>2, <3>3 DEF NoJob
      <3>4. CASE j \notin children'
        BY <2>1, <3>1, <3>2, <3>4
      <3> QED
        BY <3>3, <3>4
    <2>4. (/\ sbox = <<>> /\ sup.row = <<>> /\ (~Up \/ At({"off", "idle"}))
           /\ \A j \in Job : /\ jbox[j] = <<>> /\ job[j].phase \in {"down", "starting"}
                             /\ job[j].phase = "starting" => j \in children)'
      BY <2>2, <2>3
    <2> QED
      BY <2>4, BetweenExit, PTL
  <1>2. CASE Serves
    BY <1>2, ServesExit
  <1>3. CASE Gone
    <2>1. /\ sbox' = <<>> /\ sup'.row = <<>> /\ ~Up'
          /\ \A j \in Job : jbox'[j] = <<>> /\ job'[j].phase = "down"
      BY <1>3 DEF Gone, NoSup, NoJob, Up
    <2>2. (/\ sbox = <<>> /\ sup.row = <<>> /\ (~Up \/ At({"off", "idle"}))
           /\ \A j \in Job : /\ jbox[j] = <<>> /\ job[j].phase \in {"down", "starting"}
                             /\ job[j].phase = "starting" => j \in children)'
      BY <2>1
    <2> QED
      BY <2>2, BetweenExit, PTL
  <1> QED
    BY <1>1, <1>2, <1>3, EveryStep

LEMMA InitExit == AttachedInit /\ Core => ExitInv
PROOF
  <1> SUFFICES ASSUME AttachedInit, Core PROVE ExitInv
    OBVIOUS
  <1>1. /\ sbox = <<>> /\ sup.row = <<>> /\ ~Up
        /\ \A j \in Job : jbox[j] = <<>> /\ job[j].phase = "down"
    BY DEF AttachedInit, Init, NoSup, NoJob, Up
  <1> QED
    BY <1>1, BetweenExit

LEMMA ListTells ==
  ASSUME Core, Attached, StoryInv, ExitInv, SupList, client = "none",
         UpToDate("row", Mine), UpToDate("status", Mine)
  PROVE  \/ /\ run'.status \in Terminal
            /\ run'.status = jst[Mine]
            /\ (Code' = 1) = (jst[Mine] = "Failed")
         \/ run'.status = "absent"
PROOF
  <1>1. /\ 1 \in 1 .. Len(sbox) /\ sbox[1].cmd = "List" /\ sup.phase = "ready" /\ sup.row = <<>>
    BY SupTaken DEF SupList, Core, TypeOK
  <1>2. Up /\ At({"listing"}) /\ Mine \in Job
    BY <1>1 DEF ExitInv, ListedLast, Up, Attached, Mine
  <1>3. \A i \in 1 .. Len(sbox) : ~Reported(Mine, i)
    <2>1. \A i \in 1 .. Len(sbox) : Reported(Mine, i) => i < 1
      BY <1>1 DEF ExitInv, ListedLast
    <2> QED
      BY <2>1
  <1>4. run'.status = reg[Mine]
    BY DEF SupList, Attached
  <1>5. Left(Mine)
    BY <1>2 DEF ExitInv, EndIsSeen, At
  <1>6. CASE Dropped(Mine)
    BY <1>4, <1>6 DEF Dropped, Removed, Unwritten, UpToDate
  <1>7. CASE job[Mine].phase = "ended"
    <2>1. jst[Mine] \in Terminal
      BY <1>2, <1>7 DEF ExitInv, EndsByItself, Calm
    <2>2. jbox[Mine] = <<>>
      BY <1>2, <1>7 DEF Core, JobInv, EffectsOK, Live
    <2>3. ~Starting(Mine) /\ Recorded(Mine) = jst[Mine]
      BY <1>7, <2>2 DEF Starting, Recorded, JobRec
    <2>4. RowIsRecorded(Mine)
      BY <1>2 DEF StoryInv, Unbroken, Story, At, OnItsWay
    <2>5. reg[Mine] \in {"absent", jst[Mine]}
      <3>1. jst[Mine] # "lost"
        BY <2>1 DEF Terminal
      <3> QED
        BY <1>1, <1>3, <2>3, <2>4, <3>1 DEF RowIsRecorded, RowOf, RowRec, Fitting
    <2>6. (Code' = 1) = (run'.status = "Failed")
      BY DEF Code
    <2> QED
      BY <1>4, <2>1, <2>5, <2>6
  <1> QED
    BY <1>5, <1>6, <1>7 DEF Left

LEMMA ListIsTheEnd ==
  ASSUME Core, Attached, StoryInv, ExitInv, [AttachedNext]_allvars,
         run.at # "done", run'.at = "done", client = "none",
         UpToDate("row", Mine), UpToDate("status", Mine)
  PROVE  \/ /\ run'.status \in Terminal
            /\ run'.status = jst[Mine]
            /\ (Code' = 1) = (jst[Mine] = "Failed")
         \/ run'.status = "absent"
PROOF
  <1>1. CASE At({"off", "idle"}) /\ Alone(Boot)
    BY <1>1 DEF Alone
  <1>2. CASE Serves
    BY <1>2, RunMoves, ListTells
  <1>3. CASE Exit /\ Cut
    BY <1>3 DEF Exit
  <1>4. CASE Kill /\ Cut
    BY <1>4 DEF Cut, Attached, At
  <1> QED
    BY <1>1, <1>2, <1>3, <1>4 DEF AttachedNext, Serves

(* Whoever else asks what of whichever jobs, and however often the daemon  *)
(* dies and starts: without a drain or a shutdown the status an attached   *)
(* client reads after its stream has ended is the one its job recorded at  *)
(* its end, or none when the job was removed, and its exit code says so -  *)
(* whichever writes were refused, unless the last one of the job's status  *)
(* or of its row was.                                                      *)
THEOREM ExitCodeIsTrue == AttachedSpec => ExitIsTrue
PROOF
  <1>1. AttachedInit => Core /\ Attached /\ StoryInv /\ ExitInv
    BY InitCore, InitStory, InitExit DEF AttachedInit, Attached, Where
  <1>2. Core /\ Attached /\ StoryInv /\ ExitInv /\ [AttachedNext]_allvars
          => (Core /\ Attached /\ StoryInv /\ ExitInv)'
    BY NextCore, NextAttached, NextStory, NextExit DEF StoryInv
  <1>3. Core /\ Attached /\ StoryInv /\ ExitInv /\ [AttachedNext]_allvars
          => [/\ run.at # "done" /\ run'.at = "done"
              /\ client = "none" /\ UpToDate("row", Mine) /\ UpToDate("status", Mine)
              => \/ /\ run'.status \in Terminal
                    /\ run'.status = jst[Mine]
                    /\ (Code' = 1) = (jst[Mine] = "Failed")
                 \/ run'.status = "absent"]_allvars
    BY ListIsTheEnd
  <1> QED
    BY <1>1, <1>2, <1>3, PTL DEF AttachedSpec, ExitIsTrue
=============================================================================
