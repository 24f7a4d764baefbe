------------------------------ MODULE AgentLoop ------------------------------
(***************************************************************************)
(* One agent session: the turn loop of agentcore (Agent::run), the retries *)
(* around it, and the actor that journals what the loop emits and rebuilds *)
(* the conversation after a restart.                                       *)
(*                                                                         *)
(* The loop keeps the conversation in memory and the actor keeps a second  *)
(* one, the fold of its journal.  The two are not the same: nudges, the    *)
(* answers to a rejected hand-over and what recovery synthesizes are in    *)
(* memory only, and a retry starts over from what it was given.  A         *)
(* provider accepts a conversation only if every tool call is answered,    *)
(* so the question is which conversations are sent to it.                  *)
(*                                                                         *)
(* The model of the workflow around a session is WorkflowRun; here the     *)
(* workflow sends a command only to a session without a run.  The journal  *)
(* does not fail (ActorRuntime and FileJournal are about that).            *)
(***************************************************************************)
EXTENDS Integers, Sequences, FiniteSets, SequencesExt, FiniteSetsExt

CONSTANTS Params,            \* the settings a session may have
          Turns,             \* what the model may answer: sequences of calls
          MaxIterations,     \* AgentConfig.max_iterations
          StuckThreshold,    \* AgentConfig.stuck_threshold
          NudgeThreshold,    \* AgentConfig.nudge_threshold
          HandoffMaxRetries, \* AgentConfig.handoff_max_retries
          MaxRetries,        \* AgentParams.max_retries
          MaxMade,           \* bound: answers of the model, then it only fails
          MaxInputs,         \* bound: commands that start a run
          MaxCancels,        \* bound: Cancel commands
          MaxCrashes         \* bound: deaths of the process

(* The three ways to call `conclude`: a question, an output, and an input  *)
(* that its schema refuses.                                                *)
Conclude == {"ask", "submit", "badly"}

(* AgentBuilder::build refuses other thresholds. *)
ASSUME ThresholdAssumption ==
  /\ {MaxIterations, StuckThreshold, NudgeThreshold, HandoffMaxRetries,
      MaxRetries, MaxMade, MaxInputs, MaxCancels, MaxCrashes} \subseteq Nat
  /\ 0 < NudgeThreshold /\ NudgeThreshold < StuckThreshold

ASSUME ParamsAssumption == Params \subseteq [output : BOOLEAN, ask : BOOLEAN]

ASSUME TurnsAssumption == Turns \subseteq Seq(STRING)

VARIABLES params,   \* AgentParams: output schema, may ask
          messages, \* AgentState: the conversation folded from the journal
          queue,    \* emitted messages on their way to the journal
          actor,    \* "idle", "running", "stopped" or "down"
          waiting,  \* the call an idle session waits an answer to, or NoCall
          run,      \* the run in progress
          made,     \* number of messages of the model so far
          inputs, cancels, crashes

vars == <<params, messages, queue, actor, waiting, run, made,
          inputs, cancels, crashes>>

-----------------------------------------------------------------------------
(* Messages.  The n-th message of the model makes the calls <<n, 1>>,      *)
(* <<n, 2>> ...; a result names the call it answers.                       *)

User            == [role |-> "user"]
Assistant(n, t) == [role |-> "assistant", n |-> n, turn |-> t]
Result(n, c)    == [role |-> "tool", n |-> n, call |-> c]
Said(h)         == {i \in DOMAIN h : h[i].role = "assistant"}

Message ==
  {User} \cup [role : {"assistant"}, n : Nat, turn : Turns]
         \cup [role : {"tool"}, n : Nat, call : Nat \ {0}]

(* Places of h at which call c of message n is answered. *)
Answers(h, n, c) == {j \in DOMAIN h : h[j] = Result(n, c)}

(* A result is sent on behalf of the message of the model it follows. *)
Follows(h, j) ==
  LET before == {i \in 1 .. j - 1 : h[i].role # "tool"}
  IN  /\ before # {}
      /\ Max(before) \in Said(h)
      /\ h[Max(before)].n = h[j].n

(* What a provider accepts: each call is answered once, at once. *)
WellFormed(h) ==
  /\ \A i \in Said(h) : \A c \in DOMAIN h[i].turn :
       Cardinality(Answers(h, h[i].n, c)) = 1
  /\ \A j \in DOMAIN h : h[j].role = "tool" => Follows(h, j)

-----------------------------------------------------------------------------
(* The pieces of the loop. *)

(* AgentParams::handoff_tool: the session must end with `conclude`. *)
Handoff == params.output \/ params.ask

(* find_tool_call_id: the last message of this attempt that concludes, and *)
(* the first such call in it.                                              *)
ConcludeCall(h, from) ==
  LET i == Max({k \in Said(h) : k > from /\ ToSet(h[k].turn) \cap Conclude # {}})
  IN  [n    |-> h[i].n,
       call |-> Min({c \in DOMAIN h[i].turn : h[i].turn[c] \in Conclude})]

(* validate_handoff: on its own, and with an input of the right shape. *)
Rejected(t) == Len(t) > 1 \/ t[1] = "badly"

(* interpret: what an accepted `conclude` means for this session. *)
Interpret(t) ==
  IF params.ask /\ (~params.output \/ t[1] = "ask") THEN "ask" ELSE "output"

(* A window that drops its oldest turn one too early. *)
RememberShort(prints, t) ==
  LET all == Append(prints, t)
  IN  IF Len(all) >= StuckThreshold THEN Tail(all) ELSE all

(* recent_fingerprints after the turn t: the last StuckThreshold turns. *)
Remember(prints, t) ==
  LET all == Append(prints, t)
  IN  IF Len(all) > StuckThreshold THEN Tail(all) ELSE all

AllSame(prints) == \A i, j \in DOMAIN prints : prints[i] = prints[j]

(* sanitize_for_resume: error results for the calls of the last message of *)
(* the model that have none.                                               *)
Dangling(h, last) ==
  LET upTo[c \in 0 .. Len(last.turn)] ==
        IF c = 0 THEN <<>>
        ELSE IF Answers(h, last.n, c) = {} THEN Append(upTo[c - 1], Result(last.n, c))
        ELSE upTo[c - 1]
  IN  upTo[Len(last.turn)]

Sanitized(h) ==
  IF Said(h) = {} THEN h ELSE h \o Dangling(h, h[Max(Said(h))])

NoRun  == [pc |-> "none"]
NoCall == [n |-> 0, call |-> 0]

(* A fresh Agent over the history `base`, as build and the head of run     *)
(* make it; `kind` says what started the run.                              *)
Attempt(kind, base, input, attempt, cancel) ==
  [pc |-> "top", kind |-> kind, base |-> base, input |-> input,
   history |-> Append(base, input), iteration |-> 0, prints |-> <<>>,
   rejections |-> 0, missing |-> 0, todo |-> {}, outcome |-> "none",
   attempt |-> attempt, cancel |-> cancel]

StartRun(kind, base, input) ==
  /\ actor' = "running"
  /\ run' = Attempt(kind, base, input, 0, FALSE)

Init ==
  /\ params \in Params
  /\ messages = <<>> /\ queue = <<>>
  /\ actor = "idle" /\ waiting = NoCall /\ run = NoRun
  /\ made = 0 /\ inputs = 0 /\ cancels = 0 /\ crashes = 0

-----------------------------------------------------------------------------
(* Commands of the workflow.  The input is journaled by the handler, and   *)
(* the run it starts gets the conversation without it.                     *)

OnRun ==
  /\ actor = "idle" /\ waiting = NoCall /\ inputs < MaxInputs
  /\ inputs' = inputs + 1
  /\ messages' = Append(messages, User)
  /\ StartRun("fresh", messages, User)
  /\ UNCHANGED <<params, queue, waiting, made, cancels, crashes>>

OnInjectToolResult ==
  /\ actor = "idle" /\ waiting # NoCall /\ inputs < MaxInputs
  /\ inputs' = inputs + 1
  /\ LET reply == Result(waiting.n, waiting.call)
     IN  /\ messages' = Append(messages, reply)
         /\ StartRun("reply", messages, reply)
  /\ UNCHANGED <<params, queue, waiting, made, cancels, crashes>>

OnCancel ==
  /\ actor = "running" /\ cancels < MaxCancels
  /\ cancels' = cancels + 1
  /\ run' = [run EXCEPT !.cancel = TRUE]
  /\ UNCHANGED <<params, messages, queue, actor, waiting, made, inputs, crashes>>

(* The forwarder and the PersistProgress handler: one emitted message, in  *)
(* the order of emission, becomes an event of the journal.                 *)
OnPersistProgress ==
  /\ actor = "running" /\ queue # <<>>
  /\ messages' = Append(messages, Head(queue))
  /\ queue' = Tail(queue)
  /\ UNCHANGED <<params, actor, waiting, run, made, inputs, cancels, crashes>>

-----------------------------------------------------------------------------
(* The run. *)

(* The run returns; the task waits for the forwarder and reports. *)
Ends(r, outcome) == run' = [r EXCEPT !.pc = "done", !.outcome = outcome]

StepFrame == UNCHANGED <<params, messages, actor, waiting, inputs, cancels, crashes>>

(* The head of the loop, up to the call of the provider. *)
BeginTurn ==
  /\ run.pc = "top"
  /\ \/ run.cancel /\ Ends(run, "cancelled")
     \/ ~run.cancel /\ run.iteration >= MaxIterations /\ Ends(run, "failed")
     \/ /\ ~run.cancel /\ run.iteration < MaxIterations
        /\ run' = [run EXCEPT !.pc = "call", !.iteration = @ + 1]
  /\ UNCHANGED <<queue, made>> /\ StepFrame

(* The provider fails: a new attempt from what the run was given, or the   *)
(* recoverable end.                                                        *)
ProviderFails ==
  /\ run.pc = "call"
  /\ \/ /\ run.attempt < MaxRetries
        /\ run' = Attempt(run.kind, run.base, run.input, run.attempt + 1, run.cancel)
     \/ run.attempt >= MaxRetries /\ Ends(run, "recoverable")
  /\ UNCHANGED <<queue, made>> /\ StepFrame

(* The provider answers t: the message is emitted and remembered, and r is *)
(* the run that goes on with it.                                           *)
Heard(t) == [run EXCEPT !.history = Append(@, Assistant(made + 1, t))]
Emit(t)  == queue' = Append(queue, Assistant(made + 1, t)) /\ made' = made + 1

(* A result for the first call only. *)
AnswerFirst(t) == <<Result(made + 1, 1)>>

(* The results, in order, for all the calls of the message just heard. *)
AnswerAll(t) == [c \in DOMAIN t |-> Result(made + 1, c)]

(* No tool call: the end, or a nudge if the session must conclude. *)
AnswersText(t) ==
  /\ run.pc = "call" /\ t = <<>>
  /\ \/ ~Handoff /\ Ends(Heard(t), "completed")
     \/ Handoff /\ run.missing >= HandoffMaxRetries /\ Ends(Heard(t), "failed")
     \/ /\ Handoff /\ run.missing < HandoffMaxRetries
        /\ run' = [Heard(t) EXCEPT !.pc = "top", !.missing = @ + 1,
                                   !.history = Append(@, User)]
  /\ Emit(t) /\ StepFrame

(* A call of `conclude`: the end, or a rejection told to every call. *)
AnswersConclude(t) ==
  /\ run.pc = "call" /\ Handoff /\ ToSet(t) \cap Conclude # {}
  /\ \/ ~Rejected(t) /\ Ends(Heard(t), Interpret(t))
     \/ Rejected(t) /\ run.rejections >= HandoffMaxRetries /\ Ends(Heard(t), "failed")
     \/ /\ Rejected(t) /\ run.rejections < HandoffMaxRetries
        /\ run' = [Heard(t) EXCEPT !.pc = "top", !.rejections = @ + 1,
                                   !.history = @ \o AnswerAll(t)]
  /\ Emit(t) /\ StepFrame

(* Other calls: stuck, nudged, cancelled, or executed one by one. *)
AnswersTools(t) ==
  /\ run.pc = "call" /\ t # <<>> /\ (Handoff => ToSet(t) \cap Conclude = {})
  /\ LET prints == Remember(run.prints, t)
         r      == [Heard(t) EXCEPT !.prints = prints]
         stuck  == Len(prints) >= StuckThreshold /\ AllSame(prints)
         nudge  == ~stuck /\ Len(prints) >= NudgeThreshold /\ AllSame(prints)
     IN  \/ stuck /\ Ends(r, "failed")
         \/ nudge /\ run' = [r EXCEPT !.pc = "top", !.history = @ \o AnswerAll(t)]
         \/ ~stuck /\ ~nudge /\ run.cancel /\ Ends(r, "cancelled")
         \/ /\ ~stuck /\ ~nudge /\ ~run.cancel
            /\ run' = [r EXCEPT !.pc = "tools", !.todo = DOMAIN t]
  /\ Emit(t) /\ StepFrame

(* One tool call returns, with an output or an error: both are results. *)
ToolReturns ==
  /\ run.pc = "tools"
  /\ LET result == Result(made, Min(run.todo))
         left   == run.todo \ {Min(run.todo)}
     IN  /\ queue' = Append(queue, result)
         /\ run' = [run EXCEPT !.history = Append(@, result), !.todo = left,
                               !.pc = IF left = {} THEN "top" ELSE "tools"]
  /\ UNCHANGED made /\ StepFrame

(* RunFinished sent without waiting for the forwarder. *)
OnRunFinishedEarly ==
  /\ actor = "running" /\ run.pc = "done"
  /\ actor' = IF run.outcome \in {"ask", "cancelled"} THEN "idle" ELSE "stopped"
  /\ waiting' = IF run.outcome = "ask"
                THEN ConcludeCall(run.history, Len(run.base)) ELSE NoCall
  /\ run' = NoRun
  /\ UNCHANGED <<params, messages, queue, made, inputs, cancels, crashes>>

(* The end of a cancelled run does not reset `running`. *)
OnRunFinishedKeeping ==
  /\ actor = "running" /\ run.pc = "done" /\ queue = <<>>
  /\ actor' = CASE run.outcome = "cancelled" -> "running"
                [] run.outcome = "ask" -> "idle"
                [] OTHER -> "stopped"
  /\ waiting' = IF run.outcome = "ask"
                THEN ConcludeCall(run.history, Len(run.base)) ELSE NoCall
  /\ run' = NoRun
  /\ UNCHANGED <<params, messages, queue, made, inputs, cancels, crashes>>

(* RunFinished: it is sent after the forwarder has ended, so it reaches    *)
(* the actor after every message of the run.                               *)
OnRunFinished ==
  /\ actor = "running" /\ run.pc = "done" /\ queue = <<>>
  /\ actor' = IF run.outcome \in {"ask", "cancelled"} THEN "idle" ELSE "stopped"
  /\ waiting' = IF run.outcome = "ask"
                THEN ConcludeCall(run.history, Len(run.base)) ELSE NoCall
  /\ run' = NoRun
  /\ UNCHANGED <<params, messages, queue, made, inputs, cancels, crashes>>

-----------------------------------------------------------------------------
(* The process dies, at any moment; the journal stays. *)
Crash ==
  /\ actor # "down" /\ crashes < MaxCrashes
  /\ crashes' = crashes + 1
  /\ actor' = "down" /\ waiting' = NoCall /\ run' = NoRun /\ queue' = <<>>
  /\ UNCHANGED <<params, messages, made, inputs, cancels>>

(* The session is spawned again and on_recovery_complete re-enters the     *)
(* loop, unless nothing was journaled.  Neither the synthetic results nor  *)
(* the synthetic input are journaled.                                      *)
Recover ==
  /\ actor = "down"
  /\ \/ messages = <<>> /\ actor' = "idle" /\ run' = NoRun
     \/ messages # <<>> /\ StartRun("continue", Sanitized(messages), User)
  /\ UNCHANGED <<params, messages, queue, waiting, made, inputs, cancels, crashes>>

Answer ==
  \E t \in Turns :
    made < MaxMade /\ (AnswersText(t) \/ AnswersConclude(t) \/ AnswersTools(t))

RunStep == BeginTurn \/ ProviderFails \/ Answer \/ ToolReturns

Next ==
  \/ OnRun \/ OnInjectToolResult \/ OnCancel
  \/ OnPersistProgress \/ OnRunFinished
  \/ RunStep
  \/ Crash \/ Recover

Spec == Init /\ [][Next]_vars

(* A run goes on: providers and tools return, and messages are delivered. *)
FairSpec ==
  Spec /\ WF_vars(RunStep) /\ WF_vars(OnPersistProgress) /\ WF_vars(OnRunFinished)

-----------------------------------------------------------------------------
(* Properties. *)

Call == [n : Nat, call : Nat \ {0}]

Run ==
  [pc : {"top", "call", "tools", "done"}, kind : {"fresh", "reply", "continue"},
   base : Seq(Message), input : Message, history : Seq(Message),
   iteration : 0 .. MaxIterations, prints : Seq(Turns),
   rejections : 0 .. HandoffMaxRetries, missing : 0 .. HandoffMaxRetries,
   todo : SUBSET (Nat \ {0}), attempt : 0 .. MaxRetries, cancel : BOOLEAN,
   outcome : {"none", "completed", "output", "ask", "cancelled",
              "failed", "recoverable"}]

(* Types of the session and of its run (AgentState, AgentActor, the locals *)
(* of Agent::run).                                                         *)
TypeOK ==
  /\ params \in Params
  /\ messages \in Seq(Message) /\ queue \in Seq(Message)
  /\ actor \in {"idle", "running", "stopped", "down"}
  /\ waiting \in Call \cup {NoCall}
  /\ run = NoRun \/ run \in Run
  /\ {made, inputs, cancels, crashes} \subseteq Nat

(* A run that was given a conversation a provider accepts only ever sends  *)
(* such conversations: whatever mixture of executed, nudged and rejected   *)
(* turns and of retries comes before, each call has been answered once and *)
(* at once (Agent::run: "Every tool_use in this turn needs a tool_result   *)
(* for the conversation to stay valid").                                   *)
RequestsStayWellFormed ==
  run.pc = "call" /\ WellFormed(Append(run.base, run.input))
    => WellFormed(run.history)

(* When a session goes on after a question or a restart, the last message  *)
(* of the model it had heard is answered in full and once: the reply goes  *)
(* to the call that asked, which stood alone, and recovery supplies what   *)
(* is missing (find_tool_call_id, validate_handoff, sanitize_for_resume).  *)
TailIsAnswered ==
  run.pc = "call" /\ run.kind \in {"reply", "continue"} =>
    LET said == Said(run.base)
        last == run.base[Max(said)]
    IN  said # {} => \A c \in DOMAIN last.turn :
                       Cardinality(Answers(run.history, last.n, c)) = 1

(* The invariant of the requests: the types, and that each of them is one  *)
(* a provider accepts, a resumed session's included.                       *)
Inv == TypeOK /\ RequestsStayWellFormed /\ TailIsAnswered

(* The journal tells the conversation in order: a journaled result follows *)
(* the journaled message that made the call, with only results of the same *)
(* message between them, and is the only one for it.  So it is across      *)
(* retries, replies and crashes (start_run: "mailbox order == persistence  *)
(* order").                                                                *)
JournalTellsInOrder ==
  \A j \in DOMAIN messages : messages[j].role = "tool" =>
    /\ Follows(messages, j)
    /\ Answers(messages, messages[j].n, messages[j].call) = {j}

(* The turns of this attempt whose calls are up for execution.            *)
ToolTurns(h, from) ==
  {i \in Said(h) : /\ i > from /\ h[i].turn # <<>>
                   /\ (Handoff => ToSet(h[i].turn) \cap Conclude = {})}

(* The last k tool turns, or more of them, made the same calls.            *)
Repeats(k) ==
  LET turns == ToolTurns(run.history, Len(run.base)) IN
  \E first \in turns :
    LET latest == {i \in turns : i >= first}
    IN  /\ Cardinality(latest) >= k
        /\ \A i, j \in latest : run.history[i].turn = run.history[j].turn

(* An attempt that repeated the same calls StuckThreshold times in a row,  *)
(* at its beginning or after other calls, nudged or not, is over (the      *)
(* window of recent_fingerprints).                                         *)
StuckIsOver == run.pc # "none" /\ Repeats(StuckThreshold) => run.pc = "done"

(* A run ends and is reported: iterations, retries and nudges are bounded, *)
(* and the forwarder is drained.                                           *)
RunsEnd == actor = "running" ~> actor # "running"

-----------------------------------------------------------------------------
(* What the documents say and the code does not keep. *)

(* "synthesize error `tool_result`s for any unanswered tool calls so       *)
(* recovered history is well-formed"                                       *)
(* (2026-05-31-october-daemon-parallel-jobs-design.md:32).                 *)
RecoveredIsWellFormed ==
  run.pc = "call" /\ run.kind = "continue" => WellFormed(run.history)

(* "Nudge: if last M iterations identical -> inject synthetic tool result  *)
(* nudging model to change approach" (2026-05-26-agentcore-design.md:290): *)
(* the calls are not executed once more.                                   *)
NudgedInTime == run.pc = "tools" => ~Repeats(NudgeThreshold)

(* "the history is well-formed for the provider API"                       *)
(* (2026-05-31-october-daemon-parallel-jobs-design.md:174), also when the  *)
(* operator cancelled the session and goes on with it.                     *)
ContinuedIsWellFormed ==
  run.pc = "call" /\ run.kind = "fresh" => WellFormed(run.history)
=============================================================================
