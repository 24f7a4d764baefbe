# TLA+ models of october

october runs workflows of LLM agents. A daemon supervises jobs; a job launches
a workflow; a workflow drives agents one after the other; agents call tools in
sandboxed `october-runtime` processes, which an executor starts, watches and
restarts. Everything above the executor is an event-sourced actor over a
journal. This directory models that core in TLA+, with what stands around it:
the way of a tool call to the runtime and back, the tools' work on files, the
provider's stream, the server's connections and the attached client. TLC checks
it on small instances. The safety properties of its runs are also proved, with
TLAPS, for all values of the constants; what rests on fairness is left to TLC.

`PROJECT.json` is the index: components, runs, mutants, the map from
definitions to source lines, findings, hazards and theorems.

## 1. Inventory

| Component | State | Operations | Hard behaviour |
|---|---|---|---|
| Actor runtime (`actor/src/runtime.rs`, `actor.rs`) | folded state, `seq_nr`, the effect being carried out | spawn and recover; handle a command; persist, snapshot, compact, stop | the process dies, or the journal fails, between any two awaits |
| In-memory journal (`actor/src/journal.rs`) | events by number, `last_seq`, snapshot | persist, replay, save_snapshot, delete_events_before, copy_snapshot | compaction against snapshots; a fork of an actor that goes on writing |
| File journal (`actor/src/file_journal.rs`) | one line per batch in `journal.jsonl` | persist (open, write, sync), replay; snapshots are no-ops | torn writes, errors after the bytes are written, unreadable files |
| Workflow actor (`workflow/src/workflow_actor.rs`) | status, current agent and session, pending tool call, child handle | Start, Cancel, Resume, Fork, AgentConcluded, AgentFailed, AgentAsked | late reports, double commands, recovery, persistence failing after the child was told |
| Agent actor (`workflow/src/agent_actor.rs`) | conversation, the cancellation token of its run | Run, InjectToolResult, PersistProgress, Cancel, RunFinished | the background run and the actor progress independently |
| Job actor, supervisor (`supervisor/src`) | registry row, job status, workflow handle, sandbox | submit, stop, resume, remove, shutdown, status reports | three journals written one after the other; a restart in between, or one of them refusing a write that the others accept |
| Daemon (`cli/src/daemon`) | shutdown request | drain, shutdown, start | waits on statuses that lag |
| Executor (`executor/src`) | registry entry, child process, transport, waiter | create, destroy, restart; health check; connect, link closed | two tasks on one entry, each locking for one call at a time |
| Link to a runtime (`executor/src/socket_transport.rs`, `runtime/src/main.rs`) | pending calls on one side, tasks and abort handles on the other, frames between | invoke, cancel, read an answer, drain at the end | a call crossing a disconnect or a cancel; a task crossing the entry of its own handle |
| Relay (`executor-client/src`, `executor/src/executor.rs`) | requests of the server, events waiting for them, the executor's dispatch | invoke, cancel, lifecycle commands | events of many requests on one connection, two pending maps, two ends that may be lost |
| Runtime tools (`runtime/src/tools`, `runtime-client/src/tools`) | the files of the working directory | read, write, edit, replace, bash, grep, glob, list | a cancelled call goes on beside the next; a file is truncated before it is filled, and either may fail; line numbers from a model |
| Provider (`providers/anthropic/src/lib.rs`) | blocks, usage and stop reason of an attempt; the last error | stream a message, retry, give up | a retry must forget the failed attempt, and not come after something was shown |
| Server (`server/src`) | connected executors, a lock | register, send a command, remove | reconnect before the old link is seen closed; a send that keeps the lock as long as its peer does not read |
| Attached client (`cli/src/client.rs`, log streams of the daemon) | where it is, the status it read | submit, follow the log, list, exit code | the stream's end, the job's report and the subscription race in three mailboxes |
| Agent loop (`agentcore/src/agent.rs`) | conversation of a run | turn, tool calls, hand-over, nudge, cancel | history in memory against history in the journal |
| Configuration, validation, sandbox profiles, history rendering, wire types | none beyond a call | | I/O and data |

How they interact. Actors talk only through mailboxes (`ActorRef::tell`), and
each handles one command at a time; replies to clients are one-shot channels.
A job learns of its workflow through a channel of notifications that a task
forwards to its mailbox. An agent's run is a separate task that posts its
events and its outcome to the agent's mailbox. The daemon, the supervisor, its
jobs and their workflows live in one process and die together; what survives is
the journal. Inside the executor the dispatch loop, the health check and the
connection handlers share two locked maps. `october-runtime` children are
processes of their own and die with their handle (`kill_on_drop`).

What makes each part correct:

* actor runtime: what was acknowledged is recovered, once and in order, and an
  actor that waits for a command has folded exactly its log;
* file journal: a batch is in the log whole or not at all, and an acknowledged
  one stays;
* workflow and agents: the journal tells one story, of one agent after the
  other, although late and repeated reports arrive; what is reported is
  durable; a run interrupted by a crash goes on;
* agent loop: a provider is sent only conversations in which every tool call
  has its answer, the journal can rebuild such a conversation, and a run ends;
* supervision: registry, job and workflow agree when their messages have been
  handled and their writes were accepted; sandboxes belong to live jobs; a
  shutdown ends;
* executor: an entry that says Running owns a process, that process is the one
  tool calls reach, and no entry is stuck on its way;
* tool calls: a call gets one answer and keeps it, its tool starts once at
  most, a result is answered only when the tool ran to its end, and no call
  waits forever;
* tools: a call alone does what its description says, or is answered with an
  error; what stands in a file was put there by calls that changed it, and a call
  that was answered with success has its text there;
* provider: what was shown is what is returned, of one attempt and no other;
* server: a command goes to the newest connection of its executor, and ends
  when the peer in its way reads or is gone;
* attached client: it ends, with the code of what its job recorded.

## 2. Modules

| Module | Models |
|---|---|
| `EventJournal` | the in-memory journal's entry and operations, as functions of an entry; `Logged(e)` is the history an entry stands for |
| `DurableActor` | abstract: one log per id that grows by whole batches, at most one per command; an idle actor holds its fold; a fresh id may start from a prefix of another's log |
| `ActorRuntime` | `run_actor`, `recover`, `persist_events`, `snapshot_state` of any number of actors over `EventJournal`; shown to implement `DurableActor` |
| `ActorRuntimeProofs` | theorems about `ActorRuntime` |
| `FileJournal` | the file journal under one actor |
| `FileJournalProofs` | theorems about `FileJournal` |
| `WorkflowRun` | a workflow actor, the agent actor of each session, their runs, the operator and restarts |
| `WorkflowRunProofs` | theorems about `WorkflowRun` |
| `AgentLoop` | one session from the inside: the turn loop, the retries around it, the two conversations (the run's and the journal's), cancellation, restarts |
| `AgentLoopProofs` | theorems about `AgentLoop` |
| `JobSupervision` | supervisor, job actors, each job's workflow as the job sees it, clients and restarts of the daemon |
| `JobSupervisionProofs` | theorems about `JobSupervision` with `AttachedRun` |
| `AttachedRun` | composes `JobSupervision` with an attached client and the daemon's tasks that serve it |
| `RuntimeLifecycle` | one runtime id in an executor: registry, dispatch loop, health check, children, listener, connections |
| `RuntimeLifecycleProofs` | theorem about `RuntimeLifecycle` |
| `CallPromise` | abstract: what a tool-call transport promises its caller |
| `RuntimeLink` | the executor's end of a runtime's socket, the frames under way and the runtime's loop; shown to implement `CallPromise`, liveness included |
| `RuntimeLinkProofs` | theorems about `RuntimeLink` and `ToolRelay` |
| `ToolRelay` | composes `RuntimeLink` with the server's end, the executor's connection and its dispatch; shown to implement the safety part of `CallPromise` |
| `FileTools` | the runtime's tools on the files of a working directory, and reference definitions of what each promises |
| `ProviderStream` | one completion of the Anthropic provider: events, accumulation, errors, retries |
| `ServerRegistry` | the server's connections, its registry with its lock, commands |
| `StandaloneProofs` | theorems about the components that no other is composed with: `ServerRegistry`, `ProviderStream`, `FileTools` |
| `MC*` | the instances TLC checks |

`ActorRuntime` extends `EventJournal` and instantiates `DurableActor`;
`RuntimeLink` and, over it, `ToolRelay` instantiate `CallPromise`. The
modules above it rest on what it establishes: `WorkflowRun` and
`JobSupervision` keep of each actor its log (or the status folded from it) and
one step in which an effect's batch becomes durable.

### Correspondence

An action is one handler, or one stretch of a handler between two awaits at
which something else can happen.

* `ActorRuntime`. A state is the sequence of events folded into it, so a fold
  is `\o` and "the same state" is "the same events in the same order". `phase`
  is the await `run_actor` stands at. `Handle` chooses the effect a command
  returns; `PersistOk`, `ApplyEvents`, `SnapshotOk`, `CompactOk` are its
  journal calls with their successes, `PersistErr`, `SnapshotErr` and
  `CompactErr` the logged failures, after which the code goes on as the model
  does (a failed persist of `PersistAndSnapshot` still snapshots). `Crash` ends
  all actors of the process; `Stop` one of them.
* `FileJournal`. A line is the batch it frames, or garbage when it does not
  decode; garbage is represented by the empty batch, which is never written
  (`persist` returns early without events). `torn` says that there are bytes after the last newline. Whatever is
  appended to such a fragment joins it in one line that does not decode: a
  fragment of base64 before a line either breaks the base64, or decodes to JSON
  with something before it or behind it, which the parser refuses. Snapshots
  are no-ops, as in the code.
* `WorkflowRun`. Sessions and runs are numbered in the order their ids are
  drawn. Conversations are sequences of entries that say which run wrote them
  and at which place. `Matching` are the rules that accept an output, of which
  `find_next_transition` takes the first. `Emit`, `Forward`, `Return` and `Report` are the
  background run: it emits events, a forwarder passes each to the mailbox,
  `run_with_retries` returns, and the outcome follows the forwarder. Handlers
  that persist leave the actor in `persisting`; `WorkflowPersists` and
  `AgentPersists` end the effect, with or without success. `Launch` is a job
  launching the workflow with `Kickoff::Start`, `Recover` or `Resume`.
* `AgentLoop`. A turn of the model is the sequence of calls it makes, empty for
  text; a call's name stands for its name and arguments, so a turn is its own
  fingerprint. Calls are numbered by message and place. The steps of a run are
  the stretches between its awaits: `BeginTurn` up to the provider's call,
  `ProviderFails` or one of the three `Answers...`, `ToolReturns` once per
  call. `queue` is the sink's channel and the mailbox behind it, in order;
  `OnRunFinished` comes after it is drained, because the task awaits its
  forwarder. The events that leave the conversation as it is (RunComplete,
  RunCancelled) and the effects' snapshots are not represented.
* `JobSupervision`. `reg`, `jst` and `wst` are the three journals. The workflow
  is reduced to whether it is driven, what it persists and what it tells. The
  effect of each handler ends in one of two steps: the write is accepted
  (`SupPersists`, `JobPersisted`, `FlowPersisted`) or refused (`SupRefused`,
  `JobRefused`, `FlowRefused`, the error path of `persist_events`: logged, state
  unchanged, and the actor goes on, or stops if it was to stop). Whatever the
  handler did before, it has done: a refused row of a Submit leaves a job that
  runs and is in no list, a refused status a report the supervisor has already
  had. `stale` is history: the records whose last write was refused, until one is
  accepted or the daemon is gone. An agent whose `AgentStarted` was refused runs
  without being the current one, so its reports are ignored.
* `RuntimeLifecycle`. `task[t].pc` is the await a task stands at, `entry` is
  changed only by the registry's methods, each atomic under its lock. `copy` is
  the clone of the handle that the health check holds to the end of its tick,
  which keeps `kill_on_drop` from killing the child. A failed handshake ends the
  accept loop: `listening` is then false for good.
* `AttachedRun`. `run.at` is the await the client, or the daemon's task for its
  connection, stands at. The log's channel closes when its senders are gone: the
  job actor's and the one in the sink of its workflow. `Cut` is what the end of
  the daemon does to the client.
* `RuntimeLink`. `caller[c]` is the await of `invoke`; `pending` is the map,
  `slot[c]` the one-shot channel behind an entry. `down` and `up` are the frames
  of the socket, which arrive in order or, after a break, not at all. `loop` and
  `task[c]` are the runtime's loop and its spawned tasks, which race for
  `in_flight`. A tool that runs on a blocking thread is not interrupted by the
  abort of its task. After the reader has seen the end of the stream, sends are
  refused by the WebSocket library; this is external and is what makes a late
  insert harmless.
* `ToolRelay`. The server's pending map and the channels behind it (`wanted`,
  `mail`), the connection's frames (`orders`, `events`), the executor's dispatch
  loop (`served`) and a task for each relayed call, which invokes and answers
  through `RuntimeLink`. A lifecycle command is the events it is answered with.
* `FileTools`. A text is a sequence of words and line breaks; lines, ranges and
  matches are computed as the code computes them, on 0-based slices with its
  saturating and panicking edges, and compared with definitions on the lines of
  the file. A write is two steps, the truncation and the filling, as in
  `std::fs::write`. Where `Breaks` holds, each of them may fail, and the making of
  a directory before them: the call is answered with the error over the old file,
  an emptied one or the beginning of the text. A shell command is a write, a
  failure, or both. `writers[p]` is history: the calls that changed a file, in the
  order they did. The reference definitions are independent of what the code
  computes: `IsReplacedIn` says what stands at each place of the result,
  `IsSplicedIn` which line is at which number, `GreppedAsPromised` which matches
  are listed.
* `ProviderStream`. A piece of a block is its attempt, block and place. The API
  may say any message of `Messages`, and fail or end at any event. `ends` is
  history: how the stream of each attempt ended.
* `ServerRegistry`. `task[k]` is `handle_connection`; the map is one entry per
  executor id, and `lock` is its mutex, held from the look-up to the end of the
  send. A peer may stall, read again or be gone, at any moment. `newest` and `clean` are history: the connection last entered for an id,
  and those that no older one of their executor outlived.

## 3. Runs

All passing runs are exhaustive within their bounds; the largest, `AttachedRun`,
has 493,268 distinct states, and takes two to three minutes. A module's `Inv` (of the
provider `AnswerIsExact`, of the tools `FilesInv`) is the conjunction of its type invariant and of the
state invariants named above it.

| Run | Bounds | Shows |
|---|---|---|
| `ActorRuntime` | two ids, batches of 0, 1 and 2 events, states of at most 2 events; any number of failures and crashes | nothing lost; the inductive invariant of the proofs, with the types; an idle state is the log; implements `DurableActor`; every effect ends |
| `FileJournal` | three batches, two crashes, all faults | batches are whole; an acknowledged event is recovered unless garbage stands before it; without faults other than crashes and refused writes the state is what would be replayed; what was replayed stays the prefix of later replays |
| `WorkflowRun` | two agents and a rule to an undeclared one, one operator command, one crash, one event per run; the daemon's journal, which has no snapshots | journal order, reported is journaled, the child handle is the current session, every status is told, a running workflow moves on |
| `WorkflowSteering` | two operator commands and no crash; or one Resume and one crash with failing journal operations and providers missing | the hand-overs form one chain whatever late or superseded reports arrive |
| `AgentLoop` | sessions with an output schema, with one and questions, with neither; three answers of the model out of text, one tool, two tools, `conclude`, `conclude` beside a tool; thresholds 2 and 3, one hand-over retry, one provider retry, two inputs, one Cancel, one crash | conversations stay acceptable within a run; the last message is answered after a question or a restart; the journal is in order; a streak of identical calls is over; runs end |
| `AttachedRun` | one job, submitted by a client that goes away or by an attached one; two starts of the daemon, failing launches; in the daemon's first life two of requests and refused writes together (a refused write counts as long as it is not made good), one beside an attached client or after a restart, besides shutdown and drain; the daemon does not start again under an attached client, and nobody asks anything after it is through | over jobs hold no sandbox, nor does one in no row unless its row is being written or was refused; one workflow per job; statuses agree where the last writes were accepted; a shutdown completes, and with every sandbox released; the attached client's code is that of the recorded status, and it comes to an end |
| `RuntimeLifecycle` | three commands, one restart by the health check, one death, the listener lost at any time | a handle exactly when Running; the transport is the owned child's once things are quiet; nothing stuck; a lost transport is mended |
| `RuntimeLink` | two calls, one of a tool on a blocking thread, one cancel; the link or the runtime fails at any moment | who waits is listed; what is listed is awaited; a cancel finds its task; implements `CallPromise` with its liveness |
| `ToolRelay` | one call, one lifecycle command, one cancel; the runtime or the server's connection is lost | a relayed call keeps the promise; it ends unless the executor drops its order or the connection is lost; lifecycle commands are answered |
| `FileTools` | one call with any of about 200 inputs on eight texts; two overlapping calls with nine inputs on two texts; a cancel, a kill and a failing disk or shell at any step | a call alone is exact, or fails with its file as it was or at the beginning of the text; what stands in a file is of calls that changed it, the last successful one whole |
| `ProviderStream` | `MAX_STREAM_RETRIES` as in the code, messages of up to three blocks and two pieces, every error at every event | shown is returned; a stopped message is exact; it gives up late and with the right error; it ends if the stream does not stall |
| `ServerRegistry` | two connections under one or two ids, two commands, peers that stall and read again | a clean connection is listed; what is listed is open; commands go to the newest connection; they end, unless one peer stalls for ever and a command to it keeps the lock |

Why these bounds are enough to be of interest: two ids are needed for a fork,
two events for a batch that could be torn or half folded, and the batch limit
counts the state and not the calls, so failures and restarts are unbounded. In
the workflow, the shortest stories that involve a superseded session need a
Cancel and a Fork; one crash puts recovery between any two steps. Three answers
reach the stuck threshold, and fit a rejected hand-over, a question and what
follows the reply. Two starts of
the daemon put a crash between any two of the three journals, two requests
stop a job and resume it, two refused writes leave two of the journals behind, and
a refused write and a request bring every command to a job that is recorded wrongly. One health-check
restart lets it both try and give up, three commands overlap a create, a
restart and a destroy with it. On the link, calls share the map, the reader, the
loop and the streams and nothing else, so two meet in every way; a cancel of a
call that another one is behind needs no third. The relay adds a second
request of another kind. Files of up to three lines have a first, an inner and a
last one, with and without a final break, and an empty line; a failing write may
leave any beginning of them. Two connections of
one executor are what a reconnect needs, the second command finds the lock
taken. Terminal statuses and bounds stop the systems
other than `ActorRuntime`, whose runs therefore do not check for deadlock;
liveness is checked where it is claimed.

### Refuted promises

The modules also state, in their last sections, promises of comments and
documents that the code does not keep. TLC finds a counterexample to each of
them.

Journal and workflow, with a configuration each that is kept beside the runs:
`WorkflowRetry` (after a recoverable failure
"Operator can send `Resume` to retry", but the message goes to the agent that
has stopped), `WorkflowReply` (two Resumes give one question two answers),
`WorkflowFirstInput` (a crash before an agent journaled its first input leaves
the workflow running and the agent idle), `WorkflowCancel` (the end of a
cancelled run makes the next run uncancellable), `WorkflowRisk` (more than one
emitted message is not yet durable), `WorkflowTerminal` (a Cancel turns an
ended, recovered workflow into a suspended one), `WorkflowSilent` (a failed Fork
is journaled without a notification), `WorkflowPaused` ("Auto-resume applies to
`Running` only", but after a restart a Resume spawns the agent of the paused
session, which starts a continuing run besides the resumed one).

Jobs, likewise: `JobsRecovered` (a non-terminal job is re-spawned "so it can
auto-resume (Running)", but the registry can show Running for a job that
recorded a pause, or nothing, before the crash; it stays dormant, and a drain
waits for it), `JobsDrained` (a drain ends while a resumed job runs),
`JobsOrphaned` (a Submit after Shutdown leaves a sandbox).

The following need no configuration of their own: name the definition in place
of the properties of the module's run.

| Module | Definition | What happens instead |
|---|---|---|
| `FileJournal` | `AckedSurvive` | an acknowledged batch is appended behind a torn fragment and lost at the next recovery |
| | `StateMatchesFile` | an error of `sync_all`, after the lines were written, is returned as a failed persist and leaves the file ahead of the state |
| `AgentLoop` | `RecoveredIsWellFormed` | error results are synthesized for "any unanswered tool calls so recovered history is well-formed", but only in the last message, and the answers to rejected hand-overs and nudged turns were never journaled |
| | `NudgedInTime` | the nudge is due when the last M turns are identical; the code asks it of the whole window, so a streak after another call is executed until it is stuck |
| | `ContinuedIsWellFormed` | a Cancel between the answer and its tools leaves a call open, and a live Resume sends the conversation so |
| `AttachedRun` | `PausedReturns` | "0 = finished/suspended/awaiting", but the log of a paused job stays open, and the client never returns |
| | `CodeIsFinal` | the code is given for a job that is still listed as running, when the daemon is shut down under it |
| | `HoldersAreListed` | "re-spawn a JobActor for every non-terminal job" looks in the registry, but a job whose row was refused at its Submit runs with a sandbox and is in no row |
| `RuntimeLifecycle` | `CompletesFromCreating` | `complete_create` is called in states other than Creating |
| | `LinkRemovesOwn` | "double-remove is safe", but the end of an old link removes the transport of the newer child |
| | `ListenerStays` | connections are accepted "until `cancel` fires", but one failed handshake ends the loop, and no later child can connect |
| `RuntimeLink` | `CancelledStaysUnstarted` | a call answered as cancelled starts to run all the same |
| | `InFlightIsAlive` | a task that ended before its handle was entered stays in the map of what is in flight |
| `ToolRelay` | `RelayEnds` | "direct in CLI mode, relay in server mode - the caller cannot tell", but a relayed call waits forever when the connection is lost or the executor has no such runtime |
| | `WantedIsAwaited` | the entry of such a call stays in the server's map |
| `FileTools` | `KilledIsWhole` | a kill between truncation and filling leaves an empty file |
| | `ErrorIsHarmless` | a write that fails after the truncation is answered with an error, and the file's old text is gone |
| | `OverlapIsSerial` | of two overlapping edits one is lost |
| `ProviderStream` | `ToolInputIsWhole` | a stream that ends early gives a tool an empty input |
| | `LimitsAreRetried` | an error that says only "429" is a rate limit and is not retried |
| | `StoppedIsAnswered` | an empty message of the last attempt is answered with the error of an earlier one |
| `ServerRegistry` | `ConnectedIsListed` | the end of an executor's old connection removes its new one |
| | `OthersAreServed` | a peer that stops reading keeps the commands of all others waiting |

### Fairness

* `ActorRuntime`: weak fairness of each actor's steps: tokio schedules a task
  whose await is ready, and journal calls return. No command has to come and no
  call has to succeed.
* `WorkflowRun`: weak fairness of the workflow, of the agents and of the runs. A
  run's loop is bounded by `max_iterations`; that each provider call and each tool
  returns is an assumption about the environment (below). Operators and restarts
  owe nothing.
* `AgentLoop`: weak fairness of the run, of the delivery of its messages and of
  its report, for the same reasons. The model of the provider may fail at any
  call, and after `MaxMade` answers does nothing else.
* `AttachedRun` (as `JobSupervision`): weak fairness of the supervisor, each job
  and each workflow actor while the daemon is up, and of the attached client with
  the tasks that serve it. A workflow need not end, and the daemon need not be
  started again.
* `RuntimeLink`, `ToolRelay`: weak fairness of every task, and of the tools, which
  is an assumption about the environment. Nothing has to be asked, cancelled or
  lost.
* `ProviderStream`: weak fairness of the stream, whose events come or fail: an
  assumption about the environment.
* `ServerRegistry`: strong fairness of each connection's task and of each
  command, because tokio's mutex grants the lock in the order of requests. A
  stalled peer may stay so, or stall again and again.
* `RuntimeLifecycle`: weak fairness of the dispatch loop, of the health check's
  timer and steps and of the connection handlers noticing dead links. A child
  need not connect, nor live; the create that waits for it times out.

Two of these are assumptions about the environment that the code does not enforce.
A tool ends: the file tools do as far as the disk answers, but `bash` waits for its
child without a time limit (`runtime/src/tools/bash.rs:14`), and a command that
never ends keeps its call, the run and the workflow waiting until someone cancels.
And a provider's stream yields its next event, fails or ends: the HTTP client has
no time limit (`providers/anthropic/src/lib.rs`), so a stream that stalls keeps
`complete`, and the run, for ever. `RunningMovesOn`, `RunsEnd`, `KeepsPromise`,
`RelayEndsUnlessDoomed` and `Completes` rest on them. The shutdown's teardown is
likewise taken to end.

Each property of a passing run has a mutant in `PROJECT.json`: a definition
changed the way a plausible mistake in that code would change it, under which
TLC finds the property violated. The mutants stand before the definitions they
replace and are used by nothing else.

## 4. Proofs

`ActorRuntimeProofs` proves, for every set of ids, events and batches and
every bound on the states:

* `Invariance`: `Spec => []IInv`;
* `TypeCorrect` (a part of `IInv`), `NothingIsLost`, `IdleIsTheLog`: the
  invariants of the run;
* `LogGrows`: the action property `LogOnlyGrows`;
* `Implementation`: `Spec => Durable!Spec`, the refinement.

`FileJournalProofs` proves, for batches of any size and any number of batches,
crashes and faults:

* `BatchesAreWhole`: `Spec => []Inv`;
* `AckedIsReplayed`, `StateIsTheFile`: the run's other two invariants;
* `PlacesAreStable`: the action property `ReplayIsStable`.

`WorkflowRunProofs` proves, for every set of agents and outputs, every table of
transitions, every plan (who commands how often, what fails, which providers the
daemon has at each start) and all bounds:

* `ActorsAreTyped`: `Spec => []TypeOK`, in every circumstance;
* `HandOffsAreAChain`: `HandOffsChain`, in every circumstance;
* `ChildStaysCurrent`, `SessionsAreOrdered`, `ReportsAreDurable`: `[]Inv`,
  `[]JournalIsOrdered` and `[]ReportedIsJournaled`, as long as the journal does
  not fail (`~plan.journalFails`);
* `StatusesAreNotified`: the action property `StatusIsNotified`, under
  `Complete(plan)`: every agent has a provider, the journal does not fail and
  keeps no snapshots, as the daemon's.

`AgentLoopProofs` proves, for all settings, turns and thresholds and any number
of inputs, answers, cancels and crashes:

* `SessionIsCorrect`: `Spec => []Inv`;
* `JournalIsInOrder`, `StuckRunsAreOver`: the run's other two invariants.

`RuntimeLinkProofs` proves, for every set of calls, every choice of blocking
tools and faults, and any number of cancels:

* `LinkInvariance`: `Spec => []Inv`;
* `CancelFinds`: the action property `CancelFindsItsTask`;
* `LinkKeepsPromise`: `Spec => Promise!Spec`, the safety part of the run's
  `KeepsPromise`;
* `RelayKeeps`: `RelaySpec => RelayKeepsPromise`, for any set of lifecycle
  commands too and whichever of link, runtime and connection is lost: a call
  relayed by the server keeps the promise as well.

`JobSupervisionProofs` proves, for every set of jobs and any number of requests
and restarts, although the run has one job (what jobs share is the supervisor):

* `SupervisionInvariance`: `AttachedSpec => []Inv`, and so `UnlistedHoldsNothing`
  and `OneWorkflow`;
* `RestingStatusesAgree`: `~ProviderLoss => (AttachedSpec => []StatusesAgree)`;
* `ExitCodeIsTrue`: the action property `ExitIsTrue`, also where a Resume can find
  no provider and whatever the others ask meanwhile.

All three hold where journals refuse writes, any of them and any number of times.
What a refusal takes away is part of the properties: `StatusesAgree` and `ExitIsTrue`
speak of records whose last write was accepted (`UpToDate`), and of a job without a
row `UnlistedHoldsNothing` speaks unless that row was refused.

`RuntimeLifecycleProofs` proves `LifecycleInvariance`, `Spec => []Inv`, for
every number of commands, restarts and deaths.

`StandaloneProofs` proves

* of the registry, for every number of connections and every set of executors and
  commands: `RegistryInvariance`, `Spec => []Inv`, and `NewestIsUsed`, the action
  property `SentToNewest`;
* of the provider, for every set of messages, of any number of blocks of any size,
  and any `MaxRetries`: `AnswersExactly`, `StreamSpec => []AnswerIsExact`, and
  `GivesUpOnlyLate`, `StreamSpec => []GivesUpLate`, both from `StreamInvariance`,
  `StreamSpec => []StreamInv`;
* of the tools, for every list of paths, all texts and inputs of the types of
  `Inputs`, and any plan of overlapping and cancelled calls: `FilesAreWhole`,
  `ToolsSpec => []FilesInv`, and `CallsAreExact`, the action property
  `AloneIsExact`: what each tool computes is what its description promises, for
  files of any length, any range and any limit, and whatever operation of the disk
  fails.

Assumptions: `BatchAssumption` (a batch is a sequence of events; the empty one
is possible) and the assumptions of `EventJournal` that the two markers
`NoSnapshot` and `Lost` are neither snapshots nor events; `FileJournalAssumption`
and `ThresholdAssumption`, that sizes, thresholds and bounds are numbers, the
faults those of the module, and the nudge due before a run is stuck;
`ParamsAssumption` and `TurnsAssumption`, the types of settings and turns;
`WorkflowAssumption`, that transitions are lists of rules; `LinkAssumption`,
that no call is named like a state of the loop; `RelayAssumption`, that calls and
lifecycle commands have different ids; `RegistryAssumption`, that the
markers for no connection and a free lock are neither connection nor command;
`ProviderAssumption`, the types of messages and that the number of retries is one;
`FileAssumption`, that paths are a sequence, the line break and the bad pattern no
words, and a plan's texts and inputs of their types, with one call at least. TLC
evaluates them.

The argument for the actor runtime. None of the three invariants is inductive:
that an idle state is the log says nothing of an actor that is halfway through a persist or a
recovery, and that nothing is lost does not survive a compaction unless the
snapshot is known to hold what it is numbered by. `IInv` adds both. Of an entry
(`EntryInv`): the snapshot's number is the length of its state, and every
number after it is in the event log. Of an actor (`ActorInv`), phase by phase:
while it recovers, its state is the fold of the first `seq_nr` events and the
stream holds the others under the numbers it will count; while it waits,
persists or snapshots, its state is the whole log; between the persist and the
fold (`applying`) the log is ahead by the batch of the effect; while it
compacts, the snapshot is the log. The lemmas about `EventJournal`
(`PersistedLog`, `SnapshottedLog`, `CompactedLog`, `CopiedLog`) say what each
operation does to `Logged`: append the batch, nothing, nothing, a prefix. The
step lemmas, one per action, follow from them, and `OneMoves` lifts a step of
one actor to the invariant of all. The refinement uses the invariant for
`Ready` (the view an idle actor shows is its log) and the same lemmas for
`Commit` and `Fork`.

For the file journal: what is replayed is followed as one sequence,
`Decode(file)`, whatever the lines are. A write leaves it alone, when it tears or
goes behind a torn line, or appends the batch to it whole (`DecodeAppend`). So it
consists of whole batches (`Whole`), none tried later than the last
(`Numbered`), and the batch being written comes behind all of them; what was
replayed once is a prefix of what is replayed later.

For the workflow: `IInv` has three parts. `AgentsInv` says that an actor that has
ended holds nothing and that a live run belongs to an actor that is up.
`FlowInv` relates what the workflow is about to persist to what its journal
folds to: it enters a session that is new (`Entering`) or settles the status
(`Settling`), and a workflow without a child has no agent up (`Childless`), which
is what lets a recovery spawn the agent again; the chain of hand-offs (`Tidy`,
`Link`) grows only by these two. `StoryInv` follows each session: its tape, the
journal and the entry about to be stored, and its mailbox behind it hold every
entry its runs have passed on, each once and behind the one before (`Ordered`,
`BoxInv`, `RunInv`), so the order of the mailbox is that of the journal, and a
report that is sent behind the last entry is of what is durable. Most lemmas are
about two shapes of step: a `Quiet` one touches one session and tells the
workflow at most one report, and a handler of the workflow settles, returns or
enters an agent. `StoryInv` needs a journal that works, and so do the theorems
that rest on it: the code appends to its mailbox's order and drops an effect's
events when the journal refuses them, but keeps the child it has told already,
so a refused `AgentStarted` leaves the workflow with a child its journal does
not know, and a refused entry leaves a gap. That is why these are false
otherwise, and why `WorkflowSteering`, whose journal may fail, checks the chain
alone. `StatusIsNotified` is proved where no Fork can fail, neither for want of a
provider nor of a snapshot to copy: a failed Fork tells nobody (`WorkflowSilent`).

For the agent loop: three copies of the conversation are related. What a run
sends is what it was given and then, for each answer of the model, the answer
and a result for each of its calls but those under execution (`Requests`,
`Tailed`). The window of recent turns is the tail of that history's turns with
tools (`Watched`), so an attempt that repeats itself is seen. The journal
followed by the queue is a conversation of its own (`Tape`), whose open calls are
those under execution and the one a session waits for (`Open`, `Asked`); it is not
the run's history, because the answers to rejected hand-overs and nudged turns
are in the one and not in the other. Messages are numbered, and what is new was
not answered before (`Bounded`).

In these three modules, and for the provider and the tools, an induction over a
file's lines, a log or a number is made by its least counterexample, from the
theorem that the natural numbers are well founded. The library's induction
theorems take a predicate as an operator, which the provers cannot instantiate; a
set of the numbers that have been come to stands for it (`StepByStep`). From it
follows that a definition step by step has a solution (`ThereIsAnIteration`,
`LoopIterates`), so the loops of the code, written as recursive functions over
`0 .. n`, can be unfolded a step at a time.

For the link: that whoever waits is listed with a reader that will still look
(`WaitingIsListed`) holds because a call enters the map before it is sent, leaves
it only with its slot filled or as it is taken back (`CallersAreListed`,
`PendingIsAwaited`), and nothing is sent once the drain is over, which needs that
the reader drains a dead link only (`DrainedIsDown`). That a tool starts once, and
its result is told only after its end, is a statement about frames: at most one
frame asks for a call, and none once its tool runs (`AskedOnce`,
`StartedWasSent`); a result in a frame, in a slot or in a task is that of a tool
that is done (`ResultsAreDone`). `AtWorkIsEntered` is what a cancel relies on: a
task that is at work is in the map, has been aborted, or is the one the loop is
about to enter, and then the loop does not read. There is a lemma for each action;
the refinement maps `Invoke` to `Ask`, `Undo` and `Return` to `Answer`, the spawn
to `Start`, every way a tool ends to `End`, and all else to stuttering.

For the relay: every step of it is a step of the link, leaves the link alone or
sends it a cancel (`LinkMoves`), so the link's `Inv` and promise hold under it.
What is added (`RelayInv`) joins the two ends. A call reaches the runtime only
through the server's request for it (`InvokedForAsker`), and is answered on the
server's side once (`RepliedWhenDone`); a result in an event, in a request's mail
or in the link's answer is that of a tool that has ended (`ToldIsDone`,
`AnswersAreDone`). A start or an end of a tool in the link is then one in the
server's promise, and what the server makes of a mail is its `Answer`.

For the lifecycle: `HandleWhenRunning` is inductive with what each task holds at
each of its steps (`HoldsOK`: whoever completes a creation holds a child), and
`NoWrongChild` follows from `TransportIsLinked`: the registered transport is that
of an open link, so in quiet that of a child somebody holds, and then only the
entry holds one. For the registry: commands go to the newest connection because
what is listed is the one last entered (`ListedIsNewest`), which only its own end
or a later registration takes away; a connection that no older one outlived is
alone with its id (`CleanIsAlone`), which is why its entry stays.

For the provider: the answer compares with what was shown only when the stream is
over, so `StreamInv` says it of every moment. What is collected is, block by block,
what the stream has brought of this attempt's message (`Collected`, with `Begun` and
`Arrived` read off the API's position), and what was emitted of a block are these
pieces, once and in order (`ShownSoFar`). A retry is the step that could break
both: it happens only while no block has begun, so nothing was shown, and it
empties what was collected. The answer is what is assembled at the end (`Answered`),
and the loop that pushes its parts leaves out the empty ones and keeps the order
(`PushedStepwise` and the lemmas behind it), so every block shown is a part
and every part is of a block. That it gives up late is said of the ends of all
attempts: as long as it goes on, each was an error of load, and the last of them is
the one kept (`EndsTold`).

For the tools: that every file is whole (`IsWhole`) rests on what its writers hold:
whoever has changed a file is filling it or done, and holds the text it puts there
(`WritersHold`, `TextsAreHeld`), and what a call that is alone has emptied is empty
until it fills it (`EmptiedIsThere`). Then a step of the filling, the whole text or
a beginning of it, puts a text of a writer over texts of writers. That a call which
was alone did what is promised is a statement about all its steps: until it fills
its file the disk is that of its beginning (`DiskIsUndisturbed`), because every call
that begins meanwhile ends its being alone (`AloneIsAlone`); what it is to write was
computed from that disk (`TextIsMeant`); and a grep has listed the matches of the
files before the one it is at, in order and up to the limit (`GrepIsAtPath`). The
larger part is about data: that `Lines` cuts and `Joined` puts together, so that
reading from the first line on, editing the first occurrence, splicing a range -
zero, past the end, reversed, in an empty file - and replacing words give the text
the definitions on lines and words ask for.

For the jobs: that nobody launches a job that is over, or launches one twice, is
a statement about messages and journals between which the daemon may die. It is
made job by job (`JobInv`). A sandbox is that of a job which holds a workflow, and
a workflow's actor that of a job which holds it or is over (`HeldWhileUp`,
`FlowIsHeld`), so a job that holds none may launch. A job is over before its end
is reported, and the report comes before the row, so wherever an end is written
or under way, and in no row at all (unless the row was refused), the job is over
(`EndedIsOver`). Nothing is
known of a job while its Submit is under way, and there is only one
(`SubmittedOnce`), so a Submit finds no actor; its Start is the first message the
job takes (`StartsFirst`), so no notification or Resume of an earlier life comes
before it. There is a lemma for each action, and most follow from two: what
concerns another job changes nothing of this one's part (`OthersInv`), and what
an actor of a job may do without a look at registry and mailbox
(`ActorStepCore`).

That statuses agree is a statement about the last word on its way. `StoryInv`
follows each job no restart has come to (`Unbroken`) along two chains. Of the
reports about it in the supervisor's mailbox the last, or the row when there is
none, is what the job records (`RowIsRecorded`); of the notifications the last, in
the channel or the job's mailbox, or the record when there is none, is what its
workflow recorded (`NewsSays`), unless the workflow runs again and has not rested
since, or has yet to take its Start (`FlowIsRecorded`). In between lies what only
the first launch does: a job that holds no workflow while it lives has yet to take
its Start, and no notification is ahead of that (`LaunchedByStart`). A record whose
write was refused tells nothing (`RowRec`, `JobRec`, `FlowRec`), and the chain is
broken there until the next write is accepted: each link is stated so that it may be
lost at its end, and a write joins it again. `ProviderLoss`
is excluded because a workflow that fails for want of a provider may notify nobody
(`WorkflowSilent`), which makes `StatusesAgree` false. A restart loses the messages
under way, in the code as here, so the property is about the time before one.

The exit code needs no agreement of workflow and job, but that the list comes
after the last report. `ExitInv` says that the report of an end is the last of its
job and none is under way once the row says so (`LastWord`), that without a
shutdown a job ends only with its workflow, and one that has left the supervisor's
memory was removed, or is over with the removal of its row refused (`Dropped`,
`EndsByItself`); that an attached client past its subscription
has a job that is gone (`EndIsSeen`, which needs the question to be under way, in the
job's mailbox, or lost with it); and that its List is behind every report of its
job (`ListedLast`), because a job that is gone reports no more. With `RowIsRecorded`,
which holds of an attached client's job also after restarts that came before it,
the row it reads is the record.

Only model-checked: liveness (`ActorsSettle`, `RunningMovesOn`, `RunsEnd`,
`ShutdownCompletes`, `RunEnds`, `NeverStuck`, `RunningIsReachable`,
`KeepsPromise`, whose safety part is `LinkKeepsPromise`, `RelayEndsUnlessDoomed`,
`Completes`, `CommandsEnd`), which rests on fairness and ENABLED and is out of this
prover's reach. Every other property of a run is stated by a theorem. What the
theorems do not cover is what the models leave out (section 5) and, where a
theorem has a hypothesis, the behaviours it excludes: `JournalIsOrdered`,
`ReportedIsJournaled` and `WorkflowRun`'s `Inv` with a journal that fails, where they
are false; `StatusIsNotified` outside `Complete(plan)` and `StatusesAgree` with
`ProviderLoss`, likewise.

## 5. Limits

* Mailboxes and the notification channel are unbounded in the models. The code
  bounds them (64 messages), and a `tell` waits: two actors with full boxes can
  wait for each other, and a full notification channel drops.
* In `WorkflowRun` a run is something that emits events and ends with an
  outcome; what happens inside it is `AgentLoop`, which in turn has no journal
  failures and no second run of the same session.
* `RuntimeLifecycle` is about one id; ids share nothing but the locks and the
  listener. The state events sent to the server are `ToolRelay`'s, without the
  registry behind them.
* A runtime link is that of one child: reconnection under the same id is
  `RuntimeLifecycle`'s, where a call is not followed.
* The job's workflow in `JobSupervision` is an over-approximation of
  `WorkflowRun` written by hand; that it is one is not checked yet.
* A write that `JobSupervision`, `WorkflowRun` or `ActorRuntime` sees refused leaves
  nothing in the journal; what a torn or unsynced write leaves is `FileJournal`'s. The
  reading of a journal at an actor's start is taken to succeed in `JobSupervision`.
  Of a write refused in the last life of the daemon the run has no instance, as the
  bound is one of the model's guards (`Refused`); the theorems' bounds are arbitrary.
* After a refused hand-over the workflow in `JobSupervision` may be heard again once
  it is resumed, which the code allows for the recorded agent only: the model does
  more than the code there.
* The `AttachedRun` run has one job. What jobs share is the supervisor's mailbox;
  that its safety properties hold for any number of them is proved, while
  liveness is checked of a job alone.
* A workflow that fails without a notification (`WorkflowSilent`) makes its job
  disagree with it; the `AttachedRun` run leaves that case out
  (`ProviderLoss = FALSE`) for `StatusesAgree` to be about the rest.
* In `AttachedRun` log frames are left out, with the gap between history and
  live log that the code accepts and the frames a slow reader loses.
* In `FileTools` a file that exists can be read, directories are not followed (that
  one cannot be made is a failure of the call), and the shell's exit code is not.
* `ProviderStream` leaves out the backoff, which only waits; `ServerRegistry` the
  events executors send.
* Not modelled: `cli/src/main.rs`, configuration and validation, capability
  files and sandbox profiles, the environment filter, the rendering of logs and
  of a job's history, framing, the in-memory executor transport (it passes calls
  on), the conversion of a request to the API's types, the scripted test
  provider, wire types: I/O or data, without a state of their own.

## 6. Plan

1. A composition of `AgentLoop` with the commands of `WorkflowRun`: overlapping
   runs of one session write one journal.
2. A bounded-mailbox variant for supervisor and jobs, and for workflow and
   agents: who waits for whom.
3. An abstract specification of a job (submitted, running, paused, over) that
   `JobSupervision` implements without restarts, and of a workflow that
   `WorkflowRun` implements.
4. Theorems about these compositions and refinements as they are written.
