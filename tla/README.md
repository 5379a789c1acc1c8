# NaraeClaw in TLA+

TLA+ models of the parts of NaraeClaw (a Rust workspace: an agent runtime with a
CLI, messaging channels and an HTTP/WebSocket gateway) that keep state under
concurrency, failure and time. TLC checks each of them on small instances; TLAPS
proves every invariant and action property that the runs check, and that the procedure
engine implements its abstract life cycle, for every value of the constants. Paths below
are relative to `src/crates/` unless they say otherwise.

- [The system](#the-system) — inventory: components, state, interactions, hazards
- [Modules](#modules) — which module models what, and how it corresponds to the code
- [Runs](#runs) — what TLC checks, with which bounds, and what a run shows
- [Fairness](#fairness)
- [Proofs](#proofs)
- [Where code and documentation disagree](#where-code-and-documentation-disagree)
- [Not modelled](#not-modelled) and [Plan](#plan)

## The system

| Component | State | Operations | Interacts with |
|---|---|---|---|
| SOP engine (`naraeclaw-runtime/src/sop/engine.rs`) | loaded procedures, active runs, finished runs, run counter, checkpoint files, savings | start, advance (agent and deterministic), approve, approval timeout, cancel, resume, reload | the `sop_*` tools and the SOP dispatcher call it under one mutex |
| SOP dispatch (`sop/dispatch.rs`, `condition.rs`) | cron cache and last check | match an event with triggers, start runs | events of channels, webhooks, cron; the engine |
| Channel orchestrator (`naraeclaw-channels/src/orchestrator/mod.rs`) | in-flight map, semaphore, conversation histories, pending `/new` marks | dispatch loop, `/stop`, workers, interruption, history updates, hydration | channels put messages into one queue; workers call the agent; session files |
| Message debouncer (`naraeclaw-infra/src/debounce.rs`) | entry per sender: messages, timer, receiver | debounce, timer fires | the dispatch loop awaits the combined message |
| Session files (`naraeclaw-infra/src/session_store.rs`) | one JSONL file per conversation | append, load, remove last, delete | the orchestrator, at each turn and at start-up |
| Gateway session queue (`naraeclaw-gateway/src/session_queue.rs`, `ws.rs`) | slot per session: semaphore, depth, last use | acquire with limit and timeout, release, evict | every WebSocket connection that runs a turn; stored session history and state |
| Remote nodes (`naraeclaw-gateway/src/nodes.rs`, `node_tool.rs`) | registry id → queue of a socket; replies a socket waits for | connect, register, invoke, result, disconnect | the node tool of the agent; two tasks per socket |
| Cron (`naraeclaw-runtime/src/cron/`) | SQLite tables of jobs and of runs | sync of declared jobs, catch-up, poll, execute, record, reschedule, add/update/remove | the daemon's scheduler; CLI, API and tools update the same tables |
| Agent loop (`naraeclaw-runtime/src/agent/loop_.rs`, `tool_execution.rs`, `loop_detector.rs`, `history.rs`) | the conversation and the iteration of a run, the detector's window; one static request to switch models | run the loop, decide on tool calls, run them, recover from an overflow, break off, sum up | channel workers and the terminal run it; it asks the provider, the approval manager, the cost tracker |
| Approval manager (`approval/mod.rs`) | session allowlist | does a call need approval, record an answer | the agent loop; the operator's prompt |
| Cost tracker (`cost/tracker.rs`) | append-only file of records, cached sums of day and month | check the budget, record usage, refresh sums | every agent loop of the process |
| Provider wrapper (`naraeclaw-providers/src/reliable.rs`) | none between requests | chain of models and providers, retries, truncation on overflow | between the agent loop and a provider |
| Background delegation (`tools/delegate.rs`) | one result file per task | start, check, list, cancel | tasks spawned beside the agent loop; the next process |
| Gateway limits (`naraeclaw-gateway/src/lib.rs`, `auth_rate_limit.rs`) | sliding windows per client, idempotency keys | allow, record, evict | HTTP handlers |
| Emergency stop, pairing, policy, audit, routines, watchdog, heartbeat, supervisor | counters, windows, state files, hash chain | see `PROJECT.json` | the agent loop, the daemon |
| Providers, memory, channels, tools, skills, onboarding, TUI | remote services, caches, SQL | — | outside of the models, or planned |

`PROJECT.json` lists every component with its sources and status, and under
`hazards` what is hard to test in the code, each at its line with the properties
that would catch it going wrong.

What is hard:

- *Interleaving.* Workers of one sender run at the same time on several threads;
  the in-flight map, the histories mutex, the session file and the model call are
  visited one after the other, each under its own lock or none. A worker waits for
  the one it interrupts through a flag and a `Notify`. A debounce timer is aborted
  while another thread polls it. A node's socket is served by two tasks that own
  different halves of a pending reply. Turns of several senders share one request
  to switch models and one budget.
- *Atomicity.* Cron rows are read, and written back whole, in separate
  connections; a session slot is looked up and counted under different locks; a
  budget is checked before a request and charged after it; a cancellation reads a
  result file and rewrites it later.
- *Failure.* The scheduler, or the daemon, stops between a run and the write of
  its result; a checkpoint or a session append fails; a peer stops reading; a
  provider fails, is rate limited, or finds the conversation too long.
- *Time.* Approval timeouts, cooldowns, lock timeouts, debounce windows, due jobs.
- *Limits.* Concurrency limits that a reload lowers, bounded histories, bounded
  queues, permits that waiting workers hold, limits configured as 0.
- *Long protocols.* A run of a procedure through gates, checkpoints, reloads,
  resumes and its end; a conversation through failures, `/new` and a restart.

What makes each modelled component correct is stated under [Runs](#runs).

## Modules

Every module keeps the same shape: constants with one named assumption, variables,
`Init`, one action per operation (or, where other threads can run inside an
operation, one action per step of it), `Next`, the specification, the properties.
Definitions named `X_Something`, above `X`, are mutants: `X` as a plausible bug
would have it, used to see that the properties notice. `PROJECT.json` maps each
definition to the lines it stands for.

### SopEngine, SopCaller, SopLifecycle

`SopEngine` is `SopEngine` in `sop/engine.rs`. Every method takes `&mut self`
behind one mutex, so one method is one action: `StartRun`, `AdvanceStep`,
`AdvanceDeterministic`, `ApproveStep`, `CheckApprovalTimeouts`, `CancelRun`,
`ResumeDeterministic`, `Reload`. `run` holds the `SopRun` of every id ever handed
out, `active` and `finished` the two collections as ids, `files` the checkpoint
file of a run, `told` the last `SopRunAction` handed out. A step is abstracted to
whether it asks for confirmation and whether it is a checkpoint. `halted` is the
process abort that an out-of-bounds index means under `panic = "abort"`.

In `SopEngine` the callers are free: any operation in any order, because the tools
pass on whatever a model asks for. `SopCaller` extends it by callers that follow the
actions the engine returns; approvals and order are promises to those only. Their
steps are those of the program's tools: `Report` is `sop_advance`, which calls
`advance_step` in every mode, `Answer` is `sop_approve`, which calls `approve_step`.
`cancel_run` and `check_approval_timeouts` are methods of the engine that nothing in
the program calls yet; the model lets a caller use them. `advance_deterministic_step`
and `resume_deterministic_run` are called by the engine's tests only: `Drive` adds them
as a driver of deterministic runs, for `sop_checkpoint` alone.
`SopLifecycle` is the abstract specification: ids in order, at most `Limit` open,
each run ends once, for good. `SopEngine` implements it with the refinement mapping
`Phase`.

### Debounce, Dispatch

`Debounce` is the debouncer: `debounce()` and `fire_debounced()` hold the entries'
mutex from first to last access, one action each. A message, the timer it starts and
the receiver of its caller share a number. `threaded` is chosen at the start: on a
runtime with several workers, `abort()` does not stop a timer that another thread
polls at that moment (`Aborted`), so a superseded timer may fire.

`Dispatch` extends it by what calls it: `run_message_dispatch_loop` with
`apply_debounce`, `handle_stop_command`, `dispatch_worker` and
`InFlightTaskCompletion`. A message that is not held back goes on in the loop, which
waits for a permit before it reads the next one; a debounced one has a task of its
own, which ends when a newer message takes its place in the entry (`superseded`), or
gets the combined text (`Expire`) and waits for a permit there (`queued`). From then
on both are workers. Each access to the in-flight map, a token, or a completion is a
step; on one thread, a worker is left only where it awaits, so `wait()` reads the
flag and subscribes in one step. `process_channel_message` is `Begin` and `Finish`: a
turn that may take any time. A sender has one debounce key and one interruption scope
here, and they are the same.

### ChannelHistory

What `process_channel_message` does to a conversation, in memory (`mem`) and in the
session file (`disk`): `Persist` and `Remember` are the two halves of
`append_sender_turn`, `Read` is the second lock under which the conversation is
cloned; then one action per outcome, with the turns each of them appends, the
compaction, the rollback with the two steps of `remove_last`, `/new` in its three
steps, and `Restart`, which ends all workers and hydrates memory from the files. A
turn is a role and the messages it speaks for (`parts`), so merging is visible: a
request that follows the result of a tool becomes part of that result's turn.
`setting` holds the configuration and its bounds.

### SessionQueue

`SessionActorQueue::acquire` step by step (the lookup under the map's lock, the
count, the permit or a place in the semaphore's queue, the timeout, the refusal),
the guard's drop in its two steps, `evict_idle`, and the turn of a connection: store
the message, mark the session running, run, store the answer, mark it idle or in
error. `features` adds what the first deployment leaves out: a message as the first
frame of a connection, which takes no guard, and eviction.

### Cron

Each SQL statement commits on its own, so `persist_job_result` is `RecordRun`,
`Persist` and, where a one-shot cannot be deleted, `Disable`; a client's
`update_job` is `UpdateRead` and `UpdateWrite`. `batch` holds the jobs of the
current poll as they were read, which is what the scheduler decides by. Cron
expressions are abstracted to "at t" and "every t". `deployment`, chosen at the
start, says what surrounds the scheduler: the config files a start may find, the
clients, whether the process may stop and whether statements may fail. `settled` is
bookkeeping of the model: the occurrences whose outcome is stored and that nobody
asked for again.

### Nodes

`NodeRegistry`, the handler and the send task of a socket, and `NodeTool::execute`.
The reply of a call is a one-shot: `Held` and `pending` say which task owns its
sender, and dropping the owner closes it. `Aborted` takes effect only where the send
task waits; the map of pending replies is dropped by the task that ends last.

### AgentLoop, CostTracker, LoopDetector, Reliable

`AgentLoop` is `run_tool_call_loop` with those who run it: several turns of channels
at a time (`process_channel_message`), or the turns of one terminal session one after
the other. One action per stretch between two awaits: the head of an iteration with
the pending switch of models, the budget check, each failing attempt of the provider,
the answer, the decision on each call in the order of the answer (hook, approval,
duplicate), each run of a call, and the collection of the results, with the detector
and the gate on identical outputs (`Heard`). A hook may veto a call or replace it by
another one: approval, duplicates and the run go by the call it made, while the
detector is shown the new tool with the arguments of the model, and whether the calls
of an answer run in parallel was decided before. The gate opens at some iteration and
stays open, if it is configured: the elapsed time has no length here.
`turn` holds the locals of a run; they are gone when it ends. `Cancel`,
`Interrupted`, `StepTimesOut` and `TimesOut` are what the outside does, where the
code looks at it. `setting` is one deployment with the replies, errors and costs its
model and provider may return. A message of a conversation is its role, the calls it
makes or answers, and for a result what became of the call; `credit` is bookkeeping:
prompts answered with Yes or Always less executions, per tool. The calls shown to the
detector (`log`) and the outputs counted by the gate (`said`) are kept for the
properties; the code keeps the window, and a hash and a counter.

Three modules hold what the loop calls: `CostTracker` the records and the cached sums
with the change of day and month, `LoopDetector` the three patterns over the bounded
window (`Pattern`, and `Verdict` with the switch, as pure operators), `Reliable` the
walk of a request over models, providers and attempts (`After`), with the truncation on
an overflow.

### Delegation

The life of a background task and of its result file. `fs::write` is two steps,
truncation and write, with no lock between the task that ends and a `cancel_task`,
which itself reads, opens and writes; two writes over each other may leave a file that
does not parse (`torn`), from which `check_result` gets an error and not a status.
`Crash` ends tasks and calls; files stay.

### Instances

`MCSop`, `MCDispatch`, `MCChannelHistory`, `MCSessionQueue`, `MCCron`, `MCNodes`,
`MCAgentLoop` and `MCDelegation` define the values of constants for the
configurations.

## Runs

Passing runs. "Distinct states" is what TLC finds.

| Run | States | Shows |
|---|---|---|
| `sop_engine` | 1.5 M | the whole API in any order, reloads that change, drop and shorten procedures under their runs, failing checkpoint writes, eviction |
| `sop_caller` | 73 k | callers that follow the engine with the tools of the program, in all five modes; cancels, approval timeouts, no eviction |
| `inbound` | 218 k | three messages and a `/stop` from the channel to the end of their turns; debounced or not, interrupting or not, one or several threads |
| `history` | 151 k | three messages one at a time with every outcome, tool calls, a restart; two at once with failing appends, or with tool turns kept |
| `session_queue` | 52 k | three connections, a queue of two, timeouts; the second deployment with first frames and eviction |
| `cron` | 554 k | three deployments: a steady one with a declared recurring job and added ones, one task a poll, limits configured as 0; one with stops anywhere, an edited config, failing statements, and a client that resumes, adds and removes; and one with stops anywhere and a client that changes schedules, also of jobs that are running |
| `nodes` | 248 k | three sockets (two of one node), a registry and a queue of one place, two calls |
| `agent_turns` | 243 k | eight settings: two turns that spend over three days; two that switch models and are stopped; a terminal session with an operator; hooks that veto and replace calls, in both; a failing chain of two models and two providers; a model that goes round in circles; outputs that repeat, with the gate in place of the detector, and with both |
| `delegation` | 12 k | two background tasks, cancellations that race their end, two crashes |

What they establish:

- **SOP engine.** `OneHome`: a run is open and in `active_runs`, or ended and in
  `finished_runs` at most once; no order of calls loses, duplicates or revives one.
  `WithinLimits`: the total and per-procedure limits hold under reloads.
  `PositionsHold` has three parts. `SavedBehindStep`, `FilesWithinRun`: an open run
  is at a step of its own, a resume from any state file lands inside the run, and
  neither claims more saved calls than steps it left behind. `AbortsOnlyShortened`:
  the index `steps[current_step - 1]` leaves the definition only where a reload
  shortened it under the run.
  `LifecycleSpec`: the engine implements `SopLifecycle`.
- **Callers.** `ProcedureFollowed`: a completed step that needed approval was
  approved, with the approval timeout racing operators (`GatesHold`), and each step is
  recorded once, in order (`ResultsInOrder`). `Gated` says which steps need it, in each
  of the five modes: those that require confirmation, every step of a step-by-step
  procedure, the first of a supervised one and of a priority-based one below high; but
  not the first step of a deterministic one. `CooldownRespected`: with unlimited
  retention. `RunsEnd`: every run ends, but for one whose first step is a checkpoint.
- **Inbound messages.** `CombinedOnce`: no race of timers and messages drops a
  message, sends it twice, mixes senders or reorders. `QuietWindow`: without threads a
  combined message leaves only after a quiet window. `TurnsExclude`: where messages
  interrupt, at most one turn of a sender goes on (`OneLive`), and its predecessor has
  ended before a turn begins, unless `/stop` came between (`NoOverlap`).
  `StopTruthful`: with interruption, "no task in flight" is said only when no turn of
  the sender goes on. `EveryMessageHandled`: from the channel to the end, each message
  is part of a turn whose worker ends and returns its permit, in each setting but
  interruption with threads, where a wake-up can be lost.
- **Conversations.** `MemoryIsFileTail`: at rest, memory is the end of the file, unless
  a stop in the middle of a turn left the result of a tool open (`Torn`).
  `AnswersOwnMessage`: the model is shown the message it answers, last, as the user's.
  `FailuresResolved`: where messages come one at a time and appends succeed, a failed
  request is followed by an assistant's turn and a rejected one is gone, in memory and
  in the file; with overlap and failing appends a failed one is still closed in memory,
  where `Closable` holds. It does not speak of requests that were cancelled or
  overflowed, which the code leaves open. `NewForgets`: nothing said before `/new` is
  left in memory or file.
- **Sessions.** `TurnsSerialized`: one turn at a time (`OneTurn`) and no torn turns in
  the stored history (`WholeTurns`). `PendingExact`: each error path and each release
  gives a place back exactly once. `Answered`: each request gets a turn or an error,
  even behind a turn that never ends.
- **Cron.** `OccurrenceOnce`: an occurrence whose outcome is stored is not executed
  again, across restarts and failing statements, unless a client asks.
  `DueRuns`: a due job is executed, whatever the limits (0 included) and the other
  jobs.
  `DueNotDropped`: what is due stays due until it was executed, wherever the process
  stops, whatever fails, and whatever the sync of a start finds; only a client that
  removes or updates the job, or a config that drops or changes it, takes it away.
- **Nodes.** `GoneIsKnown`: no call waits for a reply nobody can give, so a lost node
  is reported at once (`WaiterHasSender`), and no entry outlives its connection when a
  connection registers one id (`ListedIsConnected`). `CallsEnd`: every call ends.
- **Agent loop.** `ResultsMatch`: in the history each answer with calls is followed by
  the result of each of them, in order, whichever were refused, skipped, run in
  parallel or trimmed. `ApprovedOnly`: under supervision no tool runs without the
  approval it needs, and one that always asks runs no more often than Yes was said.
  `SpendBounded`: a limit is passed by one request of each turn at most, across
  midnight and the end of a month, and the sums that are checked never fall short of
  the file. `StuckTurnStops` has two parts: the detector breaks a turn off exactly when
  it is on and the calls of the turn, from its start, show a pattern that must break it,
  so that a bounded window no narrower than its patterns (`Wide`) hides none; and the
  gate aborts it exactly when four outputs in a row, of those it counted, are the same.
  `EveryPairTried`: a request is given up as exhausted only after every provider was
  tried with every model. `TurnsEnd`: each turn ends, though a switch of models starts
  iterations and time-out anew.
- **Delegation.** `ResultStands`: a result that is written, with no cancellation under
  way, is not changed by crashes, restarts or later cancellations. `TaskReported`: if its
  process goes on, the file of a started task says in the end, and for good, how it
  ended, unless the task and a cancellation had the file truncated at once.

`TypeOK` in each run also holds the bounds of the code (permits, depth, lengths).

### Bounds

They are constants or named fields; nothing else limits behaviour.

- *SOP engine:* two procedures, two runs (`MaxRuns`), time 0–1, two results per run.
  Two runs suffice for the limits (a total of 2, one per procedure), eviction
  (`MaxFinished = 1`), and a reload between any two operations; the three libraries
  differ in mode, length, limit and presence. `MaxResults` cuts reports only; three
  in `sop_caller`, where a procedure has three steps and the libraries hold all five
  modes, with confirmations and a checkpoint at the first step and later.
- *Inbound:* three messages give two resets of one entry, a superseded timer that
  takes a newer entry, and a chain of interruptions longer than the two permits; a
  second sender is the CLI, which is neither debounced nor registered. The window is 0
  or 1, the clock ends at 2 and stands still while no timer sleeps; a debounced message
  is accepted only while its window still fits, so that the bound cannot strand it.
- *Conversations:* three messages over a limit of four turns trim and compact;
  `TextCalls` has tool turns and strips them; `Overlapping` and `OverlappingTools` have
  two messages, enough for each race of two workers. One restart, at any step, leaves
  every half of a write behind that a restart can read.
- *Sessions:* three connections overfill a queue of two; with eviction two messages
  and two slots suffice to leave one slot and create the next.
- *Cron:* two jobs; time 4, or 2 with faults or changed schedules: two occurrences of
  "every 1", and a one-shot that is made recurring, or the other way round, during its
  run.
- *Nodes:* each socket is used once; two sockets of one node make a reconnect; a
  queue of one place fills with two calls.
- *Agent loop:* two turns, enough for each race over what they share; answers of up to
  three calls, the smallest with a refused, a skipped and a run call in each order; two
  requests to switch (`ActionBudget`); three days in months of two; two models and two
  providers with one retry; eight iterations over a window of eight, the smallest that
  holds all patterns with `repeats = 2`; five iterations for the gate, which aborts in
  the fourth at the earliest. An output is the sequence of the results it is made of,
  so that outputs of different results differ, and none is empty.
- *Delegation:* two tasks, which share only the crashes; two crashes, so that a
  restarted process crashes too.

`CHECK_DEADLOCK FALSE` everywhere: all of these systems may come to rest.

## Fairness

Liveness is checked only under fairness the code's scheduling justifies.

- *SopCaller:* agents report the steps they are given (`sop_advance`) and operators
  answer (`sop_approve`) — that is what the returned action asks for. Nobody has to
  start a run, to cancel one, or to poll for timeouts. A checkpoint asks for what no
  tool does, so a run whose first step is one is left out of `RunsEnd`. `sop_checkpoint`
  alone assumes a driver that resumes.
- *Inbound:* time passes, Tokio runs timers and tasks, a permit is handed to whoever
  waits for one, and turns end (each has a message timeout). These steps are taken
  once each, so one weak fairness condition for their disjunction is as strong as one
  for each. Nobody has to write a message.
- *SessionQueue:* every step but `Reply`: nothing says that an agent's turn ends, and
  `Answered` needs none of that, because `acquire` has a timeout.
- *Cron:* weak fairness of the scheduler's steps: the daemon restarts the scheduler
  and a job ends at its timeout. None for clients or stops.
- *Nodes:* tasks that can go on do, and a write to a socket ends, by success or by an
  error. Nothing is assumed of the node itself: it may never answer.
- *Agent loop:* the model answers or fails, tools end, and tasks are scheduled: weak
  fairness of the steps of the turns. None for time-outs, `/stop`, or the start of a
  turn.
- *Delegation:* weak fairness of each task (an agent ends at its time-out) and of a
  cancellation that was begun. None for the start of either, or for crashes.

## Proofs

The theorems speak of every value of the constants that satisfies the assumption of
the module (`SopConstants`, `NodesConstants`, ...). An assumption says no more than
that numbers are naturals where the code has unsigned integers (positive where it
clamps them), that sets of ids and of connections are finite, that model values used
as "nothing" are no values of the program (`Absent \notin Rows`, `None \notin Ids`),
and that definitions, schedules and settings are well typed (the history an agent's
turn starts from holds texts only, and the costs a provider may report are a finite
set). TLC evaluates each on every run.

| Module | Theorem | States |
|---|---|---|
| `SopProofs` | `TypeCorrect` | `Spec => []TypeOK` |
| | `RunsHaveOneHome` | `Spec => []OneHome` |
| | `LimitsHold` | `Spec => []WithinLimits` |
| | `ImplementsLifecycle` | `Spec => LifecycleSpec`: `SopEngine` implements `SopLifecycle` |
| | `PositionsSound` | `Spec => []PositionsHold` |
| | `ProceduresFollowed` | `CallerSpec => []ProcedureFollowed` |
| | `CooldownHolds` | `MaxFinished = 0 /\ Spec => CooldownRespected` |
| `DispatchProofs` | `TypeCorrect` | `Spec => []TypeOK`, with the permits of the dispatch |
| | `AllCombinedOnce` | `Spec => []CombinedOnce` (its first section is about the debouncer alone) |
| | `StopIsTruthful` | `Spec => StopTruthful` |
| | `TurnsExcluded` | `Spec => []TurnsExclude` |
| | `WindowsAreQuiet` | `Spec => QuietWindow` |
| `SessionQueueProofs` | `TypeCorrect` | `Spec => []TypeOK` |
| | `CountExact` | `Spec => []PendingExact` |
| | `TurnsExcluded` | `Spec => []TurnsSerialized` |
| `NodesProofs` | `TypeCorrect` | `Spec => []TypeOK` |
| | `GoneConnections` | `Spec => []GoneIsKnown` |
| `CronProofs` | `TypeCorrect` | `Spec => []TypeOK` |
| | `StoredNotRepeated` | `Careful /\ Spec => OccurrenceOnce` |
| | `NothingDuePassedOver` | `Spec => DueNotDropped` |
| `AgentLoopProofs` | `TypesCorrect` | `Spec => []TypeOK` |
| | `RunsAreApproved` | `Spec => []ApprovedOnly` |
| | `HistoriesMatch` | `Spec => []ResultsMatch` |
| | `SpendIsBounded` | `Spec => []SpendBounded` |
| | `StuckTurnsStop` | `Spec => []StuckTurnStops` |
| | `ChainsAreTried` | `Spec => []EveryPairTried` |
| | `SameVerdict` | the detector's window and the whole history of calls give the same verdict |
| `ChannelHistoryProofs` | `HistoryTypes` | `Spec => []TypeOK` |
| | `OwnMessageAnswered` | `Spec => []AnswersOwnMessage` |
| | `ErrorsResolved` | `Spec => []FailuresResolved` |
| | `NewForgetsAll` | `Spec => []NewForgets` |
| | `RestartRestores` | `Spec => []MemoryIsFileTail` |
| `DelegationProofs` | `TypeCorrect` | `Spec => []TypeOK` |
| | `ResultsStand` | `Spec => ResultStands` |

The arguments, each by the invariant that makes the property inductive:

- **Procedure engine.** `TypeOK` is inductive; its lemmas (`RetainedType`,
  `FinishType`, `ResolveDeterministicType`, ...) type the helpers the actions are built
  from. What follows uses `StepShape`: each step starts one run (`Starting`), ends one
  (`Ending`), keeps one where it is (`Keeps`), or touches none (`Quiet`), a case split
  over the actions made once. `OneHome` then needs `RetainedSuffix` (eviction keeps the
  end of `finished_runs`, so a run there is neither moved nor doubled). `WithinLimits`
  is not inductive alone: that a new run raises a count by one needs its id to be
  fresh, which is `OneHome`; the limit of a procedure is the largest that any library
  gave, since a reload may lower the current one under open runs. The refinement maps
  `Starting` to `Begin`, `Ending` to `End`, and the rest to stutters.
  `PositionsHold` is inductive once runs are known to have the length of a procedure
  that was loaded once, and files belong to runs that were started (`Positions`).
  `ProcedureFollowed` needs in addition where a run stands between what the engine
  told its caller and what the caller did about it (`Following`): the results are those
  of the steps before the current one, and the current one, if gated and told to
  execute, is approved; a paused run was told to wait at its checkpoint, and no tool
  takes it on. `CooldownRespected` needs that of all ended runs of a procedure
  the last one in `finished_runs` ended last (`Latest`), which eviction would break:
  hence `MaxFinished = 0`.
- **Inbound messages.** A debouncer's entry grows at its end by the newest message, and
  what was sent is older than what is still in the entry of its sender (`Filled`); with
  it, each message is in one place (`Once`, which is `ExactlyOnce` without
  cardinalities). The permits and those who hold one add up (`PermitsExact`). A turn
  that goes on is the registered one of its sender (`Owned`), which gives
  `StopTruthful` and one live turn. That an interrupted turn ends before its successor
  begins needs that the workers of a sender form a chain in which each waits for the one
  just before it (`Ordered`). The program keeps no such chain, so the invariant says
  that an order of the workers exists, and each step says which. `QuietWindow` holds
  because on one thread only the newest message's timer of an entry is left (`Timed`).
- **Sessions.** A connection inside `acquire` or its turn has a slot, one past the
  semaphore holds that slot's permit, and the queue of a slot has those that wait for
  it, each once (`Places`); `pending` is a natural only because it counts exactly them,
  so types, places and the count are proved together. Where nothing is evicted and no
  turn starts on a first frame there is one slot (`Unsplit`), so holders exclude each
  other.
- **Nodes.** A call that waits knows its socket, and the sender of its reply is with the
  queue, the send task or the map of pending replies (`WaiterHasSender`, inductive with
  the types). What is listed is connected because an entry is the one its handler
  registered last (`EntriesMine`), which needs that a connection registers one id.
- **Cron.** `StoredNotRepeated` is about deployments that are `Careful`: declared jobs
  recur, what recurs does so after a positive time, and clients resume jobs but edit no
  schedule. The cases it leaves out are counterexamples, listed below (re-created
  one-shots, lost updates), or model-checked only: in `MCCron` the steady and the faulty
  deployment are `Careful`, the one whose client changes schedules is not, and
  `OccurrenceOnce` holds of it by TLC alone. The invariant says that rows, the
  scheduler's copies and the clients' copies of a job agree on what kind of job it is
  (`RowsRegular`, `ItemsRegular`, `ClientsRegular`), and that an occurrence whose
  outcome is stored is behind the row's `next_run`, or the row is a disabled one-shot
  (`Fresh`). `NothingDuePassedOver` needs none of this, and holds of every deployment:
  only that a poll reads rows that exist, so that a step which moves a `next_run`
  belongs to the job whose run it stores (`RowsKnown`).
- **Conversations.** Layers, each inductive on top of the ones before it (`TaleInv`):
  where a worker stands and that without overlap one is at work (`WorkInv`); that the
  message it answers is the last turn remembered (`AskedLast`); where each request is at
  each point, in memory and in the file, and that a rollback removes it and nothing else
  (`PlaceInv`); who speaks in a turn (`Shape`) and what may follow what (`Spacing`),
  without which stripping old tool turns could tear a conversation; that a marker which
  closes a request is where no later step takes it (`AllMarked`). `MemoryIsFileTail`
  holds at rest only: between the two halves of an append memory and file differ, and
  by exactly the turn on its way (`Telling`, `Tale`), so a restart at any step puts back
  the end of what was said. The model's view, the stripped history and what is spoken
  are folds over turns; the lemmas say what each keeps of a conversation (its parts, its
  order, its closed requests, what it says).
- **Agent loop.** `LoopInv` has the locals of each turn with its place (`TurnOK`) and
  what turns share. Prompts and executions are steps of their own, several turns share
  the session's approvals, and a turn may be dropped in between: the credit of a tool
  covers the calls that are decided on and still to be run, counted over all turns
  (`Covered`, in `ApprovalInv`). A history is whole answers with their results, but for
  the answer at work; an emergency trim drops from the front, so it may take a call from
  its results, and never leaves a call without them. A chain has tried each pair before
  the one it is at. The detector looks at a bounded window: `SameVerdict` says that it
  sees what the whole history shows when the window is no narrower than its patterns,
  for a detector that is on (`Watched`). The gate's counter is the length of the block
  of equal outputs at the end of what it counted (`GateOK`, in `Listened`), so that it
  reaches three with the fourth of them and not before (`OneMoreHeard`). The budget
  (`SpendInv`) is about the records with the calls under way: each turn adds at most one
  record after its check, and the sums kept are never less than those of the file, by
  induction over the records, past midnight and past the end of a month.
- **Delegation.** A cancellation that is under way has read a file, so its task exists
  (`CancelsCreated`).

Folds, minima and counts (the window of the detector, the records of a month, the turns
of a conversation) are recursive functions. The library's induction theorems take an
operator as a parameter and cannot be used by these provers; the modules derive
induction over a *set* instead, from the least element of a set of naturals
(`LeastNat`, `SetInduction`, `SequenceInduction`), and prove from it what each operator
does to one element more and to two sequences in a row.

Model-checked only: the liveness properties (`RunsEnd`, `EveryMessageHandled`,
`Answered`, `DueRuns`, `CallsEnd`, `TurnsEnd`, `TaskReported`), since TLAPS cannot reason
about `ENABLED` and so about fairness; and the three disagreements below.

## Where code and documentation disagree

Three violation runs show disagreements with a counterexample; `PROJECT.json` quotes
the lines.

- `sop_checkpoint`: a resumed deterministic run re-enters the checkpoint it was
  paused at, because its state file says that the step before is the last completed
  (`sop/engine.rs:543`), however often it is resumed. The run has a driver of its own:
  so far nothing in the program resumes a run.
- `cron_lost_update`: `update_job` writes back the `next_run` it read; when the
  scheduler moved it in between, the occurrence runs again (`cron/store.rs:276`).
- `agent_switch`: the request to switch models is one static of the process
  (`agent/loop_.rs:73`), although the tool tells the model that the switch "takes
  effect immediately for the current conversation" (`tools/model_switch.rs:26`): any
  running turn may take it up (`agent/loop_.rs:829`).

The models showed more of them. The properties exclude these cases by a stated
precondition or by the values of an instance, so that what they say is exact:

| Where | What happens | Excluded by |
|---|---|---|
| `sop/engine.rs:109` | the cooldown is read from `finished_runs`, which evicts | `MaxFinished = 0` in `sop_caller` |
| `sop/engine.rs:193` | `advance_step` accepts a run that waits for approval | `SopCaller` follows the actions |
| `sop/engine.rs:486` | a deterministic run hands its first step out without asking, also if its `requires_confirmation` is set, although `docs/reference/sop/syntax.md:61` says that it "enforces approval for that step"; later ones come through `advance_step` and are asked for | `k > 1` for deterministic procedures in `Gated` |
| `sop_advance.rs:123` | `sop_advance` calls `advance_step` for deterministic runs too, which knows no checkpoints: a later checkpoint step, which "pauses execution and waits for human approval" (`sop/types.rs:104`), is executed like any other | no property demands the pause |
| `sop_approve.rs:61` | a deterministic run whose first step is a checkpoint is paused there, and `approve_step` refuses it: it stays, and holds its place under the limits | the exception in `RunsEnd` |
| `sop/dispatch.rs:162` | "approval timeout polling in the scheduler handles progression", but nothing calls `check_approval_timeouts`; nothing calls `cancel_run` either | the model lets a caller use both, `RunsEnd` relies on neither |
| `sop/engine.rs:270` | approving after the procedure was unloaded leaves the run running, and tells nobody | nothing: part of `sop_engine`, no property forbids it |
| `orchestrator/mod.rs:362` | `InFlightTaskCompletion::wait` loads the flag and only then creates `notified()`; a completion in between wakes nobody, and the interrupting worker waits for good, with its permit. Interruption is off in what `start_channels` builds, so the path is dormant | `~(interrupts /\ threaded)` in `EveryMessageHandled` |
| `orchestrator/mod.rs:3600` | `/stop` looks at registered workers only: a message that the debouncer holds or that waits for a permit is answered as "no in-flight task" and processed later | `StopTruthful` speaks of turns that run |
| `debounce.rs:75` | an aborted timer polled on another thread fires early | `~threaded` in `QuietWindow` |
| `ws.rs:354` | a message as first frame takes no session guard | `features = {}` in `TurnsSerialized` |
| `session_queue.rs:98` | eviction between lookup and count splits a session | the same. Not a hazard of the program as it is: `evict_idle` has no caller yet |
| `orchestrator/mod.rs:3539` | without interruption a second message hides the first from `/stop` | `interrupts` in `StopTruthful` |
| `orchestrator/mod.rs:3538` | workers register in the order they run, so an older message may interrupt a newer | no property demands the order |
| `cron/store.rs:709` | a declared one-shot is re-created and runs again at each start | recurring declarations only |
| `cron/store.rs:276` with 709 | a stale write while pausing, then the sync of a restart, repeats an occurrence | the client of the faulty deployment only resumes |
| `cron/scheduler.rs:364` | a one-shot made recurring during its run is deleted at its end, because the scheduler goes by the copy it selected | `DueNotDropped` is about what was not executed |
| `cron/scheduler.rs:395` | likewise a job whose schedule is edited during its run is rescheduled by the one the scheduler selected: the next occurrence is that of the old schedule | the same |
| `orchestrator/mod.rs:4399` | hydration closes a request without a reply, not the result of a tool: the next request is merged into the result, which the model is shown in its place, and stripped with it | `~Torn` in `AnswersOwnMessage` and `MemoryIsFileTail` |
| `orchestrator/mod.rs:1234` | with overlap, the marker of a failed request may be merged into another message's call that is text, and is stripped with it | `Closable` |
| `orchestrator/mod.rs:4399`, `:1129` | a restart reads a file that the marker did not reach and that ends with tool turns: the request stays open | `Closable` |
| `orchestrator/mod.rs:1129`, `:1268`, `session_store.rs:87` | with overlap, file and memory may order turns differently, and a rollback drops another message's line, or an appended answer | `Orderly` |
| `orchestrator/mod.rs:3111`, `:3353` | a request that is cancelled, or overflows the context window, leaves its user turn open, and the next message is merged into it | `FailuresResolved` is about failed and rejected ones |
| `orchestrator/mod.rs:2573` | with overlap, another message may be the last one the model is shown | `~overlap` |
| `orchestrator/mod.rs:1203` | with no more exchanges than `keep_tool_context_turns`, the current tool turns are stripped | `MemoryIsFileTail` is about spoken turns |
| `orchestrator/mod.rs:1231` | native tool calls are not recognised and stay when their results are stripped | the same |
| `orchestrator/mod.rs:1154` | trimming turn by turn may leave a tool result without its call | no property about tool pairs |
| `orchestrator/mod.rs:4395` | hydration trims to a constant, not to `max_history_messages` | `TypeOK` allows the constant after a restart |
| `session_store.rs:28` | keys that differ in a dot, `@` or `+` share a file, and are hydrated under its name | `Alone` |
| `nodes.rs:382` | the end of an old socket removes the entry of a reconnected node | `ListedIsConnected` is the other direction |
| `nodes.rs:349` | a socket that registers two ids unregisters one | `IdsOf` has one id per socket |
| `nodes.rs:303` | a reply faster than the record of its channel is dropped, and the call times out | `CallsEnd` counts a time-out as an end |
| `node_tool.rs:127` | a call that waits for room in the queue has no time limit | fairness: writes end |
| `orchestrator/mod.rs:3019` | a channel's turn switches models for itself only; the route of its sender is not kept | `home` changes in the terminal only |
| `cost/tracker.rs:385` | the first record of a new day is written, then contained in the rebuilt sums, and added to them once more: the budget is used up early | `SpendBounded` says that sums do not fall short |
| `cost/tracker.rs:51` | parallel turns pass the same check | the margin in `SpendBounded` |
| `agent/loop_.rs:1858` | the final summary is neither checked against the budget nor charged, and a streamed answer is not charged | a cost of 0 in `costs` |
| `agent/history.rs:100` | the emergency trim may drop a call and keep its result | `ResultsMatch` starts from the calls |
| `agent/loop_.rs:1802` | "Bail if we see 3+ consecutive identical tool outputs": the counter is 0 for the first of them, so it is the fourth that ends the turn | `MaxAlike` in `StuckTurnStops` |
| `agent/loop_.rs:1732` | after a hook has replaced a call, the detector is shown the new tool with the old arguments | `Entries`; the property is about what is shown |
| `agent/loop_detector.rs:51` | "tool call should be refused (output replaced with error)", but a block only adds a system message | `Collect` |
| `agent/loop_detector.rs:148` | "escalation order (most severe first)", but a warning about a repeat hides a break for want of progress | `Verdict` takes the first detector that speaks |
| `agent/loop_detector.rs:128` | a window narrower than its patterns never breaks a turn off | `Wide` in `StuckTurnStops` |
| `providers/reliable.rs:366` | "`failures` accumulates every failed attempt", but an overflow that was answered by truncation is not listed, so the last error may hide it | `listed` in `Reliable` |
| `tools/delegate.rs:1006` | `cancel_task` stops nothing: the task goes on, and its result replaces the cancellation | `ResultStands` is about results |
| `tools/delegate.rs:1015` | a cancellation that read the file before the task ended replaces the result | `cancel[t] = "idle"` in `ResultStands` |
| `tools/delegate.rs:1015`, `:909` | a task and a cancellation that have both truncated the file may leave one that does not parse, for good | `Overlap` in `TaskReported` |
| `tools/delegate.rs:631` | a task whose process ended says "running" for good | `crashes > 0` in `TaskReported` |

## Not modelled

`PROJECT.json` gives a reason for each component. In short: providers, channels and
tools exchange data with models and remote services whose answers are arbitrary;
configuration, onboarding, the TUI, observability and code generation keep no state
that steps of several actors share; SQL ranking, embeddings and string parsing are not
state models. Much of the repository's size is of these kinds.

Left out inside the modelled components: in `Dispatch`, threads and forum topics, where
the debounce key differs from the interruption scope, and channel start-up; in
`ChannelHistory`, the cap on the number of conversations, context compression and the
trim by characters; in `Cron`, manual runs and the evaluation of cron expressions; in
`SessionQueue`, event forwarding; in `Nodes`, authentication; in `AgentLoop`, streaming,
calls written in the text, tool turns that the history of a channel brings along, vision
routing, the defaults injected into deliveries, trimming by token estimates,
compression, and the iteration budget shared with subagents; in `Reliable`, key rotation
(the code only logs it) and the lengths of waits; a crash in the middle of writing a
file, everywhere but in `Delegation`.

## Plan

Models, most important first:

1. `Dispatch` over `ChannelHistory` (the settings under which messages of one
   conversation overlap), and `AgentLoop` as the turn of both.
2. Gateway limits and idempotency keys; stall watchdog; the SOP dispatcher's cron cache
   with the engine behind its lock.
3. Action budget, audit hash chain and emergency stop; supervisor, heartbeat and
   routines.
4. The response cache, and the context compressor as an operator on conversations.

Abstract specifications worth stating: an exactly-once, in-order mailbox for
`Debounce`; a mutual exclusion with a bounded queue for `SessionQueue`; a
request/response with at most one outcome for `Nodes`.

Theorems, in order: that `Debounce` and `SessionQueue` implement the abstract
specifications above; that what a turn of `AgentLoop` spends and stores composes with
`ChannelHistory`, once the two are one model; and the invariants that the liveness
properties rest on (whoever waits has somebody who will wake it), for `SessionQueue` and
`Dispatch`.

## Running

    tlc -workers 2 -config MCSopEngine.cfg MCSop
    tlapm SopProofs.tla

and likewise for each pair of configuration and module in `PROJECT.json`.
