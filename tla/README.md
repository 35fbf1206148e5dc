# Verification of lambda-durable-execution-rust

TLA+ models of the SDK in `src/src/` and of the durable MCP agent built on it in
`src/examples/src/bin/mcp_agent/`, TLC configurations that check them on small
instances, and TLAPS proofs of their main properties for all instances. Line
numbers refer to `src/src/`, those of the agent to its directory.

## The system

The SDK runs a *durable handler* inside a Lambda invocation. The handler calls
durable operations (step, wait, callback, invoke, child context, map, parallel,
wait-for-condition). Each operation hands *updates* (START, SUCCEED, FAIL, RETRY)
to a checkpoint manager, which sends them in batches to the durable-execution
service. When an operation cannot go on in this invocation (a timer, a callback,
an invoked function, a retry) it terminates the invocation; the service invokes
the function again later, and the operations that are already recorded replay.

| component | state | operations | interacts through |
|---|---|---|---|
| checkpoint manager (`checkpoint/`) | queue, `is_processing`, token, `step_data`, lifecycles, `pending_completions`, `is_terminating` | `checkpoint`, `checkpoint_queued`, `force_checkpoint`, `mark_awaited`, `wait_for_queue_completion`; the worker's loop | called by operations and the runtime; calls the service and the termination manager |
| termination manager (`termination/`) | `terminated`, watch channel, callback | `terminate`, `wait_for_termination` | called by operations and the worker; sets `is_terminating` |
| runtime (`runtime/handler/execute.rs`) | result of the race | input, select, drain, large result, output | polls the handler, listens on the watch channel |
| execution context (`context/execution_context.rs`) | `step_data`, operation counter, mode, parent id | pages of the initial state, ids, lookups | read by every operation |
| operations (`context/durable_context/`) | what is recorded of them | execute and replay paths of each operation | calls to the two managers; JoinSets of branches |
| retry, durations, completion policy, errors, batch results (`retry/`, `types/`, `error/`) | none | pure functions | called by operations |
| service (external) | token, operations, timers | checkpoint, get state, invoke | requests of the manager |
| MCP agent (`mcp_agent/`) | messages, usage, tool names; a cache of secrets | load the configuration, discover tools, call a model, call tools | steps, child contexts and maps of the SDK; HTTP to models and MCP servers |

What is hard here:

* interleaving: tasks, the worker and the runtime share six locks that are taken
  one after the other, so state read under one is used after it is released;
* partial failure: a batch is refused, or recorded and its answer lost;
* suspension: `terminate` stops the manager while other tasks are anywhere in
  their calls, and `select!` may prefer the handler's result;
* aborts: a batch operation that completes early drops branches at any await;
* replay: a later invocation sees what was recorded, not what was executed;
* translation: the agent keeps one form of a conversation and rewrites it for each
  provider on every request.

What makes each part correct:

* manager: updates reach the service once, in order and without gaps; nobody is
  told more than was recorded; nobody waits forever; one worker, one batch, the
  token the service accepts;
* runtime: it always answers; *Succeeded* only over recorded work, *Pending* only
  if something is pending; nothing is sent after the answer;
* step: at most (at least) one execution per attempt across crashes; a recorded
  result is returned, not recomputed; attempts never exceed the strategy's limit;
* wait, callback, invoke: started once, suspended only for what is on record, and
  returned from in some invocation;
* wait for condition: each poll goes on from the poll before, and polling ends;
* child context: what ran inside does not run again, its result can be made again;
* map and parallel: the policy's verdict is final, later invocations give the same
  result, and no branch runs or is recorded after the batch;
* agent: each result of a tool follows its call, an answer means the same whatever
  provider gave it, and the metadata counts every turn.

## Modules

State machines:

| module | models |
|---|---|
| `TerminationManager` | `termination/manager.rs`: first reason wins, manager told before the channel |
| `CheckpointManager` | `checkpoint/`: tasks' calls, queue, worker, and the service behind them |
| `DurableHandler` | `runtime/handler/execute.rs` composed with the manager: `Next`, `Spec`, `FairSpec` |
| `DurableLog` | abstract: what the manager promises of accepted, recorded and acknowledged updates |
| `DurableHandlerProps` | the properties, and the refinement mapping to `DurableLog` |
| `Invocation` | one operation across invocations: snapshot, crash, failed batch, suspension by others |
| `StepPromise` | abstract: an outcome that is set once, what runs before it, and what the handler went on with |
| `DurableStep` | `step.rs`, `step/`, over `Invocation` |
| `Suspension` | `wait/`, `callback/`, `invoke/`, over `Invocation` |
| `WaitCondition` | `wait_condition/`, over `Invocation` |
| `ChildContext` | `child/`, over `Invocation` |
| `BatchExecution` | `map/`, `parallel/` and the contexts of their branches |
| `AgentConversation` | the requests of the agent's loop |

Pure definitions (no variables), which the state machines use or whose properties
TLC evaluates as assumptions:

| module | models | evaluated in |
|---|---|---|
| `InitialState` | pages, `step_data`, mode and input at the start of an invocation | `MCHandler` |
| `RetryPolicy`, `OperationUpdates` | `retry/`, `types/duration.rs`; the updates an operation sends and how records are read | `MCStep` |
| `DurableErrors` | `error/types.rs`, which failures of a request count as passing | `MCStep` |
| `BatchPolicy` | `batch.rs`: when a batch is over, and why | `BatchExecution` |
| `BatchValues` | `types/batch.rs`, `types/batch_serdes.rs`: a result written and read again | `MCBatch` |
| `AgentMessages`, `AgentConfig`, `AgentProviders`, `AgentTools`, `AgentLoop` | the agent's messages; configuration and keys; the two providers; the MCP servers; the loop | `MCAgent`, through `MCBatch` |

`MCHandler`, `MCStep`, `MCSuspension`, `MCWaitCondition`, `MCBatch`, `MCChild`,
`MCAgent` and `MCConversation` are the instances. `DurableHandlerProofs`,
`DeliveryProofs`, `DurableStepProofs`, `SuspensionProofs`, `WaitConditionProofs`,
`ChildContextProofs`, `BatchProofs` and `RetryPolicyProofs` hold the proofs.

### Manager and runtime

A *task* is one asynchronous flow of the handler. What it asks of the manager is
its `Program`, a sequence of calls in the order the operations make them; a step
whose body decides its outcome is a call with several possible actions. `after`
orders calls of different tasks (spawn, join), `aborts` says whose tasks are
aborted (`JoinSet::abort_all`, `map/execute.rs:201`) once a call is reached.
`Main` is the task that runs the runtime; its only call checkpoints a large result.

An action is the code between two points where another thread can interfere. The
call `checkpoint` (`manager.rs:142`) is `EnterCheckpoint` (the checks, the pending
completion and the lifecycle), `Enqueue`, `StartProcessing` (`queue.rs:5`) and
`CheckpointReturns`; `checkpoint_queued` is the first three. The checks at the
front are one step with the updates of `pending_completions` and `operations`
because only the worker's cooldown and cleanup read them, and they may do so
before or after. The worker's loop (`queue.rs:21`) is `TakeBatch`,
`FindQueueEmpty`, then `BatchAcknowledged`, `ReleaseBatch`, `CheckRetryWaiting`,
`CooldownElapsed` or `BatchFailed`, `ReleaseFailedBatch`, `DrainQueue`,
`TerminateForFailure`, and `StopProcessing`.

`Step(actor, more)` is the scheduler. With `Preemptive = TRUE` (`#[tokio::main]`,
which the repository's README shows) any actor may take the next step. With
`Preemptive = FALSE` (a current-thread runtime, as in `#[tokio::test]`) an actor
keeps the thread until it awaits something that is not ready; an uncontended lock
does not yield. Tokio's cooperative budget, which can make a ready lock yield
after 128 operations in one poll, is not modelled.

The service is external: it takes a request that carries the token it gave out
last, records it, and answers with a new token; with `CanFail` it may refuse a
request, or record it and lose the answer. A request with an old token is refused
(`types/lambda_service.rs:502` knows the message "Invalid Checkpoint Token").
`log`, `accepted` and `lost` are history variables.

The model is larger than the code in one point: after the race the handler's
other tasks need not be dropped at once (a spawned branch may run on another
thread until its next await), on either runtime.

### Operations across invocations

`Invocation` looks at one operation through many invocations, and at the manager
only through what the first model shows of it: updates are recorded in the order in
which they were accepted (`DurableLog`), a failed batch releases the callers, drops
the queue and terminates, and nothing is recorded afterwards (`NoGapInLog`, on a
current-thread runtime). An action is the code between two awaits of the operation's
task: it decides on the snapshot, `Send` is a call of the manager, `Released` its
return. `Crash` may happen anywhere; whether a request on its way is recorded is the
choice of `RecordUpdate` before it. `OtherOperationSuspends` is a sibling. A value
is the number of the function call that gave it. `NextOperationRecorded` stands for
whatever the handler records next; it is what makes an outcome matter. Over this:

* `DurableStep`: the service counts the RETRYs in `attempt`, to which the code adds
  one, and makes a *Pending* step *Ready* when its timer elapses.
* `Suspension`: the re-checks after the START of a wait and after the refresh of an
  invoke read the context's own copy of `step_data` (`execution_context.rs:131`),
  which no answer updates, so what they find is the snapshot. The submitter of a
  callback is a step of its own: once it has succeeded the record of the callback
  counts; if it fails for good the operation ends with its error, whatever the callback's
  record says (`callback/execute.rs:172`), and so it does in every later invocation.
  `OutsideEnds` is the timer, the external system
  or the invoked function, ending it with any status, one the code does not know among
  them. `starts` counts the recorded STARTs.
* `WaitCondition`: one poll per invocation, whose state is the payload of a RETRY. A
  poll that is *Pending* is run again by an invocation for any other reason; a check
  that fails returns its error and leaves no record. A limit that is exceeded is two
  outcomes: `Exceeded`, the WaitConditionExceeded of the invocation that finds it
  (`execute.rs:51`), and `StepFailed`, what every replay reports (`replay.rs:39`).
* `ChildContext`: the function runs operations one after the other; `InnerRecorded`
  and `InnerBatchFails` are the fate of their updates. A result over the size limit
  is recorded as `replay_children` and made again by calling the function, whose
  operations then find an ancestor that is finished and are parked
  (`HasFinishedAncestor`, `manager.rs:153`) if they send anything.

`BatchExecution` has its own invocations, since it follows several operations: the
batch and a child context with one result per branch. `Spawn` fills the JoinSet up
to the limit, `JoinNext` takes results in the order in which branches ended, the
policy decides, `Complete` aborts the rest (a branch may be aborted at any of its
awaits, its update queued or not) and sends the result. On a current-thread runtime an
aborted branch never runs again; on a multi-thread one (`Preemptive`; `runtime` is chosen in `Init`) it runs on until
`AbortTakesEffect`, for as long as it likes, which is more than the code allows (to its
next pending await). What a branch sends is parked if the manager terminates or if the
batch has succeeded in the manager's `step_data` (`HasFinishedAncestor`,
`manager.rs:151`); a branch on another thread may have looked before it did
(`LookedBefore`). A completed batch that is executed again finds itself finished, so only
branches on record join it. `ReturnRecorded` and
`Rebuild` are the replay of a small result, and of one made again from the branches'
records. `Mode` is what the shared mode says when the record is looked up.

### The agent

All that the agent does is inside steps, child contexts and maps, so its handler is
a function of what these return: `AgentHandler` and `Loop` take those returns, and
`ToolBatches` says which batch results `ctx.map` may give for the outcomes of the
calls (any set of them that ended when the first failure aborted the rest). A JSON
value is a kind and what it holds, a text a sequence of phrases, a secret or a
server what it answers; of a server's list of tools the cursors are a finite sequence
of pages. `AgentConversation` runs the loop as a state machine with every answer the
model may give, and keeps the last request in the form the provider gets.

In the pure modules an integer's width is a parameter (`MaxU32`, `MaxI32`; a cast
or an unchecked sum wraps), an `f64` is a fraction or, for a percentage, compared
exactly, and randomness is a set.

## Runs

| run | instance | shows |
|---|---|---|
| `handler_mt` | a batch of a step (with retry, may fail to serialize) and a wait, which completes early and aborts; a large result; a result that cannot be written as JSON; an update larger than a batch may be; multi-thread, no refusals | types, one batch at a time, nothing lost or reordered also when branches are aborted inside their calls, completions tracked, coalescing, *Succeeded* is durable, `DurableLog` implemented |
| `handler_st` | an at-least-once, then an at-most-once step, next to an invoke that refreshes and suspends; current-thread, refusals and lost answers | no gap in the record, *Pending* is resumable, no wake-up lost, silence after the answer, callers released, the invocation answers, the token is the one the service accepts |
| `lost_wakeup` | one at-most-once step, multi-thread, nothing fails | **violated**: a caller may wait forever |
| `step_crash` | a step of either semantics, three attempts, two cut-offs, one failed batch, a Serdes that may fail | one outcome, on which the handler went on; attempts go up and stay bounded; the first at-most-once attempt runs once; `StepPromise` implemented; the step settles |
| `step_ready` | two attempts, one cut-off, no failed batch | **violated**: an at-most-once attempt runs twice |
| `suspension` | wait, callback (with a submitter that may fail for good) and invoke, two cut-offs, one failed batch, ends the code knows | started once, suspended only for what is on record, `StepPromise` implemented, the operation returns |
| `timed_out` | the same with an end the code does not know | **violated**: the operation suspends in every invocation |
| `condition` | three polls, two cut-offs, one failed batch | polls continue each other, a limit that was reported stays reached, `StepPromise` implemented, polling ends |
| `child` | a context of two operations, small or large result, a Serdes that fails or gives nothing | success rests on records, nobody is parked for good, `StepPromise` implemented, the context settles |
| `batch_exec` | map and parallel of up to three branches under seven configurations, four items and faults together, on either runtime | the result is the same in every invocation, also if an aborted branch is recorded behind its batch; current-thread: completion is last, no branch runs again; the batch settles, the limit of concurrency |
| `nested_batch` | two branches, current-thread, looked up in Execution mode | **violated**: a completed map or parallel is executed again, joins its recorded branches in another order and returns something else |
| `agent_openai` | a conversation with OpenAI of three turns of up to two calls, of which the second may fail | **violated**: a result follows no message that calls for it |

### Bounds

The instances of `MCHandler` have two or three tasks with at most four calls each, a
batch limit of two updates (an update of size three, the START of the wait, exceeds it), and no other bound: positions, tokens and logs are
bounded by the programs. That is enough for two updates in one batch with a third
behind it, for a batch that overlaps the next, for a task in every position of its
call while the worker is in every position of its loop, and for two requesters with
one token.

Across invocations `MaxCrashes` counts crashes, suspensions by siblings and Serdes
failures, `MaxRefusals` failed batches. Two cut-offs suffice for one in an attempt and
one in the invocation that recovers from it; three attempts or polls for a first, a
middle and a last one; two operations inside a context for one that is recorded when
the other is cut off. With the bounds in the guards an operation is disturbed finitely
often, which the liveness properties need. In `BatchExecution` one bound, `MaxFaults`,
is shared by the items and the faults, so that three branches go with one fault and
one branch with three; three branches let one end, one fail and one be aborted. The
policies (`MCCalls`) are: all, first success, no success needed, one tolerated failure
one at a time, and a third of failures with two successes wanted.

`MaxU32` is 16383 or 16000 and `MaxI32` 8000: small enough for TLC's integers, large
enough for the seconds of days. Two turns of two calls are enough for `agent_openai`,
three let it continue.

`CHECK_DEADLOCK FALSE` in the runs of `MCHandler` and `MCConversation`: an invocation
that has answered, and a conversation at its end, stop.

### Where a property holds

* `NothingAfterReturn`, `CallersAreReleased`, `NoWakeupLost`, `NoGapInLog` and
  `PendingIsResumable` hold on a current-thread runtime only. With several threads a task can pass the
  `is_terminating` check, stall, and push after the queue was drained
  (`manager.rs:144`, `:181`); the lost wake-up is possible; and a task that loses its
  thread between noting RetryWaiting (`lifecycle.rs:45`) and pushing its RETRY, for the
  whole cooldown, lets the worker answer *Pending* with nothing recorded to resume for,
  against the comment in `invoke/replay.rs` ("Cannot return PENDING status with no
  pending operations").
* `SucceededIsDurable` holds while no batch fails: after a failed one the race may
  still prefer the handler's Ok (`execute.rs:99`). `InvocationReturns` is checked for
  results that fit the response: the call for a large one is parked if the manager
  already terminates (`manager.rs:144`).
* `TokenIsCurrent` speaks of answers that are taken. One nobody takes, because it was
  lost or its branch aborted, leaves an old token, whose next request is refused: a
  failed batch.
* `FirstAttemptOnce` is stated for the first attempt, because of `step_ready`, and for
  executions without a failed batch, because START may then be acknowledged unrecorded.
* `ImplementsPromise` of `WaitCondition` leaves out what the handler did upon an error
  of the check, which is not recorded, and upon WaitConditionExceeded, which no
  invocation replays: later ones return StepFailed with the attempts that were made, one
  less (`wait_condition/replay.rs:39`), so a handler that tells the two apart takes another
  path when it is replayed. Of it `ExceededIsFinal` says what does hold: the record is a
  failure and stays one.
* `CompletionIsLast` and `NoBranchRunsAgain` hold on a current-thread runtime only. With
  several threads `abort_all` (`map/execute.rs:201`) lets a branch that is being polled
  run to its next pending await: it may pass `manager.rs:151`, which does not yet find
  the batch, and push its update behind the batch's, or be running when the batch is
  recorded. `ResultIsStable` holds there too.
* `ImplementsDurableLog` maps *acknowledged* to what has left batch and queue.
  `NothingIsLost` does not say that an update is sent: one whose branch was aborted
  between the push and the start of a worker waits in the queue for the next update.
* `ResultIsStable` leaves out a batch that aborted a branch and whose result was too
  large to record: it is rebuilt from records that can say more than it did
  (`map/replay.rs:176`). `BatchSettles` leaves out a map with `min_successful = 0`, which
  leaves its loop through `unreachable!` (`map/execute.rs:315`).
* The runs of steps and conditions leave out a Serdes that gives no value
  (`EveryPayload`, `step/replay.rs:41`): a step would return Ok once and an error in
  every later invocation.

### Pure definitions

TLC evaluates these over all the inputs named, at the start of the runs of the module
that states them: where a page is cut does not matter, and neither an unreadable page
nor too many start the handler (`PagingAssumption`, `LimitAssumption`); the mode at the
start (`ModeAssumption`); the second EXECUTION of a large result leaves to a HashMap
which one is found (`LargeResultAssumption`); presets, strategies, durations, updates,
statuses, errors and requests (`MCStep`); a batch result read again has the status,
reason and values it had but for nulls, and what is read again stays the same
(`MCBatch`). Of the agent (`MCAgent`): an answer means the same from either provider;
with Anthropic a call has a result in the next message unless a call of its turn failed
in transport; with OpenAI results follow their calls as long as each turn has one;
metadata and the execution's record; a name is routed to its server if first labels
of hosts differ and hold no `__`; discovery is all or nothing; missing fields; the cache
of secrets; malformed answers; headers, statuses and `is_retryable`.

What these evaluations show and nothing promises otherwise: an answer of OpenAI keeps
no `tool_use` (`llm/transformers/openai.rs:307`), so the model is later shown that it
called `unknown` with `{}`; optional configuration that is not JSON counts as missing
(`config/loader.rs:128`); an error that leaves the handler through `?` writes no record
of the execution; both callers that find a secret expired fetch it, since the write lock
is released before the fetch (`llm/secrets.rs:78`); a null `finish_reason` hides a
`stop_reason`. `is_recoverable`, `should_terminate_lambda` and the agent's
`is_retryable` are called nowhere but in tests.

### Fairness

`FairSpec` of the handler assumes weak fairness of each task, the worker, the service
and the runtime: tokio polls every ready task again, the user code between two calls
returns, and the SDK's client answers or times out. Nothing is assumed of aborts.
Across invocations the specifications assume weak fairness of the operation's task (its
function returns), of recording, and of the service, which ends and invokes the
function again as long as the execution is not done; of the timer in `DurableStep`; of
the outside in `Suspension`; of each branch in `BatchExecution`. `WaitCondition` needs no
timer, since any invocation polls. Nothing is assumed of crashes and failures. The
liveness counterexamples (`lost_wakeup`, `timed_out`) do not depend on unfair
scheduling: in the first the code's actors are all disabled, in the second every
invocation does the same.

### Findings

* `lost_wakeup`: the worker decides the queue is empty under one lock and clears
  `is_processing` under another (`checkpoint/manager/queue.rs:26`, `:103`).
* `step_ready`: a *Ready* step counts as started, so the retry of an at-most-once step
  has no START (`step/execute.rs:25`).
* `timed_out`: a status the code does not know suspends forever (`callback/execute.rs:90`).
* `nested_batch`: the lookup of a batch depends on a mode all contexts share
  (`map.rs:74`). Executed again, a completed batch takes its recorded branches in the
  order in which their tasks happen to end. A branch without an outcome on record is
  parked when it checkpoints and cannot change the result.
* `agent_openai`: the assistant message to be moved is looked for only among the first
  `i` of a list that may be longer (`llm/transformers/openai.rs:149`), so after a turn
  with two results an earlier message is taken out and the latest is sent twice.

## Proofs

For every set of tasks and operations, every program, size, payload limit, either
runtime, and with or without failures (assumptions `ProgramAssumption`,
`SizeAssumption`, `ActorAssumption`, `HandlerAssumption`):

* `TypeCorrect`: `Spec => []TypeInvariant`. Not inductive as it stands: an update
  is built from the program at the task's position, so `InCall` says that a task
  inside a call is at a position of its program, and `Chosen` that the runtime
  answers only after the race.
* `OneBatch`: `Spec => []OneBatchInFlight`, inductive relative to the types. The
  only task action that touches the worker is `StartProcessing`, and it does so
  only if `is_processing` is false.
* `Delivery`: `Spec => []NothingIsLost`. The induction needs `OneBatchInFlight`:
  a batch is taken only when the previous one is gone, a failed batch is not empty,
  so it makes `lost` non-empty for good.
* `CurrentToken`: `Spec => TokenIsCurrent`, from the inductive `Behind`: the manager's
  token is never ahead of the service's, no request carries a newer one than the
  manager holds, and at most one answer is on its way, which then carries the token the
  manager lacks. A second request can be sent with that same token, but is refused. An
  answer is on its way only to a task that is inside `force_checkpoint` or was aborted
  there (`AsksInside`), so no new request overwrites it.
* `StoredNewest`: `Spec => []StoredIsNewest`. That a sequence has a newest update of an
  operation needs induction, here in the form that the natural numbers are well founded
  (`SmallestExists`); coalescing keeps the newest of a batch (`CoalesceKeepsNewest`), and
  appended to the log it is the newest there (`NewestOfSecond`).
* `LogImplementsPromise`: `Spec /\ []NoFailure => ImplementsDurableLog`; with failures
  it does not hold: the callers of a failed batch are released although nothing was
  recorded. The step needs `NothingIsLost`, and that a task never enqueues
  the same call twice (`Numbered`): else a new update would take back an acknowledgement.

The next ones speak of the shape of a program as well. Their hypotheses are definitions
of `DurableHandlerProps`; `MCHandler` assumes them of its programs, so every run of it
evaluates them (`ProgramsAssumption`):

| hypothesis | says | in the code |
|---|---|---|
| `CompletesOnce` | no two calls complete one operation | the id is taken from the context's counter; one function completes it |
| `OneTask` | the calls of an operation are made by one task | each operation is one future; a `CallbackHandle` that another branch awaits is left out |
| `RetryAwaited` | a RETRY is awaited | `step/execute.rs:147`, `wait_condition/execute.rs:175` call `checkpoint` |
| `SuspendsStarted` | only a wait, a callback or an invoke suspends, in a call that records nothing, and its operation was started before, here or by an earlier invocation | `wait/`, `callback/`, `invoke/execute.rs` |
| `RefreshAlone` | a refresh is not one outcome of a checkpoint | `force_checkpoint` is a call of its own |
| `NoRefresh` (a service that answers is not enough: of a refresh and a batch with one token one is refused) | no task refreshes | invocations without an invoke |
| `AwaitsRecorders` | the handler awaits every task that records | a handler that joins what it spawns |
| `~Preemptive` | a current-thread runtime | see "Where a property holds" |

* `CompletionsTracked` (`CompletesOnce`): `Spec => []CompletionsAreTracked`. With two
  calls that complete one operation the release of the first batch would forget the
  second. The induction carries that each call is accepted once and in the order of its
  task (`OnceEach`) and as the program asks for it (`FromProgram`), that a completion is
  noted before it is pushed (`Noted`), and that what is noted is under way or about to be
  (`Tracked`).
* `NoGaps`: `Spec => [](~Preemptive \/ NoFailure => NoGapInLog)`. What is recorded is a
  prefix of what was accepted (`LogIsPrefix`), because after a failed batch nothing is
  accepted any more: a task past the `is_terminating` check has the thread until its
  update is queued (`Inside`), and the worker has it from the failed batch until the
  manager terminates (`AfterLoss`). On a multi-thread runtime TLC finds the gap.
* `NothingFails` and `PromiseKept` (`~CanFail`, `NoRefresh`): the manager makes no failure
  of its own, so `Spec => ImplementsDurableLog` without a condition on the execution.
* `SuccessIsDurable` (`RefreshAlone`): `Spec => [](lost = {} => SucceededIsDurable)`, and
  `SuccessAlwaysDurable` (`~CanFail`, `NoRefresh`): `Spec => []SucceededIsDurable`. Every
  call a task has left behind was accepted (`PassedCalls`), and what was accepted is
  recorded when queue and worker are quiet (`QuietIsRecorded`).
* `SilentAfterReturn` (`~Preemptive`, `AwaitsRecorders`): `Spec => NothingAfterReturn`.
  `QuietReply`: nobody acts between the look at the quiet queue and the output. `Silent`:
  after it the queue and the worker stay quiet, because a task can go on only if the
  handler did not await it, or finds the manager terminating.
* `PendingResumable` (`~Preemptive`, `ResumableProgram`: the four about operations): `Spec
  => []PendingIsResumable`. `ReasonKnown` ties the reason of the termination to a RETRY
  that is accepted or about to be, or to a task parked at its call; `RetryStops` says that
  a task enqueues nothing after its RETRY, `Numbered` and `PassedCalls` that a suspended
  task recorded its START and nothing else. Then `Silent` and `QuietIsRecorded` say that
  all of it is recorded at the output, and `StoredIsNewest` that the service keeps it.
* `NobodyIsForgotten` (`~Preemptive`): `Spec => []NoWakeupLost`, the safety that
  `CallersAreReleased` and `InvocationReturns` rest on, for every program and with
  failures. The worker has the thread from the empty queue to the end of its loop
  (`EndsQuietly`) and a task from its push to the start of a worker (`QueueHasWorker`); an
  update leaves batch and queue only when its caller is notified (`WayOrPermit`). With
  several threads it does not hold (`lost_wakeup`).

For every limit of attempts and every number of crashes and failed batches
(`BoundsAssumption`, `StepAssumption`: the strategy allows at least one attempt):

* `StepTypes`; `CommittedOutcomeIsRecorded`, `AttemptsAreBounded` and
  `StepImplementsPromise` from one inductive invariant `IInv`. Its part `Shape`
  says what may be queued and recorded while the task is at each point: up to the
  end of the function at most a START of this invocation (`Fresh`), then the one
  update that closes the attempt, last in the queue (`Closing`), then, unless the
  invocation terminates, a final record equal to the outcome (`Settled`). Without it
  an update of an earlier invocation could overwrite a record on which the handler
  went on. `Attempts` ties the history to the record's counter. These three assume
  `EveryPayload`.
* `FirstAttemptRunsOnce`: from the inductive `Once`: unless a batch failed, the function
  of an at-most-once step has not been called for attempt 1 while nothing is on record,
  and what is *Pending* or *Ready* has been tried. Nothing is queued when an invocation
  begins, so no START of an earlier one can arrive late.

For every set of operations and ends, crashes and failed batches (`SuspensionAssumption`):
`SuspensionTypes`, `StartsOnce`, `SuspendsForTheRecorded`, `SuspensionImplementsPromise`.
`StartedOnce` is not inductive: `OneStart` says that nothing is queued but one START while
nothing is recorded, `Lags` that the snapshot may be behind the record, but not in what
is final; `Resumable` carries the record's existence from START to the suspension, and `Submitting`
ties the submitter's fate to it: a submitter runs, or has ended, only over a recorded
callback, and what the operation returns is that of the submitter if it failed.

For every limit of polls (`ConditionAssumption`): `ConditionTypes`, `PollsAreContinued`,
`ConditionImplementsPromise`, `ExceededStaysFinal`. `Links` relates the state on record to the poll that left
it, and `Shape` what is queued to what the task is about to do. `ExceededStaysFinal`: a limit that was reported is a failure on record, which is never
written again. `ConditionImplementsPromise` is about what later invocations replay, thus
not about the two errors named above. The last three assume `EveryPayload`.

For any number of operations inside a context and every Serdes (`ChildAssumption`):
`ChildTypes`, `SuccessIsRebuildable`, `ParkedOnlyToEnd`, `ChildImplementsPromise`. What an
invocation found finished inside stays so (`Stable`), the function's progress rests on
succeeded records unless a batch failed (`Prefix`), a recorded success on all of them
(`RecordRests`); a function called again finds them all (`Snapshot`), hence sends nothing
and is not parked.

For every policy, any number of items and faults: `StopIsFinal`, `ReasonIsTrue`,
`BatchTypes`; if the batch is replayed (`Mode = "Replay"`) and in executions on a current-thread
runtime (the properties say `~Preemptive`) `CompletionIsTheLast` and `NoBranchRunsTwice`. `Order` says that the
completion is the last of the queue while no branch runs, and `Final` that once it is
recorded nothing is queued and no branch runs; both but for `Loose`, an abort on a
multi-thread runtime, after which late updates of branches may follow.
`ResultsAreStable`, for both runtimes, assumes `Mode = "Replay"` as well, without which
`nested_batch` refutes it, and that no output is `"null"`, the JSON of
the missing result that a branch without a payload gets when a batch is rebuilt. `Branches` says
that what is recorded of a branch, or on its way, agrees with what the batch has of it,
`Completing` that what the batch returns is what it joined, and `Stable` that every result
handed to the handler is the one any later invocation is given.

For all widths, rates, jitters and durations (`WidthAssumption`): `PlusIsExact`,
`DelaysAreBounded`, `UpdatesAreBuilt`.

Only model-checked: liveness (`CallersAreReleased`, `InvocationReturns`, `StepSettles`,
`OperationReturns`, `ConditionSettles`, `BatchSettles`, `ContextSettles`) and what needs
ENABLED, out of the prover's reach; and what recursive functions and folds compute
(induction over data: the library's theorems take an operator, which the provers cannot
instantiate), thus all evaluations of pure definitions, the agent's among them.

## Not modelled, and why

* Logging, `StepContext`, the hash of ids (taken to be without collisions), the AWS
  client's requests, the builders of configurations and the wrappers of a handler in
  `runtime/handler.rs`: output, data, or plain forwarding.
* `callback/replay.rs` looks up an operation of type CALLBACK under the id of
  `wait_for_callback` itself; nothing in this code records one there.
* A branch that panics, which the batch reports as "Child task join error"
  (`map/execute.rs`); in `BatchExecution` the race of the `is_terminating` check with the
  push, which is `handler_mt`'s, and updates of branches that run on after the invocation
  has answered, and the share of failures in `f64`, which for 11 failures of 20 exceeds 55 per cent
  (`batch.rs:61`): `BatchPolicy` compares exactly.
* Contexts inside contexts beyond one level, and the ids they get: an id is a position.
* Contents and metadata of updates in the manager; two operation types under one id,
  which `coalesce_updates` refuses.
* Of the agent: wall-clock times, HTTP and MCP connections, streaming, which is never
  set, and its crashes: that its steps, contexts and maps replay is shown of those.
* The other examples, each of which calls one or two operations.

The sources carry their tests in the same files, and much of the rest is documentation
and examples; what is listed above and these make up the part no definition models.

Left for later: nested contexts with ids from the counter; a composition of the agent
with `BatchExecution`.
