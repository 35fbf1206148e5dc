-------------------------- MODULE CheckpointManager --------------------------
(***************************************************************************)
(* The checkpoint manager of one invocation (src/checkpoint/manager.rs and *)
(* src/checkpoint/manager/): tasks hand it operation updates, a background *)
(* worker takes them from the queue in batches and sends each batch to the *)
(* durable-execution service, and every task that waits on its update is   *)
(* notified when the worker is done with the batch.                        *)
(*                                                                         *)
(* A task is one asynchronous flow of the handler (a map item, a parallel  *)
(* branch, a plain sequence of operations).  What it asks of the manager   *)
(* is its Program: the calls the operations in src/context/ make, in the   *)
(* order they make them.  An action is the code between two points where   *)
(* another thread can interfere: a lock that is released, or an await.     *)
(***************************************************************************)
EXTENDS Integers, Sequences, FiniteSets, TerminationManager

CONSTANTS
  Task,        \* the tasks of the invocation
  Op,          \* the operations they record
  NoOp,        \* "no parent"
  Program,     \* Program[t]: the calls of task t, in order
  Kind,        \* Kind[o]: the OperationType of operation o
  Parent,      \* Parent[o]: the operation its updates name as parent, or NoOp
  Replayed,    \* operations an earlier invocation started and left pending
  Size,        \* Size[o]: the estimated size of an update of o
  MaxPayload,  \* MAX_PAYLOAD_SIZE
  CanFail,     \* may the service answer a request with an error?
  Preemptive,  \* TRUE: multi-thread tokio runtime; FALSE: current-thread
  Worker,      \* the task spawned by maybe_start_processing
  Main,        \* the task that runs the handler and the runtime
  Nobody

Checkpointed == {"Start", "Succeed", "Fail", "Retry"}
Completion == {"Succeed", "Fail"}
LocalAction == {"Refresh", "Suspend", "SerdesError"}
OpKind == {"Step", "Wait", "Callback", "Invoke", "Context", "Execution"}

(***************************************************************************)
(* A call names its operation and the actions it may turn out to be (the   *)
(* outcome of a step decides between Succeed, Fail and Retry), whether the *)
(* caller awaits it (`checkpoint`) or not (`checkpoint_queued`), which     *)
(* calls of other tasks come before it (spawn and join), and which tasks   *)
(* are aborted (JoinSet::abort_all) once it is reached.                    *)
(***************************************************************************)
Call == [op : Op, actions : SUBSET (Checkpointed \cup LocalAction),
         awaited : BOOLEAN, after : SUBSET (Task \X Nat),
         aborts : SUBSET Task]

Update == [task : Task, call : Nat, op : Op, action : Checkpointed]

ASSUME ProgramAssumption ==
  /\ Program \in [Task -> Seq(Call)]
  /\ Kind \in [Op -> OpKind]
  /\ Parent \in [Op -> Op \cup {NoOp}]
  /\ NoOp \notin Op
  /\ Replayed \in SUBSET Op

ASSUME SizeAssumption ==
  /\ Size \in [Op -> Nat]
  /\ MaxPayload \in Nat

ASSUME ActorAssumption ==
  /\ Worker \notin Task
  /\ Nobody \notin Task \cup {Worker, Main}
  /\ Main \in Task
  /\ CanFail \in BOOLEAN
  /\ Preemptive \in BOOLEAN

VARIABLES
  pc, pos, act,        \* each task: where it is, its next call, its action
  queue,               \* the queue of pending checkpoints
  isProcessing,        \* is a worker running?
  worker, batch,       \* the worker: where it is, the batch it took
  lifecycle,           \* OperationInfo.lifecycle of each operation
  pending,             \* pending_completions
  notified,            \* Notify permits: <<task, call>>
  idleNotified,        \* has queue_empty_notify fired since it was armed?
  token,               \* the manager's checkpoint token
  finished,            \* operations finished in the manager's step_data
  rpc,                 \* the request each requester has in flight
  serviceToken,        \* the service: the token it will accept,
  stored,              \*   the last action it recorded for each operation,
  log,                 \*   and the updates it took, in order (history)
  accepted,            \* history: the updates enqueued, in order
  lost,                \* history: updates released without being recorded
  running              \* current-thread runtime: who holds the thread

taskVars == <<pc, pos, act>>
queueVars == <<queue, accepted>>
workerVars == <<isProcessing, worker, batch>>
callVars == <<lifecycle, pending>>
notifyVars == <<notified, idleNotified, lost>>
serviceVars == <<serviceToken, stored, log>>
ioVars == <<token, finished, rpc, serviceVars>>
quietVars == <<taskVars, queueVars, workerVars, callVars, notifyVars, ioVars,
               terminationVars>>
managerVars == <<quietVars, running>>

-----------------------------------------------------------------------------
TaskPc == {"unborn", "body", "tracked", "pushed", "waiting", "refreshing",
           "suspending", "parked", "dropped"}
WorkerPc == {"none", "build", "sending", "release", "check", "cooldown",
             "failing", "draining", "terminating", "stopping"}
Lifecycle == {"NotStarted", "Executing", "RetryWaiting", "IdleNotAwaited",
              "IdleAwaited", "Completed"}
Rpc == [st : {"none", "sent", "ok", "err"}, token : Nat]
Idle == [st |-> "none", token |-> 0]

TypeOK ==
  /\ pc \in [Task -> TaskPc]
  /\ pos \in [Task -> Nat \ {0}]
  /\ act \in [Task -> Checkpointed]
  /\ queue \in Seq(Update)
  /\ isProcessing \in BOOLEAN
  /\ worker \in WorkerPc
  /\ batch \in Seq(Update)
  /\ lifecycle \in [Op -> Lifecycle]
  /\ pending \in SUBSET Op
  /\ notified \in SUBSET (Task \X Nat)
  /\ idleNotified \in BOOLEAN
  /\ token \in Nat
  /\ finished \in SUBSET Op
  /\ rpc \in [Task \cup {Worker} -> Rpc]
  /\ serviceToken \in Nat
  /\ stored \in [Op -> Checkpointed \cup {"None"}]
  /\ log \in Seq(Update)
  /\ accepted \in Seq(Update)
  /\ lost \in SUBSET Update
  /\ running \in Task \cup {Worker, Nobody}
  /\ TerminationTypeOK

(* `new`: an empty queue, no worker, the invocation's token.               *)
Init ==
  /\ pc = [t \in Task |-> IF t = Main THEN "unborn" ELSE "body"]
  /\ pos = [t \in Task |-> 1]
  /\ act = [t \in Task |-> "Start"]
  /\ queue = <<>>
  /\ isProcessing = FALSE
  /\ worker = "none"
  /\ batch = <<>>
  /\ lifecycle = [o \in Op |-> "NotStarted"]
  /\ pending = {}
  /\ notified = {}
  /\ idleNotified = FALSE
  /\ token = 0
  /\ finished = {}
  /\ rpc = [r \in Task \cup {Worker} |-> Idle]
  /\ serviceToken = 0
  /\ stored = [o \in Op |-> IF o \in Replayed THEN "Start" ELSE "None"]
  /\ log = <<>>
  /\ accepted = <<>>
  /\ lost = {}
  /\ running = Nobody
  /\ TerminationInit

-----------------------------------------------------------------------------
(***************************************************************************)
(* Scheduling.  On a multi-thread runtime any actor may take the next      *)
(* step.  On a current-thread runtime an actor that has not reached an     *)
(* await (`more`) keeps the thread; an uncontended lock does not yield.    *)
(***************************************************************************)
Step(actor, more) ==
  /\ running \in {Nobody, actor}
  /\ running' = IF more /\ ~Preemptive THEN actor ELSE Nobody

CurrentCall(t) == Program[t][pos[t]]

Finished(t) == pc[t] = "body" /\ pos[t] > Len(Program[t])

\* The task is between two calls and its next one is due.
Ready(t) ==
  /\ pc[t] = "body"
  /\ pos[t] <= Len(Program[t])
  /\ \A p \in CurrentCall(t).after : pos[p[1]] > p[2]

CurrentUpdate(t) ==
  [task |-> t, call |-> pos[t], op |-> CurrentCall(t).op, action |-> act[t]]

\* has_finished_ancestor: only the parent the update names is looked up.
HasFinishedAncestor(o) == Parent[o] \in finished

\* Mutant of LifecycleAfter: a wait is given a state of its own.
LifecycleWithWaiting(o, a) ==
  CASE a = "Start" /\ Kind[o] \in {"Wait", "Callback"} -> "IdleAwaited"
    [] a = "Start" /\ Kind[o] \notin {"Wait", "Callback"} -> "Started"
    [] a = "Retry" -> "RetryWaiting"
    [] a \in Completion -> "Completed"

\* update_operation_lifecycle
LifecycleAfter(o, a) ==
  CASE a = "Start" /\ Kind[o] \in {"Wait", "Callback"} ->
         IF lifecycle[o] = "IdleAwaited" THEN "IdleAwaited" ELSE "IdleNotAwaited"
    [] a = "Start" /\ Kind[o] \notin {"Wait", "Callback"} -> "Executing"
    [] a = "Retry" -> "RetryWaiting"
    [] a \in Completion -> "Completed"

Updates(us) == {us[i] : i \in DOMAIN us}
Completions(us) == {u.op : u \in {v \in Updates(us) : v.action \in Completion}}
Permits(us) == {<<u.task, u.call>> : u \in Updates(us)}

-----------------------------------------------------------------------------
(***************************************************************************)
(* The tasks.                                                              *)
(***************************************************************************)

\* Mutant of EnterCheckpoint: a manager that is terminating lets the caller go
\* on instead of parking it.
EnterCheckpointUnblocked(t, a) ==
  /\ Ready(t)
  /\ a \in CurrentCall(t).actions \cap Checkpointed
  /\ LET o == CurrentCall(t).op IN
     \/ /\ isTerminating \/ HasFinishedAncestor(o)
        /\ pos' = [pos EXCEPT ![t] = @ + 1]
        /\ Step(t, FALSE)
        /\ UNCHANGED <<callVars, act, pc>>
     \/ /\ ~isTerminating
        /\ ~HasFinishedAncestor(o)
        /\ pc' = [pc EXCEPT ![t] = "tracked"]
        /\ act' = [act EXCEPT ![t] = a]
        /\ pending' = IF a \in Completion THEN pending \cup {o} ELSE pending
        /\ lifecycle' = [lifecycle EXCEPT ![o] = LifecycleAfter(o, a)]
        /\ Step(t, TRUE)
        /\ UNCHANGED pos
  /\ UNCHANGED <<ioVars, queueVars, workerVars, notifyVars, terminationVars>>

(***************************************************************************)
(* checkpoint() and checkpoint_queued(), up to the queue: a manager that   *)
(* is terminating, or an operation whose parent has finished, parks the    *)
(* caller forever; otherwise the completion is noted and the lifecycle     *)
(* updated before the update is enqueued.                                  *)
(***************************************************************************)
EnterCheckpoint(t, a) ==
  /\ Ready(t)
  /\ a \in CurrentCall(t).actions \cap Checkpointed
  /\ LET o == CurrentCall(t).op IN
     \/ /\ isTerminating \/ HasFinishedAncestor(o)
        /\ pc' = [pc EXCEPT ![t] = "parked"]
        /\ Step(t, FALSE)
        /\ UNCHANGED <<callVars, act>>
     \/ /\ ~isTerminating
        /\ ~HasFinishedAncestor(o)
        /\ pc' = [pc EXCEPT ![t] = "tracked"]
        /\ act' = [act EXCEPT ![t] = a]
        /\ pending' = IF a \in Completion THEN pending \cup {o} ELSE pending
        /\ lifecycle' = [lifecycle EXCEPT ![o] = LifecycleAfter(o, a)]
        /\ Step(t, TRUE)
  /\ UNCHANGED <<ioVars, queueVars, workerVars, notifyVars, terminationVars,
                 pos>>

\* self.queue.lock().await.push_back(checkpoint)
Enqueue(t) ==
  /\ pc[t] = "tracked"
  /\ pc' = [pc EXCEPT ![t] = "pushed"]
  /\ queue' = Append(queue, CurrentUpdate(t))
  /\ accepted' = Append(accepted, CurrentUpdate(t))
  /\ Step(t, TRUE)
  /\ UNCHANGED <<ioVars, workerVars, callVars, notifyVars, terminationVars, pos,
                 act>>

\* Mutant of StartProcessing: is_processing is not looked at.
StartProcessingAlways(t) ==
  /\ pc[t] = "pushed"
  /\ isProcessing' = TRUE
  /\ worker' = "build"
  /\ batch' = <<>>
  /\ pc' = [pc EXCEPT ![t] = IF CurrentCall(t).awaited THEN "waiting" ELSE "body"]
  /\ pos' = [pos EXCEPT ![t] = IF CurrentCall(t).awaited THEN @ ELSE @ + 1]
  /\ Step(t, FALSE)
  /\ UNCHANGED <<ioVars, queueVars, callVars, notifyVars, terminationVars, act>>

(***************************************************************************)
(* maybe_start_processing: a worker is spawned unless is_processing says   *)
(* that one runs; checkpoint() then waits, checkpoint_queued() returns.    *)
(***************************************************************************)
StartProcessing(t) ==
  /\ pc[t] = "pushed"
  /\ \/ /\ isProcessing
        /\ UNCHANGED workerVars
     \/ /\ ~isProcessing
        /\ isProcessing' = TRUE
        /\ worker' = "build"
        /\ batch' = <<>>
  /\ \/ /\ CurrentCall(t).awaited
        /\ pc' = [pc EXCEPT ![t] = "waiting"]
        /\ UNCHANGED pos
     \/ /\ ~CurrentCall(t).awaited
        /\ pc' = [pc EXCEPT ![t] = "body"]
        /\ pos' = [pos EXCEPT ![t] = @ + 1]
  /\ Step(t, FALSE)
  /\ UNCHANGED <<ioVars, queueVars, callVars, notifyVars, terminationVars, act>>

(***************************************************************************)
(* notify.notified().await returns, and checkpoint() returns Ok whatever   *)
(* became of the batch.  After a RETRY the step terminates the invocation. *)
(***************************************************************************)
CheckpointReturns(t) ==
  /\ pc[t] = "waiting"
  /\ <<t, pos[t]>> \in notified
  /\ notified' = notified \ {<<t, pos[t]>>}
  /\ pos' = [pos EXCEPT ![t] = @ + 1]
  /\ pc' = [pc EXCEPT ![t] = IF act[t] = "Retry" THEN "suspending" ELSE "body"]
  /\ Step(t, act[t] = "Retry")
  /\ UNCHANGED <<ioVars, queueVars, workerVars, callVars, terminationVars, act,
                 idleNotified, lost>>

\* terminate_for_retry after the RETRY checkpoint, then pending forever.
SuspendForRetry(t) ==
  /\ pc[t] = "suspending"
  /\ pc' = [pc EXCEPT ![t] = "parked"]
  /\ Terminate("RetryScheduled")
  /\ Step(t, FALSE)
  /\ UNCHANGED <<ioVars, queueVars, workerVars, callVars, notifyVars, pos, act>>

\* The reason an operation suspends with when its result is not there yet.
SuspendReason(k) ==
  CASE k = "Wait" -> "WaitScheduled"
    [] k = "Callback" -> "CallbackPending"
    [] k = "Invoke" -> "InvokePending"
    [] OTHER -> "RetryScheduled"

(***************************************************************************)
(* A call that reaches no queue: a wait, a callback or an invoke marks its *)
(* operation awaited and suspends the invocation; a value that cannot be   *)
(* (de)serialized terminates it.  Either way the task never resumes.       *)
(***************************************************************************)
Suspend(t, a) ==
  /\ Ready(t)
  /\ a \in CurrentCall(t).actions \cap {"Suspend", "SerdesError"}
  /\ LET o == CurrentCall(t).op IN
     /\ Terminate(IF a = "Suspend" THEN SuspendReason(Kind[o]) ELSE "SerdesFailed")
     /\ lifecycle' = IF a = "Suspend" /\ lifecycle[o] = "IdleNotAwaited"
                     THEN [lifecycle EXCEPT ![o] = "IdleAwaited"]
                     ELSE lifecycle
  /\ pc' = [pc EXCEPT ![t] = "parked"]
  /\ Step(t, FALSE)
  /\ UNCHANGED <<ioVars, queueVars, workerVars, notifyVars, pos, act, pending>>

(***************************************************************************)
(* force_checkpoint: the caller itself runs process_batch on an empty      *)
(* batch, next to the worker and with the same token.                      *)
(***************************************************************************)
ForceCheckpoint(t) ==
  /\ Ready(t)
  /\ "Refresh" \in CurrentCall(t).actions
  /\ pc' = [pc EXCEPT ![t] = "refreshing"]
  /\ rpc' = [rpc EXCEPT ![t] = [st |-> "sent", token |-> token]]
  /\ Step(t, FALSE)
  /\ UNCHANGED <<queueVars, workerVars, callVars, notifyVars, serviceVars,
                 terminationVars, pos, act, token, finished>>

\* Mutant of TakeResponse: the new token is not kept.
TakeStateOnly(r) ==
  /\ finished' = finished \cup {o \in Op : stored[o] \in Completion}
  /\ UNCHANGED token

\* What a successful response leaves in the manager: the token, step_data.
TakeResponse(r) ==
  /\ token' = rpc[r].token
  /\ finished' = finished \cup {o \in Op : stored[o] \in Completion}

\* An error of the refresh is only logged.
ForceCheckpointReturns(t) ==
  /\ pc[t] = "refreshing"
  /\ \/ /\ rpc[t].st = "ok"
        /\ TakeResponse(t)
     \/ /\ rpc[t].st = "err"
        /\ UNCHANGED <<token, finished>>
  /\ rpc' = [rpc EXCEPT ![t] = Idle]
  /\ pc' = [pc EXCEPT ![t] = "body"]
  /\ pos' = [pos EXCEPT ![t] = @ + 1]
  /\ Step(t, FALSE)
  /\ UNCHANGED <<queueVars, workerVars, callVars, notifyVars, serviceVars,
                 terminationVars, act>>

(***************************************************************************)
(* The task is aborted or its future dropped.  That takes effect at an     *)
(* await; on a multi-thread runtime also at a lock another thread holds.   *)
(***************************************************************************)
Drop(t) ==
  /\ pc[t] \notin {"unborn", "dropped"}
  /\ ~Finished(t)
  /\ Preemptive \/ pc[t] \in {"body", "waiting", "refreshing", "parked"}
  /\ pc' = [pc EXCEPT ![t] = "dropped"]
  /\ Step(t, FALSE)
  /\ UNCHANGED <<ioVars, queueVars, workerVars, callVars, notifyVars,
                 terminationVars, pos, act>>

TaskStep(t) ==
  \/ \E a \in Checkpointed : EnterCheckpoint(t, a)
  \/ Enqueue(t)
  \/ StartProcessing(t)
  \/ CheckpointReturns(t)
  \/ SuspendForRetry(t)
  \/ \E a \in LocalAction : Suspend(t, a)
  \/ ForceCheckpoint(t)
  \/ ForceCheckpointReturns(t)

-----------------------------------------------------------------------------
(***************************************************************************)
(* The worker: process_queue.                                              *)
(***************************************************************************)

\* estimate_update_size of the first n updates of q, after the batch overhead.
PayloadOf(q, n) ==
  LET sum[i \in 0..n] == IF i = 0 THEN 0 ELSE sum[i - 1] + Size[q[i].op]
  IN  sum[n]

(***************************************************************************)
(* The batch is the longest prefix of the queue that fits, and never       *)
(* empty: the first update is taken whatever its size.                     *)
(***************************************************************************)
IsBatchLength(q, n) ==
  /\ n > 1 => PayloadOf(q, n) <= MaxPayload
  /\ n < Len(q) => PayloadOf(q, n + 1) > MaxPayload

\* Mutant of TakeBatch: the update that does not fit is popped before the limit
\* is checked.
TakeBatchPoppingFirst ==
  /\ worker = "build"
  /\ queue # <<>>
  /\ \E n \in 1..Len(queue) :
       /\ IsBatchLength(queue, n)
       /\ batch' = SubSeq(queue, 1, n)
       /\ queue' = SubSeq(queue, n + 2, Len(queue))
  /\ worker' = "sending"
  /\ rpc' = [rpc EXCEPT ![Worker] = [st |-> "sent", token |-> token]]
  /\ Step(Worker, FALSE)
  /\ UNCHANGED <<taskVars, callVars, notifyVars, serviceVars, terminationVars,
                 isProcessing, token, finished, accepted>>

\* Mutant of TakeBatch: updates are popped from the back.
TakeBatchFromBack ==
  /\ worker = "build"
  /\ queue # <<>>
  /\ batch' = <<queue[Len(queue)]>>
  /\ queue' = SubSeq(queue, 1, Len(queue) - 1)
  /\ worker' = "sending"
  /\ rpc' = [rpc EXCEPT ![Worker] = [st |-> "sent", token |-> token]]
  /\ Step(Worker, FALSE)
  /\ UNCHANGED <<taskVars, callVars, notifyVars, serviceVars, terminationVars,
                 isProcessing, token, finished, accepted>>

\* A batch is taken off the queue and sent with the current token.
TakeBatch ==
  /\ worker = "build"
  /\ queue # <<>>
  /\ \E n \in 1..Len(queue) :
       /\ IsBatchLength(queue, n)
       /\ batch' = SubSeq(queue, 1, n)
       /\ queue' = SubSeq(queue, n + 1, Len(queue))
  /\ worker' = "sending"
  /\ rpc' = [rpc EXCEPT ![Worker] = [st |-> "sent", token |-> token]]
  /\ Step(Worker, FALSE)
  /\ UNCHANGED <<taskVars, callVars, notifyVars, serviceVars, terminationVars,
                 isProcessing, token, finished, accepted>>

\* The loop ends when the queue is empty; is_processing is still set.
FindQueueEmpty ==
  /\ worker = "build"
  /\ queue = <<>>
  /\ worker' = "stopping"
  /\ Step(Worker, TRUE)
  /\ UNCHANGED <<ioVars, taskVars, queueVars, callVars, notifyVars,
                 terminationVars, isProcessing, batch>>

BatchAcknowledged ==
  /\ worker = "sending"
  /\ rpc[Worker].st = "ok"
  /\ TakeResponse(Worker)
  /\ rpc' = [rpc EXCEPT ![Worker] = Idle]
  /\ worker' = "release"
  /\ Step(Worker, TRUE)
  /\ UNCHANGED <<taskVars, queueVars, callVars, notifyVars, serviceVars,
                 terminationVars, isProcessing, batch>>

\* Mutant of ReleaseBatch: the completions stay pending.
ReleaseBatchKeepingPending ==
  /\ worker = "release"
  /\ notified' = notified \cup Permits(batch)
  /\ batch' = <<>>
  /\ worker' = "check"
  /\ Step(Worker, TRUE)
  /\ UNCHANGED <<ioVars, taskVars, queueVars, terminationVars, isProcessing,
                 pending, lifecycle, idleNotified, lost>>

\* Every caller in the batch is notified, its completion no longer pending.
ReleaseBatch ==
  /\ worker = "release"
  /\ pending' = pending \ Completions(batch)
  /\ notified' = notified \cup Permits(batch)
  /\ batch' = <<>>
  /\ worker' = "check"
  /\ Step(Worker, TRUE)
  /\ UNCHANGED <<ioVars, taskVars, queueVars, terminationVars, isProcessing,
                 lifecycle, idleNotified, lost>>

BatchFailed ==
  /\ worker = "sending"
  /\ rpc[Worker].st = "err"
  /\ rpc' = [rpc EXCEPT ![Worker] = Idle]
  /\ worker' = "failing"
  /\ Step(Worker, TRUE)
  /\ UNCHANGED <<taskVars, queueVars, callVars, notifyVars, serviceVars,
                 terminationVars, isProcessing, batch, token, finished>>

\* The callers in the failed batch are notified like any other.
ReleaseFailedBatch ==
  /\ worker = "failing"
  /\ notified' = notified \cup Permits(batch)
  /\ lost' = lost \cup Updates(batch)
  /\ pending' = {}
  /\ batch' = <<>>
  /\ worker' = "draining"
  /\ Step(Worker, TRUE)
  /\ UNCHANGED <<ioVars, taskVars, queueVars, terminationVars, isProcessing,
                 lifecycle, idleNotified>>

\* Mutant of DrainQueue: the queue is cleared without notifying its callers.
DrainQueueSilently ==
  /\ worker = "draining"
  /\ lost' = lost \cup Updates(queue)
  /\ queue' = <<>>
  /\ worker' = "terminating"
  /\ Step(Worker, TRUE)
  /\ UNCHANGED <<ioVars, taskVars, callVars, terminationVars, isProcessing,
                 batch, notified, idleNotified, accepted>>

\* "Also notify all remaining queued items before clearing"
DrainQueue ==
  /\ worker = "draining"
  /\ notified' = notified \cup Permits(queue)
  /\ lost' = lost \cup Updates(queue)
  /\ queue' = <<>>
  /\ worker' = "terminating"
  /\ Step(Worker, TRUE)
  /\ UNCHANGED <<ioVars, taskVars, callVars, terminationVars, isProcessing,
                 batch, idleNotified, accepted>>

TerminateForFailure ==
  /\ worker = "terminating"
  /\ Terminate("CheckpointFailed")
  /\ worker' = "stopping"
  /\ Step(Worker, TRUE)
  /\ UNCHANGED <<ioVars, taskVars, queueVars, callVars, notifyVars,
                 isProcessing, batch>>

AnyRetryWaiting == \E o \in Op : lifecycle[o] = "RetryWaiting"

(***************************************************************************)
(* check_and_schedule_termination: if an operation waits for a retry, sleep*)
(* TERMINATION_COOLDOWN_MS, look again, and terminate.                     *)
(***************************************************************************)
CheckRetryWaiting ==
  /\ worker = "check"
  /\ worker' = IF AnyRetryWaiting THEN "cooldown" ELSE "build"
  /\ Step(Worker, ~AnyRetryWaiting)
  /\ UNCHANGED <<ioVars, taskVars, queueVars, callVars, notifyVars,
                 terminationVars, isProcessing, batch>>

CooldownElapsed ==
  /\ worker = "cooldown"
  /\ worker' = "build"
  /\ IF AnyRetryWaiting THEN Terminate("RetryScheduled")
                        ELSE UNCHANGED terminationVars
  /\ Step(Worker, TRUE)
  /\ UNCHANGED <<ioVars, taskVars, queueVars, callVars, notifyVars,
                 isProcessing, batch>>

\* Mutant of StopProcessing: queue_empty_notify is not signalled.
StopProcessingSilently ==
  /\ worker = "stopping"
  /\ isProcessing' = FALSE
  /\ worker' = "none"
  /\ Step(Worker, FALSE)
  /\ UNCHANGED <<ioVars, taskVars, queueVars, callVars, notifyVars,
                 terminationVars, batch>>

\* is_processing = false, then queue_empty_notify.notify_waiters(); whoever acts
\* between the two finds the same quiet worker, so they are one step.
StopProcessing ==
  /\ worker = "stopping"
  /\ isProcessing' = FALSE
  /\ idleNotified' = TRUE
  /\ worker' = "none"
  /\ Step(Worker, FALSE)
  /\ UNCHANGED <<ioVars, taskVars, queueVars, callVars, terminationVars, batch,
                 notified, lost>>

WorkerStep ==
  \/ TakeBatch
  \/ FindQueueEmpty
  \/ BatchAcknowledged
  \/ ReleaseBatch
  \/ BatchFailed
  \/ ReleaseFailedBatch
  \/ DrainQueue
  \/ TerminateForFailure
  \/ CheckRetryWaiting
  \/ CooldownElapsed
  \/ StopProcessing

-----------------------------------------------------------------------------
(***************************************************************************)
(* The durable-execution service behind checkpoint_durable_execution.  It  *)
(* accepts a request that carries the token it gave out last; a recorded   *)
(* request may still be answered with an error (a timeout, a lost reply).  *)
(***************************************************************************)

\* Mutant of Coalesce: the oldest action of the batch is kept.
CoalesceOldest(us) ==
  {us[i] : i \in {i \in DOMAIN us :
                    \A j \in DOMAIN us : us[j].op = us[i].op => i <= j}}

\* coalesce_updates: one update per operation of the batch, with its newest action.
Coalesce(us) ==
  {us[i] : i \in {i \in DOMAIN us :
                    \A j \in DOMAIN us : us[j].op = us[i].op => j <= i}}

Request(r) == IF r = Worker THEN batch ELSE <<>>

\* The service records what it is sent and hands out the next token.
Record(r) ==
  LET sent == Coalesce(Request(r)) IN
  /\ stored' = [o \in Op |-> IF \E u \in sent : u.op = o
                             THEN (CHOOSE u \in sent : u.op = o).action
                             ELSE stored[o]]
  /\ log' = log \o Request(r)
  /\ serviceToken' = serviceToken + 1

ServiceAccepts(r) ==
  /\ rpc[r].st = "sent"
  /\ rpc[r].token = serviceToken
  /\ Record(r)
  /\ rpc' = [rpc EXCEPT ![r] = [st |-> "ok", token |-> serviceToken + 1]]

ServiceRefuses(r) ==
  /\ rpc[r].st = "sent"
  /\ CanFail \/ rpc[r].token # serviceToken
  /\ rpc' = [rpc EXCEPT ![r].st = "err"]
  /\ UNCHANGED serviceVars

ResponseLost(r) ==
  /\ rpc[r].st = "sent"
  /\ CanFail
  /\ rpc[r].token = serviceToken
  /\ Record(r)
  /\ rpc' = [rpc EXCEPT ![r].st = "err"]

ServiceStep ==
  /\ \E r \in Task \cup {Worker} :
       ServiceAccepts(r) \/ ServiceRefuses(r) \/ ResponseLost(r)
  /\ UNCHANGED <<taskVars, queueVars, workerVars, callVars, notifyVars,
                 terminationVars, token, finished, running>>
=============================================================================
