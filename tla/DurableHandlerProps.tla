------------------------- MODULE DurableHandlerProps -------------------------
(***************************************************************************)
(* What one invocation has to guarantee, and what it promises to.          *)
(***************************************************************************)
EXTENDS DurableHandler

\* The sent batch of the worker that the service has not taken yet.
Unrecorded == IF rpc[Worker].st = "sent" THEN batch ELSE <<>>

Recorded == Updates(log)

\* Every variable has its type (manager, termination manager and runtime).
TypeInvariant == TypeOK /\ HandlerTypeOK

\* At most one batch is under way, and only while is_processing announces its
\* worker: a second worker would reorder updates and reuse the token (queue.rs).
OneBatchInFlight ==
  /\ isProcessing <=> worker # "none"
  /\ rpc[Worker].st # "none" <=> worker = "sending"
  /\ batch # <<>> <=> worker \in {"sending", "release", "failing"}

\* No batch has been answered with an error so far.
NoFailure == lost = {} /\ rpc[Worker].st # "err" /\ worker # "failing"

\* While the service refuses nothing, every accepted update is in exactly one
\* place, and in the order of acceptance: recorded, in the batch, or queued.
NothingIsLost == NoFailure => accepted = log \o Unrecorded \o queue

\* pending_completions holds the completions on their way to the service: all
\* those queued or in the batch, and beyond them only those of a task that was
\* about to enqueue; none is left behind when the queue runs dry (queue.rs).
OnTheirWay == Completions(queue) \cup Completions(batch)

AboutToEnqueue ==
  {CurrentCall(t).op : t \in {s \in Task : /\ pc[s] \in {"tracked", "dropped"}
                                           /\ pos[s] <= Len(Program[s])}}

CompletionsAreTracked ==
  NoFailure => /\ OnTheirWay \subseteq pending
               /\ pending \subseteq OnTheirWay \cup AboutToEnqueue

\* The action the service keeps for an operation is that of its newest update:
\* coalescing a batch loses no transition (coalesce.rs).
NewestAction(o) ==
  LET is == {i \in DOMAIN log : log[i].op = o}
  IN  IF is = {} THEN IF o \in Replayed THEN "Start" ELSE "None"
      ELSE log[CHOOSE i \in is : \A j \in is : j <= i].action

StoredIsNewest == \A o \in Op : stored[o] = NewestAction(o)

\* A successful output is given only when everything the handler awaited is
\* recorded: nothing it observed can be lost by the next invocation.
SucceededIsDurable ==
  output = "Succeeded" =>
    \A t \in Joined : \A k \in DOMAIN Program[t] :
      (Program[t][k].actions \cap Checkpointed # {}) =>
        \E u \in Recorded : u.task = t /\ u.call = k

\* An update is recorded only after every earlier update of its task: the
\* service never sees a completion whose START was lost (queue.rs).
NoGapInLog ==
  \A u \in Recorded : \A v \in Updates(accepted) :
    v.task = u.task /\ v.call < u.call => v \in Recorded

\* After the output is given nothing reaches the service any more: the
\* sandbox may be frozen at that point (execute.rs, wait_for_queue_completion).
NothingAfterReturn == [][output # "none" => log' = log /\ queue' = queue]_vars

\* The service can resume an invocation that answers Pending for the reason that ended
\* it: an operation waits for a retry, or for a timer, a callback or an invoked function.
IsPendingFor(reason, o) ==
  IF reason = "RetryScheduled" THEN stored[o] = "Retry"
  ELSE SuspendReason(Kind[o]) = reason /\ stored[o] = "Start"

PendingIsResumable ==
  output = "Pending" /\ lost = {} => \E o \in Op : IsPendingFor(terminated, o)

\* Whoever takes an answer, the worker or a refresh next to it, leaves the manager with
\* the token the service will accept (manager.rs, queue.rs): of two requests with one
\* token only one is answered, and no answer is taken out of its order.
TokenIsCurrent ==
  [][\A r \in Task \cup {Worker} :
       rpc[r].st = "ok" /\ rpc'[r].st # "ok" => token' = serviceToken']_vars

\* No wake-up is lost: a caller that waits has its permit, or its update is on its way and
\* a worker runs; and a runtime that waits for the queue was notified since it armed, or a
\* worker runs that will notify it (queue.rs, wait_for_queue_completion).
NoWakeupLost ==
  /\ \A t \in Task : pc[t] = "waiting" =>
       \/ <<t, pos[t]>> \in notified
       \/ isProcessing /\ CurrentUpdate(t) \in Updates(batch) \cup Updates(queue)
  /\ rt = "await" => idleNotified \/ isProcessing

\* A caller whose update was accepted does not wait forever.
CallersAreReleased == \A t \in Task : pc[t] = "waiting" ~> pc[t] # "waiting"

\* The invocation gives its output.
InvocationReturns == <>(output # "none")

\* The manager implements the promise of DurableLog.
Promise == INSTANCE DurableLog
  WITH acknowledged <- Updates(accepted) \ (Updates(batch) \cup Updates(queue))

ImplementsDurableLog == Promise!Spec

-----------------------------------------------------------------------------
(***************************************************************************)
(* What the code of the operations (src/context/) keeps to in the calls it *)
(* makes: the theorems about some of these properties assume it.           *)
(***************************************************************************)
Checkpoints(t, k) == Program[t][k].actions \cap Checkpointed # {}
MayComplete(t, k) == Program[t][k].actions \cap Completion # {}

\* The id of an operation comes from its context's counter, and the operation that took
\* it completes it in one place.
CompletesOnce ==
  \A t, s \in Task : \A k \in DOMAIN Program[t], j \in DOMAIN Program[s] :
    MayComplete(t, k) /\ MayComplete(s, j) /\ Program[t][k].op = Program[s][j].op
      => t = s /\ k = j

\* A refresh (force_checkpoint) is a call of its own, not one outcome of a checkpoint.
RefreshAlone ==
  \A t \in Task : \A k \in DOMAIN Program[t] :
    "Refresh" \in Program[t][k].actions => ~Checkpoints(t, k)

\* An operation is run by one task.
OneTask ==
  \A t, s \in Task : \A k \in DOMAIN Program[t], j \in DOMAIN Program[s] :
    Program[t][k].op = Program[s][j].op => t = s

\* The RETRY of a step or of a condition is awaited.
RetryAwaited ==
  \A t \in Task : \A k \in DOMAIN Program[t] :
    "Retry" \in Program[t][k].actions => Program[t][k].awaited

\* Only a wait, a callback or an invoke suspends, in a call that records nothing, after
\* it was started by this invocation or by an earlier one.
StartedBefore(t, k) ==
  LET o == Program[t][k].op
      earlier == {j \in DOMAIN Program[t] : j < k /\ Program[t][j].op = o}
  IN  /\ Kind[o] \in {"Wait", "Callback", "Invoke"}
      /\ ~Checkpoints(t, k)
      /\ \A j \in earlier : Program[t][j].actions \cap Checkpointed \subseteq {"Start"}
      /\ o \in Replayed \/ \E j \in earlier : Checkpoints(t, j)

SuspendsStarted ==
  \A t \in Task : \A k \in DOMAIN Program[t] :
    "Suspend" \in Program[t][k].actions => StartedBefore(t, k)

ResumableProgram == OneTask /\ RetryAwaited /\ SuspendsStarted /\ RefreshAlone
=============================================================================
