---------------------------- MODULE DurableHandler ----------------------------
(***************************************************************************)
(* One invocation (src/runtime/handler/execute.rs): the user's handler is  *)
(* raced against termination, the checkpoint queue is drained, and the     *)
(* outcome becomes the invocation's output.  The tasks of the handler and  *)
(* the checkpoint worker run next to it (CheckpointManager).               *)
(***************************************************************************)
EXTENDS CheckpointManager

CONSTANTS
  Joined,    \* the tasks the handler awaits before it returns
  Returns    \* what the handler may return: a result, a large one, one that
             \* serde_json does not write, an error

ASSUME HandlerAssumption ==
  /\ Joined \in SUBSET (Task \ {Main})
  /\ Returns \in SUBSET {"ok", "large", "unwritable", "err"}

VARIABLES
  rt,       \* where execute_durable_handler is
  result,   \* what select! chose
  output    \* the invocation's output, "none" until it is given

handlerVars == <<rt, result, output>>
vars == <<managerVars, handlerVars>>

HandlerResult == {"ok", "large", "unwritable", "err", "terminated"}
Output == {"Succeeded", "Failed", "Pending", "LambdaError"}
RuntimePc == {"select", "register", "check", "await", "reply", "largeResult",
              "returned"}

HandlerTypeOK ==
  /\ rt \in RuntimePc
  /\ result \in HandlerResult \cup {"none"}
  /\ output \in Output \cup {"none"}

HandlerInit ==
  /\ Init
  /\ rt = "select"
  /\ result = "none"
  /\ output = "none"

-----------------------------------------------------------------------------
\* select!: the handler's future is ready.  A result may exceed
\* LAMBDA_RESPONSE_SIZE_LIMIT ("large").
HandlerReturns(r) ==
  /\ rt = "select"
  /\ \A t \in Joined : Finished(t)
  /\ r \in Returns
  /\ result' = r
  /\ rt' = "register"
  /\ Step(Main, TRUE)
  /\ UNCHANGED <<output, quietVars>>

\* select!: wait_for_termination is ready; the handler's future is dropped.
TerminationWins ==
  /\ rt = "select"
  /\ terminated # NotTerminated
  /\ result' = "terminated"
  /\ rt' = "register"
  /\ Step(Main, TRUE)
  /\ UNCHANGED <<output, quietVars>>

(***************************************************************************)
(* wait_for_queue_completion: arm the notification, look at the queue and  *)
(* at is_processing, return if both are quiet, otherwise wait and repeat.  *)
(***************************************************************************)
ArmNotification ==
  /\ rt = "register"
  /\ idleNotified' = FALSE
  /\ rt' = "check"
  /\ Step(Main, TRUE)
  /\ UNCHANGED <<result, output, ioVars, taskVars, queueVars, workerVars,
                 callVars, terminationVars, notified, lost>>

\* Mutant of QueueQuiet: a worker that still sends a batch is not waited for.
QueueEmpty == queue = <<>>

QueueQuiet == queue = <<>> /\ ~isProcessing

CheckQueue ==
  /\ rt = "check"
  /\ rt' = IF QueueQuiet THEN "reply" ELSE "await"
  /\ Step(Main, QueueQuiet)
  /\ UNCHANGED <<result, output, quietVars>>

NotificationArrives ==
  /\ rt = "await"
  /\ idleNotified
  /\ rt' = "register"
  /\ Step(Main, TRUE)
  /\ UNCHANGED <<result, output, quietVars>>

LargeResultPending == result = "large" /\ ~Finished(Main)

\* A large result is checkpointed first, by a call of the Main task.
CheckpointLargeResult ==
  /\ rt = "reply"
  /\ LargeResultPending
  /\ pc' = [pc EXCEPT ![Main] = "body"]
  /\ rt' = "largeResult"
  /\ Step(Main, FALSE)
  /\ UNCHANGED <<result, output, ioVars, queueVars, workerVars, callVars,
                 notifyVars, terminationVars, pos, act>>

\* ... and the queue is drained once more.
LargeResultCheckpointed ==
  /\ rt = "largeResult"
  /\ Finished(Main)
  /\ rt' = "register"
  /\ Step(Main, TRUE)
  /\ UNCHANGED <<result, output, quietVars>>

OutputFor(r, reason) ==
  CASE r \in {"ok", "large"} -> "Succeeded"
    [] r = "unwritable" -> "LambdaError"
    [] r = "err" -> "Failed"
    [] r = "terminated" /\ reason \in {"CheckpointFailed", "SerdesFailed"} -> "LambdaError"
    [] r = "terminated" /\ reason = "ContextValidationError" -> "Failed"
    [] r = "terminated" /\ reason \notin {"CheckpointFailed", "SerdesFailed",
                                          "ContextValidationError"} -> "Pending"

Respond ==
  /\ rt = "reply"
  /\ ~LargeResultPending
  /\ output' = OutputFor(result, terminated)
  /\ rt' = "returned"
  /\ Step(Main, FALSE)
  /\ UNCHANGED <<result, quietVars>>

RuntimeStep ==
  \/ \E r \in Returns : HandlerReturns(r)
  \/ TerminationWins
  \/ ArmNotification
  \/ CheckQueue
  \/ NotificationArrives
  \/ CheckpointLargeResult
  \/ LargeResultCheckpointed
  \/ Respond

\* A batch operation that completes early aborts its other branches.
AbortedEarly(t) ==
  \E c \in Task : \E k \in DOMAIN Program[c] :
     /\ t \in Program[c][k].aborts
     /\ k < pos[c] \/ (k = pos[c] /\ Ready(c))

\* A task ends with the handler's future, or is aborted by its batch.
TaskEnds(t) ==
  /\ t # Main
  /\ rt # "select" \/ AbortedEarly(t)
  /\ Drop(t)

Next ==
  \/ \E t \in Task : (TaskStep(t) \/ TaskEnds(t)) /\ UNCHANGED handlerVars
  \/ WorkerStep /\ UNCHANGED handlerVars
  \/ ServiceStep /\ UNCHANGED handlerVars
  \/ RuntimeStep

Spec == HandlerInit /\ [][Next]_vars

(***************************************************************************)
(* Fairness: the tokio scheduler polls every ready task again, user code   *)
(* between two calls returns, and a request is answered or times out.      *)
(***************************************************************************)
Fairness ==
  /\ \A t \in Task : WF_vars(TaskStep(t) /\ UNCHANGED handlerVars)
  /\ WF_vars(WorkerStep /\ UNCHANGED handlerVars)
  /\ WF_vars(ServiceStep /\ UNCHANGED handlerVars)
  /\ WF_vars(RuntimeStep)

FairSpec == Spec /\ Fairness
=============================================================================
