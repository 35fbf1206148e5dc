------------------------------ MODULE Suspension ------------------------------
(***************************************************************************)
(* The operations that suspend the invocation until something outside of   *)
(* it happens (src/context/durable_context/wait/execute.rs, callback.rs,   *)
(* callback/execute.rs, invoke/execute.rs, invoke/replay.rs): a wait, a    *)
(* callback with its submitter, a chained invoke.  Each sends START once,  *)
(* terminates the invocation, and returns in a later one from the          *)
(* snapshot: the checkpoint responses of this invocation reach only the    *)
(* manager's copy of step_data.                                            *)
(***************************************************************************)
EXTENDS Invocation

CONSTANTS
  Kinds,    \* which operations: "wait", "callback", "invoke"; a wait of zero
            \* returns at once and leaves no trace
  Ends,     \* how the outside may end the operation
  Results   \* what it may leave behind: 0 for no payload

ASSUME SuspensionAssumption ==
  /\ Kinds \subseteq {"wait", "callback", "invoke"}
  /\ Ends \subseteq {"Succeeded", "Failed", "Unknown"}
  /\ Results \subseteq Nat

VARIABLES
  kind,        \* what the operation is
  held,        \* CallbackHandle.callback_id
  delivered,   \* the ids the submitter passed on
  submitted,   \* the service's record of the submitter step
  starts,      \* history: how many STARTs the service recorded
  outcome,     \* what the operation returns in this invocation
  committed    \* history: outcomes on which a later operation was recorded

suspensionVars == <<kind, held, delivered, submitted, starts, outcome, committed>>
vars == <<invocationVars, suspensionVars>>

SuspensionPc == {"down", "replay", "starting", "created", "submitting", "waiting",
                 "refreshing", "rechecking", "parked", "suspended", "returned"}
CallbackIds == {"none", "fallback", "service"}

Outcome == [kind : {"ok", "failed", "missing", "unsubmitted"}, value : Nat]
Ok(v) == [kind |-> "ok", value |-> v]
OperationFailed == [kind |-> "failed", value |-> 0]
Missing == [kind |-> "missing", value |-> 0]
SubmitterFailed == [kind |-> "unsubmitted", value |-> 0]
Unset == [kind |-> "unset", value |-> 0]

SuspensionTypeOK ==
  /\ InvocationTypeOK
  /\ pc \in SuspensionPc
  /\ kind \in Kinds
  /\ held \in CallbackIds
  /\ delivered \in SUBSET (CallbackIds \ {"none"})
  /\ submitted \in {"None", "Succeeded", "Failed"}
  /\ starts \in Nat
  /\ outcome \in Outcome
  /\ committed \in SUBSET Outcome

Init ==
  /\ InvocationInit
  /\ kind \in Kinds
  /\ held = "none"
  /\ delivered = {}
  /\ submitted = "None"
  /\ starts = 0
  /\ outcome = Missing
  /\ committed = {}

-----------------------------------------------------------------------------
(***************************************************************************)
(* The service and the outside.                                            *)
(***************************************************************************)
START == [action |-> "Start", result |-> 0]

CountStarts ==
  /\ starts' = IF record' = AfterUpdate(Head(queue)) THEN starts + 1 ELSE starts
  /\ UNCHANGED <<kind, held, delivered, submitted, outcome, committed>>

\* The timer elapses, the external system answers, the invoked function ends, or
\* a timeout of the operation does: the service then gives a status the code
\* does not know.  An external system answers a callback it was told of.
OutsideEnds ==
  /\ record.status = "Started"
  /\ \E end \in Ends, r \in Results :
       /\ kind = "wait" => end = "Succeeded"
       /\ kind = "callback" /\ delivered = {} => end = "Unknown"
       /\ record' = [record EXCEPT !.status = end,
                                   !.result = IF end = "Succeeded" THEN r ELSE 0]
  /\ UNCHANGED <<snapshot, pc, queue, terminating, crashes, refusals, suspensionVars>>

-----------------------------------------------------------------------------
(***************************************************************************)
(* What the code makes of an operation it finds.                           *)
(***************************************************************************)
RecordedOutcome(r) ==
  CASE r.status = "Succeeded" /\ kind = "wait" -> Ok(0)
    [] r.status = "Succeeded" /\ kind # "wait" /\ r.result # 0 -> Ok(r.result)
    [] r.status = "Succeeded" /\ kind # "wait" /\ r.result = 0 -> Missing
    [] r.status = "Failed" -> OperationFailed

\* Mutant of IsOver: only a success is looked for.
IsSuccess(op) == op.status = "Succeeded"

IsOver(op) == op.status \in Done

\* get_step_data, by a replay and by a re-check alike: the context's copy.
Found == snapshot

\* The operation returns what it found, or terminates the invocation.
ReturnOrSuspend ==
  /\ IF IsOver(Found)
     THEN /\ outcome' = RecordedOutcome(Found)
          /\ pc' = "returned"
          /\ UNCHANGED terminating
     ELSE /\ Terminate
          /\ UNCHANGED outcome
  /\ UNCHANGED <<record, snapshot, queue, crashes, refusals,
                 kind, held, delivered, submitted, starts, committed>>

\* Mutant of NeedsStart: an operation still under way is started again.
NeedsStartAgain == pc = "replay" /\ ~IsOver(Found)

\* Mutant of NeedsStart: an operation that failed is started again.
NeedsStartAfterFailure == pc = "replay" /\ Found.status \in {"None", "Failed"}

\* Only what is not recorded is started.
NeedsStart == pc = "replay" /\ Found.status = "None"

\* Mutant of Start: START is queued, and the operation suspends without waiting.
StartQueued ==
  /\ NeedsStart
  /\ ~terminating
  /\ queue' = Append(queue, START)
  /\ Terminate
  /\ UNCHANGED <<record, snapshot, crashes, refusals, suspensionVars>>

Start ==
  /\ NeedsStart
  /\ Send(START, "starting")
  /\ UNCHANGED <<record, snapshot, terminating, crashes, refusals, suspensionVars>>

\* safe_serialize of the input, or safe_deserialize of the result: the invocation
\* terminates.
SerdesFails ==
  /\ \/ NeedsStart /\ kind = "invoke"
     \/ /\ (pc = "replay" /\ kind = "invoke") \/ pc = "waiting"
        /\ Found.status = "Succeeded"
        /\ Found.result # 0
  /\ crashes < MaxCrashes
  /\ crashes' = crashes + 1
  /\ terminating' = TRUE
  /\ pc' = "parked"
  /\ UNCHANGED <<record, snapshot, queue, refusals, suspensionVars>>

-----------------------------------------------------------------------------
(***************************************************************************)
(* run_wait                                                                *)
(***************************************************************************)
WaitReplays ==
  /\ pc = "replay"
  /\ kind = "wait"
  /\ Found.status # "None"
  /\ ReturnOrSuspend

\* The re-check after START.
WaitStarted ==
  /\ pc = "starting"
  /\ kind = "wait"
  /\ Released
  /\ ReturnOrSuspend

(***************************************************************************)
(* invoke_with_config                                                      *)
(***************************************************************************)
InvokeStarted ==
  /\ pc = "starting"
  /\ kind = "invoke"
  /\ Released
  /\ Terminate
  /\ UNCHANGED <<record, snapshot, queue, crashes, refusals, suspensionVars>>

InvokeReplays ==
  /\ pc = "replay"
  /\ kind = "invoke"
  /\ IsOver(Found)
  /\ ReturnOrSuspend

\* force_checkpoint; what comes of it is only logged.
InvokeRefreshes ==
  /\ pc = "replay"
  /\ kind = "invoke"
  /\ Found.status # "None"
  /\ ~IsOver(Found)
  /\ pc' = "refreshing"
  /\ UNCHANGED <<record, snapshot, queue, terminating, crashes, refusals, suspensionVars>>

InvokeRefreshed ==
  /\ pc = "refreshing"
  /\ ReturnOrSuspend

(***************************************************************************)
(* create_callback, the submitter step, wait_for_callback_raw.             *)
(***************************************************************************)
\* Mutant of CallbackId: there is no id until the service gave one.
CallbackIdOrNone == IF Found.status = "None" THEN "none" ELSE "service"

\* "Try to use the service-generated callback id if available."
CallbackId == IF Found.status = "None" THEN "fallback" ELSE "service"

CreateCallback ==
  /\ kind = "callback"
  /\ \/ pc = "replay" /\ Found.status # "None"
     \/ pc = "starting" /\ Released
  /\ held' = CallbackId
  /\ pc' = "created"
  /\ UNCHANGED <<record, snapshot, queue, terminating, crashes, refusals,
                 kind, delivered, submitted, starts, outcome, committed>>

\* The submitter is a durable step (DurableStep): its function may run again as
\* long as the step is not recorded, be the callback answered or not.
SubmitterRuns ==
  /\ pc = "created"
  /\ submitted = "None"
  /\ ~terminating
  /\ delivered' = delivered \cup {held}
  /\ pc' = "submitting"
  /\ UNCHANGED <<record, snapshot, queue, terminating, crashes, refusals,
                 kind, held, submitted, starts, outcome, committed>>

SubmitterRecorded ==
  /\ pc = "submitting"
  /\ ~terminating
  /\ submitted' = "Succeeded"
  /\ pc' = "waiting"
  /\ UNCHANGED <<record, snapshot, queue, terminating, crashes, refusals,
                 kind, held, delivered, starts, outcome, committed>>

\* Its last attempt failed: the operation ends, whatever comes of the callback.
SubmitterFails ==
  /\ pc = "submitting"
  /\ ~terminating
  /\ submitted' = "Failed"
  /\ outcome' = SubmitterFailed
  /\ pc' = "returned"
  /\ UNCHANGED <<record, snapshot, queue, terminating, crashes, refusals,
                 kind, held, delivered, starts, committed>>

SubmitterReplays ==
  /\ pc = "created"
  /\ \/ submitted = "Succeeded" /\ pc' = "waiting" /\ UNCHANGED outcome
     \/ submitted = "Failed" /\ pc' = "returned" /\ outcome' = SubmitterFailed
  /\ UNCHANGED <<record, snapshot, queue, terminating, crashes, refusals,
                 kind, held, delivered, submitted, starts, committed>>

WaitForCallback ==
  /\ pc = "waiting"
  /\ ReturnOrSuspend

\* The handler goes on and its next operation is recorded, on a current-thread
\* runtime not after a failed batch (NoGapInLog, DurableHandlerProps).
NextOperationRecorded ==
  /\ pc = "returned"
  /\ ~terminating
  /\ queue = <<>>
  /\ committed' = committed \cup {outcome}
  /\ UNCHANGED <<invocationVars, kind, held, delivered, submitted, starts, outcome>>

OperationAction ==
  \/ Start
  \/ SerdesFails
  \/ WaitReplays
  \/ WaitStarted
  \/ InvokeStarted
  \/ InvokeReplays
  \/ InvokeRefreshes
  \/ InvokeRefreshed
  \/ CreateCallback
  \/ SubmitterRuns
  \/ SubmitterRecorded
  \/ SubmitterFails
  \/ SubmitterReplays
  \/ WaitForCallback
  \/ NextOperationRecorded

EnvironmentAction ==
  \/ (RecordUpdate \/ BatchFails) /\ CountStarts
  \/ (Invoke \/ Crash \/ OtherOperationSuspends \/ InvocationEnds)
       /\ UNCHANGED suspensionVars
  \/ OutsideEnds

Next == OperationAction \/ EnvironmentAction

Spec == Init /\ [][Next]_vars

(***************************************************************************)
(* Fairness: tokio polls the task, the submitter returns, a request is      *)
(* answered, the service invokes the function again, and the outside ends  *)
(* what it was asked for.                                                  *)
(***************************************************************************)
Fairness ==
  /\ WF_vars(OperationAction)
  /\ WF_vars(RecordUpdate /\ CountStarts)
  /\ WF_vars(Invoke /\ UNCHANGED suspensionVars)
  /\ WF_vars(InvocationEnds /\ UNCHANGED suspensionVars)
  /\ WF_vars(OutsideEnds)

FairSpec == Spec /\ Fairness

-----------------------------------------------------------------------------
\* The service records one START, so a chained invoke calls its function once,
\* whatever is cut off and whichever answer is lost (invoke/replay.rs).
StartedOnce == starts <= 1

\* An operation that suspends the invocation is on record, so the service has
\* something to resume it for (wait/execute.rs, invoke/execute.rs).  A failed
\* batch has chosen its own end of the invocation before.
SuspensionIsResumable ==
  pc = "suspended" /\ refusals = 0 => record.status # "None"

\* What the records say of the operation: that of a callback counts once its submitter
\* has succeeded.
OutcomeOnRecord ==
  IF kind = "callback" /\ submitted = "Failed" THEN SubmitterFailed
  ELSE IF record.status \in Done /\ (kind = "callback" => submitted = "Succeeded")
  THEN RecordedOutcome(record)
  ELSE Unset

Promise == INSTANCE StepPromise WITH
  ran <- [i \in 1..starts |-> i],
  outcome <- OutcomeOnRecord

\* The operation is started only while it has no outcome, and the handler goes on
\* only upon the outcome that every later invocation replays.
ImplementsPromise == Promise!Spec

\* The operation returns to the handler in some invocation, however the outside
\* ends it: "the timeouts protect against forgotten callbacks" (examples/README.md).
OperationReturns == <>(pc = "returned")
=============================================================================
