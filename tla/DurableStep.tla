----------------------------- MODULE DurableStep -----------------------------
(***************************************************************************)
(* A durable step (src/context/durable_context/step.rs, step/replay.rs,    *)
(* step/execute.rs): what it finds in the snapshot decides whether it      *)
(* returns, suspends, fails or runs the user's function, and every outcome *)
(* is checkpointed before it is returned.                                  *)
(***************************************************************************)
EXTENDS Invocation

CONSTANTS
  MaxAttempts,   \* the retry strategy's max_attempts
  Payloads       \* what a Serdes may give: "some", "none", "error"

ASSUME StepAssumption ==
  /\ MaxAttempts \in Nat \ {0}
  /\ Payloads \subseteq {"some", "none", "error"}

VARIABLES
  semantics,     \* config.semantics
  ran,           \* history: the attempts for which step_fn was called
  outcome,       \* what step() returns, or would return, in this invocation
  committed      \* history: outcomes on which a later operation was recorded

stepVars == <<semantics, ran, outcome, committed>>
vars == <<invocationVars, stepVars>>

StepSemantics == {"AtLeastOncePerRetry", "AtMostOncePerRetry"}
StepPc == {"down", "replay", "starting", "body", "running", "succeeding", "failing",
           "retrying", "parked", "suspended", "returned"}

\* Ok with the value of a run of the function; StepFailed with its attempts; or
\* Internal("Missing step output in replay").
Outcome == [kind : {"ok", "failed", "missing"}, value : Nat]
Ok(v) == [kind |-> "ok", value |-> v]
StepFailed(attempts) == [kind |-> "failed", value |-> attempts]
Missing == [kind |-> "missing", value |-> 0]
Unset == [kind |-> "unset", value |-> 0]

StepTypeOK ==
  /\ InvocationTypeOK
  /\ pc \in StepPc
  /\ semantics \in StepSemantics
  /\ ran \in Seq(Nat \ {0})
  /\ outcome \in Outcome
  /\ committed \in SUBSET Outcome

Init ==
  /\ InvocationInit
  /\ semantics \in StepSemantics
  /\ ran = <<>>
  /\ outcome = Missing
  /\ committed = {}

AtMostOnce == semantics = "AtMostOncePerRetry"

\* Mutant of Attempt: the index is passed on as it is.
AttemptIndex == snapshot.attempt

\* attempt_idx + 1
Attempt == snapshot.attempt + 1

\* RetryStrategy::should_retry: never at max_attempts, and below it only if the
\* error is retryable.
MayRetry(attempts) == attempts < MaxAttempts

-----------------------------------------------------------------------------
(***************************************************************************)
(* handle_replay                                                           *)
(***************************************************************************)

\* A recorded result of 0 stands for a payload that is absent.
RecordedOutcome(r) ==
  CASE r.status = "Succeeded" /\ r.result # 0 -> Ok(r.result)
    [] r.status = "Succeeded" /\ r.result = 0 -> Missing
    [] r.status = "Failed" -> StepFailed(r.attempt + 1)

\* safe_deserialize fails on the recorded payload: the invocation terminates.
ReplayUnreadable ==
  /\ pc = "replay"
  /\ snapshot.status = "Succeeded"
  /\ snapshot.result # 0
  /\ "error" \in Payloads
  /\ crashes < MaxCrashes
  /\ crashes' = crashes + 1
  /\ Terminate
  /\ UNCHANGED <<record, snapshot, queue, refusals, stepVars>>

ReplayCompleted ==
  /\ pc = "replay"
  /\ snapshot.status \in Done
  /\ outcome' = RecordedOutcome(snapshot)
  /\ pc' = "returned"
  /\ UNCHANGED <<record, snapshot, queue, terminating, crashes, refusals,
                 semantics, ran, committed>>

\* Mutant of ReplayPending: a step that is due is suspended like one that waits.
ReplayPendingOrReady ==
  /\ pc = "replay"
  /\ snapshot.status \in {"Pending", "Ready"}
  /\ Terminate
  /\ UNCHANGED <<record, snapshot, queue, crashes, refusals, stepVars>>

ReplayPending ==
  /\ pc = "replay"
  /\ snapshot.status = "Pending"
  /\ Terminate
  /\ UNCHANGED <<record, snapshot, queue, crashes, refusals, stepVars>>

\* Mutant of SendFailure: the error returned does not count the attempt at hand.
SendFailureMiscounting ==
  /\ \/ /\ MayRetry(Attempt)
        /\ Send([action |-> "Retry", result |-> 0], "retrying")
        /\ UNCHANGED outcome
     \/ /\ Send([action |-> "Fail", result |-> 0], "failing")
        /\ outcome' = StepFailed(snapshot.attempt)
  /\ UNCHANGED <<record, snapshot, terminating, crashes, refusals,
                 semantics, ran, committed>>

\* Mutant of SendFailure: RETRY without asking the strategy.
SendFailureUnchecked ==
  /\ \/ /\ Send([action |-> "Retry", result |-> 0], "retrying")
        /\ UNCHANGED outcome
     \/ /\ Send([action |-> "Fail", result |-> 0], "failing")
        /\ outcome' = StepFailed(Attempt)
  /\ UNCHANGED <<record, snapshot, terminating, crashes, refusals,
                 semantics, ran, committed>>

\* After an attempt failed: RETRY if the strategy says so, otherwise FAIL.
SendFailure ==
  /\ \/ /\ MayRetry(Attempt)
        /\ Send([action |-> "Retry", result |-> 0], "retrying")
        /\ UNCHANGED outcome
     \/ /\ Send([action |-> "Fail", result |-> 0], "failing")
        /\ outcome' = StepFailed(Attempt)
  /\ UNCHANGED <<record, snapshot, terminating, crashes, refusals,
                 semantics, ran, committed>>

\* An at-most-once attempt that was started is not run again: it has failed.
ReplayInterrupted ==
  /\ pc = "replay"
  /\ snapshot.status = "Started"
  /\ AtMostOnce
  /\ SendFailure

(***************************************************************************)
(* run_step_execution                                                      *)
(***************************************************************************)
\* Mutant of AlreadyStarted: every step that has a record, also one that waits
\* for its outcome to be replayed, is resumed.
AlreadyRecorded == snapshot.status # "None"

AlreadyStarted == snapshot.status \in {"Started", "Ready"}

\* Mutant of StartStep: START is queued and not awaited whatever the semantics.
StartStepQueued ==
  /\ pc = "replay"
  /\ snapshot.status = "None"
  /\ Send([action |-> "Start", result |-> 0], "body")
  /\ UNCHANGED <<record, snapshot, terminating, crashes, refusals, stepVars>>

\* START is awaited or only queued.
StartStep ==
  /\ pc = "replay"
  /\ snapshot.status = "None"
  /\ Send([action |-> "Start", result |-> 0], IF AtMostOnce THEN "starting" ELSE "body")
  /\ UNCHANGED <<record, snapshot, terminating, crashes, refusals, stepVars>>

StartReturns ==
  /\ pc = "starting"
  /\ Released
  /\ pc' = "body"
  /\ UNCHANGED <<record, snapshot, queue, terminating, crashes, refusals, stepVars>>

\* No START is sent: the function runs at once.
ResumeStep ==
  /\ pc = "replay"
  /\ AlreadyStarted
  /\ ~(AtMostOnce /\ snapshot.status = "Started")
  /\ pc' = "body"
  /\ UNCHANGED <<record, snapshot, queue, terminating, crashes, refusals, stepVars>>

RunStep ==
  /\ pc = "body"
  /\ ran' = Append(ran, Attempt)
  /\ pc' = "running"
  /\ UNCHANGED <<record, snapshot, queue, terminating, crashes, refusals,
                 semantics, outcome, committed>>

\* Every call of the function gives a value of its own.
StepSucceeds ==
  /\ pc = "running"
  /\ \E p \in Payloads \ {"error"} :
       Send([action |-> "Succeed", result |-> IF p = "some" THEN Len(ran) ELSE 0],
            "succeeding")
  /\ outcome' = Ok(Len(ran))
  /\ UNCHANGED <<record, snapshot, terminating, crashes, refusals,
                 semantics, ran, committed>>

\* safe_serialize fails: the invocation terminates, nothing is recorded.
StepUnserializable ==
  /\ pc = "running"
  /\ "error" \in Payloads
  /\ crashes < MaxCrashes
  /\ crashes' = crashes + 1
  /\ Terminate
  /\ UNCHANGED <<record, snapshot, queue, refusals, stepVars>>

StepFails ==
  /\ pc = "running"
  /\ SendFailure

\* The checkpoint of the outcome returns, and step() with it.
StepReturns ==
  /\ pc \in {"succeeding", "failing"}
  /\ Released
  /\ pc' = "returned"
  /\ UNCHANGED <<record, snapshot, queue, terminating, crashes, refusals, stepVars>>

\* The checkpoint of RETRY returns: terminate_for_retry.
RetryReturns ==
  /\ pc = "retrying"
  /\ Released
  /\ Terminate
  /\ UNCHANGED <<record, snapshot, queue, crashes, refusals, stepVars>>

\* The handler goes on and its next operation is recorded, behind all updates of
\* the step and not after a failed batch: what NoGapInLog says of the manager on
\* a current-thread runtime (DurableHandlerProps).
NextOperationRecorded ==
  /\ pc = "returned"
  /\ ~terminating
  /\ queue = <<>>
  /\ committed' = committed \cup {outcome}
  /\ UNCHANGED <<invocationVars, semantics, ran, outcome>>

StepAction ==
  \/ ReplayCompleted
  \/ ReplayUnreadable
  \/ ReplayPending
  \/ ReplayInterrupted
  \/ StartStep
  \/ StartReturns
  \/ ResumeStep
  \/ RunStep
  \/ StepSucceeds
  \/ StepUnserializable
  \/ StepFails
  \/ StepReturns
  \/ RetryReturns
  \/ NextOperationRecorded

EnvironmentAction ==
  \/ RecordUpdate
  \/ TimerElapses
  \/ BatchFails
  \/ Invoke
  \/ Crash
  \/ OtherOperationSuspends
  \/ InvocationEnds

Next == StepAction \/ (EnvironmentAction /\ UNCHANGED stepVars)

Spec == Init /\ [][Next]_vars

(***************************************************************************)
(* Fairness: tokio polls the task, the user's function returns, a request  *)
(* is answered, the service invokes the function again and fires timers.   *)
(***************************************************************************)
Fairness ==
  /\ WF_vars(StepAction)
  /\ WF_vars(RecordUpdate /\ UNCHANGED stepVars)
  /\ WF_vars(TimerElapses /\ UNCHANGED stepVars)
  /\ WF_vars(Invoke /\ UNCHANGED stepVars)
  /\ WF_vars(InvocationEnds /\ UNCHANGED stepVars)

FairSpec == Spec /\ Fairness

-----------------------------------------------------------------------------
\* Whatever the handler recorded after the step, it recorded on the outcome that
\* every later invocation replays (step/replay.rs).
CommittedIsRecorded ==
  \A o \in committed : record.status \in Done /\ o = RecordedOutcome(record)

\* The attempts the function is told never go back, and stay within max_attempts
\* whatever crashes and interruptions happen in between.
AttemptsCountUp ==
  \A i \in DOMAIN ran :
    /\ ran[i] <= MaxAttempts
    /\ i > 1 => ran[i - 1] <= ran[i]

\* The first attempt of an at-most-once step calls the function at most once,
\* unless a batch failed: START is recorded before the function runs.
FirstAttemptOnce ==
  AtMostOnce /\ refusals = 0 =>
    \A i, j \in DOMAIN ran : ran[i] = 1 /\ ran[j] = 1 => i = j

\* "Execute at most once per retry cycle. The step is checkpointed before
\* execution, preventing duplicate execution." (types/config/step.rs)
AtMostOncePerRetry ==
  AtMostOnce /\ refusals = 0 => \A i, j \in DOMAIN ran : ran[i] = ran[j] => i = j

Promise == INSTANCE StepPromise WITH
  outcome <- IF record.status \in Done THEN RecordedOutcome(record) ELSE Unset

\* The step keeps its promise across crashes, retries and failed batches.
ImplementsStepPromise == Promise!Spec

\* The step comes to an outcome: retries end, and no crash leaves it stuck.
StepSettles == <>(record.status \in Done)
=============================================================================
