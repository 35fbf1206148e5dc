---------------------------- MODULE WaitCondition ----------------------------
(***************************************************************************)
(* wait_for_condition (src/context/durable_context/wait_condition.rs,      *)
(* wait_condition/execute.rs, wait_condition/replay.rs): one poll of the   *)
(* check function per invocation, whose state is recorded by a RETRY and   *)
(* handed to the next poll.  Only what is Done is replayed; a poll that is *)
(* Pending is run again whenever the handler is.                           *)
(***************************************************************************)
EXTENDS Invocation

CONSTANTS
  MaxPolls,    \* config.max_attempts, which this model takes as given
  Payloads     \* what a Serdes may give: "some", "none", "error"

ASSUME ConditionAssumption ==
  /\ MaxPolls \in Nat
  /\ Payloads \subseteq {"some", "none", "error"}

VARIABLES
  polls,       \* history: the calls of check_fn, their attempt and state
  outcome,     \* what the operation returns, or would return, in this invocation
  committed    \* history: outcomes on which a later operation was recorded

conditionVars == <<polls, outcome, committed>>
vars == <<invocationVars, conditionVars>>

ConditionPc == {"down", "replay", "starting", "body", "checking", "succeeding", "failing",
                "retrying", "parked", "suspended", "returned"}

\* A failure is a WaitConditionExceeded of an attempt where it arises, and a StepFailed
\* after a number of attempts where it is replayed.  A check error leaves no record.
Outcome == [kind : {"ok", "exceeded", "failed", "missing", "error"}, value : Nat]
Ok(v) == [kind |-> "ok", value |-> v]
Exceeded(n) == [kind |-> "exceeded", value |-> n]
StepFailed(n) == [kind |-> "failed", value |-> n]
Missing == [kind |-> "missing", value |-> 0]
CheckError == [kind |-> "error", value |-> 0]
Unset == [kind |-> "unset", value |-> 0]

\* Every call of check_fn gives a state of its own, which is its number; the
\* initial state is 0.
Poll == [attempt : 1..MaxPolls, state : Nat]

ConditionTypeOK ==
  /\ InvocationTypeOK
  /\ pc \in ConditionPc
  /\ polls \in Seq(Poll)
  /\ outcome \in Outcome
  /\ committed \in SUBSET Outcome

Init ==
  /\ InvocationInit
  /\ polls = <<>>
  /\ outcome = Missing
  /\ committed = {}

-----------------------------------------------------------------------------
\* attempt.unwrap_or(0) + 1
Attempt == snapshot.attempt + 1

\* Mutant of State: every poll begins with the initial state.
InitialState == 0

\* The state that the last recorded poll left, or the initial one.
State == snapshot.result

\* Mutant of IsExceeded: the attempt at the limit is still made.
IsExceededLate == Attempt > MaxPolls + 1

IsExceeded == Attempt > MaxPolls

\* An attempt that is not recorded counts as 1.
RecordedOutcome(r) ==
  CASE r.status = "Succeeded" /\ r.result # 0 -> Ok(r.result)
    [] r.status = "Succeeded" /\ r.result = 0 -> Missing
    [] r.status = "Failed" -> StepFailed(IF r.attempt = 0 THEN 1 ELSE r.attempt)

-----------------------------------------------------------------------------
(***************************************************************************)
(* handle_replay                                                           *)
(***************************************************************************)
ReplayCompleted ==
  /\ pc = "replay"
  /\ snapshot.status \in Done
  /\ outcome' = RecordedOutcome(snapshot)
  /\ pc' = "returned"
  /\ UNCHANGED <<record, snapshot, queue, terminating, crashes, refusals,
                 polls, committed>>

\* Mutant of Continues: a success is not replayed but polled for again.
ContinuesUnlessFailed == pc = "replay" /\ snapshot.status # "Failed"

Continues == pc = "replay" /\ snapshot.status \notin Done

\* A Serdes that fails terminates the invocation: on the recorded result or
\* state, or on the state of a new poll.
SerdesFails ==
  /\ "error" \in Payloads
  /\ \/ pc = "replay" /\ snapshot.result # 0 /\ snapshot.status # "Failed"
     \/ pc = "checking"
  /\ crashes < MaxCrashes
  /\ crashes' = crashes + 1
  /\ Terminate
  /\ UNCHANGED <<record, snapshot, queue, refusals, conditionVars>>

(***************************************************************************)
(* run_wait_condition                                                      *)
(***************************************************************************)
\* Mutant of Exceed: the error is returned and not recorded.
ExceedUnrecorded ==
  /\ Continues
  /\ IsExceeded
  /\ outcome' = Exceeded(Attempt)
  /\ pc' = "returned"
  /\ UNCHANGED <<record, snapshot, queue, terminating, crashes, refusals,
                 polls, committed>>

Exceed ==
  /\ Continues
  /\ IsExceeded
  /\ Send([action |-> "Fail", result |-> 0], "failing")
  /\ outcome' = Exceeded(Attempt)
  /\ UNCHANGED <<record, snapshot, terminating, crashes, refusals, polls, committed>>

Start ==
  /\ Continues
  /\ ~IsExceeded
  /\ snapshot.status = "None"
  /\ Send([action |-> "Start", result |-> 0], "starting")
  /\ UNCHANGED <<record, snapshot, terminating, crashes, refusals, conditionVars>>

StartReturns ==
  /\ pc = "starting"
  /\ Released
  /\ pc' = "body"
  /\ UNCHANGED <<record, snapshot, queue, terminating, crashes, refusals, conditionVars>>

\* Also when the next poll is not due yet.
Resume ==
  /\ Continues
  /\ ~IsExceeded
  /\ snapshot.status # "None"
  /\ pc' = "body"
  /\ UNCHANGED <<record, snapshot, queue, terminating, crashes, refusals, conditionVars>>

RunCheck ==
  /\ pc = "body"
  /\ polls' = Append(polls, [attempt |-> Attempt, state |-> State])
  /\ pc' = "checking"
  /\ UNCHANGED <<record, snapshot, queue, terminating, crashes, refusals,
                 outcome, committed>>

\* check_fn(..).await?
CheckFails ==
  /\ pc = "checking"
  /\ crashes < MaxCrashes
  /\ crashes' = crashes + 1
  /\ outcome' = CheckError
  /\ pc' = "returned"
  /\ UNCHANGED <<record, snapshot, queue, terminating, refusals, polls, committed>>

\* The state of the poll at hand as its payload records it.
NewState == {IF p = "some" THEN Len(polls) ELSE 0 : p \in Payloads \ {"error"}}

CheckStops ==
  /\ pc = "checking"
  /\ \E s \in NewState : Send([action |-> "Succeed", result |-> s], "succeeding")
  /\ outcome' = Ok(Len(polls))
  /\ UNCHANGED <<record, snapshot, terminating, crashes, refusals, polls, committed>>

CheckContinues ==
  /\ pc = "checking"
  /\ \E s \in NewState : Send([action |-> "Retry", result |-> s], "retrying")
  /\ UNCHANGED <<record, snapshot, terminating, crashes, refusals, conditionVars>>

OutcomeReturns ==
  /\ pc \in {"succeeding", "failing"}
  /\ Released
  /\ pc' = "returned"
  /\ UNCHANGED <<record, snapshot, queue, terminating, crashes, refusals, conditionVars>>

RetryReturns ==
  /\ pc = "retrying"
  /\ Released
  /\ Terminate
  /\ UNCHANGED <<record, snapshot, queue, crashes, refusals, conditionVars>>

\* The handler goes on and its next operation is recorded.
NextOperationRecorded ==
  /\ pc = "returned"
  /\ ~terminating
  /\ queue = <<>>
  /\ committed' = committed \cup {outcome}
  /\ UNCHANGED <<invocationVars, polls, outcome>>

ConditionAction ==
  \/ ReplayCompleted
  \/ SerdesFails
  \/ Exceed
  \/ Start
  \/ StartReturns
  \/ Resume
  \/ RunCheck
  \/ CheckFails
  \/ CheckStops
  \/ CheckContinues
  \/ OutcomeReturns
  \/ RetryReturns
  \/ NextOperationRecorded

EnvironmentAction ==
  \/ RecordUpdate
  \/ TimerElapses
  \/ BatchFails
  \/ Invoke
  \/ Crash
  \/ OtherOperationSuspends
  \/ InvocationEnds

Next == ConditionAction \/ (EnvironmentAction /\ UNCHANGED conditionVars)

Spec == Init /\ [][Next]_vars

(***************************************************************************)
(* Fairness: tokio polls the task, check_fn returns, a request is answered, *)
(* the service invokes the function again.  No timer is needed: an         *)
(* invocation for whatever reason polls.                                   *)
(***************************************************************************)
Fairness ==
  /\ WF_vars(ConditionAction)
  /\ WF_vars(RecordUpdate /\ UNCHANGED conditionVars)
  /\ WF_vars(Invoke /\ UNCHANGED conditionVars)
  /\ WF_vars(InvocationEnds /\ UNCHANGED conditionVars)

FairSpec == Spec /\ Fairness

-----------------------------------------------------------------------------
\* A poll begins with the state that an earlier poll of the preceding attempt
\* left, however many polls were cut off in between (wait_condition/execute.rs).
PollsContinue ==
  \A i \in DOMAIN polls :
    IF polls[i].attempt = 1 THEN polls[i].state = 0
    ELSE polls[i].state \in {j \in 1..i - 1 : polls[j].attempt = polls[i].attempt - 1}

\* The outcomes that a later invocation may be given as well.
Replayable == {o \in committed : o.kind \notin {"exceeded", "error"}}

Promise == INSTANCE StepPromise WITH
  ran <- polls,
  committed <- Replayable,
  outcome <- IF record.status \in Done THEN RecordedOutcome(record) ELSE Unset

\* The check runs only while the condition has no outcome, and what the handler does
\* next is done on the outcome every later invocation replays, but for the two errors
\* that no invocation replays: that of the check, and WaitConditionExceeded, which
\* later ones report as a StepFailed (wait_condition/replay.rs:39).
ImplementsPromise == Promise!Spec

\* A handler that went on upon WaitConditionExceeded has the failure on record: no
\* later invocation polls or succeeds, and what they report is the attempts made, one
\* less than the error named (wait_condition/execute.rs:49).
ExceededIsFinal ==
  \A o \in committed : o.kind = "exceeded" =>
    record.status = "Failed" /\ o = Exceeded(record.attempt + 1)

\* Polling ends: by a check that stops it or by max_attempts.
ConditionSettles == <>(record.status \in Done)
=============================================================================
