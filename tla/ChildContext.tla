----------------------------- MODULE ChildContext -----------------------------
(***************************************************************************)
(* run_in_child_context (src/context/durable_context/child.rs,             *)
(* child/execute.rs, child/replay.rs): a function that runs operations one *)
(* after the other in a context of their own and returns what the last one *)
(* gave.  A result too large to record is made again by a later            *)
(* invocation from the records of the operations inside.                   *)
(***************************************************************************)
EXTENDS Invocation

CONSTANTS
  Length,      \* bound: how many operations the function runs
  Payloads     \* what a Serdes may give for the result: "some", "none", "error"

ASSUME ChildAssumption ==
  /\ Length \in Nat \ {0}
  /\ Payloads \subseteq {"some", "none", "error"}

VARIABLES
  large,       \* does the result exceed CHECKPOINT_SIZE_LIMIT_BYTES?
  inner,       \* the service's records of the operations inside
  found,       \* those records as the invocation loaded them
  at,          \* the operation the function is at
  value,       \* what the operation before it gave
  sent,        \* whose update is in the queue: 0 for the context's
  calls,       \* history: the operations inside whose functions were called
  outcome,     \* what the context returns, or would return, in this invocation
  committed    \* history: outcomes on which a later operation was recorded

childVars == <<large, inner, found, at, value, sent, calls, outcome, committed>>
vars == <<invocationVars, childVars>>

Inner == 1..Length
ChildPc == {"down", "replay", "starting", "function", "body", "recording", "erring",
            "error", "succeeding", "failing", "parked", "suspended", "returned"}

Outcome == [kind : {"ok", "failed"}, value : Nat]
Ok(v) == [kind |-> "ok", value |-> v]
ContextFailed == [kind |-> "failed", value |-> 0]
Unset == [kind |-> "unset", value |-> 0]

ChildTypeOK ==
  /\ InvocationTypeOK
  /\ pc \in ChildPc
  /\ large \in BOOLEAN
  /\ inner \in [Inner -> Record]
  /\ found \in [Inner -> Record]
  /\ at \in 1..Length + 1
  /\ value \in Nat
  /\ sent \in 0..Length
  /\ calls \in Seq(Inner)
  /\ outcome \in Outcome
  /\ committed \in SUBSET Outcome
  \* Everything inside is awaited.
  /\ Len(queue) <= 1

Init ==
  /\ InvocationInit
  /\ large \in BOOLEAN
  /\ inner = [i \in Inner |-> Unrecorded]
  /\ found = [i \in Inner |-> Unrecorded]
  /\ at = 1
  /\ value = 0
  /\ sent = 0
  /\ calls = <<>>
  /\ outcome = ContextFailed
  /\ committed = {}

-----------------------------------------------------------------------------
(***************************************************************************)
(* The service, and the invocations.                                       *)
(***************************************************************************)
InnerAfter(u) ==
  [inner EXCEPT ![sent] =
     [status |-> IF u.action = "Succeed" THEN "Succeeded" ELSE "Failed",
      attempt |-> 0, result |-> u.result]]

\* The batch with the update of an operation inside is recorded.
InnerRecorded ==
  /\ sent # 0
  /\ queue # <<>>
  /\ inner' = InnerAfter(Head(queue))
  /\ queue' = Tail(queue)
  /\ UNCHANGED <<record, snapshot, pc, terminating, crashes, refusals,
                 large, found, at, value, sent, calls, outcome, committed>>

\* The same as BatchFails for the context's own update.
InnerBatchFails ==
  /\ sent # 0
  /\ queue # <<>>
  /\ refusals < MaxRefusals
  /\ refusals' = refusals + 1
  /\ queue' = <<>>
  /\ terminating' = TRUE
  /\ inner' \in {inner, InnerAfter(Head(queue))}
  /\ UNCHANGED <<record, snapshot, pc, crashes,
                 large, found, at, value, sent, calls, outcome, committed>>

\* Mutant of InvokeWithChildren: only the first page of the state is loaded.
InvokeWithFirstPage ==
  /\ Invoke
  /\ found' = [i \in Inner |-> IF i = 1 THEN inner[i] ELSE Unrecorded]
  /\ at' = 1
  /\ value' = 0
  /\ UNCHANGED <<large, inner, sent, calls, outcome, committed>>

InvokeWithChildren ==
  /\ Invoke
  /\ found' = inner
  /\ at' = 1
  /\ value' = 0
  /\ UNCHANGED <<large, inner, sent, calls, outcome, committed>>

-----------------------------------------------------------------------------
(***************************************************************************)
(* evaluate_replay                                                         *)
(***************************************************************************)
\* Mutant of HasResult: the flag is not looked at, and the payload is empty.
HasAnyResult == snapshot.status = "Succeeded"

HasResult == snapshot.status = "Succeeded" /\ ~large /\ snapshot.result # 0

\* replay_children
ReplaysChildren == snapshot.status = "Succeeded" /\ large

ReplayCompleted ==
  /\ pc = "replay"
  /\ \/ HasResult /\ outcome' = Ok(snapshot.result)
     \/ snapshot.status = "Failed" /\ outcome' = ContextFailed
  /\ pc' = "returned"
  /\ UNCHANGED <<record, snapshot, queue, terminating, crashes, refusals,
                 large, inner, found, at, value, sent, calls, committed>>

\* safe_deserialize of the recorded result, or safe_serialize of a new one.
SerdesFails ==
  /\ "error" \in Payloads
  /\ \/ pc = "replay" /\ HasResult
     \/ pc = "function" /\ at = Length + 1 /\ ~ReplaysChildren
  /\ crashes < MaxCrashes
  /\ crashes' = crashes + 1
  /\ Terminate
  /\ UNCHANGED <<record, snapshot, queue, refusals, childVars>>

\* The function is called again: to make the result again, to go on where it was
\* cut off, or because the Serdes gave no result.
CallAgain ==
  /\ pc = "replay"
  /\ snapshot.status \notin {"None", "Failed"}
  /\ HasResult => "none" \in Payloads
  /\ pc' = "function"
  /\ UNCHANGED <<record, snapshot, queue, terminating, crashes, refusals, childVars>>

(***************************************************************************)
(* run_child_execution                                                     *)
(***************************************************************************)
Start ==
  /\ pc = "replay"
  /\ snapshot.status = "None"
  /\ Send([action |-> "Start", result |-> 0], "starting")
  /\ sent' = 0
  /\ UNCHANGED <<record, snapshot, terminating, crashes, refusals,
                 large, inner, found, at, value, calls, outcome, committed>>

StartReturns ==
  /\ pc = "starting"
  /\ Released
  /\ pc' = "function"
  /\ UNCHANGED <<record, snapshot, queue, terminating, crashes, refusals, childVars>>

-----------------------------------------------------------------------------
(***************************************************************************)
(* The function.  An operation inside is a step (DurableStep) of one       *)
(* attempt; its START changes nothing here.                                *)
(***************************************************************************)
InnerReplays ==
  /\ pc = "function"
  /\ at <= Length
  /\ found[at].status \in Done
  /\ IF found[at].status = "Succeeded"
     THEN at' = at + 1 /\ value' = found[at].result /\ UNCHANGED pc
     ELSE pc' = "error" /\ UNCHANGED <<at, value>>
  /\ UNCHANGED <<record, snapshot, queue, terminating, crashes, refusals,
                 large, inner, found, sent, calls, outcome, committed>>

\* has_finished_ancestor
HasFinishedAncestor == snapshot.status \in Done

\* An update from inside a finished context parks its caller.
InnerRuns ==
  /\ pc = "function"
  /\ at <= Length
  /\ found[at].status \notin Done
  /\ IF terminating \/ HasFinishedAncestor
     THEN pc' = "parked" /\ UNCHANGED calls
     ELSE pc' = "body" /\ calls' = Append(calls, at)
  /\ UNCHANGED <<record, snapshot, queue, terminating, crashes, refusals,
                 large, inner, found, at, value, sent, outcome, committed>>

InnerEnds ==
  /\ pc = "body"
  /\ \/ Send([action |-> "Succeed", result |-> Len(calls)], "recording")
     \/ Send([action |-> "Fail", result |-> Len(calls)], "erring")
  /\ sent' = at
  /\ UNCHANGED <<record, snapshot, terminating, crashes, refusals,
                 large, inner, found, at, value, calls, outcome, committed>>

\* Mutant of InnerReturns: the operation does not wait for its SUCCEED.
InnerReturnsUnrecorded ==
  /\ pc = "recording"
  /\ pc' = "function"
  /\ at' = at + 1
  /\ value' = Len(calls)
  /\ UNCHANGED <<record, snapshot, queue, terminating, crashes, refusals,
                 large, inner, found, sent, calls, outcome, committed>>

InnerReturns ==
  /\ pc = "recording"
  /\ Released
  /\ pc' = "function"
  /\ at' = at + 1
  /\ value' = Len(calls)
  /\ UNCHANGED <<record, snapshot, queue, terminating, crashes, refusals,
                 large, inner, found, sent, calls, outcome, committed>>

\* The function gives up with the error.
InnerErrs ==
  /\ pc = "erring"
  /\ Released
  /\ pc' = "error"
  /\ UNCHANGED <<record, snapshot, queue, terminating, crashes, refusals, childVars>>

-----------------------------------------------------------------------------
\* A result that is made again is returned as it is.
ReplayedChildrenReturn ==
  /\ pc = "function"
  /\ at = Length + 1
  /\ ReplaysChildren
  /\ outcome' = Ok(value)
  /\ pc' = "returned"
  /\ UNCHANGED <<record, snapshot, queue, terminating, crashes, refusals,
                 large, inner, found, at, value, sent, calls, committed>>

\* Mutant of Succeed: a result too large to record is not recorded at all.
SucceedIfSmall ==
  /\ pc = "function"
  /\ at = Length + 1
  /\ ~ReplaysChildren
  /\ IF large THEN pc' = "returned" /\ UNCHANGED queue
     ELSE Send([action |-> "Succeed", result |-> value], "succeeding")
  /\ sent' = 0
  /\ outcome' = Ok(value)
  /\ UNCHANGED <<record, snapshot, terminating, crashes, refusals,
                 large, inner, found, at, value, calls, committed>>

Succeed ==
  /\ pc = "function"
  /\ at = Length + 1
  /\ ~ReplaysChildren
  /\ \E payload \in Payloads \ {"error"} :
       Send([action |-> "Succeed",
             result |-> IF large \/ payload = "none" THEN 0 ELSE value], "succeeding")
  /\ sent' = 0
  /\ outcome' = Ok(value)
  /\ UNCHANGED <<record, snapshot, terminating, crashes, refusals,
                 large, inner, found, at, value, calls, committed>>

Fail ==
  /\ pc = "error"
  /\ Send([action |-> "Fail", result |-> 0], "failing")
  /\ sent' = 0
  /\ outcome' = ContextFailed
  /\ UNCHANGED <<record, snapshot, terminating, crashes, refusals,
                 large, inner, found, at, value, calls, committed>>

ContextReturns ==
  /\ pc \in {"succeeding", "failing"}
  /\ Released
  /\ pc' = "returned"
  /\ UNCHANGED <<record, snapshot, queue, terminating, crashes, refusals, childVars>>

\* The handler goes on and its next operation is recorded.
NextOperationRecorded ==
  /\ pc = "returned"
  /\ ~terminating
  /\ queue = <<>>
  /\ committed' = committed \cup {outcome}
  /\ UNCHANGED <<invocationVars, large, inner, found, at, value, sent, calls, outcome>>

ContextAction ==
  \/ ReplayCompleted
  \/ SerdesFails
  \/ CallAgain
  \/ Start
  \/ StartReturns
  \/ InnerReplays
  \/ InnerRuns
  \/ InnerEnds
  \/ InnerReturns
  \/ InnerErrs
  \/ ReplayedChildrenReturn
  \/ Succeed
  \/ Fail
  \/ ContextReturns
  \/ NextOperationRecorded

ContextRecorded == sent = 0 /\ RecordUpdate /\ UNCHANGED childVars
ContextBatchFails == sent = 0 /\ BatchFails /\ UNCHANGED childVars

EnvironmentAction ==
  \/ ContextRecorded
  \/ ContextBatchFails
  \/ InnerRecorded
  \/ InnerBatchFails
  \/ InvokeWithChildren
  \/ (Crash \/ OtherOperationSuspends \/ InvocationEnds) /\ UNCHANGED childVars

Next == ContextAction \/ EnvironmentAction

Spec == Init /\ [][Next]_vars

(***************************************************************************)
(* Fairness: tokio polls the task, the operations inside end, a request is *)
(* answered, the service invokes the function again.                       *)
(***************************************************************************)
Fairness ==
  /\ WF_vars(ContextAction)
  /\ WF_vars(ContextRecorded)
  /\ WF_vars(InnerRecorded)
  /\ WF_vars(InvokeWithChildren)
  /\ WF_vars(InvocationEnds /\ UNCHANGED childVars)

FairSpec == Spec /\ Fairness

-----------------------------------------------------------------------------
\* A context that is recorded as succeeded rests on records of everything that ran
\* inside: a later invocation can make its result again (child/execute.rs).
SuccessRestsOnRecords ==
  record.status = "Succeeded" => \A i \in Inner : inner[i].status = "Succeeded"

RecordedOutcome ==
  CASE record.status = "Failed" -> ContextFailed
    [] record.status = "Succeeded" /\ record.result # 0 -> Ok(record.result)
    [] record.status = "Succeeded" /\ record.result = 0 -> Ok(inner[Length].result)

Promise == INSTANCE StepPromise WITH
  ran <- calls,
  outcome <- IF record.status \in Done THEN RecordedOutcome ELSE Unset

\* Nothing inside runs again once the context has an outcome, and the handler goes
\* on only upon that outcome, also when its result is made again (child/replay.rs).
ImplementsPromise == Promise!Spec

\* A caller is parked for good only in an invocation that terminates: a function
\* called again in a finished context finds all it runs recorded (manager.rs:153).
ParkedIsTerminating == pc = "parked" => terminating

\* The context comes to an outcome.
ContextSettles == <>(record.status \in Done)
=============================================================================
