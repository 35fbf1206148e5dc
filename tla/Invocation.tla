------------------------------ MODULE Invocation ------------------------------
(***************************************************************************)
(* One durable operation across the invocations of its execution           *)
(* (src/context/execution_context.rs, src/runtime/handler/execute.rs): each *)
(* invocation starts from a snapshot of the service's record and may be cut *)
(* off between any two steps.  The checkpoint manager appears here as what *)
(* DurableLog promises of it while nothing fails, and as what it does when *)
(* a batch fails: every caller is released and the invocation terminates.  *)
(***************************************************************************)
EXTENDS Naturals, Sequences

CONSTANTS
  MaxCrashes,    \* bound: how often an invocation is cut off
  MaxRefusals    \* bound: how many batches fail

ASSUME BoundsAssumption == MaxCrashes \in Nat /\ MaxRefusals \in Nat

VARIABLES
  record,        \* the service's record of the operation
  snapshot,      \* step_data: that record as the invocation loaded it
  pc,            \* where the operation's task is; "down" between invocations
  queue,         \* the operation's updates that are not recorded yet
  terminating,   \* is_terminating
  crashes,
  refusals

serviceVars == <<record>>
invocationVars == <<record, snapshot, pc, queue, terminating, crashes, refusals>>

Done == {"Succeeded", "Failed"}
Status == {"None", "Ready", "Started", "Pending", "Unknown"} \cup Done
Record == [status : Status, attempt : Nat, result : Nat]
Unrecorded == [status |-> "None", attempt |-> 0, result |-> 0]

\* An update carries an action and the number of the value it records.
Update == [action : {"Start", "Retry", "Succeed", "Fail"}, result : Nat]

InvocationTypeOK ==
  /\ record \in Record
  /\ snapshot \in Record
  /\ queue \in Seq(Update)
  /\ terminating \in BOOLEAN
  /\ crashes \in 0..MaxCrashes
  /\ refusals \in 0..MaxRefusals

InvocationInit ==
  /\ record = Unrecorded
  /\ snapshot = Unrecorded
  /\ pc = "down"
  /\ queue = <<>>
  /\ terminating = FALSE
  /\ crashes = 0
  /\ refusals = 0

-----------------------------------------------------------------------------
(***************************************************************************)
(* The service.  The attempt it reports counts the RETRYs; the code adds   *)
(* one to it to number the attempt at hand.                                *)
(***************************************************************************)
AfterUpdate(u) ==
  CASE u.action = "Start" -> [record EXCEPT !.status = "Started"]
    [] u.action = "Retry" -> [status |-> "Pending", attempt |-> record.attempt + 1,
                              result |-> u.result]
    [] u.action = "Succeed" -> [record EXCEPT !.status = "Succeeded", !.result = u.result]
    [] u.action = "Fail" -> [record EXCEPT !.status = "Failed", !.result = u.result]

\* Updates are recorded in the order in which they were accepted.
RecordUpdate ==
  /\ queue # <<>>
  /\ record' = AfterUpdate(Head(queue))
  /\ queue' = Tail(queue)
  /\ UNCHANGED <<snapshot, pc, terminating, crashes, refusals>>

\* The next attempt of a step that waits for its retry is due.
TimerElapses ==
  /\ record.status = "Pending"
  /\ record' = [record EXCEPT !.status = "Ready"]
  /\ UNCHANGED <<snapshot, pc, queue, terminating, crashes, refusals>>

(***************************************************************************)
(* A batch fails; the service may have recorded it all the same.  The      *)
(* manager releases its callers, drains the queue and terminates.          *)
(***************************************************************************)
BatchFails ==
  /\ queue # <<>>
  /\ refusals < MaxRefusals
  /\ refusals' = refusals + 1
  /\ queue' = <<>>
  /\ terminating' = TRUE
  /\ record' \in {record, AfterUpdate(Head(queue))}
  /\ UNCHANGED <<snapshot, pc, crashes>>

-----------------------------------------------------------------------------
\* The service invokes the function: a timer is due, the last invocation failed,
\* or another operation of the execution moved on.
Invoke ==
  /\ pc = "down"
  /\ pc' = "replay"
  /\ snapshot' = record
  /\ terminating' = FALSE
  /\ UNCHANGED <<record, queue, crashes, refusals>>

\* The invocation is cut off; what is queued is gone.  A request on its way that
\* is recorded later is recorded before the next snapshot, since its token is not
\* that of the next invocation: as if it had been recorded before the crash.
Crash ==
  /\ pc # "down"
  /\ crashes < MaxCrashes
  /\ crashes' = crashes + 1
  /\ pc' = "down"
  /\ queue' = <<>>
  /\ UNCHANGED <<record, snapshot, terminating, refusals>>

\* Another operation of the handler suspends the invocation.
OtherOperationSuspends ==
  /\ pc # "down"
  /\ ~terminating
  /\ crashes < MaxCrashes
  /\ crashes' = crashes + 1
  /\ terminating' = TRUE
  /\ UNCHANGED <<record, snapshot, pc, queue, refusals>>

(***************************************************************************)
(* The handler is done, or termination is chosen by select! and drops it;  *)
(* the output is given once the queue is drained.                          *)
(***************************************************************************)
InvocationEnds ==
  /\ pc \in {"returned", "suspended"} \/ (pc # "down" /\ terminating)
  /\ queue = <<>>
  /\ pc' = "down"
  /\ UNCHANGED <<record, snapshot, queue, terminating, crashes, refusals>>

-----------------------------------------------------------------------------
\* checkpoint() and checkpoint_queued(): a terminating manager parks the caller.
Send(u, next) ==
  \/ /\ terminating
     /\ pc' = "parked"
     /\ UNCHANGED queue
  \/ /\ ~terminating
     /\ pc' = next
     /\ queue' = Append(queue, u)

\* checkpoint() returns Ok when its batch was recorded, and when it failed.
Released == queue = <<>>

\* A call of TerminationManager::terminate_for_*; the task never resumes.
Terminate ==
  /\ pc' = "suspended"
  /\ terminating' = TRUE
=============================================================================
