------------------------- MODULE TerminationManager -------------------------
(***************************************************************************)
(* The termination manager of one invocation (src/termination/manager.rs). *)
(* Any task may ask for termination; the first reason wins, the checkpoint *)
(* manager is told to stop accepting updates, and the watch channel the    *)
(* runtime listens on receives the reason.                                 *)
(***************************************************************************)

VARIABLES
  terminated,     \* the value of the watch channel: a reason, or NotTerminated
  isTerminating   \* CheckpointManager::is_terminating, set by the callback

terminationVars == <<terminated, isTerminating>>

NotTerminated == "NotTerminated"

\* The last four are never given: no code outside the tests terminates with them.
TerminationReason ==
  {"RetryScheduled", "WaitScheduled", "CallbackPending", "InvokePending",
   "CheckpointFailed", "SerdesFailed", "ContextValidationError",
   "AllOperationsIdle", "HandlerCompleted", "HandlerFailed"}

TerminationTypeOK ==
  /\ terminated \in TerminationReason \cup {NotTerminated}
  /\ isTerminating \in BOOLEAN

TerminationInit ==
  /\ terminated = NotTerminated
  /\ isTerminating = FALSE

\* Mutant of Terminate: the checkpoint manager is not told.
TerminateQuietly(reason) ==
  /\ terminated' = IF terminated = NotTerminated THEN reason ELSE terminated
  /\ UNCHANGED isTerminating

(***************************************************************************)
(* terminate(): under the mutex, the first caller runs the callback and    *)
(* sends its reason; a later caller finds `terminated` set and returns.    *)
(***************************************************************************)
Terminate(reason) ==
  \/ /\ terminated = NotTerminated
     /\ terminated' = reason
     /\ isTerminating' = TRUE
  \/ /\ terminated # NotTerminated
     /\ UNCHANGED terminationVars
=============================================================================
