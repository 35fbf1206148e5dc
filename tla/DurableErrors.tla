---------------------------- MODULE DurableErrors ----------------------------
(***************************************************************************)
(* The kinds of error of the SDK (src/error/types.rs) and which failures   *)
(* of a request count as passing (src/types/lambda_service.rs).  A message *)
(* is the phrase it starts with and the set of those it contains; an       *)
(* Option is the set of its value, if any.                                 *)
(***************************************************************************)
EXTENDS Naturals

Kind ==
  {"StepFailed", "CallbackTimeout", "CallbackFailed", "InvocationFailed",
   "CheckpointFailed", "SerializationFailed", "ReplayValidationFailed",
   "ChildContextFailed", "BatchOperationFailed", "WaitConditionExceeded",
   "InvalidConfiguration", "ContextValidationError", "Internal", "AwsSdk"}

\* DurableError: only a failed checkpoint is recoverable or not.
DurableError == [kind : Kind \ {"CheckpointFailed"}, recoverable : {FALSE}]
                  \cup [kind : {"CheckpointFailed"}, recoverable : BOOLEAN]

IsRecoverable(error) == error.kind = "CheckpointFailed" /\ error.recoverable

ShouldTerminateLambda(error) ==
  \/ error.kind = "CheckpointFailed" /\ ~error.recoverable
  \/ error.kind \in {"ReplayValidationFailed", "ContextValidationError", "Internal"}

\* ErrorObject::from_durable_error: the kind is what is left of the error.
FromDurableError(error) == [type |-> error.kind, details |-> {}]

\* ErrorObject::from_error: an error of the user keeps its source only.
FromError(source) == [type |-> "Error", details |-> source]

-----------------------------------------------------------------------------
PassingPhrases == {"throttl", "rate", "timeout", "temporary"}

IsClientError(status) == status \in 400..499
IsServerError(status) == status \in 500..599

\* is_recoverable_message
IsRecoverableMessage(message) == message.contains \cap PassingPhrases # {}

\* The exceptions of a ServiceError: two count as passing by name, a token that was
\* used by its message, any other by its status, and by its message if that is
\* neither a client's nor a server's.
IsRecoverableException(exception, status, message) ==
  \/ exception \in {"TooManyRequestsException", "ServiceException"}
  \/ /\ exception = "InvalidParameterValueException"
     /\ message.start = "Invalid Checkpoint Token"
  \/ IsServerError(status) \/ status = 429
  \/ ~IsClientError(status) /\ IsRecoverableMessage(message)

\* is_recoverable_error, for an SdkError
IsRecoverableError(failure) ==
  CASE failure.kind \in {"TimeoutError", "DispatchFailure", "ResponseError"} -> TRUE
    [] failure.kind = "ConstructionFailure" -> FALSE
    [] failure.kind = "ServiceError" ->
         IsRecoverableException(failure.exception, failure.status, failure.message)
    [] OTHER -> IsRecoverableMessage(failure.message)

\* checkpoint_durable_execution: the error of a request that failed.
CheckpointError(failure) ==
  [kind |-> "CheckpointFailed", recoverable |-> IsRecoverableError(failure)]
=============================================================================
