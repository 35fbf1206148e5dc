--------------------------- MODULE OperationUpdates ---------------------------
(***************************************************************************)
(* How operations word their updates and read the service's records        *)
(* (src/types/invocation.rs, src/types/lambda_service.rs): the options an   *)
(* update carries, what build() refuses, and what becomes of a status.  An *)
(* Option is the set of its value, if any.                                 *)
(***************************************************************************)
EXTENDS RetryPolicy

\* The parts of an OperationUpdate that build() looks at; a function name is
\* "blank" if trimming leaves nothing of it.
NewUpdate(type, action) ==
  [type |-> type, action |-> action, nextAttemptDelay |-> {}, wait |-> {},
   timeout |-> {}, heartbeat |-> {}, function |-> {}, error |-> {}]

\* OperationUpdateBuilder::build
IsBuilt(u) ==
  /\ \A seconds \in u.nextAttemptDelay \cup u.wait \cup u.timeout \cup u.heartbeat :
       seconds >= 0
  /\ "blank" \notin u.function

\* run_wait
WaitUpdate(duration) ==
  [NewUpdate("Wait", "Start") EXCEPT !.wait = {ToSecondsI32(duration)}]

\* The RETRY of a step.
RetryUpdate(delay, error) ==
  [NewUpdate("Step", "Retry") EXCEPT !.nextAttemptDelay = {ToSecondsI32(delay)},
                                     !.error = {error}]

\* The RETRY of wait_for_condition.
ContinueUpdate(delay) ==
  [NewUpdate("Step", "Retry") EXCEPT !.nextAttemptDelay = {ToSecondsI32(delay)}]

\* create_callback
CallbackUpdate(timeout, heartbeat) ==
  [NewUpdate("Callback", "Start") EXCEPT
     !.timeout = {ToSecondsI32(d) : d \in timeout},
     !.heartbeat = {ToSecondsI32(d) : d \in heartbeat}]

\* run_invoke_execution
InvokeUpdate(function) ==
  [NewUpdate("ChainedInvoke", "Start") EXCEPT !.function = {function}]

\* to_sdk_operation_update: of an error only its type and message are sent.
SentUpdate(u) ==
  [u EXCEPT !.error = {[type |-> {e.type}, message |-> {e.message}, data |-> {},
                        stackTrace |-> {}] : e \in @}]

-----------------------------------------------------------------------------
KnownStatus == {"Ready", "Started", "Pending", "Succeeded", "Failed"}

\* sdk_operation_status_to_operation_status
StatusOf(sdkStatus) == IF sdkStatus \in KnownStatus THEN sdkStatus ELSE "Unknown"

KnownTypes == {"Step", "Wait", "Callback", "ChainedInvoke", "Context", "Execution"}

\* sdk_operation_type_to_operation_type
TypeOf(sdkType) == IF sdkType \in KnownTypes THEN sdkType ELSE "Step"

OrElse(option, default) == IF option = {} THEN default ELSE CHOOSE v \in option : TRUE

\* sdk_error_object_to_error_object
ErrorOf(e) ==
  [type |-> OrElse(e.type, "Error"), message |-> OrElse(e.message, "Unknown error"),
   details |-> IF e.data # {} THEN e.data ELSE e.stackTrace]
=============================================================================
