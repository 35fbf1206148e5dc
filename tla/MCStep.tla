-------------------------------- MODULE MCStep --------------------------------
(* Small instances of DurableStep, and of the strategies its retries follow. *)
EXTENDS DurableStep, OperationUpdates, DurableErrors

\* Every preset but none asks for delays within its max_delay, and the longest
\* delay never shrinks from one attempt to the next.
ASSUME PresetsAssumption ==
  \A name \in DOMAIN Presets \ {"none"} :
    LET s == Presets[name]
        Longer(a, b) == \A t \in RetryDelays(s, a) : \E u \in RetryDelays(s, b) : t <= u
    IN  \A a \in 1..s.maxAttempts - 1 :
          /\ RetryDelays(s, a) \subseteq 1..ToSeconds(s.maxDelay)
          /\ a > 1 => Longer(a - 1, a)

\* The strategies say of an attempt what a step asks of them: for some error a
\* retry below max_attempts, and none from there on.
ASSUME MayRetryAssumption ==
  LET s == Exponential(MaxAttempts, Seconds(1), Minutes(5), Rate(2, 1), "Full",
                       {"timeout"})
  IN  \A a \in 1..MaxAttempts + 1 :
        MayRetry(a) <=> \E error \in {{}, {"timeout"}} : ShouldRetry(s, error, a)

\* Durations add up with their carries, and are read back as they were written; the
\* builder carries nothing.
ASSUME DurationAssumption ==
  LET some == [days : {0, 1}, hours : {0, 23}, minutes : {0, 59}, seconds : {0, 1, 59}]
  IN  /\ \A a, b \in some : ToSeconds(Plus(a, b)) = ToSeconds(a) + ToSeconds(b)
      /\ \A a \in some : /\ Parsed(Parts(a)) = a
                        /\ FromSeconds(ToSeconds(a)) = a
                        /\ IsZero(a) <=> ToMillis(a) = 0
      /\ Built([hours |-> 1, seconds |-> 60]) # Plus(Hours(1), Minutes(1))
      /\ ToSeconds(Built([hours |-> 1, seconds |-> 60])) = ToSeconds(Plus(Hours(1), Minutes(1)))
      /\ \A h \in 0..48 : Plus(Hours(h), Hours(0)) = Plus(Days(h \div 24), Hours(h % 24))

\* build() refuses no update of an operation but an invoke without a name, also for
\* delays beyond i32::MAX; a retry's error comes back without its details.
ASSUME UpdatesAssumption ==
  LET durations == [days : {0, MaxU32}, hours : {0}, minutes : {0, 1},
                    seconds : {0, MaxU32}]
      option == {{}} \cup {{d} : d \in durations}
      error == [type |-> "Error", message |-> "refused", details |-> {"source"}]
  IN  /\ \A d \in durations : /\ IsBuilt(WaitUpdate(d))
                              /\ IsBuilt(RetryUpdate(d, error))
                              /\ IsBuilt(ContinueUpdate(d))
      /\ \A timeout, heartbeat \in option : IsBuilt(CallbackUpdate(timeout, heartbeat))
      /\ \A name \in {"blank", "named"} : IsBuilt(InvokeUpdate(name)) <=> name = "named"
      /\ \A e \in SentUpdate(RetryUpdate(Seconds(1), error)).error :
           ErrorOf(e) = [error EXCEPT !.details = {}]

\* A status the service has and the code does not know is no outcome.
ASSUME StatusAssumption ==
  \A s \in {"Cancelled", "Stopped", "TimedOut"} : StatusOf(s) \notin Done

\* No error asks both for a retry of the invocation and for its end, and none of the
\* SDK is recorded as if it were one of the user.
ASSUME ErrorAssumption ==
  \A error \in DurableError :
    /\ ~(IsRecoverable(error) /\ ShouldTerminateLambda(error))
    /\ FromDurableError(error).type # FromError({"source"}).type

\* A token that was used, throttling, and an answer that was lost are passing; a
\* request the service finds wrong is not, whatever phrase its message contains, that
\* about the token behind its beginning included.
ASSUME RequestAssumption ==
  LET Exceptions == {"TooManyRequestsException", "ServiceException",
                     "InvalidParameterValueException", "OtherException"}
      Phrases == PassingPhrases \cup {"Invalid Checkpoint Token", "other"}
      Service(exception, status, message) ==
        [kind |-> "ServiceError", exception |-> exception, status |-> status,
         message |-> message]
      Message(phrases) == {[start |-> first, contains |-> phrases] : first \in phrases}
      Passes(failure) == IsRecoverable(CheckpointError(failure))
  IN  /\ Passes([kind |-> "TimeoutError"])
      /\ ~Passes([kind |-> "ConstructionFailure"])
      /\ \A exception \in Exceptions, phrases \in SUBSET Phrases :
           \A message \in Message(phrases) :
             /\ \A status \in {429, 500, 599} : Passes(Service(exception, status, message))
             /\ Passes(Service(exception, 400, message))
                  <=> \/ exception \in {"TooManyRequestsException", "ServiceException"}
                      \/ /\ exception = "InvalidParameterValueException"
                         /\ message.start = "Invalid Checkpoint Token"
=============================================================================
