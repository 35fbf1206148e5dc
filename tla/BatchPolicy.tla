----------------------------- MODULE BatchPolicy -----------------------------
(***************************************************************************)
(* When a map or parallel operation is over, and why                       *)
(* (src/context/durable_context/batch.rs, src/types/config/completion.rs). *)
(* An Option is the set of its value, if any.  The percentage is compared  *)
(* exactly; the code's f64 agrees for whole percentages of fewer than 20   *)
(* items, while 11 failures of 20 exceed a tolerance of 55 per cent in it. *)
(***************************************************************************)
EXTENDS Naturals, FiniteSets

CONSTANT MaxItems    \* bound: the items of a batch

ASSUME ItemsAssumption == MaxItems \in Nat

Option(S) == {{}} \cup {{v} : v \in S}

\* CompletionConfig and max_concurrency.
BatchConfig ==
  [minSuccessful : Option(0..MaxItems),
   toleratedFailureCount : Option(0..MaxItems),
   toleratedFailurePercentage : Option(0..100),
   maxConcurrency : 1..MaxItems + 1]

\* validate_completion_config
IsValid(config, total) ==
  /\ \A min \in config.minSuccessful : min <= total
  /\ \A tol \in config.toleratedFailureCount : tol <= total
  /\ \A pct \in config.toleratedFailurePercentage : pct <= 100

\* has_completion_criteria
HasCriteria(config) ==
  \/ config.minSuccessful # {}
  \/ config.toleratedFailureCount # {}
  \/ config.toleratedFailurePercentage # {}

\* should_continue_batch
ShouldContinue(failures, total, config) ==
  IF HasCriteria(config)
  THEN /\ \A tol \in config.toleratedFailureCount : failures <= tol
       /\ \A pct \in config.toleratedFailurePercentage :
            total > 0 => 100 * failures <= pct * total
  ELSE failures = 0

MinReached(successes, config) == \E min \in config.minSuccessful : successes >= min

\* compute_batch_completion_reason
CompletionReason(failures, successes, completed, total, config) ==
  CASE ~ShouldContinue(failures, total, config) -> "FailureToleranceExceeded"
    [] /\ ShouldContinue(failures, total, config)
       /\ completed # total
       /\ MinReached(successes, config) -> "MinSuccessfulReached"
    [] OTHER -> "AllCompleted"
=============================================================================
