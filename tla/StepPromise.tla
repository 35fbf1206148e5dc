----------------------------- MODULE StepPromise -----------------------------
(***************************************************************************)
(* What a durable step promises ("Replay Behavior",                        *)
(* src/context/durable_context/step.rs): its function runs only while the   *)
(* step has no outcome, the outcome is set once, and whatever the handler  *)
(* does next is done on that outcome.                                      *)
(***************************************************************************)
EXTENDS Naturals, Sequences

CONSTANT Unset

VARIABLES
  outcome,     \* what the step came to
  ran,         \* the attempts for which the function was called
  committed    \* the outcomes on which the handler went on durably

promiseVars == <<outcome, ran, committed>>

Init ==
  /\ outcome = Unset
  /\ ran = <<>>
  /\ committed = {}

Run ==
  /\ outcome = Unset
  /\ Len(ran') = Len(ran) + 1
  /\ SubSeq(ran', 1, Len(ran)) = ran
  /\ UNCHANGED <<outcome, committed>>

Settle ==
  /\ outcome = Unset
  /\ outcome' # Unset
  /\ UNCHANGED <<ran, committed>>

Commit ==
  /\ outcome # Unset
  /\ committed' = {outcome}
  /\ UNCHANGED <<outcome, ran>>

Next == Run \/ Settle \/ Commit

Spec == Init /\ [][Next]_promiseVars
=============================================================================
