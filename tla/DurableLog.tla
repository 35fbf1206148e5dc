------------------------------ MODULE DurableLog ------------------------------
(***************************************************************************)
(* What the checkpoint manager promises (src/checkpoint/mod.rs and the     *)
(* comment on CheckpointManager::checkpoint): updates are recorded in the  *)
(* order in which they were accepted, none skipped and none twice, and an  *)
(* update is acknowledged to its caller only when it has been recorded.    *)
(***************************************************************************)
EXTENDS Naturals, Sequences

VARIABLES
  accepted,      \* the updates accepted so far, in order
  log,           \* those the service has recorded
  acknowledged   \* the set of updates whose callers have been released

logVars == <<accepted, log, acknowledged>>

IsPrefixOf(s, t) == Len(s) <= Len(t) /\ s = SubSeq(t, 1, Len(s))

Init ==
  /\ accepted = <<>>
  /\ log = <<>>
  /\ acknowledged = {}

Accept ==
  /\ Len(accepted') = Len(accepted) + 1
  /\ IsPrefixOf(accepted, accepted')
  /\ UNCHANGED <<log, acknowledged>>

Record ==
  /\ \E n \in Len(log) + 1 .. Len(accepted) : log' = SubSeq(accepted, 1, n)
  /\ UNCHANGED <<accepted, acknowledged>>

Acknowledge ==
  /\ acknowledged \subseteq acknowledged'
  /\ acknowledged' \subseteq {log[i] : i \in DOMAIN log}
  /\ UNCHANGED <<accepted, log>>

Next == Accept \/ Record \/ Acknowledge

Spec == Init /\ [][Next]_logVars
=============================================================================
