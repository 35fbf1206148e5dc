----------------------------- MODULE MCSuspension -----------------------------
(* Small instances of Suspension.                                          *)
EXTENDS Suspension
=============================================================================
