------------------------------- MODULE MCChild -------------------------------
(* Small instances of ChildContext.                                        *)
EXTENDS ChildContext
=============================================================================
