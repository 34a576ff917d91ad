---------------------------- MODULE MCChildAgent ----------------------------
(***************************************************************************)
(* Small instances of ChildAgent.                                          *)
(***************************************************************************)
EXTENDS ChildAgent

CONSTANTS k1, k2, caller, one, none, target
=============================================================================
