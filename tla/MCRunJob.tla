------------------------------ MODULE MCRunJob ------------------------------
(***************************************************************************)
(* Small instances of RunJob.                                              *)
(***************************************************************************)
EXTENDS RunJob

CONSTANT w
=============================================================================
