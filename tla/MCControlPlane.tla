--------------------------- MODULE MCControlPlane ---------------------------
(***************************************************************************)
(* A small instance of ControlPlane.                                       *)
(***************************************************************************)
EXTENDS ControlPlane, TLC

CONSTANTS p1, p2, task

\* A sink that may raise stands before the bus.
MCSinks == <<"transport", "bus">>

\* Threads are alike.
Alike == Permutations(Threads)
=============================================================================
