------------------------- MODULE MCTaskLoopEffects -------------------------
(***************************************************************************)
(* A small instance of TaskLoopEffects.                                    *)
(***************************************************************************)
EXTENDS TaskLoopEffects

CONSTANTS a1, c1, t1

NoMembers == [d \in {} |-> {}]

\* Nothing, an artifact that a worker round leaves and a first tool round with one
\* request does not, and that artifact together with one that is always there.
MCEvidence == {{}, {2}, {0, 2}}
=============================================================================
