----------------------------- MODULE MCTaskLoop -----------------------------
(***************************************************************************)
(* Small instances of TaskLoop.                                            *)
(***************************************************************************)
EXTENDS TaskLoop, TLC

CONSTANTS a1, a2, d1, k1, c1

\* d1 has a member that is usually composed and one that must be admitted.
MCMembers == d1 :> {a1, a2}
NoMembers == [d \in {} |-> {}]

\* Two adds of one agent under different keys (the derived one, O's own), and
\* a declared but unsupported command that reuses O's key.
MCCommands ==
    {[key |-> a2, kind |-> "AddAgentToLoop", agent |-> a2],
     [key |-> k1, kind |-> "AddAgentToLoop", agent |-> a2],
     [key |-> k1, kind |-> "skipped", agent |-> a1]}

NoEvidence == {{}}
=============================================================================
