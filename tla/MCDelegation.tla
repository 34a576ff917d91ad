---------------------------- MODULE MCDelegation ----------------------------
(***************************************************************************)
(* Small instances of Delegation.                                          *)
(***************************************************************************)
EXTENDS Delegation

CONSTANTS r1, d1, d2, none, c1, c2, here, gone, e1, e2, a1

Policy(kind, caps, steps, max) == [kind |-> kind, caps |-> caps, steps |-> steps, depth |-> max]

\* Accepted at depth 1 with two reports, accepted at depth 2 with c1 only, and
\* refused for its steps.
MixedAsked ==
    {Policy("default", {}, 2, 1), Policy("listed", {c1}, 1, 2), Policy("listed", {}, 0, 2)}

\* Every rule of the engine refuses one of these.
RuleAsked ==
    {Policy("default", {}, 1, 1), Policy("listed", {c1}, 1, 2), Policy("listed", {}, 1, 2),
     Policy("default", {}, 0, 1), Policy("default", {}, 2, 1), Policy("default", {}, 1, 3)}

\* What handlers return besides the artifacts they have reported.
MixedReturns == {{}, {a1}}
NoReturns == {{}}
=============================================================================
