---------------------------- MODULE DurableLoop ----------------------------
(***************************************************************************)
(* What the task loop promises to whoever resumes it from its checkpoint   *)
(* (supervisor/checkpoint.py): a crash-free history in which a team is     *)
(* composed once, every saved turn is a first turn of a roster agent in    *)
(* the current round, the roster grows only when a round ends, rounds      *)
(* advance one at a time up to max_rounds, and the end is final.           *)
(***************************************************************************)
EXTENDS Naturals

CONSTANTS Agents, Catalog, MaxRounds

VARIABLES
    phase,   \* "new", "open" or the terminal status
    round,   \* round_no
    roster,  \* selected_agents
    turned   \* pairs (round, agent) with an AgentTurn

dvars == <<phase, round, roster, turned>>

Init ==
    /\ phase = "new"
    /\ round = 0
    /\ roster = {}
    /\ turned = {}

\* A plan names at least one agent; with a registry, agents of its catalog.
Compose(team) ==
    /\ phase = "new"
    /\ team # {}
    /\ Catalog # {} => team \subseteq Catalog
    /\ phase' = "open"
    /\ roster' = team
    /\ UNCHANGED <<round, turned>>

SaveTurn(a) ==
    /\ phase = "open"
    /\ round < MaxRounds
    /\ a \in roster
    /\ <<round, a>> \notin turned
    /\ turned' = turned \cup {<<round, a>>}
    /\ UNCHANGED <<phase, round, roster>>

EndRound(new) ==
    /\ phase = "open"
    /\ round < MaxRounds
    /\ new \subseteq Catalog
    /\ round' = round + 1
    /\ roster' = roster \cup new
    /\ UNCHANGED <<phase, turned>>

End(status) ==
    /\ phase = "open"
    /\ phase' = status
    /\ UNCHANGED <<round, roster, turned>>

Next ==
    \/ \E team \in SUBSET Agents : Compose(team)
    \/ \E a \in Agents : SaveTurn(a)
    \/ \E new \in SUBSET Agents : EndRound(new)
    \/ \E status \in {"finished", "blocked", "failed"} : End(status)

Spec == Init /\ [][Next]_dvars

=============================================================================
