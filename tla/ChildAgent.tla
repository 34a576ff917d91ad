----------------------------- MODULE ChildAgent -----------------------------
(***************************************************************************)
(* LangGraphDelegationAgent (adapters/agents/): the handler the repository *)
(* ships runs the agent graph in the child session, without delegation,    *)
(* and reports every step of it as progress.  This module composes         *)
(* AgentGraph with the manager's side of one delegation, whose policy      *)
(* grants MaxSteps, and is shown to implement Delegation.                  *)
(***************************************************************************)
EXTENDS AgentGraph, Sequences

CONSTANTS Caller, Child, None, Target

ASSUME ChildAssumption == Caller # Child /\ None \notin {Caller, Child, Target} /\ ~DelegationWired

VARIABLES
    phase,    \* of the delegation, as in Delegation
    child,    \* lifecycle of the child session
    emitted,  \* emitted_step of the adapter
    items,    \* the store's progress: the step each item reports
    outcome   \* of the result, "none" before

childVars == <<values, phase, child, emitted, items, outcome>>

\* new_agent_state of the child, with Budget(max_steps=policy.max_steps).
ChildInit ==
    /\ values = NewValues("clean", FreshBudget)
    /\ phase = "none"
    /\ child = "none"
    /\ emitted = 0
    /\ items = <<>>
    /\ outcome = "none"

\* The engine accepts the policy when it grants at least one step.
Accept ==
    /\ phase = "none"
    /\ MaxSteps >= 1
    /\ phase' = "started"
    /\ UNCHANGED <<values, child, emitted, items, outcome>>

OpenChild ==
    /\ phase = "started"
    /\ phase' = "running"
    /\ child' = "active"
    /\ UNCHANGED <<values, emitted, items, outcome>>

\* Mutant: every yield of the stream is reported.
SinkYields(step) ==
    IF Len(items) + 1 > MaxSteps
    THEN /\ phase' = "returned" /\ outcome' = "failed"
         /\ UNCHANGED <<emitted, items>>
    ELSE /\ emitted' = step /\ items' = Append(items, step)
         /\ UNCHANGED <<phase, outcome>>

\* One yield: a new step is reported; a report progress_sink refuses raises, and
\* the delegation fails.
Sink(step) ==
    IF step <= emitted
    THEN UNCHANGED <<phase, emitted, items, outcome>>
    ELSE IF Len(items) + 1 > MaxSteps
    THEN /\ phase' = "returned" /\ outcome' = "failed"
         /\ UNCHANGED <<emitted, items>>
    ELSE /\ emitted' = step /\ items' = Append(items, step)
         /\ UNCHANGED <<phase, outcome>>

\* One superstep of the child's graph, which may close the child's lifecycle.
Stream ==
    /\ phase = "running"
    /\ Superstep(values, values')
    /\ child' = IF values'.task = "closed" THEN values'.status ELSE child
    /\ Sink(values'.steps)

\* Mutant: the run is judged by its last action, not by its status.
StreamEndsByAction ==
    /\ phase = "running"
    /\ values.route = "end"
    /\ outcome' = IF values.action.verb = "final" THEN "success" ELSE "failed"
    /\ phase' = "returned"
    /\ UNCHANGED <<values, child, emitted, items>>

\* The stream is exhausted and the adapter returns its result.
StreamEnds ==
    /\ phase = "running"
    /\ values.route = "end"
    /\ outcome' = IF values.status = "completed" THEN "success" ELSE "failed"
    /\ phase' = "returned"
    /\ UNCHANGED <<values, child, emitted, items>>

\* Mutant: the child is not looked at.
SettleAgain ==
    /\ phase = "returned"
    /\ child' = IF outcome = "success" THEN "failed" ELSE "completed"
    /\ phase' = "closed"
    /\ UNCHANGED <<values, emitted, items, outcome>>

SettleChild ==
    /\ phase = "returned"
    /\ child' = IF child # "active" THEN child
                ELSE IF outcome = "success" THEN "completed" ELSE "failed"
    /\ phase' = "closed"
    /\ UNCHANGED <<values, emitted, items, outcome>>

FinishChild ==
    /\ phase = "closed"
    /\ phase' = "finished"
    /\ UNCHANGED <<values, child, emitted, items, outcome>>

ChildNext == Accept \/ OpenChild \/ Stream \/ StreamEnds \/ SettleChild \/ FinishChild

ChildSpec == ChildInit /\ [][ChildNext]_childVars

\* The manager and the adapter are one thread that keeps running.
ChildFairSpec == ChildSpec /\ WF_childVars(ChildNext)

-----------------------------------------------------------------------------
\* Properties.

\* Every step of the child is reported exactly once and in time, and nothing
\* else is, whatever mix of parse errors, unknown actions, tool calls and blocked
\* finishes the model produces: item i of the progress is step i.
StepsReported ==
    /\ phase \in {"running", "returned", "closed", "finished"} => Len(items) = values.steps
    /\ \A i \in 1..Len(items) : items[i] = i

\* The result, the child's session and the child's graph tell the same story.
OutcomeAgrees ==
    phase = "finished" =>
        /\ child = values.status
        /\ outcome = (IF child = "completed" THEN "success" ELSE "failed")

\* The adapter and the manager together do what the delegation port promises.
Manager == INSTANCE Delegation WITH
    Roots <- {Caller}, Delegations <- {Child}, Capabilities <- {}, Targets <- {Target},
    Resolvable <- {Target},
    Asked <- {[kind |-> "default", caps |-> {}, steps |-> MaxSteps, depth |-> 1]},
    Events <- 1..MaxSteps, Artifacts <- 1..MaxSteps, Returns <- SUBSET (1..MaxSteps),
    EngineSteps <- MaxSteps, EngineDepth <- 1,
    status <- [s \in {Caller, Child} |-> IF s = Caller THEN "active" ELSE child],
    scope <- [s \in {Caller, Child} |-> {}],
    depth <- [s \in {Caller, Child} |-> IF s = Caller \/ child = "none" THEN 0 ELSE 1],
    phase <- [d \in {Child} |-> phase],
    parent <- [d \in {Child} |-> IF phase = "none" THEN None ELSE Caller],
    request <- [d \in {Child} |->
        [target |-> IF phase = "none" THEN None ELSE Target, caps |-> {},
         steps |-> IF phase = "none" THEN 0 ELSE MaxSteps]],
    progress <- [d \in {Child} |->
        [i \in 1..Len(items) |-> [sequence |-> i, event |-> items[i], artifact |-> items[i]]]],
    notified <- [d \in {Child} |-> {items[i] : i \in 1..Len(items)}],
    result <- [d \in {Child} |->
        [outcome |-> outcome, reported |-> IF outcome = "none" THEN <<>> ELSE items,
         others |-> {}]]

\* Everything the adapter does is something the manager allows its handlers: the
\* child agent implements Delegation.
ImplementsDelegation == Manager!Spec

\* The child's own budgets end every delegation to it: no assumption on the
\* handler is needed.
ChildEnds == <>(phase = "finished")

-----------------------------------------------------------------------------
\* The inductive invariant of the proofs.

ChildTypeOK ==
    /\ phase \in {"none", "started", "running", "returned", "closed", "finished"}
    /\ child \in {"none", "active", "completed", "failed"}
    /\ emitted \in Nat
    /\ items \in Seq(Nat)
    /\ outcome \in {"none", "success", "failed"}

\* The store and the adapter have seen every step of the graph's state and no other.
ReportInv ==
    /\ emitted = Len(items) /\ Len(items) = values.steps
    /\ \A i \in 1..Len(items) : items[i] = i

\* The session follows the graph: it is active exactly while the graph runs, and the
\* result comes only when it does not, so that SettleChild finds nothing to close.
LifecycleInv ==
    /\ phase \in {"none", "started"} => child = "none" /\ values.status = "running"
    /\ phase \notin {"none", "started"} => child = IF values.status = "running" THEN "active" ELSE values.status
    /\ phase \in {"none", "started", "running"} => outcome = "none"
    /\ phase \in {"returned", "closed", "finished"} =>
           /\ values.status # "running"
           /\ outcome = IF values.status = "completed" THEN "success" ELSE "failed"

ChildInv == ChildTypeOK /\ GraphInv /\ ReportInv /\ LifecycleInv
=============================================================================
