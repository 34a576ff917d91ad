----------------------------- MODULE AgentGraph -----------------------------
(***************************************************************************)
(* The compiled agent graph (graph/, discipline/) without persistence: one *)
(* AgentState, changed by one node per superstep.  This is what a run is   *)
(* when nothing goes wrong, and what AgentRun shows the SQLite checkpoint  *)
(* to go through when processes crash and resume.                          *)
(*                                                                         *)
(* Data abstraction.  AgentState is kept to what a node or a caller        *)
(* decides on.  `route' names the next node, as the conditional edges of   *)
(* build_agent_graph do.  A tool call is its Budget.tool_key.  The two     *)
(* flags the finish gate reads (code_changed and not validation_passed)    *)
(* are one; nothing in the repository writes them after the run started.   *)
(* The LLM is the environment: every answer is possible.                   *)
(***************************************************************************)
EXTENDS Integers

CONSTANTS
    ToolKeys,         \* tool calls (name and arguments) the model may ask for
    DelegateForms,    \* forms of a delegate action the model may produce
    DelegationWired,  \* a delegation service is passed to the run
    MaxSteps,         \* Budget.max_steps
    MaxParseErrors,   \* Budget.max_parse_errors
    MaxSameToolCalls  \* Budget.max_same_tool_calls

\* What delegation_node tells apart: no target or a spec or policy that is not
\* an object; an empty objective; fields DelegationSpec.from_dict cannot
\* convert; a spec that reaches the delegation service.
AllDelegateForms == {"bad_shape", "no_objective", "bad_fields", "well_formed"}

ASSUME GraphAssumption ==
    /\ DelegateForms \subseteq AllDelegateForms
    /\ DelegationWired \in BOOLEAN
    /\ MaxSteps \in Nat /\ MaxParseErrors \in Nat /\ MaxSameToolCalls \in Nat

Tool(k) == [verb |-> "tool", arg |-> k]
Delegate(f) == [verb |-> "delegate", arg |-> f]
Final(r) == [verb |-> "final", arg |-> r]
Unknown == [verb |-> "other", arg |-> ""]

FinishReasons == {"done", "blocker", "error"}

\* What parse_action accepts.
Actions ==
    {Tool(k) : k \in ToolKeys} \cup {Delegate(f) : f \in DelegateForms}
        \cup {Final(r) : r \in FinishReasons} \cup {Unknown}

\* An answer parse_action raises JsonGateError for.
ParseError == [verb |-> "none", arg |-> ""]

Answers == Actions \cup {ParseError}

Routes == {"guard", "agent", "tool", "delegate", "finish", "fail", "end"}

Values ==
    [route  : Routes,
     action : Answers,                               \* last_action, none at first
     steps  : Nat,                                   \* budget.steps
     parse  : Nat,                                   \* budget.parse_errors
     calls  : [ToolKeys -> Nat],                     \* budget._tool_calls
     gate   : {"clean", "unvalidated"},              \* what check_finish reads
     task   : {"open", "closed"},                    \* current_task in session_state
     status : {"running", "completed", "failed"},
     hop    : Nat]                                   \* supersteps of the thread so far

\* The Budget a run starts with: a fresh one, or what a legacy JSON checkpoint of
\* a running loop has left of one.
Budgets ==
    [steps : 0..MaxSteps,
     parse : {p \in 0..MaxParseErrors : p = 0 \/ p < MaxParseErrors},
     calls : [ToolKeys -> 0..MaxSameToolCalls]]

FreshBudget == [steps |-> 0, parse |-> 0, calls |-> [k \in ToolKeys |-> 0]]

\* new_agent_state.
NewValues(gate, budget) ==
    [route |-> "guard", action |-> ParseError, steps |-> budget.steps,
     parse |-> budget.parse, calls |-> budget.calls, gate |-> gate, task |-> "open",
     status |-> "running", hop |-> 0]

Starts == {NewValues(g, b) : g \in {"clean", "unvalidated"}, b \in Budgets}

-----------------------------------------------------------------------------
\* The nodes, as functions of the state they restore.

Hop(v, route) == [v EXCEPT !.route = route, !.hop = v.hop + 1]

Closed(v, status) == [v EXCEPT !.route = "end", !.hop = v.hop + 1, !.task = "closed", !.status = status]

GuardNode(v) == Hop(v, IF v.steps >= MaxSteps THEN "fail" ELSE "agent")

\* Mutant: an unknown verb is used as the name of the next node.
RouteOfVerb(action) == IF action.verb = "final" THEN "finish" ELSE action.verb

RouteOf(action) ==
    CASE action.verb = "tool" -> "tool"
      [] action.verb = "delegate" -> "delegate"
      [] action.verb = "final" -> "finish"
      [] OTHER -> "guard"

RecordParseError(v) == [v EXCEPT !.parse = @ + 1]

RecordStep(v, action) == [v EXCEPT !.steps = v.steps + 1, !.action = action]

\* Mutant: only an action with a node of its own is counted as a step.
AgentNodeFreeRetry(v, answer) ==
    IF answer = ParseError
    THEN RecordParseError(Hop(v, IF v.parse + 1 >= MaxParseErrors THEN "fail" ELSE "guard"))
    ELSE IF answer = Unknown THEN Hop(v, "guard")
    ELSE RecordStep(Hop(v, RouteOf(answer)), answer)

\* A parse error costs no step; an action the graph does not know does.
AgentNode(v, answer) ==
    IF answer = ParseError
    THEN RecordParseError(Hop(v, IF v.parse + 1 >= MaxParseErrors THEN "fail" ELSE "guard"))
    ELSE RecordStep(Hop(v, RouteOf(answer)), answer)

SameToolExceeded(v) == v.calls[v.action.arg] + 1 > MaxSameToolCalls

CountCall(v) == [v EXCEPT !.calls = [v.calls EXCEPT ![v.action.arg] = @ + 1]]

ToolNode(v) == Hop(CountCall(v), IF SameToolExceeded(v) THEN "fail" ELSE "guard")

\* delegation_node reaches the delegation service.
Delegates(v) == DelegationWired /\ v.action.arg = "well_formed"

\* DelegationSpec.from_dict raises outside the try block.
DelegateRaises(v) == DelegationWired /\ v.action.arg = "bad_fields"

\* `served': delegate() returned a result.
DelegationNode(v, served) == Hop(v, IF Delegates(v) /\ served THEN "guard" ELSE "fail")

\* Mutant: the gate does not look at the session.
CheckFinishAlways(v) == TRUE

\* check_finish.
CheckFinish(v) == v.gate = "clean" \/ v.action.arg = "blocker"

FinishNode(v) ==
    IF v.action.arg = "error" THEN Closed(v, "failed")
    ELSE IF CheckFinish(v) THEN Closed(v, "completed")
    ELSE Hop(v, "guard")

FailNode(v) == Closed(v, "failed")

\* One superstep of the graph.
Superstep(v, w) ==
    \/ v.route = "guard" /\ w = GuardNode(v)
    \/ v.route = "agent" /\ \E answer \in Answers : w = AgentNode(v, answer)
    \/ v.route = "tool" /\ w = ToolNode(v)
    \/ /\ v.route = "delegate"
       /\ ~DelegateRaises(v)
       /\ \E served \in BOOLEAN : w = DelegationNode(v, served)
    \/ v.route = "finish" /\ w = FinishNode(v)
    \/ v.route = "fail" /\ w = FailNode(v)

-----------------------------------------------------------------------------
\* The run without persistence: run(checkpoint=False), run_agent, a child agent.

VARIABLE values

GraphInit == values \in Starts

GraphNext == Superstep(values, values')

GraphSpec == GraphInit /\ [][GraphNext]_values

-----------------------------------------------------------------------------
\* Properties.

Larger(m, n) == IF m >= n THEN m ELSE n

\* _config of orchestrator/loop.py, and the limit run_agent and the child agents
\* use, whose Budget has the default max_parse_errors.
RecursionLimit == Larger(100, 4 * MaxSteps + 3 * MaxParseErrors + 20)
CompatLimit == Larger(100, 4 * MaxSteps + 20)

\* The discipline budget ends a run before LangGraph would: with the superstep
\* that reads the input, no thread ever needs more supersteps than the
\* recursion_limit it was started with, so GraphRecursionError never replaces a
\* proper outcome.
WithinRecursionLimit ==
    /\ values.hop + 1 <= RecursionLimit
    /\ MaxParseErrors = 3 => values.hop + 1 <= CompatLimit

\* The finish gate: a run is recorded as completed only by a final action that
\* is not an error report, and with changed, unvalidated code only when that
\* action declares a blocker; and a terminal status always comes with a closed
\* task.
OutcomeOK(v) ==
    /\ v.status = "completed" =>
          /\ v.action.verb = "final" /\ v.action.arg # "error"
          /\ v.gate = "unvalidated" => v.action.arg = "blocker"
    /\ v.status # "running" <=> v.task = "closed"

\* Every state of the graph respects the finish gate (finish_node, fail_node).
OutcomeSound == OutcomeOK(values)

\* The parts of the inductive invariant: what the next node may rely on, and how
\* the number of supersteps is paid for by steps and parse errors.
Slack(route) ==
    CASE route = "agent" -> 1
      [] route = "fail" -> 1
      [] route = "end" -> 2
      [] route \in {"tool", "delegate", "finish"} -> -1
      [] OTHER -> 0

RouteOK(v) ==
    /\ v.route = "tool" => v.action.verb = "tool"
    /\ v.route = "delegate" => v.action.verb = "delegate"
    /\ v.route = "finish" => v.action.verb = "final"
    /\ v.route = "end" <=> v.status # "running"

BudgetOK(v) ==
    /\ v.steps <= MaxSteps
    /\ v.route = "agent" => v.steps < MaxSteps
    /\ v.parse <= Larger(1, MaxParseErrors)
    /\ v.route \notin {"fail", "end"} => v.parse = 0 \/ v.parse < MaxParseErrors
    /\ \A k \in ToolKeys : v.calls[k] <= MaxSameToolCalls + 1
    /\ v.route \notin {"fail", "end"} => \A k \in ToolKeys : v.calls[k] <= MaxSameToolCalls
    /\ v.hop <= 3 * v.steps + 2 * v.parse + Slack(v.route)

GraphOK(v) ==
    /\ v \in Values
    /\ RouteOK(v)
    /\ BudgetOK(v)
    /\ OutcomeOK(v)

\* The budgets of discipline/budget.py hold at every node: no step beyond
\* max_steps, no LLM call with an exhausted budget, no call counted more than
\* once beyond its limit, and at most three supersteps for a step and two for a
\* parse error; each node is reached with the action it reads.
GraphInv == GraphOK(values)
=============================================================================
