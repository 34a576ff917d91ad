--------------------------- MODULE AgentRunProofs ---------------------------
(***************************************************************************)
(* Proofs about AgentGraph: GraphOK is preserved by every superstep, and   *)
(* with it the budgets, the finish gate and the recursion limit.  Then     *)
(* about AgentRun: RunInv is inductive, SQLite implements AgentGraph, and  *)
(* the properties of a run that is interrupted follow.                     *)
(***************************************************************************)
EXTENDS AgentRun, SequenceTheorems, TLAPS

-----------------------------------------------------------------------------
\* The graph.

\* The states runs start from satisfy the invariant.
LEMMA StartsOK == \A v \in Starts : GraphOK(v)
<1> SUFFICES ASSUME NEW g \in {"clean", "unvalidated"}, NEW b \in Budgets
             PROVE  GraphOK(NewValues(g, b))
    BY DEF Starts
<1> DEFINE v == NewValues(g, b)
<1>0. /\ v.route = "guard" /\ v.action = ParseError /\ v.steps = b.steps /\ v.parse = b.parse
      /\ v.calls = b.calls /\ v.gate = g /\ v.task = "open" /\ v.status = "running" /\ v.hop = 0
    BY DEF NewValues
<1>1. /\ b.steps \in 0..MaxSteps /\ b.parse \in 0..MaxParseErrors
      /\ b.parse = 0 \/ b.parse < MaxParseErrors
      /\ b.calls \in [ToolKeys -> 0..MaxSameToolCalls]
    BY DEF Budgets
<1>2. b.calls \in [ToolKeys -> Nat] /\ \A k \in ToolKeys : b.calls[k] <= MaxSameToolCalls
    BY <1>1, GraphAssumption DEF GraphAssumption
<1>3. v \in Values
    BY <1>1, <1>2, GraphAssumption DEF NewValues, Values, Routes, Answers, GraphAssumption
<1>4. RouteOK(v)
    BY <1>0 DEF RouteOK
<1>5. BudgetOK(v)
    BY <1>0, <1>1, <1>2, GraphAssumption DEF BudgetOK, Larger, Slack, GraphAssumption
<1>6. OutcomeOK(v)
    BY <1>0 DEF OutcomeOK
<1> QED BY <1>3, <1>4, <1>5, <1>6 DEF GraphOK

\* A transition to another node.
LEMMA HopFields ==
    ASSUME NEW v \in Values, NEW r \in Routes, NEW w, w = Hop(v, r)
    PROVE  /\ w \in Values
           /\ w.route = r /\ w.action = v.action /\ w.steps = v.steps
           /\ w.parse = v.parse /\ w.calls = v.calls /\ w.gate = v.gate
           /\ w.task = v.task /\ w.status = v.status /\ w.hop = v.hop + 1
<1>1. v.hop + 1 \in Nat
    BY DEF Values
<1>2. \A n \in Nat : [v EXCEPT !.route = r, !.hop = n] \in Values
    BY DEF Values
<1>3. w \in Values
    BY <1>1, <1>2 DEF Hop
<1>4. /\ w.route = r /\ w.action = v.action /\ w.steps = v.steps
      /\ w.parse = v.parse /\ w.calls = v.calls /\ w.gate = v.gate
      /\ w.task = v.task /\ w.status = v.status /\ w.hop = v.hop + 1
    BY DEF Hop, Values
<1> QED BY <1>3, <1>4

\* Closing the lifecycle.
LEMMA ClosedFields ==
    ASSUME NEW v \in Values, NEW st \in {"completed", "failed"}, NEW w, w = Closed(v, st)
    PROVE  /\ w \in Values
           /\ w.route = "end" /\ w.action = v.action /\ w.steps = v.steps
           /\ w.parse = v.parse /\ w.calls = v.calls /\ w.gate = v.gate
           /\ w.task = "closed" /\ w.status = st /\ w.hop = v.hop + 1
<1>1. v.hop + 1 \in Nat
    BY DEF Values
<1>2. \A n \in Nat : [v EXCEPT !.route = "end", !.hop = n, !.task = "closed", !.status = st] \in Values
    BY DEF Routes, Values
<1>3. w \in Values
    BY <1>1, <1>2 DEF Closed
<1>4. /\ w.route = "end" /\ w.action = v.action /\ w.steps = v.steps
      /\ w.parse = v.parse /\ w.calls = v.calls /\ w.gate = v.gate
      /\ w.task = "closed" /\ w.status = st /\ w.hop = v.hop + 1
    BY DEF Closed, Values
<1> QED BY <1>3, <1>4

\* Recording a parse error.
LEMMA ParseFields ==
    ASSUME NEW v \in Values, NEW w, w = RecordParseError(v)
    PROVE  /\ w \in Values
           /\ w.route = v.route /\ w.action = v.action /\ w.steps = v.steps
           /\ w.parse = v.parse + 1 /\ w.calls = v.calls /\ w.gate = v.gate
           /\ w.task = v.task /\ w.status = v.status /\ w.hop = v.hop
<1>1. v.parse + 1 \in Nat
    BY DEF Values
<1>2. \A n \in Nat : [v EXCEPT !.parse = n] \in Values
    BY DEF Values
<1>3. w \in Values
    BY <1>1, <1>2 DEF RecordParseError
<1>4. /\ w.route = v.route /\ w.action = v.action /\ w.steps = v.steps
      /\ w.parse = v.parse + 1 /\ w.calls = v.calls /\ w.gate = v.gate
      /\ w.task = v.task /\ w.status = v.status /\ w.hop = v.hop
    BY DEF RecordParseError, Values
<1> QED BY <1>3, <1>4

\* Recording a step and its action.
LEMMA StepFields ==
    ASSUME NEW v \in Values, NEW a \in Answers, NEW w, w = RecordStep(v, a)
    PROVE  /\ w \in Values
           /\ w.route = v.route /\ w.action = a /\ w.steps = v.steps + 1
           /\ w.parse = v.parse /\ w.calls = v.calls /\ w.gate = v.gate
           /\ w.task = v.task /\ w.status = v.status /\ w.hop = v.hop
<1>1. v.steps + 1 \in Nat
    BY DEF Values
<1>2. \A n \in Nat : [v EXCEPT !.steps = n, !.action = a] \in Values
    BY DEF Values
<1>3. w \in Values
    BY <1>1, <1>2 DEF RecordStep
<1>4. /\ w.route = v.route /\ w.action = a /\ w.steps = v.steps + 1
      /\ w.parse = v.parse /\ w.calls = v.calls /\ w.gate = v.gate
      /\ w.task = v.task /\ w.status = v.status /\ w.hop = v.hop
    BY DEF RecordStep, Values
<1> QED BY <1>3, <1>4

\* Counting a tool call.
LEMMA CallFields ==
    ASSUME NEW v \in Values, v.action.arg \in ToolKeys, NEW w, w = CountCall(v)
    PROVE  /\ w \in Values
           /\ w.route = v.route /\ w.action = v.action /\ w.steps = v.steps
           /\ w.parse = v.parse /\ w.calls = [v.calls EXCEPT ![v.action.arg] = @ + 1] /\ w.gate = v.gate
           /\ w.task = v.task /\ w.status = v.status /\ w.hop = v.hop
BY DEF CountCall, Values

-----------------------------------------------------------------------------
\* Every node preserves GraphOK.

\* guard_node.
LEMMA GuardOK ==
    ASSUME NEW v, GraphOK(v), v.route = "guard", NEW w, w = GuardNode(v)
    PROVE  GraphOK(w)
<1> DEFINE r == IF v.steps >= MaxSteps THEN "fail" ELSE "agent"
<1>1. v \in Values /\ RouteOK(v) /\ BudgetOK(v) /\ OutcomeOK(v)
    BY DEF GraphOK
<1>2. r \in Routes /\ w = Hop(v, r)
    BY DEF Routes, GuardNode
<1> HIDE DEF r
<1>3. /\ w \in Values /\ w.route = r /\ w.hop = v.hop + 1 /\ w.action = v.action
      /\ w.steps = v.steps /\ w.parse = v.parse /\ w.calls = v.calls
      /\ w.gate = v.gate /\ w.task = v.task /\ w.status = v.status
    BY <1>1, <1>2, HopFields
<1>4. RouteOK(w) /\ OutcomeOK(w)
    BY <1>1, <1>3 DEF RouteOK, OutcomeOK, r
<1>5. BudgetOK(w)
    BY <1>1, <1>3, GraphAssumption DEF BudgetOK, Slack, Values, Larger, GraphAssumption, r
<1> QED BY <1>3, <1>4, <1>5 DEF GraphOK

\* agent_node, an answer that does not parse.
LEMMA AgentParseOK ==
    ASSUME NEW v, GraphOK(v), v.route = "agent", NEW w, w = AgentNode(v, ParseError)
    PROVE  GraphOK(w)
<1> DEFINE r == IF v.parse + 1 >= MaxParseErrors THEN "fail" ELSE "guard"
           u == Hop(v, r)
<1>1. v \in Values /\ RouteOK(v) /\ BudgetOK(v) /\ OutcomeOK(v)
    BY DEF GraphOK
<1>2. r \in Routes /\ w = RecordParseError(u)
    BY DEF Routes, AgentNode
<1> HIDE DEF r
<1>3. /\ u \in Values /\ u.route = r /\ u.hop = v.hop + 1 /\ u.action = v.action
      /\ u.steps = v.steps /\ u.parse = v.parse /\ u.calls = v.calls
      /\ u.gate = v.gate /\ u.task = v.task /\ u.status = v.status
    BY <1>1, <1>2, HopFields
<1> HIDE DEF u
<1>4. /\ w \in Values /\ w.route = u.route /\ w.hop = u.hop /\ w.action = u.action
      /\ w.steps = u.steps /\ w.parse = u.parse + 1 /\ w.calls = u.calls
      /\ w.gate = u.gate /\ w.task = u.task /\ w.status = u.status
    BY <1>2, <1>3, ParseFields
<1>5. RouteOK(w) /\ OutcomeOK(w)
    BY <1>1, <1>3, <1>4 DEF RouteOK, OutcomeOK, r
<1>6. BudgetOK(w)
    BY <1>1, <1>3, <1>4, GraphAssumption DEF BudgetOK, Slack, Values, Larger, GraphAssumption, r
<1> QED BY <1>4, <1>5, <1>6 DEF GraphOK

\* agent_node, an action.
LEMMA AgentActionOK ==
    ASSUME NEW v, GraphOK(v), v.route = "agent", NEW a \in Answers, a # ParseError,
           NEW w, w = AgentNode(v, a)
    PROVE  GraphOK(w)
<1> DEFINE r == RouteOf(a)
           u == Hop(v, r)
<1>1. v \in Values /\ RouteOK(v) /\ BudgetOK(v) /\ OutcomeOK(v)
    BY DEF GraphOK
<1>2. /\ r \in {"tool", "delegate", "finish", "guard"}
      /\ r = "tool" => a.verb = "tool"
      /\ r = "delegate" => a.verb = "delegate"
      /\ r = "finish" => a.verb = "final"
    BY DEF RouteOf
<1>3. r \in Routes /\ w = RecordStep(u, a)
    BY <1>2 DEF Routes, AgentNode
<1> HIDE DEF r
<1>4. /\ u \in Values /\ u.route = r /\ u.hop = v.hop + 1 /\ u.action = v.action
      /\ u.steps = v.steps /\ u.parse = v.parse /\ u.calls = v.calls
      /\ u.gate = v.gate /\ u.task = v.task /\ u.status = v.status
    BY <1>1, <1>3, HopFields
<1> HIDE DEF u
<1>5. /\ w \in Values /\ w.route = u.route /\ w.hop = u.hop /\ w.action = a
      /\ w.steps = u.steps + 1 /\ w.parse = u.parse /\ w.calls = u.calls
      /\ w.gate = u.gate /\ w.task = u.task /\ w.status = u.status
    BY <1>3, <1>4, StepFields
<1>6. RouteOK(w) /\ OutcomeOK(w)
    BY <1>1, <1>2, <1>4, <1>5 DEF RouteOK, OutcomeOK
<1>7. BudgetOK(w)
    <2>1. /\ w.route = r /\ w.steps = v.steps + 1 /\ w.hop = v.hop + 1 /\ w.parse = v.parse
          /\ w.calls = v.calls
        BY <1>4, <1>5
    <2>2. /\ v.steps \in Nat /\ v.hop \in Nat /\ v.parse \in Nat
          /\ v.steps < MaxSteps /\ v.hop <= 3 * v.steps + 2 * v.parse + 1
        BY <1>1 DEF Values, BudgetOK, Slack
    <2>3. Slack(r) \in {0, -1}
        BY <1>2 DEF Slack
    <2>4. w.hop <= 3 * w.steps + 2 * w.parse + Slack(w.route)
        BY <2>1, <2>2, <2>3
    <2> QED BY <1>1, <1>2, <2>1, <2>2, <2>4, GraphAssumption DEF BudgetOK, GraphAssumption
<1> QED BY <1>5, <1>6, <1>7 DEF GraphOK

\* An action with verb "tool" names a tool call.
LEMMA ToolArg ==
    ASSUME NEW a \in Answers, a.verb = "tool"
    PROVE  a.arg \in ToolKeys
<1>1. CASE \E k \in ToolKeys : a = Tool(k)
    BY <1>1 DEF Tool
<1>2. CASE \E f \in DelegateForms : a = Delegate(f)
    BY <1>2 DEF Delegate
<1>3. CASE \E r \in FinishReasons : a = Final(r)
    BY <1>3 DEF Final
<1>4. CASE a = Unknown
    BY <1>4 DEF Unknown
<1>5. CASE a = ParseError
    BY <1>5 DEF ParseError
<1> QED BY <1>1, <1>2, <1>3, <1>4, <1>5 DEF Answers, Actions

\* tool_node.
LEMMA ToolOK ==
    ASSUME NEW v, GraphOK(v), v.route = "tool", NEW w, w = ToolNode(v)
    PROVE  GraphOK(w)
<1> DEFINE k0 == v.action.arg
           r == IF SameToolExceeded(v) THEN "fail" ELSE "guard"
           u == CountCall(v)
<1>1. v \in Values /\ RouteOK(v) /\ BudgetOK(v) /\ OutcomeOK(v)
    BY DEF GraphOK
<1>2. k0 \in ToolKeys
    BY <1>1, ToolArg DEF RouteOK, Values
<1>3. r \in Routes /\ w = Hop(u, r)
    BY DEF Routes, ToolNode
<1>4. /\ u \in Values /\ u.route = v.route /\ u.hop = v.hop /\ u.action = v.action
      /\ u.steps = v.steps /\ u.parse = v.parse /\ u.calls = [v.calls EXCEPT ![k0] = @ + 1]
      /\ u.gate = v.gate /\ u.task = v.task /\ u.status = v.status
    BY <1>1, <1>2, CallFields
<1>5. /\ v.calls \in [ToolKeys -> Nat]
      /\ \A k \in ToolKeys : u.calls[k] <= v.calls[k] + 1
      /\ \A k \in ToolKeys : k # k0 => u.calls[k] = v.calls[k]
      /\ u.calls[k0] = v.calls[k0] + 1
    BY <1>1, <1>2, <1>4 DEF Values
<1>6. r = "guard" => v.calls[k0] + 1 <= MaxSameToolCalls
    BY <1>2, <1>5, GraphAssumption DEF SameToolExceeded, GraphAssumption
<1>7. r \in {"fail", "guard"}
    OBVIOUS
<1> HIDE DEF r, u, k0
<1>8. /\ w \in Values /\ w.route = r /\ w.hop = u.hop + 1 /\ w.action = u.action
      /\ w.steps = u.steps /\ w.parse = u.parse /\ w.calls = u.calls
      /\ w.gate = u.gate /\ w.task = u.task /\ w.status = u.status
    BY <1>3, <1>4, HopFields
<1>9. RouteOK(w) /\ OutcomeOK(w)
    BY <1>1, <1>4, <1>7, <1>8 DEF RouteOK, OutcomeOK
<1>10. \A k \in ToolKeys : /\ w.calls[k] <= MaxSameToolCalls + 1
                            /\ r = "guard" => w.calls[k] <= MaxSameToolCalls
    <2> SUFFICES ASSUME NEW k \in ToolKeys
                 PROVE  /\ w.calls[k] <= MaxSameToolCalls + 1
                        /\ r = "guard" => w.calls[k] <= MaxSameToolCalls
        OBVIOUS
    <2>1. v.calls[k] \in Nat /\ v.calls[k] <= MaxSameToolCalls /\ w.calls[k] = u.calls[k]
        BY <1>1, <1>5, <1>8 DEF BudgetOK
    <2>2. CASE k = k0
        BY <2>1, <2>2, <1>5, <1>6, GraphAssumption DEF GraphAssumption
    <2>3. CASE k # k0
        BY <2>1, <2>3, <1>5, GraphAssumption DEF GraphAssumption
    <2> QED BY <2>2, <2>3
<1>11. BudgetOK(w)
    BY <1>1, <1>4, <1>7, <1>8, <1>10, GraphAssumption
       DEF BudgetOK, Slack, Values, Larger, GraphAssumption
<1> QED BY <1>8, <1>9, <1>11 DEF GraphOK

\* delegation_node.
LEMMA DelegateOK ==
    ASSUME NEW v, GraphOK(v), v.route = "delegate", NEW served \in BOOLEAN,
           NEW w, w = DelegationNode(v, served)
    PROVE  GraphOK(w)
<1> DEFINE r == IF Delegates(v) /\ served THEN "guard" ELSE "fail"
<1>1. v \in Values /\ RouteOK(v) /\ BudgetOK(v) /\ OutcomeOK(v)
    BY DEF GraphOK
<1>2. r \in {"guard", "fail"} /\ r \in Routes /\ w = Hop(v, r)
    BY DEF Routes, DelegationNode
<1> HIDE DEF r
<1>3. /\ w \in Values /\ w.route = r /\ w.hop = v.hop + 1 /\ w.action = v.action
      /\ w.steps = v.steps /\ w.parse = v.parse /\ w.calls = v.calls
      /\ w.gate = v.gate /\ w.task = v.task /\ w.status = v.status
    BY <1>1, <1>2, HopFields
<1>4. RouteOK(w) /\ OutcomeOK(w)
    BY <1>1, <1>2, <1>3 DEF RouteOK, OutcomeOK
<1>5. BudgetOK(w)
    BY <1>1, <1>2, <1>3, GraphAssumption DEF BudgetOK, Slack, Values, Larger, GraphAssumption
<1> QED BY <1>3, <1>4, <1>5 DEF GraphOK

\* Closing the lifecycle from finish_node or fail_node.
LEMMA ClosedOK ==
    ASSUME NEW v, GraphOK(v), v.route \in {"finish", "fail"},
           NEW st \in {"completed", "failed"},
           st = "completed" => /\ v.action.verb = "final" /\ v.action.arg # "error"
                               /\ v.gate = "unvalidated" => v.action.arg = "blocker",
           NEW w, w = Closed(v, st)
    PROVE  GraphOK(w)
<1>1. v \in Values /\ RouteOK(v) /\ BudgetOK(v) /\ OutcomeOK(v)
    BY DEF GraphOK
<1>2. /\ w \in Values /\ w.route = "end" /\ w.hop = v.hop + 1 /\ w.action = v.action
      /\ w.steps = v.steps /\ w.parse = v.parse /\ w.calls = v.calls
      /\ w.gate = v.gate /\ w.task = "closed" /\ w.status = st
    BY <1>1, ClosedFields
<1>3. RouteOK(w) /\ OutcomeOK(w)
    BY <1>1, <1>2 DEF RouteOK, OutcomeOK
<1>4. BudgetOK(w)
    BY <1>1, <1>2, GraphAssumption DEF BudgetOK, Slack, Values, Larger, GraphAssumption
<1> QED BY <1>2, <1>3, <1>4 DEF GraphOK

\* finish_node.
LEMMA FinishOK ==
    ASSUME NEW v, GraphOK(v), v.route = "finish", NEW w, w = FinishNode(v)
    PROVE  GraphOK(w)
<1>1. v \in Values /\ RouteOK(v) /\ BudgetOK(v) /\ OutcomeOK(v)
    BY DEF GraphOK
<1>2. CASE v.action.arg = "error"
    BY <1>2, ClosedOK DEF FinishNode
<1>3. CASE v.action.arg # "error" /\ CheckFinish(v)
    BY <1>1, <1>3, ClosedOK DEF FinishNode, CheckFinish, RouteOK
<1>4. CASE v.action.arg # "error" /\ ~CheckFinish(v)
    <2>1. "guard" \in Routes /\ w = Hop(v, "guard")
        BY <1>4 DEF Routes, FinishNode
    <2>2. /\ w \in Values /\ w.route = "guard" /\ w.hop = v.hop + 1 /\ w.action = v.action
          /\ w.steps = v.steps /\ w.parse = v.parse /\ w.calls = v.calls
          /\ w.gate = v.gate /\ w.task = v.task /\ w.status = v.status
        BY <1>1, <2>1, HopFields
    <2>3. RouteOK(w) /\ OutcomeOK(w)
        BY <1>1, <2>2 DEF RouteOK, OutcomeOK
    <2>4. BudgetOK(w)
        BY <1>1, <2>2, GraphAssumption DEF BudgetOK, Slack, Values, Larger, GraphAssumption
    <2> QED BY <2>2, <2>3, <2>4 DEF GraphOK
<1> QED BY <1>2, <1>3, <1>4

\* One superstep of the graph preserves the invariant.
LEMMA SuperstepOK ==
    ASSUME NEW v, NEW w, GraphOK(v), Superstep(v, w)
    PROVE  GraphOK(w)
<1>1. CASE v.route = "guard" /\ w = GuardNode(v)
    BY <1>1, GuardOK
<1>2. CASE v.route = "agent" /\ \E answer \in Answers : w = AgentNode(v, answer)
    BY <1>2, AgentParseOK, AgentActionOK
<1>3. CASE v.route = "tool" /\ w = ToolNode(v)
    BY <1>3, ToolOK
<1>4. CASE v.route = "delegate" /\ \E served \in BOOLEAN : w = DelegationNode(v, served)
    BY <1>4, DelegateOK
<1>5. CASE v.route = "finish" /\ w = FinishNode(v)
    BY <1>5, FinishOK
<1>6. CASE v.route = "fail" /\ w = FailNode(v)
    BY <1>6, ClosedOK DEF FailNode
<1> QED BY <1>1, <1>2, <1>3, <1>4, <1>5, <1>6 DEF Superstep

-----------------------------------------------------------------------------
\* The theorems about an uninterrupted run.

\* The budgets, the actions each node reads and the cost of a superstep hold at
\* every superstep of the graph, for every budget.
THEOREM GraphCorrect == GraphSpec => []GraphInv
<1>1. GraphInit => GraphInv
    BY StartsOK DEF GraphInit, GraphInv
<1>2. GraphInv /\ [GraphNext]_values => GraphInv'
    <2> SUFFICES ASSUME GraphInv, [GraphNext]_values PROVE GraphInv'
        OBVIOUS
    <2>1. CASE Superstep(values, values')
        BY <2>1, SuperstepOK DEF GraphInv
    <2>2. CASE values' = values
        BY <2>2 DEF GraphInv
    <2> QED BY <2>1, <2>2 DEF GraphNext
<1> QED BY <1>1, <1>2, PTL DEF GraphSpec

\* GraphOK keeps the supersteps below both recursion limits.
LEMMA LimitFollows ==
    ASSUME NEW v, GraphOK(v)
    PROVE  /\ v.hop + 1 <= RecursionLimit
           /\ MaxParseErrors = 3 => v.hop + 1 <= CompatLimit
<1>1. /\ v.hop \in Nat /\ v.steps \in Nat /\ v.parse \in Nat
      /\ v.steps <= MaxSteps /\ v.parse <= Larger(1, MaxParseErrors)
      /\ v.hop <= 3 * v.steps + 2 * v.parse + Slack(v.route)
    BY DEF GraphOK, BudgetOK, Values
<1>2. Slack(v.route) \in {-1, 0, 1, 2}
    BY DEF Slack
<1>3. v.parse <= MaxParseErrors + 1
    BY <1>1, GraphAssumption DEF Larger, GraphAssumption
<1>4. v.hop + 1 <= 3 * MaxSteps + 2 * MaxParseErrors + 5
    BY <1>1, <1>2, <1>3, GraphAssumption DEF GraphAssumption
<1> QED BY <1>1, <1>4, GraphAssumption DEF RecursionLimit, CompatLimit, Larger, GraphAssumption

\* No legal run is cut off by LangGraph's recursion limit, whatever the budgets.
THEOREM RecursionTheorem == GraphSpec => []WithinRecursionLimit
<1>1. GraphInv => WithinRecursionLimit
    BY LimitFollows DEF GraphInv, WithinRecursionLimit
<1> QED BY <1>1, GraphCorrect, PTL

\* The finish gate holds for every run of the graph.
THEOREM OutcomeTheorem == GraphSpec => []OutcomeSound
<1>1. GraphInv => OutcomeSound
    BY DEF GraphInv, GraphOK, OutcomeSound
<1> QED BY <1>1, GraphCorrect, PTL

-----------------------------------------------------------------------------
\* The run.

\* The budget a fresh run starts with is one of Budgets.
LEMMA FreshOK == \A g \in {"clean", "unvalidated"} : NewValues(g, FreshBudget) \in Starts
<1>1. FreshBudget \in Budgets
    BY GraphAssumption DEF FreshBudget, Budgets, GraphAssumption
<1> QED BY <1>1 DEF Starts

\* The product SameToolBounded and HistoryInv use.
LEMMA Product ==
    ASSUME NEW m \in Nat, NEW n \in Nat
    PROVE  m * n \in Nat /\ m * (n + 1) = m * n + m
OBVIOUS

\* What is charged to a state is within the limit.
LEMMA ChargedRange ==
    ASSUME NEW v, GraphOK(v), NEW k \in ToolKeys
    PROVE  Charged(v, k) \in Nat /\ Charged(v, k) <= MaxSameToolCalls
BY GraphAssumption DEF Charged, GraphOK, Values, GraphAssumption

\* The initial states satisfy the invariant.
LEMMA RunInitOK == Init => RunInv
<1> SUFFICES ASSUME Init PROVE RunInv
    OBVIOUS
<1>1. values \in Starts /\ db = values
    BY FreshOK DEF Init
<1>2. GraphOK(values) /\ GraphOK(db)
    BY <1>1, StartsOK
<1>3. values \in Values /\ values.task = "open" /\ values.status = "running"
    BY <1>1, <1>2 DEF GraphOK, Starts, NewValues
<1>4. proj \in Projection
    BY <1>3 DEF Init, Projection
<1>5. queue = <<>> /\ Len(queue) = 0 /\ queue \in Seq(Values)
    BY DEF Init
<1>6. TypeOK
    BY <1>1, <1>3, <1>4, <1>5 DEF Init, TypeOK
<1>7. ChainInv /\ PhaseInv
    BY <1>1, <1>3, <1>5 DEF Init, ChainInv, PhaseInv
<1>8. HistoryInv
    <2>1. ASSUME NEW k \in ToolKeys PROVE ran[k] <= MaxSameToolCalls * downs + Charged(values, k)
        <3>1. ran[k] = 0 /\ downs = 0
            BY DEF Init
        <3>2. MaxSameToolCalls * 0 = 0
            BY GraphAssumption DEF GraphAssumption
        <3> QED BY <3>1, <3>2, <1>2, ChargedRange
    <2> QED BY <2>1, <1>1, <1>3, <1>5 DEF Init, HistoryInv, Announced
<1> QED BY <1>2, <1>6, <1>7, <1>8 DEF RunInv

\* run, or resume of a legacy run.
LEMMA BeginOK == RunInv /\ Begin /\ pc = "idle" => RunInv'
<1> SUFFICES ASSUME RunInv, Begin, pc = "idle" PROVE RunInv'
    OBVIOUS
<1> USE DEF Begin, history
<1>1. TypeOK /\ GraphOK(values) /\ GraphOK(db) /\ ChainInv /\ PhaseInv /\ HistoryInv
    BY DEF RunInv
<1>2. values \in Values /\ queue = <<>> /\ values = db /\ file = "absent"
    BY <1>1 DEF TypeOK, PhaseInv, ChainInv
<1>3. /\ queue' \in Seq(Values) /\ Len(queue') = 1 /\ queue' # <<>> /\ queue'[1] = values
    BY <1>2
<1>4. TypeOK'
    BY <1>1, <1>3 DEF TypeOK
<1>5. ChainInv'
    BY <1>1, <1>2, <1>3 DEF ChainInv
<1>6. PhaseInv'
    BY <1>1, <1>2 DEF PhaseInv
<1>7. HistoryInv'
    BY <1>1, <1>2, <1>3 DEF HistoryInv, Announced, Charged
<1> QED BY <1>1, <1>4, <1>5, <1>6, <1>7 DEF RunInv

\* A superstep: its update continues the chain, and the session, the executions
\* and the events it leaves behind fit the new state.
LEMMA CommitOK ==
    ASSUME RunInv, NEW w, Superstep(values, w), pc = "drive", Commit(w),
           session' = w.task,
           ran' \in [ToolKeys -> Nat],
           \A k \in ToolKeys : ran'[k] <= MaxSameToolCalls * downs + Charged(w, k),
           ends' \in Nat, ends' >= ends,
           ends' <= downs + (IF w.status = "running" THEN 0 ELSE 1),
           w.status # "running" => ends' >= 1
    PROVE  RunInv'
<1> USE DEF Commit
<1>1. TypeOK /\ GraphOK(values) /\ GraphOK(db) /\ ChainInv /\ PhaseInv /\ HistoryInv
    BY DEF RunInv
<1>2. GraphOK(w) /\ w \in Values
    BY <1>1, SuperstepOK DEF GraphOK
<1>3. queue \in Seq(Values) /\ Len(queue) \in Nat /\ file \in {"empty", "rows"}
    BY <1>1 DEF TypeOK, PhaseInv
<1>4. /\ queue' \in Seq(Values) /\ Len(queue') = Len(queue) + 1
      /\ queue' # <<>> /\ queue'[Len(queue) + 1] = w
      /\ \A i \in 1..Len(queue) : queue'[i] = queue[i]
    BY <1>2, <1>3
<1>5. TypeOK'
    BY <1>1, <1>2, <1>4 DEF TypeOK, GraphOK, Values
<1>6. ChainInv'
    <2>1. ASSUME NEW i \in 1..Len(queue') PROVE GraphOK(queue'[i])
        <3>1. CASE i = Len(queue) + 1
            BY <3>1, <1>2, <1>4
        <3>2. CASE i \in 1..Len(queue)
            BY <3>2, <1>1, <1>4 DEF ChainInv
        <3> QED BY <3>1, <3>2, <1>3, <1>4
    <2>2. ASSUME NEW i \in 1..Len(queue') - 1 PROVE Superstep(queue'[i], queue'[i + 1])
        <3>1. i \in 1..Len(queue) /\ queue'[i] = queue[i]
            BY <1>3, <1>4
        <3>2. CASE i = Len(queue)
            <4>1. queue # <<>> /\ values = queue[i] /\ queue'[i + 1] = w
                BY <3>1, <3>2, <1>1, <1>3, <1>4 DEF ChainInv
            <4> QED BY <3>1, <4>1
        <3>3. CASE i # Len(queue)
            <4>1. i \in 1..Len(queue) - 1 /\ i + 1 \in 1..Len(queue)
                BY <3>1, <3>3, <1>3
            <4> QED BY <3>1, <4>1, <1>1, <1>4 DEF ChainInv
        <3> QED BY <3>2, <3>3
    <2>3. /\ values' = queue'[Len(queue')]
          /\ file' = file /\ file # "absent" /\ db' = db
        BY <1>3, <1>4
    <2>4. CASE queue = <<>>
        <3>1. queue'[1] = w /\ values = db /\ file = "rows"
            BY <2>4, <1>1, <1>4, <1>3 DEF ChainInv, PhaseInv
        <3> QED BY <2>1, <2>2, <2>3, <3>1, <1>4 DEF ChainInv
    <2>5. CASE queue # <<>>
        <3>1. queue'[1] = queue[1]
            BY <2>5, <1>3, <1>4
        <3> QED BY <2>1, <2>2, <2>3, <2>5, <3>1, <1>1, <1>4 DEF ChainInv
    <2> QED BY <2>4, <2>5
<1>7. PhaseInv'
    BY <1>1, <1>3 DEF PhaseInv
<1>8. HistoryInv'
    <2>1. ASSUME NEW i \in 1..Len(queue') PROVE Announced(queue'[i], ends')
        <3>1. CASE i = Len(queue) + 1
            BY <3>1, <1>4 DEF Announced
        <3>2. CASE i \in 1..Len(queue)
            BY <3>2, <1>1, <1>4 DEF HistoryInv, Announced, TypeOK
        <3> QED BY <3>1, <3>2, <1>3, <1>4
    <2>2. Announced(w, ends') /\ Announced(db, ends')
        BY <1>1 DEF HistoryInv, Announced, TypeOK
    <2>3. \A k \in ToolKeys : ran'[k] <= MaxSameToolCalls * downs' + Charged(values', k)
        OBVIOUS
    <2> QED BY <2>1, <2>2, <2>3 DEF HistoryInv
<1> QED BY <1>1, <1>2, <1>5, <1>6, <1>7, <1>8 DEF RunInv

\* A node that neither calls a tool nor closes the lifecycle.
LEMMA QuietOK ==
    ASSUME RunInv, NEW w, Superstep(values, w), pc = "drive", Commit(w),
           w.calls = values.calls, w.task = values.task, w.status = values.status,
           UNCHANGED <<session, ran, ends>>
    PROVE  RunInv'
<1>1. TypeOK /\ PhaseInv /\ HistoryInv
    BY DEF RunInv
<1>2. session' = w.task /\ ran' \in [ToolKeys -> Nat] /\ ends' \in Nat /\ ends' >= ends
    BY <1>1 DEF TypeOK, PhaseInv
<1>3. \A k \in ToolKeys : ran'[k] <= MaxSameToolCalls * downs + Charged(w, k)
    BY <1>1 DEF HistoryInv, Charged
<1>4. /\ ends' <= downs + (IF w.status = "running" THEN 0 ELSE 1)
      /\ w.status # "running" => ends' >= 1
    BY <1>1 DEF HistoryInv, Announced
<1> QED BY <1>2, <1>3, <1>4, CommitOK

\* The fields a transition leaves alone.
LEMMA HopQuiet ==
    ASSUME NEW v \in Values, NEW r \in Routes
    PROVE  /\ Hop(v, r).calls = v.calls /\ Hop(v, r).task = v.task
           /\ Hop(v, r).status = v.status
BY DEF Hop, Values

\* guard_node.
LEMMA GuardStepOK == RunInv /\ Guard => RunInv'
<1> SUFFICES ASSUME RunInv, Guard PROVE RunInv'
    OBVIOUS
<1>1. pc = "drive" /\ Commit(GuardNode(values)) /\ UNCHANGED <<session, ran, ends>>
    BY DEF Guard, Ready
<1>2. Superstep(values, GuardNode(values))
    BY DEF Guard, Ready, Superstep
<1>3. values \in Values
    BY DEF RunInv, TypeOK
<1>4. /\ GuardNode(values).calls = values.calls /\ GuardNode(values).task = values.task
      /\ GuardNode(values).status = values.status
    BY <1>3, HopQuiet DEF GuardNode, Routes
<1> QED BY <1>1, <1>2, <1>4, QuietOK

\* agent_node.
LEMMA AgentStepOK == \A answer \in Answers : RunInv /\ Agent(answer) => RunInv'
<1> SUFFICES ASSUME NEW answer \in Answers, RunInv, Agent(answer) PROVE RunInv'
    OBVIOUS
<1> DEFINE w == AgentNode(values, answer)
<1>1. pc = "drive" /\ Commit(w) /\ UNCHANGED <<session, ran, ends>>
    BY DEF Agent, Ready
<1>2. Superstep(values, w)
    BY DEF Agent, Ready, Superstep
<1>3. values \in Values
    BY DEF RunInv, TypeOK
<1>4. w.calls = values.calls /\ w.task = values.task /\ w.status = values.status
    <2>1. CASE answer = ParseError
        <3> DEFINE r == IF values.parse + 1 >= MaxParseErrors THEN "fail" ELSE "guard"
                   u == Hop(values, r)
        <3>1. r \in Routes /\ w = RecordParseError(u)
            BY <2>1 DEF Routes, AgentNode
        <3> HIDE DEF r
        <3>2. u \in Values /\ u.calls = values.calls /\ u.task = values.task /\ u.status = values.status
            BY <1>3, <3>1, HopFields
        <3> HIDE DEF u, w
        <3> QED BY <3>1, <3>2, ParseFields
    <2>2. CASE answer # ParseError
        <3> DEFINE r == RouteOf(answer)
                   u == Hop(values, r)
        <3>1. r \in Routes /\ w = RecordStep(u, answer)
            BY <2>2 DEF Routes, AgentNode, RouteOf
        <3> HIDE DEF r
        <3>2. u \in Values /\ u.calls = values.calls /\ u.task = values.task /\ u.status = values.status
            BY <1>3, <3>1, HopFields
        <3> HIDE DEF u, w
        <3> QED BY <3>1, <3>2, StepFields
    <2> QED BY <2>1, <2>2
<1> HIDE DEF w
<1> QED BY <1>1, <1>2, <1>4, QuietOK

\* delegation_node, when it does not raise.
LEMMA DelegateStepOK == \A served \in BOOLEAN : RunInv /\ RunDelegation(served) => RunInv'
<1> SUFFICES ASSUME NEW served \in BOOLEAN, RunInv, RunDelegation(served) PROVE RunInv'
    OBVIOUS
<1> DEFINE w == DelegationNode(values, served)
<1>1. pc = "drive" /\ Commit(w) /\ UNCHANGED <<session, ran, ends>>
    BY DEF RunDelegation, Ready
<1>2. Superstep(values, w)
    BY DEF RunDelegation, Ready, Superstep
<1>3. values \in Values
    BY DEF RunInv, TypeOK
<1>4. w.calls = values.calls /\ w.task = values.task /\ w.status = values.status
    BY <1>3, HopQuiet DEF DelegationNode, Routes
<1> HIDE DEF w
<1> QED BY <1>1, <1>2, <1>4, QuietOK

\* tool_node: an execution is charged to the call it counts.
LEMMA ToolStepOK == RunInv /\ CallTool => RunInv'
<1> SUFFICES ASSUME RunInv, CallTool PROVE RunInv'
    OBVIOUS
<1> DEFINE w == ToolNode(values)
           k0 == values.action.arg
           r == IF SameToolExceeded(values) THEN "fail" ELSE "guard"
           u == CountCall(values)
<1>1. pc = "drive" /\ Commit(w) /\ UNCHANGED <<session, ends>> /\ values.route = "tool"
    BY DEF CallTool, Ready
<1>2. Superstep(values, w)
    BY <1>1 DEF Superstep
<1>3. TypeOK /\ GraphOK(values) /\ PhaseInv /\ HistoryInv
    BY DEF RunInv
<1>4. values \in Values /\ k0 \in ToolKeys
    BY <1>1, <1>3, ToolArg DEF GraphOK, RouteOK, Values
<1>5. r \in Routes /\ w = Hop(u, r)
    BY DEF Routes, ToolNode
<1>6. /\ u \in Values /\ u.calls = [values.calls EXCEPT ![k0] = @ + 1]
      /\ u.task = values.task /\ u.status = values.status
    BY <1>4, CallFields
<1> HIDE DEF r, u
<1>7. w.calls = u.calls /\ w.task = u.task /\ w.status = u.status
    BY <1>5, <1>6, HopQuiet
<1> HIDE DEF w
<1>8. session' = w.task /\ ends' \in Nat /\ ends' >= ends
    BY <1>1, <1>3, <1>6, <1>7 DEF TypeOK, PhaseInv
<1>9. /\ ends' <= downs + (IF w.status = "running" THEN 0 ELSE 1)
      /\ w.status # "running" => ends' >= 1
    BY <1>1, <1>3, <1>6, <1>7 DEF HistoryInv, Announced
<1>10. /\ ran \in [ToolKeys -> Nat] /\ values.calls \in [ToolKeys -> Nat] /\ downs \in Nat
       /\ MaxSameToolCalls \in Nat
    BY <1>3, <1>4, GraphAssumption DEF TypeOK, Values, GraphAssumption
<1> DEFINE m == MaxSameToolCalls * downs
<1>11. m \in Nat
    BY <1>10, Product
<1>12. \A k \in ToolKeys : ran[k] <= m + Charged(values, k)
    BY <1>3 DEF HistoryInv
<1> HIDE DEF m
<1>13. CASE SameToolExceeded(values)
    <2>1. ran' = ran
        BY <1>13 DEF CallTool
    <2>2. ASSUME NEW k \in ToolKeys PROVE ran'[k] <= m + Charged(w, k)
        <3>1. w.calls[k] = IF k = k0 THEN values.calls[k] + 1 ELSE values.calls[k]
            BY <1>4, <1>6, <1>7, <1>10
        <3>2. values.calls[k] \in Nat /\ ran[k] \in Nat
            BY <1>10
        <3>3. Charged(values, k) <= Charged(w, k) /\ Charged(w, k) \in Nat /\ Charged(values, k) \in Nat
            BY <3>1, <3>2, <1>10 DEF Charged
        <3> QED BY <2>1, <3>2, <3>3, <1>11, <1>12
    <2> QED BY <2>1, <2>2, <1>1, <1>2, <1>8, <1>9, <1>10, CommitOK DEF m
<1>14. CASE ~SameToolExceeded(values)
    <2>1. ran' = [ran EXCEPT ![k0] = @ + 1]
        BY <1>14 DEF CallTool
    <2>2. ran' \in [ToolKeys -> Nat]
        BY <2>1, <1>4, <1>10
    <2>3. values.calls[k0] + 1 <= MaxSameToolCalls
        BY <1>14, <1>4, <1>10 DEF SameToolExceeded
    <2>4. ASSUME NEW k \in ToolKeys PROVE ran'[k] <= m + Charged(w, k)
        <3>1. values.calls[k] \in Nat /\ ran[k] \in Nat
            BY <1>10
        <3>2. CASE k = k0
            <4>1. w.calls[k] = values.calls[k] + 1 /\ ran'[k] = ran[k] + 1
                BY <3>2, <2>1, <1>4, <1>6, <1>7, <1>10
            <4>2. Charged(w, k) = Charged(values, k) + 1 /\ Charged(values, k) \in Nat
                BY <4>1, <3>1, <3>2, <2>3, <1>10 DEF Charged
            <4> QED BY <4>1, <4>2, <3>1, <1>11, <1>12
        <3>3. CASE k # k0
            <4>1. w.calls[k] = values.calls[k] /\ ran'[k] = ran[k]
                BY <3>3, <2>1, <1>4, <1>6, <1>7, <1>10
            <4>2. Charged(w, k) = Charged(values, k)
                BY <4>1 DEF Charged
            <4> QED BY <4>1, <4>2, <1>12
        <3> QED BY <3>2, <3>3
    <2> QED BY <2>2, <2>4, <1>1, <1>2, <1>8, <1>9, CommitOK DEF m
<1> QED BY <1>13, <1>14

\* Closing the lifecycle: the session and the event go with the new state.
LEMMA CloseOK ==
    ASSUME RunInv, NEW st \in {"completed", "failed"}, values.status = "running",
           Superstep(values, Closed(values, st)), pc = "drive", Commit(Closed(values, st)),
           CloseIf(TRUE), UNCHANGED ran
    PROVE  RunInv'
<1> DEFINE w == Closed(values, st)
<1>1. TypeOK /\ PhaseInv /\ HistoryInv
    BY DEF RunInv
<1>2. w.calls = values.calls /\ w.task = "closed" /\ w.status = st
    BY <1>1, ClosedFields DEF TypeOK
<1> HIDE DEF w
<1>3. session' = w.task /\ ends' = ends + 1
    BY <1>2 DEF CloseIf
<1>4. ends \in Nat /\ downs \in Nat /\ ends <= downs
    BY <1>1 DEF TypeOK, HistoryInv
<1>5. /\ ends' \in Nat /\ ends' >= ends
      /\ ends' <= downs + (IF w.status = "running" THEN 0 ELSE 1)
      /\ w.status # "running" => ends' >= 1
    BY <1>2, <1>3, <1>4
<1>6. ran' \in [ToolKeys -> Nat] /\ \A k \in ToolKeys : ran'[k] <= MaxSameToolCalls * downs + Charged(w, k)
    BY <1>1, <1>2 DEF TypeOK, HistoryInv, Charged
<1>7. Superstep(values, w) /\ Commit(w)
    BY DEF w
<1> QED BY <1>3, <1>5, <1>6, <1>7, CommitOK

\* finish_node.
LEMMA FinishStepOK == RunInv /\ Finish => RunInv'
<1> SUFFICES ASSUME RunInv, Finish PROVE RunInv'
    OBVIOUS
<1> DEFINE w == FinishNode(values)
<1>1. pc = "drive" /\ Commit(w) /\ UNCHANGED ran /\ values.route = "finish" /\ CloseIf(w.route = "end")
    BY DEF Finish, Ready
<1>2. Superstep(values, w)
    BY <1>1 DEF Superstep
<1>3. TypeOK /\ GraphOK(values)
    BY DEF RunInv
<1>4. values \in Values /\ values.status = "running"
    BY <1>1, <1>3 DEF TypeOK, GraphOK, RouteOK
<1>5. CASE \E st \in {"completed", "failed"} : w = Closed(values, st)
    <2> PICK st \in {"completed", "failed"} : w = Closed(values, st)
        BY <1>5
    <2>1. w.route = "end"
        BY <1>4, ClosedFields
    <2>2. CloseIf(TRUE)
        BY <1>1, <2>1 DEF CloseIf
    <2> HIDE DEF w
    <2> QED BY <2>2, <1>1, <1>2, <1>4, CloseOK
<1>6. CASE w = Hop(values, "guard")
    <2>1. /\ w.calls = values.calls /\ w.task = values.task /\ w.status = values.status
          /\ w.route = "guard"
        BY <1>4, <1>6, HopFields DEF Routes
    <2>2. UNCHANGED <<session, ran, ends>>
        BY <1>1, <2>1 DEF CloseIf
    <2> HIDE DEF w
    <2> QED BY <2>1, <2>2, <1>1, <1>2, QuietOK
<1> QED BY <1>5, <1>6 DEF FinishNode

\* fail_node.
LEMMA FailStepOK == RunInv /\ Fail => RunInv'
<1> SUFFICES ASSUME RunInv, Fail PROVE RunInv'
    OBVIOUS
<1>1. /\ pc = "drive" /\ Commit(Closed(values, "failed")) /\ UNCHANGED ran
      /\ values.route = "fail" /\ CloseIf(TRUE)
    BY DEF Fail, Ready, FailNode
<1>2. Superstep(values, Closed(values, "failed"))
    BY <1>1 DEF Superstep, FailNode
<1>3. values.status = "running"
    BY <1>1 DEF RunInv, TypeOK, GraphOK, RouteOK
<1> QED BY <1>1, <1>2, <1>3, CloseOK

\* What the background writer saves is the first state itself or the next
\* superstep.
LEMMA PersistStep ==
    ASSUME RunInv, Persist
    PROVE  /\ GraphOK(db')
           /\ IF file = "rows" THEN Superstep(db, db') ELSE db' = db
<1>1. TypeOK /\ ChainInv /\ PhaseInv
    BY DEF RunInv
<1>2. queue \in Seq(Values) /\ queue # <<>> /\ db' = queue[1] /\ 1 \in 1..Len(queue)
    BY <1>1 DEF TypeOK, Persist
<1> QED BY <1>1, <1>2 DEF ChainInv, PhaseInv, TypeOK

\* The background writer.
LEMMA PersistOK == RunInv /\ Persist => RunInv'
<1> SUFFICES ASSUME RunInv, Persist PROVE RunInv'
    OBVIOUS
<1> USE DEF Persist, history
<1>1. TypeOK /\ GraphOK(values) /\ GraphOK(db) /\ ChainInv /\ PhaseInv /\ HistoryInv
    BY DEF RunInv
<1>2. /\ queue \in Seq(Values) /\ queue # <<>> /\ db' = queue[1]
      /\ Len(queue) \in Nat /\ Len(queue) >= 1
    BY <1>1 DEF TypeOK
<1>3. /\ queue' \in Seq(Values) /\ Len(queue') = Len(queue) - 1
      /\ \A i \in 1..Len(queue') : queue'[i] = queue[i + 1]
      /\ queue' # <<>> <=> Len(queue) >= 2
    <2>1. queue' = Tail(queue)
        OBVIOUS
    <2>2. queue' \in Seq(Values) /\ Len(queue') = Len(queue) - 1
        BY <1>2, <2>1, HeadTailProperties
    <2>3. \A i \in 1..Len(queue') : queue'[i] = queue[i + 1]
        BY <1>2, <2>1, HeadTailProperties
    <2>4. queue' # <<>> <=> Len(queue) >= 2
        BY <1>2, <2>2, EmptySeq
    <2> QED BY <2>2, <2>3, <2>4
<1>4. GraphOK(db') /\ db' \in Values
    BY PersistStep DEF GraphOK
<1>5. TypeOK'
    BY <1>1, <1>3, <1>4 DEF TypeOK
<1>6. ChainInv'
    <2>1. ASSUME NEW i \in 1..Len(queue') PROVE GraphOK(queue'[i])
        BY <1>1, <1>2, <1>3 DEF ChainInv
    <2>2. ASSUME NEW i \in 1..Len(queue') - 1 PROVE Superstep(queue'[i], queue'[i + 1])
        <3>1. i \in 1..Len(queue') /\ i + 1 \in 1..Len(queue') /\ i + 1 \in 1..Len(queue) - 1
            BY <1>2, <1>3
        <3>2. queue'[i] = queue[i + 1] /\ queue'[i + 1] = queue[(i + 1) + 1]
            BY <3>1, <1>3
        <3> QED BY <3>1, <3>2, <1>1 DEF ChainInv
    <2>3. CASE Len(queue) = 1
        <3>1. queue' = <<>> /\ values' = db'
            BY <2>3, <1>1, <1>2, <1>3 DEF ChainInv
        <3> QED BY <3>1, <2>1, <2>2 DEF ChainInv
    <2>4. CASE Len(queue) >= 2
        <3>1. queue' # <<>> /\ file' = "rows"
            BY <2>4, <1>3
        <3>2. values' = queue'[Len(queue')]
            BY <2>4, <1>1, <1>2, <1>3 DEF ChainInv
        <3>3. Superstep(db', queue'[1])
            <4>1. 1 \in 1..Len(queue) - 1 /\ 1 \in 1..Len(queue') /\ queue'[1] = queue[1 + 1]
                BY <2>4, <1>2, <1>3
            <4> QED BY <4>1, <1>1, <1>2 DEF ChainInv
        <3> QED BY <3>1, <3>2, <3>3, <2>1, <2>2 DEF ChainInv
    <2>5. \A n \in Nat : n >= 1 => n = 1 \/ n >= 2
        OBVIOUS
    <2>6. Len(queue) = 1 \/ Len(queue) >= 2
        BY <1>2, <2>5
    <2> QED BY <2>3, <2>4, <2>6
<1>7. PhaseInv'
    BY <1>1 DEF PhaseInv
<1>8. HistoryInv'
    <2>1. ASSUME NEW i \in 1..Len(queue') PROVE Announced(queue'[i], ends)
        BY <1>1, <1>2, <1>3 DEF HistoryInv
    <2>2. Announced(db', ends)
        BY <1>1, <1>2 DEF HistoryInv
    <2> QED BY <2>1, <2>2, <1>1 DEF HistoryInv
<1> QED BY <1>1, <1>4, <1>5, <1>6, <1>7, <1>8 DEF RunInv

\* save_graph_projection.
LEMMA ProjectOK == RunInv /\ Project => RunInv'
<1> SUFFICES ASSUME RunInv, Project PROVE RunInv'
    OBVIOUS
<1> USE DEF Project, files, history
<1>1. TypeOK /\ GraphOK(values) /\ GraphOK(db) /\ ChainInv /\ PhaseInv /\ HistoryInv
    BY DEF RunInv
<1>2. TypeOK'
    BY <1>1 DEF TypeOK, Projection, Projected
<1>3. ChainInv' /\ PhaseInv' /\ HistoryInv'
    BY <1>1 DEF ChainInv, PhaseInv, HistoryInv
<1> QED BY <1>1, <1>2, <1>3 DEF RunInv

\* A crash or an exception: what was executed or announced is charged to it,
\* unless nothing was waiting for the writer.
LEMMA GoDownOK ==
    ASSUME RunInv, GoDown, pc # "idle", proj' \in Projection,
           \/ downs' = downs + 1
           \/ downs' = downs /\ queue = <<>>
    PROVE  RunInv'
<1> USE DEF GoDown
<1>1. TypeOK /\ GraphOK(values) /\ GraphOK(db) /\ ChainInv /\ PhaseInv /\ HistoryInv
    BY DEF RunInv
<1>2. queue' = <<>> /\ Len(queue') = 0 /\ queue' \in Seq(Values)
    OBVIOUS
<1>3. db \in Values /\ db.task \in {"open", "closed"} /\ downs \in Nat /\ downs' \in Nat /\ ends \in Nat
    BY <1>1 DEF TypeOK, Values
<1>4. TypeOK'
    BY <1>1, <1>2, <1>3 DEF TypeOK
<1>5. ChainInv' /\ PhaseInv'
    BY <1>1, <1>2 DEF ChainInv, PhaseInv
<1>6. HistoryInv'
    <2>1. CASE downs' = downs + 1
        <3>1. ASSUME NEW k \in ToolKeys
              PROVE  ran[k] <= MaxSameToolCalls * downs' + Charged(db, k)
            <4> DEFINE m == MaxSameToolCalls * downs
            <4>1. m \in Nat /\ MaxSameToolCalls * downs' = m + MaxSameToolCalls
                BY <2>1, <1>3, GraphAssumption, Product DEF GraphAssumption
            <4>2. ran[k] <= m + Charged(values, k) /\ ran[k] \in Nat
                BY <1>1 DEF HistoryInv, TypeOK
            <4>3. /\ Charged(values, k) \in Nat /\ Charged(values, k) <= MaxSameToolCalls
                  /\ Charged(db, k) \in Nat
                BY <1>1, ChargedRange
            <4> HIDE DEF m
            <4> QED BY <4>1, <4>2, <4>3, GraphAssumption DEF GraphAssumption
        <3>2. ends <= downs' + (IF db.status = "running" THEN 0 ELSE 1)
            BY <2>1, <1>1, <1>3 DEF HistoryInv
        <3> QED BY <3>1, <3>2, <1>1, <1>2 DEF HistoryInv
    <2>2. CASE downs' = downs /\ queue = <<>>
        <3>1. values = db
            BY <2>2, <1>1 DEF ChainInv
        <3> QED BY <3>1, <2>2, <1>1, <1>2 DEF HistoryInv
    <2> QED BY <2>1, <2>2
<1> QED BY <1>1, <1>4, <1>5, <1>6 DEF RunInv

\* The ways an invocation is interrupted.
LEMMA InterruptOK == RunInv /\ (Crash \/ ProjectFails \/ NodeRaises) => RunInv'
<1> SUFFICES ASSUME RunInv, Crash \/ ProjectFails \/ NodeRaises PROVE RunInv'
    OBVIOUS
<1>1. proj \in Projection /\ Projected(db) \in Projection
    BY DEF RunInv, TypeOK, Projected, Projection
<1>2. GoDown /\ pc # "idle" /\ proj' \in Projection
    BY <1>1 DEF Crash, ProjectFails, NodeRaises
<1>3. \/ downs' = downs + 1
      \/ downs' = downs /\ queue = <<>>
    BY DEF Crash, ProjectFails, NodeRaises
<1> QED BY <1>2, <1>3, GoDownOK

\* resume.
LEMMA ResumeOK == RunInv /\ Resume => RunInv'
<1> SUFFICES ASSUME RunInv, Resume PROVE RunInv'
    OBVIOUS
<1> USE DEF Resume, files, history
<1>1. TypeOK /\ GraphOK(values) /\ GraphOK(db) /\ ChainInv /\ PhaseInv /\ HistoryInv
    BY DEF RunInv
<1>2. queue = <<>> /\ values = db /\ values' = values /\ session' = session
    BY <1>1 DEF PhaseInv, ChainInv
<1>3. db.route # "end"
    BY <1>1 DEF GraphOK, RouteOK
<1>4. TypeOK'
    BY <1>1, <1>2 DEF TypeOK
<1>5. ChainInv' /\ PhaseInv'
    BY <1>1, <1>2, <1>3 DEF ChainInv, PhaseInv
<1>6. HistoryInv'
    BY <1>1, <1>2 DEF HistoryInv
<1> QED BY <1>1, <1>2, <1>4, <1>5, <1>6 DEF RunInv

\* Returning an outcome, fresh or stored.
LEMMA OutcomeStepOK == RunInv /\ (Return \/ ResumeStored) => RunInv'
<1> SUFFICES ASSUME RunInv, Return \/ ResumeStored PROVE RunInv'
    OBVIOUS
<1> USE DEF Return, ResumeStored, files, history
<1>1. TypeOK /\ GraphOK(values) /\ GraphOK(db) /\ ChainInv /\ PhaseInv /\ HistoryInv
    BY DEF RunInv
<1>2. queue = <<>> /\ values = db /\ file = "rows" /\ db.status # "running"
    BY <1>1 DEF PhaseInv, ChainInv, GraphOK, RouteOK
<1>3. TypeOK'
    BY <1>1 DEF TypeOK
<1>4. ChainInv' /\ PhaseInv' /\ HistoryInv'
    BY <1>1, <1>2 DEF ChainInv, PhaseInv, HistoryInv
<1> QED BY <1>1, <1>3, <1>4 DEF RunInv

\* A stuttering step.
LEMMA RunStutterOK == RunInv /\ UNCHANGED vars => RunInv'
<1> SUFFICES ASSUME RunInv, UNCHANGED vars PROVE RunInv'
    OBVIOUS
<1> USE DEF vars
<1>1. TypeOK' /\ GraphOK(values)' /\ GraphOK(db)'
    BY DEF RunInv, TypeOK
<1>2. ChainInv' /\ PhaseInv' /\ HistoryInv'
    BY DEF RunInv, ChainInv, PhaseInv, HistoryInv
<1> QED BY <1>1, <1>2 DEF RunInv

LEMMA RunStepOK == RunInv /\ [Next]_vars => RunInv'
BY BeginOK, ResumeOK, OutcomeStepOK, RunStutterOK, GuardStepOK, AgentStepOK, ToolStepOK,
   DelegateStepOK, FinishStepOK, FailStepOK, InterruptOK, ProjectOK, PersistOK
   DEF Next, Drive, Run, ResumeLegacy, ResumeNothing

-----------------------------------------------------------------------------
\* The theorems about a run that may be interrupted at any point.

\* The inductive invariant of run and resume.
THEOREM RunCorrect == Spec => []RunInv
BY RunInitOK, RunStepOK, PTL DEF Spec

\* Every node finds its session active, after any interruption.
THEOREM SessionTheorem == Spec => []SessionActive
<1>1. RunInv => SessionActive
    BY DEF RunInv, SessionActive, PhaseInv, TypeOK, GraphOK, RouteOK, OutcomeOK, Values
<1> QED BY <1>1, RunCorrect, PTL

\* Executions of a tool call are bounded by the limit and the interruptions.
THEOREM SameToolTheorem == Spec => []SameToolBounded
<1>1. RunInv => SameToolBounded
    <2> SUFFICES ASSUME RunInv, NEW k \in ToolKeys
                 PROVE  ran[k] <= MaxSameToolCalls * (downs + 1)
        BY DEF SameToolBounded
    <2> DEFINE m == MaxSameToolCalls * downs
    <2>1. ran[k] <= m + Charged(values, k) /\ ran[k] \in Nat /\ downs \in Nat
        BY DEF RunInv, HistoryInv, TypeOK
    <2>2. m \in Nat /\ MaxSameToolCalls * (downs + 1) = m + MaxSameToolCalls
        BY <2>1, Product, GraphAssumption DEF GraphAssumption
    <2>3. Charged(values, k) \in Nat /\ Charged(values, k) <= MaxSameToolCalls
        BY ChargedRange DEF RunInv
    <2> HIDE DEF m
    <2> QED BY <2>1, <2>2, <2>3, GraphAssumption DEF GraphAssumption
<1> QED BY <1>1, RunCorrect, PTL

\* No outcome without its lifecycle event, no second event without an
\* interruption.
THEOREM LifecycleTheorem == Spec => []LifecycleEvents
<1>1. RunInv => LifecycleEvents
    BY DEF RunInv, LifecycleEvents, HistoryInv, PhaseInv, TypeOK, Announced
<1> QED BY <1>1, RunCorrect, PTL

\* A run that returns has projected what SQLite holds.
THEOREM ProjectionTheorem == Spec => ProjectionFresh
<1>1. RunInv /\ [Next]_vars => [pc = "drive" /\ pc' = "done" => proj' = Projected(db')]_vars
    <2> SUFFICES ASSUME RunInv, Next, pc = "drive", pc' = "done" PROVE proj' = Projected(db')
        OBVIOUS
    <2>1. Return
        BY DEF Next, Drive, Run, ResumeLegacy, Begin, Resume, ResumeStored, ResumeNothing, vars,
               Guard, Agent, CallTool, RunDelegation, Finish, Fail, Commit, NodeRaises, Project,
               Persist, ProjectFails, Crash, GoDown
    <2>2. values.route = "end" /\ queue = <<>> /\ proj' = proj /\ db' = db
        BY <2>1 DEF Return, files
    <2> QED BY <2>2 DEF RunInv, PhaseInv, ChainInv
<1> QED BY <1>1, RunCorrect, PTL DEF Spec, ProjectionFresh

\* Only the writer changes the checkpoint.
LEMMA DbStep == RunInv /\ [Next]_vars => Persist \/ db' = db
BY DEF Next, Drive, Run, ResumeLegacy, Begin, Resume, ResumeStored, ResumeNothing, vars, files,
       Guard, Agent, CallTool, RunDelegation, Finish, Fail, Commit, NodeRaises, Project,
       ProjectFails, Crash, GoDown, Return

\* The graph of the instance is the graph: no operator of a node reads the
\* instantiated variable.
LEMMA SameSuperstep ==
    ASSUME NEW v, NEW w, Superstep(v, w)
    PROVE  Persisted!Superstep(v, w)
BY DEF Hop, Closed, GuardNode, RouteOf, RecordParseError, RecordStep, AgentNode,
       SameToolExceeded, CountCall, ToolNode, Delegates, DelegateRaises, DelegationNode,
       CheckFinish, FinishNode, FailNode, ParseError, Answers, Actions, Tool, Delegate,
       Final, Unknown, FinishReasons, Superstep, Persisted!Hop, Persisted!Closed,
       Persisted!GuardNode, Persisted!RouteOf, Persisted!RecordParseError,
       Persisted!RecordStep, Persisted!AgentNode, Persisted!SameToolExceeded,
       Persisted!CountCall, Persisted!ToolNode, Persisted!Delegates,
       Persisted!DelegateRaises, Persisted!DelegationNode, Persisted!CheckFinish,
       Persisted!FinishNode, Persisted!FailNode, Persisted!ParseError, Persisted!Answers,
       Persisted!Actions, Persisted!Tool, Persisted!Delegate, Persisted!Final,
       Persisted!Unknown, Persisted!FinishReasons, Persisted!Superstep

\* SQLite implements the graph that nothing interrupts.
THEOREM CheckpointTheorem == Spec => CheckpointFollowsGraph
<1>1. Init => Persisted!GraphInit
    <2>1. Persisted!Starts = Starts
        BY DEF Starts, NewValues, Budgets, ParseError, Persisted!Starts, Persisted!NewValues,
               Persisted!Budgets, Persisted!ParseError
    <2>2. Init => db \in Starts
        BY FreshOK DEF Init
    <2> QED BY <2>1, <2>2 DEF Persisted!GraphInit
<1>2. RunInv /\ [Next]_vars => [Persisted!GraphNext]_db
    <2> SUFFICES ASSUME RunInv, [Next]_vars, db' # db PROVE Persisted!GraphNext
        OBVIOUS
    <2>1. Superstep(db, db')
        BY DbStep, PersistStep
    <2> QED BY <2>1, SameSuperstep DEF Persisted!GraphNext
<1> QED BY <1>1, <1>2, RunCorrect, PTL DEF Spec, CheckpointFollowsGraph, Persisted!GraphSpec
=============================================================================
