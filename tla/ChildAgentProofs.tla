-------------------------- MODULE ChildAgentProofs --------------------------
(***************************************************************************)
(* Proofs about the child agent (ChildAgent), over those about the graph   *)
(* it runs (AgentRunProofs): its reports, its result, and that adapter and *)
(* manager together implement Delegation.                                  *)
(***************************************************************************)
EXTENDS ChildAgent, AgentRunProofs

-----------------------------------------------------------------------------
\* What the adapter sees of a superstep: at most one new step, and none in the
\* superstep that closes the lifecycle.

LEMMA SuperstepSeen ==
    ASSUME NEW v, NEW w, GraphOK(v), Superstep(v, w)
    PROVE  /\ v.status = "running"
           /\ w.steps = v.steps \/ w.steps = v.steps + 1
           /\ w.task = "closed" => w.steps = v.steps
<1>1. v \in Values /\ RouteOK(v) /\ OutcomeOK(v)
  BY DEF GraphOK
<1>2. v.route # "end" /\ v.status = "running" /\ v.task = "open"
  BY <1>1 DEF Superstep, RouteOK, OutcomeOK, Values
<1>3. ASSUME NEW u \in Values, NEW r \in Routes, w = Hop(u, r)
      PROVE  w.steps = u.steps /\ w.task = u.task
  BY <1>3, HopFields
<1>4. CASE v.route = "guard" /\ w = GuardNode(v)
  BY <1>1, <1>2, <1>3, <1>4 DEF GuardNode, Routes
<1>5. CASE v.route = "agent" /\ \E answer \in Answers : w = AgentNode(v, answer)
  <2>1. PICK answer \in Answers : w = AgentNode(v, answer)
    BY <1>5
  <2>2. CASE answer = ParseError
    <3>1. PICK r \in Routes : w = RecordParseError(Hop(v, r))
      BY <2>1, <2>2 DEF AgentNode, Routes
    <3>2. PICK u : u = Hop(v, r)
      OBVIOUS
    <3>3. u \in Values /\ u.steps = v.steps /\ u.task = v.task
      BY <1>1, <3>2, HopFields
    <3>4. QED
      BY <1>2, <3>1, <3>2, <3>3, ParseFields
  <2>3. CASE answer # ParseError
    <3>1. PICK r \in Routes : w = RecordStep(Hop(v, r), answer)
      BY <2>1, <2>3 DEF AgentNode, RouteOf, Routes
    <3>2. PICK u : u = Hop(v, r)
      OBVIOUS
    <3>3. u \in Values /\ u.steps = v.steps /\ u.task = v.task
      BY <1>1, <3>2, HopFields
    <3>4. w.steps = u.steps + 1 /\ w.task = u.task
      BY <3>1, <3>2, <3>3, StepFields
    <3>5. QED
      BY <1>2, <3>3, <3>4
  <2>4. QED
    BY <2>2, <2>3
<1>6. CASE v.route = "tool" /\ w = ToolNode(v)
  <2>1. PICK u : u = CountCall(v)
    OBVIOUS
  <2>2. v.action.arg \in ToolKeys
    BY <1>1, <1>6, ToolArg DEF RouteOK, Values
  <2>3. u \in Values /\ u.steps = v.steps /\ u.task = v.task
    BY <1>1, <2>1, <2>2, CallFields
  <2>4. PICK r \in Routes : w = Hop(u, r)
    BY <1>6, <2>1 DEF ToolNode, Routes
  <2>5. QED
    BY <1>2, <1>3, <2>3, <2>4
<1>7. CASE v.route = "delegate" /\ \E served \in BOOLEAN : w = DelegationNode(v, served)
  BY <1>1, <1>2, <1>3, <1>7 DEF DelegationNode, Routes
<1>8. CASE v.route \in {"finish", "fail"} /\ \E st \in {"completed", "failed"} : w = Closed(v, st)
  BY <1>1, <1>2, <1>8, ClosedFields
<1>9. CASE v.route = "finish" /\ w = Hop(v, "guard")
  BY <1>1, <1>2, <1>3, <1>9 DEF Routes
<1>10. QED
  BY <1>4, <1>5, <1>6, <1>7, <1>8, <1>9 DEF Superstep, FinishNode, FailNode

LEMMA StartValues ==
    /\ GraphOK(NewValues("clean", FreshBudget))
    /\ NewValues("clean", FreshBudget).steps = 0 /\ NewValues("clean", FreshBudget).status = "running"
<1>1. GraphOK(NewValues("clean", FreshBudget))
  BY FreshOK, StartsOK
<1>2. QED
  BY <1>1 DEF NewValues, FreshBudget

LEMMA ChildBegins == ChildInit => ChildInv
BY StartValues DEF ChildInit, ChildInv, ChildTypeOK, GraphInv, ReportInv, LifecycleInv

\* One yield of the stream: progress_sink never refuses a report of the child agent, since
\* the graph's own budget is the policy's max_steps.
LEMMA StreamSeen ==
    ASSUME ChildInv, Stream
    PROVE  /\ GraphOK(values') /\ values.status = "running" /\ child = "active"
           /\ UNCHANGED <<phase, outcome>>
           /\ \/ values'.steps = values.steps /\ UNCHANGED <<emitted, items>>
              \/ /\ values'.steps = values.steps + 1 /\ values'.status = "running"
                 /\ emitted' = values'.steps /\ items' = Append(items, values'.steps)
                 /\ values'.steps <= MaxSteps
           /\ child' = IF values'.status = "running" THEN child ELSE values'.status
<1>1. /\ GraphOK(values) /\ phase = "running" /\ Superstep(values, values') /\ Sink(values'.steps)
      /\ child' = IF values'.task = "closed" THEN values'.status ELSE child
  BY DEF ChildInv, GraphInv, Stream
<1>2. GraphOK(values')
  BY <1>1, SuperstepOK
<1>3. /\ values'.steps \in Nat /\ values'.steps <= MaxSteps /\ values.steps \in Nat
      /\ values'.status # "running" <=> values'.task = "closed"
  BY <1>1, <1>2 DEF GraphOK, Values, BudgetOK, OutcomeOK
<1>4. /\ values.status = "running" /\ (values'.steps = values.steps \/ values'.steps = values.steps + 1)
      /\ values'.task = "closed" => values'.steps = values.steps
  BY <1>1, SuperstepSeen
<1>5. emitted = values.steps /\ Len(items) = values.steps /\ child = "active"
  BY <1>1, <1>4 DEF ChildInv, ReportInv, LifecycleInv
<1>6. CASE values'.steps = values.steps
  <2>1. values'.steps <= emitted
    BY <1>3, <1>5, <1>6
  <2>2. UNCHANGED <<phase, emitted, items, outcome>>
    BY <1>1, <2>1 DEF Sink
  <2>3. QED
    BY <1>1, <1>2, <1>3, <1>4, <1>5, <1>6, <2>2
<1>7. CASE values'.steps = values.steps + 1
  <2>1. ~(values'.steps <= emitted) /\ ~(Len(items) + 1 > MaxSteps)
    BY <1>3, <1>5, <1>7, GraphAssumption
  <2>2. /\ emitted' = values'.steps /\ items' = Append(items, values'.steps)
        /\ UNCHANGED <<phase, outcome>>
    BY <1>1, <2>1 DEF Sink
  <2>3. values'.steps # values.steps
    BY <1>3, <1>7
  <2>4. QED
    BY <1>1, <1>2, <1>3, <1>4, <1>5, <1>7, <2>2, <2>3
<1>8. QED
  BY <1>4, <1>6, <1>7

LEMMA ChildStep == ASSUME ChildInv, [ChildNext]_childVars PROVE ChildInv'
<1>1. ChildTypeOK /\ GraphInv /\ ReportInv /\ LifecycleInv
  BY DEF ChildInv
<1>2. values.steps \in Nat /\ values.status \in {"running", "completed", "failed"}
  BY <1>1 DEF GraphInv, GraphOK, Values
<1>3. CASE Stream
  <2>1. /\ GraphOK(values') /\ values.status = "running" /\ child = "active"
        /\ UNCHANGED <<phase, outcome>>
        /\ \/ values'.steps = values.steps /\ UNCHANGED <<emitted, items>>
           \/ /\ values'.steps = values.steps + 1 /\ values'.status = "running"
              /\ emitted' = values'.steps /\ items' = Append(items, values'.steps)
              /\ values'.steps <= MaxSteps
        /\ child' = IF values'.status = "running" THEN child ELSE values'.status
    BY <1>3, StreamSeen
  <2>2. phase = "running"
    BY <1>3 DEF Stream
  <2>3. values'.status \in {"running", "completed", "failed"}
    BY <2>1 DEF GraphOK, Values
  <2>4. LifecycleInv'
    BY <1>1, <2>1, <2>2, <2>3 DEF LifecycleInv
  <2>5. items' \in Seq(Nat) /\ emitted' \in Nat /\ ReportInv'
    <3>1. CASE values'.steps = values.steps /\ UNCHANGED <<emitted, items>>
      BY <1>1, <3>1 DEF ReportInv, ChildTypeOK
    <3>2. CASE emitted' = values'.steps /\ items' = Append(items, values'.steps) /\ values'.steps = values.steps + 1
      <4>1. PICK n \in Nat : n = values.steps + 1
        BY <1>2
      <4>2. items \in Seq(Nat) /\ Len(items) = n - 1 /\ items' = Append(items, n) /\ emitted' = n /\ values'.steps = n
        BY <1>1, <1>2, <3>2, <4>1 DEF ReportInv, ChildTypeOK
      <4>3. items' \in Seq(Nat) /\ Len(items') = n /\ items'[n] = n /\ \A i \in 1..(n - 1) : items'[i] = items[i]
        BY <4>2
      <4>4. \A i \in 1..(n - 1) : items[i] = i
        BY <1>1, <4>2 DEF ReportInv
      <4>5. \A i \in 1..n : items'[i] = i
        BY <4>1, <4>3, <4>4
      <4>6. QED
        BY <4>2, <4>3, <4>5 DEF ReportInv
    <3>3. QED
      BY <2>1, <3>1, <3>2
  <2>6. ChildTypeOK'
    BY <1>1, <2>1, <2>3, <2>5 DEF ChildTypeOK
  <2>7. QED
    BY <2>1, <2>4, <2>5, <2>6 DEF ChildInv, GraphInv
<1>4. CASE StreamEnds
  <2>1. values.status # "running"
    BY <1>1, <1>4 DEF StreamEnds, GraphInv, GraphOK, RouteOK
  <2>2. QED
    BY <1>1, <1>4, <2>1 DEF StreamEnds, ChildInv, ChildTypeOK, GraphInv, ReportInv, LifecycleInv
<1>5. CASE SettleChild
  <2>1. UNCHANGED child
    BY <1>1, <1>2, <1>5 DEF SettleChild, LifecycleInv
  <2>2. QED
    BY <1>1, <1>5, <2>1 DEF SettleChild, ChildInv, ChildTypeOK, GraphInv, ReportInv, LifecycleInv
<1>6. CASE Accept \/ OpenChild \/ FinishChild
  BY <1>1, <1>6 DEF Accept, OpenChild, FinishChild, ChildInv, ChildTypeOK, GraphInv, ReportInv, LifecycleInv
<1>7. CASE UNCHANGED childVars
  BY <1>1, <1>7 DEF childVars, ChildInv, ChildTypeOK, GraphInv, ReportInv, LifecycleInv
<1>8. QED
  BY <1>3, <1>4, <1>5, <1>6, <1>7 DEF ChildNext

-----------------------------------------------------------------------------
\* The theorems.

\* The inductive invariant: reports and session follow the graph's state at every moment.
THEOREM ChildCorrect == ChildSpec => []ChildInv
<1>1. ChildInit => ChildInv
  BY ChildBegins
<1>2. ChildInv /\ [ChildNext]_childVars => ChildInv'
  BY ChildStep
<1>3. QED
  BY <1>1, <1>2, PTL DEF ChildSpec

\* The adapter reports step i of the child as item i, each once, for every budget.
THEOREM StepsTheorem == ChildSpec => []StepsReported
<1>1. ChildInv => StepsReported
  BY DEF ChildInv, ReportInv, StepsReported
<1>2. QED
  BY <1>1, ChildCorrect, PTL

\* Result, child session and graph agree about how the delegation ended.
THEOREM AgreesTheorem == ChildSpec => []OutcomeAgrees
<1>1. ChildInv => OutcomeAgrees
  BY DEF ChildInv, ChildTypeOK, LifecycleInv, OutcomeAgrees
<1>2. QED
  BY <1>1, ChildCorrect, PTL

\* The recursion limit of the adapter is never reached either.
THEOREM ChildLimitTheorem == ChildSpec => []WithinRecursionLimit
<1>1. ChildInv => WithinRecursionLimit
  BY LimitFollows DEF ChildInv, GraphInv, WithinRecursionLimit
<1>2. QED
  BY <1>1, ChildCorrect, PTL

-----------------------------------------------------------------------------
\* The refinement: what the manager's store and sessions are under the mapping.

Item(n) == [sequence |-> n, event |-> n, artifact |-> n]

\* The progress list of the mapping, once item i is step i.
LEMMA ItemsMapped ==
    ASSUME NEW s \in Seq(Nat), \A i \in 1..Len(s) : s[i] = i
    PROVE  /\ [i \in 1..Len(s) |-> [sequence |-> i, event |-> s[i], artifact |-> s[i]]]
                  = [i \in 1..Len(s) |-> Item(i)]
           /\ {s[i] : i \in 1..Len(s)} = 1..Len(s)
           /\ s = [i \in 1..Len(s) |-> i]
<1>1. [i \in 1..Len(s) |-> [sequence |-> i, event |-> s[i], artifact |-> s[i]]] = [i \in 1..Len(s) |-> Item(i)]
  BY DEF Item
<1>2. {s[i] : i \in 1..Len(s)} = 1..Len(s)
  OBVIOUS
<1>3. s = [i \in 1..Len(s) |-> i]
  OBVIOUS
<1>4. QED
  BY <1>1, <1>2, <1>3

LEMMA ItemsAppend ==
    ASSUME NEW n \in Nat
    PROVE  /\ [i \in 1..n |-> Item(i)] \in Seq({Item(i) : i \in 1..n})
           /\ Len([i \in 1..n |-> Item(i)]) = n
           /\ Append([i \in 1..n |-> Item(i)], Item(n + 1)) = [i \in 1..(n + 1) |-> Item(i)]
<1> DEFINE S == {Item(i) : i \in 1..n}
           p == [i \in 1..n |-> Item(i)]
           q == Append(p, Item(n + 1))
<1>1. p \in Seq(S) /\ Len(p) = n
  BY DEF Item
<1>2. Len(q) = n + 1 /\ DOMAIN q = 1..(n + 1) /\ \A i \in 1..(n + 1) : q[i] = Item(i)
  BY <1>1
<1>3. q = [i \in 1..(n + 1) |-> Item(i)]
  BY <1>2
<1>4. QED
  BY <1>1, <1>3

LEMMA MappedInit == ChildInit => Manager!Init
<1> SUFFICES ASSUME ChildInit PROVE Manager!Init
  OBVIOUS
<1>1. Caller # Child
  BY ChildAssumption
<1>2. phase = "none" /\ child = "none" /\ items = <<>> /\ outcome = "none"
  BY DEF ChildInit
<1>3. \E granted \in [{Caller} -> SUBSET {}] :
          [s \in {Caller, Child} |-> {}] = [s \in {Caller} \cup {Child} |-> IF s \in {Caller} THEN granted[s] ELSE {}]
  <2>1. [s \in {Caller} |-> {}] \in [{Caller} -> SUBSET {}]
    OBVIOUS
  <2>2. QED
    BY <2>1
<1>4. /\ [i \in 1..Len(items) |-> [sequence |-> i, event |-> items[i], artifact |-> items[i]]] = <<>>
      /\ {items[i] : i \in 1..Len(items)} = {}
  BY <1>2
<1>5. QED
  BY <1>1, <1>2, <1>3, <1>4 DEF Manager!Init, Manager!Sessions, Manager!NoRequest, Manager!Empty

\* The mapped variables that a step leaves alone.
LEMMA MappedSame ==
    /\ UNCHANGED items =>
           /\ [d \in {Child} |->
                 [i \in 1..Len(items') |-> [sequence |-> i, event |-> items'[i], artifact |-> items'[i]]]]
              = [d \in {Child} |->
                 [i \in 1..Len(items) |-> [sequence |-> i, event |-> items[i], artifact |-> items[i]]]]
           /\ [d \in {Child} |-> {items'[i] : i \in 1..Len(items')}]
              = [d \in {Child} |-> {items[i] : i \in 1..Len(items)}]
OBVIOUS

LEMMA MappedAccept == ASSUME ChildInv, Accept PROVE Manager!Next
<1> DEFINE asked == [kind |-> "default", caps |-> {}, steps |-> MaxSteps, depth |-> 1]
<1>1. /\ phase = "none" /\ phase' = "started" /\ MaxSteps >= 1 /\ MaxSteps \in Nat
      /\ UNCHANGED <<child, items, outcome>>
  BY GraphAssumption DEF Accept
<1>2. Caller # Child /\ None \notin {Caller, Child, Target}
  BY ChildAssumption
<1>3. Manager!Validate(Caller, asked) /\ Manager!ActiveCaps(Caller, asked) = {}
  BY <1>1 DEF Manager!Validate, Manager!ActiveCaps, Manager!FromDict
<1>4. Manager!InControl(Caller)
  BY <1>1, <1>2 DEF Manager!InControl
<1>5. Manager!Record(Caller, Child, Target, {}, MaxSteps)
  BY <1>1, <1>2, <1>4, MappedSame DEF Manager!Record
<1>6. Manager!Start(Caller, Child, Target, asked)
  BY <1>1, <1>3, <1>5 DEF Manager!Start
<1>7. QED
  BY <1>6 DEF Manager!Next, Manager!Sessions

LEMMA MappedOpen == ASSUME ChildInv, OpenChild PROVE Manager!Next
<1>1. /\ phase = "started" /\ phase' = "running" /\ child = "none" /\ child' = "active"
      /\ UNCHANGED <<items, outcome>>
  BY DEF OpenChild, ChildInv, LifecycleInv
<1>2. Caller # Child
  BY ChildAssumption
<1>3. Manager!Openable(Child)
  BY <1>1, <1>2 DEF Manager!Openable
<1>4. Manager!Open(Child)
  <2>1. [s \in {Caller, Child} |-> IF s = Caller THEN "active" ELSE child']
            = [[s \in {Caller, Child} |-> IF s = Caller THEN "active" ELSE child] EXCEPT ![Child] = "active"]
    BY <1>1, <1>2
  <2>2. [s \in {Caller, Child} |-> {}] = [[s \in {Caller, Child} |-> {}] EXCEPT ![Child] = {}]
    OBVIOUS
  <2>3. [s \in {Caller, Child} |-> IF s = Caller \/ child' = "none" THEN 0 ELSE 1]
            = [[s \in {Caller, Child} |-> IF s = Caller \/ child = "none" THEN 0 ELSE 1] EXCEPT ![Child] = 0 + 1]
    BY <1>1, <1>2
  <2>4. QED
    BY <1>1, <1>2, <1>3, <2>1, <2>2, <2>3, MappedSame DEF Manager!Open
<1>5. QED
  BY <1>4 DEF Manager!Next, Manager!Manage

\* The child is in control of itself while the manager waits for its handler.
LEMMA ChildInControl == ASSUME phase = "running" PROVE Manager!InControl(Child)
<1>1. Caller # Child
  BY ChildAssumption
<1>2. QED
  BY <1>1 DEF Manager!InControl

\* A yield is a report, the end of the child's lifecycle, or nothing to the manager.
LEMMA MappedStream == ASSUME ChildInv, Stream PROVE [Manager!Next]_Manager!vars
<1>1. /\ phase = "running" /\ Caller # Child
      /\ items \in Seq(Nat) /\ Len(items) = values.steps /\ \A i \in 1..Len(items) : items[i] = i
  BY ChildAssumption DEF Stream, ChildInv, ChildTypeOK, ReportInv
<1>2. /\ GraphOK(values') /\ child = "active"
      /\ UNCHANGED <<phase, outcome>>
      /\ \/ values'.steps = values.steps /\ UNCHANGED <<emitted, items>>
         \/ /\ values'.steps = values.steps + 1 /\ values'.status = "running"
            /\ emitted' = values'.steps /\ items' = Append(items, values'.steps)
            /\ values'.steps <= MaxSteps
      /\ child' = IF values'.status = "running" THEN child ELSE values'.status
  BY StreamSeen
<1>3. outcome = "none"
  BY <1>1 DEF ChildInv, LifecycleInv
<1>4. CASE UNCHANGED items /\ values'.status = "running"
  BY <1>2, <1>4, MappedSame DEF Manager!vars
<1>5. CASE UNCHANGED items /\ values'.status # "running"
  <2>1. PICK end \in {"completed", "failed"} : child' = end
    <3>1. values'.status \in {"running", "completed", "failed"}
      BY <1>2 DEF GraphOK, Values
    <3>2. QED
      BY <1>2, <1>5, <3>1
  <2>2. [s \in {Caller, Child} |-> IF s = Caller THEN "active" ELSE child']
            = [[s \in {Caller, Child} |-> IF s = Caller THEN "active" ELSE child] EXCEPT ![Child] = end]
    <3>1. child' = end /\ child = "active" /\ Caller # Child
      BY <1>1, <1>2, <2>1
    <3>2. QED
      BY <3>1
  <2>3. [s \in {Caller, Child} |-> IF s = Caller \/ child' = "none" THEN 0 ELSE 1]
            = [s \in {Caller, Child} |-> IF s = Caller \/ child = "none" THEN 0 ELSE 1]
    BY <1>2, <2>1
  <2>4. Manager!Complete(Child, end)
    <3>1. Manager!InControl(Child) /\ child = "active"
      BY <1>1, <1>2, ChildInControl
    <3>2. UNCHANGED <<items, phase, outcome>>
      BY <1>2, <1>5
    <3>3. QED
      BY <1>1, <2>2, <2>3, <3>1, <3>2, MappedSame DEF Manager!Complete
  <2>5. QED
    BY <2>4 DEF Manager!Next, Manager!Sessions
<1>6. CASE values'.steps = values.steps + 1 /\ values'.status = "running" /\ values'.steps <= MaxSteps
           /\ items' = Append(items, values'.steps)
  <2>1. PICK n \in Nat : n = Len(items)
    BY <1>1
  <2>2. items' = Append(items, n + 1) /\ n + 1 <= MaxSteps /\ MaxSteps \in Nat
    BY <1>1, <1>6, <2>1, GraphAssumption
  <2>3. items' \in Seq(Nat) /\ Len(items') = n + 1 /\ \A i \in 1..(n + 1) : items'[i] = i
    <3>1. items' \in Seq(Nat) /\ Len(items') = n + 1 /\ items'[n + 1] = n + 1 /\ \A i \in 1..n : items'[i] = items[i]
      BY <1>1, <2>1, <2>2
    <3>2. QED
      BY <1>1, <2>1, <3>1
  <2> DEFINE before == [i \in 1..n |-> Item(i)]
             after == [i \in 1..(n + 1) |-> Item(i)]
  <2>4. /\ [i \in 1..Len(items) |-> [sequence |-> i, event |-> items[i], artifact |-> items[i]]] = before
        /\ {items[i] : i \in 1..Len(items)} = 1..n
    BY <1>1, <2>1, ItemsMapped
  <2>5. /\ [i \in 1..Len(items') |-> [sequence |-> i, event |-> items'[i], artifact |-> items'[i]]] = after
        /\ {items'[i] : i \in 1..Len(items')} = 1..(n + 1)
    BY <2>3, ItemsMapped
  <2>6. Len(before) = n /\ Append(before, Item(n + 1)) = after
    BY ItemsAppend
  <2>7. \A i \in 1..n : before[i].event = i
    BY DEF Item
  <2>8. Manager!Stored(Child) = 1..n
    <3>1. Manager!Stored(Child) = {before[i].event : i \in 1..Len(before)}
      BY <2>4 DEF Manager!Stored
    <3>2. {before[i].event : i \in 1..n} = 1..n
      BY <2>7
    <3>3. QED
      BY <2>6, <3>1, <3>2
  <2> HIDE DEF before, after
  <2>9. Item(n + 1).event = n + 1 /\ Item(n + 1).sequence = n + 1 /\ n + 1 \notin 1..n
    BY DEF Item
  <2>10. Manager!AppendProgress(Child, Item(n + 1))
    BY <2>4, <2>5, <2>6, <2>8, <2>9 DEF Manager!AppendProgress
  <2>11. [d \in {Child} |-> {items'[i] : i \in 1..Len(items')}]
            = [[d \in {Child} |-> {items[i] : i \in 1..Len(items)}] EXCEPT
                  ![Child] = [d \in {Child} |-> {items[i] : i \in 1..Len(items)}][Child] \cup {n + 1}]
    <3>1. 1..(n + 1) = (1..n) \cup {n + 1}
      OBVIOUS
    <3>2. QED
      BY <2>4, <2>5, <3>1
  <2>12. Manager!Sink(Child, Item(n + 1))
    BY <1>1, <2>2, <2>9, <2>10, <2>11 DEF Manager!Sink
  <2>13. UNCHANGED child
    BY <1>2, <1>6
  <2>14. Manager!Report(Child, Item(n + 1))
    BY <1>1, <1>2, <1>3, <2>12, <2>13, ChildInControl DEF Manager!Report
  <2>15. n + 1 \in 1..MaxSteps + 1 /\ n + 1 \in 1..MaxSteps
    BY <2>2
  <2>16. QED
    BY <2>14, <2>15 DEF Manager!Next, Manager!Handle, Item
<1>7. QED
  BY <1>2, <1>4, <1>5, <1>6

LEMMA MappedReturn == ASSUME ChildInv, StreamEnds PROVE Manager!Next
<1>1. /\ phase = "running" /\ phase' = "returned" /\ outcome = "none" /\ outcome' \in {"success", "failed"}
      /\ UNCHANGED <<child, items>>
      /\ items \in Seq(Nat) /\ \A i \in 1..Len(items) : items[i] = i
  BY DEF StreamEnds, ChildInv, ChildTypeOK, ReportInv, LifecycleInv
<1> DEFINE list == [i \in 1..Len(items) |-> [sequence |-> i, event |-> items[i], artifact |-> items[i]]]
<1>2. Len(list) = Len(items)
  BY <1>1
<1>3. Manager!ProgressArtifacts(Child) = items
  <2>1. Manager!ProgressArtifacts(Child) = [i \in 1..Len(list) |-> list[i].artifact]
    BY DEF Manager!ProgressArtifacts
  <2>2. [i \in 1..Len(list) |-> list[i].artifact] = [i \in 1..Len(items) |-> items[i]]
    BY <1>2
  <2>3. QED
    BY <1>1, <2>1, <2>2
<1>4. {} \ Manager!Reported(Child) = {}
  OBVIOUS
<1>5. Manager!Return(Child, outcome', {})
  BY <1>1, <1>3, <1>4, ChildInControl, MappedSame DEF Manager!Return
<1>6. outcome' \in Manager!Outcomes
  BY <1>1 DEF Manager!Outcomes
<1>7. QED
  BY <1>5, <1>6 DEF Manager!Next, Manager!Handle, Manager!HandlerEnds

LEMMA MappedSettle == ASSUME ChildInv, SettleChild PROVE Manager!Next
<1>1. /\ phase = "returned" /\ phase' = "closed" /\ outcome # "none" /\ child \in {"completed", "failed"}
      /\ UNCHANGED <<child, items, outcome>>
  <2>1. values.status \in {"running", "completed", "failed"}
    BY DEF ChildInv, GraphInv, GraphOK, Values
  <2>2. QED
    BY <2>1 DEF SettleChild, ChildInv, LifecycleInv
<1>2. Caller # Child
  BY ChildAssumption
<1>3. [s \in {Caller, Child} |-> IF s = Caller THEN "active" ELSE child']
          = [[s \in {Caller, Child} |-> IF s = Caller THEN "active" ELSE child] EXCEPT ![Child] = child]
  BY <1>1, <1>2
<1>4. Manager!Settle(Child)
  BY <1>1, <1>2, <1>3, MappedSame DEF Manager!Settle
<1>5. QED
  BY <1>4 DEF Manager!Next, Manager!Manage

LEMMA MappedFinish == ASSUME ChildInv, FinishChild PROVE Manager!Next
<1>1. phase = "closed" /\ phase' = "finished" /\ UNCHANGED <<child, items, outcome>>
  BY DEF FinishChild
<1>2. Manager!Finish(Child)
  BY <1>1, MappedSame DEF Manager!Finish
<1>3. QED
  BY <1>2 DEF Manager!Next, Manager!Manage

\* The adapter with its graph, under the manager's bookkeeping, does nothing that the
\* delegation port does not allow, for every budget: ChildAgent implements Delegation.
THEOREM DelegationRefined == ChildSpec => ImplementsDelegation
<1>1. ChildInit => Manager!Init
  BY MappedInit
<1>2. ChildInv /\ [ChildNext]_childVars => [Manager!Next]_Manager!vars
  <2> SUFFICES ASSUME ChildInv, [ChildNext]_childVars PROVE [Manager!Next]_Manager!vars
    OBVIOUS
  <2>1. CASE UNCHANGED childVars
    BY <2>1, MappedSame DEF childVars, Manager!vars
  <2>2. QED
    BY <2>1, MappedAccept, MappedOpen, MappedStream, MappedReturn, MappedSettle, MappedFinish DEF ChildNext
<1>3. QED
  BY <1>1, <1>2, ChildCorrect, PTL DEF ChildSpec, ImplementsDelegation, Manager!Spec

=============================================================================
