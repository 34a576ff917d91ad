-------------------------- MODULE DelegationProofs --------------------------
(***************************************************************************)
(* Proofs of the safety properties of Delegation, for any number of roots, *)
(* delegations, capabilities and handlers.                                 *)
(***************************************************************************)
EXTENDS Delegation, SequenceTheorems, TLAPS

\* The store of a delegation that a step does not touch.
LEMMA StoreFrame ==
    ASSUME NEW x \in Delegations, StoreOK(x),
           phase'[x] = phase[x], request'[x] = request[x], progress'[x] = progress[x],
           notified'[x] = notified[x], result'[x] = result[x]
    PROVE  StoreOK(x)'
BY DEF StoreOK, OrderedIn, KeptIn, Stored

LEMMA InitOK == Init => DelegationInv
<1> SUFFICES ASSUME Init PROVE DelegationInv
    OBVIOUS
<1>1. NoRequest \in Requests /\ Empty("none") \in Results
    BY DEF NoRequest, Empty, Requests, Results
<1>2. TypeOK
    BY <1>1, DelegationAssumption DEF Init, TypeOK, Sessions, DelegationAssumption
<1>3. ASSUME NEW r \in Roots PROVE status[r] # "none"
    BY DEF Init, Sessions
<1>4. ASSUME NEW d \in Delegations PROVE TreeOK(d)
    BY DelegationAssumption DEF Init, TreeOK, Sessions, DelegationAssumption
<1>5. ASSUME NEW d \in Delegations PROVE StoreOK(d)
    <2>1. progress[d] = <<>> /\ notified[d] = {} /\ phase[d] = "none"
        BY DEF Init
    <2> QED BY <2>1, DelegationAssumption DEF StoreOK, OrderedIn, KeptIn, DelegationAssumption
<1> QED BY <1>2, <1>3, <1>4, <1>5 DEF DelegationInv

-----------------------------------------------------------------------------
\* One lemma per action.

\* What store.start does to the state.
LEMMA RecordOK ==
    ASSUME DelegationInv, NEW s \in Sessions, NEW d \in Delegations, NEW t \in Targets,
           NEW caps \in SUBSET Capabilities, NEW steps \in Int, Record(s, d, t, caps, steps)
    PROVE  /\ parent' \in [Delegations -> Sessions \cup {None}]
           /\ request' \in [Delegations -> Requests]
           /\ parent'[d] = s /\ request'[d].steps = steps
           /\ \A x \in Delegations \ {d} : parent'[x] = parent[x] /\ request'[x] = request[x]
           /\ \A x \in Delegations : parent[x] # d
<1>1. TypeOK
    BY DEF DelegationInv
<1>2. [target |-> t, caps |-> caps, steps |-> steps] \in Requests
    BY DEF Requests
<1>3. ASSUME NEW x \in Delegations PROVE parent[x] # d
    <2>1. TreeOK(x) /\ TreeOK(d)
        BY DEF DelegationInv
    <2> QED BY <2>1, DelegationAssumption DEF Record, TreeOK, Sessions, DelegationAssumption
<1> QED BY <1>1, <1>2, <1>3 DEF Record, TypeOK

\* delegate() with an accepted policy.
LEMMA StartOK ==
    ASSUME DelegationInv, NEW s \in Sessions, NEW d \in Delegations, NEW t \in Targets,
           NEW asked \in Asked, Start(s, d, t, asked)
    PROVE  DelegationInv'
<1>1. /\ TypeOK /\ asked \in AskedPolicies
      /\ Validate(s, asked) /\ status[s] = "active" /\ phase[d] = "none" /\ d # s
      /\ Record(s, d, t, ActiveCaps(s, asked), asked.steps)
    BY DelegationAssumption DEF DelegationInv, Start, Record, DelegationAssumption
<1>2. ActiveCaps(s, asked) \in SUBSET Capabilities /\ asked.steps \in Int /\ asked.depth \in Int
    BY <1>1 DEF ActiveCaps, FromDict, AskedPolicies, TypeOK
<1>3. /\ parent' \in [Delegations -> Sessions \cup {None}]
      /\ request' \in [Delegations -> Requests]
      /\ parent'[d] = s /\ request'[d].steps = asked.steps
      /\ \A x \in Delegations \ {d} : parent'[x] = parent[x] /\ request'[x] = request[x]
      /\ \A x \in Delegations : parent[x] # d
    BY <1>1, <1>2, RecordOK
<1>4. /\ UNCHANGED <<status, scope, depth, progress, notified, result>>
      /\ phase' = [phase EXCEPT ![d] = "started"]
    BY DEF Start, Record
<1>5. TypeOK'
    BY <1>1, <1>3, <1>4 DEF TypeOK
<1>6. ASSUME NEW x \in Delegations PROVE TreeOK(x)'
    <2>1. TreeOK(x) /\ TreeOK(d)
        BY DEF DelegationInv
    <2>2. CASE x = d
        <3>1. depth[s] + 1 <= EngineDepth
            BY <1>1, <1>2, DelegationAssumption DEF Validate, TypeOK, DelegationAssumption
        <3>2. s \in Delegations => phase[s] = "running" /\ phase'[s] = "running"
            BY <1>1, <1>4 DEF Record, InControl, TypeOK
        <3> QED BY <2>1, <2>2, <3>1, <3>2, <1>1, <1>3, <1>4 DEF TreeOK, TypeOK
    <2>3. CASE x # d
        BY <2>1, <2>3, <1>1, <1>3, <1>4 DEF TreeOK, TypeOK
    <2> QED BY <2>2, <2>3
<1>7. ASSUME NEW x \in Delegations PROVE StoreOK(x)'
    <2>1. StoreOK(x) /\ StoreOK(d)
        BY DEF DelegationInv
    <2>2. CASE x = d
        <3>1. progress'[d] = <<>> /\ phase'[d] = "started" /\ notified'[d] = notified[d]
            BY <2>1, <1>1, <1>4 DEF StoreOK, TypeOK
        <3>2. asked.steps <= EngineSteps
            BY <1>1 DEF Validate
        <3>3. notified[d] = {}
            BY <2>1, <1>1 DEF StoreOK, Stored
        <3> QED BY <2>2, <3>1, <3>2, <3>3, <1>3, DelegationAssumption
                DEF StoreOK, OrderedIn, KeptIn, DelegationAssumption
    <2>3. CASE x # d
        BY <2>1, <2>3, <1>1, <1>3, <1>4, StoreFrame DEF TypeOK
    <2> QED BY <2>2, <2>3
<1> QED BY <1>4, <1>5, <1>6, <1>7 DEF DelegationInv

\* delegate() with a refused policy.
LEMMA RejectOK ==
    ASSUME DelegationInv, NEW s \in Sessions, NEW d \in Delegations, NEW t \in Targets,
           NEW asked \in Asked, Reject(s, d, t, asked)
    PROVE  DelegationInv'
<1>1. /\ TypeOK /\ asked \in AskedPolicies
      /\ status[s] = "active" /\ phase[d] = "none" /\ d # s
      /\ Record(s, d, t, FromDict(asked), asked.steps)
    BY DelegationAssumption DEF DelegationInv, Reject, Record, DelegationAssumption
<1>2. FromDict(asked) \in SUBSET Capabilities /\ asked.steps \in Int
    BY <1>1 DEF FromDict, AskedPolicies
<1>3. /\ parent' \in [Delegations -> Sessions \cup {None}]
      /\ request' \in [Delegations -> Requests]
      /\ parent'[d] = s /\ request'[d].steps = asked.steps
      /\ \A x \in Delegations \ {d} : parent'[x] = parent[x] /\ request'[x] = request[x]
      /\ \A x \in Delegations : parent[x] # d
    BY <1>1, <1>2, RecordOK
<1> DEFINE rejected == Empty("rejected")
<1>4. /\ UNCHANGED <<status, scope, depth, progress, notified>>
      /\ phase' = [phase EXCEPT ![d] = "finished"]
      /\ result' = [result EXCEPT ![d] = rejected]
    BY DEF Reject, Record
<1>r. rejected \in Results /\ rejected.outcome # "none" /\ rejected.reported = <<>>
    BY DEF Results, Outcomes, Empty
<1> HIDE DEF rejected
<1>5. TypeOK'
    BY <1>1, <1>3, <1>4, <1>r DEF TypeOK
<1>6. ASSUME NEW x \in Delegations PROVE TreeOK(x)'
    <2>1. TreeOK(x) /\ TreeOK(d)
        BY DEF DelegationInv
    <2>2. CASE x = d
        BY <2>1, <2>2, <1>1, <1>3, <1>4 DEF TreeOK, TypeOK
    <2>3. CASE x # d
        BY <2>1, <2>3, <1>1, <1>3, <1>4 DEF TreeOK, TypeOK
    <2> QED BY <2>2, <2>3
<1>7. ASSUME NEW x \in Delegations PROVE StoreOK(x)'
    <2>1. StoreOK(x) /\ StoreOK(d)
        BY DEF DelegationInv
    <2>2. CASE x = d
        <3>1. /\ progress'[d] = <<>> /\ phase'[d] = "finished" /\ notified'[d] = notified[d]
              /\ result'[d] = rejected
            BY <2>1, <1>1, <1>4 DEF StoreOK, TypeOK
        <3>2. notified[d] = {}
            BY <2>1, <1>1 DEF StoreOK, Stored
        <3> QED BY <2>2, <3>1, <3>2, <1>r, DelegationAssumption
                DEF StoreOK, OrderedIn, KeptIn, DelegationAssumption
    <2>3. CASE x # d
        BY <2>1, <2>3, <1>1, <1>3, <1>4, StoreFrame DEF TypeOK
    <2> QED BY <2>2, <2>3
<1> QED BY <1>4, <1>5, <1>6, <1>7 DEF DelegationInv

\* create_child.
LEMMA OpenOK ==
    ASSUME DelegationInv, NEW d \in Delegations, Open(d)
    PROVE  DelegationInv'
<1>1. TypeOK /\ phase[d] = "started" /\ request[d].caps \subseteq scope[parent[d]]
    BY DEF DelegationInv, Open, Openable
<1>2. TreeOK(d) /\ d \in Sessions /\ parent[d] \in Sessions /\ parent[d] # d
    BY <1>1 DEF DelegationInv, TreeOK, Sessions
<1>3. request[d].caps \in SUBSET Capabilities /\ depth[parent[d]] + 1 \in Nat
    BY <1>1, <1>2 DEF TypeOK, Requests
<1>4. /\ status' = [status EXCEPT ![d] = "active"]
      /\ scope' = [scope EXCEPT ![d] = request[d].caps]
      /\ depth' = [depth EXCEPT ![d] = depth[parent[d]] + 1]
      /\ phase' = [phase EXCEPT ![d] = "running"]
      /\ UNCHANGED <<parent, request, progress, notified, result>>
    BY DEF Open
<1>5. TypeOK'
    BY <1>1, <1>2, <1>3, <1>4 DEF TypeOK
<1>6. ASSUME NEW x \in Delegations PROVE TreeOK(x)'
    <2>1. TreeOK(x)
        BY DEF DelegationInv
    <2>2. CASE x = d
        <3>1. /\ phase'[d] = "running" /\ status'[d] = "active" /\ parent'[d] = parent[d]
              /\ status'[parent[d]] = status[parent[d]] /\ scope'[parent[d]] = scope[parent[d]]
              /\ depth'[parent[d]] = depth[parent[d]]
              /\ scope'[d] = request[d].caps /\ depth'[d] = depth[parent[d]] + 1
              /\ parent[d] \in Delegations => phase'[parent[d]] = phase[parent[d]]
            BY <1>1, <1>2, <1>4 DEF TypeOK
        <3> QED BY <2>2, <3>1, <1>1, <1>2 DEF TreeOK
    <2>3. CASE x # d
        <3>1. phase[x] # "none" => parent[x] # d
            BY <2>1, <1>1, <1>2 DEF TreeOK
        <3>2. status[x] # "none" => phase[x] # "none"
            BY <2>1 DEF TreeOK
        <3> QED BY <2>1, <2>3, <3>1, <3>2, <1>1, <1>4 DEF TreeOK, TypeOK, Sessions
    <2> QED BY <2>2, <2>3
<1>7. ASSUME NEW x \in Delegations PROVE StoreOK(x)'
    <2>1. StoreOK(x)
        BY DEF DelegationInv
    <2>2. CASE x = d
        BY <2>1, <2>2, <1>1, <1>4 DEF StoreOK, OrderedIn, KeptIn, Stored, TypeOK
    <2>3. CASE x # d
        BY <2>1, <2>3, <1>1, <1>4, StoreFrame DEF TypeOK
    <2> QED BY <2>2, <2>3
<1>8. ASSUME NEW r \in Roots PROVE status'[r] # "none"
    BY <1>1, <1>4 DEF DelegationInv, TypeOK, Sessions
<1> QED BY <1>5, <1>6, <1>7, <1>8 DEF DelegationInv

\* A step that moves one delegation to another phase and sets its result, and
\* touches neither the tree nor the progress.
LEMMA PhaseOK ==
    ASSUME DelegationInv, NEW d \in Delegations, NEW to, NEW r \in Results,
           phase' = [phase EXCEPT ![d] = to], result' = [result EXCEPT ![d] = r],
           UNCHANGED <<scope, depth, parent, request, progress, notified>>,
           status' \in [Sessions -> {"none", "active", "completed", "failed"}],
           \A s \in Sessions \ {d} : status'[s] = status[s],
           \/ /\ phase[d] = "started" /\ to = "finished" /\ status'[d] = status[d]
           \/ /\ phase[d] = "running" /\ InControl(d) /\ to = "returned" /\ status'[d] = status[d]
           \/ /\ phase[d] = "returned" /\ to = "closed" /\ status'[d] \notin {"none", "active"}
           \/ /\ phase[d] = "closed" /\ to = "finished" /\ status'[d] = status[d],
           /\ r.outcome # "none" /\ Len(r.reported) = Len(progress[d])
           /\ \A i \in 1..Len(progress[d]) : r.reported[i] = progress[d][i].artifact
    PROVE  DelegationInv'
<1>1. TypeOK /\ d \in Sessions
    BY DEF DelegationInv, Sessions
<1>2. to \in {"returned", "closed", "finished"}
    OBVIOUS
<1>3. TypeOK'
    BY <1>1, <1>2 DEF TypeOK
<1>4. ASSUME NEW x \in Delegations PROVE TreeOK(x)'
    <2>1. TreeOK(x) /\ TreeOK(d)
        BY DEF DelegationInv
    <2>2. CASE x = d
        <3>1. /\ phase'[d] = to /\ parent'[d] = parent[d] /\ parent[d] \in Sessions \ {d}
              /\ status'[parent[d]] = status[parent[d]]
              /\ parent[d] \in Delegations => phase'[parent[d]] = phase[parent[d]]
              /\ scope' = scope /\ depth' = depth
            BY <1>1, <2>1 DEF TreeOK, TypeOK
        <3> QED BY <2>2, <3>1, <2>1 DEF TreeOK
    <2>3. CASE x # d
        <3>1. parent[x] = d => phase[x] \in {"none", "finished"}
            BY <2>1, <1>1 DEF TreeOK, InControl, TypeOK
        <3>2. /\ phase'[x] = phase[x] /\ status'[x] = status[x] /\ parent'[x] = parent[x]
              /\ scope' = scope /\ depth' = depth
              /\ parent[x] \in Sessions \ {d} => status'[parent[x]] = status[parent[x]]
              /\ parent[x] \in Delegations \ {d} => phase'[parent[x]] = phase[parent[x]]
            BY <2>3, <1>1 DEF TypeOK, Sessions
        <3>3. status[d] # "none" => status'[d] # "none"
            BY <2>1 DEF TreeOK
        <3> QED BY <2>1, <3>1, <3>2, <3>3 DEF TreeOK
    <2> QED BY <2>2, <2>3
<1>5. ASSUME NEW x \in Delegations PROVE StoreOK(x)'
    <2>1. StoreOK(x)
        BY DEF DelegationInv
    <2>2. CASE x = d
        <3>1. phase'[d] = to /\ result'[d] = r
            BY <1>1 DEF TypeOK
        <3> QED BY <2>1, <2>2, <3>1, <1>2 DEF StoreOK, OrderedIn, KeptIn, Stored
    <2>3. CASE x # d
        BY <2>1, <2>3, <1>1, StoreFrame DEF TypeOK
    <2> QED BY <2>2, <2>3
<1>6. ASSUME NEW q \in Roots PROVE status'[q] # "none"
    BY DelegationAssumption DEF DelegationInv, Sessions, DelegationAssumption
<1> QED BY <1>3, <1>4, <1>5, <1>6 DEF DelegationInv

\* The artifacts of the stored progress, as a sequence.
LEMMA ArtifactsOK ==
    ASSUME TypeOK, NEW d \in Delegations
    PROVE  /\ ProgressArtifacts(d) \in Seq(Artifacts)
           /\ Len(ProgressArtifacts(d)) = Len(progress[d])
           /\ \A i \in 1..Len(progress[d]) : ProgressArtifacts(d)[i] = progress[d][i].artifact
<1>1. progress[d] \in Seq(Progress) /\ Len(progress[d]) \in Nat
    BY DEF TypeOK
<1>2. \A i \in 1..Len(progress[d]) : progress[d][i] \in Progress
    BY <1>1, ElementOfSeq
<1>3. \A item \in Progress : item.artifact \in Artifacts
    BY DEF Progress
<1> QED BY <1>1, <1>2, <1>3 DEF ProgressArtifacts

\* No handler, or create_child refuses.
LEMMA OpenFailsOK ==
    ASSUME DelegationInv, NEW d \in Delegations, OpenFails(d)
    PROVE  DelegationInv'
<1> DEFINE r == Empty(IF request[d].target \in Resolvable THEN "rejected" ELSE "failed")
<1>1. r \in Results /\ r.outcome # "none" /\ r.reported = <<>>
    BY DEF Results, Outcomes, Empty
<1>2. TypeOK /\ phase[d] = "started" /\ progress[d] = <<>>
    BY DEF DelegationInv, OpenFails, StoreOK
<1>3. /\ phase' = [phase EXCEPT ![d] = "finished"] /\ result' = [result EXCEPT ![d] = r]
      /\ UNCHANGED <<status, scope, depth, parent, request, progress, notified>>
    BY DEF OpenFails
<1> HIDE DEF r
<1>4. status' \in [Sessions -> {"none", "active", "completed", "failed"}]
    BY <1>2, <1>3 DEF TypeOK
<1>5. /\ Len(r.reported) = Len(progress[d])
      /\ \A i \in 1..Len(progress[d]) : r.reported[i] = progress[d][i].artifact
    BY <1>1, <1>2
<1> QED BY <1>1, <1>2, <1>3, <1>4, <1>5, PhaseOK DEF Sessions

\* The handler returns.
LEMMA ReturnOK ==
    ASSUME DelegationInv, NEW d \in Delegations, NEW outcome \in Outcomes,
           NEW returned \in Returns, Return(d, outcome, returned)
    PROVE  DelegationInv'
<1> DEFINE r == [outcome |-> outcome, reported |-> ProgressArtifacts(d),
                 others |-> returned \ Reported(d)]
<1>1. TypeOK /\ phase[d] = "running" /\ InControl(d)
    BY DEF DelegationInv, Return
<1>2. /\ r \in Results /\ r.outcome # "none"
      /\ Len(r.reported) = Len(progress[d])
      /\ \A i \in 1..Len(progress[d]) : r.reported[i] = progress[d][i].artifact
    <2>1. returned \ Reported(d) \in SUBSET Artifacts
        BY DelegationAssumption DEF DelegationAssumption
    <2> QED BY <1>1, <2>1, ArtifactsOK DEF Results, Outcomes
<1>3. /\ phase' = [phase EXCEPT ![d] = "returned"] /\ result' = [result EXCEPT ![d] = r]
      /\ UNCHANGED <<status, scope, depth, parent, request, progress, notified>>
    BY DEF Return
<1> HIDE DEF r
<1>4. status' \in [Sessions -> {"none", "active", "completed", "failed"}]
    BY <1>1, <1>3 DEF TypeOK
<1> QED BY <1>1, <1>2, <1>3, <1>4, PhaseOK DEF Sessions

\* The handler raises.
LEMMA RaiseOK ==
    ASSUME DelegationInv, NEW d \in Delegations, Raise(d)
    PROVE  DelegationInv'
<1> DEFINE r == [outcome |-> "failed", reported |-> ProgressArtifacts(d), others |-> {}]
<1>1. TypeOK /\ phase[d] = "running" /\ InControl(d)
    BY DEF DelegationInv, Raise
<1>2. /\ r \in Results /\ r.outcome # "none"
      /\ Len(r.reported) = Len(progress[d])
      /\ \A i \in 1..Len(progress[d]) : r.reported[i] = progress[d][i].artifact
    BY <1>1, ArtifactsOK DEF Results, Outcomes
<1>3. /\ phase' = [phase EXCEPT ![d] = "returned"] /\ result' = [result EXCEPT ![d] = r]
      /\ UNCHANGED <<status, scope, depth, parent, request, progress, notified>>
    BY DEF Raise
<1> HIDE DEF r
<1>4. status' \in [Sessions -> {"none", "active", "completed", "failed"}]
    BY <1>1, <1>3 DEF TypeOK
<1> QED BY <1>1, <1>2, <1>3, <1>4, PhaseOK DEF Sessions

\* The child is closed, then the result is stored.
LEMMA SettleOK ==
    ASSUME DelegationInv, NEW d \in Delegations, Settle(d) \/ Finish(d)
    PROVE  DelegationInv'
<1>1. TypeOK /\ TreeOK(d) /\ KeptIn(d) /\ d \in Sessions
    BY DEF DelegationInv, StoreOK, Sessions
<1>2. phase[d] \in {"returned", "closed"}
    BY DEF Settle, Finish
<1>3. result[d] \in Results /\ result = [result EXCEPT ![d] = result[d]]
    BY <1>1 DEF TypeOK
<1>4. /\ UNCHANGED <<scope, depth, parent, request, progress, notified>>
      /\ result' = [result EXCEPT ![d] = result[d]]
    BY <1>3 DEF Settle, Finish
<1>5. /\ result[d].outcome # "none" /\ Len(result[d].reported) = Len(progress[d])
      /\ \A i \in 1..Len(progress[d]) : result[d].reported[i] = progress[d][i].artifact
    BY <1>1, <1>2 DEF KeptIn
<1>6. CASE Settle(d)
    <2>1. /\ phase[d] = "returned" /\ phase' = [phase EXCEPT ![d] = "closed"]
          /\ status' \in [Sessions -> {"none", "active", "completed", "failed"}]
          /\ \A s \in Sessions \ {d} : status'[s] = status[s]
          /\ status'[d] \notin {"none", "active"}
        BY <1>1, <1>6 DEF Settle, TypeOK, TreeOK
    <2> QED BY <2>1, <1>3, <1>4, <1>5, PhaseOK
<1>7. CASE Finish(d)
    <2>1. /\ phase[d] = "closed" /\ phase' = [phase EXCEPT ![d] = "finished"]
          /\ status' = status
          /\ status' \in [Sessions -> {"none", "active", "completed", "failed"}]
        BY <1>1, <1>7 DEF Finish, TypeOK
    <2> QED BY <2>1, <1>3, <1>4, <1>5, PhaseOK
<1> QED BY <1>6, <1>7

\* complete_task or fail_task of the session in control.
LEMMA CompleteOK ==
    ASSUME DelegationInv, NEW s \in Sessions, NEW end \in {"completed", "failed"}, Complete(s, end)
    PROVE  DelegationInv'
<1>1. TypeOK /\ status[s] = "active" /\ InControl(s)
    BY DEF DelegationInv, Complete
<1>2. /\ status' = [status EXCEPT ![s] = end]
      /\ UNCHANGED <<scope, depth, phase, parent, request, progress, notified, result>>
    BY DEF Complete
<1>3. TypeOK'
    BY <1>1, <1>2 DEF TypeOK
<1>4. ASSUME NEW x \in Delegations PROVE TreeOK(x)'
    <2>1. TreeOK(x) /\ x \in Sessions
        BY DEF DelegationInv, Sessions
    <2>2. phase[x] \in {"started", "running", "returned", "closed"} => parent[x] # s
        BY <1>1 DEF InControl
    <2>3. /\ status[x] = "none" <=> status'[x] = "none"
          /\ status'[x] = "active" => status[x] = "active"
          /\ parent[x] \in Sessions /\ parent[x] # s => status'[parent[x]] = status[parent[x]]
          /\ parent[x] \in Sessions /\ status[parent[x]] # "none" => status'[parent[x]] # "none"
        BY <1>1, <1>2, <2>1 DEF TypeOK
    <2> QED BY <1>2, <2>1, <2>2, <2>3 DEF TreeOK
<1>5. ASSUME NEW x \in Delegations PROVE StoreOK(x)'
    BY <1>2, StoreFrame DEF DelegationInv
<1>6. ASSUME NEW r \in Roots PROVE status'[r] # "none"
    BY <1>1, <1>2 DEF DelegationInv, TypeOK, Sessions
<1> QED BY <1>3, <1>4, <1>5, <1>6 DEF DelegationInv

\* An appended report keeps the order.
LEMMA AppendOK ==
    ASSUME DelegationInv, NEW d \in Delegations, NEW item \in Progress, phase[d] = "running",
           request' = request, phase' = phase, result' = result,
           item.event \notin Stored(d), item.sequence = Len(progress[d]) + 1,
           item.sequence <= request[d].steps,
           progress' = [progress EXCEPT ![d] = Append(progress[d], item)],
           notified' = [notified EXCEPT ![d] = notified[d] \cup {item.event}]
    PROVE  progress' \in [Delegations -> Seq(Progress)] /\ StoreOK(d)'
<1>1. TypeOK /\ StoreOK(d) /\ OrderedIn(d) /\ notified[d] \subseteq Stored(d)
    BY DEF DelegationInv, StoreOK
<1> DEFINE p == progress[d]
           q == Append(p, item)
           n == Len(p)
<1>2. p \in Seq(Progress) /\ n \in Nat
    BY <1>1 DEF TypeOK
<1>3. q \in Seq(Progress) /\ Len(q) = n + 1 /\ q[n + 1] = item /\ \A i \in 1..n : q[i] = p[i]
    BY <1>2, AppendProperties
<1>4. progress'[d] = q /\ notified'[d] = notified[d] \cup {item.event}
    BY <1>1 DEF TypeOK
<1>5. /\ \A i \in 1..n : p[i].sequence = i /\ i <= request[d].steps /\ p[i].event # item.event
      /\ \A i, j \in 1..n : p[i].event = p[j].event => i = j
      /\ request[d].steps <= EngineSteps
    BY <1>1 DEF OrderedIn, Stored, StoreOK
<1>6. request[d].steps \in Int /\ item.sequence = n + 1 /\ n + 1 <= request[d].steps
    BY <1>1 DEF TypeOK, Requests
<1>7. progress' \in [Delegations -> Seq(Progress)]
    BY <1>1, <1>3 DEF TypeOK
<1> HIDE DEF p, q, n
<1>8. Len(q) <= EngineSteps
    BY <1>2, <1>3, <1>5, <1>6, DelegationAssumption DEF DelegationAssumption
<1>9. ASSUME NEW i \in 1..Len(q)
      PROVE  q[i].sequence = i /\ i <= request[d].steps
    <2>1. i = n + 1 \/ i \in 1..n
        BY <1>2, <1>3
    <2> QED BY <2>1, <1>3, <1>5, <1>6
<1>10. ASSUME NEW i \in 1..Len(q), NEW j \in 1..Len(q), q[i].event = q[j].event
       PROVE  i = j
    <2>1. (i = n + 1 \/ i \in 1..n) /\ (j = n + 1 \/ j \in 1..n)
        BY <1>2, <1>3
    <2> QED BY <2>1, <1>3, <1>5, <1>10
<1>11. OrderedIn(d)'
    BY <1>4, <1>8, <1>9, <1>10 DEF OrderedIn
<1>12. (notified[d] \subseteq Stored(d))'
    <2>1. Stored(d)' = {q[i].event : i \in 1..Len(q)}
        BY <1>4 DEF Stored
    <2>2. item.event \in {q[i].event : i \in 1..Len(q)}
        BY <1>2, <1>3
    <2>3. ASSUME NEW e \in Stored(d) PROVE e \in {q[i].event : i \in 1..Len(q)}
        <3>1. PICK i \in 1..n : e = p[i].event
            BY DEF Stored, p, n
        <3>2. i \in 1..Len(q) /\ q[i] = p[i]
            BY <3>1, <1>2, <1>3
        <3> QED BY <3>1, <3>2
    <2> QED BY <1>1, <1>4, <2>1, <2>2, <2>3
<1> QED BY <1>1, <1>7, <1>11, <1>12 DEF StoreOK, KeptIn

\* progress_sink.
LEMMA ReportOK ==
    ASSUME DelegationInv, NEW d \in Delegations, NEW item \in Progress, Report(d, item)
    PROVE  DelegationInv'
<1>1. /\ TypeOK /\ StoreOK(d) /\ phase[d] = "running" /\ item.sequence <= request[d].steps
      /\ notified' = [notified EXCEPT ![d] = notified[d] \cup {item.event}]
      /\ UNCHANGED <<status, scope, depth, phase, parent, request, result>>
      /\ item.event \in Events
    BY DEF DelegationInv, Report, Sink, Progress
<1>2. progress' \in [Delegations -> Seq(Progress)] /\ StoreOK(d)'
    <2>1. CASE item.event \in Stored(d)
        <3>1. progress' = progress /\ notified'[d] = notified[d] \cup {item.event}
            BY <1>1, <2>1 DEF Report, Sink, AppendProgress, TypeOK
        <3> QED BY <1>1, <2>1, <3>1 DEF StoreOK, OrderedIn, KeptIn, Stored, TypeOK
    <2>2. CASE item.event \notin Stored(d)
        <3>1. /\ item.sequence = Len(progress[d]) + 1
              /\ progress' = [progress EXCEPT ![d] = Append(progress[d], item)]
            BY <2>2 DEF Report, Sink, AppendProgress
        <3> QED BY <1>1, <2>2, <3>1, AppendOK
    <2> QED BY <2>1, <2>2
<1>3. TypeOK'
    BY <1>1, <1>2 DEF TypeOK
<1>4. ASSUME NEW x \in Delegations PROVE StoreOK(x)'
    <2>1. CASE x # d
        <3>1. progress'[x] = progress[x] /\ notified'[x] = notified[x]
            BY <1>1, <2>1 DEF Report, Sink, AppendProgress, TypeOK
        <3> QED BY <3>1, <1>1, StoreFrame DEF DelegationInv
    <2> QED BY <2>1, <1>2
<1>5. ASSUME NEW x \in Delegations PROVE TreeOK(x)'
    BY <1>1 DEF DelegationInv, TreeOK
<1> QED BY <1>1, <1>3, <1>4, <1>5 DEF DelegationInv

-----------------------------------------------------------------------------
LEMMA StepOK == DelegationInv /\ [Next]_vars => DelegationInv'
<1> SUFFICES ASSUME DelegationInv, [Next]_vars PROVE DelegationInv'
    OBVIOUS
<1>1. CASE \E s \in Sessions, d \in Delegations, t \in Targets, asked \in Asked :
              Start(s, d, t, asked) \/ Reject(s, d, t, asked)
    BY <1>1, StartOK, RejectOK
<1>2. CASE \E s \in Sessions, end \in {"completed", "failed"} : Complete(s, end)
    BY <1>2, CompleteOK
<1>3. ASSUME NEW d \in Delegations, Manage(d) PROVE DelegationInv'
    BY <1>3, OpenOK, OpenFailsOK, SettleOK DEF Manage
<1>4. ASSUME NEW d \in Delegations, Handle(d) PROVE DelegationInv'
    <2>1. CASE HandlerEnds(d)
        BY <2>1, ReturnOK, RaiseOK DEF HandlerEnds
    <2>2. ASSUME NEW sequence \in 1..EngineSteps + 1, NEW e \in Events, NEW a \in Artifacts,
                 Report(d, [sequence |-> sequence, event |-> e, artifact |-> a])
          PROVE  DelegationInv'
        <3>1. [sequence |-> sequence, event |-> e, artifact |-> a] \in Progress
            BY DEF Progress
        <3> QED BY <2>2, <3>1, ReportOK
    <2> QED BY <2>1, <2>2, <1>4 DEF Handle
<1>5. CASE UNCHANGED vars
    <2>1. TypeOK'
        BY <1>5 DEF DelegationInv, TypeOK, vars
    <2>2. ASSUME NEW x \in Delegations PROVE TreeOK(x)' /\ StoreOK(x)'
        BY <1>5, StoreFrame DEF DelegationInv, TreeOK, vars
    <2> QED BY <1>5, <2>1, <2>2 DEF DelegationInv, vars
<1> QED BY <1>1, <1>2, <1>3, <1>4, <1>5 DEF Next

\* The inductive invariant: open delegations are chains of synchronous calls.
THEOREM DelegationCorrect == Spec => []DelegationInv
BY InitOK, StepOK, PTL DEF Spec

\* Capabilities shrink and depth is bounded down every chain of delegations.
THEOREM ScopeTheorem == Spec => []ScopeNested
<1>1. DelegationInv => ScopeNested
    BY DEF DelegationInv, ScopeNested, TreeOK
<1> QED BY <1>1, DelegationCorrect, PTL

\* No child outlives its parent or its delegation.
THEOREM OrphanTheorem == Spec => []NoOrphans
<1>1. DelegationInv => NoOrphans
    <2> SUFFICES ASSUME DelegationInv, NEW d \in Delegations
                 PROVE  /\ status[d] = "active" => status[parent[d]] = "active"
                        /\ phase[d] = "finished" => status[d] # "active"
        BY DEF NoOrphans
    <2> QED BY DEF DelegationInv, TreeOK, TypeOK
<1> QED BY <1>1, DelegationCorrect, PTL

\* Progress in the store is gap-free, without repetitions and within max_steps.
THEOREM ProgressTheorem == Spec => []ProgressOrdered
<1>1. DelegationInv => ProgressOrdered
    BY DEF DelegationInv, ProgressOrdered, StoreOK
<1> QED BY <1>1, DelegationCorrect, PTL

\* Published progress is in the store.
THEOREM DurableTheorem == Spec => []ProgressDurable
<1>1. DelegationInv => ProgressDurable
    BY DEF DelegationInv, ProgressDurable, StoreOK
<1> QED BY <1>1, DelegationCorrect, PTL

\* No result loses reported artifacts.
THEOREM ResultTheorem == Spec => []ResultKeepsProgress
<1>1. DelegationInv => ResultKeepsProgress
    BY DEF DelegationInv, ResultKeepsProgress, StoreOK
<1> QED BY <1>1, DelegationCorrect, PTL
=============================================================================
