----------------------------- MODULE Delegation -----------------------------
(***************************************************************************)
(* DelegationManager.delegate (delegation/): a session asks for a child    *)
(* session with a part of its own capabilities, a handler works in the     *)
(* child and reports progress, and exactly one result comes back.  The     *)
(* sessions form a tree: a handler may delegate from the child it was      *)
(* given, and several roots, each in a thread of its own, share the        *)
(* manager, its store and the kernel.                                      *)
(*                                                                         *)
(* A handler is any DelegationPort: it may report any progress, repeat a   *)
(* report, close its child, return any result or raise.  (ChildAgent is    *)
(* the handler the repository ships.)  A report that progress_sink or the  *)
(* store refuses changes nothing: the handler sees an exception.           *)
(*                                                                         *)
(* Data abstraction.  A delegation creates at most one child, which is     *)
(* named after it.  Progress, artifacts and results are kept to their ids. *)
(***************************************************************************)
EXTENDS Integers, Sequences

CONSTANTS
    Roots,         \* sessions made by create_root
    Delegations,   \* delegation ids, and the child sessions they open
    None,          \* no session, no target
    Capabilities,  \* tool names
    Targets,       \* delegation targets
    Resolvable,    \* the targets exactly one registered handler can handle
    Asked,         \* the policies of delegate actions
    Events,        \* DelegationProgress.event_id
    Artifacts,     \* ArtifactEnvelope.artifact_id
    Returns,       \* the sets of artifacts a handler may return
    EngineSteps,   \* DelegationPolicyEngine.max_steps
    EngineDepth    \* DelegationPolicyEngine.max_depth

Sessions == Roots \cup Delegations

\* A policy as an action writes it: allowed_capabilities listed or left out.
AskedPolicies ==
    [kind : {"default", "listed"}, caps : SUBSET Capabilities, steps : Int, depth : Int]

ASSUME DelegationAssumption ==
    /\ Roots \cap Delegations = {}
    /\ None \notin Sessions \cup Targets
    /\ Resolvable \subseteq Targets
    /\ Asked \subseteq AskedPolicies
    /\ Returns \subseteq SUBSET Artifacts
    /\ EngineSteps \in Nat /\ EngineDepth \in Nat

VARIABLES
    status,    \* lifecycle of each session
    scope,     \* allowed_capabilities of each session
    depth,     \* identity.depth of each session
    phase,     \* how far each delegate call has come
    parent,    \* the session each delegation was asked by
    request,   \* the store's requests: target and active policy
    progress,  \* the store's progress lists
    notified,  \* event ids of published delegation.progress events
    result     \* the result, in the store once the phase is "finished"

vars == <<status, scope, depth, phase, parent, request, progress, notified, result>>

Requests == [target : Targets \cup {None}, caps : SUBSET Capabilities, steps : Int]
Progress == [sequence : Int, event : Events, artifact : Artifacts]
Outcomes == {"success", "failed", "rejected", "timeout"}

\* The artifacts of a result: those reported as progress come first, in order.
Results ==
    [outcome : Outcomes \cup {"none"}, reported : Seq(Artifacts), others : SUBSET Artifacts]


NoRequest == [target |-> None, caps |-> {}, steps |-> 0]
Empty(outcome) == [outcome |-> outcome, reported |-> <<>>, others |-> {}]

\* The type invariant: sessions, delegations and what the store keeps of them.
TypeOK ==
    /\ status \in [Sessions -> {"none", "active", "completed", "failed"}]
    /\ scope \in [Sessions -> SUBSET Capabilities]
    /\ depth \in [Sessions -> Nat]
    /\ phase \in [Delegations -> {"none", "started", "running", "returned", "closed", "finished"}]
    /\ parent \in [Delegations -> Sessions \cup {None}]
    /\ request \in [Delegations -> Requests]
    /\ progress \in [Delegations -> Seq(Progress)]
    /\ notified \in [Delegations -> SUBSET Events]
    /\ result \in [Delegations -> Results]

\* The roots are there, with any scope create_root grants.
Init ==
    /\ status = [s \in Sessions |-> IF s \in Roots THEN "active" ELSE "none"]
    /\ \E granted \in [Roots -> SUBSET Capabilities] :
          scope = [s \in Sessions |-> IF s \in Roots THEN granted[s] ELSE {}]
    /\ depth = [s \in Sessions |-> 0]
    /\ phase = [d \in Delegations |-> "none"]
    /\ parent = [d \in Delegations |-> None]
    /\ request = [d \in Delegations |-> NoRequest]
    /\ progress = [d \in Delegations |-> <<>>]
    /\ notified = [d \in Delegations |-> {}]
    /\ result = [d \in Delegations |-> Empty("none")]

-----------------------------------------------------------------------------
\* delegate() is a synchronous call: while one of its delegations is open, the
\* thread of a session is inside it.

InControl(s) ==
    /\ s \in Delegations => phase[s] = "running"
    /\ \A d \in Delegations : parent[d] = s => phase[d] = "finished"

\* DelegationPolicy.from_dict: what is left out and what is listed as empty are
\* the same empty set.
FromDict(asked) == IF asked.kind = "default" THEN {} ELSE asked.caps

\* `policy.allowed_capabilities or parent.allowed_capabilities'.
ActiveCaps(s, asked) == IF FromDict(asked) = {} THEN scope[s] ELSE FromDict(asked)

\* DelegationPolicyEngine.validate.
Validate(s, asked) ==
    /\ asked.steps >= 1 /\ asked.steps <= EngineSteps
    /\ asked.depth >= 1 /\ asked.depth <= EngineDepth
    /\ depth[s] + 1 <= asked.depth
    /\ ActiveCaps(s, asked) \subseteq scope[s]

\* store.start and delegation.started.
Record(s, d, t, caps, steps) ==
    /\ status[s] = "active"
    /\ InControl(s)
    /\ phase[d] = "none" /\ d # s
    /\ parent' = [parent EXCEPT ![d] = s]
    /\ request' = [request EXCEPT ![d] = [target |-> t, caps |-> caps, steps |-> steps]]
    /\ UNCHANGED <<status, scope, depth, progress, notified>>

\* delegate() with a policy the engine accepts.
Start(s, d, t, asked) ==
    /\ Validate(s, asked)
    /\ Record(s, d, t, ActiveCaps(s, asked), asked.steps)
    /\ phase' = [phase EXCEPT ![d] = "started"]
    /\ UNCHANGED result

\* A policy the engine refuses becomes a rejected result; the request keeps the
\* policy that was asked for.
Reject(s, d, t, asked) ==
    /\ ~Validate(s, asked)
    /\ Record(s, d, t, FromDict(asked), asked.steps)
    /\ phase' = [phase EXCEPT ![d] = "finished"]
    /\ result' = [result EXCEPT ![d] = Empty("rejected")]

\* The handler is resolved and create_child opens the child.
Openable(d) == request[d].target \in Resolvable /\ request[d].caps \subseteq scope[parent[d]]

\* Mutant: the child gets the scope of a root.
OpenAsRoot(d) ==
    /\ phase[d] = "started"
    /\ Openable(d)
    /\ status' = [status EXCEPT ![d] = "active"]
    /\ scope' = [scope EXCEPT ![d] = Capabilities]
    /\ depth' = [depth EXCEPT ![d] = depth[parent[d]] + 1]
    /\ phase' = [phase EXCEPT ![d] = "running"]
    /\ UNCHANGED <<parent, request, progress, notified, result>>

Open(d) ==
    /\ phase[d] = "started"
    /\ Openable(d)
    /\ status' = [status EXCEPT ![d] = "active"]
    /\ scope' = [scope EXCEPT ![d] = request[d].caps]
    /\ depth' = [depth EXCEPT ![d] = depth[parent[d]] + 1]
    /\ phase' = [phase EXCEPT ![d] = "running"]
    /\ UNCHANGED <<parent, request, progress, notified, result>>

\* Mutant: the exception leaves delegate().
OpenRaises(d) == phase[d] = "started" /\ ~Openable(d) /\ UNCHANGED vars

\* No handler, several handlers, or create_child refuses: no child is opened.
OpenFails(d) ==
    /\ phase[d] = "started"
    /\ ~Openable(d)
    /\ phase' = [phase EXCEPT ![d] = "finished"]
    /\ result' = [result EXCEPT ![d] =
          Empty(IF request[d].target \in Resolvable THEN "rejected" ELSE "failed")]
    /\ UNCHANGED <<status, scope, depth, parent, request, progress, notified>>

-----------------------------------------------------------------------------
\* What a handler does, in control of its child.

Stored(d) == {progress[d][i].event : i \in 1..Len(progress[d])}

\* store.append_progress where it does not raise.
AppendProgress(d, item) ==
    IF item.event \in Stored(d)
    THEN UNCHANGED progress
    ELSE /\ item.sequence = Len(progress[d]) + 1
         /\ progress' = [progress EXCEPT ![d] = Append(progress[d], item)]

\* progress_sink where it does not raise: the store first, then the event.
Sink(d, item) ==
    /\ item.sequence <= request[d].steps
    /\ AppendProgress(d, item)
    /\ notified' = [notified EXCEPT ![d] = notified[d] \cup {item.event}]

Report(d, item) ==
    /\ phase[d] = "running"
    /\ InControl(d)
    /\ Sink(d, item)
    /\ UNCHANGED <<status, scope, depth, phase, parent, request, result>>

\* complete_task or fail_task of a session by the code that drives it.
Complete(s, end) ==
    /\ status[s] = "active"
    /\ InControl(s)
    /\ status' = [status EXCEPT ![s] = end]
    /\ UNCHANGED <<scope, depth, phase, parent, request, progress, notified, result>>

ProgressArtifacts(d) == [i \in 1..Len(progress[d]) |-> progress[d][i].artifact]

Reported(d) == {progress[d][i].artifact : i \in 1..Len(progress[d])}

\* The handler returns a result with the right ids.
Return(d, outcome, returned) ==
    /\ phase[d] = "running"
    /\ InControl(d)
    /\ result' = [result EXCEPT ![d] =
          [outcome |-> outcome, reported |-> ProgressArtifacts(d),
           others |-> returned \ Reported(d)]]
    /\ phase' = [phase EXCEPT ![d] = "returned"]
    /\ UNCHANGED <<status, scope, depth, parent, request, progress, notified>>

\* The handler raises, or its result has the wrong ids.
Raise(d) ==
    /\ phase[d] = "running"
    /\ InControl(d)
    /\ result' = [result EXCEPT ![d] =
          [outcome |-> "failed", reported |-> ProgressArtifacts(d), others |-> {}]]
    /\ phase' = [phase EXCEPT ![d] = "returned"]
    /\ UNCHANGED <<status, scope, depth, parent, request, progress, notified>>

\* Mutant: only a successful child is closed.
SettleSuccess(d) ==
    /\ phase[d] = "returned"
    /\ status' = [status EXCEPT ![d] =
          IF @ = "active" /\ result[d].outcome = "success" THEN "completed" ELSE @]
    /\ phase' = [phase EXCEPT ![d] = "closed"]
    /\ UNCHANGED <<scope, depth, parent, request, progress, notified, result>>

\* A child its handler left active is closed as the outcome says.
Settle(d) ==
    /\ phase[d] = "returned"
    /\ status' = [status EXCEPT ![d] =
          IF status[d] # "active" THEN status[d]
          ELSE IF result[d].outcome = "success" THEN "completed" ELSE "failed"]
    /\ phase' = [phase EXCEPT ![d] = "closed"]
    /\ UNCHANGED <<scope, depth, parent, request, progress, notified, result>>

\* store.finish and delegation.finished.
Finish(d) ==
    /\ phase[d] = "closed"
    /\ phase' = [phase EXCEPT ![d] = "finished"]
    /\ UNCHANGED <<status, scope, depth, parent, request, progress, notified, result>>

-----------------------------------------------------------------------------
Manage(d) == Open(d) \/ OpenFails(d) \/ Settle(d) \/ Finish(d)

HandlerEnds(d) ==
    \/ \E outcome \in Outcomes, returned \in Returns : Return(d, outcome, returned)
    \/ Raise(d)

Handle(d) ==
    \/ \E sequence \in 1..EngineSteps + 1, e \in Events, a \in Artifacts :
          Report(d, [sequence |-> sequence, event |-> e, artifact |-> a])
    \/ HandlerEnds(d)

Next ==
    \/ \E s \in Sessions, d \in Delegations, t \in Targets, asked \in Asked :
          Start(s, d, t, asked) \/ Reject(s, d, t, asked)
    \/ \E s \in Sessions, end \in {"completed", "failed"} : Complete(s, end)
    \/ \E d \in Delegations : Manage(d) \/ Handle(d)

Spec == Init /\ [][Next]_vars

\* delegate() is a sequence of statements, and every handler returns or raises.
FairSpec ==
    /\ Spec
    /\ \A d \in Delegations : WF_vars(Manage(d)) /\ WF_vars(HandlerEnds(d))

-----------------------------------------------------------------------------
\* Properties.

\* docs/KNOWN_RISKS.md, "scope of the child within the scope of the parent":
\* down every chain of delegations capabilities only shrink, depth counts the
\* chain, and no chain is longer than the engine's max_depth.
ScopeNested ==
    \A d \in Delegations : status[d] # "none" =>
        /\ parent[d] \in Sessions /\ status[parent[d]] # "none"
        /\ scope[d] \subseteq scope[parent[d]]
        /\ depth[d] = depth[parent[d]] + 1
        /\ depth[d] <= EngineDepth

\* No child outlives its parent: a session is active only below an active one,
\* and a delegation whose result can be read has no active child.
NoOrphans ==
    \A d \in Delegations :
        /\ status[d] = "active" => status[parent[d]] = "active"
        /\ phase[d] = "finished" => status[d] # "active"

\* The store's progress of a delegation is gap-free and in order, holds no event
\* twice however often the handler repeats itself, and stays within max_steps.
OrderedIn(d) ==
    /\ Len(progress[d]) <= EngineSteps
    /\ \A i \in 1..Len(progress[d]) :
          /\ progress[d][i].sequence = i
          /\ i <= request[d].steps
          /\ \A j \in 1..Len(progress[d]) :
                progress[d][i].event = progress[d][j].event => i = j

\* Every progress list of the store is so (save_progress, progress_sink).
ProgressOrdered == \A d \in Delegations : OrderedIn(d)

\* progress_sink, "source of truth first": whoever sees a delegation.progress
\* event finds it in the store.
ProgressDurable == \A d \in Delegations : notified[d] \subseteq Stored(d)

\* What a handler reported is in the result, in the order of the reports, also
\* when it raised.
KeptIn(d) ==
    phase[d] \in {"returned", "closed", "finished"} =>
        /\ result[d].outcome # "none"
        /\ Len(result[d].reported) = Len(progress[d])
        /\ \A i \in 1..Len(progress[d]) :
              result[d].reported[i] = progress[d][i].artifact

\* Every result is so (delegate puts the artifacts of the progress first).
ResultKeepsProgress == \A d \in Delegations : KeptIn(d)

\* Every delegation gets a result, also when it has nested ones.
DelegationEnds == \A d \in Delegations : (phase[d] # "none") ~> (phase[d] = "finished")

\* The parts of the inductive invariant.  The sessions of open delegations form
\* chains of active sessions, in which only the last one is in control.
TreeOK(d) ==
    /\ phase[d] = "none" => parent[d] = None
    /\ phase[d] # "none" => parent[d] \in Sessions \ {d} /\ status[parent[d]] # "none"
    /\ phase[d] \in {"none", "started"} => status[d] = "none"
    /\ phase[d] \in {"running", "returned", "closed"} => status[d] # "none"
    /\ phase[d] = "started" => depth[parent[d]] + 1 <= EngineDepth
    /\ phase[d] \in {"started", "running", "returned", "closed"} =>
          /\ status[parent[d]] = "active"
          /\ parent[d] \in Delegations => phase[parent[d]] = "running"
    /\ phase[d] \in {"closed", "finished"} => status[d] # "active"
    /\ status[d] # "none" =>
          /\ scope[d] \subseteq scope[parent[d]]
          /\ depth[d] = depth[parent[d]] + 1 /\ depth[d] <= EngineDepth

StoreOK(d) ==
    /\ phase[d] \in {"none", "started"} => progress[d] = <<>>
    /\ phase[d] \in {"started", "running"} => request[d].steps <= EngineSteps
    /\ OrderedIn(d)
    /\ notified[d] \subseteq Stored(d)
    /\ KeptIn(d)

\* At every moment the open delegations of a root are a chain of synchronous
\* calls, and the store holds for each what its phase promises.
DelegationInv ==
    /\ TypeOK
    /\ \A r \in Roots : status[r] # "none"
    /\ \A d \in Delegations : TreeOK(d) /\ StoreOK(d)

\* create_child: "an explicit empty set means deny all".
ExplicitEmptyDenies ==
    [][\A s \in Sessions, d \in Delegations, t \in Targets, asked \in Asked :
          Start(s, d, t, asked) /\ asked.kind = "listed" /\ asked.caps = {}
             => request'[d].caps = {}]_vars
=============================================================================
