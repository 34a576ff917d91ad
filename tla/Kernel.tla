------------------------------- MODULE Kernel -------------------------------
(***************************************************************************)
(* AgentKernel (core/): the registry and the middleware pipeline, which    *)
(* grow until the first session freezes them, and execute_tool, the one    *)
(* way from a session to a tool.  A call goes down the layers of its       *)
(* chain, into the executor, and back up with an envelope; a Retry layer   *)
(* may send it down again.  Sessions call concurrently; Directs are        *)
(* callers of AgentKernel.execute_tool that pass no context, and so are    *)
(* neither bound to a scope nor kept waiting for the freeze.               *)
(*                                                                         *)
(* TimingLog and CondenseResult pass an envelope on with the same ok and   *)
(* metadata and are one kind of layer, "pass".  A "custom" layer is any    *)
(* other middleware, BudgetGuard included: it may raise, return something  *)
(* that is no dict or an envelope of its own, or pass on what it got.      *)
(* Event subscribers cannot disturb a call: EventBus.publish swallows what *)
(* they raise.                                                             *)
(***************************************************************************)
EXTENDS Naturals, Sequences

CONSTANTS
    Tools,      \* names a caller may ask for
    Sessions,
    Directs,
    Denied,     \* deny set of PolicyGate
    Attempts,   \* Retry.attempts, max(1, attempts)
    MaxLayers   \* bound: layers a pipeline grows to

ASSUME KernelAssumption ==
    /\ Sessions \cap Directs = {}
    /\ Denied \subseteq Tools
    /\ Attempts \in Nat \ {0}
    /\ MaxLayers \in Nat

Callers == Sessions \cup Directs
Layers == {"pass", "policy", "retry", "custom"}

\* ToolDescriptor, as far as Retry reads it: "effect" is kind == "effect" with
\* idempotent False, "other" any other descriptor, DEFAULT_DESCRIPTOR too.
Descriptors == {"effect", "other"}

VARIABLES
    registry,  \* descriptor of every registered tool, "absent" for the others
    fallback,  \* whether a fallback executor is set
    pipeline,  \* _middlewares, outer to inner
    frozen,
    session,   \* lifecycle of every session
    scope,     \* allowed_capabilities of every session
    call,      \* the latest call of every caller
    trace,     \* events published in that call
    ran        \* how often that call entered an executor

kernelVars == <<registry, fallback, pipeline, frozen, session, scope, call, trace, ran>>
buildVars == <<registry, fallback, pipeline, frozen>>
sessionVars == <<session, scope>>

\* What a layer hands to the one around it.  form: an "ok" or "failed" dict, a
\* dict marked policy_block, something else than a dict, an exception on its
\* way up; "scope" and "closed" are answers that never entered the pipeline.
\* descriptor: what the dict's metadata says of the tool, "none" if it says nothing;
\* "null" if the dict's metadata is None.
Forms == {"none", "ok", "failed", "blocked", "malformed", "raised", "scope", "closed"}
Reply(form, descriptor) == [form |-> form, descriptor |-> descriptor]
NoReply == Reply("none", "none")
Replies == [form : Forms, descriptor : Descriptors \cup {"none", "null"}]

\* replaced is history: a custom layer has put an envelope of its own in the place of
\* what came up to it.
Call == [pc : {"idle", "down", "up"}, tool : Tools \cup {"none"}, chain : Seq(Layers),
         pos : Nat, tries : [1 .. MaxLayers -> Nat], reply : Replies, replaced : BOOLEAN]

NoTries == [l \in 1 .. MaxLayers |-> 0]

\* One call at position p of its chain: on the way down it is about to enter layer
\* p + 1 (the executor, below the last), on the way up layer p is about to see r.
Down(k, p) == [k EXCEPT !.pc = "down", !.pos = p]
Up(k, p, r) == [k EXCEPT !.pc = "up", !.pos = p, !.reply = r]

KernelInit ==
    /\ registry = [t \in Tools |-> "absent"]
    /\ fallback = FALSE
    /\ pipeline = <<>>
    /\ frozen = FALSE
    /\ session = [s \in Sessions |-> "none"]
    /\ scope = [s \in Sessions |-> {}]
    /\ call = [c \in Callers |-> [pc |-> "idle", tool |-> "none", chain |-> <<>>, pos |-> 0,
                                  tries |-> NoTries, reply |-> NoReply, replaced |-> FALSE]]
    /\ trace = [c \in Callers |-> <<>>]
    /\ ran = [c \in Callers |-> 0]
-----------------------------------------------------------------------------
(* Building the kernel. *)

\* Mutant: registration does not look at the freeze.
RegisterAnytime(t, d) ==
    /\ registry' = [registry EXCEPT ![t] = d]
    /\ UNCHANGED <<fallback, pipeline, frozen, sessionVars, call, trace, ran>>

\* register_tool, also over an earlier registration; it raises once frozen.
Register(t, d) ==
    /\ ~frozen
    /\ registry' = [registry EXCEPT ![t] = d]
    /\ UNCHANGED <<fallback, pipeline, frozen, sessionVars, call, trace, ran>>

\* set_fallback_tool_executor, with an executor or with None.
SetFallback(there) ==
    /\ ~frozen
    /\ fallback' = there
    /\ UNCHANGED <<registry, pipeline, frozen, sessionVars, call, trace, ran>>

\* AgentKernel.use.
Use(layer) ==
    /\ ~frozen
    /\ Len(pipeline) < MaxLayers
    /\ pipeline' = Append(pipeline, layer)
    /\ UNCHANGED <<registry, fallback, frozen, sessionVars, call, trace, ran>>
-----------------------------------------------------------------------------
(* Sessions. *)

Available == {t \in Tools : registry[t] # "absent"}

\* SessionFactory.create_root: it raises for a name that is not registered, and
\* freezes the kernel.  With no scope requested, the scope is all of Available.
CreateRoot(s, requested) ==
    /\ session[s] = "none"
    /\ requested \subseteq Available
    /\ frozen' = TRUE
    /\ session' = [session EXCEPT ![s] = "active"]
    /\ scope' = [scope EXCEPT ![s] = requested]
    /\ UNCHANGED <<registry, fallback, pipeline, call, trace, ran>>

\* complete_task and fail_task, called by the session's own thread, and so between
\* two of its calls.
CompleteTask(s) ==
    /\ session[s] = "active"
    /\ call[s].pc = "idle"
    /\ session' = [session EXCEPT ![s] = "closed"]
    /\ UNCHANGED <<buildVars, scope, call, trace, ran>>
-----------------------------------------------------------------------------
(* One call. *)

NewCall(t) ==
    [pc |-> "down", tool |-> t, chain |-> pipeline, pos |-> 0, tries |-> NoTries, reply |-> NoReply,
     replaced |-> FALSE]

\* A call that is answered before it enters the pipeline.
Refused(t, form) == [NewCall(t) EXCEPT !.pc = "idle", !.reply = Reply(form, "none")]

\* AgentKernel.execute_tool up to the first layer: the request is published, and a
\* name outside the scope of the caller's context is answered at once.
Execute(c, t, inScope) ==
    /\ call' = [call EXCEPT ![c] = IF inScope THEN NewCall(t) ELSE Refused(t, "scope")]
    /\ trace' = [trace EXCEPT ![c] = IF inScope THEN <<"requested">> ELSE <<"requested", "failed">>]
    /\ ran' = [ran EXCEPT ![c] = 0]
    /\ UNCHANGED <<buildVars, sessionVars>>

\* KernelSession.execute_tool of a session that is active, and of one that is not.
SessionCall(s, t) ==
    /\ session[s] # "none"
    /\ call[s].pc = "idle"
    /\ IF session[s] = "active"
       THEN Execute(s, t, t \in scope[s])
       ELSE /\ call' = [call EXCEPT ![s] = Refused(t, "closed")]
            /\ trace' = [trace EXCEPT ![s] = <<>>]
            /\ ran' = [ran EXCEPT ![s] = 0]
            /\ UNCHANGED <<buildVars, sessionVars>>

DirectCall(d, t) ==
    /\ call[d].pc = "idle"
    /\ Execute(d, t, TRUE)

\* TimingLog and CondenseResult call the next layer and return its envelope, the
\* second with its data condensed.
PassDown(k) == Down(k, k.pos + 1)
PassUp(k) == Up(k, k.pos - 1, k.reply)

\* Mutant: the deny list is not consulted.
PolicyGateOpen(k) == PassDown(k)

\* PolicyGate answers for a denied tool.
PolicyGate(k) == IF k.tool \in Denied THEN Up(k, k.pos, Reply("blocked", "none")) ELSE PassDown(k)

\* Layer l is in its n-th try.
Tried(k, l, n) == [k EXCEPT !.tries[l] = n]

\* Retry makes its first try.
FirstTry(k) == Tried(PassDown(k), k.pos + 1, 1)

\* What a custom layer may give to the layer around it, at position p, for itself:
\* something that is no dict, an exception, or an envelope of its own, in which the
\* metadata of the tool are missing or None.
Spoilt(k, p) == {Up(k, p, Reply(f, "none")) : f \in {"malformed", "raised"}}
OwnEnvelopes(k, p) == {Up(k, p, Reply(f, d)) : f \in {"ok", "failed"}, d \in {"none", "null"}}

\* A layer on the way down; a custom layer may give up before it calls the next.
Below(layer, k) ==
    CASE layer = "policy" -> {PolicyGate(k)}
      [] layer = "retry" -> {FirstTry(k)}
      [] layer = "custom" -> {PassDown(k)} \cup Spoilt(k, k.pos) \cup OwnEnvelopes(k, k.pos)
      [] layer = "pass" -> {PassDown(k)}

EnterLayer(c) ==
    /\ call[c].pc = "down"
    /\ call[c].pos < Len(call[c].chain)
    /\ \E k \in Below(call[c].chain[call[c].pos + 1], call[c]) : call' = [call EXCEPT ![c] = k]
    /\ UNCHANGED <<buildVars, sessionVars, trace, ran>>

\* resolve_tool: the exact registration, else the fallback or the null tool, which
\* both come with the default descriptor.
Resolve(t) == IF registry[t] # "absent" THEN registry[t] ELSE "other"

\* CapabilityResult.from_raw: what core knows of the tool replaces what the executor
\* says of itself in the metadata.
FromRaw(t, form) == Reply(form, Resolve(t))

\* core: the executor answers, fails or raises (a failed dict, marked kernel_error),
\* possibly after it took effect; from_raw raises on an envelope whose parts have
\* the wrong shape.  The null tool only fails.
RunExecutor(c) ==
    LET k == call[c]
        exists == registry[k.tool] # "absent" \/ fallback
    IN  /\ k.pc = "down"
        /\ k.pos = Len(k.chain)
        /\ \E r \in {FromRaw(k.tool, "failed")} \cup
                    (IF exists THEN {FromRaw(k.tool, "ok"), Reply("raised", "none")} ELSE {}) :
               call' = [call EXCEPT ![c] = Up(k, k.pos, r)]
        /\ ran' = [ran EXCEPT ![c] = @ + 1]
        /\ UNCHANGED <<buildVars, sessionVars, trace>>

\* Mutant: whatever failed may be tried again.
RetryableAll(r) == TRUE

\* _retryable.
Retryable(r) == r.form # "blocked" /\ r.descriptor # "effect"

\* The condition of Retry's loop.
TriesAgain(k) == k.reply.form \in {"failed", "blocked"} /\ k.tries[k.pos] < Attempts /\ Retryable(k.reply)

\* Retry calls the layer below it again.
NextTry(k) == Tried(Down(k, k.pos), k.pos, k.tries[k.pos] + 1)

\* A custom layer puts an envelope of its own in the place of what it got.
Replaced(k) == {[j EXCEPT !.replaced = TRUE] : j \in OwnEnvelopes(k, k.pos - 1)}

\* Mutant: a try that a policy gate blocks is made again, and does not count.
AboveUncounted(layer, k) ==
    CASE layer = "retry" -> {IF k.reply.form = "blocked" THEN Down(k, k.pos)
                             ELSE IF TriesAgain(k) THEN NextTry(k) ELSE PassUp(k)}
      [] layer = "custom" -> {PassUp(k)} \cup Spoilt(k, k.pos - 1) \cup Replaced(k)
      [] layer \in {"pass", "policy"} -> {PassUp(k)}

\* A layer on the way up.  An exception passes every layer but a custom one, which may
\* catch it; a custom layer may spoil or replace whatever it got, and calls the next
\* layer once.
Above(layer, k) ==
    CASE layer = "retry" -> {IF TriesAgain(k) THEN NextTry(k) ELSE PassUp(k)}
      [] layer = "custom" -> {PassUp(k)} \cup Spoilt(k, k.pos - 1) \cup Replaced(k)
      [] layer \in {"pass", "policy"} -> {PassUp(k)}

LeaveLayer(c) ==
    /\ call[c].pc = "up"
    /\ call[c].pos > 0
    /\ \E k \in Above(call[c].chain[call[c].pos], call[c]) : call' = [call EXCEPT ![c] = k]
    /\ UNCHANGED <<buildVars, sessionVars, trace, ran>>

\* The end of execute_tool: an exception and a reply that is no dict become failed
\* envelopes, and the last event is published.  An envelope whose metadata is None makes
\* it raise instead, with no handler around it and before the event.
Answer(c) ==
    LET k == call[c]
    IN  /\ k.pc = "up"
        /\ k.pos = 0
        /\ call' = [call EXCEPT ![c].pc = "idle"]
        /\ trace' = IF k.reply.descriptor = "null" THEN trace
                    ELSE [trace EXCEPT ![c] = Append(@, IF k.reply.form = "ok" THEN "completed" ELSE "failed")]
        /\ UNCHANGED <<buildVars, sessionVars, ran>>

CallStep(c) == EnterLayer(c) \/ RunExecutor(c) \/ LeaveLayer(c) \/ Answer(c)

KernelNext ==
    \/ \E t \in Tools, d \in Descriptors : Register(t, d)
    \/ \E there \in BOOLEAN : SetFallback(there)
    \/ \E layer \in Layers : Use(layer)
    \/ \E s \in Sessions, requested \in SUBSET Tools : CreateRoot(s, requested)
    \/ \E s \in Sessions : CompleteTask(s)
    \/ \E s \in Sessions, t \in Tools : SessionCall(s, t)
    \/ \E d \in Directs, t \in Tools : DirectCall(d, t)
    \/ \E c \in Callers : CallStep(c)

KernelSpec == KernelInit /\ [][KernelNext]_kernelVars
-----------------------------------------------------------------------------
\* The type invariant: a call stays within the chain it was started with, however
\* its layers answer, raise or try again (_wrap).
KernelTypeOK ==
    /\ registry \in [Tools -> Descriptors \cup {"absent"}]
    /\ fallback \in BOOLEAN
    /\ pipeline \in Seq(Layers) /\ Len(pipeline) <= MaxLayers
    /\ frozen \in BOOLEAN
    /\ session \in [Sessions -> {"none", "active", "closed"}]
    /\ scope \in [Sessions -> SUBSET Tools]
    /\ call \in [Callers -> Call]
    /\ \A c \in Callers : Len(call[c].chain) <= MaxLayers /\ call[c].pos <= Len(call[c].chain)
    /\ trace \in [Callers -> Seq({"requested", "completed", "failed"})]
    /\ ran \in [Callers -> Nat]

\* A call of a session enters the executor of a non-idempotent effect at most once,
\* whatever the order of its layers, and however the executor or a layer fails: no Retry
\* runs such an effect again (middleware/retry.py), because the registry its descriptor
\* comes from cannot change under the call (freeze in create_root).  The exception is a
\* call in which a custom layer has replaced an envelope, and with it the metadata that
\* Retry reads.
EffectsOnce ==
    \A s \in Sessions :
        call[s].tool \in Tools /\ registry[call[s].tool] = "effect" /\ ~call[s].replaced => ran[s] <= 1

\* What the scope of a session or the deny list of a gate in its pipeline excludes
\* is never executed by a call of that session, wherever the gate stands.
RefusedNeverRuns ==
    \A s \in Sessions :
        /\ session[s] # "none" /\ call[s].tool # "none" /\ call[s].tool \notin scope[s] => ran[s] = 0
        /\ call[s].tool \in Denied /\ (\E i \in 1 .. Len(call[s].chain) : call[s].chain[i] = "policy")
               => ran[s] = 0

\* A session never reaches the fallback executor or the null tool, whose default
\* descriptor would let Retry repeat them: its scope holds registered names only.
ScopeRegistered == \A s \in Sessions : scope[s] \subseteq Available

\* The events a call has published when it has ended with reply r.
EventsOf(r) ==
    IF r.form \in {"none", "closed"} THEN <<>>
    ELSE IF r.descriptor = "null" THEN <<"requested">>
    ELSE IF r.form = "ok" THEN <<"requested", "completed">>
    ELSE <<"requested", "failed">>

HasCustom(c) == \E i \in 1 .. Len(call[c].chain) : call[c].chain[i] = "custom"

\* The events of a finished call are one request and one matching end: "completed"
\* exactly when the caller is given an ok envelope, also when a layer raises,
\* returns no dict or answers itself; a session that is not active publishes none.
\* A call ends without its second event only below a custom layer that sets the
\* metadata of an envelope to None: execute_tool then raises (kernel.py:156).
EventsMatchAnswer ==
    \A c \in Callers :
        /\ call[c].pc = "idle" => trace[c] = EventsOf(call[c].reply)
        /\ call[c].reply.descriptor = "null" => HasCustom(c)

\* An ended session executes nothing and publishes nothing more.
EndedSilent ==
    [][\A s \in Sessions : session[s] = "closed" =>
           trace'[s] \in {trace[s], <<>>} /\ ran'[s] \in {ran[s], 0}]_kernelVars

\* A call has been answered, or has raised for the sake of a custom layer.
Ended(c) ==
    /\ call[c].pc = "idle"
    /\ \/ Len(trace[c]) = 2
       \/ call[c].reply.descriptor = "null" /\ HasCustom(c)

\* Every call ends, however its layers and its tool misbehave: it is answered, with the
\* event that closes its request, or, only if a custom layer has set the metadata of its
\* envelope to None, raises.
CallsAnswered == \A c \in Callers : call[c].pc # "idle" ~> Ended(c)
-----------------------------------------------------------------------------
(* The inductive invariant of the proofs. *)

\* The answers a call carries on its way up.
UpForms == {"ok", "failed", "blocked", "malformed", "raised"}

\* What holds of every call.
CallInv(c) ==
    /\ call[c].pc # "idle" => call[c].tool \in Tools /\ trace[c] = <<"requested">>
    /\ call[c].pc = "up" => call[c].reply.form \in UpForms
    /\ call[c].pc = "idle" => trace[c] = EventsOf(call[c].reply)
    /\ call[c].reply.descriptor = "null" => HasCustom(c)

\* A session exists only over a frozen kernel, and calls only while it is active.
SessionInv(s) ==
    /\ session[s] = "none" => call[s].pc = "idle" /\ ran[s] = 0
    /\ session[s] # "none" => frozen
    /\ session[s] = "closed" => call[s].pc = "idle"
    /\ scope[s] \subseteq Available
    /\ call[s].tool # "none" /\ call[s].tool \notin scope[s] => call[s].pc = "idle" /\ ran[s] = 0

\* A non-idempotent effect that has run is on its way up with an answer that no
\* Retry takes for a reason to go down again, as long as no layer replaces it.
EffectInv(s) ==
    call[s].tool \in Tools /\ registry[call[s].tool] = "effect" /\ ~call[s].replaced =>
        /\ ran[s] <= 1
        /\ call[s].pc = "down" => ran[s] = 0
        /\ call[s].pc = "up" /\ ran[s] # 0 => ~(call[s].reply.form \in {"failed", "blocked"} /\ Retryable(call[s].reply))

\* A call of a denied tool never gets below a policy layer.
DeniedInv(s) ==
    call[s].tool \in Denied =>
        \A i \in 1 .. Len(call[s].chain) : call[s].chain[i] = "policy" =>
            ran[s] = 0 /\ (call[s].pc # "idle" => call[s].pos < i)

\* What makes the properties above inductive: a call in flight has published its
\* request and nothing else, a session exists only over a frozen kernel, an effect
\* that has run only goes up, and a denied tool stays above every policy gate.
KernelInv ==
    /\ KernelTypeOK
    /\ \A c \in Callers : CallInv(c)
    /\ \A s \in Sessions : SessionInv(s) /\ EffectInv(s) /\ DeniedInv(s)
=============================================================================
