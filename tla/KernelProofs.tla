---------------------------- MODULE KernelProofs ----------------------------
(***************************************************************************)
(* Proofs about Kernel: what a session's calls may execute, how often, and *)
(* what they publish, for every set of tools, every pipeline and any       *)
(* number of attempts; and about ChatCall: it implements Kernel, and the   *)
(* requests of one call are bounded, for every LLM_MAX_RETRIES.            *)
(***************************************************************************)
EXTENDS ChatCall, SequenceTheorems, TLAPS

-----------------------------------------------------------------------------
(* The records of a call. *)

LEMMA DownFields ==
    ASSUME NEW k \in Call, NEW p \in Nat
    PROVE  /\ Down(k, p) \in Call /\ Down(k, p).pc = "down" /\ Down(k, p).pos = p
           /\ Down(k, p).tool = k.tool /\ Down(k, p).chain = k.chain /\ Down(k, p).reply = k.reply
           /\ Down(k, p).tries = k.tries /\ Down(k, p).replaced = k.replaced
BY DEF Call, Down

LEMMA UpFields ==
    ASSUME NEW k \in Call, NEW p \in Nat, NEW r \in Replies
    PROVE  /\ Up(k, p, r) \in Call /\ Up(k, p, r).pc = "up" /\ Up(k, p, r).pos = p
           /\ Up(k, p, r).tool = k.tool /\ Up(k, p, r).chain = k.chain /\ Up(k, p, r).reply = r
           /\ Up(k, p, r).replaced = k.replaced
BY DEF Call, Up

LEMMA ReplyFields ==
    ASSUME NEW f \in Forms, NEW d \in Descriptors \cup {"none", "null"}
    PROVE  Reply(f, d) \in Replies /\ Reply(f, d).form = f /\ Reply(f, d).descriptor = d
BY DEF Reply, Replies

\* A try changes the count of its layer and nothing else.
LEMMA TriesFields ==
    ASSUME NEW k \in Call, NEW l \in 1 .. MaxLayers, NEW n \in Nat
    PROVE  /\ Tried(k, l, n) \in Call /\ Tried(k, l, n).pc = k.pc /\ Tried(k, l, n).pos = k.pos
           /\ Tried(k, l, n).tool = k.tool /\ Tried(k, l, n).chain = k.chain
           /\ Tried(k, l, n).reply = k.reply /\ Tried(k, l, n).replaced = k.replaced
<1>1. k.tries \in [1 .. MaxLayers -> Nat]
    BY DEF Call
<1>2. [k.tries EXCEPT ![l] = n] \in [1 .. MaxLayers -> Nat]
    BY <1>1
<1> QED
    BY <1>2 DEF Call, Tried

\* The answer of a policy gate.
LEMMA BlockedShape ==
    ASSUME NEW k \in Call, NEW p \in Nat
    PROVE  /\ Up(k, p, Reply("blocked", "none")) \in Call
           /\ Up(k, p, Reply("blocked", "none")).pc = "up"
           /\ Up(k, p, Reply("blocked", "none")).pos = p
           /\ Up(k, p, Reply("blocked", "none")).tool = k.tool
           /\ Up(k, p, Reply("blocked", "none")).chain = k.chain
           /\ Up(k, p, Reply("blocked", "none")).replaced = k.replaced
           /\ Up(k, p, Reply("blocked", "none")).reply.form = "blocked"
           /\ Up(k, p, Reply("blocked", "none")).reply.descriptor = "none"
<1>1. PICK r \in Replies : r = Reply("blocked", "none") /\ r.form = "blocked" /\ r.descriptor = "none"
    BY ReplyFields DEF Forms
<1>2. /\ Up(k, p, r) \in Call /\ Up(k, p, r).pc = "up" /\ Up(k, p, r).pos = p
      /\ Up(k, p, r).tool = k.tool /\ Up(k, p, r).chain = k.chain /\ Up(k, p, r).reply = r
      /\ Up(k, p, r).replaced = k.replaced
    BY UpFields
<1> QED
    BY <1>1, <1>2

\* A custom layer that spoils a call, and one that answers it with an envelope of its own.
LEMMA SpoiltShape ==
    ASSUME NEW k \in Call, NEW p \in Nat, NEW j \in Spoilt(k, p)
    PROVE  /\ j \in Call /\ j.pc = "up" /\ j.pos = p /\ j.tool = k.tool /\ j.chain = k.chain
           /\ j.replaced = k.replaced
           /\ j.reply.form \in {"malformed", "raised"} /\ j.reply.descriptor = "none"
<1>1. PICK f \in {"malformed", "raised"} : j = Up(k, p, Reply(f, "none"))
    BY DEF Spoilt
<1>2. Reply(f, "none") \in Replies /\ Reply(f, "none").form = f /\ Reply(f, "none").descriptor = "none"
    BY ReplyFields DEF Forms
<1> QED
    BY <1>1, <1>2, UpFields

LEMMA OwnShape ==
    ASSUME NEW k \in Call, NEW p \in Nat, NEW j \in OwnEnvelopes(k, p)
    PROVE  /\ j \in Call /\ j.pc = "up" /\ j.pos = p /\ j.tool = k.tool /\ j.chain = k.chain
           /\ j.replaced = k.replaced
           /\ j.reply.form \in {"ok", "failed"}
<1>1. PICK f \in {"ok", "failed"}, d \in {"none", "null"} : j = Up(k, p, Reply(f, d))
    BY DEF OwnEnvelopes
<1>2. Reply(f, d) \in Replies /\ Reply(f, d).form = f
    BY ReplyFields DEF Forms
<1> QED
    BY <1>1, <1>2, UpFields

\* What a layer makes of a call on the way down.
LEMMA BelowShape ==
    ASSUME NEW k \in Call, k.pos < Len(k.chain), Len(k.chain) <= MaxLayers,
           NEW layer \in Layers, NEW j \in Below(layer, k)
    PROVE  /\ j \in Call /\ j.tool = k.tool /\ j.chain = k.chain /\ j.replaced = k.replaced
           /\ \/ /\ j.pc = "down" /\ j.pos = k.pos + 1 /\ j.reply = k.reply
                 /\ ~(layer = "policy" /\ k.tool \in Denied)
              \/ /\ j.pc = "up" /\ j.pos = k.pos
                 /\ j.reply.form \in UpForms
                 /\ j.reply.descriptor = "null" => layer = "custom"
<1> USE KernelAssumption
<1>1. /\ k.pos \in Nat /\ k.pos + 1 \in Nat /\ Len(k.chain) \in Nat
      /\ k.pos + 1 \in 1 .. MaxLayers
    BY DEF Call
<1>3. /\ PassDown(k) \in Call /\ PassDown(k).pc = "down" /\ PassDown(k).pos = k.pos + 1
      /\ PassDown(k).tool = k.tool /\ PassDown(k).chain = k.chain
      /\ PassDown(k).reply = k.reply /\ PassDown(k).replaced = k.replaced
    BY <1>1, DownFields DEF PassDown
<1>4. CASE layer = "policy"
    <2>1. j = IF k.tool \in Denied THEN Up(k, k.pos, Reply("blocked", "none")) ELSE PassDown(k)
        BY <1>4 DEF Below, PolicyGate, Layers
    <2>3. CASE k.tool \in Denied
        <3>1. j = Up(k, k.pos, Reply("blocked", "none"))
            BY <2>1, <2>3
        <3>2. /\ j \in Call /\ j.pc = "up" /\ j.pos = k.pos /\ j.tool = k.tool /\ j.chain = k.chain
              /\ j.replaced = k.replaced
              /\ j.reply.form = "blocked" /\ j.reply.descriptor = "none"
            <4> DEFINE b == Up(k, k.pos, Reply("blocked", "none"))
            <4>1. /\ b \in Call /\ b.pc = "up" /\ b.pos = k.pos /\ b.tool = k.tool /\ b.chain = k.chain
                  /\ b.replaced = k.replaced
                  /\ b.reply.form = "blocked" /\ b.reply.descriptor = "none"
                <5> HIDE KernelAssumption
                <5>1. k.pos \in Nat
                    BY <1>1
                <5> QED
                    BY <5>1, BlockedShape, ZenonT(60)
            <4>2. j = b
                BY <3>1
            <4> HIDE DEF b
            <4> QED
                BY <4>1, <4>2
        <3>3. j.reply.form \in UpForms /\ j.reply.descriptor # "null"
            BY <3>2 DEF UpForms
        <3> QED
            BY <3>2, <3>3, Zenon
    <2>4. CASE k.tool \notin Denied
        <3>1. j = PassDown(k)
            BY <2>1, <2>4
        <3> QED
            BY <2>4, <3>1, <1>3
    <2> QED
        BY <2>3, <2>4
<1>5. CASE layer = "retry"
    <2> DEFINE d == PassDown(k)
               l == k.pos + 1
    <2>1. j = Tried(d, l, 1)
        BY <1>5 DEF Below, FirstTry, Layers
    <2>2. d \in Call /\ l \in 1 .. MaxLayers
        BY <1>1, <1>3
    <2> HIDE DEF d, l
    <2>3. /\ j \in Call /\ j.pc = d.pc /\ j.pos = d.pos /\ j.tool = d.tool /\ j.chain = d.chain
          /\ j.reply = d.reply /\ j.replaced = d.replaced
        <3>1. PICK n \in Nat : n = 1
            OBVIOUS
        <3> HIDE KernelAssumption
        <3>2. /\ Tried(d, l, n) \in Call /\ Tried(d, l, n).pc = d.pc /\ Tried(d, l, n).pos = d.pos
              /\ Tried(d, l, n).tool = d.tool /\ Tried(d, l, n).chain = d.chain
              /\ Tried(d, l, n).reply = d.reply /\ Tried(d, l, n).replaced = d.replaced
            BY <2>2, TriesFields
        <3>3. j = Tried(d, l, n)
            BY <2>1, <3>1
        <3> QED
            BY <3>2, <3>3
    <2> QED
        BY <2>3, <1>3, <1>5 DEF d
<1>6. CASE layer = "custom"
    <2>1. j = PassDown(k) \/ j \in Spoilt(k, k.pos) \/ j \in OwnEnvelopes(k, k.pos)
        BY <1>6 DEF Below, Layers
    <2>2. CASE j = PassDown(k)
        BY <2>2, <1>3, <1>6
    <2>3. CASE j \in Spoilt(k, k.pos)
        BY <2>3, <1>1, SpoiltShape DEF UpForms
    <2>4. CASE j \in OwnEnvelopes(k, k.pos)
        BY <2>4, <1>1, <1>6, OwnShape DEF UpForms
    <2> QED
        BY <2>1, <2>2, <2>3, <2>4
<1>7. CASE layer = "pass"
    BY <1>3, <1>7 DEF Below, Layers
<1> QED
    BY <1>4, <1>5, <1>6, <1>7 DEF Layers

\* What a layer makes of a call on the way up: it sends it down again, hands on what it
\* got, spoils it, or replaces it.
LEMMA AboveShape ==
    ASSUME NEW k \in Call, k.pos \in Nat \ {0}, k.pos <= Len(k.chain), Len(k.chain) <= MaxLayers,
           k.reply.form \in UpForms, NEW layer \in Layers, NEW j \in Above(layer, k)
    PROVE  /\ j \in Call /\ j.tool = k.tool /\ j.chain = k.chain
           /\ \/ /\ j.pc = "down" /\ j.pos = k.pos /\ j.reply = k.reply /\ j.replaced = k.replaced
                 /\ k.reply.form \in {"failed", "blocked"} /\ Retryable(k.reply)
              \/ /\ j.pc = "up" /\ j.pos = k.pos - 1
                 /\ j.reply.form \in UpForms
                 /\ \/ j.reply = k.reply /\ j.replaced = k.replaced
                    \/ /\ j.reply.form \in {"malformed", "raised"} /\ j.reply.descriptor = "none"
                       /\ j.replaced = k.replaced
                    \/ j.replaced = TRUE /\ layer = "custom"
<1> USE KernelAssumption
<1>1. /\ k.pos \in Nat /\ k.pos - 1 \in Nat /\ Len(k.chain) \in Nat /\ k.pos \in 1 .. MaxLayers
      /\ k.reply \in Replies
    BY DEF Call
<1>3. /\ PassUp(k) \in Call /\ PassUp(k).pc = "up" /\ PassUp(k).pos = k.pos - 1
      /\ PassUp(k).tool = k.tool /\ PassUp(k).chain = k.chain /\ PassUp(k).reply = k.reply
      /\ PassUp(k).replaced = k.replaced
    <2>1. PICK p \in Nat, r \in Replies : p = k.pos - 1 /\ r = k.reply
        BY <1>1
    <2> HIDE KernelAssumption
    <2>2. /\ Up(k, p, r) \in Call /\ Up(k, p, r).pc = "up" /\ Up(k, p, r).pos = p
          /\ Up(k, p, r).tool = k.tool /\ Up(k, p, r).chain = k.chain /\ Up(k, p, r).reply = r
          /\ Up(k, p, r).replaced = k.replaced
        BY UpFields
    <2>3. PassUp(k) = Up(k, p, r)
        BY <2>1 DEF PassUp
    <2> QED
        BY <2>1, <2>2, <2>3
<1>4. CASE layer \in {"pass", "policy"}
    <2>1. j = PassUp(k)
        BY <1>4 DEF Above, Layers
    <2> QED
        BY <2>1, <1>3
<1>5. CASE layer = "retry"
    <2>1. CASE TriesAgain(k)
        <3>1. j = Tried(Down(k, k.pos), k.pos, k.tries[k.pos] + 1)
            BY <1>5, <2>1 DEF Above, NextTry, Layers
        <3>2. k.tries[k.pos] + 1 \in Nat
            BY <1>1 DEF Call
        <3>3. /\ Down(k, k.pos) \in Call /\ Down(k, k.pos).pc = "down" /\ Down(k, k.pos).pos = k.pos
              /\ Down(k, k.pos).tool = k.tool /\ Down(k, k.pos).chain = k.chain
              /\ Down(k, k.pos).reply = k.reply /\ Down(k, k.pos).replaced = k.replaced
            BY <1>1, DownFields
        <3>4. /\ j \in Call /\ j.pc = "down" /\ j.pos = k.pos /\ j.tool = k.tool /\ j.chain = k.chain
              /\ j.reply = k.reply /\ j.replaced = k.replaced
            <4>1. PICK d \in Call, l \in 1 .. MaxLayers, n \in Nat :
                       d = Down(k, k.pos) /\ l = k.pos /\ n = k.tries[k.pos] + 1
                BY <1>1, <3>2, <3>3
            <4> HIDE KernelAssumption
            <4>2. /\ Tried(d, l, n) \in Call /\ Tried(d, l, n).pc = d.pc /\ Tried(d, l, n).pos = d.pos
                  /\ Tried(d, l, n).tool = d.tool /\ Tried(d, l, n).chain = d.chain
                  /\ Tried(d, l, n).reply = d.reply /\ Tried(d, l, n).replaced = d.replaced
                BY TriesFields
            <4>3. j = Tried(d, l, n)
                BY <3>1, <4>1
            <4> QED
                BY <3>3, <4>1, <4>2, <4>3
        <3> QED
            BY <3>4, <2>1 DEF TriesAgain
    <2>2. CASE ~TriesAgain(k)
        <3>1. j = PassUp(k)
            BY <1>5, <2>2 DEF Above, Layers
        <3> QED
            BY <3>1, <1>3
    <2> QED
        BY <2>1, <2>2
<1>6. CASE layer = "custom"
    <2>1. \/ j = PassUp(k)
          \/ j \in Spoilt(k, k.pos - 1)
          \/ \E i \in OwnEnvelopes(k, k.pos - 1) : j = [i EXCEPT !.replaced = TRUE]
        BY <1>6 DEF Above, Replaced, Layers
    <2>2. CASE j = PassUp(k)
        BY <2>2, <1>3
    <2>3. CASE j \in Spoilt(k, k.pos - 1)
        BY <2>3, <1>1, SpoiltShape DEF UpForms
    <2>4. ASSUME NEW i \in OwnEnvelopes(k, k.pos - 1), j = [i EXCEPT !.replaced = TRUE]
          PROVE  /\ j \in Call /\ j.tool = k.tool /\ j.chain = k.chain
                 /\ j.pc = "up" /\ j.pos = k.pos - 1 /\ j.reply.form \in UpForms /\ j.replaced = TRUE
        <3>1. /\ i \in Call /\ i.pc = "up" /\ i.pos = k.pos - 1 /\ i.tool = k.tool /\ i.chain = k.chain
              /\ i.reply.form \in {"ok", "failed"}
            BY <1>1, OwnShape
        <3> QED
            BY <2>4, <3>1 DEF Call, UpForms
    <2> QED
        BY <2>1, <2>2, <2>3, <2>4, <1>6
<1> QED
    BY <1>4, <1>5, <1>6 DEF Layers

\* A reply that no Retry takes for a reason to go down again stays one, or is replaced.
LEMMA AnsweredGoesUp ==
    ASSUME NEW k \in Call, k.pos \in Nat \ {0}, k.pos <= Len(k.chain), Len(k.chain) <= MaxLayers,
           k.reply.form \in UpForms, NEW layer \in Layers, NEW j \in Above(layer, k)
    PROVE  \/ k.reply.form \in {"failed", "blocked"}
           \/ j.replaced = TRUE
           \/ j.pc = "up" /\ (j.reply = k.reply \/ j.reply.form \in {"malformed", "raised"})
BY AboveShape
-----------------------------------------------------------------------------
(* The invariant. *)

\* A caller whose own call does not move keeps its part of the invariant, while the
\* registry, the pipeline and the sessions stay.
LEMMA OthersKeep ==
    ASSUME KernelInv, UNCHANGED <<registry, frozen, session, scope>>,
           NEW c \in Callers, call'[c] = call[c], trace'[c] = trace[c], ran'[c] = ran[c]
    PROVE  CallInv(c)' /\ (c \in Sessions => SessionInv(c)' /\ EffectInv(c)' /\ DeniedInv(c)')
<1>1. CallInv(c)'
    BY DEF KernelInv, CallInv, HasCustom, EventsOf
<1>2. c \in Sessions => SessionInv(c)'
    BY DEF KernelInv, SessionInv, Available
<1>3. c \in Sessions => EffectInv(c)'
    BY DEF KernelInv, EffectInv, Retryable
<1>4. c \in Sessions => DeniedInv(c)'
    BY DEF KernelInv, DeniedInv
<1> QED
    BY <1>1, <1>2, <1>3, <1>4

\* A step of one call keeps the invariant when it keeps the part of that call.
LEMMA OneMoves ==
    ASSUME KernelInv, UNCHANGED <<buildVars, sessionVars>>, NEW c \in Callers, NEW j \in Call,
           call' = [call EXCEPT ![c] = j], Len(j.chain) <= MaxLayers, j.pos <= Len(j.chain),
           NEW t \in Seq({"requested", "completed", "failed"}), trace' = [trace EXCEPT ![c] = t],
           NEW n \in Nat, ran' = [ran EXCEPT ![c] = n],
           CallInv(c)', c \in Sessions => SessionInv(c)' /\ EffectInv(c)' /\ DeniedInv(c)'
    PROVE  KernelInv'
<1>1. KernelTypeOK'
    BY DEF KernelInv, KernelTypeOK, buildVars, sessionVars
<1>2. \A d \in Callers \ {c} : call'[d] = call[d] /\ trace'[d] = trace[d] /\ ran'[d] = ran[d]
    BY DEF KernelInv, KernelTypeOK
<1>3. \A d \in Callers \ {c} : CallInv(d)' /\ (d \in Sessions => SessionInv(d)' /\ EffectInv(d)' /\ DeniedInv(d)')
    BY <1>2, OthersKeep DEF buildVars, sessionVars
<1>4. \A d \in Callers : CallInv(d)'
    BY <1>3
<1>5. \A s \in Sessions : SessionInv(s)' /\ EffectInv(s)' /\ DeniedInv(s)'
    BY <1>3 DEF Callers
<1> QED
    BY <1>1, <1>4, <1>5 DEF KernelInv

\* Building the kernel, and opening and closing a session, keeps the invariant: while
\* the registry can change there is no session.
LEMMA BuildStep ==
    ASSUME KernelInv,
           \/ \E t \in Tools, d \in Descriptors : Register(t, d)
           \/ \E there \in BOOLEAN : SetFallback(there)
           \/ \E layer \in Layers : Use(layer)
    PROVE  KernelInv'
<1> USE KernelAssumption
<1>1. KernelTypeOK'
    <2>1. CASE \E t \in Tools, d \in Descriptors : Register(t, d)
        BY <2>1 DEF KernelInv, KernelTypeOK, Register, sessionVars
    <2>2. CASE \E there \in BOOLEAN : SetFallback(there)
        BY <2>2 DEF KernelInv, KernelTypeOK, SetFallback, sessionVars
    <2>3. CASE \E layer \in Layers : Use(layer)
        BY <2>3 DEF KernelInv, KernelTypeOK, Use, sessionVars
    <2> QED
        BY <2>1, <2>2, <2>3
<1>2. /\ ~frozen /\ UNCHANGED <<frozen, session, scope, call, trace, ran>>
      /\ \A t \in Tools : registry[t] # "absent" => registry'[t] # "absent"
    BY DEF KernelInv, KernelTypeOK, Register, SetFallback, Use, sessionVars, Descriptors
<1>3. \A s \in Sessions : session[s] = "none" /\ call[s].pc = "idle" /\ ran[s] = 0
    BY <1>2 DEF KernelInv, SessionInv
<1>4. \A c \in Callers : CallInv(c)'
    BY <1>2 DEF KernelInv, CallInv, HasCustom, EventsOf
<1>5. ASSUME NEW s \in Sessions PROVE SessionInv(s)' /\ EffectInv(s)' /\ DeniedInv(s)'
    <2>1. SessionInv(s)'
        BY <1>2, <1>3 DEF KernelInv, SessionInv, Available
    <2>2. EffectInv(s)'
        BY <1>2, <1>3 DEF EffectInv
    <2>3. DeniedInv(s)'
        BY <1>2, <1>3 DEF DeniedInv
    <2> QED
        BY <2>1, <2>2, <2>3
<1> QED
    BY <1>1, <1>4, <1>5 DEF KernelInv

LEMMA SessionStep ==
    ASSUME KernelInv,
           NEW s \in Sessions,
           (\E requested \in SUBSET Tools : CreateRoot(s, requested)) \/ CompleteTask(s)
    PROVE  KernelInv'
<1>1. KernelTypeOK'
    BY DEF KernelInv, KernelTypeOK, CreateRoot, CompleteTask, buildVars
<1>2. UNCHANGED <<registry, call, trace, ran>>
    BY DEF CreateRoot, CompleteTask, buildVars
<1>3. \A c \in Callers : CallInv(c)'
    BY <1>2 DEF KernelInv, CallInv, HasCustom, EventsOf
<1>4. \A q \in Sessions : EffectInv(q)' /\ DeniedInv(q)'
    BY <1>2 DEF KernelInv, EffectInv, DeniedInv, Retryable
<1>5. ASSUME NEW q \in Sessions PROVE SessionInv(q)'
    <2>1. CASE \E requested \in SUBSET Tools : CreateRoot(s, requested)
        <3>1. session[s] = "none" /\ call[s].pc = "idle" /\ ran[s] = 0
            BY <2>1 DEF CreateRoot, KernelInv, SessionInv
        <3>2. /\ frozen' = TRUE /\ scope'[q] \subseteq Available
              /\ q # s => scope'[q] = scope[q] /\ session'[q] = session[q]
              /\ q = s => session'[q] = "active"
            BY <2>1 DEF CreateRoot, KernelInv, KernelTypeOK, SessionInv
        <3> QED
            BY <3>1, <3>2, <1>2 DEF KernelInv, SessionInv, Available
    <2>2. CASE CompleteTask(s)
        <3>1. /\ session[s] = "active" /\ call[s].pc = "idle" /\ UNCHANGED <<frozen, scope>>
              /\ q # s => session'[q] = session[q]
              /\ q = s => session'[q] = "closed"
            BY <2>2 DEF CompleteTask, KernelInv, KernelTypeOK, buildVars
        <3> QED
            BY <3>1, <1>2 DEF KernelInv, SessionInv, Available
    <2> QED
        BY <2>1, <2>2
<1> QED
    BY <1>1, <1>3, <1>4, <1>5 DEF KernelInv

LEMMA NewCallFields ==
    ASSUME KernelInv, NEW t \in Tools, NEW form \in Forms
    PROVE  /\ NewCall(t) \in Call /\ NewCall(t).pc = "down" /\ NewCall(t).tool = t /\ NewCall(t).pos = 0
           /\ NewCall(t).chain = pipeline /\ NewCall(t).reply.descriptor = "none"
           /\ Refused(t, form) \in Call /\ Refused(t, form).pc = "idle" /\ Refused(t, form).tool = t
           /\ Refused(t, form).pos = 0 /\ Refused(t, form).chain = pipeline
           /\ Refused(t, form).reply.form = form /\ Refused(t, form).reply.descriptor = "none"
<1> USE KernelAssumption
<1>1. pipeline \in Seq(Layers) /\ NoTries \in [1 .. MaxLayers -> Nat]
    BY DEF KernelInv, KernelTypeOK, NoTries
<1>2. NoReply \in Replies /\ NoReply.descriptor = "none"
    BY ReplyFields DEF NoReply, Forms
<1>3. /\ NewCall(t) \in Call /\ NewCall(t).pc = "down" /\ NewCall(t).tool = t /\ NewCall(t).pos = 0
      /\ NewCall(t).chain = pipeline /\ NewCall(t).reply.descriptor = "none"
    BY <1>1, <1>2 DEF NewCall, Call
<1> DEFINE k == NewCall(t)
           r == Reply(form, "none")
<1>4. r \in Replies /\ r.form = form /\ r.descriptor = "none"
    BY ReplyFields
<1> HIDE DEF k, r
<1>5. [k EXCEPT !.pc = "idle", !.reply = r] \in Call /\ [k EXCEPT !.pc = "idle", !.reply = r].reply = r
    BY <1>3, <1>4 DEF k, Call
<1>6. LET e == [k EXCEPT !.pc = "idle", !.reply = r]
      IN  e.pc = "idle" /\ e.tool = k.tool /\ e.pos = k.pos /\ e.chain = k.chain
    BY <1>3 DEF k, Call
<1>7. Refused(t, form) = [k EXCEPT !.pc = "idle", !.reply = r]
    BY DEF Refused, k, r
<1> QED
    BY <1>3, <1>4, <1>5, <1>6, <1>7 DEF k

LEMMA ExecuteStep ==
    ASSUME KernelInv, NEW c \in Callers, NEW t \in Tools, NEW inScope \in BOOLEAN, Execute(c, t, inScope),
           c \in Sessions => session[c] = "active" /\ (inScope <=> t \in scope[c])
    PROVE  KernelInv'
<1> USE KernelAssumption
<1> DEFINE j == IF inScope THEN NewCall(t) ELSE Refused(t, "scope")
           e == IF inScope THEN <<"requested">> ELSE <<"requested", "failed">>
<1>1. /\ j \in Call /\ j.tool = t /\ j.pos = 0 /\ j.chain = pipeline
      /\ inScope => j.pc = "down"
      /\ ~inScope => j.pc = "idle" /\ j.reply.form = "scope"
      /\ j.reply.descriptor = "none"
    BY NewCallFields DEF Forms
<1>2. Len(j.chain) <= MaxLayers /\ Len(j.chain) \in Nat /\ j.pos <= Len(j.chain)
    BY <1>1 DEF KernelInv, KernelTypeOK
<1>3. e \in Seq({"requested", "completed", "failed"})
    <2>1. <<"requested">> \in Seq({"requested", "completed", "failed"})
        OBVIOUS
    <2>2. <<"requested", "failed">> \in Seq({"requested", "completed", "failed"})
        OBVIOUS
    <2> QED
        BY <2>1, <2>2
<1>4. /\ call' = [call EXCEPT ![c] = j] /\ trace' = [trace EXCEPT ![c] = e] /\ ran' = [ran EXCEPT ![c] = 0]
      /\ UNCHANGED <<buildVars, sessionVars>>
    BY DEF Execute
<1> HIDE DEF j
<1>5. call'[c] = j /\ trace'[c] = e /\ ran'[c] = 0
    BY <1>4 DEF KernelInv, KernelTypeOK
<1>6. CallInv(c)'
    BY <1>1, <1>5 DEF CallInv, EventsOf
<1>7. c \in Sessions => SessionInv(c)'
    BY <1>1, <1>4, <1>5 DEF KernelInv, SessionInv, Available, buildVars, sessionVars
<1>8. c \in Sessions => EffectInv(c)'
    BY <1>1, <1>5 DEF EffectInv
<1>9. c \in Sessions => DeniedInv(c)'
    BY <1>1, <1>2, <1>5 DEF DeniedInv
<1>10. c \in Sessions => SessionInv(c)' /\ EffectInv(c)' /\ DeniedInv(c)'
    BY <1>7, <1>8, <1>9
<1> HIDE DEF e
<1>11. j \in Call /\ 0 \in Nat
    BY <1>1
<1> QED
    BY <1>2, <1>3, <1>4, <1>6, <1>10, <1>11, OneMoves

LEMMA CallsStep ==
    ASSUME KernelInv,
           \/ \E s \in Sessions, t \in Tools : SessionCall(s, t)
           \/ \E d \in Directs, t \in Tools : DirectCall(d, t)
    PROVE  KernelInv'
<1> USE KernelAssumption
<1>1. CASE \E d \in Directs, t \in Tools : DirectCall(d, t)
    <2>1. PICK d \in Directs, t \in Tools : Execute(d, t, TRUE)
        BY <1>1 DEF DirectCall
    <2> QED
        BY <2>1, ExecuteStep DEF Callers
<1>2. ASSUME NEW s \in Sessions, NEW t \in Tools, SessionCall(s, t) PROVE KernelInv'
    <2>1. CASE session[s] = "active"
        <3>1. Execute(s, t, t \in scope[s])
            BY <1>2, <2>1 DEF SessionCall
        <3> DEFINE within == t \in scope[s]
        <3>2. within \in BOOLEAN /\ (within <=> t \in scope[s]) /\ Execute(s, t, within)
            BY <3>1
        <3> HIDE DEF within
        <3> QED
            BY <3>2, <2>1, ExecuteStep DEF Callers
    <2>2. CASE session[s] # "active"
        <3> DEFINE j == Refused(t, "closed")
        <3>1. /\ j \in Call /\ j.pc = "idle" /\ j.tool = t /\ j.pos = 0 /\ j.chain = pipeline
              /\ j.reply.form = "closed" /\ j.reply.descriptor = "none"
            BY NewCallFields DEF Forms
        <3>2. Len(j.chain) <= MaxLayers /\ Len(j.chain) \in Nat /\ j.pos <= Len(j.chain)
            BY <3>1 DEF KernelInv, KernelTypeOK
        <3>3. /\ call' = [call EXCEPT ![s] = j] /\ trace' = [trace EXCEPT ![s] = <<>>]
              /\ ran' = [ran EXCEPT ![s] = 0] /\ UNCHANGED <<buildVars, sessionVars>>
            BY <1>2, <2>2 DEF SessionCall
        <3> HIDE DEF j
        <3>4. call'[s] = j /\ trace'[s] = <<>> /\ ran'[s] = 0 /\ s \in Callers
            BY <3>3 DEF KernelInv, KernelTypeOK, Callers
        <3>5. CallInv(s)'
            BY <3>1, <3>4 DEF CallInv, EventsOf
        <3>6. SessionInv(s)'
            BY <3>1, <3>3, <3>4, <2>2 DEF KernelInv, SessionInv, Available, buildVars, sessionVars
        <3>7. EffectInv(s)' /\ DeniedInv(s)'
            BY <3>1, <3>4 DEF EffectInv, DeniedInv
        <3>8. <<>> \in Seq({"requested", "completed", "failed"})
            OBVIOUS
        <3> QED
            BY <3>1, <3>2, <3>3, <3>4, <3>5, <3>6, <3>7, <3>8, OneMoves
    <2> QED
        BY <2>1, <2>2
<1> QED
    BY <1>1, <1>2

\* A step that moves a call within its chain, and neither publishes nor executes.
LEMMA MoveStep ==
    ASSUME KernelInv, NEW c \in Callers, NEW j \in Call, call' = [call EXCEPT ![c] = j],
           UNCHANGED <<buildVars, sessionVars, trace, ran>>,
           call[c].pc # "idle", j.pc \in {"down", "up"}, j.tool = call[c].tool, j.chain = call[c].chain,
           j.pos <= Len(j.chain), j.pc = "up" => j.reply.form \in UpForms,
           j.reply.descriptor = "null" => \E i \in 1 .. Len(j.chain) : j.chain[i] = "custom",
           c \in Sessions => EffectInv(c)' /\ DeniedInv(c)'
    PROVE  KernelInv'
<1>1. /\ call'[c] = j /\ trace' = [trace EXCEPT ![c] = trace[c]] /\ ran' = [ran EXCEPT ![c] = ran[c]]
      /\ trace[c] \in Seq({"requested", "completed", "failed"}) /\ ran[c] \in Nat
      /\ trace'[c] = trace[c] /\ ran'[c] = ran[c]
      /\ Len(j.chain) <= MaxLayers
    BY DEF KernelInv, KernelTypeOK
<1>2. CallInv(c)'
    BY <1>1 DEF KernelInv, CallInv, HasCustom
<1>3. c \in Sessions => SessionInv(c)'
    BY <1>1 DEF KernelInv, SessionInv, Available, buildVars, sessionVars
<1>4. c \in Sessions => SessionInv(c)' /\ EffectInv(c)' /\ DeniedInv(c)'
    BY <1>3
<1>5. UNCHANGED <<buildVars, sessionVars>>
    OBVIOUS
<1> QED
    BY <1>1, <1>2, <1>4, <1>5, OneMoves

LEMMA EnterStep ==
    ASSUME KernelInv, NEW c \in Callers, EnterLayer(c)
    PROVE  KernelInv'
<1> USE KernelAssumption
<1> DEFINE k == call[c]
           layer == k.chain[k.pos + 1]
<1>1. k \in Call /\ k.pc = "down" /\ k.pos < Len(k.chain) /\ Len(k.chain) <= MaxLayers
    BY DEF EnterLayer, KernelInv, KernelTypeOK
<1>2. k.pos \in Nat /\ Len(k.chain) \in Nat /\ layer \in Layers /\ k.pos + 1 \in 1 .. Len(k.chain)
    BY <1>1 DEF Call
<1>3. PICK j \in Below(layer, k) : call' = [call EXCEPT ![c] = j]
    BY DEF EnterLayer
<1>4. UNCHANGED <<buildVars, sessionVars, trace, ran>>
    BY DEF EnterLayer
<1>5. /\ j \in Call /\ j.tool = k.tool /\ j.chain = k.chain /\ j.replaced = k.replaced
      /\ \/ /\ j.pc = "down" /\ j.pos = k.pos + 1 /\ j.reply = k.reply
            /\ ~(layer = "policy" /\ k.tool \in Denied)
         \/ /\ j.pc = "up" /\ j.pos = k.pos
            /\ j.reply.form \in UpForms
            /\ j.reply.descriptor = "null" => layer = "custom"
    <2> HIDE DEF k, layer
    <2> QED
        BY <1>1, <1>2, <1>3, BelowShape
<1>6. call'[c] = j /\ ran'[c] = ran[c] /\ ran[c] \in Nat /\ registry' = registry
    BY <1>3, <1>4 DEF KernelInv, KernelTypeOK, buildVars
<1>7. c \in Sessions => EffectInv(c)'
    BY <1>1, <1>5, <1>6 DEF KernelInv, EffectInv
<1>8. c \in Sessions => DeniedInv(c)'
    BY <1>1, <1>2, <1>5, <1>6 DEF KernelInv, DeniedInv
<1>9. /\ j \in Call /\ j.pc \in {"down", "up"} /\ j.tool = call[c].tool /\ j.chain = call[c].chain
      /\ j.pos <= Len(j.chain) /\ (j.pc = "up" => j.reply.form \in UpForms) /\ call[c].pc # "idle"
    BY <1>1, <1>2, <1>5 DEF UpForms
<1>10. j.reply.descriptor = "null" => \E i \in 1 .. Len(j.chain) : j.chain[i] = "custom"
    BY <1>1, <1>2, <1>5 DEF KernelInv, CallInv, HasCustom
<1> QED
    BY <1>3, <1>4, <1>7, <1>8, <1>9, <1>10, MoveStep

LEMMA LeaveStep ==
    ASSUME KernelInv, NEW c \in Callers, LeaveLayer(c)
    PROVE  KernelInv'
<1> USE KernelAssumption
<1> DEFINE k == call[c]
           layer == k.chain[k.pos]
<1>1. /\ k \in Call /\ k.pc = "up" /\ k.pos <= Len(k.chain) /\ k.pos > 0 /\ Len(k.chain) <= MaxLayers
      /\ k.reply.form \in UpForms
    BY DEF LeaveLayer, KernelInv, KernelTypeOK, CallInv
<1>2. k.pos \in Nat \ {0} /\ Len(k.chain) \in Nat /\ layer \in Layers /\ k.pos \in 1 .. Len(k.chain)
    BY <1>1 DEF Call
<1>3. PICK j \in Above(layer, k) : call' = [call EXCEPT ![c] = j]
    BY DEF LeaveLayer
<1>4. UNCHANGED <<buildVars, sessionVars, trace, ran>>
    BY DEF LeaveLayer
<1>5. /\ j \in Call /\ j.tool = k.tool /\ j.chain = k.chain
      /\ \/ /\ j.pc = "down" /\ j.pos = k.pos /\ j.reply = k.reply /\ j.replaced = k.replaced
            /\ k.reply.form \in {"failed", "blocked"} /\ Retryable(k.reply)
         \/ /\ j.pc = "up" /\ j.pos = k.pos - 1
            /\ j.reply.form \in UpForms
            /\ \/ j.reply = k.reply /\ j.replaced = k.replaced
               \/ /\ j.reply.form \in {"malformed", "raised"} /\ j.reply.descriptor = "none"
                  /\ j.replaced = k.replaced
               \/ j.replaced = TRUE /\ layer = "custom"
    <2> HIDE DEF k, layer
    <2> QED
        BY <1>1, <1>2, <1>3, AboveShape
<1>6. call'[c] = j /\ ran'[c] = ran[c] /\ ran[c] \in Nat /\ registry' = registry
    BY <1>3, <1>4 DEF KernelInv, KernelTypeOK, buildVars
<1>7. c \in Sessions => EffectInv(c)'
    BY <1>1, <1>5, <1>6 DEF KernelInv, EffectInv
<1>8. c \in Sessions => DeniedInv(c)'
    BY <1>1, <1>2, <1>5, <1>6 DEF KernelInv, DeniedInv
<1>9. /\ j \in Call /\ j.pc \in {"down", "up"} /\ j.tool = call[c].tool /\ j.chain = call[c].chain
      /\ j.pos <= Len(j.chain) /\ (j.pc = "up" => j.reply.form \in UpForms) /\ call[c].pc # "idle"
    BY <1>1, <1>2, <1>5 DEF UpForms
<1>10. j.reply.descriptor = "null" => \E i \in 1 .. Len(j.chain) : j.chain[i] = "custom"
    BY <1>1, <1>2, <1>5 DEF KernelInv, CallInv, HasCustom
<1> QED
    BY <1>3, <1>4, <1>7, <1>8, <1>9, <1>10, MoveStep

LEMMA RunStep ==
    ASSUME KernelInv, NEW c \in Callers, RunExecutor(c)
    PROVE  KernelInv'
<1> USE KernelAssumption
<1> DEFINE k == call[c]
<1>1. /\ k \in Call /\ k.pc = "down" /\ k.pos = Len(k.chain) /\ Len(k.chain) <= MaxLayers
      /\ k.tool \in Tools /\ trace[c] = <<"requested">>
    BY DEF RunExecutor, KernelInv, KernelTypeOK, CallInv
<1>2. k.pos \in Nat /\ registry[k.tool] \in Descriptors \cup {"absent"} /\ Resolve(k.tool) \in Descriptors
    BY <1>1 DEF Call, KernelInv, KernelTypeOK, Resolve, Descriptors
<1>3. PICK r \in {Reply("failed", Resolve(k.tool)), Reply("ok", Resolve(k.tool)), Reply("raised", "none")} :
          call' = [call EXCEPT ![c] = Up(k, k.pos, r)]
    BY DEF RunExecutor, FromRaw
<1>4. /\ r \in Replies /\ r.form \in {"ok", "failed", "raised"}
      /\ r.form = "failed" => r.descriptor = Resolve(k.tool)
      /\ r.descriptor # "null"
    BY <1>2, <1>3, ReplyFields DEF Forms, Descriptors
<1> DEFINE j == Up(k, k.pos, r)
<1>5. /\ j \in Call /\ j.pc = "up" /\ j.pos = k.pos /\ j.tool = k.tool /\ j.chain = k.chain /\ j.reply = r
      /\ j.replaced = k.replaced
    <2> HIDE DEF k
    <2> QED
        BY <1>1, <1>2, <1>4, UpFields
<1>6. /\ ran' = [ran EXCEPT ![c] = ran[c] + 1] /\ UNCHANGED <<buildVars, sessionVars, trace>>
      /\ call' = [call EXCEPT ![c] = j] /\ ran[c] \in Nat
    BY <1>3 DEF RunExecutor, KernelInv, KernelTypeOK
<1> HIDE DEF j
<1>7. /\ call'[c] = j /\ ran'[c] = ran[c] + 1 /\ trace'[c] = trace[c] /\ registry' = registry
      /\ trace' = [trace EXCEPT ![c] = trace[c]]
      /\ trace[c] \in Seq({"requested", "completed", "failed"}) /\ ran[c] + 1 \in Nat
    BY <1>6 DEF KernelInv, KernelTypeOK, buildVars
<1>8. CallInv(c)'
    BY <1>1, <1>4, <1>5, <1>7 DEF CallInv, UpForms
<1>9. c \in Sessions => SessionInv(c)'
    BY <1>1, <1>5, <1>6, <1>7 DEF KernelInv, SessionInv, Available, buildVars, sessionVars
<1>10. c \in Sessions => EffectInv(c)'
    <2>1. registry[k.tool] = "effect" => ~(r.form \in {"failed", "blocked"} /\ Retryable(r))
        BY <1>4 DEF Resolve, Retryable
    <2>2. c \in Sessions /\ registry[k.tool] = "effect" /\ ~k.replaced => ran[c] = 0
        BY <1>1 DEF KernelInv, EffectInv
    <2> QED
        BY <1>5, <1>6, <1>7, <2>1, <2>2 DEF EffectInv
<1>11. c \in Sessions => DeniedInv(c)'
    <2>1. c \in Sessions /\ k.tool \in Denied => \A i \in 1 .. Len(k.chain) : k.chain[i] # "policy"
        BY <1>1, <1>2 DEF KernelInv, DeniedInv
    <2> QED
        BY <1>5, <1>7, <2>1 DEF DeniedInv
<1>12. /\ Len(j.chain) <= MaxLayers /\ j.pos <= Len(j.chain) /\ j \in Call
       /\ UNCHANGED <<buildVars, sessionVars>>
    BY <1>1, <1>2, <1>5, <1>6
<1>13. c \in Sessions => SessionInv(c)' /\ EffectInv(c)' /\ DeniedInv(c)'
    BY <1>9, <1>10, <1>11
<1> QED
    BY <1>6, <1>7, <1>8, <1>12, <1>13, OneMoves

\* Appending the closing event to a call's requested event makes the pair.
LEMMA TwoEvents ==
    ASSUME NEW last \in {"completed", "failed"}
    PROVE  /\ <<"requested", last>> \in Seq({"requested", "completed", "failed"})
           /\ Append(<<"requested">>, last) = <<"requested", last>>
<1> DEFINE S == {"requested", "completed", "failed"}
           one == <<"requested">>
           two == Append(one, last)
           pair == <<"requested", last>>
<1>1. last \in S /\ "requested" \in S
    OBVIOUS
<1>2. one \in Seq(S) /\ Len(one) = 1 /\ one[1] = "requested"
    OBVIOUS
<1>3. pair \in Seq(S) /\ Len(pair) = 2 /\ pair[1] = "requested" /\ pair[2] = last
    BY <1>1
<1> HIDE DEF one, pair, S
<1>4. two \in Seq(S) /\ Len(two) = 2 /\ two[1] = "requested" /\ two[2] = last
    <2>1. two \in Seq(S)
        BY <1>1, <1>2
    <2>2. Len(two) = Len(one) + 1
        BY <1>1, <1>2
    <2>3. \A i \in 1 .. Len(one) : two[i] = one[i]
        BY <1>1, <1>2, AppendProperties
    <2>4. two[Len(one) + 1] = last
        BY <1>1, <1>2, AppendProperties, ZenonT(60)
    <2> HIDE DEF two
    <2> QED
        <3>1. Len(two) = 2
            BY <1>2, <2>2
        <3>2. two[1] = "requested"
            BY <1>2, <2>3
        <3>3. two[2] = last
            BY <1>2, <2>4
        <3> QED
            BY <2>1, <3>1, <3>2, <3>3
<1> HIDE DEF two
<1>5. two = pair
    BY <1>3, <1>4, SeqEqual
<1> QED
    BY <1>3, <1>5 DEF two, pair, one, S

LEMMA AnswerStep ==
    ASSUME KernelInv, NEW c \in Callers, Answer(c)
    PROVE  KernelInv'
<1> USE KernelAssumption
<1> DEFINE k == call[c]
           j == [k EXCEPT !.pc = "idle"]
           last == IF k.reply.form = "ok" THEN "completed" ELSE "failed"
           e == IF k.reply.descriptor = "null" THEN <<"requested">> ELSE <<"requested", last>>
<1>1. /\ k \in Call /\ k.pc = "up" /\ k.pos = 0 /\ Len(k.chain) <= MaxLayers
      /\ k.reply.form \in UpForms /\ trace[c] = <<"requested">>
    BY DEF Answer, KernelInv, KernelTypeOK, CallInv
<1>2. /\ j \in Call /\ j.pc = "idle" /\ j.tool = k.tool /\ j.chain = k.chain /\ j.pos = 0 /\ j.reply = k.reply
      /\ j.replaced = k.replaced /\ Len(k.chain) \in Nat
    BY <1>1 DEF Call
<1>3. /\ call' = [call EXCEPT ![c] = j] /\ UNCHANGED <<buildVars, sessionVars, ran>>
      /\ trace' = IF k.reply.descriptor = "null" THEN trace ELSE [trace EXCEPT ![c] = Append(trace[c], last)]
    BY DEF Answer, KernelInv, KernelTypeOK
<1>4. last \in {"completed", "failed"} /\ (last = "completed" <=> k.reply.form = "ok")
    OBVIOUS
<1> HIDE DEF j, last
<1>5. e \in Seq({"requested", "completed", "failed"}) /\ trace' = [trace EXCEPT ![c] = e]
    <2>1. CASE k.reply.descriptor = "null"
        <3>1. trace' = trace /\ e = trace[c]
            BY <1>1, <1>3, <2>1
        <3> HIDE DEF e
        <3> QED
            BY <3>1 DEF KernelInv, KernelTypeOK
    <2>2. CASE k.reply.descriptor # "null"
        BY <1>1, <1>3, <1>4, <2>2, TwoEvents
    <2> QED
        BY <2>1, <2>2
<1>6. e = EventsOf(k.reply)
    BY <1>1, <1>4 DEF EventsOf, UpForms
<1> HIDE DEF e
<1>7. /\ call'[c] = j /\ trace'[c] = e /\ ran' = [ran EXCEPT ![c] = ran[c]] /\ ran'[c] = ran[c]
      /\ ran[c] \in Nat /\ registry' = registry
    BY <1>3, <1>5 DEF KernelInv, KernelTypeOK, buildVars
<1>8. CallInv(c)'
    BY <1>1, <1>2, <1>6, <1>7 DEF KernelInv, CallInv, HasCustom
<1>9. c \in Sessions => SessionInv(c)'
    BY <1>1, <1>2, <1>3, <1>7 DEF KernelInv, SessionInv, Available, buildVars, sessionVars
<1>10. c \in Sessions => EffectInv(c)' /\ DeniedInv(c)'
    BY <1>1, <1>2, <1>7 DEF KernelInv, EffectInv, DeniedInv
<1>11. c \in Sessions => SessionInv(c)' /\ EffectInv(c)' /\ DeniedInv(c)'
    BY <1>9, <1>10
<1>12. /\ Len(j.chain) <= MaxLayers /\ j.pos <= Len(j.chain) /\ j \in Call
       /\ UNCHANGED <<buildVars, sessionVars>>
    BY <1>1, <1>2, <1>3
<1> QED
    BY <1>3, <1>5, <1>7, <1>8, <1>11, <1>12, OneMoves
-----------------------------------------------------------------------------
(* The theorems. *)

\* KernelInv is an invariant of the kernel.
THEOREM KernelCorrect == KernelSpec => []KernelInv
<1> USE KernelAssumption
<1>1. KernelInit => KernelInv
    <2> SUFFICES ASSUME KernelInit PROVE KernelInv
        OBVIOUS
    <2> DEFINE first == [pc |-> "idle", tool |-> "none", chain |-> <<>>, pos |-> 0, tries |-> NoTries,
                         reply |-> NoReply, replaced |-> FALSE]
    <2>1. NoReply \in Replies /\ NoReply.form = "none" /\ NoReply.descriptor = "none"
        BY ReplyFields DEF NoReply, Forms
    <2>2. NoTries \in [1 .. MaxLayers -> Nat]
        BY DEF NoTries
    <2>3. first \in Call
        BY <2>1, <2>2 DEF Call
    <2>4. \A c \in Callers : call[c] = first /\ trace[c] = <<>> /\ ran[c] = 0
        BY DEF KernelInit
    <2>5. call \in [Callers -> Call]
        BY <2>3 DEF KernelInit
    <2>6. KernelTypeOK
        <3>1. registry \in [Tools -> Descriptors \cup {"absent"}] /\ fallback \in BOOLEAN /\ frozen \in BOOLEAN
            BY DEF KernelInit
        <3>2. pipeline \in Seq(Layers) /\ Len(pipeline) <= MaxLayers
            BY DEF KernelInit
        <3>3. session \in [Sessions -> {"none", "active", "closed"}] /\ scope \in [Sessions -> SUBSET Tools]
            BY DEF KernelInit
        <3>4. \A c \in Callers : Len(call[c].chain) <= MaxLayers /\ call[c].pos <= Len(call[c].chain)
            BY <2>4
        <3>5. trace \in [Callers -> Seq({"requested", "completed", "failed"})] /\ ran \in [Callers -> Nat]
            BY DEF KernelInit
        <3> QED
            BY <2>5, <3>1, <3>2, <3>3, <3>4, <3>5 DEF KernelTypeOK
    <2>7. \A c \in Callers : CallInv(c)
        BY <2>1, <2>4 DEF CallInv, EventsOf
    <2>8. \A s \in Sessions : SessionInv(s) /\ EffectInv(s) /\ DeniedInv(s)
        BY <2>4 DEF KernelInit, SessionInv, EffectInv, DeniedInv, Available, Callers
    <2> QED
        BY <2>6, <2>7, <2>8 DEF KernelInv
<1>2. KernelInv /\ [KernelNext]_kernelVars => KernelInv'
    <2> SUFFICES ASSUME KernelInv, [KernelNext]_kernelVars PROVE KernelInv'
        OBVIOUS
    <2>1. CASE \/ \E t \in Tools, d \in Descriptors : Register(t, d)
               \/ \E there \in BOOLEAN : SetFallback(there)
               \/ \E layer \in Layers : Use(layer)
        BY <2>1, BuildStep
    <2>2. CASE \/ \E s \in Sessions, requested \in SUBSET Tools : CreateRoot(s, requested)
               \/ \E s \in Sessions : CompleteTask(s)
        BY <2>2, SessionStep
    <2>3. CASE \/ \E s \in Sessions, t \in Tools : SessionCall(s, t)
               \/ \E d \in Directs, t \in Tools : DirectCall(d, t)
        BY <2>3, CallsStep
    <2>4. CASE \E c \in Callers : CallStep(c)
        <3>1. PICK c \in Callers : EnterLayer(c) \/ RunExecutor(c) \/ LeaveLayer(c) \/ Answer(c)
            BY <2>4 DEF CallStep
        <3>2. CASE EnterLayer(c)
            BY <3>2, EnterStep
        <3>3. CASE RunExecutor(c)
            BY <3>3, RunStep
        <3>4. CASE LeaveLayer(c)
            BY <3>4, LeaveStep
        <3>5. CASE Answer(c)
            BY <3>5, AnswerStep
        <3> QED
            BY <3>1, <3>2, <3>3, <3>4, <3>5
    <2>5. CASE UNCHANGED kernelVars
        BY <2>5 DEF kernelVars, KernelInv, KernelTypeOK, CallInv, SessionInv, EffectInv, DeniedInv, Available,
                    Retryable, HasCustom, EventsOf
    <2> QED
        BY <2>1, <2>2, <2>3, <2>4, <2>5 DEF KernelNext
<1> QED
    BY <1>1, <1>2, PTL DEF KernelSpec

\* No call of a session executes a non-idempotent effect twice, unless a custom layer
\* has replaced an envelope of the call.
THEOREM EffectsOnceTheorem == KernelSpec => []EffectsOnce
<1>1. KernelInv => EffectsOnce
    BY DEF KernelInv, EffectInv, EffectsOnce
<1> QED
    BY <1>1, KernelCorrect, PTL

\* No call of a session executes what its scope or a deny list excludes.
THEOREM RefusedTheorem == KernelSpec => []RefusedNeverRuns
<1>1. KernelInv => RefusedNeverRuns
    BY DEF KernelInv, SessionInv, DeniedInv, RefusedNeverRuns
<1> QED
    BY <1>1, KernelCorrect, PTL

\* The scope of a session holds registered tools only.
THEOREM ScopeRegisteredTheorem == KernelSpec => []ScopeRegistered
<1>1. KernelInv => ScopeRegistered
    BY DEF KernelInv, SessionInv, ScopeRegistered
<1> QED
    BY <1>1, KernelCorrect, PTL

\* The events of a call match its answer; it ends without one only below a custom layer
\* that sets the metadata of an envelope to None.
THEOREM EventsTheorem == KernelSpec => []EventsMatchAnswer
<1>1. KernelInv => EventsMatchAnswer
    BY DEF KernelInv, CallInv, EventsMatchAnswer
<1> QED
    BY <1>1, KernelCorrect, PTL

\* A session that has ended executes and publishes nothing.
THEOREM EndedTheorem == KernelSpec => EndedSilent
<1>1. KernelInv /\ [KernelNext]_kernelVars =>
          [\A s \in Sessions : session[s] = "closed" =>
               trace'[s] \in {trace[s], <<>>} /\ ran'[s] \in {ran[s], 0}]_kernelVars
    <2> SUFFICES ASSUME KernelInv, KernelNext, NEW s \in Sessions, session[s] = "closed"
                 PROVE  trace'[s] \in {trace[s], <<>>} /\ ran'[s] \in {ran[s], 0}
        BY DEF kernelVars
    <2>1. call[s].pc = "idle" /\ s \in Callers /\ s \notin Directs
        BY KernelAssumption DEF KernelInv, SessionInv, Callers
    <2>2. CASE UNCHANGED <<trace, ran>>
        BY <2>2
    <2>3. ASSUME NEW q \in Sessions, NEW t \in Tools, SessionCall(q, t)
          PROVE  trace'[s] \in {trace[s], <<>>} /\ ran'[s] \in {ran[s], 0}
        BY <2>1, <2>3 DEF SessionCall, Execute, KernelInv, KernelTypeOK
    <2>4. ASSUME NEW d \in Directs, NEW t \in Tools, DirectCall(d, t)
          PROVE  trace'[s] \in {trace[s], <<>>} /\ ran'[s] \in {ran[s], 0}
        BY <2>1, <2>4 DEF DirectCall, Execute, KernelInv, KernelTypeOK
    <2>5. ASSUME NEW c \in Callers, RunExecutor(c) \/ Answer(c)
          PROVE  trace'[s] \in {trace[s], <<>>} /\ ran'[s] \in {ran[s], 0}
        BY <2>1, <2>5 DEF RunExecutor, Answer, KernelInv, KernelTypeOK
    <2>6. \/ UNCHANGED <<trace, ran>>
          \/ \E q \in Sessions, t \in Tools : SessionCall(q, t)
          \/ \E d \in Directs, t \in Tools : DirectCall(d, t)
          \/ \E c \in Callers : RunExecutor(c) \/ Answer(c)
        BY DEF KernelNext, CallStep, Register, SetFallback, Use, CreateRoot, CompleteTask, EnterLayer, LeaveLayer
    <2> QED
        BY <2>2, <2>3, <2>4, <2>5, <2>6
<1> QED
    BY <1>1, KernelCorrect, PTL DEF KernelSpec, EndedSilent
-----------------------------------------------------------------------------
(* llm.chat over the kernel. *)

\* Every step of ChatCall is a step of Kernel or leaves the kernel alone.
LEMMA ChatStepsKernel ==
    ASSUME [ChatNext]_<<kernelVars, chatVars>>
    PROVE  [KernelNext]_kernelVars
<1>1. ASSUME NEW c \in Callers, ChatStep(c) PROVE [KernelNext]_kernelVars
    BY <1>1 DEF ChatStep, NoClient, StartChat, Request, KernelNext, CallStep
<1>2. ASSUME NEW s \in Sessions, NEW t \in Tools, SessionCall(s, t) PROVE KernelNext
    BY <1>2 DEF KernelNext
<1>3. CASE UNCHANGED <<kernelVars, chatVars>>
    BY <1>3
<1>4. CASE \/ \E t \in Tools, d \in Descriptors : Register(t, d)
           \/ \E there \in BOOLEAN : SetFallback(there)
           \/ \E layer \in Layers : Use(layer)
           \/ \E s \in Sessions, requested \in SUBSET Tools : CreateRoot(s, requested)
           \/ \E s \in Sessions : CompleteTask(s)
    BY <1>4 DEF KernelNext
<1> QED
    BY <1>1, <1>2, <1>3, <1>4 DEF ChatNext

\* The kernel with call_llm as the executor of llm.chat is the kernel: what is proved
\* of KernelSpec holds of ChatSpec.
THEOREM ChatImplementsKernel == ChatSpec => ImplementsKernel
<1>1. ChatInit => KernelInit
    BY DEF ChatInit
<1>2. [ChatNext]_<<kernelVars, chatVars>> => [KernelNext]_kernelVars
    BY ChatStepsKernel
<1> QED
    BY <1>1, <1>2, PTL DEF ChatSpec, ImplementsKernel, KernelSpec

\* A caller that stays where it is, inside and outside of call_llm, keeps its part of
\* the invariant, while registered tools stay registered.
LEMMA ChatOthersKeep ==
    ASSUME NEW c \in Callers, ChatInvOf(c), call'[c] = call[c],
           registry[Chat] # "absent" => registry'[Chat] # "absent",
           asking'[c] = asking[c], asked'[c] = asked[c], got'[c] = got[c]
    PROVE  ChatInvOf(c)'
BY DEF ChatInvOf, AtChat, AtExecutor

\* A step of one caller keeps the invariant when it keeps its own part.
LEMMA ChatOneMoves ==
    ASSUME KernelInv, ChatInv, UNCHANGED registry, NEW c \in Callers,
           NEW j, call' = [call EXCEPT ![c] = j],
           NEW a \in Nat, asking' = [asking EXCEPT ![c] = a],
           NEW n \in Nat, asked' = [asked EXCEPT ![c] = n],
           NEW g \in Outcomes, got' = [got EXCEPT ![c] = g],
           ChatInvOf(c)'
    PROVE  ChatInv'
<1>1. ChatTypeOK'
    BY DEF ChatInv, ChatTypeOK
<1>2. \A d \in Callers \ {c} : /\ call'[d] = call[d] /\ asking'[d] = asking[d]
                               /\ asked'[d] = asked[d] /\ got'[d] = got[d]
    BY DEF KernelInv, KernelTypeOK, ChatInv, ChatTypeOK
<1>3. \A d \in Callers \ {c} : ChatInvOf(d)'
    BY <1>2, ChatOthersKeep DEF ChatInv
<1> QED
    BY <1>1, <1>3 DEF ChatInv

\* Once a layer has replaced an envelope of a call, the call stays marked to its end.
LEMMA ReplacedStays ==
    ASSUME KernelInv, NEW c \in Callers, EnterLayer(c) \/ LeaveLayer(c) \/ Answer(c) \/ RunExecutor(c),
           call[c].replaced = TRUE
    PROVE  \E j : call' = [call EXCEPT ![c] = j] /\ j.replaced = TRUE
<1> USE KernelAssumption
<1> DEFINE k == call[c]
<1>1. /\ k \in Call /\ Len(k.chain) <= MaxLayers /\ k.pos <= Len(k.chain) /\ k.pos \in Nat
      /\ Len(k.chain) \in Nat /\ k.replaced = TRUE
    BY DEF KernelInv, KernelTypeOK, Call
<1>2. CASE EnterLayer(c)
    <2>1. PICK j \in Below(k.chain[k.pos + 1], k) : call' = [call EXCEPT ![c] = j]
        BY <1>2 DEF EnterLayer
    <2>2. k.pos < Len(k.chain) /\ k.chain[k.pos + 1] \in Layers
        BY <1>1, <1>2 DEF EnterLayer, Call
    <2>3. j.replaced = TRUE
        <3> HIDE DEF k
        <3> QED
            BY <1>1, <2>1, <2>2, BelowShape
    <2> QED
        BY <2>1, <2>3
<1>3. CASE LeaveLayer(c)
    <2> DEFINE layer == k.chain[k.pos]
    <2>1. PICK j \in Above(layer, k) : call' = [call EXCEPT ![c] = j]
        BY <1>3 DEF LeaveLayer
    <2>2. k.pos \in Nat \ {0} /\ layer \in Layers /\ k.reply.form \in UpForms
        BY <1>1, <1>3 DEF LeaveLayer, Call, KernelInv, CallInv
    <2>3. j.replaced = TRUE
        <3> HIDE DEF k, layer
        <3> QED
            BY <1>1, <2>1, <2>2, AboveShape
    <2> QED
        BY <2>1, <2>3
<1>4. CASE Answer(c)
    <2> DEFINE j == [k EXCEPT !.pc = "idle"]
    <2>1. call' = [call EXCEPT ![c] = j] /\ j.replaced = TRUE
        BY <1>1, <1>4 DEF Answer, Call
    <2> HIDE DEF j
    <2> QED
        BY <2>1
<1>5. CASE RunExecutor(c)
    <2>1. PICK r : call' = [call EXCEPT ![c] = Up(k, k.pos, r)]
        BY <1>5 DEF RunExecutor
    <2>2. Up(k, k.pos, r).replaced = TRUE
        BY <1>1 DEF Up, Call
    <2> QED
        BY <2>1, <2>2
<1> QED
    BY <1>2, <1>3, <1>4, <1>5

\* A step of the kernel that is not in call_llm: the call is not inside it before, and
\* it does not come down again once a request was sent.
LEMMA ChatLayerStep ==
    ASSUME KernelInv, ChatInv, NEW c \in Callers, UNCHANGED chatVars,
           EnterLayer(c) \/ LeaveLayer(c) \/ Answer(c) \/ (~AtChat(c) /\ RunExecutor(c)) \/ NoClient(c)
    PROVE  ChatInv'
<1> USE KernelAssumption
<1> DEFINE k == call[c]
<1>1. k \in Call /\ Len(k.chain) <= MaxLayers /\ k.pos <= Len(k.chain) /\ k.pos \in Nat /\ Len(k.chain) \in Nat
    BY DEF KernelInv, KernelTypeOK, Call
<1>2. asking[c] = 0
    BY <1>1 DEF ChatInv, ChatTypeOK, ChatInvOf, EnterLayer, LeaveLayer, Answer, NoClient, AtChat, AtExecutor
<1>3. PICK j : /\ call' = [call EXCEPT ![c] = j]
               /\ \/ asked[c] = 0
                  \/ j.replaced = TRUE
                  \/ /\ k.replaced = FALSE /\ j.pc # "down"
                     /\ j.pc = "up" => j.reply.form \in {"ok", "malformed", "raised"}
    <2>1. CASE asked[c] = 0
        BY <2>1 DEF EnterLayer, LeaveLayer, Answer, RunExecutor, NoClient
    <2>2. CASE k.replaced = TRUE
        BY <2>2, ReplacedStays DEF NoClient
    <2>3. CASE asked[c] # 0 /\ k.replaced = FALSE
        <3>1. k.pc # "down" /\ (k.pc = "up" => k.reply.form \in {"ok", "malformed", "raised"})
            BY <1>2, <2>3 DEF ChatInv, ChatTypeOK, ChatInvOf
        <3>2. LeaveLayer(c) \/ Answer(c)
            BY <3>1 DEF EnterLayer, RunExecutor, NoClient, AtChat, AtExecutor
        <3>3. CASE LeaveLayer(c)
            <4> DEFINE layer == k.chain[k.pos]
            <4>1. PICK j \in Above(layer, k) : call' = [call EXCEPT ![c] = j]
                BY <3>3 DEF LeaveLayer
            <4>2. k.pos \in Nat \ {0} /\ layer \in Layers /\ k.reply.form \in UpForms
                BY <1>1, <3>1, <3>3 DEF LeaveLayer, Call, UpForms
            <4>3. j.replaced = TRUE \/ (j.pc = "up" /\ j.reply.form \in {"ok", "malformed", "raised"})
                <5>1. k.pc = "up" /\ k.reply.form \in {"ok", "malformed", "raised"}
                    BY <3>1, <3>3 DEF LeaveLayer
                <5> HIDE DEF k, layer
                <5> QED
                    <6>1. \/ k.reply.form \in {"failed", "blocked"}
                          \/ j.replaced = TRUE
                          \/ j.pc = "up" /\ (j.reply = k.reply \/ j.reply.form \in {"malformed", "raised"})
                        BY <1>1, <4>1, <4>2, AnsweredGoesUp
                    <6> QED
                        BY <5>1, <6>1
            <4> QED
                BY <2>3, <4>1, <4>3
        <3>4. CASE Answer(c)
            <4> DEFINE j == [k EXCEPT !.pc = "idle"]
            <4>1. call' = [call EXCEPT ![c] = j] /\ j.pc = "idle"
                BY <1>1, <3>4 DEF Answer, Call
            <4> HIDE DEF j
            <4> QED
                BY <2>3, <4>1
        <3> QED
            BY <3>2, <3>3, <3>4
    <2>4. k.replaced = TRUE \/ k.replaced = FALSE
        BY <1>1 DEF Call
    <2> QED
        BY <2>1, <2>2, <2>3, <2>4
<1>4. call'[c] = j /\ UNCHANGED <<asking, asked, got, registry>>
    BY <1>3 DEF KernelInv, KernelTypeOK, chatVars, EnterLayer, LeaveLayer, Answer, RunExecutor, NoClient, buildVars
<1>5. ChatInvOf(c)'
    BY <1>2, <1>3, <1>4 DEF ChatInv, ChatTypeOK, ChatInvOf
<1>6. /\ asking[c] \in Nat /\ asked[c] \in Nat /\ got[c] \in Outcomes
      /\ asking' = [asking EXCEPT ![c] = asking[c]]
      /\ asked' = [asked EXCEPT ![c] = asked[c]]
      /\ got' = [got EXCEPT ![c] = got[c]]
    BY <1>4 DEF ChatInv, ChatTypeOK
<1> QED
    BY <1>3, <1>4, <1>5, <1>6, ChatOneMoves

\* A request is sent inside call_llm: it counts, and the last one leaves call_llm with an
\* ok envelope.
LEMMA ChatRequestStep ==
    ASSUME KernelInv, ChatInv, NEW c \in Callers, NEW outcome \in Outcomes \ {"none"}, Request(c, outcome)
    PROVE  ChatInv'
<1> DEFINE k == call[c]
<1>1. asking[c] \in Nat /\ asked[c] \in Nat /\ LlmAttempts \in Nat
    BY ChatAssumption DEF ChatInv, ChatTypeOK, LlmAttempts
<1>2. /\ AtChat(c) /\ asking[c] > 0
      /\ ~call[c].replaced => asked[c] = asking[c] - 1 /\ asking[c] <= LlmAttempts
    BY <1>1 DEF Request, ChatInv, ChatInvOf
<1>3. asked' = [asked EXCEPT ![c] = asked[c] + 1] /\ got' = [got EXCEPT ![c] = outcome]
    BY DEF Request
<1>4. asked'[c] = asked[c] + 1 /\ got'[c] = outcome /\ asked[c] + 1 \in Nat
    BY <1>1, <1>3 DEF ChatInv, ChatTypeOK
<1>5. CASE TriesRequestAgain(c, outcome)
    <2>1. asking' = [asking EXCEPT ![c] = asking[c] + 1] /\ UNCHANGED kernelVars
        BY <1>5 DEF Request
    <2>2. asking'[c] = asking[c] + 1 /\ call'[c] = call[c] /\ UNCHANGED registry
        BY <2>1 DEF ChatInv, ChatTypeOK, kernelVars
    <2>3. outcome = "transient" /\ asking[c] < LlmAttempts
        BY <1>5 DEF TriesRequestAgain
    <2>4. AtChat(c)'
        BY <1>2, <2>2 DEF AtChat, AtExecutor
    <2>5. ChatInvOf(c)'
        BY <1>1, <1>2, <1>4, <2>2, <2>3, <2>4 DEF ChatInvOf, LlmAttempts
    <2>6. call' = [call EXCEPT ![c] = call[c]]
        BY <2>1 DEF KernelInv, KernelTypeOK, kernelVars
    <2>7. asking[c] + 1 \in Nat
        BY <1>1
    <2> QED
        BY <1>3, <1>4, <2>1, <2>2, <2>5, <2>6, <2>7, ChatOneMoves
<1>6. CASE ~TriesRequestAgain(c, outcome)
    <2>1. asking' = [asking EXCEPT ![c] = 0] /\ RunExecutor(c) /\ call'[c].reply.form = "ok"
        BY <1>6 DEF Request
    <2>2. asking'[c] = 0 /\ UNCHANGED registry
        BY <2>1 DEF ChatInv, ChatTypeOK, RunExecutor, buildVars
    <2>3. PICK r : call' = [call EXCEPT ![c] = Up(k, k.pos, r)]
        BY <2>1 DEF RunExecutor
    <2>4. /\ call'[c] = Up(k, k.pos, r) /\ Up(k, k.pos, r).pc = "up"
          /\ Up(k, k.pos, r).replaced = k.replaced
        BY <2>3 DEF KernelInv, KernelTypeOK, Up, Call
    <2>5. ChatInvOf(c)'
        BY <1>1, <1>2, <1>4, <2>1, <2>2, <2>4 DEF ChatInvOf, LlmAttempts
    <2>6. 0 \in Nat
        OBVIOUS
    <2> QED
        BY <1>3, <1>4, <2>1, <2>2, <2>3, <2>5, <2>6, ChatOneMoves
<1> QED
    BY <1>5, <1>6

\* Entering call_llm: nothing has been sent in this call yet, or it would not be on its
\* way down, unless a layer replaced the answer.
LEMMA ChatStartStep ==
    ASSUME KernelInv, ChatInv, NEW c \in Callers, StartChat(c)
    PROVE  ChatInv'
<1>1. asking[c] = 0 /\ asked[c] \in Nat /\ LlmAttempts \in Nat /\ LlmAttempts >= 1 /\ got[c] \in Outcomes
    BY ChatAssumption DEF StartChat, ChatInv, ChatTypeOK, LlmAttempts
<1>2. AtChat(c) /\ call[c].pc = "down"
    BY DEF StartChat, AtChat, AtExecutor
<1>3. /\ ~call[c].replaced => asked[c] = 0
      /\ asked[c] = 0 => got[c] = "none"
    BY <1>1, <1>2 DEF ChatInv, ChatInvOf
<1>4. /\ asking' = [asking EXCEPT ![c] = 1] /\ asked' = [asked EXCEPT ![c] = asked[c]]
      /\ got' = [got EXCEPT ![c] = got[c]] /\ call' = [call EXCEPT ![c] = call[c]] /\ UNCHANGED registry
    BY DEF StartChat, kernelVars, KernelInv, KernelTypeOK, ChatInv, ChatTypeOK
<1>5. asking'[c] = 1 /\ asked'[c] = asked[c] /\ got'[c] = got[c] /\ call'[c] = call[c]
    BY <1>4 DEF KernelInv, KernelTypeOK, ChatInv, ChatTypeOK
<1>6. AtChat(c)'
    BY <1>2, <1>4, <1>5 DEF AtChat, AtExecutor
<1>7. ChatInvOf(c)'
    BY <1>1, <1>3, <1>5, <1>6 DEF ChatInvOf, LlmAttempts
<1> QED
    BY <1>1, <1>4, <1>7, ChatOneMoves

\* A new call has sent nothing.
LEMMA ChatBegunStep ==
    ASSUME KernelInv, ChatInv, NEW s \in Sessions, NEW t \in Tools, SessionCall(s, t), Begun(s)
    PROVE  ChatInv'
<1>1. s \in Callers /\ call[s].pc = "idle" /\ UNCHANGED registry
    BY DEF Callers, SessionCall, Execute, buildVars
<1>2. asking[s] = 0
    BY <1>1 DEF ChatInv, ChatTypeOK, ChatInvOf, AtChat, AtExecutor
<1>3. PICK j : call' = [call EXCEPT ![s] = j]
    BY DEF SessionCall, Execute
<1>4. /\ asked' = [asked EXCEPT ![s] = 0] /\ got' = [got EXCEPT ![s] = "none"]
      /\ asking' = [asking EXCEPT ![s] = 0]
    BY <1>2 DEF Begun, ChatInv, ChatTypeOK
<1>5. asking'[s] = 0 /\ asked'[s] = 0 /\ got'[s] = "none"
    BY <1>1, <1>4 DEF ChatInv, ChatTypeOK
<1>6. ChatInvOf(s)'
    BY <1>5 DEF ChatInvOf
<1>7. 0 \in Nat /\ "none" \in Outcomes
    BY DEF Outcomes
<1> QED
    BY <1>1, <1>3, <1>4, <1>6, <1>7, ChatOneMoves

\* ChatInv is an invariant of the kernel with call_llm in it.
THEOREM ChatCorrect == ChatSpec => []ChatInv
<1>1. ChatInit => ChatInv
    BY DEF ChatInit, ChatInv, ChatTypeOK, ChatInvOf, Outcomes
<1>2. KernelInv /\ ChatInv /\ [ChatNext]_<<kernelVars, chatVars>> => ChatInv'
    <2> SUFFICES ASSUME KernelInv, ChatInv, [ChatNext]_<<kernelVars, chatVars>> PROVE ChatInv'
        OBVIOUS
    <2>1. ASSUME UNCHANGED <<call, chatVars>>, registry[Chat] # "absent" => registry'[Chat] # "absent"
          PROVE  ChatInv'
        <3>1. ChatTypeOK'
            BY <2>1 DEF ChatInv, ChatTypeOK, chatVars
        <3>2. \A c \in Callers : ChatInvOf(c)'
            BY <2>1, ChatOthersKeep DEF ChatInv, chatVars
        <3> QED
            BY <3>1, <3>2 DEF ChatInv
    <2>2. ASSUME NEW t \in Tools, NEW d \in Descriptors, Register(t, d), UNCHANGED chatVars
          PROVE  ChatInv'
        <3>1. registry[Chat] # "absent" => registry'[Chat] # "absent"
            BY <2>2, ChatAssumption DEF Register, Descriptors, KernelInv, KernelTypeOK
        <3> QED
            BY <2>1, <2>2, <3>1 DEF Register
    <2>3. ASSUME \/ \E there \in BOOLEAN : SetFallback(there)
                 \/ \E layer \in Layers : Use(layer)
                 \/ \E s \in Sessions, requested \in SUBSET Tools : CreateRoot(s, requested)
                 \/ \E s \in Sessions : CompleteTask(s),
                 UNCHANGED chatVars
          PROVE  ChatInv'
        <3>1. UNCHANGED <<registry, call>>
            BY <2>3 DEF SetFallback, Use, CreateRoot, CompleteTask, buildVars
        <3> QED
            BY <2>1, <2>3, <3>1
    <2>4. CASE UNCHANGED <<kernelVars, chatVars>>
        BY <2>1, <2>4 DEF kernelVars
    <2>5. ASSUME NEW c \in Callers, ChatStep(c) PROVE ChatInv'
        <3>1. ASSUME NEW outcome \in Outcomes \ {"none"}, Request(c, outcome) PROVE ChatInv'
            BY <3>1, ChatRequestStep
        <3>2. CASE StartChat(c)
            BY <3>2, ChatStartStep
        <3>3. CASE NoClient(c)
            BY <3>3, ChatLayerStep DEF NoClient
        <3>4. CASE (EnterLayer(c) \/ LeaveLayer(c) \/ Answer(c)) /\ UNCHANGED chatVars
            BY <3>4, ChatLayerStep
        <3>5. CASE ~AtChat(c) /\ RunExecutor(c) /\ UNCHANGED chatVars
            BY <3>5, ChatLayerStep
        <3> QED
            BY <2>5, <3>1, <3>2, <3>3, <3>4, <3>5 DEF ChatStep
    <2> QED
        BY <2>2, <2>3, <2>4, <2>5, ChatBegunStep DEF ChatNext
<1>3. ChatSpec => KernelSpec
    BY ChatImplementsKernel DEF ImplementsKernel
<1> QED
    BY <1>1, <1>2, <1>3, KernelCorrect, PTL DEF ChatSpec

\* One call of llm.chat asks the client at most LLM_MAX_RETRIES + 1 times (once, when that
\* is negative), whatever the layers around it, as long as none of them replaces the
\* envelope, and not again after an answer or a final error.
THEOREM RequestsTheorem == ChatSpec => []RequestsBounded
<1>1. ChatInv => RequestsBounded
    <2> SUFFICES ASSUME ChatInv, NEW c \in Callers, ~call[c].replaced
                 PROVE  /\ asked[c] <= LlmAttempts
                        /\ got[c] \in {"answer", "permanent"} => asking[c] = 0 /\ ~AtChat(c)
        BY DEF RequestsBounded
    <2>1. asking[c] \in Nat /\ asked[c] \in Nat /\ LlmAttempts \in Nat /\ LlmAttempts >= 1
        BY ChatAssumption DEF ChatInv, ChatTypeOK, LlmAttempts
    <2> QED
        BY <2>1 DEF ChatInv, ChatInvOf, AtChat, AtExecutor
<1> QED
    BY <1>1, ChatCorrect, PTL

\* What is proved of the kernel carries over: with the retries of call_llm below those
\* of the pipeline, no non-idempotent effect runs twice in one call (but for the exception
\* of EffectsOnce), and no refused tool.
THEOREM ChatKeepsKernel == ChatSpec => [](KernelInv /\ EffectsOnce /\ RefusedNeverRuns)
<1>1. ChatSpec => KernelSpec
    BY ChatImplementsKernel DEF ImplementsKernel
<1> QED
    BY <1>1, KernelCorrect, EffectsOnceTheorem, RefusedTheorem, PTL
=============================================================================
