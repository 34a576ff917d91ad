------------------------------ MODULE ChatCall ------------------------------
(***************************************************************************)
(* llm.chat over the kernel: the executor LLMChatTool is call_llm          *)
(* (llm/adapter.py), which asks the model again after a transient error    *)
(* and turns any other outcome into the text of an ok envelope.  Callers   *)
(* reach it through execute_tool like every other tool                     *)
(* (KernelChatLLM.complete of Agent O and the Context Broker, the node     *)
(* call_model), below whatever layers the pipeline has, Retry included.    *)
(*                                                                         *)
(* All other executors are as in Kernel.  Callers without a session are    *)
(* left to Kernel and its proofs: none of them asks for llm.chat.          *)
(***************************************************************************)
EXTENDS Kernel, Integers

CONSTANTS
    Chat,       \* the tool llm.chat
    MaxRetries  \* LLM_MAX_RETRIES

ASSUME ChatAssumption == Chat \in Tools /\ MaxRetries \in Int

\* attempts of call_llm.
LlmAttempts == IF MaxRetries + 1 > 1 THEN MaxRetries + 1 ELSE 1

VARIABLES
    asking,  \* the attempt call_llm of a caller is in, 0 outside of it
    asked,   \* requests sent to the model in the caller's latest call
    got      \* how the latest of them ended

chatVars == <<asking, asked, got>>

Outcomes == {"none", "answer", "transient", "permanent"}

ChatInit ==
    /\ KernelInit
    /\ asking = [c \in Callers |-> 0]
    /\ asked = [c \in Callers |-> 0]
    /\ got = [c \in Callers |-> "none"]
-----------------------------------------------------------------------------
AtExecutor(c) == call[c].pc = "down" /\ call[c].pos = Len(call[c].chain)
AtChat(c) == AtExecutor(c) /\ call[c].tool = Chat /\ registry[Chat] # "absent"

\* A new call has sent nothing yet.
Begun(c) ==
    /\ asked' = [asked EXCEPT ![c] = 0]
    /\ got' = [got EXCEPT ![c] = "none"]
    /\ UNCHANGED asking

\* Mutant: the exception leaves execute_tool too.
NoClientEscapes(c) ==
    /\ AtChat(c)
    /\ asking[c] = 0
    /\ call' = [call EXCEPT ![c].pc = "idle"]
    /\ ran' = [ran EXCEPT ![c] = @ + 1]
    /\ UNCHANGED <<buildVars, sessionVars, trace, chatVars>>

\* Settings or client cannot be made, outside of the try: the exception leaves the
\* executor, and the kernel makes a failed envelope of it.
NoClient(c) ==
    /\ AtChat(c)
    /\ asking[c] = 0
    /\ RunExecutor(c)
    /\ call'[c].reply.form = "failed"
    /\ UNCHANGED chatVars

StartChat(c) ==
    /\ AtChat(c)
    /\ asking[c] = 0
    /\ asking' = [asking EXCEPT ![c] = 1]
    /\ UNCHANGED <<kernelVars, asked, got>>

\* Mutant: every error counts as transient.
TriesRequestAgainAlways(c, outcome) == outcome \in {"transient", "permanent"} /\ asking[c] < LlmAttempts

\* The condition to sleep and go on with the loop.
TriesRequestAgain(c, outcome) == outcome = "transient" /\ asking[c] < LlmAttempts

\* One request.  An answer, an error that is final and a transient error at the last
\* attempt all give an ok envelope, the latter two with a final/error text.
Request(c, outcome) ==
    /\ AtChat(c)
    /\ asking[c] > 0
    /\ asked' = [asked EXCEPT ![c] = @ + 1]
    /\ got' = [got EXCEPT ![c] = outcome]
    /\ IF TriesRequestAgain(c, outcome)
       THEN /\ asking' = [asking EXCEPT ![c] = @ + 1]
            /\ UNCHANGED kernelVars
       ELSE /\ asking' = [asking EXCEPT ![c] = 0]
            /\ RunExecutor(c)
            /\ call'[c].reply.form = "ok"

\* The steps of a call in flight.
ChatStep(c) ==
    \/ (EnterLayer(c) \/ LeaveLayer(c) \/ Answer(c)) /\ UNCHANGED chatVars
    \/ ~AtChat(c) /\ RunExecutor(c) /\ UNCHANGED chatVars
    \/ NoClient(c)
    \/ StartChat(c)
    \/ \E outcome \in Outcomes \ {"none"} : Request(c, outcome)

ChatNext ==
    \/ /\ \/ \E t \in Tools, d \in Descriptors : Register(t, d)
          \/ \E there \in BOOLEAN : SetFallback(there)
          \/ \E layer \in Layers : Use(layer)
          \/ \E s \in Sessions, requested \in SUBSET Tools : CreateRoot(s, requested)
          \/ \E s \in Sessions : CompleteTask(s)
       /\ UNCHANGED chatVars
    \/ \E s \in Sessions, t \in Tools : SessionCall(s, t) /\ Begun(s)
    \/ \E c \in Callers : ChatStep(c)

\* A call in flight is a running thread and goes on; the sleep between two requests
\* and the request itself, which has a timeout, come to an end.
ChatFairness == \A c \in Callers : WF_<<kernelVars, chatVars>>(ChatStep(c))

ChatSpec == ChatInit /\ [][ChatNext]_<<kernelVars, chatVars>> /\ ChatFairness
-----------------------------------------------------------------------------
\* One call of llm.chat makes at most LLM_MAX_RETRIES + 1 requests of the client, however
\* many Retry layers it passes: once call_llm has sent a request its envelope is ok, and
\* no layer takes an ok envelope for a reason to run it again.  A request that was
\* answered or failed for good is the last one of its call (call_llm, _is_transient,
\* Retry).  A custom layer that replaces the envelope by a failed one is the exception.
RequestsBounded ==
    \A c \in Callers : ~call[c].replaced =>
        /\ asked[c] <= LlmAttempts
        /\ got[c] \in {"answer", "permanent"} => asking[c] = 0 /\ ~AtChat(c)

\* With call_llm in it, the kernel is still the kernel: its steps are those of an
\* executor that answers ok or raises, and what is proved of Kernel holds.
ImplementsKernel == KernelSpec
-----------------------------------------------------------------------------
(* The inductive invariant of the proofs. *)

ChatTypeOK ==
    /\ asking \in [Callers -> Nat]
    /\ asked \in [Callers -> Nat]
    /\ got \in [Callers -> Outcomes]

\* Inside call_llm a caller stands at the executor, and has sent one request less than
\* the attempt it is in.  Once it has left call_llm having sent a request, its call only
\* goes up, with a reply that no Retry layer takes for a reason to go down again.  A call
\* whose envelope was replaced has none of this.
ChatInvOf(c) ==
    /\ asking[c] > 0 => AtChat(c)
    /\ asking[c] > 0 /\ ~call[c].replaced =>
           /\ asked[c] = asking[c] - 1 /\ asking[c] <= LlmAttempts
           /\ got[c] \in {"none", "transient"}
    /\ asked[c] = 0 => got[c] = "none"
    /\ asked[c] > 0 /\ asking[c] = 0 /\ ~call[c].replaced =>
           /\ asked[c] <= LlmAttempts
           /\ call[c].pc # "down"
           /\ call[c].pc = "up" => call[c].reply.form \in {"ok", "malformed", "raised"}

ChatInv == ChatTypeOK /\ \A c \in Callers : ChatInvOf(c)
=============================================================================
