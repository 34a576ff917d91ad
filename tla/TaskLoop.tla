------------------------------ MODULE TaskLoop ------------------------------
(***************************************************************************)
(* The Agent-O task loop (supervisor/): one supervisor process drives      *)
(* compose_team, then rounds of o_decide, run_round or run_tool,           *)
(* judge_acceptance and an end-of-round checkpoint, until a terminal       *)
(* status.  The Blackboard (TaskLoopState) lives in memory as `board'; the *)
(* last row SqliteTaskLoopStore.save wrote is `disk'.  The process may     *)
(* crash between any two steps, or leave the loop with an exception; both  *)
(* lose `board' and every local of _drive, and resume_task_loop starts     *)
(* again from `disk'.                                                      *)
(*                                                                         *)
(* Data abstraction.  Lists whose order no decision of the code reads are  *)
(* kept as occurrence counts (selected_agents, turns) or as sets           *)
(* (pending_commands, which enqueue_commands keeps free of duplicate keys).*)
(* An artifact is its position on the Blackboard: every add_artifact of    *)
(* the loop uses a fresh id, so the artifacts are 0 .. arts - 1.  Agent O, *)
(* the Context Broker and the workers are the environment: what they       *)
(* answer is chosen freely.                                                *)
(***************************************************************************)
EXTENDS Naturals, FiniteSets

CONSTANTS
    Agents,          \* agent ids O may name
    Catalog,         \* agent ids of the role registry ({} without a registry)
    Depts,           \* department names O may target, known or not
    Members,         \* Members[d]: registry.members_of(d), {} when unknown or empty
    CustomKeys,      \* idempotency keys O supplies itself
    Commands,        \* commands O may issue
    Criteria,        \* acceptance criteria of the task
    EvidenceSets,    \* sets of artifact ids O may cite as evidence
    MaxRounds,       \* TaskLoopState.max_rounds
    MaxParseErrors,  \* Budget.max_parse_errors
    MaxRepeats,      \* max_decision_repeats
    Tools,           \* tools O may request
    MaxMentions,     \* bound: how often one decision requests the same tool
    MaxWorkerArts,   \* bound: artifacts one delegation result carries
    Emitters         \* whether an invocation may come with an EventEmitter, and without one

\* Every O command and department admit carries a key: O's own, or the key
\* _derive_idempotency_key computes.  "AddAgentToLoop:<a>" is written a.
Keys == Agents \cup CustomKeys

\* What apply_pending_commands tells apart in a command type: the one it
\* honours, a declared one it skips (not next_checkpoint, or not in v1), and
\* one the registry does not know.
CommandKinds == {"AddAgentToLoop", "skipped", "unknown"}

Command == [key : Keys, kind : CommandKinds, agent : Agents]

\* The intent run_round enqueues for a department member outside the roster.
AdmitCommand(a) == [key |-> a, kind |-> "AddAgentToLoop", agent |-> a]

ASSUME ConstantsAssumption ==
    /\ Agents # {}
    /\ Catalog \subseteq Agents
    /\ Members \in [Depts -> SUBSET Catalog]
    /\ Agents \cap Depts = {} /\ Agents \cap CustomKeys = {}
    /\ Commands \subseteq Command
    /\ EvidenceSets \subseteq SUBSET Nat /\ {} \in EvidenceSets
    /\ \A ev \in EvidenceSets : IsFiniteSet(ev)
    /\ MaxRounds \in Nat /\ MaxParseErrors \in Nat /\ MaxRepeats \in Nat
    /\ IsFiniteSet(Tools) /\ MaxMentions \in Nat /\ MaxWorkerArts \in Nat
    /\ Emitters \subseteq BOOLEAN

-----------------------------------------------------------------------------
\* The Blackboard.

Running  == {"team_selected", "in_discussion", "waiting_tool", "reviewing_ac"}
Terminal == {"finished", "blocked", "failed"}
Statuses == {"created"} \cup Running \cup Terminal

Reasons == {"", "denied", "accepted", "max_rounds", "parse_budget", "o_decision",
            "no_progress", "repeated"}

Check == [status : {"pending", "passed", "failed"}, evidence : EvidenceSets]

Board ==
    [status   : Statuses,
     selected : [Agents -> Nat],                    \* occurrences in selected_agents
     checks   : [Criteria -> Check],                \* acceptance_checks
     round    : 0..MaxRounds,                       \* round_no
     turns    : [(0..MaxRounds) \X Agents -> Nat],  \* AgentTurn rows per round and agent
     arts     : Nat,                                \* len(artifacts)
     pending  : SUBSET Command,                     \* pending_commands
     applied  : SUBSET Keys,                        \* applied_command_keys
     reason   : Reasons]

\* TaskLoopState() before compose_team; as `disk' it stands for "no row".
NewBoard ==
    [status   |-> "created",
     selected |-> [a \in Agents |-> 0],
     checks   |-> [c \in Criteria |-> [status |-> "pending", evidence |-> {}]],
     round    |-> 0,
     turns    |-> [p \in (0..MaxRounds) \X Agents |-> 0],
     arts     |-> 0,
     pending  |-> {},
     applied  |-> {},
     reason   |-> ""]

\* add_artifact, n times with a fresh id (a worker's artifact that reuses an id
\* replaces its payload and is not counted).
AddArtifacts(b, n) == [b EXCEPT !.arts = @ + n]

\* turns.append(AgentTurn(round_no, agent)).
AddTurn(b, a) == [b EXCEPT !.turns = [b.turns EXCEPT ![<<b.round, a>>] = @ + 1]]

SetStatus(b, status) == [b EXCEPT !.status = status]

Roster(b) == {a \in Agents : b.selected[a] > 0}

\* Mutant: the done set is not seeded from the turns on the Blackboard.
DoneThisRoundUnseeded(b) == {}

\* done_this_round: seeded from the turns of this round, live as turns complete.
DoneThisRound(b) == {a \in Agents : b.turns[<<b.round, a>>] > 0}

\* AcceptanceCheck.is_satisfied and TaskLoopState.all_accepted.
AllAccepted(b) ==
    /\ Criteria # {}
    /\ \A c \in Criteria : b.checks[c].status = "passed" /\ b.checks[c].evidence # {}

\* acceptance_snapshot: statuses and numbers of evidence ids.
Snapshot(b) ==
    [c \in Criteria |-> <<b.checks[c].status, Cardinality(b.checks[c].evidence)>>]

-----------------------------------------------------------------------------
\* Decisions of Agent O after parse_decision.  A command list is kept without
\* the commands whose key repeats an earlier one (enqueue_commands drops
\* them), and calls without an agent or a department that is named again (its
\* turn of the round is done by then).  Bound: O sends calls only with
\* "continue" and tool requests only with "need_tool", the decisions that read
\* them.

\* tool_requests may name a tool several times, and run_tool executes every
\* entry: <<t, n>> is the n-th request of a list for tool t.
Requests == Tools \X (1..MaxMentions)

RequestLists == {q \in SUBSET Requests : \A p \in q : \A n \in 1..p[2] : <<p[1], n>> \in q}

Targets == Agents \cup Depts

DistinctKeys(cmds) == \A c, d \in cmds : c.key = d.key => c = d

DecisionKinds == {"continue", "need_tool", "finished", "blocked", "failed"}

Decision ==
    {d \in [kind : DecisionKinds, calls : SUBSET Targets, tools : RequestLists,
            cmds : SUBSET Commands] :
        /\ DistinctKeys(d.cmds)
        /\ d.kind # "continue" => d.calls = {}
        /\ d.kind # "need_tool" => d.tools = {}}

\* _decision_signature: kind, targets, tools as often as they are requested, and
\* the intents, without keys.
SignatureOf(d) ==
    [kind |-> d.kind, calls |-> d.calls, tools |-> d.tools,
     intents |-> {<<c.kind, c.agent>> : c \in d.cmds}]

Signature == [kind : DecisionKinds, calls : SUBSET Targets, tools : RequestLists,
              intents : SUBSET (CommandKinds \X Agents)]

\* last_signature is None at the start of _drive.
NoSignature == [kind |-> "blocked", calls |-> Targets, tools |-> {}, intents |-> {}]

\* One row of acceptance_status per criterion; "none" is a missing row.
Claim ==
    {cl \in [status : {"none", "pending", "passed", "failed"}, evidence : EvidenceSets] :
        cl.status \in {"none", "pending"} => cl.evidence = {}}

-----------------------------------------------------------------------------
VARIABLES
    pc,      \* where _drive is; "idle" before run_task_loop, "down" after a
             \* crash or an exception, "done" once a result was returned
    board,   \* the in-memory Blackboard
    disk,    \* the last saved Blackboard
    loc,     \* locals of _drive and run_round
    fault,   \* what ended the last invocation that did not return
    emitter, \* whether the invocation was given an EventEmitter
    composed \* history: the team compose_team selected

vars == <<pc, board, disk, loc, fault, emitter, composed>>

PCs == {"idle", "top", "calls", "working", "judge", "commit", "save", "guard", "done", "down"}

Active == PCs \ {"idle", "done", "down"}

Faults == {"none", "crash", "permission", "contract"}

Locals ==
    [sig        : Signature,        \* last_signature
     repeat     : Nat,              \* repeat_count
     parse      : Nat,              \* budget.parse_errors
     beforeArts : Nat,              \* before_artifacts
     beforeSnap : [Criteria -> {"pending", "passed", "failed"} \X Nat],
     kind       : DecisionKinds,    \* decision.decision
     calls      : SUBSET (Targets \X Agents),  \* expanded calls still to visit
     worker     : SUBSET Agents,    \* the agent delegate() is running, if any
     queued     : SUBSET Command,   \* pending_before_apply
     grew       : SUBSET Agents]    \* the agents applied counts

\* A fresh invocation of _drive.
NewLocals ==
    [sig |-> NoSignature, repeat |-> 0, parse |-> 0, beforeArts |-> 0,
     beforeSnap |-> [c \in Criteria |-> <<"pending", 0>>], kind |-> "blocked",
     calls |-> {}, worker |-> {}, queued |-> {}, grew |-> {}]

\* The type invariant: the Blackboard in memory and the one in SQLite are both
\* Blackboards the code can load and go on with, and so are _drive's locals.
TypeOK ==
    /\ pc \in PCs
    /\ board \in Board
    /\ disk \in Board
    /\ loc \in Locals
    /\ fault \in Faults
    /\ emitter \in Emitters
    /\ composed \in SUBSET Agents

Init ==
    /\ pc = "idle"
    /\ board = NewBoard
    /\ disk = NewBoard
    /\ loc = NewLocals
    /\ fault = "none"
    /\ emitter \in Emitters
    /\ composed = {}

-----------------------------------------------------------------------------
\* How an invocation ends.

\* _terminate: set status and reason, save, return the result.
Terminate(b, status, reason) ==
    /\ board' = [b EXCEPT !.status = status, !.reason = reason]
    /\ disk' = board'
    /\ pc' = "done"
    /\ loc' = NewLocals
    /\ UNCHANGED <<fault, emitter, composed>>

\* The process dies, or an exception leaves the loop: memory is lost.
GoDown(cause) ==
    /\ pc' = "down"
    /\ board' = disk'
    /\ loc' = NewLocals
    /\ fault' = cause
    /\ UNCHANGED <<emitter, composed>>

\* The loop.* and command.* types config/runtime_event_types.yaml declares,
\* of the ones the supervisor emits.
DeclaredEvents ==
    {"command.rejected", "loop.team_composed", "loop.decision", "loop.turn", "loop.tool",
     "loop.parse_error", "loop.finished", "loop.blocked", "loop.failed"}

\* SupervisorContext.emit raises ControlContractError for an undeclared type,
\* but only when events go through an EventEmitter.
EmitRaises(events) == emitter /\ ~(events \subseteq DeclaredEvents)

-----------------------------------------------------------------------------
\* run_task_loop: compose_team and the first save.  A plan that names no
\* agent, an agent twice, or one outside a non-empty catalog raises and
\* changes nothing.

ComposeTeam(team) ==
    /\ pc = "idle"
    /\ team # {}
    /\ Catalog # {} => team \subseteq Catalog
    /\ board' = [board EXCEPT !.selected = [a \in Agents |-> IF a \in team THEN 1 ELSE 0],
                              !.arts = @ + 1,
                              !.status = "team_selected"]
    /\ disk' = board'
    /\ pc' = "top"
    /\ composed' = team
    /\ UNCHANGED <<loc, fault, emitter>>

\* resume_task_loop by the owning session (another session is refused before
\* anything changes).  A terminal checkpoint returns its stored result.
Resume ==
    /\ pc = "down"
    /\ disk.status \notin Terminal
    /\ pc' = "top"
    /\ board' = disk
    /\ loc' = NewLocals
    /\ emitter' \in Emitters
    /\ UNCHANGED <<disk, fault, composed>>

ResumeTerminal ==
    /\ pc \in {"down", "done"}
    /\ disk.status \in Terminal
    /\ pc' = "done"
    /\ UNCHANGED <<board, disk, loc, fault, emitter, composed>>

\* The supervisor process dies, inside the loop or after it.
Crash ==
    /\ pc \in Active \cup {"done"}
    /\ UNCHANGED disk
    /\ GoDown("crash")

-----------------------------------------------------------------------------
\* Top of the loop in _drive.

RoundsExhausted ==
    /\ pc = "top"
    /\ board.round >= MaxRounds
    /\ Terminate(board, "blocked", "max_rounds")

\* Mutant: every prompt has a budget of its own.
DecideParseErrorRefills ==
    /\ pc = "top"
    /\ board.round < MaxRounds
    /\ loc' = [loc EXCEPT !.parse = IF @ + 1 >= MaxParseErrors THEN 0 ELSE @ + 1]
    /\ UNCHANGED <<pc, board, disk, fault, emitter, composed>>

\* o_decide, one answer that does not parse: re-prompt until the budget is
\* spent.
DecideParseError ==
    /\ pc = "top"
    /\ board.round < MaxRounds
    /\ IF loc.parse + 1 >= MaxParseErrors
       THEN Terminate(board, "failed", "parse_budget")
       ELSE /\ loc' = [loc EXCEPT !.parse = @ + 1]
            /\ UNCHANGED <<pc, board, disk, fault, emitter, composed>>

\* Mutant: a key that was applied in an earlier round is queued again.
EnqueueApplied(b, cmds) ==
    [b EXCEPT !.pending = @ \cup {c \in cmds : c.key \notin {q.key : q \in b.pending}}]

\* enqueue_commands: skip what is queued or was applied already.
Enqueue(b, cmds) ==
    LET seen == {c.key : c \in b.pending} \cup b.applied
    IN  [b EXCEPT !.pending = @ \cup {c \in cmds : c.key \notin seen}]

\* The part of an iteration of _drive between o_decide and the branch on the
\* decision: remember the progress baseline, count a repeated signature.
AfterDecide(d) ==
    [loc EXCEPT !.sig = SignatureOf(d),
                !.repeat = IF loc.sig = SignatureOf(d) THEN @ + 1 ELSE 0,
                !.beforeArts = board.arts,
                !.beforeSnap = Snapshot(board),
                !.kind = d.kind,
                !.calls = {},
                !.worker = {},
                !.queued = {},
                !.grew = {}]

\* expand_departments: one call per member in the roster; the other members
\* are to be admitted.
ExpandedCalls(d, roster) ==
    {<<a, a>> : a \in d.calls \cap Agents}
        \cup {p \in (d.calls \cap Depts) \X roster : p[2] \in Members[p[1]]}

ToAdmit(d, roster) ==
    {a \in Agents \ roster : \E t \in d.calls \cap Depts : a \in Members[t]}

\* Mutant: no authority check.
BeginRoundUnchecked(d) ==
    LET calls == ExpandedCalls(d, Roster(board))
    IN  /\ d.kind = "continue"
        /\ board' = Enqueue(board, d.cmds)
        /\ loc' = [AfterDecide(d) EXCEPT !.calls = calls]
        /\ pc' = "calls"
        /\ UNCHANGED <<disk, fault, emitter, composed>>

\* "continue": run_round up to its authority check.  Admits are enqueued and
\* loop.department_expanded is emitted before the check that every call
\* targets the roster.
BeginRound(d) ==
    LET roster   == Roster(board)
        targeted == d.calls \cap Depts
        queued   == Enqueue(Enqueue(board, d.cmds), {AdmitCommand(a) : a \in ToAdmit(d, roster)})
        calls    == ExpandedCalls(d, roster)
        events   == IF targeted # {} THEN {"loop.department_expanded"} ELSE {}
    IN  /\ d.kind = "continue"
        /\ \/ /\ EmitRaises(events)
              /\ UNCHANGED disk
              /\ GoDown("contract")
           \/ /\ ~EmitRaises(events)
              /\ \E p \in calls : p[2] \notin roster
              /\ UNCHANGED disk
              /\ GoDown("permission")
           \/ /\ ~EmitRaises(events)
              /\ \A p \in calls : p[2] \in roster
              /\ board' = queued
              /\ loc' = [AfterDecide(d) EXCEPT !.calls = calls]
              /\ pc' = "calls"
              /\ UNCHANGED <<disk, fault, emitter, composed>>

\* "need_tool": run_tool stores one artifact per request.
RunTool(d) ==
    /\ d.kind = "need_tool"
    /\ board' = SetStatus(AddArtifacts(Enqueue(board, d.cmds), Cardinality(d.tools)), "waiting_tool")
    /\ loc' = AfterDecide(d)
    /\ pc' = "judge"
    /\ UNCHANGED <<disk, fault, emitter, composed>>

\* "finished": straight to judge_acceptance.
ClaimFinished(d) ==
    /\ d.kind = "finished"
    /\ board' = Enqueue(board, d.cmds)
    /\ loc' = AfterDecide(d)
    /\ pc' = "judge"
    /\ UNCHANGED <<disk, fault, emitter, composed>>

GiveUp(d) ==
    /\ d.kind \in {"blocked", "failed"}
    /\ Terminate(Enqueue(board, d.cmds), d.kind, "o_decision")

Decide(d) ==
    /\ pc = "top"
    /\ board.round < MaxRounds
    /\ BeginRound(d) \/ RunTool(d) \/ ClaimFinished(d) \/ GiveUp(d)

-----------------------------------------------------------------------------
\* run_round, call by call.

SkipDone(p) ==
    /\ pc = "calls"
    /\ p \in loc.calls
    /\ p[2] \in DoneThisRound(board)
    /\ loc' = [loc EXCEPT !.calls = @ \ {p}]
    /\ UNCHANGED <<pc, board, disk, fault, emitter, composed>>

\* The Broker writes the packet and delegate() starts the worker.
StartTurn(p) ==
    /\ pc = "calls"
    /\ p \in loc.calls
    /\ p[2] \notin DoneThisRound(board)
    /\ board' = AddArtifacts(board, 1)
    /\ loc' = [loc EXCEPT !.calls = @ \ {p}, !.worker = {p[2]}]
    /\ pc' = "working"
    /\ UNCHANGED <<disk, fault, emitter, composed>>

\* A Broker that redirects the packet to another agent is refused.
BrokerRedirects(p) ==
    /\ pc = "calls"
    /\ p \in loc.calls
    /\ p[2] \notin DoneThisRound(board)
    /\ UNCHANGED disk
    /\ GoDown("permission")

\* delegate() returned n artifacts: store them and the result, append the
\* AgentTurn, save.
CompleteTurn(n) ==
    /\ pc = "working"
    /\ \E a \in loc.worker : board' = AddTurn(AddArtifacts(board, n + 1), a)
    /\ disk' = board'
    /\ loc' = [loc EXCEPT !.worker = {}]
    /\ pc' = "calls"
    /\ UNCHANGED <<fault, emitter, composed>>

RoundDone ==
    /\ pc = "calls"
    /\ loc.calls = {}
    /\ board' = SetStatus(board, "in_discussion")
    /\ pc' = "judge"
    /\ UNCHANGED <<disk, loc, fault, emitter, composed>>

-----------------------------------------------------------------------------
\* judge_acceptance: "passed" needs evidence, all of it on the Blackboard; a
\* refused claim leaves the old evidence list behind.

\* Mutant: the evidence need not exist on the Blackboard.
JudgeCheckTrusting(b, check, claim) ==
    CASE claim.status = "none" -> check
      [] claim.status = "passed" /\ claim.evidence # {} -> claim
      [] claim.status = "failed" -> claim
      [] OTHER -> [check EXCEPT !.status = "pending"]

JudgeCheck(b, check, claim) ==
    CASE claim.status = "none" -> check
      [] claim.status = "passed" /\ claim.evidence # {} /\ (\A e \in claim.evidence : e < b.arts)
           -> claim
      [] claim.status = "failed" -> claim
      [] OTHER -> [check EXCEPT !.status = "pending"]

Judged(b, claims) ==
    [b EXCEPT !.checks = [c \in Criteria |-> JudgeCheck(b, b.checks[c], claims[c])],
              !.status = "reviewing_ac"]

Judge(claims) ==
    /\ pc = "judge"
    /\ LET judged == Judged(board, claims)
       IN  IF loc.kind = "finished" /\ AllAccepted(judged)
           THEN Terminate(judged, "finished", "accepted")
           ELSE /\ board' = IF loc.kind = "finished"
                            THEN [judged EXCEPT !.reason = "denied"]
                            ELSE judged
                /\ pc' = "commit"
                /\ UNCHANGED <<disk, loc, fault, emitter, composed>>

-----------------------------------------------------------------------------
\* The end-of-round checkpoint.

\* The commands apply_pending_commands honours.
Honoured(b) ==
    {c \in b.pending : /\ c.key \notin b.applied
                       /\ c.kind = "AddAgentToLoop"
                       /\ c.agent \in Catalog}

Admitted(b) == {c.agent : c \in Honoured(b)} \ Roster(b)

\* Roster, applied keys and the emptied queue change together.
ApplyPending(b) ==
    [b EXCEPT !.applied = @ \cup {c.key : c \in Honoured(b)},
              !.selected = [a \in Agents |-> IF a \in Admitted(b) THEN @[a] + 1 ELSE @[a]],
              !.pending = {}]

\* An add of an agent the registry does not list is rejected.
Unlisted(c) == c.kind = "AddAgentToLoop" /\ c.agent \notin Catalog

\* What apply_pending_commands emits.
ApplyEvents(b) ==
    LET fresh == {c \in b.pending : c.key \notin b.applied}
    IN  (IF Admitted(b) # {} THEN {"loop.agent_added"} ELSE {})
            \cup (IF \E c \in fresh : c.kind = "skipped" THEN {"command.skipped"} ELSE {})
            \cup (IF \E c \in fresh : c.kind = "unknown" \/ Unlisted(c)
                  THEN {"command.rejected"} ELSE {})

\* Mutant: a save of its own for the applied commands.
ApplyCommandsAndSave ==
    /\ pc = "commit"
    /\ board' = ApplyPending(board)
    /\ disk' = board'
    /\ loc' = [loc EXCEPT !.queued = board.pending, !.grew = Admitted(board)]
    /\ pc' = "save"
    /\ UNCHANGED <<fault, emitter, composed>>

\* apply_pending_commands, in memory.  An undeclared event type raises out of it.
ApplyCommands ==
    /\ pc = "commit"
    /\ \/ /\ EmitRaises(ApplyEvents(board))
          /\ UNCHANGED disk
          /\ GoDown("contract")
       \/ /\ ~EmitRaises(ApplyEvents(board))
          /\ board' = ApplyPending(board)
          /\ loc' = [loc EXCEPT !.queued = board.pending,
                                !.grew = Admitted(board),
                                !.repeat = IF Admitted(board) # {} THEN 0 ELSE @]
          /\ pc' = "save"
          /\ UNCHANGED <<disk, fault, emitter, composed>>

\* Mutant: the round is saved under the same number.
SaveRoundStays ==
    /\ pc = "save"
    /\ UNCHANGED board
    /\ disk' = board
    /\ pc' = "guard"
    /\ UNCHANGED <<loc, fault, emitter, composed>>

\* Advance the round and save once.
SaveRound ==
    /\ pc = "save"
    /\ board' = [board EXCEPT !.round = @ + 1]
    /\ disk' = board'
    /\ pc' = "guard"
    /\ UNCHANGED <<loc, fault, emitter, composed>>

\* loop.roster_growth_starved, emitted after the save.
StarvedEvents ==
    IF loc.queued # {} /\ board.round + 1 >= MaxRounds THEN {"loop.roster_growth_starved"} ELSE {}

\* Mutant: new artifacts are no progress.
ProgressedByChecks ==
    \/ Snapshot(board) # loc.beforeSnap
    \/ loc.grew # {}

Progressed ==
    \/ board.arts > loc.beforeArts
    \/ Snapshot(board) # loc.beforeSnap
    \/ loc.grew # {}

\* The locals of _drive that the next iteration reads.
BetweenRounds ==
    [NewLocals EXCEPT !.sig = loc.sig, !.repeat = loc.repeat, !.parse = loc.parse]

\* The end of an iteration: the starvation diagnostic, then the loop guard
\* (no progress first, then too many repeats).
LoopGuard ==
    /\ pc = "guard"
    /\ \/ /\ EmitRaises(StarvedEvents)
          /\ UNCHANGED disk
          /\ GoDown("contract")
       \/ /\ ~EmitRaises(StarvedEvents)
          /\ IF ~Progressed THEN Terminate(board, "blocked", "no_progress")
             ELSE IF loc.repeat >= MaxRepeats THEN Terminate(board, "blocked", "repeated")
             ELSE /\ pc' = "top"
                  /\ loc' = BetweenRounds
                  /\ UNCHANGED <<board, disk, fault, emitter, composed>>

-----------------------------------------------------------------------------
\* The steps _drive takes by itself, and everything that happens to it.

Drive ==
    \/ RoundsExhausted
    \/ DecideParseError
    \/ \E d \in Decision : Decide(d)
    \/ \E p \in loc.calls : SkipDone(p) \/ StartTurn(p) \/ BrokerRedirects(p)
    \/ \E n \in 0..MaxWorkerArts : CompleteTurn(n)
    \/ RoundDone
    \/ \E claims \in [Criteria -> Claim] : Judge(claims)
    \/ ApplyCommands
    \/ SaveRound
    \/ LoopGuard

Next ==
    \/ \E team \in SUBSET Agents : ComposeTeam(team)
    \/ Drive
    \/ Crash
    \/ Resume
    \/ ResumeTerminal

Spec == Init /\ [][Next]_vars

\* A running invocation is a plain loop: it keeps taking steps while it can.
FairSpec == Spec /\ WF_vars(Drive)

-----------------------------------------------------------------------------
\* Properties.

EvidenceOK(b) ==
    /\ \A c \in Criteria : b.checks[c].status = "passed" =>
          b.checks[c].evidence # {} /\ \A e \in b.checks[c].evidence : e < b.arts
    /\ b.status = "finished" => AllAccepted(b)

TurnsOK(b) == \A p \in (0..MaxRounds) \X Agents : b.turns[p] <= 1

QueueOK(b) ==
    /\ \A c, d \in b.pending : c.key = d.key => c = d
    /\ \A c \in b.pending : c.key \notin b.applied

RosterOK(b) ==
    /\ \A a \in Agents : b.selected[a] <= 1
    /\ Roster(b) \subseteq composed \cup Catalog

\* Acceptance evidence (judge_acceptance, all_accepted): a check marked passed
\* cites artifacts, and every one of them is on the same Blackboard, in memory
\* and after any crash on disk; a task saved as finished has all its checks
\* passed that way.
EvidenceInv == EvidenceOK(board) /\ EvidenceOK(disk)

\* "A completed worker turn is never re-run" (run_round, resume_task_loop): at
\* most one turn per round and agent, however often the round is crashed and
\* resumed, and delegate() only ever runs a roster agent that has no turn in
\* this round, in memory or on disk.
TurnsOnce ==
    /\ TurnsOK(board) /\ TurnsOK(disk)
    /\ \A a \in loc.worker : /\ a \in Roster(board)
                             /\ board.turns[<<board.round, a>>] = 0
                             /\ disk.turns[<<board.round, a>>] = 0

\* The command queue (enqueue_commands): the commands O issues and the admits
\* run_round adds for departments never queue one idempotency key twice, nor a
\* key that was applied in an earlier round.
QueueSound == QueueOK(board) /\ QueueOK(disk)

\* Roster growth (apply_pending_commands): an agent is in the roster once, and
\* it is a composed agent or one of the catalog.
RosterSound == RosterOK(board) /\ RosterOK(disk)

\* The safe checkpoint of _drive: roster, applied keys, emptied queue and round
\* number reach the disk in one save, never in two.
AtomicCheckpoint ==
    [][ \/ disk.status = "created"
        \/ /\ disk'.applied = disk.applied
           /\ disk'.selected = disk.selected
        \/ /\ disk'.round = disk.round + 1
           /\ disk'.pending = {}
           /\ disk.applied \subseteq disk'.applied ]_disk

\* A terminal checkpoint is final: no resume, crash or late save changes it.
TerminalSticky == [][disk.status \notin Terminal]_disk

\* Every invocation of _drive ends: it returns a result or leaves the loop.
DriveTerminates == (pc \in Active) ~> (pc \in {"done", "down"})

\* What a resume can observe of the loop, as DurableLoop sees it.
DurablePhase ==
    IF disk.status = "created" THEN "new"
    ELSE IF disk.status \in Terminal THEN disk.status ELSE "open"

DurableTurned == {p \in (0..MaxRounds) \X Agents : disk.turns[p] > 0}

Durable == INSTANCE DurableLoop WITH
    phase <- DurablePhase, round <- disk.round, roster <- Roster(disk), turned <- DurableTurned

\* Crash-obliviousness: however the process crashes and resumes, the checkpoint
\* goes through the history of an uninterrupted loop.
ImplementsDurable == Durable!Spec

\* Where memory and checkpoint agree: turns and round always, the roster and
\* the applied keys except between apply_pending_commands and the save.
SyncInv ==
    /\ board.turns = disk.turns
    /\ board.round = disk.round
    /\ pc # "save" => board.selected = disk.selected /\ board.applied = disk.applied
    /\ pc = "save" => /\ Roster(disk) \subseteq Roster(board)
                      /\ Roster(board) \subseteq Roster(disk) \cup Catalog
                      /\ disk.applied \subseteq board.applied
                      /\ board.pending = {}

\* What each place in _drive may rely on.
PhaseInv ==
    /\ pc = "idle" => board = NewBoard /\ disk = NewBoard
    /\ pc \in Active => board.status \in Running /\ disk.status \in Running
    /\ pc \in {"done", "down"} => disk.status # "created"
    /\ pc = "done" => disk.status \in Terminal
    /\ pc \in {"calls", "working", "judge", "commit", "save"} => board.round < MaxRounds
    /\ pc # "working" => loc.worker = {}
    /\ pc = "working" => \E a \in Agents : loc.worker = {a}
    /\ \A p \in loc.calls : p[2] \in Roster(board)
    /\ pc \notin {"calls", "working"} => loc.calls = {}

\* The inductive invariant of the proofs: each part above needs the others (a
\* turn is saved at most once because memory and checkpoint agree on the turns
\* of the round, a checkpoint is typed because a round in progress is below
\* max_rounds, and so on).
LoopInv ==
    /\ TypeOK
    /\ PhaseInv
    /\ SyncInv
    /\ EvidenceInv
    /\ TurnsOnce
    /\ QueueSound
    /\ RosterSound

\* command_bridge.py: "don't let one bad command kill the round".
NoCommandKillsTheRound == fault # "contract"

=============================================================================
