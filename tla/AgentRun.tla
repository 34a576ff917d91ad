------------------------------ MODULE AgentRun ------------------------------
(***************************************************************************)
(* orchestrator.run and orchestrator.resume: the agent graph driven by a   *)
(* process that may die, with its two files.  SQLite (langgraph.sqlite)    *)
(* holds the state resume starts from; checkpoint.json is the projection   *)
(* the UI reads, and, for runs older than LangGraph, the checkpoint.       *)
(*                                                                         *)
(* LangGraph is external and modelled from its use: stream(...,            *)
(* stream_mode="values") runs one node per superstep, hands the new        *)
(* checkpoint to a background writer, which saves them in order, and then  *)
(* yields the values to _stream.  A normal return and an exception of a    *)
(* node wait for the writer; a crash does not.                             *)
(***************************************************************************)
EXTENDS AgentGraph, Sequences

CONSTANTS
    MaxLag,    \* bound: checkpoints waiting for the background writer
    MaxDowns   \* bound: interruptions (crashes, failed projection writes)

ASSUME RunAssumption == MaxLag \in Nat /\ MaxDowns \in Nat

VARIABLES
    pc,       \* "idle" before run or the first resume; "project" when _stream has
              \* values to project; "drive" when the next node may run; "down"
              \* after a crash or an exception; "done" once an outcome was returned
    db,       \* the newest checkpoint in SQLite (the first state while there is none)
    file,     \* langgraph.sqlite: "absent", "empty" (no usable checkpoint), "rows"
    queue,    \* checkpoints the background writer has not saved yet
    proj,     \* checkpoint.json
    session,  \* KernelSession._closed of this process
    ran,      \* history: executions of each tool call
    ends,     \* history: task.completed and task.failed events published
    downs     \* history: interruptions

files == <<db, file, queue>>
history == <<ran, ends, downs>>
vars == <<values, pc, db, file, queue, proj, session, ran, ends, downs>>

Projection == [backend : {"none", "legacy", "langgraph"}, values : Values]

Projected(v) == [backend |-> "langgraph", values |-> v]

\* The type invariant: memory, SQLite, the waiting checkpoints and checkpoint.json
\* hold states of the graph, and the files the stage their run or resume left.
TypeOK ==
    /\ values \in Values
    /\ pc \in {"idle", "project", "drive", "down", "done"}
    /\ db \in Values
    /\ file \in {"absent", "empty", "rows"}
    /\ queue \in Seq(Values)
    /\ proj \in Projection
    /\ session \in {"open", "closed"}
    /\ ran \in [ToolKeys -> Nat]
    /\ ends \in Nat
    /\ downs \in Nat

\* A new task, or a directory that holds only a legacy checkpoint.json of a
\* running loop.
Init ==
    /\ \/ \E gate \in {"clean", "unvalidated"} :
            /\ values = NewValues(gate, FreshBudget)
            /\ proj = [backend |-> "none", values |-> values]
       \/ /\ values \in Starts
          /\ proj = [backend |-> "legacy", values |-> values]
    /\ pc = "idle"
    /\ db = values
    /\ file = "absent"
    /\ queue = <<>>
    /\ session = "open"
    /\ ran = [k \in ToolKeys |-> 0]
    /\ ends = 0
    /\ downs = 0

-----------------------------------------------------------------------------
\* Starting and resuming.

\* Opening the checkpointer creates the database; the first state is handed to
\* the writer and to _stream.
Begin ==
    /\ file' = "empty"
    /\ queue' = <<values>>
    /\ pc' = "project"
    /\ session' = "open"
    /\ UNCHANGED <<values, db, proj, history>>

Run ==
    /\ pc = "idle"
    /\ proj.backend = "none"
    /\ Begin

\* resume without a database: _legacy_state migrates the JSON checkpoint.
ResumeLegacy ==
    /\ pc = "idle"
    /\ file = "absent"
    /\ proj.backend = "legacy"
    /\ Begin

\* Mutant: resume reads the projection.
ResumeFromProjection ==
    /\ pc = "down"
    /\ file = "rows"
    /\ db.status = "running"
    /\ values' = proj.values
    /\ session' = proj.values.task
    /\ pc' \in {"project", "drive"}
    /\ UNCHANGED <<files, proj, history>>

\* Mutant: resume raises when checkpoint.json and SQLite disagree.
ResumeAgreed ==
    /\ pc = "down"
    /\ file = "rows"
    /\ db.status = "running"
    /\ IF proj.values = db
       THEN /\ values' = db
            /\ session' = db.task
            /\ pc' \in {"project", "drive"}
            /\ UNCHANGED <<files, proj, history>>
       ELSE UNCHANGED vars

\* resume from SQLite: restore the session, stream from the pending node.
\* LangGraph may yield the restored values first.
Resume ==
    /\ pc = "down"
    /\ file = "rows"
    /\ db.status = "running"
    /\ values' = db
    /\ session' = db.task
    /\ pc' \in {"project", "drive"}
    /\ UNCHANGED <<files, proj, history>>

\* resume of a run that has an outcome returns it.
ResumeStored ==
    /\ pc \in {"down", "done"}
    /\ file = "rows"
    /\ db.status # "running"
    /\ pc' = "done"
    /\ UNCHANGED <<values, files, proj, session, history>>

\* resume finds a database without a checkpoint: FileNotFoundError.
ResumeNothing ==
    /\ pc = "down"
    /\ file = "empty"
    /\ UNCHANGED vars

-----------------------------------------------------------------------------
\* One superstep.

Ready(route) ==
    /\ pc = "drive"
    /\ values.route = route
    /\ Len(queue) < MaxLag

\* The node's update is applied and handed to the writer.
Commit(w) ==
    /\ values' = w
    /\ queue' = Append(queue, w)
    /\ pc' = "project"
    /\ UNCHANGED <<db, file, proj, downs>>

Guard == Ready("guard") /\ Commit(GuardNode(values)) /\ UNCHANGED <<session, ran, ends>>

Agent(answer) ==
    Ready("agent") /\ Commit(AgentNode(values, answer)) /\ UNCHANGED <<session, ran, ends>>

\* Mutant: the repetition is noticed after the call.
CallToolFirst ==
    /\ Ready("tool")
    /\ ran' = [ran EXCEPT ![values.action.arg] = @ + 1]
    /\ Commit(ToolNode(values))
    /\ UNCHANGED <<session, ends>>

\* tool_node executes the call unless it was repeated too often.
CallTool ==
    /\ Ready("tool")
    /\ ran' = IF SameToolExceeded(values) THEN ran
              ELSE [ran EXCEPT ![values.action.arg] = @ + 1]
    /\ Commit(ToolNode(values))
    /\ UNCHANGED <<session, ends>>

RunDelegation(served) ==
    /\ Ready("delegate")
    /\ ~DelegateRaises(values)
    /\ Commit(DelegationNode(values, served))
    /\ UNCHANGED <<session, ran, ends>>

\* complete_task: close the session, publish task.completed or task.failed.
CloseIf(ended) ==
    /\ session' = IF ended THEN "closed" ELSE session
    /\ ends' = IF ended THEN ends + 1 ELSE ends

Finish ==
    /\ Ready("finish")
    /\ CloseIf(FinishNode(values).route = "end")
    /\ Commit(FinishNode(values))
    /\ UNCHANGED ran

\* Mutant: fail_node writes the outcome itself.
FailSilently ==
    /\ Ready("fail")
    /\ session' = "closed"
    /\ Commit(FailNode(values))
    /\ UNCHANGED <<ran, ends>>

Fail ==
    /\ Ready("fail")
    /\ CloseIf(TRUE)
    /\ Commit(FailNode(values))
    /\ UNCHANGED ran

-----------------------------------------------------------------------------
\* Files, and how an invocation ends.

\* The background writer saves the oldest waiting checkpoint.
Persist ==
    /\ pc \in {"project", "drive"}
    /\ queue # <<>>
    /\ db' = Head(queue)
    /\ queue' = Tail(queue)
    /\ file' = "rows"
    /\ UNCHANGED <<values, pc, proj, session, history>>

\* Mutant: only a running state is projected.
ProjectRunning ==
    /\ pc = "project"
    /\ proj' = IF values.status = "running" THEN Projected(values) ELSE proj
    /\ pc' = "drive"
    /\ UNCHANGED <<values, files, session, history>>

\* save_graph_projection in _stream.
Project ==
    /\ pc = "project"
    /\ proj' = Projected(values)
    /\ pc' = "drive"
    /\ UNCHANGED <<values, files, session, history>>

\* An exception leaves run or resume, or the process dies: what the writer has
\* not saved is lost, and so is the session.
GoDown ==
    /\ values' = db
    /\ queue' = <<>>
    /\ session' = db.task
    /\ pc' = "down"
    /\ UNCHANGED <<db, file, ran, ends>>

\* The projection cannot be written.  _stream tries again with the snapshot
\* SQLite has.
ProjectFails ==
    /\ pc = "project"
    /\ downs < MaxDowns
    /\ proj' \in {proj} \cup (IF file = "rows" THEN {Projected(db)} ELSE {})
    /\ downs' = downs + 1
    /\ GoDown

\* delegation_node raises; _stream projects the last checkpoint and re-raises.
NodeRaises ==
    /\ pc = "drive"
    /\ values.route = "delegate"
    /\ DelegateRaises(values)
    /\ queue = <<>>
    /\ proj' = Projected(db)
    /\ UNCHANGED downs
    /\ GoDown

Crash ==
    /\ pc \in {"project", "drive"}
    /\ downs < MaxDowns
    /\ downs' = downs + 1
    /\ UNCHANGED proj
    /\ GoDown

\* The stream is exhausted: run or resume returns _outcome.
Return ==
    /\ pc = "drive"
    /\ values.route = "end"
    /\ queue = <<>>
    /\ pc' = "done"
    /\ UNCHANGED <<values, files, proj, session, history>>

-----------------------------------------------------------------------------
Drive ==
    \/ Guard
    \/ \E answer \in Answers : Agent(answer)
    \/ CallTool
    \/ \E served \in BOOLEAN : RunDelegation(served)
    \/ Finish
    \/ Fail
    \/ NodeRaises
    \/ Project
    \/ Return

Next ==
    \/ Run
    \/ ResumeLegacy
    \/ Resume
    \/ ResumeStored
    \/ ResumeNothing
    \/ Drive
    \/ Persist
    \/ ProjectFails
    \/ Crash

Spec == Init /\ [][Next]_vars

\* The stream is a plain loop, the writer a thread that keeps saving, and an
\* interrupted run is resumed at some time.
FairSpec == Spec /\ WF_vars(Drive) /\ WF_vars(Persist) /\ WF_vars(Resume)

-----------------------------------------------------------------------------
\* Properties.

\* Every node finds its session active, in memory and in the state it restored:
\* execute_tool never refuses a call of the run, and complete_task is never
\* called for a lifecycle that is closed, however the run was interrupted.
SessionActive ==
    pc = "drive" /\ values.route # "end" => session = "open" /\ values.task = "open"

\* The same-tool limit (discipline/budget.py) bounds what really runs: a tool
\* call is executed at most max_same_tool_calls times per incarnation of the
\* run, so its repetitions are bounded by the limit and the interruptions.
SameToolBounded == \A k \in ToolKeys : ran[k] <= MaxSameToolCalls * (downs + 1)

\* The lifecycle event and the outcome: nobody is told an outcome, and none is
\* in SQLite, before task.completed or task.failed was published; a repeated
\* event takes an interruption.
LifecycleEvents ==
    /\ ends <= downs + 1
    /\ db.status # "running" => ends >= 1
    /\ pc = "done" => db.status # "running" /\ file = "rows"

\* An invocation that drove the graph to its end returns with checkpoint.json
\* showing what SQLite holds.
ProjectionFresh == [][pc = "drive" /\ pc' = "done" => proj' = Projected(db')]_vars

\* SQLite goes through a run of the graph that nothing interrupted: crashes,
\* resumes and the lag of the writer never skip, reorder or undo a superstep.
Persisted == INSTANCE AgentGraph WITH values <- db
\* The newest checkpoint in SQLite implements the uninterrupted graph.
CheckpointFollowsGraph == Persisted!GraphSpec

\* A run that has a checkpoint reaches an outcome if it is resumed after each
\* of finitely many interruptions, unless it stands at a delegate action whose
\* fields do not convert: that raises out of delegation_node at every resume.
ResumedRunEnds ==
    (file = "rows") ~> (db.status # "running" \/ (db.route = "delegate" /\ db.action.arg = "bad_fields"))

\* The parts of the inductive invariant.  What waits for the writer continues
\* what SQLite holds, superstep by superstep, up to the state in memory.
ChainInv ==
    /\ \A i \in 1..Len(queue) : GraphOK(queue[i])
    /\ \A i \in 1..Len(queue) - 1 : Superstep(queue[i], queue[i + 1])
    /\ queue = <<>> => values = db
    /\ queue # <<>> => values = queue[Len(queue)]
    /\ queue # <<>> => file # "absent"
    /\ queue # <<>> /\ file = "empty" => queue[1] = db
    /\ queue # <<>> /\ file = "rows" => Superstep(db, queue[1])

PhaseInv ==
    /\ session = values.task
    /\ pc = "idle" <=> file = "absent"
    /\ pc = "idle" => values.task = "open"
    /\ pc \in {"idle", "down", "done"} => queue = <<>>
    /\ pc \in {"project", "drive"} /\ queue = <<>> => file = "rows"
    /\ pc = "done" => file = "rows" /\ db.status # "running"
    /\ pc = "drive" /\ values.route = "end" => proj = Projected(values)

\* The executions charged to the state in memory, without the one that exceeds.
Charged(v, k) == IF v.calls[k] > MaxSameToolCalls THEN MaxSameToolCalls ELSE v.calls[k]

Announced(v, n) == v.status # "running" => n >= 1

HistoryInv ==
    /\ \A k \in ToolKeys : ran[k] <= MaxSameToolCalls * downs + Charged(values, k)
    /\ ends <= downs + (IF values.status = "running" THEN 0 ELSE 1)
    /\ Announced(values, ends) /\ Announced(db, ends)
    /\ \A i \in 1..Len(queue) : Announced(queue[i], ends)

\* At every moment the waiting checkpoints lead from SQLite to memory along the
\* graph, session and graph state agree on the lifecycle, and every executed
\* call and published event is paid for by the state in memory or by an
\* interruption.
RunInv ==
    /\ TypeOK
    /\ GraphOK(values) /\ GraphOK(db)
    /\ ChainInv
    /\ PhaseInv
    /\ HistoryInv

\* _legacy_state: "pre-LangGraph runs remain resumable" (resume migrates
\* checkpoint.json only while there is no database).
LegacyRemainsResumable == pc = "down" /\ proj.backend = "legacy" => file # "empty"
=============================================================================
