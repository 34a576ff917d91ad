# hex_agent: a verification project in TLA+

hex_agent is an agent runtime: a kernel through which sessions call tools, an agent
graph that lets a language model choose those calls, a supervisor loop ("Agent O")
that composes several agents on one task, delegation between agents, and a web console
that runs and shows agents. These modules model the parts of it that keep state over
several steps, threads or crashes; TLC checks them on small instances, and TLAPS proves
every safety property the passing runs check for every value of the constants.

`PROJECT.json` lists the components, the runs with their properties, the source lines of
every definition, the hazards and the theorems. Comments in the modules name the code
behaviour each property is about; an operator whose comment begins with `Mutant:` is a
broken variant of the definition after it, which shows that a property can fail.

## 1. Inventory

| Component | State | Operations | What makes it correct |
|---|---|---|---|
| Agent-O task loop (`supervisor/loop.py`, `graph.py`, `state.py`, `command_bridge.py`) | the Blackboard: status, roster, checks, round, turns, artifacts, command queue, applied keys | compose_team, o_decide, run_round (workers, departments), run_tool, judge_acceptance, apply_pending_commands, saves, resume | a worker turn that is saved never runs again; a command applies once, together with its key and its round; a task finishes only on evidence that exists; every invocation ends |
| Task-loop store (`supervisor/checkpoint.py`) | one row per task | save, load | what is loaded is one committed save |
| Agent graph (`graph/`), discipline (`discipline/`) | messages, last action, route, budgets, gate, lifecycle | guard, agent, tool, delegate, finish and fail nodes | budgets hold, the finish gate holds, no legal run hits LangGraph's recursion limit, every run ends |
| Agent runtime (`orchestrator/`) | langgraph.sqlite, checkpoint.json, the session | run, resume, migration of legacy checkpoints, projection | SQLite goes through one uninterrupted run of the graph; no outcome without its lifecycle event; the projection is fresh when a run returns |
| Core kernel (`core/`), middleware (`middleware/`) | registry, pipeline, frozen flag, sessions and scopes | register_tool, use, create_root, execute_tool through the layers, complete_task | a non-idempotent effect runs once per call; refused tools never run; the events of a call match its answer; every call is answered, unless a custom layer hands up metadata that are None |
| Delegation (`delegation/`) | requests, progress and results in the store, child sessions | validate, delegate, progress sink | scopes shrink down a chain, depth is bounded, no child outlives its parent, progress is gap-free and durable before it is announced |
| Delegation agents (`adapters/agents/`) | the child's graph, the number of reported steps | run | every step is reported once; the adapter stays within what the manager allows |
| Run log (`observability/event_log.py`) | counter, events.jsonl, metrics, summary.json, index.jsonl | emit, the bus sink, finish | lines numbered in order, metrics equal to what the lines say, also in the summary, one end |
| Web console (`ui/server.py`) | jobs in memory, files of the runs on disk | start, _execute, build_snapshot, the stream | a job's end is on disk before it is announced; what was shown as ended stays so |
| Control plane (`control/`) | session counters, registries, runtime checkpoints | emit_event, validate, with_status, patched | a number stands for one event of a session, and every numbered event reaches every sink or is lost to a failing one |
| LLM adapter (`llm/`) | a lazily made client | call_llm with retries | answers after a bounded number of requests, and its retries do not multiply with those of the pipeline |
| Retrieval (`rag/`) | the collection on the server, a readiness flag and a lock per store | ingest, search, creation of the collection | an ingest replaces exactly the chunks of its sources; the collection is created once per store; every ingest ends |
| Roles, skills, features, config, safety, toolbox, scripts | read once, or none | load, render, classify, file and process I/O | pure or I/O |

How they interact. The console's pool thread (`RunController._execute`) makes an
EventLogger, subscribes it to the kernel's EventBus and calls the agent. The agent graph
calls the kernel's execute_tool in its session; the delegate node calls the delegation
manager, which opens a child session on the same kernel and runs a handler in the
caller's thread; the handler the repository ships runs the agent graph again. The task
loop calls the delegation manager once per worker and writes its Blackboard to SQLite
between the calls. All publishing on the bus is synchronous, in the publisher's thread,
and what a subscriber raises is swallowed. The emitter of the control plane ends on that
bus too, and so in the run log; llm.chat and the retrieval tools are executors of the
kernel, the latter in front of a Qdrant server that several processes share.

Hard behaviours: crashes between a side effect and its checkpoint; a checkpoint writer
that lags behind the graph; retries around tools with effects; layers that raise after a
tool has run; two layers of retries around one model; handlers that repeat, misnumber or overrun their reports; several threads
in one logger and writes that fail there; a snapshot mixed from three reads while the
job moves on; commands that arrive twice under different keys; a replacement made of a
delete and an insert on a server that may fail between them or serve another client;
numbers that begin again with the process.

## 2. Modules

| Module | Models | Builds on |
|---|---|---|
| `DurableLoop` | what the task loop promises about its checkpoint: an uninterrupted history | |
| `TaskLoop`, `TaskLoopProofs`, `MCTaskLoop` | the Agent-O loop with its store, crashes and resume | refines `DurableLoop` |
| `TaskLoopEffects`, `MCTaskLoopEffects` | the same loop with a record of tools executed and invocations lost (proofs in `TaskLoopProofs`) | extends `TaskLoop` |
| `AgentGraph` | the agent graph, one superstep per node (run by `MCAgentRun` and `MCChildAgent`, proofs in `AgentRunProofs`) | |
| `AgentRun`, `AgentRunProofs`, `MCAgentRun` | run and resume around the graph | extends and refines `AgentGraph` |
| `Delegation`, `DelegationProofs`, `MCDelegation` | the delegation manager with arbitrary handlers | |
| `ChildAgent`, `ChildAgentProofs`, `MCChildAgent` | the LangGraph handler in one delegation | extends `AgentGraph`, refines `Delegation` |
| `Kernel`, `KernelProofs` | registry, pipeline, sessions and concurrent tool calls | |
| `ChatCall`, `MCChatCall` | call_llm as the executor of llm.chat, inside the kernel (proofs in `KernelProofs`) | extends and refines `Kernel` |
| `RunLog`, `RunLogProofs` | the event log (`RunLogProofs` is also about `ControlPlane`) | |
| `ControlPlane`, `MCControlPlane` | the emitter, its numbering and its sinks, over the log | extends `RunLog` |
| `RunJob`, `RunJobProofs`, `MCRunJob` | a job of the console, its worker, its log and a polling reader | extends `RunLog` |
| `Retrieval`, `RetrievalProofs`, `MCRetrieval` | ingest into a Qdrant collection by several threads and processes | |

**TaskLoop.** `board` is the Blackboard in memory, `disk` the last row saved, `pc` and
`loc` the place and the locals of `_drive`. One action per stage: ComposeTeam, Decide (or
DecideParseError), StartTurn / CompleteTurn / SkipDone / BrokerRedirects for the calls of
a round, RoundDone, Judge, ApplyCommands, SaveRound, LoopGuard; RoundsExhausted ends the
loop. Crash loses `board` and `loc`; Resume reloads `disk`; ResumeTerminal returns a stored
result. `fault` tells a crash from an exception. Agent O, the Context Broker and the
workers are the environment: the decision is any member of `Decision`, a claim of
evidence any member of `Claim`. Lists whose order no decision reads are counts or sets;
`tool_requests` may name a tool several times, and `<<t, n>>` in a decision is the n-th
request for tool t. Each invocation has an EventEmitter or none (`emitter`, out of `Emitters`); with one, an emit
of an undeclared event type raises. **TaskLoopEffects** takes the same steps and counts,
per round, the executions of each tool request and the invocations that came down: what no
checkpoint can undo.

**AgentGraph.** The variable `values` is the LangGraph state: route, last action, budgets
(steps, parse errors, calls per tool key), the validation gate, task lifecycle, status, and
the number of supersteps. `Superstep` has one disjunct per node; the model's answer is
any parsed action or a parse error. `AgentRun` adds `db` (newest checkpoint), `queue`
(checkpoints the writer has not saved), `file`, `proj` (checkpoint.json), the session of
the process, and the histories `ran`, `ends`, `downs`. LangGraph is external and modelled
from its use: a superstep hands its checkpoint to a background writer and then yields;
a return and an exception wait for the writer, a crash does not; opening the
checkpointer creates the database file at once.

**Delegation.** Sessions are roots or children named by their delegation. `phase` is the
statement delegate() has reached, `request`, `progress` and `result` are the store,
`notified` the published progress. Manage steps are the manager's, Handle steps the
handler's: report, delegate further, return, raise. A handler is arbitrary within the
port's types. Each delegate call holds its caller, so that the open delegations of a root
form a chain.

**ChildAgent** is one delegation whose handler is `LangGraphDelegationAgent`: `Stream`
runs a superstep and reports the step if the step number grew. The refinement mapping
to `Delegation` is spelled out in its INSTANCE.

**Kernel.** `registry`, `fallback`, `pipeline` and `frozen` are the kernel, `session` and
`scope` the sessions, and every caller has one `call`: its tool, its chain of layers, the
position in it, direction, reply and tries per Retry layer. EnterLayer and LeaveLayer are
one layer's code before and after `nxt`, RunExecutor is the innermost `core`, Answer is
what execute_tool does last. A "custom" layer is a middleware of a user of the kernel
(external) or BudgetGuard: it may pass on, raise, return something that is no dict, or put
an envelope of its own in the place of what it got, with metadata that say nothing of the
tool or are None; it calls `nxt` at most once. `replaced` remembers that it did so above an
executor. Executors may take effect and then fail. Child sessions are in `Delegation`; the fallback executor is there so that
ScopeRegistered has something to exclude. **ChatCall** opens RunExecutor for the tool
llm.chat: NoClient (settings or client cannot be made, outside of call_llm's try),
StartChat, and one Request per attempt, which ends in an answer, a transient or a final
error; `asking` is the attempt, `asked` counts the requests of the call. Every other
executor stays the kernel's.

**RunLog.** One step per lock section of EventLogger: Publish writes a line, Count counts
one metric after it, Finish sets the flag and takes the summary's metrics (with the length
of the log, a history), and the steps of finish write the terminal line, open and
write the summary and append the index entry; with `DiskMayFail` each write may raise.
**ControlPlane** puts the EventEmitter in front of it: Emit asks the registry and takes a
number from SessionSeq, DeliverToBus and DeliverToTransport are one sink each, a
transport may raise and thereby keep the event from the sinks after it, and Resume is a
new process that continues the session with new counters. The sinks are any sequence of
distinct names, of which "bus" is the bus; `received` and `dropped` are histories.
**RunJob** adds the job record, the worker's place in `_execute`, checkpoint.json as the
console reads it, the final actions of the agent, a reader that makes the three reads of a snapshot in its own steps, and
a restart of the server, which forgets the jobs. The two readers of a final action are kept
apart: finish_node has the action json_gate parsed and compares its reason with "error" as
it stands; the console parses the text of the message again with json.loads, which reads no
fenced or broken text (a final that is not `plain`), and lower-cases the reason.

**Retrieval.** `server` is the collection with the chunks of every source, `ready` and
`lock` belong to a store (one per process), `job` is the place of every ingesting thread.
Each request to the server is a step: exists, count, delete, exists again, create, index,
upsert; each may fail before or after the server has acted, the embedder may fail or give
vectors that upsert refuses, and Kill ends a process. `ChunksOf` is chunk_text on texts of
which only the blank positions are known. `indexed` is a history: the text a source was
last replaced with, undisturbed, or `Torn`; `creator` tells who created the collection and
whether that was finished. The Qdrant server is external and modelled from its use.

## 3. Runs

Run a configuration with `tlc -config X.cfg M`, M being its MC module. Nine runs pass;
three show a disagreement between the code and what the repository says of it (section 7).

| Run | Configuration | Question | Bounds |
|---|---|---|---|
| `taskloop_roster` | `TaskLoopRoster.cfg` | Do turns run once and commands apply once and atomically, whatever crash or exception interrupts the loop, and does the checkpoint implement `DurableLoop`? | two agents, a department with both, three commands of which two compete for an agent and two for a key, two rounds, with and without emitter |
| `taskloop_evidence` | `TaskLoopEvidence.cfg` | Can a check pass or a task finish on evidence that is not there? How often does a tool run, and is a task given up for want of progress that it made? Does every invocation end? | one criterion, claims with all, some or none of their evidence on the Blackboard, a tool requested up to twice in a decision, two rounds, two parse errors, one invocation lost per round |
| `taskloop_command_kills_round` | `TaskLoopContract.cfg` | Can one command end the round? (violation) | an emitter is wired |
| `agent_run` | `AgentRunCrashes.cfg` | What is in SQLite, in checkpoint.json and announced after crashes at every point? Does a run that is resumed reach an outcome? | two steps, two parse errors, the writer two checkpoints behind, two interruptions |
| `agent_run_legacy` | `AgentRunLegacy.cfg` | Does a legacy run remain resumable? (violation) | one interruption |
| `delegation` | `DelegationRun.cfg` | Do scope, depth, progress and results hold for handlers that repeat, misnumber, overrun, raise or delegate further? Does every delegation end? | one root, two delegations (nested or one after the other), two capabilities, two events, an artifact, a target that does not resolve |
| `delegation_empty_scope` | `DelegationEmptyScope.cfg` | Does an explicit empty scope deny all? (violation) | one delegation |
| `child_agent` | `ChildAgentRun.cfg` | Does the LangGraph handler report every step once, agree with its graph about the outcome, stay within the recursion limit and implement `Delegation`? | four steps, three parse errors, two tool keys with two calls each |
| `chat_call` | `ChatCallPipelines.cfg` | Does any order of layers repeat an effect, run a refused tool or multiply the retries of call_llm? Is every call answered, and is the kernel with call_llm in it still the kernel? | every pipeline of up to three layers, custom ones included, llm.chat and a denied tool under every descriptor, two attempts of Retry, two retries of call_llm |
| `control_plane` | `ControlPlaneFaults.cfg` | Are lines numbered and counted right, is the log ended once, and is every numbered event accounted for, by several threads with failing writes and sinks and a second process? | two threads, three lines, two event kinds, a sink that may raise before the bus, two events per session, two processes |
| `run_job` | `RunJobFaults.cfg` | Is the end of a job recorded, shown, and shown to stay, with failing writes and restarts? | three lines, two final actions of every kind (done, error, failed, Error; plain or not), one restart |
| `retrieval` | `RetrievalFaults.cfg` | What is indexed after ingests that fail, overlap or are killed? Do threads create the collection twice? Does every ingest end? | two threads over one or two stores, a file that is empty, of one chunk or of three with a blank window between them, two faults |

**Why the bounds are enough to be interesting.** Two rounds let a round be resumed, let a
command queued in one round be applied and meet its repetition in the next, and let the
growth of the roster be charged. Two interruptions let a run be interrupted during its
resume, and a writer two checkpoints behind loses more than one superstep. In
`DelegationRun.cfg` one policy is accepted at depth 1 only and with two reports, one also
below it with fewer capabilities, and one is refused; two events under one delegation give
duplicates, gaps and one report too many. Three layers are the fewest in which a policy
gate stands between two Retry layers. `llm_failed` is counted in four separate lock
sections, so that two threads overlap in every way. One lost invocation per round lets a
request run twice and a resumed round be skipped through. A text of three chunks replaced by
one of one chunk shows what a missing delete would leave; two faults let a creation fail
half-way and the next one meet it; two stores let one process meet a collection that
another made. Whatever `ChunkSize` and `ChunkOverlap` are, `ChunkingSound` checks chunk_text
against its reference (no character lost, numbers without gaps, windows within the size)
for all texts up to six characters, sizes from -1 to 4 and overlaps from -2 to 5. The bounds are constants, and each
is named where it is declared: MaxRounds, MaxParseErrors, MaxRepeats, MaxSteps and
MaxSameToolCalls are the code's own limits; MaxRetries is LLM_MAX_RETRIES; MaxDowns, MaxLag, MaxLost, MaxMentions, MaxLayers, MaxLines, MaxFinals,
MaxEvents, MaxLives, MaxFaults and MaxWorkerArts bound the environment.

Symmetry is used for the threads of `ControlPlane` only: no definition tells them apart and the
run checks no liveness. Deadlock is not checked for `Delegation` and `ChildAgent`, whose
finite sets of delegations are used up when every delegation has ended; in the other
passing runs every state has a successor.

**What the properties say.** `LoopInv`, `RunInv`, `DelegationInv` and `KernelInv` are the
inductive invariants of section 5, type invariants and the smaller properties named there
included. Then:

- *TaskLoop.* `TurnsOnce`: a turn that is saved is not run again, and none is recorded twice,
  over any crashes (a turn whose delegate ran and was not saved is run again).
  `EvidenceInv`: a passed
  check names artifacts on the Blackboard, and a finished task has all checks passed.
  `AtomicCheckpoint`, `ImplementsDurable`: roster, keys, queue and round reach SQLite in one
  save, and the rows form an uninterrupted history with a final end. `DriveTerminates`: an
  invocation ends by return, exception or crash. `ToolsOncePerInvocation`: a request
  for a tool runs once in a round, once more for every invocation lost in it, and never before the round is
  reached on disk. `NoProgressSound`: a task is blocked for want of progress only after a
  round without turns and tools, or one in which an invocation was lost.
- *AgentGraph, AgentRun.* `WithinRecursionLimit`: the budgets are used up before LangGraph
  gives up. `CheckpointFollowsGraph`: SQLite goes through states of one uninterrupted
  graph. `SameToolBounded`: a call runs at most its limit's times per incarnation of the
  run. `LifecycleEvents`, `OutcomeSound`, `ProjectionFresh`: no outcome without its event and
  an allowed final, and a run that returns has a projection equal to SQLite.
  `ResumedRunEnds`: a run that is resumed after each interruption gets an outcome.
- *Delegation.* `ScopeNested`: scopes shrink and depth is bounded down every chain.
  `DelegationInv` holds the rest: no child outlives its parent, the stored reports have no
  gap and no repetition, and all of them are in the result. `DelegationEnds`: every
  delegation gets a result.
- *ChildAgent.* `StepsReported`: every step is reported once. `OutcomeAgrees`: graph,
  session and result agree. `ImplementsDelegation`, `ChildEnds`.
- *Kernel, ChatCall.* `EffectsOnce`: no call runs a non-idempotent effect twice.
  `RefusedNeverRuns`: what the scope or a deny list excludes is never executed.
  `RequestsBounded`: one call of llm.chat calls the client's `create` at most
  LLM_MAX_RETRIES + 1 times, whatever Retry layers are around it, and not again after an
  answer or a final error; what the client retries by itself within one `create` is its own.
  Both except a call in which a custom layer has replaced an envelope, and with it what
  Retry reads. `CallsAnswered`: every call ends and is answered, or raises for metadata that a
  custom layer has set to None, and for nothing else. `ImplementsKernel`: with call_llm in it the
  kernel takes steps of Kernel only, so that the theorems about Kernel apply.
- *RunLog, ControlPlane.* `LogSequenced`, `MetricsFollowLog`: numbers grow with the lines, and
  the metrics are what the lines say, less what is about to be counted; a written summary
  misses at most one line of every other thread of those the log had when finish took its
  metrics. `FinishOnce`: the log ends at most once.
  `EventsAccounted`: in one process every number of a session belongs to one event, which
  each sink took once, is about to be given, or lost to a failing sink.
- *RunJob.* `EndRecorded`: a completed job is completed on disk, and no index entry
  contradicts a failed one. `ShownAgrees`, `EndStaysShown`, `EndShown`: the console agrees
  with the job, does not take back an end, and comes to show it; all three except a run that
  is shown failed for a final action only the console reads as a failure (section 7).
- *Retrieval.* `IndexedWhole`: a source whose last replacement was undisturbed is indexed by
  all of the text last ingested and nothing else, whatever failed before. `CollectionSound`:
  the lock is held exactly during a creation, threads of one store create the collection
  once, an upsert finds it, and the index is missing only after a failure. `IngestEnds`.

## 4. Fairness

All fairness is weak, and on steps that the code takes by itself.

- TaskLoop, `WF(Drive)`: `_drive` is a plain loop; every step of it returns, since
  call_llm answers or raises and the workers are bounded by their own budgets. Neither a
  crash nor a resume is fair.
- AgentRun: `WF(Drive)` for the stream of the graph, `WF(Persist)` for LangGraph's
  background writer, and `WF(Resume)`: `ResumedRunEnds` is about a user who resumes an
  interrupted run; interruptions are bounded by MaxDowns.
- Delegation: `WF(Manage(d))`, the straight-line code of delegate(), and
  `WF(HandlerEnds(d))`, the port's contract that a handler returns or raises. ChildAgent
  shows it for the handler the repository ships, from `WF(ChildNext)` alone.
- TaskLoopEffects, `WF(Drive /\ Record)`: the same as TaskLoop's; Record only counts.
- ChatCall, `WF(ChatStep(c))` for every caller: a call is straight-line code in the caller's
  thread, executors return or raise, and a request to the model has a timeout.
  Registration is not fair.
- RunJob: `WF(WorkerSteps)`, the pool runs what is submitted to it, and
  `WF(ReaderSteps)`, a stream polls as long as its client stays. Start and Restart are
  not fair.
- Retrieval, `WF(IngestStep(i))` for every thread: ingest is straight-line code over a finite
  list of files, calls to the server end by their timeout, and the lock is waited for only
  while another thread of the store is in its own fair steps. Kills and new ingests are
  not fair.

## 5. Proofs

`tlapm M.tla` checks a module's proofs. Eight modules hold theorems; each proves an
inductive invariant, which TLC has checked on the run's instance, and reads the
properties off it. The assumptions are the named ASSUMEs of the specifications, which give
the constants their types and keep apart what the code keeps apart: sets of names are
disjoint, limits are naturals, the threads are finitely many, the sinks of an emitter are
distinct, texts are stripped (rag/service.py strips them), and Attempts is at least 1
(Retry's constructor sees to that). LLM_MAX_RETRIES, the chunk size and the overlap are any
integers, as in the code.

- **TaskLoopProofs**, `LoopInv`. `TurnsOnce` is not inductive: that a resumed round skips
  what was done needs that memory and row agree on the turns of the round (`SyncInv`), and
  which local variables mean something at which stage (`PhaseInv`). From it `LoopCorrect`,
  `EvidenceTheorem`, `TurnsTheorem`, `QueueTheorem`, `RosterTheorem` (an agent is on the
  roster once, and composed or of the catalog), the action properties `StickyTheorem` (a
  terminal row is final) and `AtomicTheorem`, and the refinement `DurableTheorem`: a
  step that saves maps to a step of DurableLoop, every other one to a stutter.
  On top of it, `EffectsInv` for TaskLoopEffects: a round that is not reached is untouched,
  a round about to be decided was executed only by the invocations lost in it
  (`RoundsInv`), and the artifacts have grown since the baseline of the iteration if the
  round saw a turn or a tool and lost no invocation (`BaselineInv`). From it
  `EffectsCorrect`, `ToolsTheorem` and `NoProgressTheorem`.
- **AgentRunProofs**, first `GraphInv`. The number of supersteps is bounded by a linear
  function of the steps and parse errors used (three for a step, two for a parse
  error) plus what the current node still owes; with the route's consistency that is
  inductive, and `RecursionTheorem` follows by arithmetic from the recursion limit that
  orchestrator.run configures. `GraphCorrect` and `OutcomeTheorem` are about the same invariant.
  Then `RunInv`: `ChainInv`, the checkpoints that wait for the writer lead
  from SQLite to memory along the graph, makes every prefix the writer saves, and every
  suffix a crash loses, harmless. `HistoryInv` pays for each executed call and each
  published event out of the state in memory or an interruption. From it `RunCorrect`,
  `SessionTheorem` (no node meets a closed session), `SameToolTheorem`, `LifecycleTheorem`,
  `ProjectionTheorem`, and the
  refinement `CheckpointTheorem`: with crashes, resumes and a lagging writer SQLite
  implements the uninterrupted AgentGraph.
- **DelegationProofs**, `DelegationInv`. Depth and scope are checked against the direct
  parent only, so the chain of open calls and what the store holds at each phase of
  delegate() are part of the invariant. From it `DelegationCorrect`, `ScopeTheorem`,
  `OrphanTheorem`, `ProgressTheorem`, `DurableTheorem` (published progress is in the store),
  `ResultTheorem`, for any sets of roots, delegations, policies and handlers.
- **ChildAgentProofs**, `ChildInv`, over the lemmas about the graph. The reports follow the
  graph's step counter (`ReportInv`), which needs that a superstep adds at most one step and
  that the superstep that closes the lifecycle adds none; the session is active exactly
  while the graph runs (`LifecycleInv`). Since the graph's budget is the policy's
  max_steps, progress_sink never refuses a report. From it `ChildCorrect`, `StepsTheorem`,
  `AgreesTheorem`, `ChildLimitTheorem`, and the refinement `DelegationRefined`: a superstep
  maps to a report, to the end of the child's lifecycle or to a stutter, every other step to
  one of the manager's.
- **KernelProofs**, `KernelInv`. That no effect runs twice needs that, once a
  non-idempotent effect has run, the reply only travels up (no Retry turns it round, as long as no custom layer replaces
  it), and
  that a kernel with a session is frozen, so that no registration changes what Retry
  reads; that a refused tool never runs needs that a denied call stays above the first
  policy gate of its chain. From it `KernelCorrect`, `EffectsOnceTheorem`,
  `RefusedTheorem`, `ScopeRegisteredTheorem` (no session reaches the fallback executor),
  `EventsTheorem`, `EndedTheorem` (an ended session executes and publishes nothing).
  For ChatCall, `ChatImplementsKernel` maps every step of call_llm to a step of Kernel or a
  stutter, so that `ChatKeepsKernel` takes the above over. `ChatInv` (inside call_llm a
  caller has sent one request less than the attempt it is in; a call that has left it goes
  up with a reply no Retry layer retries) gives `ChatCorrect` and `RequestsTheorem`.
- **RunLogProofs**, `LogInv` and `MetricsInv`, then `PlaneInv`. The order of the lines needs how far the
  counter is ahead of each line (`SequenceInv`); one end needs that at most one
  thread is in finish, and what each stage of finish has written (`FinishInv`); that
  metrics are what the lines say is a count of two sets, of which each step moves one
  element, and needs that a thread counts a metric once per event (`CountedInv`); when
  finish takes the metrics, only the other threads have something to count, one line each,
  and the lines up to that point stay as they are (`SnapshotInv`; both are `MetricsInv`). For
  the emitter, `EmissionInv`: a number is given to one thread, which owes it to distinct
  sinks none of which has it yet, and every number is taken, pending or dropped. From them
  `LogCorrect`, `PlaneCorrect`, `SequencedTheorem`, `MetricsTheorem`, `FinishTheorem`,
  `EventsTheorem`, for any number of threads, sessions, sinks and processes.
- **RunJobProofs**, `JobInv`, over the lemmas about the log. `EndInv` says what finish has
  written at each stage of `_execute`, and that an end which could not be written is in
  the checkpoint; `ErrorInv`, that a final action "error" is the last one and fails the
  run, and that the reason the reader holds is of a plain final action; `ShownInv`, that every shown end has a reason
  (the checkpoint's error, the job, or after a restart the files) which the next
  snapshot finds again, also when it began its reads before. From it `JobCorrect`, `EndTheorem`, `ShownTheorem`
  and the action property `EndStaysTheorem`.
- **RetrievalProofs**, `RetrievalInv`. `CreationInv`: the thread at the index owns the
  creation, and one that waits for the lock after its store made the collection will find
  the flag. `ReplacementInv`: of the replacements of a source, one that is alone is the
  only one and has the old chunks gone before it writes. From it `RetrievalCorrect` and
  `CollectionTheorem`. `ChunksTheorem` is about chunk_text for every text, size and
  overlap; where one would use induction over the windows, the proof takes the least
  position that is not covered, and the ranks of the chunks that are kept are a lemma about
  finite sets. `IndexedTheorem` puts both together.

The theorems of RunJobProofs and ChildAgentProofs are stated in modules that extend the
proofs they build on, and so have the named assumptions of those specifications around
them. These are about constants that RunJob and ChildAgent do not have, and hold for
suitable values of them whatever those of RunJob and ChildAgent are.

## 6. Only model-checked

Liveness (`DriveTerminates`, `ResumedRunEnds`, `DelegationEnds`, `ChildEnds`,
`CallsAnswered`, `EndShown`, `IngestEnds`) needs ENABLED and fairness, which the prover does
not handle. Every other property of the passing runs is the statement of a theorem. The
windows of chunk_text being within the size is checked by TLC alone (`ChunkingSound`). The
other way round, calls without a session (`DirectCall`) are covered by the proofs about
Kernel and by no run.

## 7. Where the code and its documents disagree

Checked as violations:

1. `taskloop_command_kills_round`: an undeclared event type (`command.skipped` and three
   others) raises out of the round when an emitter is wired, against
   command_bridge.py:113, "don't let one bad command kill the round".
2. `agent_run_legacy`: a crash after the checkpointer has created its file leaves a
   legacy run that resume refuses, against loop.py:147, "pre-LangGraph runs remain
   resumable".
3. `delegation_empty_scope`: a delegate action with an explicit empty list of
   capabilities opens a child with its parent's scope, against core/session.py:160.

Met while modelling, part of the models, and stated as exceptions in the properties where
they touch one:

- The payload of delegation.progress has a `sequence` of its own, which replaces the
  log's number (event_log.py:68): `LogSequenced` excepts those lines.
- finish sets its flag before it writes (event_log.py:83): after a failed write the second
  finish does nothing, and a failed job can be without summary and index entry;
  `EndRecorded` allows exactly that.
- A final action with reason "failed", or "error" in another casing, completes the run in
  finish_node (graph/nodes.py:209 compares with "error" as it stands) and is shown as a
  failure by the console (ui/server.py:309 lower-cases and has both words), although
  nodes.py:208 says that "the outcome status matches the UI's projection of an error final":
  `ShownAgrees`, `EndStaysShown` and `EndShown` state that this is the only way they part.
- execute_tool fills in the metadata of the envelope after its handler (core/kernel.py:154):
  a layer that returns a dict whose metadata is None makes it raise, without the event that
  closes the request, although kernel.py:149 says that "a misbehaving middleware must not
  crash the kernel": `CallsAnswered` and `EventsMatchAnswer` state that this is the only such
  call.
- Retry reads the descriptor from the envelope (middleware/retry.py:18), so a layer below it
  that replaces a failed envelope by one of its own makes it run an effect again:
  `EffectsOnce` excepts such calls.
- The EventLogger is built outside the try of `_execute` (ui/server.py:237): a failing
  write there leaves the job "starting" for ever; `EndShown` excepts the dead thread.
- A delegation policy that cannot be converted raises outside the try of the delegate node
  (nodes.py:165), at every resume again: `ResumedRunEnds` excepts it.
- The lifecycle is closed and announced before the terminal checkpoint is saved
  (nodes.py:232), so a crash makes the resumed run announce it again: `LifecycleEvents`
  allows one repetition per interruption.
- The no-progress baseline is taken anew on resume (supervisor/loop.py:167): when all turns
  of the interrupted round are on disk, the resumed round only skips them, adds nothing,
  and ends the task as blocked for "no progress", although the round had made some.
  loop.py:5 speaks of "a round with no progress", and tests/test_supervisor_resume.py:3 of a
  run that "continues from the next pending round". `NoProgressSound` excepts rounds in
  which an invocation came down.
- A tool round is not saved before its end (supervisor/graph.py:343): after a crash O
  decides again and the tool may run again; a tool that tool_requests names twice runs twice in
  any case. `ToolsOncePerInvocation` allows every request one execution
  more per lost invocation.
- SessionSeq begins again in a new process (control/events.py:206), while its comment offers
  the number to "order/dedup events within a session": `EventsAccounted` tells events of
  different processes apart, which a reader of the numbers cannot.
- A file that has become empty or blank is passed over before delete_by_source
  (rag/service.py:61), so that its old chunks stay, although stores_qdrant.py:12 says the
  delete is there "to drop chunks that no longer exist after an edit": `IndexedWhole`
  speaks of the text last ingested.
- Collection and index are created in two calls (stores_qdrant.py:65-72): after a failure
  between them the index is never made; `CollectionSound` allows exactly that.
- Two ingests of one file that overlap leave chunks of both texts, and a failure between
  delete and upsert leaves none; `IndexedWhole` excepts such sources until the next
  undisturbed ingest.
- checkpoint.json may be older than SQLite between a crash and the next resume
  (orchestrator/loop.py:260); `ProjectionFresh` is about runs that return.
- A child's depth and step budgets are checked against the engine's, not against those of
  its ancestors: `ScopeNested` speaks of the engine's depth and the parent's capabilities.

## 8. Not modelled

Prompt texts, message wording and the JSON shapes of answers (an answer is what it parses
to), with the bracket repair of json_gate; the safety classifiers, roles, skills and
configuration (pure string work or data loaded once); the walk of redaction over a payload;
toolbox and scripts (I/O; the kernel sees a tool as an executor that answers, fails or
raises, with or without effect); the front end and the request routing of the console;
run inspection and retrieval's search and health, which read only; the in-memory vector
store, whose calls are one step each and which dies with its process; the arithmetic of
similarity search. RuntimeCheckpoint and Permission of the control
plane are frozen values without a caller in the runtime. LLMBroker keeps no state: it
makes a briefing of the answer, or of the objective alone when there is none. The ScriptedDelegationAgent is one of the handlers Delegation allows.
BudgetGuard is installed by no code of the repository; as a layer it is a custom one of Kernel.
A request to Qdrant that acts after its client has given up on it is not modelled. Time is left out: Retry's and
call_llm's backoff only delays.

## 9. Plan

The order was: the task loop, the agent graph and its runtime, delegation, the kernel, the
run log with the console; then the control plane over the log, call_llm inside the kernel,
retrieval, and the effects of the task loop that a checkpoint does not undo; then the proofs
of every safety property. What is left:

1. The safety half of the liveness properties, as theorems: that a state which is not an
   end has an action whose guard holds, stated on the guards without ENABLED (no caller of
   the kernel, no ingester and no worker of the console is ever stuck), and a measure that
   every step of a drive decreases.
2. That the theorems of Delegation hold of the child agent through its refinement, stated
   on its own state.
3. Windows of chunk_text within the size, next to `ChunksTheorem`.
