------------------------------- MODULE RunJob -------------------------------
(***************************************************************************)
(* One run of the console (ui/server.py): the RunController's job, the     *)
(* pool thread that executes it, the log it writes (RunLog, with that      *)
(* thread), the checkpoint.json the agent leaves, and a reader that polls  *)
(* /api/snapshot or sits on /api/stream.  The server may be killed and     *)
(* started again; jobs live in memory only.                                *)
(*                                                                         *)
(* The agent (AgentGraph, AgentRun) is here what the console sees of it:   *)
(* events, final actions in the messages of the checkpoint, an outcome.    *)
(***************************************************************************)
EXTENDS RunLog

CONSTANTS
    Worker,    \* the pool thread
    Reasons,   \* finish_reason of the final actions, in the model's own casing
    MaxFinals  \* bound: final actions of the agent, which its step budget bounds

ASSUME RunJobAssumption ==
    Threads = {Worker} /\ Reasons \subseteq {"done", "error", "failed", "Error"} /\ MaxFinals \in Nat

VARIABLES
    job,         \* RunJob.status, "absent" when the server does not know the job
    worker,      \* where _execute stands
    checkpoint,  \* checkpoint.json: its status, and the reason of the last final action that
                 \* json.loads finds in its messages
    finals,      \* the final actions so far, and whether json.loads reads them
    outcome,     \* status of what run_agent returned
    reader,      \* what the reader has read of the next snapshot
    shown        \* status of the last snapshot

jobVars == <<logVars, job, worker, checkpoint, finals, outcome, reader, shown>>

\* Nothing of the run exists before its POST; the log begins in Boot.
JobInit ==
    /\ seq = 0
    /\ file = <<>>
    /\ metrics = [m \in Metrics |-> 0]
    /\ finished = FALSE
    /\ thread = [p \in Threads |-> Idle]
    /\ summary = NoSummary
    /\ index = <<>>
    /\ job = "absent"
    /\ worker = "none"
    /\ checkpoint = [status |-> "none", reason |-> "none"]
    /\ finals = <<>>
    /\ outcome = "none"
    /\ reader = [pc |-> "checkpoint", checkpoint |-> [status |-> "none", reason |-> "none"], summary |-> "none"]
    /\ shown = "idle"
-----------------------------------------------------------------------------
(* The job. *)

Start ==
    /\ worker = "none"
    /\ worker' = "queued"
    /\ job' = "queued"
    /\ UNCHANGED <<logVars, checkpoint, finals, outcome, reader, shown>>

\* _execute up to its try: the job is starting, the logger makes the directory and
\* its first line, and the prompt is logged.  What raises here stays in the future
\* of the pool: nobody handles it.
Boot ==
    /\ worker = "queued"
    /\ job' = "starting"
    /\ \/ /\ Logged("run_started", "none")
          /\ worker' = "prompt"
       \/ /\ Lost
          /\ worker' = "dead"
    /\ UNCHANGED <<metrics, finished, thread, summary, index, checkpoint, finals, outcome, reader, shown>>

LogPrompt ==
    /\ worker = "prompt"
    /\ \/ Logged("ui", "none") /\ worker' = "setup"
       \/ Lost /\ worker' = "dead"
    /\ UNCHANGED <<metrics, finished, thread, summary, index, job, checkpoint, finals, outcome, reader, shown>>

\* create_kernel, attach_to_bus and create_delegation_service, any of which may raise.
Setup ==
    /\ worker = "setup"
    /\ \/ worker' = "agent" /\ job' = "running"
       \/ worker' = "except" /\ UNCHANGED job
    /\ UNCHANGED <<logVars, checkpoint, finals, outcome, reader, shown>>

\* The first values of the graph's stream make the first projection.
AgentProjects ==
    /\ worker = "agent"
    /\ checkpoint.status = "none"
    /\ checkpoint' = [checkpoint EXCEPT !.status = "running"]
    /\ UNCHANGED <<logVars, job, worker, finals, outcome, reader, shown>>

\* Between two steps of its own the agent publishes, through the kernel.
AgentPublishes ==
    /\ worker = "agent"
    /\ seq < MaxLines
    /\ \E e \in Events : Publish(Worker, e)
    /\ UNCHANGED <<job, worker, checkpoint, finals, outcome, reader, shown>>

AgentCounts ==
    /\ Count(Worker)
    /\ UNCHANGED <<job, worker, checkpoint, finals, outcome, reader, shown>>

\* The final actions of an agent: the text of one that is not plain is fenced or broken,
\* which json_gate strips or repairs and json.loads does not.
Finals == [reason : Reasons, plain : BOOLEAN]

\* The model answers with a final action: its text is in the messages of the next
\* projection, as the model wrote it.
AgentFinal(f) ==
    /\ worker = "agent"
    /\ Free(Worker)
    /\ checkpoint.status = "running"
    /\ Len(finals) < MaxFinals
    /\ finals' = Append(finals, f)
    /\ checkpoint' = [checkpoint EXCEPT !.reason = IF f.plain THEN f.reason ELSE @]
    /\ worker' = "final"
    /\ UNCHANGED <<logVars, job, outcome, reader, shown>>

Ends(status) ==
    /\ checkpoint' = [checkpoint EXCEPT !.status = status]
    /\ outcome' = status
    /\ worker' = "ended"

\* Mutant: an error final completes the run.
FinishNodeCompletes ==
    /\ worker = "final"
    /\ \/ Ends("completed")
       \/ worker' = "agent" /\ UNCHANGED <<checkpoint, outcome>>
    /\ UNCHANGED <<logVars, job, finals, reader, shown>>

\* finish_node: a final action whose reason is exactly "error" fails the run; any other
\* completes it, or is blocked by the finish gate.
FinishNode ==
    /\ worker = "final"
    /\ IF finals[Len(finals)].reason = "error" THEN Ends("failed")
       ELSE \/ Ends("completed")
            \/ worker' = "agent" /\ UNCHANGED <<checkpoint, outcome>>
    /\ UNCHANGED <<logVars, job, finals, reader, shown>>

\* The agent fails on a budget, or raises out of run_agent.
AgentFails ==
    /\ worker = "agent"
    /\ Free(Worker)
    /\ \/ Ends("failed")
       \/ worker' = "except" /\ UNCHANGED <<checkpoint, outcome>>
    /\ UNCHANGED <<logVars, job, finals, reader, shown>>

\* Mutant: the job is updated before the log is finished.
FinishRunLate ==
    /\ worker = "ended" \/ worker = "failing"
    /\ Finish(Worker, IF worker = "ended" THEN outcome ELSE "failed")
    /\ job' = IF worker = "ended" THEN outcome ELSE "failed"
    /\ worker' = "finish"
    /\ UNCHANGED <<checkpoint, finals, outcome, reader, shown>>

\* logger.finish, in the try and in the except clause.
FinishRun ==
    /\ worker = "ended" \/ worker = "failing"
    /\ Finish(Worker, IF worker = "ended" THEN outcome ELSE "failed")
    /\ worker' = IF worker = "ended" THEN "finish" ELSE "finish_failed"
    /\ UNCHANGED <<job, checkpoint, finals, outcome, reader, shown>>

FinishSteps ==
    /\ FinishStep(Worker)
    /\ UNCHANGED <<job, worker, checkpoint, finals, outcome, reader, shown>>

\* Mutant: a finish that raised is taken for done.
FinishRaisesUnseen ==
    /\ Raised(Worker)
    /\ UNCHANGED <<job, worker, checkpoint, finals, outcome, reader, shown>>

\* finish raised: into the except clause from the try, out of _execute from there.
FinishRaises ==
    /\ Raised(Worker)
    /\ worker' = IF worker = "finish" THEN "except" ELSE "dead"
    /\ UNCHANGED <<job, checkpoint, finals, outcome, reader, shown>>

\* The except clause: run.failed is logged.
LogFailure ==
    /\ worker = "except"
    /\ \/ Logged("ui", "none") /\ worker' = "failing"
       \/ Lost /\ worker' = "dead"
    /\ UNCHANGED <<metrics, finished, thread, summary, index, job, checkpoint, finals, outcome, reader, shown>>

\* _update, when finish has returned.
UpdateJob ==
    /\ worker \in {"finish", "finish_failed"}
    /\ Free(Worker)
    /\ job' = IF worker = "finish" THEN outcome ELSE "failed"
    /\ worker' = "done"
    /\ UNCHANGED <<logVars, checkpoint, finals, outcome, reader, shown>>

\* The process ends, and the console is started again; what is on disk stays.
Restart ==
    /\ worker \notin {"none", "restarted"}
    /\ worker' = "restarted"
    /\ job' = "absent"
    /\ thread' = [p \in Threads |-> Idle]
    /\ reader' = [reader EXCEPT !.pc = "checkpoint"]
    /\ UNCHANGED <<seq, file, metrics, finished, summary, index, checkpoint, finals, outcome, shown>>
-----------------------------------------------------------------------------
(* The reader: run_snapshot reads three places one after the other. *)

ReadCheckpoint ==
    /\ reader.pc = "checkpoint"
    /\ reader' = [reader EXCEPT !.pc = "summary", !.checkpoint = checkpoint]
    /\ UNCHANGED <<logVars, job, worker, checkpoint, finals, outcome, shown>>

\* _read_json gives nothing for a file that is not whole.
ReadSummary ==
    /\ reader.pc = "summary"
    /\ reader' = [reader EXCEPT !.pc = "job",
                      !.summary = IF summary.state = "written" THEN summary.draft.status ELSE "none"]
    /\ UNCHANGED <<logVars, job, worker, checkpoint, finals, outcome, shown>>

\* Mutant: the checkpoint goes before the job.
StatusOfFiles ==
    IF reader.checkpoint.status # "none" THEN reader.checkpoint.status
    ELSE IF reader.summary # "none" THEN reader.summary
    ELSE IF job # "absent" THEN job
    ELSE "idle"

\* The job's status, else the summary's, else the checkpoint's.
Status ==
    IF job # "absent" THEN job
    ELSE IF reader.summary # "none" THEN reader.summary
    ELSE IF reader.checkpoint.status # "none" THEN reader.checkpoint.status
    ELSE "idle"

\* str.lower.
Lower(reason) == IF reason = "Error" THEN "error" ELSE reason

\* _effective_status: a final action with reason "error" or "failed", in any casing, is
\* a failure.
EffectiveStatus == IF Lower(reader.checkpoint.reason) \in {"error", "failed"} THEN "failed" ELSE Status

\* controller.get, and the snapshot is sent; a run without a directory is not looked up.
Show ==
    /\ reader.pc = "job"
    /\ reader' = [reader EXCEPT !.pc = "checkpoint"]
    /\ shown' = IF file = <<>> THEN "idle" ELSE EffectiveStatus
    /\ UNCHANGED <<logVars, job, worker, checkpoint, finals, outcome>>
-----------------------------------------------------------------------------
AgentSteps ==
    AgentProjects \/ AgentPublishes \/ AgentCounts \/ (\E f \in Finals : AgentFinal(f)) \/ FinishNode \/ AgentFails

WorkerSteps ==
    Boot \/ LogPrompt \/ Setup \/ AgentSteps \/ FinishRun \/ FinishSteps \/ FinishRaises \/ LogFailure \/ UpdateJob

ReaderSteps == ReadCheckpoint \/ ReadSummary \/ Show

JobNext == Start \/ WorkerSteps \/ Restart \/ ReaderSteps

\* The pool runs what is submitted; the stream polls until its client goes away.
JobFairness == WF_jobVars(WorkerSteps) /\ WF_jobVars(ReaderSteps)

JobSpec == JobInit /\ [][JobNext]_jobVars
JobFairSpec == JobSpec /\ JobFairness
-----------------------------------------------------------------------------
\* The type invariant: job, worker and reader in a stage of _execute and
\* build_snapshot, the files in a form they can be left in.
JobTypeOK ==
    /\ LogTypeOK
    /\ job \in {"absent", "queued", "starting", "running"} \cup Statuses
    /\ worker \in {"none", "queued", "prompt", "setup", "agent", "final", "ended", "finish", "except", "failing",
                   "finish_failed", "done", "dead", "restarted"}
    /\ checkpoint \in [status : {"none", "running"} \cup Statuses, reason : Reasons \cup {"none"}]
    /\ finals \in Seq(Finals) /\ Len(finals) <= MaxFinals
    /\ outcome \in Statuses \cup {"none"}
    /\ reader \in [pc : {"checkpoint", "summary", "job"}, summary : Statuses \cup {"none"},
                   checkpoint : [status : {"none", "running"} \cup Statuses, reason : Reasons \cup {"none"}]]
    /\ shown \in {"idle", "queued", "starting", "running"} \cup Statuses

Recorded(status) ==
    /\ summary.state = "written" /\ summary.draft.status = status
    /\ index = <<status>>
    /\ \E i \in Lines("run_finished") : file[i].status = status

\* Although any write may fail, a job is called completed only when its terminal
\* line, its summary and its index entry are on disk and say so; what finish raises
\* turns the job into a failed one, and no index entry contradicts that.
EndRecorded ==
    /\ job = "completed" => Recorded("completed")
    /\ job = "failed" => finished /\ (index # <<>> => Recorded("failed"))

\* A final action that the console takes for a failure and finish_node does not.
Misread(f) == f.plain /\ Lower(f.reason) \in {"error", "failed"} /\ f.reason # "error"
MisreadFinal == \E i \in DOMAIN finals : Misread(finals[i])

\* The console agrees with the job about how it ended, although it derives the status
\* from the text of a final action by itself (_final_action, _effective_status), and the
\* graph from the action (finish_node).  They part in one way only: a run may be shown
\* failed for a final action with reason "failed", or "error" in another casing.
ShownAgrees ==
    worker = "done" /\ shown \in Statuses => shown = job \/ (shown = "failed" /\ MisreadFinal)

\* A run the console has shown as ended is not shown as running again, although a
\* snapshot mixes three reads, a restart forgets the job and writes may have failed.
\* The exception is a run shown failed for a misread final action, which the gate has
\* blocked, or after which another final action follows.
EndStaysShown == [][(shown \in Statuses) => (shown' \in Statuses \/ MisreadFinal)]_jobVars

\* A job that is queued ends, and its end is shown to who keeps polling, unless the
\* server is restarted or a write outside the try or in the except clause has ended
\* the thread; a misread final action is shown as the console sees it.
EndShown ==
    job = "queued" ~> \/ job \in Statuses /\ (shown = job \/ (shown = "failed" /\ MisreadFinal))
                      \/ worker \in {"dead", "restarted"}
-----------------------------------------------------------------------------
\* The inductive invariant of the proofs.

Stage == thread[Worker].pc

\* What an end that finish could not write in full leaves behind.
Unwritten == index = <<>> /\ checkpoint.status \in Statuses

\* Where _execute stands, and how far finish has got: it was called at most once with
\* effect, and when the agent's own outcome could not be written, the checkpoint has it.
EndInv ==
    /\ worker \in {"none", "queued", "prompt", "setup", "agent", "final", "ended"} => ~finished
    /\ worker \in {"none", "queued"} => file = <<>>
    /\ worker \in {"ended", "finish"} => outcome \in Statuses /\ checkpoint.status = outcome
    /\ Stage # "idle" => worker \in {"finish", "finish_failed"}
    /\ worker = "finish" => finished /\ thread[Worker].draft.status = outcome /\ (Stage = "idle" => Recorded(outcome))
    /\ worker \in {"except", "failing"} => index = <<>> /\ (finished => Unwritten)
    /\ worker = "finish_failed" =>
           /\ finished
           /\ Stage = "idle" => Recorded("failed") \/ Unwritten
           /\ Stage # "idle" => thread[Worker].draft.status = "failed"
    /\ summary.state = "written" => summary.draft.status \in Statuses
    /\ job \in Statuses <=> worker = "done"
    /\ job = "absent" <=> worker \in {"none", "restarted"}
    /\ job = "completed" => Recorded("completed")
    /\ job = "failed" => finished /\ (Recorded("failed") \/ Unwritten)

\* A final action "error" is the last one, and fails the run; what the reader holds of the
\* final actions is of now or of before.
ErrorInv ==
    /\ checkpoint.reason = "error" =>
           /\ worker = "final" => finals[Len(finals)].reason = "error"
           /\ worker \notin {"none", "queued", "prompt", "setup", "agent"}
           /\ worker \in {"ended", "finish"} => outcome = "failed"
           /\ worker = "done" => job = "failed"
    /\ reader.checkpoint.reason = "error" => checkpoint.reason = "error"
    /\ {"failed", "Error"} \cap {checkpoint.reason, reader.checkpoint.reason} # {} => MisreadFinal

\* Why an end is shown, and that the next snapshot will find the same reason.
ShownInv ==
    /\ shown = "completed" => worker = "restarted" \/ (worker = "done" /\ job = "completed")
    /\ shown \in Statuses /\ ~MisreadFinal =>
           /\ file # <<>>
           /\ \/ shown = "failed" /\ checkpoint.reason = "error"
              \/ worker = "done" /\ shown = job
              \/ /\ worker = "restarted"
                 /\ checkpoint.reason = "error" \/ summary.state = "written" \/ checkpoint.status \in Statuses
           /\ worker \notin {"done", "restarted"} /\ reader.pc # "checkpoint" =>
                  reader.checkpoint.reason = "error"
    /\ worker = "restarted" =>
           /\ reader.pc # "checkpoint" => reader.checkpoint = checkpoint
           /\ reader.pc = "job" =>
                  reader.summary = IF summary.state = "written" THEN summary.draft.status ELSE "none"

JobInv == JobTypeOK /\ LogInv /\ EndInv /\ ErrorInv /\ ShownInv
=============================================================================
