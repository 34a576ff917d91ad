---------------------------- MODULE RunJobProofs ----------------------------
(***************************************************************************)
(* Proofs about a run of the console (RunJob), over those about the log    *)
(* (RunLogProofs).                                                         *)
(***************************************************************************)
EXTENDS RunJob, RunLogProofs

LEMMA WorkerThread == Worker \in Threads /\ \A p \in Threads : p = Worker
BY RunJobAssumption

-----------------------------------------------------------------------------
\* The log under the job.

LEMMA JobLogBegins == JobInit => LogInv
<1> SUFFICES ASSUME JobInit PROVE LogInv
  OBVIOUS
<1>1. /\ seq = 0 /\ file = <<>> /\ metrics = [m \in Metrics |-> 0] /\ finished = FALSE
      /\ thread = [p \in Threads |-> Idle] /\ summary = NoSummary /\ index = <<>>
  BY DEF JobInit
<1>2. NoDraft \in Draft /\ Idle \in [pc : {"idle", "terminal", "summary", "writing", "index", "raised"},
                                     todo : Seq(Metrics), draft : Draft]
  BY DEF NoDraft, Draft, Idle
<1>3. LogTypeOK
  <2>1. NoSummary \in [state : {"none", "torn", "written"}, draft : Draft]
    BY <1>2 DEF NoSummary
  <2>2. <<>> \in Seq(Line) /\ <<>> \in Seq(Statuses) /\ FALSE \in BOOLEAN
    OBVIOUS
  <2>3. QED
    BY <1>1, <1>2, <2>1, <2>2 DEF LogTypeOK
<1>4. DOMAIN file = {} /\ Len(file) = 0
  BY <1>1
<1>5. SequenceInv
  <2>1. LogSequenced
    BY <1>4 DEF LogSequenced
  <2>2. Len(file) <= seq /\ Len(file) = seq
    BY <1>1, <1>4
  <2>3. QED
    BY <1>4, <2>1, <2>2 DEF SequenceInv
<1>6. Lines("run_finished") = {} /\ \A p \in Threads : thread[p].pc = "idle"
  BY <1>1, <1>4 DEF Lines, Idle
<1>7. FinishInv
  <2>1. FinishOnce
    BY <1>1, <1>6 DEF FinishOnce
  <2>2. QED
    BY <1>1, <1>6, <2>1 DEF FinishInv
<1>8. QED
  BY <1>3, <1>5, <1>7 DEF LogInv

LEMMA LogRests == ASSUME LogInv, UNCHANGED logVars PROVE LogInv'
<1>1. UNCHANGED <<seq, file, metrics, finished, thread, summary, index>>
  BY DEF logVars
<1>2. LogTypeOK' /\ SequenceInv'
  BY <1>1, SameSequenced DEF LogInv, LogTypeOK
<1>3. FinishInv'
  BY <1>1, FinishUntouched DEF LogInv
<1>4. QED
  BY <1>2, <1>3 DEF LogInv

LEMMA JobLogStep == ASSUME LogInv, [JobNext]_jobVars, outcome \in Statuses \/ worker # "ended" PROVE LogInv'
<1>1. CASE Boot \/ LogPrompt \/ LogFailure
  <2>1. PICK e \in {"run_started", "ui"} : Logged(e, "none") \/ Lost
    BY <1>1 DEF Boot, LogPrompt, LogFailure
  <2>2. UNCHANGED <<metrics, finished, thread, summary, index>>
    BY <1>1 DEF Boot, LogPrompt, LogFailure
  <2>3. QED
    BY <2>1, <2>2, EmitOK DEF LogInv, LogTypeOK
<1>2. CASE AgentPublishes
  BY <1>2, PublishOK, WorkerThread, RunLogAssumption DEF AgentPublishes
<1>3. CASE AgentCounts
  BY <1>3, CountOK, WorkerThread DEF AgentCounts
<1>4. CASE FinishRun
  BY <1>4, FinishOK, WorkerThread DEF FinishRun, Statuses
<1>5. CASE FinishSteps \/ FinishRaises
  BY <1>5, FinishStepOK, WorkerThread DEF FinishSteps, FinishRaises
<1>6. CASE Restart
  <2>1. LogTypeOK /\ SequenceInv /\ FinishInv
    BY DEF LogInv
  <2>2. UNCHANGED <<seq, file, metrics, finished, summary, index>> /\ thread' = [p \in Threads |-> Idle]
    BY <1>6 DEF Restart
  <2>3. Idle \in [pc : {"idle", "terminal", "summary", "writing", "index", "raised"},
                  todo : Seq(Metrics), draft : Draft]
    BY DEF NoDraft, Draft, Idle
  <2>4. LogTypeOK'
    BY <2>1, <2>2, <2>3 DEF LogTypeOK
  <2>5. SequenceInv'
    BY <2>1, <2>2, SameSequenced
  <2>6. FinishInv'
    BY <2>1, <2>2, FinishLeft DEF Idle
  <2>7. QED
    BY <2>4, <2>5, <2>6 DEF LogInv
<1>7. CASE UNCHANGED logVars
  BY <1>7, LogRests
<1>8. QED
  BY <1>1, <1>2, <1>3, <1>4, <1>5, <1>6, <1>7
     DEF JobNext, WorkerSteps, AgentSteps, ReaderSteps, Start, Setup, AgentProjects, AgentFinal, FinishNode,
         AgentFails, UpdateJob, ReadCheckpoint, ReadSummary, Show, jobVars

-----------------------------------------------------------------------------
\* Type correctness.

LEMMA JobTypeStep ==
    ASSUME JobTypeOK, LogTypeOK', [JobNext]_jobVars,
           worker \in {"ended", "finish"} => outcome \in Statuses
    PROVE  JobTypeOK'
<1> DEFINE Checkpoints == [status : {"none", "running"} \cup Statuses, reason : Reasons \cup {"none"}]
           Readers == [pc : {"checkpoint", "summary", "job"}, summary : Statuses \cup {"none"},
                       checkpoint : Checkpoints]
<1>1. /\ job \in {"absent", "queued", "starting", "running"} \cup Statuses
      /\ checkpoint \in Checkpoints /\ reader \in Readers
      /\ finals \in Seq(Finals) /\ Len(finals) <= MaxFinals
      /\ outcome \in Statuses \cup {"none"}
      /\ summary \in [state : {"none", "torn", "written"}, draft : Draft]
  BY DEF JobTypeOK, LogTypeOK
<1>2. \A status \in Statuses : Ends(status) => checkpoint' \in Checkpoints /\ outcome' \in Statuses /\ worker' = "ended"
  BY <1>1 DEF Ends
<1>3. "completed" \in Statuses /\ "failed" \in Statuses
  BY DEF Statuses
<1> USE LogTypeOK' DEF JobTypeOK
<1>4. CASE Start \/ Boot \/ LogPrompt \/ Setup \/ LogFailure
  BY <1>1, <1>4 DEF Start, Boot, LogPrompt, Setup, LogFailure
<1>5. CASE AgentProjects
  BY <1>1, <1>5 DEF AgentProjects
<1>6. CASE AgentPublishes \/ AgentCounts \/ FinishSteps \/ FinishRaises \/ FinishRun
  BY <1>1, <1>6 DEF AgentPublishes, AgentCounts, FinishSteps, FinishRaises, FinishRun
<1>7. ASSUME NEW f \in Finals, AgentFinal(f) PROVE JobTypeOK'
  <2>1. finals' \in Seq(Finals) /\ Len(finals') <= MaxFinals
    <3>1. Len(finals) \in Nat /\ Len(finals) < MaxFinals /\ MaxFinals \in Nat
      BY <1>1, <1>7, RunJobAssumption DEF AgentFinal
    <3>2. finals' \in Seq(Finals) /\ Len(finals') = Len(finals) + 1
      BY <1>1, <1>7 DEF AgentFinal
    <3>3. QED
      BY <3>1, <3>2
  <2>2. checkpoint' \in Checkpoints
    BY <1>1, <1>7 DEF AgentFinal, Finals
  <2>3. QED
    BY <1>1, <1>7, <2>1, <2>2 DEF AgentFinal
<1>8. CASE FinishNode
  <2>1. checkpoint' \in Checkpoints /\ outcome' \in Statuses \cup {"none"} /\ worker' \in {"agent", "ended"}
    BY <1>1, <1>2, <1>3, <1>8 DEF FinishNode
  <2>2. QED
    BY <1>1, <1>8, <2>1 DEF FinishNode
<1>9. CASE AgentFails
  <2>1. checkpoint' \in Checkpoints /\ outcome' \in Statuses \cup {"none"} /\ worker' \in {"except", "ended"}
    BY <1>1, <1>2, <1>3, <1>9 DEF AgentFails
  <2>2. QED
    BY <1>1, <1>9, <2>1 DEF AgentFails
<1>10. CASE UpdateJob
  <2>1. job' \in Statuses
    BY <1>3, <1>10 DEF UpdateJob
  <2>2. QED
    BY <1>1, <1>10, <2>1 DEF UpdateJob
<1>11. CASE Restart
  BY <1>1, <1>11 DEF Restart
<1>12. CASE ReadCheckpoint
  <2>1. reader' \in Readers
    BY <1>1, <1>12 DEF ReadCheckpoint
  <2>2. QED
    BY <1>1, <1>12, <2>1 DEF ReadCheckpoint
<1>13. CASE ReadSummary
  <2>1. summary.draft.status \in Statuses \cup {"none"}
    BY <1>1 DEF Draft
  <2>2. reader' \in Readers
    BY <1>1, <1>13, <2>1 DEF ReadSummary
  <2>3. QED
    BY <1>1, <1>13, <2>2 DEF ReadSummary
<1>14. CASE Show
  <2>1. shown' \in {"idle", "queued", "starting", "running"} \cup Statuses
    BY <1>1, <1>3, <1>14 DEF Show, EffectiveStatus, Status
  <2>2. reader' \in Readers
    BY <1>1, <1>14 DEF Show
  <2>3. QED
    BY <1>1, <1>14, <2>1, <2>2 DEF Show
<1>15. CASE UNCHANGED jobVars
  BY <1>1, <1>15 DEF jobVars
<1>16. QED
  BY <1>4, <1>5, <1>6, <1>7, <1>8, <1>9, <1>10, <1>11, <1>12, <1>13, <1>14, <1>15
     DEF JobNext, WorkerSteps, AgentSteps, ReaderSteps

-----------------------------------------------------------------------------
\* How a job ends.

\* What is recorded stays, when neither summary nor index are written.
LEMMA RecordedStays ==
    ASSUME LogTypeOK, UNCHANGED <<summary, index>>,
           UNCHANGED file \/ \E line \in Line : file' = Append(file, line)
    PROVE  \A status : Recorded(status) => Recorded(status)'
<1>1. \A i \in Lines("run_finished") : i \in Lines("run_finished")' /\ file'[i] = file[i]
  <2>1. CASE UNCHANGED file
    BY <2>1 DEF Lines
  <2>2. CASE \E line \in Line : file' = Append(file, line)
    <3>1. PICK line \in Line : file' = Append(file, line)
      BY <2>2
    <3>2. file \in Seq(Line)
      BY DEF LogTypeOK
    <3>3. DOMAIN file \subseteq DOMAIN file' /\ \A i \in DOMAIN file : file'[i] = file[i]
      BY <3>1, <3>2, Appended
    <3>4. QED
      BY <3>3 DEF Lines
  <2>3. QED
    BY <2>1, <2>2
<1>2. QED
  BY <1>1 DEF Recorded

\* Nothing of the log but lines and counts moves.
LEMMA EndUntouched ==
    ASSUME LogTypeOK, EndInv, UNCHANGED <<finished, summary, index>>,
           UNCHANGED file \/ \E line \in Line : file' = Append(file, line),
           Stage' = Stage, thread'[Worker].draft = thread[Worker].draft
    PROVE  /\ \A status : Recorded(status) => Recorded(status)'
           /\ UNCHANGED checkpoint /\ Unwritten => Unwritten'
           /\ UNCHANGED <<job, worker, checkpoint, outcome>> /\ worker \notin {"none", "queued"} => EndInv'
<1>1. \A status : Recorded(status) => Recorded(status)'
  BY RecordedStays
<1>2. UNCHANGED checkpoint /\ Unwritten => Unwritten'
  BY DEF Unwritten
<1>3. QED
  BY <1>1, <1>2 DEF EndInv

LEMMA EndStep ==
    ASSUME JobTypeOK, LogInv, EndInv, [JobNext]_jobVars
    PROVE  EndInv'
<1>1. LogTypeOK /\ FinishInv /\ Worker \in Threads
  BY WorkerThread DEF LogInv
<1>2. thread \in [Threads -> [pc : {"idle", "terminal", "summary", "writing", "index", "raised"},
                              todo : Seq(Metrics), draft : Draft]]
  BY <1>1 DEF LogTypeOK
<1>3. ~finished => index = <<>>
  BY <1>1 DEF FinishInv
<1>4. ASSUME UNCHANGED logVars
      PROVE  /\ UNCHANGED <<file, finished, summary, index, Stage>>
             /\ thread'[Worker].draft = thread[Worker].draft
             /\ \A status : Recorded(status) => Recorded(status)'
             /\ UNCHANGED checkpoint /\ Unwritten => Unwritten'
             /\ UNCHANGED <<job, worker, checkpoint, outcome>> => EndInv'
  <2>1. /\ UNCHANGED <<file, finished, summary, index>> /\ Stage' = Stage
        /\ thread'[Worker].draft = thread[Worker].draft
    BY <1>4 DEF logVars, Stage
  <2>2. /\ \A status : Recorded(status) => Recorded(status)'
        /\ UNCHANGED checkpoint /\ Unwritten => Unwritten'
    BY <1>1, <2>1, EndUntouched
  <2>3. UNCHANGED <<job, worker, checkpoint, outcome>> => EndInv'
    BY <2>1, <2>2 DEF EndInv
  <2>4. QED
    BY <2>1, <2>2, <2>3
<1>5. CASE Start
  BY <1>4, <1>5 DEF Start, EndInv, Statuses
<1>6. CASE Boot \/ LogPrompt \/ LogFailure
  <2>1. PICK e \in {"run_started", "ui"} : Logged(e, "none") \/ Lost
    BY <1>6 DEF Boot, LogPrompt, LogFailure
  <2>2. UNCHANGED file \/ \E line \in Line : file' = Append(file, line)
    BY <1>1, <2>1, LoggedLine DEF Lost
  <2>3. /\ UNCHANGED <<finished, summary, index, checkpoint, outcome>> /\ Stage' = Stage
        /\ thread'[Worker].draft = thread[Worker].draft
    BY <1>6 DEF Boot, LogPrompt, LogFailure, Stage
  <2>4. (\A status : Recorded(status) => Recorded(status)') /\ (Unwritten => Unwritten')
    BY <1>1, <2>2, <2>3, EndUntouched
  <2>5. QED
    BY <1>6, <2>3, <2>4 DEF Boot, LogPrompt, LogFailure, EndInv, Statuses
<1>7. CASE Setup
  BY <1>3, <1>4, <1>7 DEF Setup, EndInv, Statuses
<1>8. CASE AgentProjects
  BY <1>4, <1>8 DEF AgentProjects, EndInv, Statuses
<1>9. CASE AgentPublishes
  <2>1. PICK e \in Events : Publish(Worker, e)
    BY <1>9 DEF AgentPublishes
  <2>2. e \in AllEvents
    BY RunLogAssumption
  <2>3. UNCHANGED file \/ \E line \in Line : file' = Append(file, line)
    BY <1>1, <2>1, <2>2, LoggedLine DEF Lost, Publish
  <2>4. /\ UNCHANGED <<finished, summary, index, job, worker, checkpoint, outcome>> /\ worker = "agent"
        /\ Stage' = Stage /\ thread'[Worker].draft = thread[Worker].draft
    BY <1>1, <1>2, <1>9, <2>1 DEF AgentPublishes, Publish, Stage
  <2>5. QED
    BY <1>1, <2>3, <2>4, EndUntouched
<1>10. CASE AgentCounts
  <2>1. /\ UNCHANGED <<file, finished, summary, index, job, worker, checkpoint, outcome>>
        /\ Stage' = Stage /\ thread'[Worker].draft = thread[Worker].draft
    BY <1>1, <1>2, <1>10 DEF AgentCounts, Count, Stage
  <2>2. (\A status : Recorded(status) => Recorded(status)') /\ (Unwritten => Unwritten')
    BY <1>1, <2>1, EndUntouched
  <2>3. QED
    BY <2>1, <2>2 DEF EndInv
<1>11. CASE \E f \in Finals : AgentFinal(f)
  BY <1>4, <1>11 DEF AgentFinal, EndInv, Statuses
<1>12. CASE FinishNode
  BY <1>4, <1>12 DEF FinishNode, Ends, EndInv, Statuses, JobTypeOK
<1>13. CASE AgentFails
  BY <1>3, <1>4, <1>13 DEF AgentFails, Ends, EndInv, Statuses, JobTypeOK
<1>14. CASE FinishRun
  <2>1. PICK status \in Statuses : Finish(Worker, status) /\ status = IF worker = "ended" THEN outcome ELSE "failed"
    BY <1>14 DEF FinishRun, EndInv, Statuses
  <2>2. /\ UNCHANGED <<file, summary, index, job, checkpoint, outcome>> /\ finished'
        /\ worker' = IF worker = "ended" THEN "finish" ELSE "finish_failed"
        /\ worker \in {"ended", "failing"} /\ Stage = "idle"
    BY <1>14, <2>1 DEF FinishRun, Finish, Free, Stage
  <2>3. (\A s : Recorded(s) => Recorded(s)') /\ (Unwritten => Unwritten')
    BY <1>1, <2>2, RecordedStays DEF Unwritten
  <2>4. CASE finished
    <3>1. UNCHANGED thread /\ worker = "failing" /\ Stage' = Stage
      BY <2>1, <2>2, <2>4 DEF Finish, EndInv, Stage
    <3>2. QED
      BY <2>2, <2>3, <2>4, <3>1 DEF EndInv, Statuses
  <2>5. CASE ~finished
    <3>1. Stage' = "terminal" /\ thread'[Worker].draft.status = status
      BY <1>1, <1>2, <2>1, <2>5 DEF Finish, Snapshot, Stage
    <3>2. QED
      BY <2>1, <2>2, <2>3, <3>1 DEF EndInv, Statuses
  <2>6. QED
    BY <2>4, <2>5
<1>15. CASE FinishSteps
  <2>1. /\ UNCHANGED <<job, worker, checkpoint, outcome, finished>> /\ FinishStep(Worker)
        /\ Stage \in {"terminal", "summary", "writing", "index"}
    BY <1>15 DEF FinishSteps, FinishStep, EmitFinished, OpenSummary, WriteSummary, EnterIndex, Stage
  <2>2. worker \in {"finish", "finish_failed"} /\ thread[Worker].draft.status \in Statuses
    BY <1>1, <2>1 DEF EndInv, FinishInv, Stage
  <2>3. PICK next \in {"idle", "summary", "writing", "index", "raised"} :
            Goes(Worker, next) /\ (next = "idle" => EnterIndex(Worker) /\ index' = Append(index, thread[Worker].draft.status))
    BY <2>1 DEF FinishStep, EmitFinished, OpenSummary, WriteSummary, EnterIndex, Raises
  <2>4. Stage' = next /\ thread'[Worker].draft = thread[Worker].draft
    BY <1>1, <1>2, <2>3 DEF Goes, Stage
  <2>5. summary'.state = "written" => summary'.draft.status \in Statuses
    <3>1. summary \in [state : {"none", "torn", "written"}, draft : Draft]
      BY <1>1 DEF LogTypeOK
    <3>2. UNCHANGED summary \/ summary' = [summary EXCEPT !.state = "torn"]
          \/ summary' = [state |-> "written", draft |-> thread[Worker].draft]
      BY <2>1 DEF FinishStep, EmitFinished, OpenSummary, WriteSummary, EnterIndex
    <3>3. QED
      BY <2>2, <3>1, <3>2 DEF EndInv
  <2>6. next = "idle" => Recorded(thread[Worker].draft.status)'
    <3> SUFFICES ASSUME next = "idle" PROVE Recorded(thread[Worker].draft.status)'
      OBVIOUS
    <3>1. /\ UNCHANGED <<file, summary>> /\ Stage = "index"
          /\ index' = Append(index, thread[Worker].draft.status)
      BY <2>3 DEF EnterIndex, Stage
    <3>2. /\ index = <<>> /\ summary = [state |-> "written", draft |-> thread[Worker].draft]
          /\ \E i \in Lines("run_finished") : file[i].status = thread[Worker].draft.status
      BY <1>1, <3>1 DEF FinishInv, Stage
    <3>3. index' = <<thread[Worker].draft.status>> /\ Lines("run_finished")' = Lines("run_finished")
      BY <3>1, <3>2 DEF Lines
    <3>4. QED
      BY <2>4, <3>1, <3>2, <3>3 DEF Recorded
  <2>7. job \notin Statuses
    BY <2>2 DEF EndInv
  <2>8. thread'[Worker].draft.status = thread[Worker].draft.status
    BY <2>4
  <2>9. QED
    BY <2>1, <2>2, <2>4, <2>5, <2>6, <2>7, <2>8 DEF EndInv, Statuses
<1>16. CASE FinishRaises
  <2>1. /\ UNCHANGED <<file, finished, summary, index, job, checkpoint, outcome>>
        /\ Stage = "raised" /\ Goes(Worker, "idle")
        /\ worker' = IF worker = "finish" THEN "except" ELSE "dead"
    BY <1>16 DEF FinishRaises, Raised, Stage
  <2>2. worker \in {"finish", "finish_failed"} /\ index = <<>>
    BY <1>1, <2>1 DEF EndInv, FinishInv, Stage
  <2>3. Stage' = "idle"
    BY <1>1, <1>2, <2>1 DEF Goes, Stage
  <2>4. QED
    BY <2>1, <2>2, <2>3 DEF EndInv, Statuses, Unwritten
<1>17. CASE UpdateJob
  BY <1>4, <1>17 DEF UpdateJob, EndInv, Statuses, Free, Stage
<1>18. CASE Restart
  <2>1. Stage' = "idle" /\ UNCHANGED <<file, finished, summary, index>> /\ worker' = "restarted" /\ job' = "absent"
    BY <1>1, <1>18 DEF Restart, Stage, Idle
  <2>2. QED
    BY <2>1 DEF EndInv, Statuses
<1>19. CASE ReaderSteps \/ UNCHANGED jobVars
  BY <1>4, <1>19 DEF ReaderSteps, ReadCheckpoint, ReadSummary, Show, jobVars
<1>20. QED
  BY <1>5, <1>6, <1>7, <1>8, <1>9, <1>10, <1>11, <1>12, <1>13, <1>14, <1>15, <1>16, <1>17, <1>18, <1>19
     DEF JobNext, WorkerSteps, AgentSteps

-----------------------------------------------------------------------------
\* What the final actions leave.

LEMMA MisreadStays == ASSUME JobTypeOK, [JobNext]_jobVars, MisreadFinal PROVE MisreadFinal'
<1>1. finals \in Seq(Finals)
  BY DEF JobTypeOK
<1>2. CASE \E f \in Finals : AgentFinal(f)
  <2>1. PICK f \in Finals : finals' = Append(finals, f)
    BY <1>2 DEF AgentFinal
  <2>2. DOMAIN finals \subseteq DOMAIN finals' /\ \A i \in DOMAIN finals : finals'[i] = finals[i]
    BY <1>1, <2>1, Appended
  <2>3. QED
    BY <2>2 DEF MisreadFinal
<1>3. CASE UNCHANGED finals
  BY <1>3 DEF MisreadFinal
<1>4. QED
  BY <1>2, <1>3
     DEF JobNext, WorkerSteps, AgentSteps, ReaderSteps, Start, Boot, LogPrompt, Setup, AgentProjects, AgentPublishes,
         AgentCounts, FinishNode, AgentFails, FinishRun, FinishSteps, FinishRaises, LogFailure, UpdateJob, Restart,
         ReadCheckpoint, ReadSummary, Show, jobVars

LEMMA ErrorStep == ASSUME JobTypeOK, EndInv, ErrorInv, [JobNext]_jobVars PROVE ErrorInv'
<1> DEFINE Checkpoints == [status : {"none", "running"} \cup Statuses, reason : Reasons \cup {"none"}]
<1>1. /\ checkpoint \in Checkpoints /\ finals \in Seq(Finals)
      /\ reader \in [pc : {"checkpoint", "summary", "job"}, summary : Statuses \cup {"none"}, checkpoint : Checkpoints]
  BY DEF JobTypeOK
<1>2. MisreadFinal => MisreadFinal'
  BY MisreadStays
<1>3. \A status \in Statuses : Ends(status) => checkpoint'.reason = checkpoint.reason /\ outcome' = status /\ worker' = "ended"
  BY <1>1 DEF Ends
<1>4. CASE Start \/ Boot \/ LogPrompt \/ Setup
  <2>1. worker \in {"none", "queued", "prompt", "setup"} /\ UNCHANGED <<checkpoint, reader>>
    BY <1>4 DEF Start, Boot, LogPrompt, Setup
  <2>2. QED
    BY <1>2, <2>1 DEF ErrorInv
<1>5. CASE AgentProjects
  <2>1. worker = "agent" /\ checkpoint'.reason = checkpoint.reason /\ UNCHANGED <<reader, worker>>
    BY <1>1, <1>5 DEF AgentProjects
  <2>2. QED
    BY <1>2, <2>1 DEF ErrorInv
<1>6. ASSUME NEW f \in Finals, AgentFinal(f) PROVE ErrorInv'
  <2>1. /\ worker = "agent" /\ worker' = "final"
        /\ checkpoint'.reason = IF f.plain THEN f.reason ELSE checkpoint.reason
        /\ finals' = Append(finals, f) /\ UNCHANGED reader
    BY <1>1, <1>6 DEF AgentFinal
  <2>2. /\ Len(finals') = Len(finals) + 1 /\ Len(finals) + 1 \in DOMAIN finals'
        /\ finals'[Len(finals) + 1] = f
    BY <1>1, <2>1
  <2>3. checkpoint.reason # "error"
    BY <2>1 DEF ErrorInv
  <2>4. CASE f.plain
    <3>1. checkpoint'.reason = f.reason /\ finals'[Len(finals')].reason = f.reason
      BY <2>1, <2>2, <2>4
    <3>2. f.reason \in {"failed", "Error"} => Misread(f)
      BY <2>4 DEF Misread, Lower
    <3>3. f.reason \in {"failed", "Error"} => MisreadFinal'
      BY <2>2, <3>2 DEF MisreadFinal
    <3>4. QED
      BY <1>2, <2>1, <2>3, <3>1, <3>3 DEF ErrorInv
  <2>5. CASE ~f.plain
    <3>1. checkpoint'.reason = checkpoint.reason
      BY <2>1, <2>5
    <3>2. QED
      BY <1>2, <2>1, <2>3, <3>1 DEF ErrorInv
  <2>6. QED
    BY <2>4, <2>5
<1>7. CASE FinishNode
  <2>1. "failed" \in Statuses /\ "completed" \in Statuses
    BY DEF Statuses
  <2>2. /\ checkpoint'.reason = checkpoint.reason /\ UNCHANGED reader
        /\ \/ worker' = "ended" /\ (checkpoint.reason = "error" => outcome' = "failed")
           \/ worker' = "agent" /\ checkpoint.reason # "error"
    <3>1. checkpoint.reason = "error" => finals[Len(finals)].reason = "error"
      BY <1>7 DEF FinishNode, ErrorInv
    <3>2. QED
      BY <1>3, <1>7, <2>1, <3>1 DEF FinishNode
  <2>3. QED
    BY <1>2, <2>2 DEF ErrorInv
<1>8. CASE AgentFails
  <2>1. /\ worker = "agent" /\ checkpoint'.reason = checkpoint.reason /\ UNCHANGED reader
        /\ worker' \in {"ended", "except"}
    BY <1>3, <1>8 DEF AgentFails, Statuses
  <2>2. QED
    BY <1>2, <2>1 DEF ErrorInv
<1>9. CASE FinishRun \/ FinishRaises \/ LogFailure
  <2>1. UNCHANGED <<checkpoint, reader, outcome>> /\ worker' \in {"finish", "finish_failed", "except", "dead", "failing"}
        /\ (worker' = "finish" => worker = "ended")
    BY <1>9 DEF FinishRun, FinishRaises, LogFailure
  <2>2. QED
    BY <1>2, <2>1 DEF ErrorInv
<1>10. CASE UpdateJob
  <2>1. UNCHANGED <<checkpoint, reader>> /\ worker' = "done" /\ job' = IF worker = "finish" THEN outcome ELSE "failed"
    BY <1>10 DEF UpdateJob
  <2>2. (worker = "finish" => job' = outcome) /\ (worker # "finish" => job' = "failed")
    BY <2>1
  <2>3. QED
    BY <1>2, <2>1, <2>2 DEF ErrorInv
<1>11. CASE AgentPublishes \/ AgentCounts \/ FinishSteps \/ UNCHANGED jobVars
  <2>1. UNCHANGED <<checkpoint, reader, outcome, worker, job, finals>>
    BY <1>11 DEF AgentPublishes, AgentCounts, FinishSteps, jobVars
  <2>2. QED
    BY <1>2, <2>1 DEF ErrorInv
<1>12. CASE Restart
  <2>1. UNCHANGED checkpoint /\ reader'.checkpoint = reader.checkpoint /\ worker' = "restarted"
    BY <1>1, <1>12 DEF Restart
  <2>2. QED
    BY <1>2, <2>1 DEF ErrorInv
<1>13. CASE ReaderSteps
  <2>1. UNCHANGED <<checkpoint, outcome, worker, job, finals>> /\ reader'.checkpoint \in {reader.checkpoint, checkpoint}
    BY <1>1, <1>13 DEF ReaderSteps, ReadCheckpoint, ReadSummary, Show
  <2>2. QED
    BY <1>2, <2>1 DEF ErrorInv
<1>14. QED
  BY <1>4, <1>5, <1>6, <1>7, <1>8, <1>9, <1>10, <1>11, <1>12, <1>13 DEF JobNext, WorkerSteps, AgentSteps

-----------------------------------------------------------------------------
\* What is shown.

LEMMA FileStays == ASSUME LogTypeOK, [JobNext]_jobVars, file # <<>> PROVE file' # <<>>
<1>1. file \in Seq(Line)
  BY DEF LogTypeOK
<1>2. UNCHANGED file \/ \E line \in Line : file' = Append(file, line)
  <2>1. ASSUME NEW e \in AllEvents \cup {"run_started", "run_finished", "ui"}, NEW status \in Statuses \cup {"none"},
               Logged(e, status) \/ Lost
        PROVE  UNCHANGED file \/ \E line \in Line : file' = Append(file, line)
    BY <2>1, LoggedLine DEF Lost
  <2>2. CASE Boot \/ LogPrompt \/ LogFailure
    BY <2>1, <2>2 DEF Boot, LogPrompt, LogFailure
  <2>3. CASE AgentPublishes
    <3>1. PICK e \in Events : Publish(Worker, e)
      BY <2>3 DEF AgentPublishes
    <3>2. e \in AllEvents
      BY RunLogAssumption
    <3>3. QED
      BY <2>1, <3>1, <3>2 DEF Publish
  <2>4. CASE FinishSteps /\ EmitFinished(Worker)
    <3>1. thread[Worker].draft.status \in Statuses \cup {"none"}
      BY WorkerThread DEF LogTypeOK, Draft
    <3>2. QED
      BY <2>1, <2>4, <3>1 DEF EmitFinished
  <2>5. CASE UNCHANGED file
    BY <2>5
  <2>6. QED
    BY <2>2, <2>3, <2>4, <2>5
       DEF JobNext, WorkerSteps, AgentSteps, ReaderSteps, Start, Setup, AgentProjects, AgentCounts, Count, AgentFinal,
           FinishNode, AgentFails, FinishRun, Finish, FinishSteps, FinishStep, OpenSummary, WriteSummary, EnterIndex,
           FinishRaises, Raised, UpdateJob, Restart, ReadCheckpoint, ReadSummary, Show, jobVars, logVars
<1>3. QED
  BY <1>1, <1>2

LEMMA ShownStep ==
    ASSUME JobTypeOK, EndInv, ErrorInv, ShownInv, [JobNext]_jobVars
    PROVE  ShownInv'
<1> DEFINE Checkpoints == [status : {"none", "running"} \cup Statuses, reason : Reasons \cup {"none"}]
<1>1. /\ checkpoint \in Checkpoints /\ job \in {"absent", "queued", "starting", "running"} \cup Statuses
      /\ reader \in [pc : {"checkpoint", "summary", "job"}, summary : Statuses \cup {"none"}, checkpoint : Checkpoints]
  BY DEF JobTypeOK
<1>2. (MisreadFinal => MisreadFinal') /\ (file # <<>> => file' # <<>>)
  BY MisreadStays, FileStays DEF JobTypeOK
<1>3. ASSUME /\ UNCHANGED <<reader, shown>> /\ worker \notin {"done", "restarted"} /\ worker' # "restarted"
             /\ checkpoint'.reason = checkpoint.reason \/ checkpoint.reason # "error"
      PROVE  ShownInv'
  BY <1>2, <1>3 DEF ShownInv
<1>4. CASE Start \/ Boot \/ LogPrompt \/ Setup \/ FinishRun \/ LogFailure \/ UpdateJob
  <2>1. /\ UNCHANGED <<reader, shown, checkpoint>> /\ worker \notin {"done", "restarted"}
        /\ worker' # "restarted"
    BY <1>4 DEF Start, Boot, LogPrompt, Setup, FinishRun, LogFailure, UpdateJob
  <2>2. QED
    BY <1>3, <2>1
<1>5. CASE AgentProjects \/ (\E f \in Finals : AgentFinal(f)) \/ AgentFails \/ FinishNode
  <2>1. /\ UNCHANGED <<reader, shown>> /\ worker \in {"agent", "final"}
        /\ worker' \in {"agent", "final", "ended", "except"}
    BY <1>5 DEF AgentProjects, AgentFinal, AgentFails, FinishNode, Ends
  <2>2. checkpoint'.reason = checkpoint.reason \/ checkpoint.reason # "error"
    BY <1>1, <1>5 DEF AgentProjects, AgentFinal, AgentFails, FinishNode, Ends, ErrorInv
  <2>3. QED
    BY <1>3, <2>1, <2>2
<1>6. CASE AgentPublishes \/ AgentCounts
  <2>1. UNCHANGED <<reader, shown, checkpoint, worker, job, summary>>
    BY <1>6 DEF AgentPublishes, AgentCounts, Publish, Count
  <2>2. QED
    BY <1>2, <2>1 DEF ShownInv
<1>7. CASE FinishSteps \/ FinishRaises
  <2>1. /\ UNCHANGED <<reader, shown, checkpoint>> /\ thread[Worker].pc # "idle"
        /\ worker' = worker \/ worker' \in {"except", "dead"}
    BY <1>7 DEF FinishSteps, FinishStep, EmitFinished, OpenSummary, WriteSummary, EnterIndex, FinishRaises, Raised
  <2>2. worker \in {"finish", "finish_failed"}
    BY <2>1 DEF EndInv, Stage
  <2>3. QED
    BY <1>3, <2>1, <2>2
<1>8. CASE Restart
  <2>1. /\ UNCHANGED <<shown, checkpoint, summary>> /\ worker' = "restarted" /\ worker # "restarted"
        /\ reader'.pc = "checkpoint"
    BY <1>1, <1>8 DEF Restart
  <2>2. worker = "done" => summary.state = "written" \/ checkpoint.status \in Statuses
    BY DEF EndInv, Recorded, Unwritten, Statuses
  <2>3. QED
    BY <1>2, <2>1, <2>2 DEF ShownInv
<1>9. CASE ReadCheckpoint
  <2>1. UNCHANGED <<shown, checkpoint, summary, worker, job>> /\ reader'.pc = "summary" /\ reader'.checkpoint = checkpoint
    BY <1>1, <1>9 DEF ReadCheckpoint, logVars
  <2>2. QED
    BY <1>2, <2>1 DEF ShownInv
<1>10. CASE ReadSummary
  <2>1. /\ UNCHANGED <<shown, checkpoint, summary, worker, job>> /\ reader.pc = "summary" /\ reader'.pc = "job"
        /\ reader'.checkpoint = reader.checkpoint
        /\ reader'.summary = IF summary.state = "written" THEN summary.draft.status ELSE "none"
    BY <1>1, <1>10 DEF ReadSummary, logVars
  <2>2. QED
    BY <1>2, <2>1 DEF ShownInv
<1>11. CASE Show
  <2>1. /\ UNCHANGED <<checkpoint, summary, worker, job, file, finals>> /\ reader.pc = "job" /\ reader'.pc = "checkpoint"
        /\ shown' = IF file = <<>> THEN "idle" ELSE EffectiveStatus
    BY <1>1, <1>11 DEF Show, logVars
  <2>2. ASSUME shown' \in Statuses, ~MisreadFinal
        PROVE  /\ file # <<>>
               /\ \/ shown' = "failed" /\ checkpoint.reason = "error"
                  \/ worker = "done" /\ shown' = job
                  \/ worker = "restarted" /\ (summary.state = "written" \/ checkpoint.status \in Statuses)
    <3>1. file # <<>> /\ shown' = EffectiveStatus
      BY <2>1, <2>2 DEF Statuses
    <3>2. CASE Lower(reader.checkpoint.reason) \in {"error", "failed"}
      BY <2>2, <3>1, <3>2 DEF EffectiveStatus, ErrorInv, Lower
    <3>3. CASE Lower(reader.checkpoint.reason) \notin {"error", "failed"} /\ job # "absent"
      BY <2>2, <3>1, <3>3 DEF EffectiveStatus, Status, EndInv
    <3>4. CASE Lower(reader.checkpoint.reason) \notin {"error", "failed"} /\ job = "absent"
      <4>1. worker = "restarted" /\ reader.checkpoint = checkpoint
        BY <2>1, <3>1, <3>4 DEF EndInv, ShownInv
      <4>2. reader.summary = IF summary.state = "written" THEN summary.draft.status ELSE "none"
        BY <2>1, <4>1 DEF ShownInv
      <4>3. QED
        BY <2>2, <3>1, <3>4, <4>1, <4>2 DEF EffectiveStatus, Status, Statuses
    <3>5. QED
      BY <3>2, <3>3, <3>4
  <2>3. MisreadFinal' = MisreadFinal
    BY <2>1 DEF MisreadFinal
  <2>4. shown' = "completed" => worker = "restarted" \/ (worker = "done" /\ job = "completed")
    <3> SUFFICES ASSUME shown' = "completed" PROVE worker = "restarted" \/ (worker = "done" /\ job = "completed")
      OBVIOUS
    <3>1. file # <<>> /\ shown' = Status
      BY <2>1 DEF EffectiveStatus
    <3>2. job # "absent" => job = "completed"
      BY <3>1 DEF Status
    <3>3. QED
      BY <3>1, <3>2 DEF EndInv, Statuses
  <2>5. QED
    BY <2>1, <2>2, <2>3, <2>4 DEF ShownInv
<1>12. CASE UNCHANGED jobVars
  BY <1>12 DEF jobVars, logVars, ShownInv, MisreadFinal
<1>13. QED
  BY <1>4, <1>5, <1>6, <1>7, <1>8, <1>9, <1>10, <1>11, <1>12 DEF JobNext, WorkerSteps, AgentSteps, ReaderSteps

-----------------------------------------------------------------------------
\* The run.

LEMMA JobBegins == JobInit => JobInv
<1> SUFFICES ASSUME JobInit PROVE JobInv
  OBVIOUS
<1>1. LogInv
  BY JobLogBegins
<1>2. JobTypeOK
  BY <1>1, RunJobAssumption DEF JobInit, JobTypeOK, LogInv
<1>3. Stage = "idle"
  BY WorkerThread DEF JobInit, Stage, Idle
<1>4. EndInv
  BY <1>3 DEF JobInit, EndInv, NoSummary, Statuses
<1>5. ErrorInv /\ ShownInv
  BY DEF JobInit, ErrorInv, ShownInv, Statuses
<1>6. QED
  BY <1>1, <1>2, <1>4, <1>5 DEF JobInv

LEMMA JobStep == ASSUME JobInv, [JobNext]_jobVars PROVE JobInv'
<1>1. JobTypeOK /\ LogInv /\ EndInv /\ ErrorInv /\ ShownInv
  BY DEF JobInv
<1>2. worker \in {"ended", "finish"} => outcome \in Statuses
  BY <1>1 DEF EndInv
<1>3. LogInv'
  BY <1>1, <1>2, JobLogStep
<1>4. JobTypeOK'
  BY <1>1, <1>2, <1>3, JobTypeStep DEF LogInv
<1>5. EndInv' /\ ErrorInv' /\ ShownInv'
  BY <1>1, EndStep, ErrorStep, ShownStep
<1>6. QED
  BY <1>3, <1>4, <1>5 DEF JobInv

\* The inductive invariant: where _execute, finish and the reader stand says what is on
\* disk, and every shown end has a reason that the next snapshot will find again.
THEOREM JobCorrect == JobSpec => []JobInv
<1>1. JobInit => JobInv
  BY JobBegins
<1>2. JobInv /\ [JobNext]_jobVars => JobInv'
  BY JobStep
<1>3. QED
  BY <1>1, <1>2, PTL DEF JobSpec

\* RunController._execute calls a job completed only when its terminal line, its summary
\* and its index entry are on disk and say so, whichever writes fail.
THEOREM EndTheorem == JobSpec => []EndRecorded
<1>1. JobInv => EndRecorded
  BY DEF JobInv, EndInv, EndRecorded, Unwritten
<1>2. QED
  BY <1>1, JobCorrect, PTL

\* The status build_snapshot derives by itself, in lower case and from the text of the
\* messages, agrees with the job's; where it does not, the run is shown failed for a final
\* action with reason "failed", or "error" in another casing, that finish_node let pass.
THEOREM ShownTheorem == JobSpec => []ShownAgrees
<1>1. JobInv => ShownAgrees
  BY DEF JobInv, ErrorInv, ShownInv, ShownAgrees, Statuses
<1>2. QED
  BY <1>1, JobCorrect, PTL

LEMMA EndKept ==
    ASSUME JobInv, [JobNext]_jobVars, shown \in Statuses, ~MisreadFinal
    PROVE  shown' \in Statuses
<1>1. JobTypeOK /\ EndInv /\ ErrorInv /\ ShownInv
  BY DEF JobInv
<1>2. CASE Show
  <2>1. file # <<>> /\ shown' = EffectiveStatus /\ reader.pc = "job"
    BY <1>1, <1>2 DEF Show, ShownInv
  <2>2. CASE Lower(reader.checkpoint.reason) \in {"error", "failed"}
    BY <2>1, <2>2 DEF EffectiveStatus, Statuses
  <2>3. CASE Lower(reader.checkpoint.reason) \notin {"error", "failed"}
    <3>1. shown' = Status /\ worker \in {"done", "restarted"}
      BY <1>1, <2>1, <2>3 DEF EffectiveStatus, ShownInv, Lower
    <3>2. CASE worker = "done"
      <4>1. job \in Statuses /\ job # "absent"
        BY <1>1, <3>2 DEF EndInv
      <4>2. QED
        BY <3>1, <4>1 DEF Status
    <3>3. CASE worker = "restarted"
      <4>1. /\ job = "absent" /\ reader.checkpoint = checkpoint
            /\ reader.summary = IF summary.state = "written" THEN summary.draft.status ELSE "none"
            /\ summary.state = "written" \/ checkpoint.status \in Statuses
            /\ summary.state = "written" => summary.draft.status \in Statuses
        BY <1>1, <2>1, <2>3, <3>3 DEF EndInv, ShownInv, Lower
      <4>2. QED
        BY <3>1, <4>1 DEF Status, Statuses
    <3>4. QED
      BY <3>1, <3>2, <3>3
  <2>4. QED
    BY <2>2, <2>3
<1>3. CASE UNCHANGED shown
  BY <1>3
<1>4. QED
  BY <1>2, <1>3
     DEF JobNext, WorkerSteps, AgentSteps, ReaderSteps, Start, Boot, LogPrompt, Setup, AgentProjects, AgentPublishes,
         AgentCounts, AgentFinal, FinishNode, AgentFails, FinishRun, FinishSteps, FinishRaises, LogFailure, UpdateJob,
         Restart, ReadCheckpoint, ReadSummary, jobVars

\* No snapshot takes back an end that an earlier one has shown, across restarts of the
\* server and failed writes, misread final actions apart.
THEOREM EndStaysTheorem == JobSpec => EndStaysShown
<1>1. JobInv /\ [JobNext]_jobVars => [(shown \in Statuses) => (shown' \in Statuses \/ MisreadFinal)]_jobVars
  BY EndKept
<1>2. QED
  BY <1>1, JobCorrect, PTL DEF JobSpec, EndStaysShown

=============================================================================
