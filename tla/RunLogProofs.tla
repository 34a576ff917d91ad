---------------------------- MODULE RunLogProofs ----------------------------
(***************************************************************************)
(* Proofs about the log of a run (RunLog), by itself and under the control *)
(* plane's emitter (ControlPlane).                                         *)
(***************************************************************************)
EXTENDS ControlPlane, FiniteSetTheorems, SequenceTheorems, TLAPS

-----------------------------------------------------------------------------
\* The table of counts.

\* The names in AllEvents; the log's own lines have others.
LEMMA EventNames ==
    /\ AllEvents = {"tool_completed", "llm_completed", "tool_failed", "llm_failed", "graph_step",
                    "parse_error", "finish_blocked", "delegation_started", "delegation_progress",
                    "delegation_failed", "other", "control"}
    /\ "run_started" \notin AllEvents /\ "run_finished" \notin AllEvents /\ "ui" \notin AllEvents
    /\ "control" \in AllEvents /\ Counts["control"] = <<>>
BY DEF AllEvents, Counts

\* What an event counts are metrics, and no metric twice.
LEMMA CountsDistinct ==
    \A e \in AllEvents :
        /\ Counts[e] \in Seq(Metrics)
        /\ \A i, j \in DOMAIN Counts[e] : Counts[e][i] = Counts[e][j] => i = j
<1> SUFFICES ASSUME NEW e \in AllEvents
             PROVE  /\ Counts[e] \in Seq(Metrics)
                    /\ \A i, j \in DOMAIN Counts[e] : Counts[e][i] = Counts[e][j] => i = j
  OBVIOUS
<1>1. CASE e = "tool_completed"
  BY <1>1 DEF Counts, Metrics
<1>2. CASE e = "llm_completed"
  BY <1>2 DEF Counts, Metrics
<1>3. CASE e = "tool_failed"
  BY <1>3 DEF Counts, Metrics
<1>4. CASE e = "llm_failed"
  BY <1>4 DEF Counts, Metrics
<1>5. CASE e = "graph_step"
  BY <1>5 DEF Counts, Metrics
<1>6. CASE e = "parse_error"
  BY <1>6 DEF Counts, Metrics
<1>7. CASE e = "finish_blocked"
  BY <1>7 DEF Counts, Metrics
<1>8. CASE e = "delegation_started"
  BY <1>8 DEF Counts, Metrics
<1>9. CASE e = "delegation_progress"
  BY <1>9 DEF Counts, Metrics
<1>10. CASE e = "delegation_failed"
  BY <1>10 DEF Counts, Metrics
<1>11. CASE e = "other"
  BY <1>11 DEF Counts, Metrics
<1>12. CASE e = "control"
  BY <1>12 DEF Counts, Metrics
<1>13. QED
  BY <1>1, <1>2, <1>3, <1>4, <1>5, <1>6, <1>7, <1>8, <1>9, <1>10, <1>11, <1>12, EventNames

-----------------------------------------------------------------------------
\* emit.

\* A line more: the earlier ones stay.
LEMMA Appended ==
    ASSUME NEW f \in Seq(Line), NEW line \in Line
    PROVE  LET g == Append(f, line)
           IN  /\ g \in Seq(Line) /\ Len(g) = Len(f) + 1 /\ DOMAIN g = 1 .. Len(f) + 1
               /\ g[Len(f) + 1] = line
               /\ \A i \in DOMAIN f : i \in DOMAIN g /\ i <= Len(f) /\ g[i] = f[i]
               /\ g # f
OBVIOUS

LEMMA LineFields == \A line \in Line : line.sequence \in Nat
BY DEF Line

LEMMA LoggedLine ==
    ASSUME NEW e \in AllEvents \cup {"run_started", "run_finished", "ui"},
           NEW status \in Statuses \cup {"none"},
           LogTypeOK, Logged(e, status)
    PROVE  \E line \in Line :
               /\ file' = Append(file, line)
               /\ line.event = e /\ line.status = status
               /\ e # "delegation_progress" => line.sequence = seq + 1
<1>1. PICK n \in SequencesOf(e) : file' = Append(file, [event |-> e, sequence |-> n, status |-> status])
  BY DEF Logged
<1>2. n \in Nat /\ (e # "delegation_progress" => n = seq + 1)
  BY RunLogAssumption DEF SequencesOf, LogTypeOK
<1>3. [event |-> e, sequence |-> n, status |-> status] \in Line
  BY <1>2 DEF Line
<1>4. QED
  BY <1>1, <1>2, <1>3

\* The counter and the lines under a write that went through.
LEMMA LoggedSequenced ==
    ASSUME NEW e \in AllEvents \cup {"run_started", "run_finished", "ui"},
           NEW status \in Statuses \cup {"none"},
           LogTypeOK, SequenceInv, Logged(e, status)
    PROVE  seq' \in Nat /\ file' \in Seq(Line) /\ SequenceInv'
<1>1. PICK line \in Line :
          /\ file' = Append(file, line)
          /\ line.event = e
          /\ e # "delegation_progress" => line.sequence = seq + 1
  BY LoggedLine
<1>2. seq \in Nat /\ seq' = seq + 1 /\ file \in Seq(Line) /\ Len(file) \in Nat /\ DOMAIN file = 1 .. Len(file)
  BY DEF Logged, LogTypeOK
<1>3. /\ file' \in Seq(Line) /\ Len(file') = Len(file) + 1 /\ DOMAIN file' = 1 .. Len(file) + 1
      /\ file'[Len(file) + 1] = line
      /\ \A i \in DOMAIN file : file'[i] = file[i]
  BY <1>1, <1>2, Appended
<1>4. \A i \in DOMAIN file : file[i].sequence \in Nat
  BY <1>2, LineFields
<1>5. Len(file) <= seq /\ (~DiskMayFail => Len(file) = seq)
  BY Zenon DEF SequenceInv
<1>6. Len(file') <= seq' /\ (~DiskMayFail => Len(file') = seq')
  <2>1. Len(file) <= seq => Len(file') <= seq'
    BY <1>2, <1>3
  <2>2. Len(file) = seq => Len(file') = seq'
    BY <1>2, <1>3
  <2>3. QED
    BY <1>5, <2>1, <2>2
<1>7. ASSUME NEW i \in DOMAIN file', file'[i].event # "delegation_progress"
      PROVE  /\ file'[i].sequence \in Nat
             /\ file'[i].sequence + (Len(file') - i) <= seq'
             /\ file'[i].sequence \in i .. seq'
             /\ ~DiskMayFail => file'[i].sequence = i
  <2>1. CASE i = Len(file) + 1
    <3>1. file'[i].sequence = seq + 1
      BY <1>1, <1>3, <1>7, <2>1
    <3>2. Len(file) = seq => file'[i].sequence = i
      BY <2>1, <3>1
    <3>3. /\ file'[i].sequence \in Nat
          /\ file'[i].sequence + (Len(file') - i) <= seq'
          /\ Len(file) <= seq => file'[i].sequence \in i .. seq'
      BY <1>2, <1>3, <2>1, <3>1
    <3>4. QED
      BY <1>5, <3>2, <3>3
  <2>2. CASE i \in DOMAIN file
    <3>1. file'[i] = file[i]
      BY <1>3, <2>2
    <3>2. /\ file[i].sequence + (Len(file) - i) <= seq
          /\ file[i].sequence \in i .. seq
          /\ ~DiskMayFail => file[i].sequence = i
      BY <1>7, <2>2, <3>1 DEF SequenceInv, LogSequenced
    <3>3. QED
      BY <1>2, <1>3, <1>4, <2>2, <3>1, <3>2
  <2>3. QED
    BY <1>2, <1>3, <2>1, <2>2
<1>8. ASSUME NEW i \in DOMAIN file', file'[i].event # "delegation_progress",
             NEW j \in DOMAIN file', file'[j].event # "delegation_progress", i < j
      PROVE  file'[i].sequence + (j - i) <= file'[j].sequence
  <2>1. i \in DOMAIN file /\ file'[i] = file[i]
    BY <1>2, <1>3, <1>8
  <2>2. CASE j = Len(file) + 1
    <3>1. file[i].sequence + (Len(file) - i) <= seq
      BY <1>8, <2>1 DEF SequenceInv
    <3>2. file'[j].sequence = seq + 1
      BY <1>1, <1>3, <1>8, <2>2
    <3>3. QED
      BY <1>2, <1>4, <2>1, <2>2, <3>1, <3>2
  <2>3. CASE j \in DOMAIN file
    <3>1. file'[j] = file[j]
      BY <1>3, <2>3
    <3>2. file[i].sequence + (j - i) <= file[j].sequence
      BY <1>8, <2>1, <2>3, <3>1 DEF SequenceInv, LogSequenced
    <3>3. QED
      BY <2>1, <3>1, <3>2
  <2>4. QED
    BY <1>2, <1>3, <2>2, <2>3
<1>9. LogSequenced'
  BY <1>7, <1>8 DEF LogSequenced
<1>10. SequenceInv'
  BY <1>6, <1>7, <1>9, Zenon DEF SequenceInv
<1>11. QED
  BY <1>2, <1>3, <1>10

\* The counter moves for a line that is lost, too.
LEMMA LostSequenced ==
    ASSUME LogTypeOK, SequenceInv, Lost
    PROVE  seq' \in Nat /\ file' \in Seq(Line) /\ SequenceInv'
<1>1. seq \in Nat /\ seq' = seq + 1 /\ file' = file /\ DiskMayFail /\ file \in Seq(Line)
  BY DEF Lost, LogTypeOK
<1>2. \A i \in DOMAIN file : file[i].sequence \in Nat
  BY <1>1, LineFields
<1>3. Len(file) <= seq' /\ \A i \in DOMAIN file :
          file[i].event # "delegation_progress" => file[i].sequence + (Len(file) - i) <= seq'
  BY <1>1, <1>2 DEF SequenceInv
<1>4. ASSUME NEW i \in DOMAIN file, file[i].event # "delegation_progress"
      PROVE  /\ file[i].sequence \in i .. seq'
             /\ \A j \in DOMAIN file : file[j].event # "delegation_progress" /\ i < j =>
                    file[i].sequence + (j - i) <= file[j].sequence
  <2>1. file[i].sequence \in i .. seq
    BY <1>4 DEF SequenceInv, LogSequenced
  <2>2. QED
    BY <1>1, <1>2, <1>4, <2>1 DEF SequenceInv, LogSequenced
<1>5. LogSequenced'
  BY <1>1, <1>4 DEF LogSequenced
<1>6. QED
  BY <1>1, <1>3, <1>5 DEF SequenceInv

LEMMA SameSequenced ==
    ASSUME SequenceInv, UNCHANGED <<seq, file>>
    PROVE  SequenceInv'
BY DEF SequenceInv, LogSequenced

-----------------------------------------------------------------------------
\* finish.

\* The events of the lines, when one of another name is appended.
LEMMA LinesAppended ==
    ASSUME NEW line \in Line, file \in Seq(Line), file' = Append(file, line)
    PROVE  /\ \A e : line.event # e => Lines(e)' = Lines(e)
           /\ \A e : line.event = e => Lines(e)' = Lines(e) \cup {Len(file) + 1}
           /\ \A e : \A i \in Lines(e) : file'[i] = file[i]
           /\ file'[Len(file) + 1] = line
           /\ \A e : Len(file) + 1 \notin Lines(e)
<1>1. /\ Len(file) \in Nat /\ DOMAIN file = 1 .. Len(file)
      /\ DOMAIN file' = 1 .. Len(file) + 1
      /\ file'[Len(file) + 1] = line
      /\ \A i \in DOMAIN file : file'[i] = file[i]
  BY Appended
<1>2. DOMAIN file' = DOMAIN file \cup {Len(file) + 1} /\ Len(file) + 1 \notin DOMAIN file
  BY <1>1
<1>3. QED
  BY <1>1, <1>2 DEF Lines

\* Nothing of finish moves: no line of its own is written, every thread stands where it
\* stood in it.
LEMMA FinishUntouched ==
    ASSUME LogTypeOK, FinishInv,
           \/ UNCHANGED file
           \/ \E line \in Line : line.event # "run_finished" /\ file' = Append(file, line),
           \A p \in Threads : thread'[p].pc = thread[p].pc /\ thread'[p].draft = thread[p].draft,
           UNCHANGED <<finished, summary, index>>
    PROVE  FinishInv'
<1>1. /\ Lines("run_finished")' = Lines("run_finished")
      /\ \A i \in Lines("run_finished") : file'[i] = file[i]
  <2>1. CASE UNCHANGED file
    BY <2>1 DEF Lines
  <2>2. CASE \E line \in Line : line.event # "run_finished" /\ file' = Append(file, line)
    <3>1. PICK line \in Line : line.event # "run_finished" /\ file' = Append(file, line)
      BY <2>2
    <3>2. file \in Seq(Line)
      BY DEF LogTypeOK
    <3>3. QED
      BY <3>1, <3>2, LinesAppended
  <2>3. QED
    BY <2>1, <2>2
<1>2. FinishOnce'
  BY <1>1 DEF FinishInv, FinishOnce
<1>3. /\ ~finished' => Lines("run_finished")' = {} /\ index' = <<>>
      /\ \A p, q \in Threads : thread'[p].pc # "idle" /\ thread'[q].pc # "idle" => p = q
  BY <1>1 DEF FinishInv
<1>4. ASSUME NEW p \in Threads
      PROVE  /\ thread'[p].pc # "idle" =>
                    finished' /\ index' = <<>> /\ thread'[p].draft.status \in Statuses
             /\ thread'[p].pc = "terminal" => Lines("run_finished")' = {}
             /\ thread'[p].pc \in {"summary", "writing", "index"} =>
                    \E i \in Lines("run_finished")' : file'[i].status = thread'[p].draft.status
             /\ thread'[p].pc = "index" => summary' = [state |-> "written", draft |-> thread'[p].draft]
  BY <1>1 DEF FinishInv
<1>5. QED
  BY <1>2, <1>3, <1>4, Zenon DEF FinishInv

\* The first caller goes on alone; a later one changes nothing.
LEMMA FinishCalled ==
    ASSUME NEW p \in Threads, NEW status \in Statuses, LogTypeOK, FinishInv, Finish(p, status)
    PROVE  FinishInv'
<1>1. thread \in [Threads -> [pc : {"idle", "terminal", "summary", "writing", "index", "raised"},
                              todo : Seq(Metrics), draft : Draft]]
  BY DEF LogTypeOK
<1>2. finished' /\ UNCHANGED <<file, summary, index>> /\ Lines("run_finished")' = Lines("run_finished")
  BY DEF Finish, Lines
<1>3. CASE finished
  <2>1. thread' = thread
    BY <1>3 DEF Finish
  <2>2. QED
    BY <1>2, <1>3, <2>1 DEF FinishInv, FinishOnce
<1>4. CASE ~finished
  <2>1. /\ thread'[p].pc = "terminal" /\ thread'[p].draft.status = status
        /\ \A q \in Threads \ {p} : thread'[q] = thread[q]
    BY <1>1, <1>4 DEF Finish, Snapshot
  <2>2. \A q \in Threads : thread[q].pc = "idle"
    BY <1>4 DEF FinishInv
  <2>3. Lines("run_finished") = {} /\ index = <<>>
    BY <1>4 DEF FinishInv
  <2>4. FinishOnce'
    BY <1>2, <2>3 DEF FinishOnce
  <2>5. \A q \in Threads \ {p} : thread'[q].pc = "idle"
    BY <2>1, <2>2
  <2>6. QED
    BY <1>2, <2>1, <2>3, <2>4, <2>5 DEF FinishInv
<1>5. QED
  BY <1>3, <1>4

\* What one thread in finish does, when the others are not in it.
LEMMA FinishAlone ==
    ASSUME NEW p \in Threads, LogTypeOK, FinishInv, thread[p].pc # "idle", NEW next, Goes(p, next)
    PROVE  /\ \A q \in Threads \ {p} : thread'[q] = thread[q] /\ thread[q].pc = "idle"
           /\ thread'[p].pc = next /\ thread'[p].draft = thread[p].draft
           /\ finished /\ index = <<>> /\ thread[p].draft.status \in Statuses
<1>1. thread \in [Threads -> [pc : {"idle", "terminal", "summary", "writing", "index", "raised"},
                              todo : Seq(Metrics), draft : Draft]]
  BY DEF LogTypeOK
<1>2. \A q \in Threads \ {p} : thread'[q] = thread[q]
  BY <1>1 DEF Goes
<1>3. thread'[p].pc = next /\ thread'[p].draft = thread[p].draft
  BY <1>1 DEF Goes
<1>4. \A q \in Threads \ {p} : thread[q].pc = "idle"
  BY DEF FinishInv
<1>5. QED
  BY <1>2, <1>3, <1>4 DEF FinishInv

\* A thread that stands at a stage of finish, alone, with what the stage has behind it.
LEMMA FinishStands ==
    ASSUME NEW p \in Threads, finished', index' = <<>>,
           \A q \in Threads \ {p} : thread'[q].pc = "idle",
           thread'[p].draft.status \in Statuses,
           \A i, j \in Lines("run_finished")' : i = j,
           thread'[p].pc = "terminal" => Lines("run_finished")' = {},
           thread'[p].pc \in {"summary", "writing", "index"} =>
               \E i \in Lines("run_finished")' : file'[i].status = thread'[p].draft.status,
           thread'[p].pc = "index" => summary' = [state |-> "written", draft |-> thread'[p].draft]
    PROVE  FinishInv'
<1>1. FinishOnce'
  BY DEF FinishOnce
<1>2. QED
  BY <1>1 DEF FinishInv

LEMMA EmitFinishedOK ==
    ASSUME NEW p \in Threads, LogTypeOK, FinishInv, EmitFinished(p)
    PROVE  FinishInv'
<1>1. thread[p].pc = "terminal" /\ UNCHANGED <<finished, summary, index>>
  BY DEF EmitFinished
<1>2. PICK next \in {"summary", "raised"} :
          /\ Goes(p, next)
          /\ next = "summary" => Logged("run_finished", thread[p].draft.status)
          /\ next = "raised" => UNCHANGED file
  BY DEF EmitFinished, Lost
<1>3. /\ \A q \in Threads \ {p} : thread'[q].pc = "idle"
      /\ thread'[p].pc = next /\ thread'[p].draft = thread[p].draft
      /\ finished /\ index = <<>> /\ thread[p].draft.status \in Statuses
  BY <1>1, <1>2, FinishAlone
<1>4. Lines("run_finished") = {}
  BY <1>1 DEF FinishInv
<1>5. CASE next = "summary"
  <2>1. PICK line \in Line :
            file' = Append(file, line) /\ line.event = "run_finished" /\ line.status = thread[p].draft.status
    BY <1>2, <1>3, <1>5, LoggedLine
  <2>2. file \in Seq(Line)
    BY DEF LogTypeOK
  <2>3. Lines("run_finished")' = {Len(file) + 1} /\ file'[Len(file) + 1].status = thread[p].draft.status
    BY <1>4, <2>1, <2>2, LinesAppended
  <2>4. QED
    BY <1>1, <1>3, <1>5, <2>3, FinishStands
<1>6. CASE next = "raised"
  <2>1. Lines("run_finished")' = {}
    BY <1>2, <1>4, <1>6 DEF Lines
  <2>2. QED
    BY <1>1, <1>3, <1>6, <2>1, FinishStands
<1>7. QED
  BY <1>5, <1>6

LEMMA SummaryOK ==
    ASSUME NEW p \in Threads, LogTypeOK, FinishInv, OpenSummary(p) \/ WriteSummary(p)
    PROVE  FinishInv'
<1>1. PICK next \in {"writing", "index", "raised"} :
          /\ Goes(p, next)
          /\ next = "index" => summary' = [state |-> "written", draft |-> thread[p].draft]
  BY DEF OpenSummary, WriteSummary, Raises
<1>2. thread[p].pc \in {"summary", "writing"} /\ UNCHANGED <<file, finished, index>>
  BY DEF OpenSummary, WriteSummary
<1>3. /\ \A q \in Threads \ {p} : thread'[q].pc = "idle"
      /\ thread'[p].pc = next /\ thread'[p].draft = thread[p].draft
      /\ finished /\ index = <<>> /\ thread[p].draft.status \in Statuses
  BY <1>1, <1>2, FinishAlone
<1>4. /\ Lines("run_finished")' = Lines("run_finished")
      /\ \A i, j \in Lines("run_finished") : i = j
      /\ \E i \in Lines("run_finished") : file'[i].status = thread[p].draft.status
  BY <1>2 DEF FinishInv, FinishOnce, Lines
<1>5. QED
  BY <1>1, <1>2, <1>3, <1>4, FinishStands

LEMMA EnterIndexOK ==
    ASSUME NEW p \in Threads, LogTypeOK, FinishInv, EnterIndex(p)
    PROVE  FinishInv'
<1>1. thread[p].pc = "index" /\ UNCHANGED <<file, finished, summary>>
  BY DEF EnterIndex
<1>2. /\ Lines("run_finished")' = Lines("run_finished")
      /\ \A i, j \in Lines("run_finished") : i = j
      /\ \E i \in Lines("run_finished") : file'[i].status = thread[p].draft.status
      /\ summary = [state |-> "written", draft |-> thread[p].draft]
  BY <1>1 DEF FinishInv, FinishOnce, Lines
<1>3. CASE index' = Append(index, thread[p].draft.status) /\ Goes(p, "idle")
  <2>1. /\ \A q \in Threads : thread'[q].pc = "idle"
        /\ finished /\ index = <<>> /\ thread[p].draft.status \in Statuses
    BY <1>1, <1>3, FinishAlone
  <2>2. Len(index') = 1 /\ index'[1] = thread[p].draft.status
    BY <1>3, <2>1
  <2>3. FinishOnce'
    BY <1>1, <1>2, <2>2 DEF FinishOnce
  <2>4. QED
    BY <1>1, <2>1, <2>3 DEF FinishInv
<1>4. CASE Raises(p) /\ UNCHANGED index
  <2>1. /\ \A q \in Threads \ {p} : thread'[q].pc = "idle"
        /\ thread'[p].pc = "raised" /\ thread'[p].draft = thread[p].draft
        /\ finished /\ index = <<>> /\ thread[p].draft.status \in Statuses
    BY <1>1, <1>4, FinishAlone DEF Raises
  <2>2. QED
    BY <1>1, <1>2, <1>4, <2>1, FinishStands
<1>5. QED
  BY <1>3, <1>4 DEF EnterIndex

\* Nobody is left in finish: what it has written stays.
LEMMA FinishLeft ==
    ASSUME FinishInv, UNCHANGED <<file, summary, index>>, finished' = finished,
           \A p \in Threads : thread'[p].pc = "idle"
    PROVE  FinishInv'
<1>1. Lines("run_finished")' = Lines("run_finished")
  BY DEF Lines
<1>2. FinishOnce'
  BY <1>1 DEF FinishInv, FinishOnce
<1>3. QED
  BY <1>1, <1>2 DEF FinishInv

LEMMA RaisedOK ==
    ASSUME NEW p \in Threads, LogTypeOK, FinishInv, Raised(p)
    PROVE  FinishInv'
<1>1. thread[p].pc = "raised" /\ Goes(p, "idle") /\ UNCHANGED <<file, finished, summary, index>>
  BY DEF Raised
<1>2. \A q \in Threads : thread'[q].pc = "idle"
  BY <1>1, FinishAlone
<1>3. QED
  BY <1>1, <1>2, FinishLeft

-----------------------------------------------------------------------------
\* The log's invariant, one operation after the other.

\* A line is written or lost, and no thread moves in finish.
LEMMA EmitOK ==
    ASSUME LogInv, NEW e \in AllEvents \cup {"run_started", "ui"},
           Logged(e, "none") \/ Lost,
           thread' \in [Threads -> [pc : {"idle", "terminal", "summary", "writing", "index", "raised"},
                                    todo : Seq(Metrics), draft : Draft]],
           \A p \in Threads : thread'[p].pc = thread[p].pc /\ thread'[p].draft = thread[p].draft,
           UNCHANGED <<metrics, finished, summary, index>>
    PROVE  LogInv'
<1>1. LogTypeOK /\ SequenceInv /\ FinishInv
  BY DEF LogInv
<1>2. seq' \in Nat /\ file' \in Seq(Line) /\ SequenceInv'
  BY <1>1, LoggedSequenced, LostSequenced
<1>3. UNCHANGED file \/ \E line \in Line : line.event # "run_finished" /\ file' = Append(file, line)
  <2>1. e # "run_finished"
    BY EventNames
  <2>2. CASE Logged(e, "none")
    <3>1. PICK line \in Line : file' = Append(file, line) /\ line.event = e
      BY <1>1, <2>2, LoggedLine
    <3>2. QED
      BY <2>1, <3>1
  <2>3. CASE Lost
    BY <2>3 DEF Lost
  <2>4. QED
    BY <2>2, <2>3
<1>4. FinishInv'
  BY <1>1, <1>3, FinishUntouched
<1>5. LogTypeOK'
  BY <1>1, <1>2 DEF LogTypeOK
<1>6. QED
  BY <1>2, <1>4, <1>5 DEF LogInv

LEMMA PublishOK ==
    ASSUME LogInv, NEW p \in Threads, NEW e \in AllEvents, Publish(p, e)
    PROVE  LogInv'
<1>1. thread \in [Threads -> [pc : {"idle", "terminal", "summary", "writing", "index", "raised"},
                              todo : Seq(Metrics), draft : Draft]]
  BY DEF LogInv, LogTypeOK
<1>2. thread' = thread \/ thread' = [thread EXCEPT ![p].todo = Counts[e]]
  BY DEF Publish
<1>3. Counts[e] \in Seq(Metrics)
  BY CountsDistinct
<1>4. /\ thread' \in [Threads -> [pc : {"idle", "terminal", "summary", "writing", "index", "raised"},
                                  todo : Seq(Metrics), draft : Draft]]
      /\ \A q \in Threads : thread'[q].pc = thread[q].pc /\ thread'[q].draft = thread[q].draft
  <2>1. CASE thread' = thread
    BY <1>1, <2>1
  <2>2. CASE thread' = [thread EXCEPT ![p].todo = Counts[e]]
    BY <1>1, <1>3, <2>2
  <2>3. QED
    BY <1>2, <2>1, <2>2
<1>5. (Logged(e, "none") \/ Lost) /\ UNCHANGED <<metrics, finished, summary, index>>
  BY DEF Publish
<1>6. QED
  BY <1>4, <1>5, EmitOK

LEMMA CountOK ==
    ASSUME LogInv, NEW p \in Threads, Count(p)
    PROVE  LogInv'
<1>1. LogTypeOK /\ SequenceInv /\ FinishInv
  BY DEF LogInv
<1>2. thread[p].todo # <<>> /\ UNCHANGED <<seq, file, finished, summary, index>>
  BY DEF Count
<1>3. /\ thread \in [Threads -> [pc : {"idle", "terminal", "summary", "writing", "index", "raised"},
                                 todo : Seq(Metrics), draft : Draft]]
      /\ metrics \in [Metrics -> Nat]
  BY <1>1 DEF LogTypeOK
<1>4. thread[p].todo \in Seq(Metrics)
  BY <1>3
<1>5. Head(thread[p].todo) \in Metrics /\ Tail(thread[p].todo) \in Seq(Metrics)
  BY <1>2, <1>4
<1>6. thread' = [thread EXCEPT ![p].todo = Tail(thread[p].todo)]
  BY <1>3 DEF Count
<1>7. /\ thread' \in [Threads -> [pc : {"idle", "terminal", "summary", "writing", "index", "raised"},
                                  todo : Seq(Metrics), draft : Draft]]
      /\ \A q \in Threads : thread'[q].pc = thread[q].pc /\ thread'[q].draft = thread[q].draft
  BY <1>3, <1>5, <1>6
<1>8. metrics' \in [Metrics -> Nat]
  BY <1>3, <1>5 DEF Count
<1>9. LogTypeOK'
  BY <1>1, <1>2, <1>7, <1>8 DEF LogTypeOK
<1>10. FinishInv'
  BY <1>1, <1>2, <1>7, FinishUntouched
<1>11. SequenceInv'
  BY <1>1, <1>2, SameSequenced
<1>12. QED
  BY <1>9, <1>10, <1>11 DEF LogInv

LEMMA FinishOK ==
    ASSUME LogInv, NEW p \in Threads, NEW status \in Statuses, Finish(p, status)
    PROVE  LogInv'
<1>1. LogTypeOK /\ SequenceInv /\ FinishInv
  BY DEF LogInv
<1>2. FinishInv' /\ SequenceInv'
  BY <1>1, FinishCalled, SameSequenced DEF Finish
<1>3. Snapshot(status) \in Draft
  BY <1>1 DEF LogTypeOK, Snapshot, Draft
<1>4. LogTypeOK'
  BY <1>1, <1>3 DEF Finish, LogTypeOK
<1>5. QED
  BY <1>2, <1>4 DEF LogInv

LEMMA FinishStepOK ==
    ASSUME LogInv, NEW p \in Threads, FinishStep(p) \/ Raised(p)
    PROVE  LogInv'
<1>1. LogTypeOK /\ SequenceInv /\ FinishInv
  BY DEF LogInv
<1>2. FinishInv'
  BY <1>1, EmitFinishedOK, SummaryOK, EnterIndexOK, RaisedOK DEF FinishStep
<1>3. /\ thread[p].draft \in Draft
      /\ thread[p].pc # "idle" => thread[p].draft.status \in Statuses
  BY <1>1 DEF LogTypeOK, FinishInv
<1>4. seq' \in Nat /\ file' \in Seq(Line) /\ SequenceInv'
  <2>1. CASE EmitFinished(p)
    <3>1. thread[p].draft.status \in Statuses \cup {"none"}
      BY <1>3 DEF Draft
    <3>2. QED
      BY <1>1, <2>1, <3>1, LoggedSequenced, LostSequenced DEF EmitFinished
  <2>2. CASE UNCHANGED <<seq, file>>
    BY <1>1, <2>2, SameSequenced DEF LogTypeOK
  <2>3. QED
    BY <2>1, <2>2 DEF FinishStep, OpenSummary, WriteSummary, EnterIndex, Raised
<1>5. PICK next \in {"idle", "summary", "writing", "index", "raised"} : Goes(p, next)
  BY DEF FinishStep, EmitFinished, OpenSummary, WriteSummary, EnterIndex, Raised, Raises
<1>6. thread' \in [Threads -> [pc : {"idle", "terminal", "summary", "writing", "index", "raised"},
                               todo : Seq(Metrics), draft : Draft]]
  BY <1>1, <1>5 DEF LogTypeOK, Goes
<1>7. summary' \in [state : {"none", "torn", "written"}, draft : Draft]
  BY <1>1, <1>3 DEF LogTypeOK, FinishStep, EmitFinished, OpenSummary, WriteSummary, EnterIndex, Raised
<1>8. index' \in Seq(Statuses)
  <2>1. index \in Seq(Statuses)
    BY <1>1 DEF LogTypeOK
  <2>2. index' = index \/ (thread[p].pc = "index" /\ index' = Append(index, thread[p].draft.status))
    BY DEF FinishStep, EmitFinished, OpenSummary, WriteSummary, EnterIndex, Raised
  <2>3. QED
    BY <1>3, <2>1, <2>2
<1>9. UNCHANGED <<metrics, finished>>
  BY DEF FinishStep, EmitFinished, OpenSummary, WriteSummary, EnterIndex, Raised
<1>10. LogTypeOK'
  BY <1>1, <1>4, <1>6, <1>7, <1>8, <1>9 DEF LogTypeOK
<1>11. QED
  BY <1>2, <1>4, <1>10 DEF LogInv

\* A log that has just begun, also after a restart.
LEMMA LogBegins == LogInit => LogInv /\ MetricsInv
<1> SUFFICES ASSUME LogInit PROVE LogInv /\ MetricsInv
  OBVIOUS
<1> DEFINE first == [event |-> "run_started", sequence |-> 1, status |-> "none"]
<1>1. first \in Line /\ NoDraft \in Draft
  BY DEF Line, NoDraft, Draft
<1>2. LogTypeOK
  <2>1. seq \in Nat /\ file \in Seq(Line) /\ metrics \in [Metrics -> Nat]
    BY <1>1 DEF LogInit
  <2>2. Idle \in [pc : {"idle", "terminal", "summary", "writing", "index", "raised"},
                 todo : Seq(Metrics), draft : Draft]
    BY <1>1 DEF Idle
  <2>3. finished \in BOOLEAN /\ index \in Seq(Statuses)
    <3>1. finished = FALSE /\ index = <<>>
      BY DEF LogInit
    <3>2. <<>> \in Seq(Statuses)
      OBVIOUS
    <3>3. QED
      BY <3>1, <3>2
  <2>4. summary \in [state : {"none", "torn", "written"}, draft : Draft]
    BY <1>1 DEF LogInit, NoSummary
  <2>5. QED
    BY <2>1, <2>2, <2>3, <2>4 DEF LogInit, LogTypeOK
<1>3. file = <<first>> /\ Len(file) = 1 /\ DOMAIN file = {1} /\ file[1] = first /\ seq = 1
  BY DEF LogInit
<1>4. SequenceInv
  <2>1. LogSequenced
    BY <1>3 DEF LogSequenced
  <2>2. /\ Len(file) <= seq /\ Len(file) = seq
        /\ \A i \in DOMAIN file : file[i].sequence + (Len(file) - i) <= seq
    BY <1>3
  <2>3. QED
    BY <2>1, <2>2, Zenon DEF SequenceInv
<1>5. Lines("run_finished") = {} /\ index = <<>> /\ \A p \in Threads : thread[p].pc = "idle"
  BY <1>3 DEF Lines, LogInit, Idle
<1>6. FinishInv
  <2>1. FinishOnce
    BY <1>5 DEF FinishOnce
  <2>2. QED
    BY <1>5, <2>1 DEF FinishInv
<1>7. CountedInv
  <2>1. \A p \in Threads : thread[p].todo = <<>>
    BY DEF LogInit, Idle
  <2>2. ASSUME NEW m \in Metrics
        PROVE  metrics[m] = 0 /\ Waiting(m) = {} /\ Counting(m) = {}
    BY <1>3, <2>1, EventNames DEF LogInit, Waiting, Counting, Range
  <2>3. MetricsCounted
    BY <2>2, FS_EmptySet DEF MetricsCounted
  <2>4. QED
    BY <2>1, <2>3 DEF CountedInv
<1>8. SnapshotInv
  BY <1>5 DEF LogInit, NoSummary, SnapshotInv
<1>9. QED
  BY <1>2, <1>4, <1>6, <1>7, <1>8 DEF LogInv, MetricsInv

-----------------------------------------------------------------------------
\* The metrics.

LEMMA SetsFinite ==
    ASSUME LogTypeOK, NEW m \in Metrics
    PROVE  /\ IsFiniteSet(Waiting(m)) /\ Cardinality(Waiting(m)) \in Nat
           /\ IsFiniteSet(Counting(m)) /\ Cardinality(Counting(m)) \in Nat
<1>1. Waiting(m) \in SUBSET Threads /\ IsFiniteSet(Threads)
  BY RunLogAssumption DEF Waiting
<1>2. Counting(m) \in SUBSET (1 .. Len(file)) /\ IsFiniteSet(1 .. Len(file))
  <2>1. file \in Seq(Line)
    BY DEF LogTypeOK
  <2>2. DOMAIN file = 1 .. Len(file) /\ Len(file) \in Nat
    BY <2>1
  <2>3. QED
    BY <2>2, FS_Interval DEF Counting
<1>3. IsFiniteSet(Waiting(m)) /\ IsFiniteSet(Counting(m))
  BY <1>1, <1>2, FS_Subset
<1>4. QED
  BY <1>3, FS_CardinalityType

\* A line more counts for the metrics of its event.
LEMMA CountingAppended ==
    ASSUME NEW line \in Line, file \in Seq(Line), file' = Append(file, line), NEW m \in Metrics
    PROVE  /\ Len(file) + 1 \notin Counting(m)
           /\ Counting(m)' = IF line.event \in AllEvents /\ m \in Range(Counts[line.event])
                             THEN Counting(m) \cup {Len(file) + 1} ELSE Counting(m)
<1>1. /\ Len(file) \in Nat /\ DOMAIN file = 1 .. Len(file)
      /\ DOMAIN file' = 1 .. Len(file) + 1
      /\ file'[Len(file) + 1] = line
      /\ \A i \in DOMAIN file : file'[i] = file[i]
  BY Appended
<1>2. DOMAIN file' = DOMAIN file \cup {Len(file) + 1} /\ Len(file) + 1 \notin DOMAIN file
  BY <1>1
<1>3. \A i \in DOMAIN file : i \in Counting(m)' <=> i \in Counting(m)
  BY <1>1, <1>2 DEF Counting
<1>4. Len(file) + 1 \in Counting(m)' <=> line.event \in AllEvents /\ m \in Range(Counts[line.event])
  BY <1>1, <1>2 DEF Counting
<1>5. Counting(m) \subseteq DOMAIN file /\ Counting(m)' \subseteq DOMAIN file'
  BY DEF Counting
<1> DEFINE n == Len(file) + 1
           counts == line.event \in AllEvents /\ m \in Range(Counts[line.event])
<1> HIDE DEF n, counts
<1>6. /\ n \notin Counting(m)
      /\ counts => Counting(m)' = Counting(m) \cup {n}
      /\ ~counts => Counting(m)' = Counting(m)
  BY <1>2, <1>3, <1>4, <1>5 DEF n, counts
<1>7. QED
  BY <1>6 DEF n, counts

\* Neither the todo of a thread nor a line that counts is touched.
LEMMA MetricsUntouched ==
    ASSUME LogTypeOK, CountedInv,
           \/ UNCHANGED file
           \/ \E line \in Line : line.event \notin AllEvents /\ file' = Append(file, line),
           \A p \in Threads : thread'[p].todo = thread[p].todo,
           UNCHANGED metrics
    PROVE  CountedInv'
<1>1. ASSUME NEW m \in Metrics PROVE Waiting(m)' = Waiting(m) /\ Counting(m)' = Counting(m)
  <2>1. Waiting(m)' = Waiting(m)
    BY DEF Waiting
  <2>2. CASE UNCHANGED file
    BY <2>1, <2>2 DEF Counting
  <2>3. CASE \E line \in Line : line.event \notin AllEvents /\ file' = Append(file, line)
    <3>1. file \in Seq(Line)
      BY DEF LogTypeOK
    <3>2. QED
      BY <2>1, <2>3, <3>1, CountingAppended
  <2>4. QED
    BY <2>2, <2>3
<1>2. MetricsCounted'
  BY <1>1 DEF CountedInv, MetricsCounted
<1>3. QED
  BY <1>2 DEF CountedInv

LEMMA PublishMetrics ==
    ASSUME LogInv, CountedInv, NEW p \in Threads, NEW e \in AllEvents, Publish(p, e)
    PROVE  CountedInv'
<1>1. LogTypeOK /\ UNCHANGED metrics
  BY DEF LogInv, Publish
<1>2. CASE Lost /\ UNCHANGED thread
  BY <1>1, <1>2, MetricsUntouched DEF Lost
<1>3. CASE Logged(e, "none") /\ thread' = [thread EXCEPT ![p].todo = Counts[e]]
  <2>1. PICK line \in Line : file' = Append(file, line) /\ line.event = e
    BY <1>1, <1>3, LoggedLine
  <2>2. /\ thread \in [Threads -> [pc : {"idle", "terminal", "summary", "writing", "index", "raised"},
                                   todo : Seq(Metrics), draft : Draft]]
        /\ file \in Seq(Line)
    BY <1>1 DEF LogTypeOK
  <2>3. thread'[p].todo = Counts[e] /\ \A q \in Threads \ {p} : thread'[q].todo = thread[q].todo
    BY <1>3, <2>2
  <2>4. thread[p].todo = <<>>
    BY DEF Publish, Free
  <2>5. ASSUME NEW m \in Metrics
        PROVE  metrics[m] + Cardinality(Waiting(m)') = Cardinality(Counting(m)')
    <3>1. p \notin Waiting(m)
      BY <2>4 DEF Waiting, Range
    <3>2. Waiting(m)' = IF m \in Range(Counts[e]) THEN Waiting(m) \cup {p} ELSE Waiting(m)
      <4>1. p \in Waiting(m)' <=> m \in Range(Counts[e])
        BY <2>3 DEF Waiting
      <4>2. \A q \in Threads \ {p} : q \in Waiting(m)' <=> q \in Waiting(m)
        BY <2>3 DEF Waiting
      <4>3. Waiting(m) \subseteq Threads /\ Waiting(m)' \subseteq Threads
        BY DEF Waiting
      <4>4. QED
        BY <3>1, <4>1, <4>2, <4>3
    <3>3. /\ Len(file) + 1 \notin Counting(m)
          /\ Counting(m)' = IF m \in Range(Counts[e]) THEN Counting(m) \cup {Len(file) + 1} ELSE Counting(m)
      BY <2>1, <2>2, CountingAppended
    <3>4. /\ IsFiniteSet(Waiting(m)) /\ Cardinality(Waiting(m)) \in Nat
          /\ IsFiniteSet(Counting(m)) /\ Cardinality(Counting(m)) \in Nat
      BY <1>1, SetsFinite
    <3>5. /\ metrics[m] \in Nat
          /\ metrics[m] + Cardinality(Waiting(m)) = Cardinality(Counting(m))
      BY <1>1 DEF CountedInv, MetricsCounted, LogTypeOK
    <3>6. CASE m \in Range(Counts[e])
      <4>1. /\ Cardinality(Waiting(m)') = Cardinality(Waiting(m)) + 1
            /\ Cardinality(Counting(m)') = Cardinality(Counting(m)) + 1
        BY <3>1, <3>2, <3>3, <3>4, <3>6, FS_AddElement
      <4>2. QED
        BY <3>4, <3>5, <4>1
    <3>7. CASE m \notin Range(Counts[e])
      BY <3>2, <3>3, <3>5, <3>7
    <3>8. QED
      BY <3>6, <3>7
  <2>6. MetricsCounted'
    BY <1>1, <2>5 DEF MetricsCounted
  <2>7. ASSUME NEW q \in Threads, NEW i \in DOMAIN thread'[q].todo, NEW j \in DOMAIN thread'[q].todo,
               thread'[q].todo[i] = thread'[q].todo[j]
        PROVE  i = j
    <3>1. CASE q = p
      BY <2>3, <2>7, <3>1, CountsDistinct
    <3>2. CASE q # p
      BY <2>3, <2>7, <3>2 DEF CountedInv
    <3>3. QED
      BY <3>1, <3>2
  <2>8. QED
    BY <2>6, <2>7 DEF CountedInv
<1>4. QED
  BY <1>2, <1>3 DEF Publish

\* A sequence without repetitions, less its head.
LEMMA TailDistinct ==
    ASSUME NEW S, NEW s \in Seq(S), s # <<>>, \A i, j \in DOMAIN s : s[i] = s[j] => i = j
    PROVE  /\ Tail(s) \in Seq(S) /\ (Tail(s) = <<>> <=> Len(s) = 1)
           /\ Range(s) = Range(Tail(s)) \cup {Head(s)} /\ Head(s) \notin Range(Tail(s))
           /\ \A i, j \in DOMAIN Tail(s) : Tail(s)[i] = Tail(s)[j] => i = j
<1>1. /\ Len(s) \in Nat /\ Len(s) >= 1 /\ DOMAIN s = 1 .. Len(s) /\ Head(s) = s[1]
      /\ DOMAIN Tail(s) = 1 .. Len(s) - 1
      /\ \A i \in 1 .. Len(s) - 1 : Tail(s)[i] = s[i + 1]
  OBVIOUS
<1>2. \A i \in DOMAIN Tail(s) : i + 1 \in DOMAIN s /\ i + 1 # 1 /\ Tail(s)[i] = s[i + 1]
  BY <1>1
<1>3. \A i \in DOMAIN s \ {1} : i - 1 \in DOMAIN Tail(s) /\ Tail(s)[i - 1] = s[i]
  BY <1>1
<1>4. 1 \in DOMAIN s
  BY <1>1
<1>5. Head(s) \notin Range(Tail(s))
  BY <1>1, <1>2, <1>4 DEF Range
<1>6. Range(s) = Range(Tail(s)) \cup {Head(s)}
  <2>1. ASSUME NEW i \in DOMAIN s PROVE s[i] \in Range(Tail(s)) \cup {Head(s)}
    BY <1>1, <1>3 DEF Range
  <2>2. ASSUME NEW i \in DOMAIN Tail(s) PROVE Tail(s)[i] \in Range(s)
    BY <1>2 DEF Range
  <2>3. Head(s) \in Range(s)
    BY <1>1, <1>4 DEF Range
  <2>4. QED
    BY <2>1, <2>2, <2>3 DEF Range
<1>7. ASSUME NEW i \in DOMAIN Tail(s), NEW j \in DOMAIN Tail(s), Tail(s)[i] = Tail(s)[j] PROVE i = j
  <2>1. i + 1 = j + 1
    BY <1>2, <1>7
  <2>2. i \in Int /\ j \in Int
    BY <1>1
  <2>3. QED
    BY <2>1, <2>2
<1>8. Tail(s) \in Seq(S) /\ Len(Tail(s)) = Len(s) - 1
  OBVIOUS
<1>9. Tail(s) = <<>> <=> Len(s) = 1
  <2> DEFINE t == Tail(s)
  <2>1. t \in Seq(S) /\ Len(t) = Len(s) - 1
    BY <1>8
  <2> HIDE DEF t
  <2>2. t = <<>> <=> Len(s) = 1
    BY <1>1, <2>1
  <2>3. QED
    BY <2>2 DEF t
<1>10. QED
  BY <1>5, <1>6, <1>7, <1>8, <1>9

LEMMA CountMetrics ==
    ASSUME LogInv, CountedInv, NEW p \in Threads, Count(p)
    PROVE  CountedInv'
<1>1. /\ thread \in [Threads -> [pc : {"idle", "terminal", "summary", "writing", "index", "raised"},
                                 todo : Seq(Metrics), draft : Draft]]
      /\ metrics \in [Metrics -> Nat] /\ LogTypeOK
  BY DEF LogInv, LogTypeOK
<1> DEFINE todo == thread[p].todo
           h == Head(todo)
<1>2. /\ todo \in Seq(Metrics) /\ todo # <<>> /\ h \in Metrics
      /\ \A i, j \in DOMAIN todo : todo[i] = todo[j] => i = j
  BY <1>1 DEF Count, CountedInv
<1>3. /\ Range(todo) = Range(Tail(todo)) \cup {h} /\ h \notin Range(Tail(todo))
      /\ \A i, j \in DOMAIN Tail(todo) : Tail(todo)[i] = Tail(todo)[j] => i = j
  BY <1>2, TailDistinct
<1>4. thread'[p].todo = Tail(todo) /\ \A q \in Threads \ {p} : thread'[q].todo = thread[q].todo
  BY <1>1 DEF Count
<1>5. metrics' = [metrics EXCEPT ![h] = metrics[h] + 1] /\ UNCHANGED file
  BY <1>1, <1>2 DEF Count
<1> HIDE DEF todo, h
<1>6. ASSUME NEW m \in Metrics
      PROVE  metrics'[m] + Cardinality(Waiting(m)') = Cardinality(Counting(m)')
  <2>1. Counting(m)' = Counting(m)
    BY <1>5 DEF Counting
  <2>2. /\ metrics[m] \in Nat
        /\ metrics[m] + Cardinality(Waiting(m)) = Cardinality(Counting(m))
    BY <1>1 DEF CountedInv, MetricsCounted
  <2>3. IsFiniteSet(Waiting(m)) /\ Cardinality(Waiting(m)) \in Nat
    BY <1>1, SetsFinite
  <2>4. /\ p \in Waiting(m) <=> m \in Range(todo)
        /\ p \in Waiting(m)' <=> m \in Range(Tail(todo))
        /\ \A q \in Threads \ {p} : q \in Waiting(m)' <=> q \in Waiting(m)
        /\ Waiting(m) \subseteq Threads /\ Waiting(m)' \subseteq Threads
    BY <1>4 DEF Waiting, todo
  <2>5. CASE m = h
    <3>1. p \in Waiting(m) /\ Waiting(m)' = Waiting(m) \ {p}
      BY <1>3, <2>4, <2>5
    <3>2. Cardinality(Waiting(m)') = Cardinality(Waiting(m)) - 1
      BY <2>3, <3>1, FS_RemoveElement
    <3>3. metrics'[m] = metrics[m] + 1
      BY <1>1, <1>5, <2>5
    <3>4. QED
      BY <2>1, <2>2, <2>3, <3>2, <3>3
  <2>6. CASE m # h
    <3>1. Waiting(m)' = Waiting(m)
      BY <1>3, <2>4, <2>6
    <3>2. metrics'[m] = metrics[m]
      BY <1>1, <1>5, <2>6
    <3>3. QED
      BY <2>1, <2>2, <3>1, <3>2
  <2>7. QED
    BY <2>5, <2>6
<1>7. MetricsCounted'
  BY <1>6 DEF MetricsCounted
<1>8. \A q \in Threads : \A i, j \in DOMAIN thread'[q].todo : thread'[q].todo[i] = thread'[q].todo[j] => i = j
  BY <1>3, <1>4 DEF CountedInv
<1>9. QED
  BY <1>7, <1>8 DEF CountedInv

LEMMA FinishMetrics ==
    ASSUME LogInv, CountedInv, NEW p \in Threads,
           (\E status \in Statuses : Finish(p, status)) \/ FinishStep(p) \/ Raised(p)
    PROVE  CountedInv'
<1>1. /\ thread \in [Threads -> [pc : {"idle", "terminal", "summary", "writing", "index", "raised"},
                                 todo : Seq(Metrics), draft : Draft]]
      /\ LogTypeOK /\ FinishInv
  BY DEF LogInv, LogTypeOK
<1>2. UNCHANGED metrics
  BY DEF Finish, FinishStep, EmitFinished, OpenSummary, WriteSummary, EnterIndex, Raised
<1>3. \A q \in Threads : thread'[q].todo = thread[q].todo
  <2>1. CASE \E status \in Statuses : Finish(p, status)
    <3>1. PICK status \in Statuses : Finish(p, status)
      BY <2>1
    <3>2. CASE finished
      BY <3>1, <3>2 DEF Finish
    <3>3. CASE ~finished
      BY <1>1, <3>1, <3>3 DEF Finish
    <3>4. QED
      BY <3>2, <3>3
  <2>2. CASE FinishStep(p) \/ Raised(p)
    <3>1. PICK next \in {"idle", "summary", "writing", "index", "raised"} : Goes(p, next)
      BY <2>2 DEF FinishStep, EmitFinished, OpenSummary, WriteSummary, EnterIndex, Raised, Raises
    <3>2. QED
      BY <1>1, <3>1 DEF Goes
  <2>3. QED
    BY <2>1, <2>2
<1>4. UNCHANGED file \/ \E line \in Line : line.event \notin AllEvents /\ file' = Append(file, line)
  <2>1. CASE EmitFinished(p) /\ Logged("run_finished", thread[p].draft.status)
    <3>1. thread[p].draft.status \in Statuses
      BY <1>1, <2>1 DEF EmitFinished, FinishInv
    <3>2. PICK line \in Line : file' = Append(file, line) /\ line.event = "run_finished"
      BY <1>1, <2>1, <3>1, LoggedLine
    <3>3. QED
      BY <3>2, EventNames
  <2>2. CASE UNCHANGED file
    BY <2>2
  <2>3. QED
    BY <2>1, <2>2, Zenon
       DEF Finish, FinishStep, EmitFinished, OpenSummary, WriteSummary, EnterIndex, Raised, Lost
<1>5. QED
  BY <1>1, <1>2, <1>3, <1>4, MetricsUntouched

-----------------------------------------------------------------------------
\* The metrics of the summary.

\* The lines a draft is about stay what they are when the log grows.
LEMMA DraftFollows ==
    ASSUME LogTypeOK, NEW d \in Draft, FollowsLog(d),
           UNCHANGED file \/ \E line \in Line : file' = Append(file, line)
    PROVE  FollowsLog(d)'
<1>1. CASE UNCHANGED file
  BY <1>1 DEF FollowsLog, Counting
<1>2. ASSUME NEW line \in Line, file' = Append(file, line) PROVE FollowsLog(d)'
  <2>1. file \in Seq(Line) /\ Len(file) \in Nat /\ d.at \in Nat /\ d.at <= Len(file)
    BY DEF LogTypeOK, FollowsLog, Draft
  <2>2. Len(file') = Len(file) + 1
    BY <1>2, <2>1, Appended
  <2>3. ASSUME NEW m \in Metrics
        PROVE  {i \in Counting(m)' : i <= d.at} = {i \in Counting(m) : i <= d.at}
    <3>1. Counting(m)' = Counting(m) \/ Counting(m)' = Counting(m) \cup {Len(file) + 1}
      BY <1>2, <2>1, CountingAppended
    <3>2. ~(Len(file) + 1 <= d.at)
      BY <2>1
    <3>3. QED
      BY <3>1, <3>2
  <2>4. QED
    BY <2>1, <2>2, <2>3 DEF FollowsLog
<1>3. QED
  BY <1>1, <1>2

\* What finish takes: every other thread has at most one line it has not counted.
LEMMA SnapshotFollows ==
    ASSUME LogTypeOK, CountedInv, NEW p \in Threads, Free(p), NEW status \in Statuses
    PROVE  Snapshot(status) \in Draft /\ FollowsLog(Snapshot(status))
<1>1. file \in Seq(Line) /\ Len(file) \in Nat /\ DOMAIN file = 1 .. Len(file) /\ metrics \in [Metrics -> Nat]
  BY DEF LogTypeOK
<1>2. Snapshot(status) \in Draft /\ Snapshot(status).at = Len(file) /\ Snapshot(status).metrics = metrics
  BY <1>1 DEF Snapshot, Draft
<1>3. ASSUME NEW m \in Metrics
      PROVE  /\ {i \in Counting(m) : i <= Len(file)} = Counting(m)
             /\ metrics[m] <= Cardinality(Counting(m))
             /\ Cardinality(Counting(m)) < metrics[m] + Cardinality(Threads)
  <2>1. {i \in Counting(m) : i <= Len(file)} = Counting(m)
    BY <1>1 DEF Counting
  <2>2. metrics[m] \in Nat /\ metrics[m] + Cardinality(Waiting(m)) = Cardinality(Counting(m))
    BY <1>1 DEF CountedInv, MetricsCounted
  <2>3. Waiting(m) \subseteq Threads \ {p}
    BY DEF Waiting, Free, Range
  <2>4. IsFiniteSet(Threads) /\ Cardinality(Threads) \in Nat
    BY RunLogAssumption, FS_CardinalityType
  <2>5. IsFiniteSet(Threads \ {p}) /\ Cardinality(Threads \ {p}) = Cardinality(Threads) - 1
    BY <2>4, FS_RemoveElement
  <2>6. Cardinality(Waiting(m)) <= Cardinality(Threads \ {p})
    BY <2>3, <2>5, FS_Subset
  <2>7. Cardinality(Waiting(m)) \in Nat
    BY SetsFinite
  <2>8. QED
    BY <2>1, <2>2, <2>4, <2>5, <2>6, <2>7
<1>4. PICK d \in Draft : d = Snapshot(status) /\ d.at = Len(file) /\ d.metrics = metrics
  BY <1>2
<1>5. \A m \in Metrics : {i \in Counting(m) : i <= d.at} = Counting(m)
  BY <1>3, <1>4
<1>6. FollowsLog(d)
  <2>1. d.at <= Len(file)
    BY <1>1, <1>4
  <2>2. ASSUME NEW m \in Metrics, NEW lines, lines = Cardinality({i \in Counting(m) : i <= d.at})
        PROVE  d.metrics[m] <= lines /\ lines < d.metrics[m] + Cardinality(Threads)
    <3>1. lines = Cardinality(Counting(m)) /\ d.metrics[m] = metrics[m]
      BY <1>4, <1>5, <2>2
    <3>2. QED
      BY <1>3, <3>1
  <2>3. QED
    BY <2>1, <2>2, Zenon DEF FollowsLog
<1>7. QED
  BY <1>2, <1>4, <1>6, Zenon

\* Every draft after a step was a good one before it: those in hand and the written one.
LEMMA SnapshotsFollow ==
    ASSUME LogTypeOK,
           UNCHANGED file \/ \E line \in Line : file' = Append(file, line),
           \A q \in Threads : thread'[q].pc # "idle" =>
               thread'[q].draft \in Draft /\ FollowsLog(thread'[q].draft),
           summary'.state = "written" => summary'.draft \in Draft /\ FollowsLog(summary'.draft)
    PROVE  SnapshotInv'
<1>1. ASSUME NEW q \in Threads, thread'[q].pc # "idle" PROVE FollowsLog(thread[q].draft)'
  <2>1. PICK d \in Draft : d = thread'[q].draft /\ FollowsLog(d)
    BY <1>1
  <2>2. FollowsLog(d)'
    BY <2>1, DraftFollows
  <2>3. QED
    BY <2>1, <2>2 DEF FollowsLog
<1>2. ASSUME summary'.state = "written" PROVE FollowsLog(summary.draft)'
  <2>1. PICK d \in Draft : d = summary'.draft /\ FollowsLog(d)
    BY <1>2
  <2>2. FollowsLog(d)'
    BY <2>1, DraftFollows
  <2>3. QED
    BY <2>1, <2>2 DEF FollowsLog
<1>3. QED
  BY <1>1, <1>2 DEF SnapshotInv

\* The drafts before a step.
LEMMA DraftsHeld ==
    ASSUME LogTypeOK, SnapshotInv
    PROVE  /\ \A q \in Threads : thread[q].pc # "idle" => thread[q].draft \in Draft /\ FollowsLog(thread[q].draft)
           /\ summary.state = "written" => summary.draft \in Draft /\ FollowsLog(summary.draft)
BY DEF LogTypeOK, SnapshotInv

\* Publishing and counting touch no draft.
LEMMA SnapshotsUntouched ==
    ASSUME LogTypeOK, SnapshotInv,
           UNCHANGED file \/ \E line \in Line : file' = Append(file, line),
           \A q \in Threads : thread'[q].pc = thread[q].pc /\ thread'[q].draft = thread[q].draft,
           UNCHANGED summary
    PROVE  SnapshotInv'
BY DraftsHeld, SnapshotsFollow

LEMMA PublishSnapshots ==
    ASSUME LogTypeOK, SnapshotInv, NEW p \in Threads, NEW e \in AllEvents, Publish(p, e) \/ Count(p)
    PROVE  SnapshotInv'
<1>1. \A q \in Threads : thread'[q].pc = thread[q].pc /\ thread'[q].draft = thread[q].draft
  <2>1. thread \in [Threads -> [pc : {"idle", "terminal", "summary", "writing", "index", "raised"},
                                todo : Seq(Metrics), draft : Draft]]
    BY DEF LogTypeOK
  <2>2. UNCHANGED thread \/ \E todo : thread' = [thread EXCEPT ![p].todo = todo]
    BY <2>1 DEF Publish, Count
  <2>3. QED
    BY <2>1, <2>2
<1>2. UNCHANGED file \/ \E line \in Line : file' = Append(file, line)
  <2>1. CASE Logged(e, "none")
    BY <2>1, LoggedLine
  <2>2. CASE UNCHANGED file
    BY <2>2
  <2>3. QED
    BY <2>1, <2>2, Zenon DEF Publish, Count, Lost
<1>3. UNCHANGED summary
  BY DEF Publish, Count
<1>4. QED
  BY <1>1, <1>2, <1>3, SnapshotsUntouched

LEMMA FinishSnapshots ==
    ASSUME LogTypeOK, CountedInv, SnapshotInv, NEW p \in Threads, NEW status \in Statuses, Finish(p, status)
    PROVE  SnapshotInv'
<1>1. Free(p) /\ UNCHANGED <<file, summary>>
  BY DEF Finish
<1>2. CASE finished
  <2>1. thread' = thread
    BY <1>2 DEF Finish
  <2>2. QED
    BY <1>1, <2>1, SnapshotsUntouched
<1>3. CASE ~finished
  <2>1. thread'[p].draft = Snapshot(status) /\ \A q \in Threads \ {p} : thread'[q] = thread[q]
    BY <1>3 DEF LogTypeOK, Finish
  <2>2. Snapshot(status) \in Draft /\ FollowsLog(Snapshot(status))
    BY <1>1, SnapshotFollows
  <2>3. \A q \in Threads : thread'[q].pc # "idle" =>
            thread'[q].draft \in Draft /\ FollowsLog(thread'[q].draft)
    BY <2>1, <2>2, DraftsHeld
  <2>4. QED
    BY <1>1, <2>3, DraftsHeld, SnapshotsFollow
<1>4. QED
  BY <1>2, <1>3

LEMMA FinishStepSnapshots ==
    ASSUME LogTypeOK, FinishInv, SnapshotInv, NEW p \in Threads, FinishStep(p) \/ Raised(p)
    PROVE  SnapshotInv'
<1>1. thread[p].pc # "idle"
  BY DEF FinishStep, EmitFinished, OpenSummary, WriteSummary, EnterIndex, Raised
<1>2. PICK next \in {"idle", "summary", "writing", "index", "raised"} : Goes(p, next)
  BY DEF FinishStep, EmitFinished, OpenSummary, WriteSummary, EnterIndex, Raised, Raises
<1>3. /\ thread'[p].draft = thread[p].draft
      /\ \A q \in Threads \ {p} : thread'[q] = thread[q]
  BY <1>1, <1>2, FinishAlone
<1>4. \A q \in Threads : thread'[q].pc # "idle" =>
          thread'[q].draft \in Draft /\ FollowsLog(thread'[q].draft)
  BY <1>1, <1>3, DraftsHeld
<1>5. \/ summary' = summary
      \/ summary'.state = "torn"
      \/ summary' = [state |-> "written", draft |-> thread[p].draft]
  BY DEF LogTypeOK, FinishStep, EmitFinished, OpenSummary, WriteSummary, EnterIndex, Raised
<1>6. summary'.state = "written" => summary'.draft \in Draft /\ FollowsLog(summary'.draft)
  <2>1. CASE summary' = summary
    BY <2>1, DraftsHeld
  <2>2. CASE summary'.state = "torn"
    BY <2>2
  <2>3. CASE summary' = [state |-> "written", draft |-> thread[p].draft]
    <3>1. summary'.draft = thread[p].draft
      BY <2>3
    <3>2. QED
      BY <1>1, <3>1, DraftsHeld
  <2>4. QED
    BY <1>5, <2>1, <2>2, <2>3
<1>7. UNCHANGED file \/ \E line \in Line : file' = Append(file, line)
  <2>1. CASE EmitFinished(p)
    <3>1. thread[p].draft.status \in Statuses
      BY <1>1 DEF FinishInv
    <3>2. QED
      BY <2>1, <3>1, LoggedLine DEF EmitFinished, Lost
  <2>2. CASE UNCHANGED file
    BY <2>2
  <2>3. QED
    BY <2>1, <2>2, Zenon DEF FinishStep, OpenSummary, WriteSummary, EnterIndex, Raised
<1>8. QED
  BY <1>4, <1>6, <1>7, SnapshotsFollow

-----------------------------------------------------------------------------
\* The log by itself.

LEMMA LogStepOK ==
    ASSUME LogInv, MetricsInv, NEW p \in Threads, LogStep(p)
    PROVE  LogInv' /\ MetricsInv'
<1>0. LogTypeOK /\ FinishInv /\ CountedInv /\ SnapshotInv
  BY DEF LogInv, MetricsInv
<1>1. CASE \E e \in Events : Publish(p, e)
  <2>1. PICK e \in Events : Publish(p, e)
    BY <1>1
  <2>2. e \in AllEvents
    BY RunLogAssumption
  <2>3. QED
    BY <1>0, <2>1, <2>2, PublishOK, PublishMetrics, PublishSnapshots DEF MetricsInv
<1>2. CASE Count(p)
  BY <1>0, <1>2, EventNames, CountOK, CountMetrics, PublishSnapshots DEF MetricsInv
<1>3. CASE \E status \in Statuses : Finish(p, status)
  BY <1>0, <1>3, FinishOK, FinishMetrics, FinishSnapshots DEF MetricsInv
<1>4. CASE FinishStep(p) \/ Raised(p)
  BY <1>0, <1>4, FinishStepOK, FinishMetrics, FinishStepSnapshots DEF MetricsInv
<1>5. QED
  BY <1>1, <1>2, <1>3, <1>4 DEF LogStep

LEMMA LogStutters ==
    ASSUME LogInv, MetricsInv, UNCHANGED logVars
    PROVE  LogInv' /\ MetricsInv'
<1>1. UNCHANGED <<seq, file, metrics, finished, thread, summary, index>>
  BY DEF logVars
<1>2. LogTypeOK' /\ SequenceInv'
  BY <1>1, SameSequenced DEF LogInv, LogTypeOK
<1>3. FinishInv'
  BY <1>1, FinishUntouched DEF LogInv
<1>4. MetricsInv'
  BY <1>1, MetricsUntouched, SnapshotsUntouched DEF LogInv, MetricsInv
<1>5. QED
  BY <1>2, <1>3, <1>4 DEF LogInv

\* The log of a run keeps its order, its one end and its metrics for any number of
\* threads, also when writes fail (EventLogger).
THEOREM LogCorrect == LogSpec => [](LogInv /\ MetricsInv)
<1>1. LogInit => LogInv /\ MetricsInv
  BY LogBegins
<1>2. LogInv /\ MetricsInv /\ [LogNext]_logVars => (LogInv /\ MetricsInv)'
  BY LogStepOK, LogStutters DEF LogNext
<1>3. QED
  BY <1>1, <1>2, PTL DEF LogSpec

-----------------------------------------------------------------------------
\* The emitter.

LEMMA AppendDistinct ==
    ASSUME NEW S, NEW s \in Seq(S), NEW x \in S
    PROVE  /\ Append(s, x) \in Seq(S) /\ Len(Append(s, x)) = Len(s) + 1
           /\ Range(Append(s, x)) = Range(s) \cup {x}
           /\ x \notin Range(s) /\ (\A i, j \in DOMAIN s : s[i] = s[j] => i = j)
                  => \A i, j \in DOMAIN Append(s, x) : Append(s, x)[i] = Append(s, x)[j] => i = j
<1> DEFINE t == Append(s, x)
           n == Len(s) + 1
<1>1. /\ t \in Seq(S) /\ Len(t) = n /\ DOMAIN t = DOMAIN s \cup {n} /\ n \notin DOMAIN s
      /\ t[n] = x /\ \A i \in DOMAIN s : t[i] = s[i]
  OBVIOUS
<1> HIDE DEF t, n
<1>2. Range(t) = Range(s) \cup {x}
  BY <1>1 DEF Range
<1>3. ASSUME x \notin Range(s), \A i, j \in DOMAIN s : s[i] = s[j] => i = j
      PROVE  \A i, j \in DOMAIN t : t[i] = t[j] => i = j
  BY <1>1, <1>3 DEF Range
<1>4. QED
  BY <1>1, <1>2, <1>3 DEF t, n

LEMMA TakenRange == \A k, event : Taken(k, event) # {} <=> event \in Range(received[k])
BY DEF Taken, Range

\* EmissionInv, with what a sink took as a set.
LEMMA EmissionParts ==
    EmissionInv <=>
    /\ \A p \in Threads : Handing(p) =>
           /\ emission[p].event.life = life /\ Given(emission[p].event)
           /\ \A i, j \in DOMAIN emission[p].sinks : emission[p].sinks[i] = emission[p].sinks[j] => i = j
           /\ \A k \in Range(emission[p].sinks) : emission[p].event \notin Range(received[k])
    /\ \A p, q \in Threads : Handing(p) /\ Handing(q) /\ emission[p].event = emission[q].event => p = q
    /\ \A k \in Range(Sinks) \cup {"bus"} : \A x \in Range(received[k]) : x.life <= life /\ Given(x)
    /\ \A k \in Range(Sinks) \cup {"bus"} : \A i, j \in DOMAIN received[k] :
           received[k][i] = received[k][j] => i = j
    /\ \A k \in Range(Sinks), s \in SessionIds : \A n \in 1 .. counters[s] :
           Known(k, [session |-> s, seq |-> n, life |-> life])
BY TakenRange DEF EmissionInv, Range

\* The numbers given so far, the threads and what the sinks took tell every event.
LEMMA EventsFollow == PlaneInv => EventsAccounted
<1> SUFFICES ASSUME PlaneInv PROVE EventsAccounted
  OBVIOUS
<1>1. EmissionInv /\ PlaneTypeOK /\ Cardinality(Lines("control")) = Len(received["bus"])
  BY DEF PlaneInv
<1>2. ASSUME NEW k \in Range(Sinks), NEW s \in SessionIds, NEW n \in 1 .. MaxEvents
      PROVE  LET event == [session |-> s, seq |-> n, life |-> life]
                 copies == Cardinality(Taken(k, event)) + Cardinality(Pending(k, event))
             IN  IF n <= counters[s] THEN copies = 1 \/ (copies = 0 /\ event \in dropped) ELSE copies = 0
  <2> DEFINE event == [session |-> s, seq |-> n, life |-> life]
             T == Taken(k, event)
             P == Pending(k, event)
  <2>1. n \in Nat /\ n >= 1 /\ counters[s] \in Nat
    BY <1>1, ControlPlaneAssumption DEF PlaneTypeOK
  <2>2. event.session = s /\ event.seq = n /\ event.life = life
    OBVIOUS
  <2>3. Given(event) <=> n <= counters[s]
    BY <2>1, <2>2 DEF Given
  <2> HIDE DEF event
  <2>4. \A i, j \in T : i = j
    BY <1>1 DEF Taken, EmissionInv
  <2>5. \A p, q \in P : p = q
    BY <1>1 DEF Pending, EmissionInv
  <2>6. T # {} => P = {}
    BY <1>1, TakenRange DEF Pending, EmissionInv
  <2>7. T # {} \/ P # {} => n <= counters[s]
    <3>1. CASE T # {}
      BY <1>1, <2>3, <3>1 DEF Taken, EmissionInv
    <3>2. CASE P # {}
      BY <1>1, <2>3, <3>2 DEF Pending, EmissionInv
    <3>3. QED
      BY <3>1, <3>2
  <2>8. n <= counters[s] => T # {} \/ P # {} \/ event \in dropped
    <3> SUFFICES ASSUME n <= counters[s] PROVE T # {} \/ P # {} \/ event \in dropped
      OBVIOUS
    <3>1. n \in 1 .. counters[s]
      BY <2>1
    <3>2. QED
      BY <1>1, <3>1, Zenon DEF EmissionInv, Known, event
  <2> DEFINE t == Cardinality(T)
             c == Cardinality(P)
  <2>9. (T = {} => t = 0) /\ (T # {} => t = 1)
    <3>1. T # {} => \E i : T = {i}
      BY <2>4
    <3>2. QED
      BY <3>1, FS_EmptySet, FS_Singleton
  <2>10. (P = {} => c = 0) /\ (P # {} => c = 1)
    <3>1. P # {} => \E p : P = {p}
      BY <2>5
    <3>2. QED
      BY <3>1, FS_EmptySet, FS_Singleton
  <2> HIDE DEF T, P, t, c
  <2>11. IF n <= counters[s] THEN t + c = 1 \/ (t + c = 0 /\ event \in dropped) ELSE t + c = 0
    BY <2>6, <2>7, <2>8, <2>9, <2>10
  <2>12. QED
    BY <2>11 DEF T, P, t, c, event
<1>3. ASSUME NEW k \in Range(Sinks), NEW i \in DOMAIN received[k], NEW j \in DOMAIN received[k],
             i # j, received[k][i].session = received[k][j].session,
             received[k][i].seq = received[k][j].seq, received[k][i].life = received[k][j].life
      PROVE  FALSE
  <2>1. received[k] \in Seq(Event)
    BY <1>1 DEF PlaneTypeOK
  <2>2. received[k][i] \in Event /\ received[k][j] \in Event
    BY <2>1
  <2>3. received[k][i] = received[k][j]
    BY <1>3, <2>2 DEF Event
  <2>4. QED
    BY <1>1, <1>3, <2>3 DEF EmissionInv
<1>4. QED
  BY <1>1, <1>2, <1>3 DEF EventsAccounted

\* Nothing of the emitter moves.
LEMMA PlaneStutters ==
    ASSUME PlaneTypeOK, EmissionInv, UNCHANGED planeVars
    PROVE  PlaneTypeOK' /\ EmissionInv'
<1>1. UNCHANGED <<counters, emission, received, dropped, life>>
  BY DEF planeVars
<1>2. PlaneTypeOK'
  BY <1>1 DEF PlaneTypeOK
<1>3. EmissionInv'
  BY <1>1 DEF EmissionInv, Handing, Given, Known, Taken, Pending
<1>4. QED
  BY <1>2, <1>3

\* The lines of the emitter's events.
LEMMA OtherLines ==
    ASSUME LogTypeOK, NEW line \in Line, file' = Append(file, line)
    PROVE  Cardinality(Lines("control")') = IF line.event = "control" THEN Cardinality(Lines("control")) + 1
                                          ELSE Cardinality(Lines("control"))
<1>1. file \in Seq(Line)
  BY DEF LogTypeOK
<1>2. IsFiniteSet(Lines("control"))
  <2>1. IsFiniteSet(1 .. Len(file)) /\ DOMAIN file = 1 .. Len(file)
    BY <1>1, FS_Interval
  <2>2. Lines("control") \in SUBSET (1 .. Len(file))
    BY <2>1 DEF Lines
  <2>3. QED
    BY <2>1, <2>2, FS_Subset
<1>3. CASE line.event = "control"
  <2>1. Lines("control")' = Lines("control") \cup {Len(file) + 1} /\ Len(file) + 1 \notin Lines("control")
    BY <1>1, <1>3, LinesAppended
  <2>2. QED
    BY <1>2, <1>3, <2>1, FS_AddElement
<1>4. CASE line.event # "control"
  BY <1>1, <1>4, LinesAppended
<1>5. QED
  BY <1>3, <1>4

\* Nobody but the emitter writes such a line.
LEMMA LogStepOthers ==
    ASSUME LogInv, NEW p \in Threads, LogStep(p)
    PROVE  Cardinality(Lines("control")') = Cardinality(Lines("control"))
<1>1. LogTypeOK /\ FinishInv
  BY DEF LogInv
<1>2. UNCHANGED file \/ \E line \in Line : line.event # "control" /\ file' = Append(file, line)
  <2>1. CASE \E e \in Events : Publish(p, e)
    <3>1. PICK e \in Events : Publish(p, e)
      BY <2>1
    <3>2. e \in AllEvents /\ e # "control"
      BY RunLogAssumption
    <3>3. CASE Logged(e, "none")
      <4>1. PICK line \in Line : file' = Append(file, line) /\ line.event = e
        BY <1>1, <3>2, <3>3, LoggedLine
      <4>2. QED
        BY <3>2, <4>1
    <3>4. CASE Lost
      BY <3>4 DEF Lost
    <3>5. QED
      BY <3>1, <3>3, <3>4 DEF Publish
  <2>2. CASE EmitFinished(p)
    <3>1. thread[p].draft.status \in Statuses
      BY <1>1, <2>2 DEF EmitFinished, FinishInv
    <3>2. CASE Logged("run_finished", thread[p].draft.status)
      <4>1. PICK line \in Line : file' = Append(file, line) /\ line.event = "run_finished"
        BY <1>1, <3>1, <3>2, LoggedLine
      <4>2. QED
        BY <4>1
    <3>3. QED
      BY <2>2, <3>2 DEF EmitFinished, Lost
  <2>3. CASE Count(p) \/ (\E status \in Statuses : Finish(p, status)) \/ Raised(p)
    BY <2>3 DEF Count, Finish, Raised
  <2>4. CASE OpenSummary(p) \/ WriteSummary(p) \/ EnterIndex(p)
    BY <2>4 DEF OpenSummary, WriteSummary, EnterIndex
  <2>5. QED
    BY <2>1, <2>2, <2>3, <2>4 DEF LogStep, FinishStep
<1>3. CASE UNCHANGED file
  BY <1>3 DEF Lines
<1>4. CASE \E line \in Line : line.event # "control" /\ file' = Append(file, line)
  BY <1>1, <1>4, OtherLines
<1>5. QED
  BY <1>2, <1>3, <1>4

\* emit: the number is new to every thread and every sink.
LEMMA EmitNumbers ==
    ASSUME PlaneTypeOK, EmissionInv, NEW p \in Threads, NEW s \in SessionIds, NEW declared \in BOOLEAN,
           Emit(p, s, declared)
    PROVE  PlaneTypeOK' /\ EmissionInv'
<1>1. UNCHANGED <<received, dropped, life>> /\ ~Handing(p)
  BY DEF Emit, CanEmit
<1>2. CASE ~declared
  BY <1>1, <1>2, PlaneStutters DEF Emit, planeVars
<1>3. CASE declared
  <2>0. PICK x : x = [session |-> s, seq |-> counters[s] + 1, life |-> life]
    OBVIOUS
  <2>1. /\ counters' = [counters EXCEPT ![s] = counters[s] + 1]
        /\ emission' = [emission EXCEPT ![p] = [event |-> x, sinks |-> Sinks]]
    BY <1>3, <2>0 DEF Emit, Counted, HandOut, NextSeq
  <2>2. /\ counters \in [SessionIds -> Nat] /\ life \in Nat
        /\ emission \in [Threads -> [event : Event, sinks : Seq(Range(Sinks))] \cup {NoEmission}]
    BY DEF PlaneTypeOK
  <2>3. x \in Event /\ Sinks \in Seq(Range(Sinks)) /\ Sinks # <<>>
    <3>1. Sinks \in Seq(Range(Sinks)) /\ Sinks # <<>>
      BY ControlPlaneAssumption DEF Range
    <3>2. QED
      BY <2>0, <2>2, <3>1 DEF Event
  <2>4. PlaneTypeOK'
    <3>1. counters' \in [SessionIds -> Nat]
      BY <2>1, <2>2
    <3>2. [event |-> x, sinks |-> Sinks] \in [event : Event, sinks : Seq(Range(Sinks))]
      BY <2>3
    <3>3. emission' \in [Threads -> [event : Event, sinks : Seq(Range(Sinks))] \cup {NoEmission}]
      BY <2>1, <2>2, <3>2
    <3>4. QED
      BY <1>1, <3>1, <3>3 DEF PlaneTypeOK
  <2>5. /\ emission'[p].event = x /\ emission'[p].sinks = Sinks
        /\ \A q \in Threads \ {p} : emission'[q] = emission[q]
    BY <2>1, <2>2
  <2>6. x.session = s /\ x.seq = counters[s] + 1 /\ x.life = life
    BY <2>0
  <2>7. \A event \in Event : Given(event) => Given(event)'
    <3> SUFFICES ASSUME NEW event \in Event, Given(event) PROVE Given(event)'
      OBVIOUS
    <3>1. event.session \in SessionIds /\ counters'[event.session] >= counters[event.session]
      BY <2>1, <2>2 DEF Event
    <3>2. counters[event.session] \in Nat /\ counters'[event.session] \in Nat
      BY <2>1, <2>2, <3>1
    <3>3. QED
      BY <1>1, <3>1, <3>2 DEF Given
  <2>8. Given(x)' /\ ~Given(x)
    <3>1. counters[s] \in Nat /\ counters'[s] = counters[s] + 1
      BY <2>1, <2>2
    <3>2. counters[s] + 1 \in 1 .. counters'[s] /\ counters[s] + 1 \notin 1 .. counters[s]
      BY <3>1
    <3>3. QED
      BY <1>1, <2>6, <3>2 DEF Given
  <2>9. /\ \A q \in Threads \ {p} : Handing(q)' <=> Handing(q)
        /\ Handing(p)'
    BY <2>3, <2>5 DEF Handing
  <2>10. \A q \in Threads : Handing(q) => emission[q].event \in Event /\ emission[q].event # x
    <3> SUFFICES ASSUME NEW q \in Threads, Handing(q)
                 PROVE  emission[q].event \in Event /\ emission[q].event # x
      OBVIOUS
    <3>1. emission[q] # NoEmission
      BY DEF Handing, NoEmission
    <3>2. emission[q].event \in Event
      BY <2>2, <3>1
    <3>3. Given(emission[q].event)
      BY DEF EmissionInv
    <3>4. QED
      BY <2>8, <3>2, <3>3
  <2>11. \A k \in Range(Sinks) \cup {"bus"} : x \notin Range(received[k]) /\ Range(received[k]) \subseteq Event
    <3> SUFFICES ASSUME NEW k \in Range(Sinks) \cup {"bus"}
                 PROVE  x \notin Range(received[k]) /\ Range(received[k]) \subseteq Event
      OBVIOUS
    <3>1. \A i \in DOMAIN received[k] : Given(received[k][i])
      BY DEF EmissionInv
    <3>2. received[k] \in Seq(Event)
      BY DEF PlaneTypeOK
    <3>3. QED
      BY <2>8, <3>1, <3>2 DEF Range
  <2>12. ASSUME NEW q \in Threads, Handing(q)'
         PROVE  /\ emission'[q].event.life = life' /\ Given(emission[q].event)'
                /\ \A i, j \in DOMAIN emission'[q].sinks : emission'[q].sinks[i] = emission'[q].sinks[j] => i = j
                /\ \A k \in Range(emission'[q].sinks) : emission'[q].event \notin Range(received'[k])
    <3>1. CASE q = p
      <4>1. emission'[q].event = x /\ emission'[q].sinks = Sinks
        BY <2>5, <3>1
      <4>2. Given(emission[q].event)'
        BY <2>8, <4>1 DEF Given
      <4>3. \A k \in Range(Sinks) : x \notin Range(received'[k])
        BY <1>1, <2>11
      <4>4. QED
        BY <1>1, <2>6, <4>1, <4>2, <4>3, ControlPlaneAssumption
    <3>2. CASE q # p
      <4>1. emission'[q] = emission[q] /\ Handing(q)
        BY <2>5, <2>9, <2>12, <3>2
      <4>2. /\ emission[q].event.life = life /\ Given(emission[q].event)
            /\ \A i, j \in DOMAIN emission[q].sinks : emission[q].sinks[i] = emission[q].sinks[j] => i = j
            /\ \A k \in Range(emission[q].sinks) : emission[q].event \notin Range(received[k])
        BY <4>1 DEF EmissionInv
      <4>3. PICK y \in Event : y = emission[q].event
        BY <2>10, <4>1
      <4>4. Given(y)'
        BY <2>7, <4>2, <4>3
      <4>5. Given(emission[q].event)'
        BY <4>1, <4>3, <4>4 DEF Given
      <4>6. QED
        BY <1>1, <4>1, <4>2, <4>5
    <3>3. QED
      BY <3>1, <3>2
  <2>13. ASSUME NEW q \in Threads, NEW r \in Threads, Handing(q)', Handing(r)',
                emission'[q].event = emission'[r].event
         PROVE  q = r
    BY <2>5, <2>9, <2>10, <2>13 DEF EmissionInv
  <2>14. \A k \in Range(Sinks) \cup {"bus"} :
             /\ \A y \in Range(received'[k]) : y.life <= life' /\ Given(y)'
             /\ \A i, j \in DOMAIN received'[k] : received'[k][i] = received'[k][j] => i = j
    BY <1>1, <2>7, <2>11, EmissionParts
  <2>15. ASSUME NEW k \in Range(Sinks), NEW u \in SessionIds, NEW n \in 1 .. counters'[u], NEW event,
                event = [session |-> u, seq |-> n, life |-> life]
         PROVE  Known(k, event)'
    <3>1. CASE n \in 1 .. counters[u]
      <4>1. Known(k, event)
        BY <2>15, <3>1 DEF EmissionInv
      <4>2. ASSUME NEW q \in Pending(k, event) PROVE q \in Pending(k, event)'
        <5>1. q \in Threads /\ q # p /\ Handing(q) /\ emission[q].event = event /\ k \in Range(emission[q].sinks)
          BY <1>1, <4>2 DEF Pending
        <5>2. Handing(q)' /\ emission'[q] = emission[q]
          BY <2>5, <2>9, <5>1
        <5>3. QED
          BY <5>1, <5>2 DEF Pending
      <4>3. QED
        BY <1>1, <4>1, <4>2, TakenRange DEF Known, Taken
    <3>2. CASE n \notin 1 .. counters[u]
      <4>1. u = s /\ n = counters[s] + 1
        BY <2>1, <2>2, <2>15, <3>2
      <4>2. event = x
        BY <2>0, <2>15, <4>1
      <4>3. emission'[p].event = event /\ k \in Range(emission'[p].sinks)
        BY <2>5, <4>2
      <4>4. p \in Pending(k, event)'
        BY <2>9, <4>3 DEF Pending
      <4>5. QED
        BY <4>4 DEF Known
    <3>3. QED
      BY <3>1, <3>2
  <2>16. EmissionInv'
    <3>1. \A k \in Range(Sinks), u \in SessionIds : \A n \in 1 .. counters'[u] :
              Known(k, [session |-> u, seq |-> n, life |-> life])'
      BY <1>1, <2>15
    <3>2. \A k \in Range(Sinks) \cup {"bus"} : \A i, j \in DOMAIN received'[k] :
              /\ received'[k][i].life <= life' /\ Given(received[k][i])'
              /\ received'[k][i] = received'[k][j] => i = j
      BY <2>14 DEF Range
    <3>3. QED
      BY <2>12, <2>13, <3>1, <3>2 DEF EmissionInv
  <2>17. QED
    BY <2>4, <2>16
<1>4. QED
  BY <1>2, <1>3

\* A thread that gives its event to the next sink, or gives up: the sink took it, or it is
\* dropped.
LEMMA Delivered ==
    ASSUME PlaneTypeOK, EmissionInv, NEW p \in Threads, Handing(p),
           NEW e, e = emission[p].event,
           NEW sink, sink = Head(emission[p].sinks),
           NEW em, emission' = [emission EXCEPT ![p] = em], em = Rest(emission[p]) \/ em = NoEmission,
           \/ received' = [received EXCEPT ![sink] = Append(@, e)] /\ em = Rest(emission[p])
           \/ UNCHANGED received /\ e \in dropped',
           dropped \subseteq dropped',
           UNCHANGED <<counters, life>>
    PROVE  PlaneTypeOK' /\ EmissionInv'
<1> DEFINE sinks == emission[p].sinks
           tail == Tail(sinks)
           Old(k) == Range(received[k])
           New(k) == Range(received'[k])
<1>1. emission[p] \in [event : Event, sinks : Seq(Range(Sinks))] /\ sinks # <<>>
  BY DEF PlaneTypeOK, Handing, NoEmission
<1>2. e \in Event /\ sinks \in Seq(Range(Sinks)) /\ sink \in Range(Sinks)
  BY <1>1
<1>3. /\ e.life = life /\ Given(e)
      /\ \A i, j \in DOMAIN sinks : sinks[i] = sinks[j] => i = j
      /\ \A k \in Range(sinks) : e \notin Old(k)
  BY DEF EmissionInv
<1>4. /\ tail \in Seq(Range(Sinks)) /\ (tail = <<>> <=> Len(sinks) = 1)
      /\ Range(sinks) = Range(tail) \cup {sink} /\ sink \notin Range(tail)
      /\ \A i, j \in DOMAIN tail : tail[i] = tail[j] => i = j
  BY <1>1, <1>2, <1>3, TailDistinct
<1>5. /\ em = NoEmission \/ (em = [event |-> e, sinks |-> tail] /\ em = Rest(emission[p]))
      /\ em = Rest(emission[p]) /\ em = NoEmission => tail = <<>>
  <2>1. Rest(emission[p]) = IF Len(sinks) = 1 THEN NoEmission ELSE [event |-> e, sinks |-> tail]
    BY DEF Rest
  <2> HIDE DEF sinks, tail
  <2>2. [event |-> e, sinks |-> tail] = NoEmission => tail = <<>>
    BY DEF NoEmission
  <2>3. CASE Len(sinks) = 1
    BY <1>4, <2>1, <2>3
  <2>4. CASE Len(sinks) # 1
    BY <1>4, <2>1, <2>2, <2>4
  <2>5. QED
    BY <2>3, <2>4
<1> HIDE DEF tail
<1>6. /\ emission'[p] = em /\ \A q \in Threads \ {p} : emission'[q] = emission[q]
      /\ emission' \in [Threads -> [event : Event, sinks : Seq(Range(Sinks))] \cup {NoEmission}]
  <2>1. em \in [event : Event, sinks : Seq(Range(Sinks))] \cup {NoEmission}
    BY <1>2, <1>4, <1>5
  <2>2. emission \in [Threads -> [event : Event, sinks : Seq(Range(Sinks))] \cup {NoEmission}]
    BY DEF PlaneTypeOK
  <2>3. QED
    BY <2>1, <2>2
<1>7. /\ received' \in [Range(Sinks) \cup {"bus"} -> Seq(Event)]
      /\ \A k \in Range(Sinks) \cup {"bus"} :
             /\ Old(k) \subseteq New(k) /\ New(k) \subseteq Old(k) \cup {e}
             /\ e \in New(k) => k = sink \/ e \in Old(k)
             /\ \A i, j \in DOMAIN received'[k] : received'[k][i] = received'[k][j] => i = j
      /\ (em = Rest(emission[p]) /\ e \in New(sink)) \/ e \in dropped'
  <2>1. received \in [Range(Sinks) \cup {"bus"} -> Seq(Event)]
    BY DEF PlaneTypeOK
  <2>2. \A k \in Range(Sinks) \cup {"bus"} : \A i, j \in DOMAIN received[k] :
            received[k][i] = received[k][j] => i = j
    BY DEF EmissionInv
  <2>3. CASE UNCHANGED received /\ e \in dropped'
    BY <2>1, <2>2, <2>3
  <2>4. CASE received' = [received EXCEPT ![sink] = Append(@, e)] /\ em = Rest(emission[p])
    <3>1. received'[sink] = Append(received[sink], e)
      BY <1>2, <2>1, <2>4
    <3>2. \A k \in Range(Sinks) \cup {"bus"} : k # sink => received'[k] = received[k]
      BY <2>1, <2>4
    <3>3. received[sink] \in Seq(Event) /\ e \notin Range(received[sink])
      BY <1>2, <1>3, <1>4, <2>1
    <3>4. /\ Append(received[sink], e) \in Seq(Event)
          /\ Range(received'[sink]) = Range(received[sink]) \cup {e}
          /\ \A i, j \in DOMAIN received'[sink] : received'[sink][i] = received'[sink][j] => i = j
      <4> DEFINE r == received[sink]
      <4>1. /\ r \in Seq(Event) /\ e \in Event /\ e \notin Range(r)
            /\ \A i, j \in DOMAIN r : r[i] = r[j] => i = j
        BY <1>2, <2>2, <3>3
      <4> HIDE DEF r
      <4>2. /\ Append(r, e) \in Seq(Event) /\ Range(Append(r, e)) = Range(r) \cup {e}
            /\ \A i, j \in DOMAIN Append(r, e) : Append(r, e)[i] = Append(r, e)[j] => i = j
        BY <4>1, AppendDistinct
      <4>3. PICK a : a = Append(r, e)
        OBVIOUS
      <4>4. received'[sink] = a
        BY <3>1, <4>3 DEF r
      <4>5. /\ a \in Seq(Event) /\ Range(a) = Range(r) \cup {e}
            /\ \A i, j \in DOMAIN a : a[i] = a[j] => i = j
        BY <4>2, <4>3, Zenon
      <4>6. a = Append(received[sink], e)
        BY <4>3 DEF r
      <4>7. QED
        BY <4>4, <4>5, <4>6, Zenon DEF r
    <3>5. received' \in [Range(Sinks) \cup {"bus"} -> Seq(Event)]
      BY <1>2, <2>1, <2>4, <3>4
    <3>6. QED
      BY <2>2, <2>4, <3>2, <3>4, <3>5
  <2>5. QED
    BY <2>3, <2>4
<1>8. PlaneTypeOK'
  BY <1>6, <1>7 DEF PlaneTypeOK
<1>9. \A event : Given(event)' <=> Given(event)
  BY DEF Given
<1>10. \A q \in Threads : Handing(q)' => Handing(q) /\ emission'[q].event = emission[q].event
  BY <1>5, <1>6 DEF Handing, NoEmission
<1> HIDE DEF Old, New
<1>11. ASSUME NEW q \in Threads, Handing(q)'
       PROVE  /\ emission'[q].event.life = life' /\ Given(emission[q].event)'
              /\ \A i, j \in DOMAIN emission'[q].sinks : emission'[q].sinks[i] = emission'[q].sinks[j] => i = j
              /\ \A k \in Range(emission'[q].sinks) : emission'[q].event \notin Range(received'[k])
  <2>1. Handing(q) /\ emission'[q].event = emission[q].event
    BY <1>10, <1>11
  <2>2. /\ emission[q].event.life = life /\ Given(emission[q].event)
        /\ \A i, j \in DOMAIN emission[q].sinks : emission[q].sinks[i] = emission[q].sinks[j] => i = j
        /\ \A k \in Range(emission[q].sinks) : emission[q].event \notin Old(k)
    BY <2>1 DEF EmissionInv, Old
  <2>3. Given(emission[q].event)'
    BY <2>1, <2>2 DEF Given
  <2>4. /\ \A i, j \in DOMAIN emission'[q].sinks : emission'[q].sinks[i] = emission'[q].sinks[j] => i = j
        /\ \A k \in Range(emission'[q].sinks) : emission'[q].event \notin New(k)
    <3>1. CASE q = p
      <4>1. emission'[q].sinks = tail /\ emission'[q].event = e
        <5>1. em.sinks # <<>>
          BY <1>6, <1>11, <3>1 DEF Handing
        <5>2. em # NoEmission
          BY <5>1 DEF NoEmission
        <5>3. QED
          BY <1>5, <1>6, <3>1, <5>2
      <4>2. \A k \in Range(tail) : e \notin Old(k) /\ k # sink
        BY <1>3, <1>4
      <4>3. \A k \in Range(tail) : k \in Range(Sinks)
        BY <1>4 DEF Range
      <4>4. QED
        BY <1>4, <1>7, <4>1, <4>2, <4>3
    <3>2. CASE q # p
      <4>1. emission'[q] = emission[q] /\ emission[q].event # e
        BY <1>6, <2>1, <3>2 DEF EmissionInv
      <4>2. \A k \in Range(emission[q].sinks) : k \in Range(Sinks)
        <5>1. emission[q].sinks \in Seq(Range(Sinks))
          BY <2>1 DEF PlaneTypeOK, Handing, NoEmission
        <5>2. QED
          BY <5>1 DEF Range
      <4>3. QED
        BY <1>7, <2>2, <4>1, <4>2
    <3>3. QED
      BY <3>1, <3>2
  <2>5. QED
    BY <2>1, <2>2, <2>3, <2>4 DEF New
<1>12. \A q, r \in Threads : Handing(q)' /\ Handing(r)' /\ emission'[q].event = emission'[r].event => q = r
  BY <1>10 DEF EmissionInv
<1>13. ASSUME NEW k \in Range(Sinks) \cup {"bus"}, NEW i \in DOMAIN received'[k]
       PROVE  received'[k][i].life <= life' /\ Given(received[k][i])'
  <2>1. PICK y : y = received'[k][i]
    OBVIOUS
  <2>2. y = e \/ y \in Old(k)
    BY <1>7, <2>1 DEF New, Range
  <2>3. y \in Old(k) => y.life <= life /\ Given(y)
    BY DEF EmissionInv, Old, Range
  <2>4. e.life <= life
    BY <1>3 DEF PlaneTypeOK
  <2>5. y.life <= life /\ Given(y)'
    BY <1>3, <1>9, <2>2, <2>3, <2>4
  <2>6. QED
    BY <2>1, <2>5 DEF Given
<1>14. ASSUME NEW k \in Range(Sinks), NEW u \in SessionIds, NEW n \in 1 .. counters[u], NEW event,
              event = [session |-> u, seq |-> n, life |-> life]
       PROVE  Known(k, event)'
  <2>1. Known(k, event)
    BY <1>14 DEF EmissionInv
  <2>2. CASE Taken(k, event) # {}
    <3>1. event \in New(k)
      BY <1>7, <2>2, TakenRange DEF Old
    <3>2. QED
      BY <3>1 DEF Known, Taken, New, Range
  <2>3. CASE Pending(k, event) # {}
    <3>1. PICK q \in Threads : Handing(q) /\ emission[q].event = event /\ k \in Range(emission[q].sinks)
      BY <2>3 DEF Pending
    <3>2. CASE q # p
      <4>1. Handing(q)' /\ emission'[q] = emission[q]
        BY <1>6, <3>1, <3>2 DEF Handing
      <4>2. q \in Pending(k, event)'
        BY <3>1, <4>1 DEF Pending
      <4>3. QED
        BY <4>2 DEF Known
    <3>3. CASE q = p
      <4>1. event = e /\ (k = sink \/ k \in Range(tail))
        BY <1>4, <3>1, <3>3
      <4>2. CASE e \in dropped'
        BY <4>1, <4>2 DEF Known
      <4>3. CASE em = Rest(emission[p]) /\ e \in New(sink) /\ k = sink
        BY <4>1, <4>3 DEF Known, Taken, New, Range
      <4>4. CASE em = Rest(emission[p]) /\ k \in Range(tail)
        <5>1. em = [event |-> e, sinks |-> tail] /\ tail # <<>>
          <6>1. Range(tail) # {} /\ tail # <<>>
            BY <4>4 DEF Range
          <6>2. QED
            BY <1>5, <4>4, <6>1
        <5>2. Handing(p)' /\ emission'[p].event = event /\ k \in Range(emission'[p].sinks)
          BY <1>6, <4>1, <4>4, <5>1 DEF Handing
        <5>3. p \in Pending(k, event)'
          BY <5>2 DEF Pending
        <5>4. QED
          BY <5>3 DEF Known
      <4>5. QED
        BY <1>7, <4>1, <4>2, <4>3, <4>4
    <3>4. QED
      BY <3>2, <3>3
  <2>4. CASE event \in dropped
    BY <2>4 DEF Known
  <2>5. QED
    BY <2>1, <2>2, <2>3, <2>4 DEF Known
<1>15. EmissionInv'
  <2>1. \A k \in Range(Sinks), u \in SessionIds : \A n \in 1 .. counters'[u] :
            Known(k, [session |-> u, seq |-> n, life |-> life])'
    BY <1>14
  <2>2. \A k \in Range(Sinks) \cup {"bus"} : \A i, j \in DOMAIN received'[k] :
            /\ received'[k][i].life <= life' /\ Given(received[k][i])'
            /\ received'[k][i] = received'[k][j] => i = j
    BY <1>7, <1>13
  <2>3. QED
    BY <1>11, <1>12, <2>1, <2>2 DEF EmissionInv
<1>16. QED
  BY <1>8, <1>15

LEMMA BusDelivers ==
    ASSUME PlaneInv, NEW p \in Threads, DeliverToBus(p)
    PROVE  PlaneInv'
<1>1. LogInv /\ MetricsInv /\ LogTypeOK /\ PlaneTypeOK /\ EmissionInv
  BY DEF PlaneInv, LogInv
<1>2. PICK e : e = emission[p].event
  OBVIOUS
<1>3. Handing(p) /\ Head(emission[p].sinks) = "bus" /\ Publish(p, "control") /\ UNCHANGED <<counters, life>>
  BY DEF DeliverToBus
<1>4. emission' = [emission EXCEPT ![p] = Rest(emission[p])]
  BY <1>1 DEF DeliverToBus, NextSink, PlaneTypeOK
<1>5. LogInv' /\ MetricsInv'
  BY <1>1, <1>3, EventNames, PublishOK, PublishMetrics, PublishSnapshots DEF MetricsInv
<1>6. e \in Event
  BY <1>1, <1>2, <1>3 DEF PlaneTypeOK, Handing, NoEmission
<1>7. Cardinality(Lines("control")) = Len(received["bus"])
  BY DEF PlaneInv
<1>8. CASE Logged("control", "none")
  <2>1. PICK line \in Line : file' = Append(file, line) /\ line.event = "control"
    BY <1>1, <1>8, EventNames, LoggedLine
  <2>2. file' # file
    BY <1>1, <2>1, Appended DEF LogTypeOK
  <2>3. received' = [received EXCEPT !["bus"] = Append(@, e)] /\ UNCHANGED dropped
    BY <1>2, <2>2 DEF DeliverToBus, Receives
  <2>4. PlaneTypeOK' /\ EmissionInv'
    BY <1>1, <1>2, <1>3, <1>4, <2>3, Delivered
  <2>5. Cardinality(Lines("control")') = Cardinality(Lines("control")) + 1
    BY <1>1, <2>1, OtherLines
  <2>6. Len(received'["bus"]) = Len(received["bus"]) + 1
    <3>1. received \in [Range(Sinks) \cup {"bus"} -> Seq(Event)]
      BY <1>1 DEF PlaneTypeOK
    <3>2. received'["bus"] = Append(received["bus"], e) /\ received["bus"] \in Seq(Event)
      BY <2>3, <3>1
    <3>3. QED
      BY <1>6, <3>2, AppendDistinct
  <2>7. QED
    BY <1>5, <1>7, <2>4, <2>5, <2>6 DEF PlaneInv
<1>9. CASE Lost
  <2>1. file' = file
    BY <1>9 DEF Lost
  <2>2. dropped' = dropped \cup {e} /\ UNCHANGED received
    BY <1>2, <2>1 DEF DeliverToBus
  <2>3. PlaneTypeOK' /\ EmissionInv'
    BY <1>1, <1>2, <1>3, <1>4, <2>2, Delivered
  <2>4. Lines("control")' = Lines("control")
    BY <2>1 DEF Lines
  <2>5. QED
    BY <1>5, <1>7, <2>2, <2>3, <2>4 DEF PlaneInv
<1>10. QED
  BY <1>3, <1>8, <1>9 DEF Publish

LEMMA TransportDelivers ==
    ASSUME PlaneInv, NEW p \in Threads, DeliverToTransport(p)
    PROVE  PlaneInv'
<1>1. LogInv /\ MetricsInv /\ PlaneTypeOK /\ EmissionInv
  BY DEF PlaneInv
<1>2. PICK e, sink : e = emission[p].event /\ sink = Head(emission[p].sinks)
  OBVIOUS
<1>3. Handing(p) /\ sink # "bus" /\ UNCHANGED <<logVars, counters, life>>
  BY <1>2 DEF DeliverToTransport
<1>4. LogInv' /\ MetricsInv' /\ Lines("control")' = Lines("control")
  BY <1>1, <1>3, LogStutters DEF logVars, Lines
<1>5. emission \in [Threads -> [event : Event, sinks : Seq(Range(Sinks))] \cup {NoEmission}]
  BY <1>1 DEF PlaneTypeOK
<1>6. CASE Receives(sink, e) /\ NextSink(p) /\ UNCHANGED dropped
  <2>1. received' = [received EXCEPT ![sink] = Append(@, e)]
    BY <1>6 DEF Receives
  <2>2. emission' = [emission EXCEPT ![p] = Rest(emission[p])]
    BY <1>5, <1>6 DEF NextSink
  <2>3. PlaneTypeOK' /\ EmissionInv'
    BY <1>1, <1>2, <1>3, <1>6, <2>1, <2>2, Delivered
  <2>4. received'["bus"] = received["bus"]
    BY <1>1, <1>3, <2>1 DEF PlaneTypeOK
  <2>5. QED
    BY <1>4, <2>3, <2>4 DEF PlaneInv
<1>7. CASE /\ emission' = [emission EXCEPT ![p] = NoEmission]
           /\ dropped' = dropped \cup {e} /\ UNCHANGED received
  <2>1. PlaneTypeOK' /\ EmissionInv'
    BY <1>1, <1>2, <1>3, <1>7, Delivered
  <2>2. QED
    BY <1>4, <1>7, <2>1 DEF PlaneInv
<1>8. QED
  BY <1>2, <1>6, <1>7 DEF DeliverToTransport

\* The next process starts with a new log; what another sink holds is of earlier ones.
LEMMA ResumeOK ==
    ASSUME PlaneInv, Resume
    PROVE  PlaneInv'
<1>1. PlaneTypeOK /\ EmissionInv
  BY DEF PlaneInv
<1>2. LogInit'
  BY DEF Resume, LogInit
<1>3. LogInv' /\ MetricsInv'
  BY <1>2, LogBegins, PTL
<1>4. /\ life \in Nat /\ life' = life + 1 /\ dropped' = {}
      /\ counters' = [s \in SessionIds |-> 0]
      /\ emission' = [p \in Threads |-> NoEmission]
      /\ received' = [received EXCEPT !["bus"] = <<>>]
      /\ received \in [Range(Sinks) \cup {"bus"} -> Seq(Event)]
  BY <1>1 DEF Resume, PlaneTypeOK
<1>5. received'["bus"] = <<>> /\ \A k \in Range(Sinks) : k # "bus" => received'[k] = received[k]
  BY <1>4
<1>6. PlaneTypeOK'
  BY <1>4 DEF PlaneTypeOK
<1>7. \A p \in Threads : ~Handing(p)'
  BY <1>4 DEF Handing, NoEmission
<1>8. ASSUME NEW k \in Range(Sinks) \cup {"bus"}, NEW i \in DOMAIN received'[k], NEW j \in DOMAIN received'[k]
      PROVE  /\ received'[k][i].life <= life' /\ Given(received[k][i])'
             /\ received'[k][i] = received'[k][j] => i = j
  <2>1. k # "bus" /\ received'[k] = received[k]
    BY <1>5, <1>8
  <2>2. received[k][i] \in Event /\ received[k][i].life <= life
    BY <1>1, <1>4, <1>8, <2>1 DEF EmissionInv
  <2>3. received[k][i].life \in Nat
    BY <2>2 DEF Event
  <2>4. received[k][i].life <= life' /\ received[k][i].life # life'
    BY <1>4, <2>2, <2>3
  <2>5. Given(received[k][i])'
    BY <2>1, <2>4 DEF Given
  <2>6. QED
    BY <1>1, <1>8, <2>1, <2>4, <2>5 DEF EmissionInv
<1>9. \A s \in SessionIds : 1 .. counters'[s] = {}
  BY <1>4
<1>10. EmissionInv'
  BY <1>7, <1>8, <1>9 DEF EmissionInv
<1>11. Cardinality(Lines("control")') = Len(received'["bus"])
  <2>1. Lines("control")' = {}
    BY <1>2 DEF LogInit, Lines
  <2>2. QED
    BY <1>5, <2>1, FS_EmptySet
<1>12. QED
  BY <1>3, <1>6, <1>10, <1>11 DEF PlaneInv

LEMMA PlaneInitOK == PlaneInit => PlaneInv
<1> SUFFICES ASSUME PlaneInit PROVE PlaneInv
  OBVIOUS
<1>1. LogInv /\ MetricsInv
  BY LogBegins DEF PlaneInit
<1>2. /\ counters = [s \in SessionIds |-> 0] /\ emission = [p \in Threads |-> NoEmission]
      /\ received = [k \in Range(Sinks) \cup {"bus"} |-> <<>>] /\ life = 1
  BY DEF PlaneInit
<1>3. PlaneTypeOK
  BY <1>2 DEF PlaneTypeOK
<1>4. \A p \in Threads : ~Handing(p)
  BY <1>2 DEF Handing, NoEmission
<1>5. (\A s \in SessionIds : 1 .. counters[s] = {}) /\ \A k \in Range(Sinks) \cup {"bus"} : received[k] = <<>>
  BY <1>2
<1>6. EmissionInv
  BY <1>4, <1>5 DEF EmissionInv
<1>7. Cardinality(Lines("control")) = Len(received["bus"])
  <2>1. LogInit
    BY DEF PlaneInit
  <2>2. Lines("control") = {}
    BY <2>1 DEF LogInit, Lines
  <2>3. received["bus"] = <<>>
    BY <1>5
  <2>4. QED
    BY <2>2, <2>3, FS_EmptySet
<1>8. QED
  BY <1>1, <1>3, <1>6, <1>7 DEF PlaneInv

LEMMA PlaneStep == PlaneInv /\ [PlaneNext]_<<logVars, planeVars>> => PlaneInv'
<1> SUFFICES ASSUME PlaneInv, [PlaneNext]_<<logVars, planeVars>> PROVE PlaneInv'
  OBVIOUS
<1>1. LogInv /\ MetricsInv /\ PlaneTypeOK /\ EmissionInv /\ Cardinality(Lines("control")) = Len(received["bus"])
  BY DEF PlaneInv
<1>2. ASSUME NEW p \in Threads, LogStep(p), UNCHANGED planeVars PROVE PlaneInv'
  <2>1. LogInv' /\ MetricsInv' /\ Cardinality(Lines("control")') = Cardinality(Lines("control"))
    BY <1>1, <1>2, LogStepOK, LogStepOthers
  <2>2. PlaneTypeOK' /\ EmissionInv' /\ UNCHANGED received
    BY <1>1, <1>2, PlaneStutters DEF planeVars
  <2>3. QED
    BY <1>1, <2>1, <2>2 DEF PlaneInv
<1>3. ASSUME NEW p \in Threads, NEW s \in SessionIds, NEW declared \in BOOLEAN, Emit(p, s, declared)
      PROVE  PlaneInv'
  <2>1. UNCHANGED <<logVars, received>>
    BY <1>3 DEF Emit
  <2>2. LogInv' /\ MetricsInv' /\ Lines("control")' = Lines("control")
    BY <1>1, <2>1, LogStutters DEF logVars, Lines
  <2>3. PlaneTypeOK' /\ EmissionInv'
    BY <1>1, <1>3, EmitNumbers
  <2>4. QED
    BY <1>1, <2>1, <2>2, <2>3 DEF PlaneInv
<1>4. CASE UNCHANGED <<logVars, planeVars>>
  <2>1. LogInv' /\ MetricsInv' /\ PlaneTypeOK' /\ EmissionInv'
    BY <1>1, <1>4, LogStutters, PlaneStutters
  <2>2. Lines("control")' = Lines("control") /\ UNCHANGED received
    BY <1>4 DEF logVars, planeVars, Lines
  <2>3. QED
    BY <1>1, <2>1, <2>2 DEF PlaneInv
<1>5. QED
  BY <1>2, <1>3, <1>4, BusDelivers, TransportDelivers, ResumeOK DEF PlaneNext

\* The invariant of the log and the emitter together.
THEOREM PlaneCorrect == PlaneSpec => []PlaneInv
<1>1. QED
  BY PlaneInitOK, PlaneStep, PTL DEF PlaneSpec

\* The lines of events.jsonl stand in the order of their numbers, no number is given
\* twice, and one is skipped only for a write that failed, for any number of threads that
\* emit through the logger (EventLogger.emit).
THEOREM SequencedTheorem == PlaneSpec => []LogSequenced
<1>1. PlaneInv => LogSequenced
  BY DEF PlaneInv, LogInv, SequenceInv
<1>2. QED
  BY <1>1, PlaneCorrect, PTL

\* For any number of threads and whichever writes fail, a metric is the number of lines
\* that count it less what is still to be counted, and a summary that was written misses
\* at most one line of every other thread of those the log had when finish took its
\* metrics (attach_to_bus, EventLogger.count, EventLogger.finish).
THEOREM MetricsTheorem == PlaneSpec => []MetricsFollowLog
<1>1. PlaneInv => MetricsFollowLog
  BY DEF PlaneInv, MetricsInv, CountedInv, SnapshotInv, MetricsFollowLog
<1>2. QED
  BY <1>1, PlaneCorrect, PTL

\* A run ends once in its log and in the index, however many threads finish it and
\* whichever write fails first (EventLogger.finish).
THEOREM FinishTheorem == PlaneSpec => []FinishOnce
<1>1. PlaneInv => FinishOnce
  BY DEF PlaneInv, LogInv, FinishInv
<1>2. QED
  BY <1>1, PlaneCorrect, PTL

\* Every number an emitter gave belongs to one event, which each sink took once, is about
\* to take, or misses because a sink failed, for any number of sessions, sinks, threads
\* and processes (EventEmitter.emit_event, SessionSeq.next).
THEOREM EventsTheorem == PlaneSpec => []EventsAccounted
<1>1. QED
  BY EventsFollow, PlaneCorrect, PTL

=============================================================================
