------------------------------- MODULE RunLog -------------------------------
(***************************************************************************)
(* EventLogger (observability/event_log.py) of one run, attached to the    *)
(* EventBus: threads publish events, which append a line to events.jsonl   *)
(* and then count metrics, and call finish, which ends the log once.       *)
(* Each lock section is one step.  With DiskMayFail, any write may raise:  *)
(* the bus swallows that in a subscriber, finish lets it out.              *)
(***************************************************************************)
EXTENDS Naturals, Sequences, FiniteSets, Functions

CONSTANTS
    Threads,
    Events,       \* the events the runtime publishes by itself, of AllEvents
    Reports,      \* the numbers handlers give their progress reports
    DiskMayFail,
    MaxLines      \* bound: lines of the log before it is finished, lost ones too

Metrics == {"steps", "llm_calls", "llm_failures", "tool_calls", "tool_failures", "parse_errors",
            "finish_gate_blocks", "delegations", "delegation_progress", "delegation_failures"}

\* The metrics the sink counts for an event, in its order; "delegation_failed" is
\* delegation.finished with an outcome other than success, and "control" any event that
\* came through the EventEmitter (ControlPlane).
Counts ==
    [tool_completed |-> <<"tool_calls">>,
     llm_completed |-> <<"tool_calls", "llm_calls">>,
     tool_failed |-> <<"tool_calls", "tool_failures">>,
     llm_failed |-> <<"tool_calls", "tool_failures", "llm_calls", "llm_failures">>,
     graph_step |-> <<"steps">>,
     parse_error |-> <<"parse_errors">>,
     finish_blocked |-> <<"finish_gate_blocks">>,
     delegation_started |-> <<"delegations">>,
     delegation_progress |-> <<"delegation_progress">>,
     delegation_failed |-> <<"delegation_failures">>,
     other |-> <<>>,
     control |-> <<>>]

AllEvents == DOMAIN Counts

ASSUME RunLogAssumption ==
    /\ Threads # {} /\ IsFiniteSet(Threads)
    /\ Events \subseteq AllEvents \ {"control"}
    /\ Reports \subseteq Nat /\ Reports # {}
    /\ DiskMayFail \in BOOLEAN
    /\ MaxLines \in Nat

Statuses == {"completed", "failed"}

VARIABLES
    seq,       \* EventLogger.seq
    file,      \* the lines of events.jsonl
    metrics,
    finished,  \* _finished
    thread,    \* what every thread is doing in the logger
    summary,   \* summary.json: "none", "torn" while it is written, "written"
    index      \* statuses the run is entered with in index.jsonl

logVars == <<seq, file, metrics, finished, thread, summary, index>>

Line == [event : AllEvents \cup {"run_started", "run_finished", "ui"}, sequence : Nat,
         status : Statuses \cup {"none"}]

\* todo: metrics still to count for the event that was published; draft: the
\* summary finish took under the lock, and how many lines the log had then (history).
Draft == [status : Statuses \cup {"none"}, metrics : [Metrics -> Nat], at : Nat]
NoDraft == [status |-> "none", metrics |-> [m \in Metrics |-> 0], at |-> 0]
Idle == [pc |-> "idle", todo |-> <<>>, draft |-> NoDraft]

NoSummary == [state |-> "none", draft |-> NoDraft]

\* __init__: the first line is run_started.
LogInit ==
    /\ seq = 1
    /\ file = <<[event |-> "run_started", sequence |-> 1, status |-> "none"]>>
    /\ metrics = [m \in Metrics |-> 0]
    /\ finished = FALSE
    /\ thread = [p \in Threads |-> Idle]
    /\ summary = NoSummary
    /\ index = <<>>
-----------------------------------------------------------------------------
Lines(e) == {i \in DOMAIN file : file[i].event = e}

\* Mutant: the counter is read before the lock is taken, and may be stale.
SequencesOfStale(e) == {IF \E p \in Threads : thread[p].todo # <<>> THEN seq ELSE seq + 1}

\* The fields of an event are merged over the record, so that the payload of
\* delegation.progress, which has a sequence of its own, replaces the log's.
SequencesOf(e) == IF e = "delegation_progress" THEN Reports ELSE {seq + 1}

\* emit: the counter moves first, then the line is written, or the write raises.
Logged(e, status) ==
    /\ seq' = seq + 1
    /\ \E n \in SequencesOf(e) : file' = Append(file, [event |-> e, sequence |-> n, status |-> status])

Lost ==
    /\ DiskMayFail
    /\ seq' = seq + 1
    /\ UNCHANGED file

Free(p) == thread[p].pc = "idle" /\ thread[p].todo = <<>>

\* EventBus.publish with the sink of attach_to_bus: the line, then the counts; what
\* emit raises ends the sink and is swallowed by the bus.
Publish(p, e) ==
    /\ Free(p)
    /\ \/ Logged(e, "none") /\ thread' = [thread EXCEPT ![p].todo = Counts[e]]
       \/ Lost /\ UNCHANGED thread
    /\ UNCHANGED <<metrics, finished, summary, index>>

\* Mutant: the value to store was read before another thread counted.
CountStale(p) ==
    /\ thread[p].todo # <<>>
    /\ metrics' = [metrics EXCEPT ![Head(thread[p].todo)] =
                       IF \E q \in Threads \ {p} : thread[q].todo # <<>> THEN @ ELSE @ + 1]
    /\ thread' = [thread EXCEPT ![p].todo = Tail(@)]
    /\ UNCHANGED <<seq, file, finished, summary, index>>

Count(p) ==
    /\ thread[p].todo # <<>>
    /\ metrics' = [metrics EXCEPT ![Head(thread[p].todo)] = @ + 1]
    /\ thread' = [thread EXCEPT ![p].todo = Tail(@)]
    /\ UNCHANGED <<seq, file, finished, summary, index>>
-----------------------------------------------------------------------------
(* finish. *)

\* The summary of this moment.
Snapshot(status) == [status |-> status, metrics |-> metrics, at |-> Len(file)]

\* Mutant: the flag is looked at here, and set only when the log has ended.
FinishUnmarked(p, status) ==
    /\ Free(p)
    /\ ~finished
    /\ thread' = [thread EXCEPT ![p].pc = "terminal", ![p].draft = Snapshot(status)]
    /\ UNCHANGED <<seq, file, metrics, finished, summary, index>>

\* The lock section: whoever comes first goes on to end the log with the metrics of
\* this moment; any later caller returns.
Finish(p, status) ==
    /\ Free(p)
    /\ finished' = TRUE
    /\ thread' = IF finished THEN thread
                 ELSE [thread EXCEPT ![p].pc = "terminal",
                                     ![p].draft = Snapshot(status)]
    /\ UNCHANGED <<seq, file, metrics, summary, index>>

\* A write of finish went through, or raised out of it.
Goes(p, next) == thread' = [thread EXCEPT ![p].pc = next]
Raises(p) == DiskMayFail /\ Goes(p, "raised")

EmitFinished(p) ==
    /\ thread[p].pc = "terminal"
    /\ \/ Logged("run_finished", thread[p].draft.status) /\ Goes(p, "summary")
       \/ Lost /\ Goes(p, "raised")
    /\ UNCHANGED <<metrics, finished, summary, index>>

\* write_text opens, and so empties, the file before it writes.
OpenSummary(p) ==
    /\ thread[p].pc = "summary"
    /\ \/ summary' = [summary EXCEPT !.state = "torn"] /\ Goes(p, "writing")
       \/ Raises(p) /\ UNCHANGED summary
    /\ UNCHANGED <<seq, file, metrics, finished, index>>

WriteSummary(p) ==
    /\ thread[p].pc = "writing"
    /\ \/ summary' = [state |-> "written", draft |-> thread[p].draft] /\ Goes(p, "index")
       \/ Raises(p) /\ UNCHANGED summary
    /\ UNCHANGED <<seq, file, metrics, finished, index>>

EnterIndex(p) ==
    /\ thread[p].pc = "index"
    /\ \/ index' = Append(index, thread[p].draft.status) /\ Goes(p, "idle")
       \/ Raises(p) /\ UNCHANGED index
    /\ UNCHANGED <<seq, file, metrics, finished, summary>>

\* The exception reaches the caller of finish.
Raised(p) ==
    /\ thread[p].pc = "raised"
    /\ Goes(p, "idle")
    /\ UNCHANGED <<seq, file, metrics, finished, summary, index>>

FinishStep(p) == EmitFinished(p) \/ OpenSummary(p) \/ WriteSummary(p) \/ EnterIndex(p)

LogStep(p) ==
    \/ seq < MaxLines /\ \E e \in Events : Publish(p, e)
    \/ Count(p)
    \/ \E status \in Statuses : Finish(p, status)
    \/ FinishStep(p)
    \/ Raised(p)

LogNext == \E p \in Threads : LogStep(p)

LogSpec == LogInit /\ [][LogNext]_logVars
-----------------------------------------------------------------------------
\* The type invariant: lines, counters and the stage of every thread in emit or
\* finish, whatever write has failed.
LogTypeOK ==
    /\ seq \in Nat
    /\ file \in Seq(Line)
    /\ metrics \in [Metrics -> Nat]
    /\ finished \in BOOLEAN
    /\ thread \in [Threads -> [pc : {"idle", "terminal", "summary", "writing", "index", "raised"},
                               todo : Seq(Metrics), draft : Draft]]
    /\ summary \in [state : {"none", "torn", "written"}, draft : Draft]
    /\ index \in Seq(Statuses)

\* Whatever the threads that write them, the lines of the log that carry its own
\* number stand in the order of their numbers, no number is given twice, and one is
\* skipped only for a write that failed (emit holds the lock over counter and write);
\* progress reports carry their delegation's number instead.
LogSequenced ==
    LET own == {i \in DOMAIN file : file[i].event # "delegation_progress"} IN
    \A i \in own :
        /\ file[i].sequence \in i .. seq
        /\ ~DiskMayFail => file[i].sequence = i
        /\ \A j \in own : i < j => file[i].sequence + (j - i) <= file[j].sequence

\* The threads that have still to count a metric, and the lines whose event counts it.
Waiting(m) == {p \in Threads : m \in Range(thread[p].todo)}
Counting(m) == {i \in DOMAIN file : file[i].event \in AllEvents /\ m \in Range(Counts[file[i].event])}

MetricsCounted == \A m \in Metrics : metrics[m] + Cardinality(Waiting(m)) = Cardinality(Counting(m))

\* The metrics of a draft, against the lines the log had when it was taken: none is
\* counted that has no line, and at most one line of every other thread is not counted.
FollowsLog(draft) ==
    /\ draft.at <= Len(file)
    /\ \A m \in Metrics :
           LET lines == Cardinality({i \in Counting(m) : i <= draft.at})
           IN  draft.metrics[m] <= lines /\ lines < draft.metrics[m] + Cardinality(Threads)

\* A metric is the number of lines whose event counts it, less what publishers that
\* have written their line have still to count; an event whose line is lost is not
\* counted either.  The summary has the metrics of the moment finish took them: of the
\* lines the log had then, it misses at most one of every other thread, and with one
\* thread none (attach_to_bus, count, finish).
MetricsFollowLog ==
    /\ MetricsCounted
    /\ summary.state = "written" => FollowsLog(summary.draft)

\* However many threads finish the log, also after a write of the first has failed,
\* it has at most one run_finished line and one index entry; an entry in the index
\* comes after a complete summary, and the three agree on the status.
FinishOnce ==
    /\ \A i, j \in Lines("run_finished") : i = j
    /\ Len(index) <= 1
    /\ Len(index) = 1 =>
           /\ summary.state = "written" /\ summary.draft.status = index[1]
           /\ \E i \in Lines("run_finished") : file[i].status = index[1]
-----------------------------------------------------------------------------
\* The inductive invariants of the proofs.

\* The counter is as far ahead of the last line as lines were lost, and of an earlier
\* line by at least the lines in between.
SequenceInv ==
    /\ Len(file) <= seq
    /\ ~DiskMayFail => Len(file) = seq
    /\ \A i \in DOMAIN file :
           file[i].event # "delegation_progress" => file[i].sequence + (Len(file) - i) <= seq
    /\ LogSequenced

\* At most one thread is in finish, and only since the flag is set; what it has written
\* is where it stands.
FinishInv ==
    /\ ~finished => Lines("run_finished") = {} /\ index = <<>>
    /\ \A p, q \in Threads : thread[p].pc # "idle" /\ thread[q].pc # "idle" => p = q
    /\ \A p \in Threads :
           LET pc == thread[p].pc
               draft == thread[p].draft
           IN  /\ pc # "idle" => finished /\ index = <<>> /\ draft.status \in Statuses
               /\ pc = "terminal" => Lines("run_finished") = {}
               /\ pc \in {"summary", "writing", "index"} =>
                      \E i \in Lines("run_finished") : file[i].status = draft.status
               /\ pc = "index" => summary = [state |-> "written", draft |-> draft]
    /\ FinishOnce

LogInv == LogTypeOK /\ SequenceInv /\ FinishInv

\* What a thread has still to count for one event it counts once.
CountedInv ==
    /\ \A p \in Threads : \A i, j \in DOMAIN thread[p].todo :
           thread[p].todo[i] = thread[p].todo[j] => i = j
    /\ MetricsCounted

\* The draft of a thread in finish, and the one that was written, follow the log.
SnapshotInv ==
    /\ \A p \in Threads : thread[p].pc # "idle" => FollowsLog(thread[p].draft)
    /\ summary.state = "written" => FollowsLog(summary.draft)

MetricsInv == CountedInv /\ SnapshotInv
=============================================================================
