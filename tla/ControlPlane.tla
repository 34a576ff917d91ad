---------------------------- MODULE ControlPlane ----------------------------
(***************************************************************************)
(* EventEmitter (control/emitter.py) and SessionSeq (control/events.py),   *)
(* over the log of the run: a thread has its event checked and numbered,   *)
(* and then gives it to one sink after the other.  The sink "bus" is       *)
(* BusEventSink, whose subscriber is the log of RunLog; a sink of another  *)
(* name is another EventSinkPort, which keeps what it accepts and may      *)
(* raise.                                                                  *)
(*                                                                         *)
(* The counters live in memory.  A task that is resumed in a new process   *)
(* goes on under its session id, with a new emitter and a new log.  Events *)
(* that already carry a number keep it; no caller emits one.               *)
(***************************************************************************)
EXTENDS RunLog

CONSTANTS
    SessionIds,
    Sinks,      \* the names of the emitter's sinks, in their order
    MaxEvents,  \* bound: numbers a session uses in one process
    MaxLives    \* bound: processes

ASSUME ControlPlaneAssumption ==
    /\ Sinks \in Seq(STRING) /\ Sinks # <<>>
    /\ \A i, j \in DOMAIN Sinks : Sinks[i] = Sinks[j] => i = j
    /\ MaxEvents \in Nat /\ MaxLives \in Nat

VARIABLES
    counters,  \* SessionSeq._counters
    emission,  \* the event every thread is handing out, and the sinks it has yet to see
    received,  \* history: the events every sink took, in their order
    dropped,   \* history: events that some sink did not get
    life       \* processes so far

planeVars == <<counters, emission, received, dropped, life>>

NoEmission == [event |-> <<>>, sinks |-> <<>>]

PlaneInit ==
    /\ LogInit
    /\ counters = [s \in SessionIds |-> 0]
    /\ emission = [p \in Threads |-> NoEmission]
    /\ received = [k \in Range(Sinks) \cup {"bus"} |-> <<>>]
    /\ dropped = {}
    /\ life = 1
-----------------------------------------------------------------------------
Handing(p) == emission[p].sinks # <<>>

\* A thread is in the emitter only while it is not in the log for another reason.
CanEmit(p) == Free(p) /\ ~Handing(p)

HandOut(p, event) == emission' = [emission EXCEPT ![p] = [event |-> event, sinks |-> Sinks]]

\* SessionSeq.next: the number it returns, which becomes the counter.
NextSeq(s) == counters[s] + 1
Counted(s) == counters' = [counters EXCEPT ![s] = NextSeq(s)]

\* Mutant: the number is taken before the registry is asked.
EmitNumberedFirst(p, s, declared) ==
    /\ CanEmit(p)
    /\ counters[s] < MaxEvents
    /\ Counted(s)
    /\ IF declared
       THEN HandOut(p, [session |-> s, seq |-> NextSeq(s), life |-> life])
       ELSE UNCHANGED emission
    /\ UNCHANGED <<logVars, received, dropped, life>>

\* emit: a type that is not declared raises before anything else happens; otherwise
\* SessionSeq.next gives the number, in its lock.
Emit(p, s, declared) ==
    /\ CanEmit(p)
    /\ counters[s] < MaxEvents
    /\ IF declared
       THEN /\ Counted(s)
            /\ HandOut(p, [session |-> s, seq |-> NextSeq(s), life |-> life])
       ELSE UNCHANGED <<counters, emission>>
    /\ UNCHANGED <<logVars, received, dropped, life>>

Receives(k, event) == received' = [received EXCEPT ![k] = Append(@, event)]
Rest(em) == IF Len(em.sinks) = 1 THEN NoEmission ELSE [event |-> em.event, sinks |-> Tail(em.sinks)]
NextSink(p) == emission' = [emission EXCEPT ![p] = Rest(@)]

\* BusEventSink: the subscriber writes the line, or loses it; the bus swallows what it
\* raises, and the emitter goes on.
DeliverToBus(p) ==
    LET event == emission[p].event
    IN  /\ Handing(p)
        /\ Head(emission[p].sinks) = "bus"
        /\ Publish(p, "control")
        /\ IF file' # file
           THEN Receives("bus", event) /\ UNCHANGED dropped
           ELSE dropped' = dropped \cup {event} /\ UNCHANGED received
        /\ NextSink(p)
        /\ UNCHANGED <<counters, life>>

\* Another sink takes the event, or raises: that leaves emit_event, and the sinks after
\* it do not see the event.
DeliverToTransport(p) ==
    LET event == emission[p].event
        sink == Head(emission[p].sinks)
    IN  /\ Handing(p)
        /\ sink # "bus"
        /\ \/ Receives(sink, event) /\ NextSink(p) /\ UNCHANGED dropped
           \/ /\ emission' = [emission EXCEPT ![p] = NoEmission]
              /\ dropped' = dropped \cup {event}
              /\ UNCHANGED received
        /\ UNCHANGED <<logVars, counters, life>>

\* The process dies and the session is resumed in another: what was on its way is gone,
\* the counters and the log begin again, what other sinks hold stays.
Resume ==
    /\ life < MaxLives
    /\ life' = life + 1
    /\ counters' = [s \in SessionIds |-> 0]
    /\ emission' = [p \in Threads |-> NoEmission]
    /\ received' = [received EXCEPT !["bus"] = <<>>]
    /\ dropped' = {}
    /\ seq' = 1
    /\ file' = <<[event |-> "run_started", sequence |-> 1, status |-> "none"]>>
    /\ metrics' = [m \in Metrics |-> 0]
    /\ finished' = FALSE
    /\ thread' = [p \in Threads |-> Idle]
    /\ summary' = NoSummary
    /\ index' = <<>>

PlaneNext ==
    \/ \E p \in Threads :
           \/ ~Handing(p) /\ LogStep(p) /\ UNCHANGED planeVars
           \/ \E s \in SessionIds, declared \in BOOLEAN : Emit(p, s, declared)
           \/ DeliverToBus(p)
           \/ DeliverToTransport(p)
    \/ Resume

PlaneSpec == PlaneInit /\ [][PlaneNext]_<<logVars, planeVars>>
-----------------------------------------------------------------------------
\* The places of an event in what a sink took, and the threads that have yet to give
\* it to that sink.
Taken(k, event) == {i \in DOMAIN received[k] : received[k][i] = event}
Pending(k, event) == {p \in Threads : Handing(p) /\ emission[p].event = event /\ k \in Range(emission[p].sinks)}

\* Within one process, an event of a session is known to a sink by its number alone: the
\* numbers given so far are 1 .. counter, and each of them belongs to one event, which the
\* sink took once, or is about to be given by one thread, or was dropped by a failing sink
\* and by nothing else; no other number is about.  The log has one line for each event the
\* bus delivered.  Only events of different processes share a session and a number
\* (SessionSeq.next under its lock, EventEmitter.emit_event).
EventsAccounted ==
    /\ \A k \in Range(Sinks), s \in SessionIds, n \in 1 .. MaxEvents :
           LET event == [session |-> s, seq |-> n, life |-> life]
               copies == Cardinality(Taken(k, event)) + Cardinality(Pending(k, event))
           IN  IF n <= counters[s] THEN copies = 1 \/ (copies = 0 /\ event \in dropped) ELSE copies = 0
    /\ \A k \in Range(Sinks) : \A i, j \in DOMAIN received[k] :
           i # j /\ received[k][i].session = received[k][j].session /\ received[k][i].seq = received[k][j].seq
               => received[k][i].life # received[k][j].life
    /\ Cardinality(Lines("control")) = Len(received["bus"])
-----------------------------------------------------------------------------
\* The inductive invariant of the proofs.

Event == [session : SessionIds, seq : Nat, life : Nat]

PlaneTypeOK ==
    /\ counters \in [SessionIds -> Nat]
    /\ emission \in [Threads -> [event : Event, sinks : Seq(Range(Sinks))] \cup {NoEmission}]
    /\ received \in [Range(Sinks) \cup {"bus"} -> Seq(Event)]
    /\ life \in Nat

\* The numbers of this process that are about were given in it.
Given(event) == event.life = life => event.seq \in 1 .. counters[event.session]

Known(k, event) == Taken(k, event) # {} \/ Pending(k, event) # {} \/ event \in dropped

\* A number is given once, to one thread, which gives it to every sink once; it is known
\* to a sink, on the way to it, or dropped.
EmissionInv ==
    /\ \A p \in Threads : Handing(p) =>
           /\ emission[p].event.life = life /\ Given(emission[p].event)
           /\ \A i, j \in DOMAIN emission[p].sinks : emission[p].sinks[i] = emission[p].sinks[j] => i = j
           /\ \A k \in Range(emission[p].sinks) : emission[p].event \notin Range(received[k])
    /\ \A p, q \in Threads : Handing(p) /\ Handing(q) /\ emission[p].event = emission[q].event => p = q
    /\ \A k \in Range(Sinks) \cup {"bus"} : \A i, j \in DOMAIN received[k] :
           /\ received[k][i].life <= life /\ Given(received[k][i])
           /\ received[k][i] = received[k][j] => i = j
    /\ \A k \in Range(Sinks), s \in SessionIds : \A n \in 1 .. counters[s] :
           Known(k, [session |-> s, seq |-> n, life |-> life])

PlaneInv ==
    /\ LogInv
    /\ MetricsInv
    /\ PlaneTypeOK
    /\ EmissionInv
    /\ Cardinality(Lines("control")) = Len(received["bus"])
=============================================================================
