-------------------------- MODULE RetrievalProofs --------------------------
(***************************************************************************)
(* Theorems about Retrieval, for every set of ingesters, stores, files and *)
(* texts and every chunk size and overlap.                                 *)
(***************************************************************************)
EXTENDS Retrieval, FiniteSetTheorems, WellFoundedInduction, SequenceTheorems, TLAPS

-----------------------------------------------------------------------------
\* How a step changes what the ingesters are doing.

\* Every other ingester stays where it is; it may learn that it is not alone.
Frame(i) ==
    \A j \in Ingesters \ {i} :
        /\ job'[j].pc = job[j].pc /\ job'[j].store = job[j].store
        /\ job'[j].todo = job[j].todo /\ job'[j].text = job[j].text
        /\ job'[j].alone => job[j].alone

\* The call of i moves to another place in the code, or it ends.
Moves(i, pc) ==
    /\ job' \in [Ingesters -> Job] /\ Frame(i)
    /\ job'[i].pc = pc /\ job'[i].store = job[i].store /\ job'[i].todo = job[i].todo
    /\ job'[i].text = job[i].text

Leaves(i) == job' \in [Ingesters -> Job] /\ Frame(i) /\ job'[i] = Idle

Frees(i) ==
    /\ lock' \in [Stores -> Ingesters \cup {"free"}]
    /\ \A st \in Stores : lock'[st] = IF st = Store(i) /\ lock[st] = i THEN "free" ELSE lock[st]

LEMMA IdleType == Idle \in Job
BY DEF Idle, Job

LEMMA JobFields ==
    ASSUME RetrievalTypeOK, NEW i \in Ingesters
    PROVE  /\ job[i] \in Job
           /\ job[i].pc \in {"idle", "file", "exists"} \cup Replacing
           /\ job[i].store \in Stores \cup {NoStore}
           /\ job[i].todo \in Seq(Sources)
           /\ job[i].text \in Texts \cup {<<>>}
           /\ job[i].ragged \in BOOLEAN /\ job[i].alone \in BOOLEAN
BY DEF RetrievalTypeOK, Job

\* A call between the first question about a source and its upsert has a source.
LEMMA SourceType ==
    ASSUME RetrievalTypeOK, JobsInv, NEW i \in Ingesters, job[i].pc \in {"exists"} \cup Replacing
    PROVE  Source(i) \in Sources
<1>1. job[i].todo \in Seq(Sources) /\ job[i].todo # <<>>
  BY JobFields DEF JobsInv
<1>2. QED
  BY <1>1 DEF Source

LEMMA GoesMoves ==
    ASSUME RetrievalTypeOK, NEW i \in Ingesters, NEW pc \in {"file", "exists"} \cup Replacing,
           Goes(i, pc)
    PROVE  Moves(i, pc) /\ job'[i].alone = job[i].alone
<1>1. job' = [job EXCEPT ![i].pc = pc] /\ job \in [Ingesters -> Job]
  BY DEF Goes, RetrievalTypeOK
<1>2. [job[i] EXCEPT !.pc = pc] \in Job
  BY JobFields DEF Job
<1>3. QED
  BY <1>1, <1>2 DEF Moves, Frame, Job

LEMMA RaiseLeaves ==
    ASSUME RetrievalTypeOK, JobsInv, NEW i \in Ingesters, ~At(i, "idle"), Raise(i)
    PROVE  Leaves(i) /\ Frees(i)
<1>1. /\ job' = [job EXCEPT ![i] = Idle] /\ job \in [Ingesters -> Job]
      /\ lock' = [lock EXCEPT ![Store(i)] = IF @ = i THEN "free" ELSE @]
      /\ lock \in [Stores -> Ingesters \cup {"free"}]
  BY DEF Raise, RetrievalTypeOK
<1>2. Store(i) \in Stores
  BY DEF JobsInv
<1>3. QED
  BY <1>1, <1>2, IdleType DEF Leaves, Frees, Frame

\* A step of i away from the collection and its lock.
Apart(i) ==
    /\ job' \in [Ingesters -> Job] /\ Frame(i)
    /\ job[i].pc \notin {"create", "index"}
    /\ job'[i].pc \notin {"lock", "create", "index", "upsert"}
    /\ lock' = lock /\ ready' = ready /\ creator' = creator
    /\ server'.exists = server.exists /\ server'.index = server.index

LEMMA ApartStep ==
    ASSUME RetrievalInv, NEW i \in Ingesters, Apart(i)
    PROVE  CreationInv' /\ CollectionSound'
<1>1. CreationInv'
  BY DEF Apart, Frame, RetrievalInv, CreationInv, At, Store
<1>2. CollectionSound'
  BY DEF Apart, Frame, RetrievalInv, CollectionSound, At, Store
<1>3. QED
  BY <1>1, <1>2

\* An exception outside the lock leaves the lock alone.
LEMMA RaiseApart ==
    ASSUME RetrievalInv, NEW i \in Ingesters, job[i].pc \notin {"idle", "create", "index"},
           Leaves(i), Frees(i), ready' = ready, creator' = creator,
           server'.exists = server.exists, server'.index = server.index
    PROVE  Apart(i)
<1>1. \A st \in Stores : lock[st] # i
  BY DEF RetrievalInv, CollectionSound
<1>2. lock' = lock
  BY <1>1 DEF Frees, RetrievalInv, RetrievalTypeOK
<1>3. QED
  BY <1>2 DEF Apart, Leaves, Idle

LEMMA IngestApart ==
    ASSUME RetrievalInv, NEW i \in Ingesters, NEW st \in Stores, NEW root \in Roots,
           Ingest(i, st, root)
    PROVE  Apart(i) /\ job'[i].pc = "file" /\ job'[i].store = st
<1>1. /\ job' = [job EXCEPT ![i] = [@ EXCEPT !.pc = "file", !.store = st, !.todo = root]]
      /\ job[i] \in Job /\ root \in Seq(Sources) /\ At(i, "idle")
  BY JobFields, RetrievalAssumption DEF Ingest, RetrievalInv
<1>2. [job[i] EXCEPT !.pc = "file", !.store = st, !.todo = root] \in Job
  BY <1>1 DEF Job
<1>3. QED
  BY <1>1, <1>2 DEF Ingest, Apart, Frame, RetrievalInv, RetrievalTypeOK, Job, At

LEMMA ReadApart ==
    ASSUME RetrievalInv, NEW i \in Ingesters, ReadFile(i)
    PROVE  /\ Apart(i)
           /\ \/ job'[i] = Idle
              \/ job'[i].pc = "file" /\ job'[i].store = job[i].store
              \/ /\ job'[i].pc = "exists" /\ job'[i].store = job[i].store
                 /\ job'[i].todo = job[i].todo /\ job[i].todo # <<>>
                 /\ job'[i].text \in Texts
<1>1. /\ job[i] \in Job /\ job \in [Ingesters -> Job] /\ At(i, "file") /\ job[i].todo # <<>>
      /\ job[i].todo \in Seq(Sources)
      /\ UNCHANGED <<server, ready, creator>>
  BY JobFields DEF ReadFile, RetrievalInv, RetrievalTypeOK
<1>2. CASE Raise(i)
  <2>1. Leaves(i) /\ Frees(i)
    BY <1>1, <1>2, RaiseLeaves DEF RetrievalInv, At
  <2>2. Apart(i)
    BY <1>1, <2>1, RaiseApart DEF At
  <2>3. QED
    BY <2>1, <2>2 DEF Leaves
<1>3. CASE job' = [job EXCEPT ![i].todo = Tail(@)] /\ lock' = lock
  <2>1. Tail(job[i].todo) \in Seq(Sources)
    BY <1>1
  <2>2. [job[i] EXCEPT !.todo = Tail(job[i].todo)] \in Job
    BY <1>1, <2>1 DEF Job
  <2>3. job' = [job EXCEPT ![i] = [job[i] EXCEPT !.todo = Tail(job[i].todo)]]
    BY <1>3
  <2>4. QED
    BY <1>1, <1>3, <2>2, <2>3 DEF Apart, Frame, Job, At
<1>4. ASSUME NEW text \in Texts, NEW ragged \in BOOLEAN, lock' = lock,
             job' = [job EXCEPT ![i].pc = "exists", ![i].text = text, ![i].ragged = ragged]
      PROVE  /\ Apart(i)
             /\ job'[i].pc = "exists" /\ job'[i].store = job[i].store
             /\ job'[i].todo = job[i].todo /\ job'[i].text = text
  <2>1. [job[i] EXCEPT !.pc = "exists", !.text = text, !.ragged = ragged] \in Job
    BY <1>1 DEF Job
  <2>2. job' = [job EXCEPT ![i] = [job[i] EXCEPT !.pc = "exists", !.text = text, !.ragged = ragged]]
    BY <1>4
  <2>3. QED
    BY <1>1, <1>4, <2>1, <2>2 DEF Apart, Frame, Job, At
<1>5. QED
  BY <1>1, <1>2, <1>3, <1>4 DEF ReadFile

LEMMA ReturnApart ==
    ASSUME RetrievalInv, NEW i \in Ingesters, Return(i)
    PROVE  Apart(i) /\ job'[i] = Idle
BY IdleType DEF Return, Apart, Frame, RetrievalInv, RetrievalTypeOK, At, Idle

\* The first question about a source: from here on the replacements of the source that
\* overlap know of each other.
Joins(i) ==
    /\ Moves(i, IF server.exists THEN "count" ELSE "ensure")
    /\ job'[i].alone = (OthersAt(i) = {})
    /\ \A j \in OthersAt(i) : ~job'[j].alone

LEMMA ExistsApart ==
    ASSUME RetrievalInv, NEW i \in Ingesters, DeleteExists(i)
    PROVE  Apart(i) /\ server' = server /\ indexed' = indexed /\ (Leaves(i) \/ Joins(i))
<1>1. /\ job[i] \in Job /\ job \in [Ingesters -> Job] /\ At(i, "exists")
      /\ UNCHANGED <<server, ready, creator, indexed>>
  BY JobFields DEF DeleteExists, RetrievalInv, RetrievalTypeOK
<1>2. CASE Raise(i)
  <2>1. Leaves(i) /\ Frees(i)
    BY <1>1, <1>2, RaiseLeaves DEF RetrievalInv, At
  <2>2. QED
    BY <1>1, <2>1, RaiseApart DEF At
<1>3. CASE ~Raise(i)
  <2> DEFINE pc == IF server.exists THEN "count" ELSE "ensure"
             alone == OthersAt(i) = {}
             mine == [job[i] EXCEPT !.pc = pc, !.alone = alone]
  <2>1. /\ job' = [j \in Ingesters |->
                     CASE j = i -> mine
                       [] j \in OthersAt(i) -> [job[j] EXCEPT !.alone = FALSE]
                       [] OTHER -> job[j]]
        /\ lock' = lock
    BY <1>3, Zenon DEF DeleteExists
  <2>2. pc \in {"count", "ensure"} /\ alone \in BOOLEAN
    OBVIOUS
  <2> HIDE DEF pc, alone
  <2>3. /\ mine \in Job /\ mine.pc = pc /\ mine.alone = alone /\ mine.store = job[i].store
        /\ mine.todo = job[i].todo /\ mine.text = job[i].text
    BY <1>1, <2>2 DEF Job, Replacing, Touching
  <2> HIDE DEF mine
  <2>4. \A j \in OthersAt(i) : j \in Ingesters /\ j # i
    BY DEF OthersAt
  <2>5. \A j \in Ingesters \ {i} :
           /\ job'[j] \in Job
           /\ job'[j].pc = job[j].pc /\ job'[j].store = job[j].store
           /\ job'[j].todo = job[j].todo /\ job'[j].text = job[j].text
           /\ job'[j].alone => job[j].alone
           /\ j \in OthersAt(i) => ~job'[j].alone
    <3> SUFFICES ASSUME NEW j \in Ingesters \ {i}
                 PROVE  /\ job'[j] \in Job
                        /\ job'[j].pc = job[j].pc /\ job'[j].store = job[j].store
                        /\ job'[j].todo = job[j].todo /\ job'[j].text = job[j].text
                        /\ job'[j].alone => job[j].alone
                        /\ j \in OthersAt(i) => ~job'[j].alone
      OBVIOUS
    <3>1. job[j] \in Job
      BY <1>1
    <3>2. CASE j \in OthersAt(i)
      <4>1. job'[j] = [job[j] EXCEPT !.alone = FALSE]
        BY <2>1, <3>2
      <4>2. QED
        BY <3>1, <4>1 DEF Job
    <3>3. CASE j \notin OthersAt(i)
      BY <2>1, <3>1, <3>3
    <3>4. QED
      BY <3>2, <3>3
  <2>6. job'[i] = mine /\ job' \in [Ingesters -> Job]
    <3>1. job'[i] = mine
      BY <2>1, <2>4
    <3>2. \A j \in Ingesters : job'[j] \in Job
      BY <2>3, <2>5, <3>1
    <3>3. job' = [j \in Ingesters |-> job'[j]]
      BY <2>1
    <3>4. QED
      BY <3>1, <3>2, <3>3
  <2>7. Frame(i)
    BY <2>5 DEF Frame
  <2>8. Moves(i, pc)
    BY <2>3, <2>6, <2>7 DEF Moves
  <2>9. Joins(i)
    BY <2>3, <2>4, <2>5, <2>6, <2>8 DEF Joins, pc, alone
  <2>10. Apart(i)
    BY <1>1, <2>1, <2>2, <2>3, <2>6, <2>7 DEF Apart, At
  <2>11. QED
    BY <1>1, <2>9, <2>10
<1>4. QED
  BY <1>2, <1>3

LEMMA CountApart ==
    ASSUME RetrievalInv, NEW i \in Ingesters, DeleteCount(i)
    PROVE  /\ Apart(i) /\ server' = server /\ indexed' = indexed
           /\ \/ Leaves(i)
              \/ /\ Moves(i, IF server.points[Source(i)] = {} THEN "ensure" ELSE "delete")
                 /\ job'[i].alone = job[i].alone
<1>1. At(i, "count") /\ UNCHANGED <<server, ready, creator, indexed>>
  BY DEF DeleteCount
<1>2. CASE Raise(i)
  <2>1. Leaves(i) /\ Frees(i)
    BY <1>1, <1>2, RaiseLeaves DEF RetrievalInv, At
  <2>2. QED
    BY <1>1, <2>1, RaiseApart DEF At
<1>3. CASE ~Raise(i)
  <2> DEFINE pc == IF server.points[Source(i)] = {} THEN "ensure" ELSE "delete"
  <2>1. Goes(i, pc) /\ lock' = lock
    BY <1>3 DEF DeleteCount
  <2>2. pc \in {"ensure", "delete"}
    OBVIOUS
  <2> HIDE DEF pc
  <2>3. Moves(i, pc) /\ job'[i].alone = job[i].alone
    BY <2>1, <2>2, GoesMoves DEF RetrievalInv, Replacing, Touching
  <2>4. Apart(i)
    BY <1>1, <2>1, <2>2, <2>3 DEF Apart, Moves, At
  <2>5. QED
    BY <1>1, <2>3, <2>4 DEF pc
<1>4. QED
  BY <1>2, <1>3

\* Only the points of one source change.
Writes(s, new) ==
    /\ server'.exists = server.exists /\ server'.index = server.index
    /\ server'.points \in [Sources -> SUBSET Point]
    /\ server'.points[s] = new
    /\ \A r \in Sources \ {s} : server'.points[r] = server.points[r]

LEMMA DeleteApart ==
    ASSUME RetrievalInv, NEW i \in Ingesters, Delete(i)
    PROVE  /\ Apart(i)
           /\ \/ /\ Writes(Source(i), {}) /\ indexed' = indexed
                 /\ Moves(i, "ensure") /\ job'[i].alone = job[i].alone
              \/ server' = server /\ indexed' = indexed /\ Leaves(i)
              \/ Writes(Source(i), {}) /\ Tear(i) /\ Leaves(i)
<1>1. /\ At(i, "delete") /\ UNCHANGED <<ready, creator>>
      /\ server \in [exists : BOOLEAN, index : BOOLEAN, points : [Sources -> SUBSET Point]]
  BY DEF Delete, RetrievalInv, RetrievalTypeOK
<1>2. Source(i) \in Sources
  BY <1>1, SourceType DEF RetrievalInv, At, Replacing
<1>3. ASSUME server' = Without(Source(i))
      PROVE  Writes(Source(i), {})
  BY <1>1, <1>2, <1>3 DEF Without, Writes
<1>4. CASE Raise(i)
  <2>1. Leaves(i) /\ Frees(i)
    BY <1>1, <1>4, RaiseLeaves DEF RetrievalInv, At
  <2>2. \/ server' = server /\ indexed' = indexed
        \/ Writes(Source(i), {}) /\ Tear(i)
        \/ Goes(i, "ensure") /\ lock' = lock /\ Writes(Source(i), {}) /\ indexed' = indexed
    BY <1>3, <1>4 DEF Delete
  <2>3. Apart(i)
    BY <1>1, <2>1, <2>2, RaiseApart DEF At, Writes
  <2>4. CASE Goes(i, "ensure")
    <3>1. Moves(i, "ensure")
      BY <2>4, GoesMoves DEF RetrievalInv, Replacing, Touching
    <3>2. QED
      BY <2>1, <3>1 DEF Moves, Leaves, Idle
  <2>5. QED
    BY <2>1, <2>2, <2>3, <2>4
<1>5. CASE ~Raise(i)
  <2>1. Goes(i, "ensure") /\ Writes(Source(i), {}) /\ lock' = lock /\ indexed' = indexed
    BY <1>3, <1>5 DEF Delete
  <2>2. Moves(i, "ensure") /\ job'[i].alone = job[i].alone
    BY <2>1, GoesMoves DEF RetrievalInv, Replacing, Touching
  <2>3. Apart(i)
    BY <1>1, <2>1, <2>2 DEF Apart, Moves, Writes, At
  <2>4. QED
    BY <2>1, <2>2, <2>3
<1>6. QED
  BY <1>4, <1>5

LEMMA RejectApart ==
    ASSUME RetrievalInv, NEW i \in Ingesters, RejectBatch(i)
    PROVE  Apart(i) /\ server' = server /\ Tear(i) /\ Leaves(i)
<1>1. /\ At(i, "ensure") /\ UNCHANGED <<server, ready, creator>> /\ Tear(i) /\ Raise(i)
  BY DEF RejectBatch
<1>2. Leaves(i) /\ Frees(i)
  BY <1>1, RaiseLeaves DEF RetrievalInv, At
<1>3. QED
  BY <1>1, <1>2, RaiseApart DEF At

-----------------------------------------------------------------------------
\* _ensure_collection and upsert.

\* A call that may have deleted the old chunks goes on, or fails and leaves them torn.
GoesOn(i) == \E pc \in Touching : Moves(i, pc) /\ job'[i].alone = job[i].alone /\ indexed' = indexed
Fails(i) == Leaves(i) /\ Tear(i)

LEMMA GoesOnTo ==
    ASSUME RetrievalInv, NEW i \in Ingesters, NEW pc \in Touching, Goes(i, pc), indexed' = indexed
    PROVE  GoesOn(i) /\ Moves(i, pc)
BY GoesMoves DEF RetrievalInv, GoesOn, Replacing

LEMMA EnsureStep ==
    ASSUME RetrievalInv, NEW i \in Ingesters, EnsureCollection(i)
    PROVE  CreationInv' /\ CollectionSound' /\ (GoesOn(i) \/ Fails(i)) /\ server' = server
<1>1. /\ At(i, "ensure") /\ UNCHANGED <<server, creator>> /\ Store(i) \in Stores
      /\ ready \in [Stores -> BOOLEAN]
  BY DEF EnsureCollection, RetrievalInv, RetrievalTypeOK, JobsInv, At
<1>2. CASE Raise(i) /\ Tear(i) /\ ready' = ready
  <2>1. Leaves(i) /\ Frees(i)
    BY <1>1, <1>2, RaiseLeaves DEF RetrievalInv, At
  <2>2. Apart(i)
    BY <1>1, <1>2, <2>1, RaiseApart DEF At
  <2>3. QED
    BY <1>1, <1>2, <2>1, <2>2, ApartStep DEF Fails
<1>3. CASE /\ Goes(i, "upsert") /\ lock' = lock /\ indexed' = indexed /\ server.exists
           /\ ready' = ready \/ ready' = [ready EXCEPT ![Store(i)] = TRUE]
  <2>1. GoesOn(i) /\ Moves(i, "upsert")
    BY <1>3, GoesOnTo DEF Touching
  <2>2. \A st \in Stores : ready[st] => ready'[st]
    BY <1>1, <1>3
  <2>3. CreationInv'
    BY <1>1, <1>3, <2>1, <2>2 DEF Moves, Frame, RetrievalInv, CreationInv, JobsInv, At, Store
  <2>4. CollectionSound'
    BY <1>1, <1>3, <2>1, <2>2 DEF Moves, Frame, RetrievalInv, CollectionSound, At, Store
  <2>5. QED
    BY <1>1, <2>1, <2>3, <2>4
<1>4. CASE /\ Goes(i, "lock") /\ lock' = lock /\ indexed' = indexed /\ ready' = ready
           /\ ~server.exists
  <2>1. GoesOn(i) /\ Moves(i, "lock")
    BY <1>4, GoesOnTo DEF Touching
  <2>2. creator = NoStore /\ NoStore \notin Stores
    BY <1>4, RetrievalAssumption DEF RetrievalInv, CreationInv, NoStore
  <2>3. CreationInv'
    BY <1>1, <1>4, <2>1, <2>2 DEF Moves, Frame, RetrievalInv, CreationInv, JobsInv, At, Store
  <2>4. CollectionSound'
    BY <1>1, <1>4, <2>1 DEF Moves, Frame, RetrievalInv, CollectionSound, At, Store
  <2>5. QED
    BY <1>1, <2>1, <2>3, <2>4
<1>5. ready[Store(i)] => server.exists
  BY <1>1 DEF RetrievalInv, CollectionSound
<1>6. QED
  BY <1>1, <1>2, <1>3, <1>4, <1>5 DEF EnsureCollection

LEMMA TakeLockStep ==
    ASSUME RetrievalInv, NEW i \in Ingesters, TakeLock(i)
    PROVE  CreationInv' /\ CollectionSound' /\ GoesOn(i) /\ server' = server
<1>1. /\ At(i, "lock") /\ UNCHANGED <<server, ready, creator, indexed>> /\ Store(i) \in Stores
      /\ lock \in [Stores -> Ingesters \cup {"free"}] /\ lock[Store(i)] = "free"
      /\ "free" \notin Ingesters
  BY RetrievalAssumption DEF TakeLock, RetrievalInv, RetrievalTypeOK, JobsInv, At
<1>2. CASE Goes(i, "upsert") /\ lock' = lock /\ ready[Store(i)]
  <2>1. GoesOn(i) /\ Moves(i, "upsert")
    BY <1>1, <1>2, GoesOnTo DEF Touching
  <2>2. CreationInv'
    BY <1>1, <1>2, <2>1 DEF Moves, Frame, RetrievalInv, CreationInv, At, Store
  <2>3. CollectionSound'
    BY <1>1, <1>2, <2>1 DEF Moves, Frame, RetrievalInv, CollectionSound, At, Store
  <2>4. QED
    BY <1>1, <2>1, <2>2, <2>3
<1>3. CASE Goes(i, "create") /\ lock' = [lock EXCEPT ![Store(i)] = i] /\ ~ready[Store(i)]
  <2>1. GoesOn(i) /\ Moves(i, "create")
    BY <1>1, <1>3, GoesOnTo DEF Touching
  <2>2. creator # Store(i)
    BY <1>1, <1>3 DEF RetrievalInv, CreationInv
  <2>3. \A st \in Stores : lock'[st] = IF st = Store(i) THEN i ELSE lock[st]
    BY <1>1, <1>3
  <2>4. CreationInv'
    BY <1>1, <1>3, <2>1, <2>3 DEF Moves, Frame, RetrievalInv, CreationInv, JobsInv, At, Store
  <2>5. CollectionSound'
    BY <1>1, <1>3, <2>1, <2>2, <2>3 DEF Moves, Frame, RetrievalInv, CollectionSound, At, Store
  <2>6. QED
    BY <1>1, <2>1, <2>4, <2>5
<1>4. QED
  BY <1>2, <1>3 DEF TakeLock

\* What holding the lock tells about the other threads.
LEMMA LockFacts ==
    ASSUME RetrievalInv, NEW i \in Ingesters, job[i].pc \in {"create", "index"}
    PROVE  /\ Store(i) \in Stores /\ lock[Store(i)] = i
           /\ \A j \in Ingesters \ {i} :
                 Store(j) = Store(i) => job[j].pc \notin {"create", "index"}
<1>1. Store(i) \in Stores
  BY DEF RetrievalInv, JobsInv, At
<1>2. QED
  BY <1>1 DEF RetrievalInv, CollectionSound

LEMMA CreateStep ==
    ASSUME RetrievalInv, NEW i \in Ingesters, CreateCollection(i)
    PROVE  /\ CreationInv' /\ CollectionSound' /\ (GoesOn(i) \/ Fails(i))
           /\ server'.points = server.points /\ (server.exists => server'.exists)
           /\ server'.exists \in BOOLEAN /\ server'.index \in BOOLEAN
<1>1. /\ At(i, "create") /\ ready' = ready
      /\ server \in [exists : BOOLEAN, index : BOOLEAN, points : [Sources -> SUBSET Point]]
  BY DEF CreateCollection, RetrievalInv, RetrievalTypeOK
<1>2. /\ Store(i) \in Stores /\ lock[Store(i)] = i
      /\ \A j \in Ingesters \ {i} :
            Store(j) = Store(i) => job[j].pc \notin {"create", "index"}
  BY <1>1, LockFacts DEF At
<1>3. CutShort \notin Stores /\ NoStore \notin Stores /\ "free" \notin Ingesters
  BY RetrievalAssumption DEF CutShort, NoStore
<1>4. CASE /\ Raise(i) /\ Tear(i)
           /\ \/ server.exists /\ UNCHANGED <<server, creator>>
              \/ ~server.exists /\ (Created(CutShort) \/ UNCHANGED <<server, creator>>)
  <2>1. Leaves(i) /\ Frees(i)
    BY <1>1, <1>4, RaiseLeaves DEF RetrievalInv, At
  <2>2. /\ server'.index = server.index /\ server'.points = server.points
        /\ server.exists => server'.exists
        /\ server'.exists \in BOOLEAN
        /\ \/ server'.exists = server.exists /\ creator' = creator
           \/ server'.exists /\ creator' = CutShort
    BY <1>1, <1>4 DEF Created
  <2>3. creator # Store(i)
    BY <1>1, <1>2, <1>3 DEF RetrievalInv, CollectionSound, CreationInv
  <2>4. CreationInv'
    <3>1. ASSUME NEW j \in Ingesters, At(j, "index")'
          PROVE  server'.exists /\ creator' = Store(j)'
      BY <1>1, <1>2, <1>3, <1>4, <2>1, <2>2, <3>1
         DEF Leaves, Frame, RetrievalInv, CreationInv, JobsInv, At, Store, Idle
    <3>2. ASSUME NEW j \in Ingesters, At(j, "lock")', creator' = Store(j)'
          PROVE  (ready[Store(j)] \/ lock[Store(j)] # "free")'
      <4>1. /\ j # i /\ At(j, "lock") /\ Store(j)' = Store(j) /\ Store(j) \in Stores
        BY <2>1, <3>2 DEF Leaves, Frame, At, Store, Idle, RetrievalInv, JobsInv
      <4>2. creator' = creator
        BY <1>3, <2>2, <3>2, <4>1
      <4>3. ready[Store(j)] \/ lock[Store(j)] # "free"
        BY <3>2, <4>1, <4>2 DEF RetrievalInv, CreationInv
      <4>4. Store(j) # Store(i)
        BY <2>3, <3>2, <4>1, <4>2
      <4>5. QED
        BY <1>1, <2>1, <4>1, <4>3, <4>4 DEF Frees
    <3>3. ~server'.exists => creator' = NoStore
      BY <2>2 DEF RetrievalInv, CreationInv
    <3>4. QED
      BY <3>1, <3>2, <3>3 DEF CreationInv
  <2>5. CollectionSound'
    BY <1>1, <1>2, <1>3, <2>1, <2>2
       DEF Leaves, Frees, Frame, RetrievalInv, CreationInv, CollectionSound, JobsInv, At, Store, Idle
  <2>6. QED
    BY <1>1, <1>4, <2>1, <2>2, <2>4, <2>5 DEF Fails
<1>5. CASE /\ ~server.exists /\ Created(Store(i)) /\ Goes(i, "index")
           /\ lock' = lock /\ indexed' = indexed
  <2>1. GoesOn(i) /\ Moves(i, "index")
    BY <1>5, GoesOnTo DEF Touching
  <2>2. /\ server'.index = server.index /\ server'.points = server.points
        /\ server'.exists /\ creator' = Store(i)
    BY <1>1, <1>5 DEF Created
  <2>3. CreationInv'
    BY <1>1, <1>2, <1>3, <1>5, <2>1, <2>2
       DEF Moves, Frame, RetrievalInv, CreationInv, JobsInv, At, Store
  <2>4. CollectionSound'
    BY <1>1, <1>2, <1>3, <1>5, <2>1, <2>2
       DEF Moves, Frame, RetrievalInv, CollectionSound, JobsInv, At, Store
  <2>5. QED
    BY <1>1, <2>1, <2>2, <2>3, <2>4
<1>6. QED
  BY <1>4, <1>5 DEF CreateCollection

LEMMA IndexStep ==
    ASSUME RetrievalInv, NEW i \in Ingesters, CreateIndex(i)
    PROVE  /\ CreationInv' /\ CollectionSound' /\ (GoesOn(i) \/ Fails(i))
           /\ server'.points = server.points /\ server'.exists = server.exists
           /\ server'.index \in BOOLEAN
<1>1. /\ At(i, "index") /\ server.exists /\ creator = Store(i)
      /\ server \in [exists : BOOLEAN, index : BOOLEAN, points : [Sources -> SUBSET Point]]
      /\ lock \in [Stores -> Ingesters \cup {"free"}] /\ ready \in [Stores -> BOOLEAN]
  BY DEF CreateIndex, RetrievalInv, RetrievalTypeOK, CreationInv
<1>2. /\ Store(i) \in Stores /\ lock[Store(i)] = i
      /\ \A j \in Ingesters \ {i} :
            Store(j) = Store(i) => job[j].pc \notin {"create", "index"}
  BY <1>1, LockFacts DEF At
<1>3. CutShort \notin Stores /\ NoStore \notin Stores /\ "free" \notin Ingesters
  BY RetrievalAssumption DEF CutShort, NoStore
<1>4. \A j \in Ingesters \ {i} : ~At(j, "index")
  BY <1>1, <1>2 DEF RetrievalInv, CreationInv, At
<1>5. CASE /\ Raise(i) /\ Tear(i) /\ server' \in {server, Indexed} /\ creator' = CutShort
           /\ ready' = ready
  <2>1. Leaves(i) /\ Frees(i)
    BY <1>1, <1>5, RaiseLeaves DEF RetrievalInv, At
  <2>2. /\ server'.points = server.points /\ server'.exists = server.exists
        /\ server'.index \in BOOLEAN
    BY <1>1, <1>5 DEF Indexed
  <2>3. CreationInv'
    BY <1>1, <1>3, <1>4, <1>5, <2>1, <2>2
       DEF Leaves, Frame, RetrievalInv, CreationInv, JobsInv, At, Store, Idle
  <2>4. CollectionSound'
    BY <1>1, <1>2, <1>3, <1>5, <2>1, <2>2
       DEF Leaves, Frees, Frame, RetrievalInv, CollectionSound, JobsInv, At, Store, Idle
  <2>5. QED
    BY <1>5, <2>1, <2>2, <2>3, <2>4 DEF Fails
<1>6. CASE /\ server' = Indexed /\ ready' = [ready EXCEPT ![Store(i)] = TRUE]
           /\ lock' = [lock EXCEPT ![Store(i)] = "free"]
           /\ Goes(i, "upsert") /\ creator' = creator /\ indexed' = indexed
  <2>1. GoesOn(i) /\ Moves(i, "upsert")
    BY <1>6, GoesOnTo DEF Touching
  <2>2. /\ server'.points = server.points /\ server'.exists = server.exists /\ server'.index
    BY <1>1, <1>6 DEF Indexed
  <2>3. /\ \A st \in Stores : lock'[st] = IF st = Store(i) THEN "free" ELSE lock[st]
        /\ \A st \in Stores : ready'[st] = (st = Store(i) \/ ready[st])
    BY <1>1, <1>6
  <2>4. CreationInv'
    BY <1>1, <1>3, <1>4, <1>6, <2>1, <2>2, <2>3
       DEF Moves, Frame, RetrievalInv, CreationInv, JobsInv, At, Store
  <2>5. CollectionSound'
    BY <1>1, <1>2, <1>3, <1>6, <2>1, <2>2, <2>3
       DEF Moves, Frame, RetrievalInv, CollectionSound, JobsInv, At, Store
  <2>6. QED
    BY <2>1, <2>2, <2>4, <2>5
<1>7. QED
  BY <1>5, <1>6 DEF CreateIndex

\* What the points of the source of i become when its chunks are upserted.
Upserted(i) ==
    {c \in server.points[Source(i)] : \A d \in Chunks[job[i].text] : d.index # c.index}
        \cup Chunks[job[i].text]

LEMMA WithWrites ==
    ASSUME RetrievalInv, NEW i \in Ingesters, At(i, "upsert"),
           server' = With(Source(i), Chunks[job[i].text])
    PROVE  Writes(Source(i), Upserted(i))
<1>1. Source(i) \in Sources
  BY SourceType DEF RetrievalInv, At, Replacing, Touching
<1>2. Chunks[job[i].text] \subseteq Point
  BY DEF RetrievalInv, JobsInv, At, Replacing, Touching, Point
<1>3. server \in [exists : BOOLEAN, index : BOOLEAN, points : [Sources -> SUBSET Point]]
  BY DEF RetrievalInv, RetrievalTypeOK
<1>4. Upserted(i) \subseteq Point
  BY <1>1, <1>2, <1>3 DEF Upserted
<1>5. server' = [server EXCEPT !.points = [server.points EXCEPT ![Source(i)] = Upserted(i)]]
  BY DEF With, Upserted
<1> HIDE DEF Upserted
<1>6. QED
  BY <1>1, <1>3, <1>4, <1>5 DEF Writes

LEMMA UpsertApart ==
    ASSUME RetrievalInv, NEW i \in Ingesters, Upsert(i)
    PROVE  /\ Apart(i)
           /\ \/ Fails(i) /\ (server' = server \/ Writes(Source(i), Upserted(i)))
              \/ /\ Writes(Source(i), Upserted(i))
                 /\ job'[i].pc = "file" /\ job'[i].store = job[i].store
                 /\ indexed' = [indexed EXCEPT ![Source(i)] =
                                  IF job[i].alone THEN job[i].text ELSE Torn]
<1> DEFINE after == With(Source(i), Chunks[job[i].text])
<1>1. /\ At(i, "upsert") /\ UNCHANGED <<ready, creator>> /\ job[i] \in Job
      /\ job \in [Ingesters -> Job]
  BY JobFields DEF Upsert, RetrievalInv, RetrievalTypeOK
<1>2. server' = after => Writes(Source(i), Upserted(i))
  BY <1>1, WithWrites
<1>3. \/ Raise(i) /\ Tear(i) /\ server' \in {server, after}
      \/ /\ server' = after
         /\ job' = [job EXCEPT ![i].pc = "file", ![i].todo = Tail(@), ![i].text = <<>>,
                               ![i].alone = FALSE]
         /\ indexed' = [indexed EXCEPT ![Source(i)] = IF job[i].alone THEN job[i].text ELSE Torn]
         /\ lock' = lock
  BY DEF Upsert
<1> HIDE DEF after
<1>4. CASE Raise(i) /\ Tear(i) /\ server' \in {server, after}
  <2>1. Leaves(i) /\ Frees(i)
    BY <1>1, <1>4, RaiseLeaves DEF RetrievalInv, At
  <2>2. server' = server \/ Writes(Source(i), Upserted(i))
    BY <1>2, <1>4
  <2>3. Apart(i)
    BY <1>1, <2>1, <2>2, RaiseApart DEF At, Writes
  <2>4. QED
    BY <1>4, <2>1, <2>2, <2>3 DEF Fails
<1>5. CASE /\ server' = after
           /\ job' = [job EXCEPT ![i].pc = "file", ![i].todo = Tail(@), ![i].text = <<>>,
                                 ![i].alone = FALSE]
           /\ indexed' = [indexed EXCEPT ![Source(i)] = IF job[i].alone THEN job[i].text ELSE Torn]
           /\ lock' = lock
  <2> DEFINE new == [job[i] EXCEPT !.pc = "file", !.todo = Tail(job[i].todo),
                                   !.text = <<>>, !.alone = FALSE]
  <2>1. Tail(job[i].todo) \in Seq(Sources)
    BY <1>1, JobFields DEF RetrievalInv, JobsInv, At, Replacing, Touching
  <2>2. new \in Job /\ new.pc = "file" /\ new.store = job[i].store
    BY <1>1, <2>1 DEF Job
  <2>3. job' = [job EXCEPT ![i] = new]
    BY <1>5
  <2> HIDE DEF new
  <2>4. /\ job' \in [Ingesters -> Job] /\ Frame(i)
        /\ job'[i].pc = "file" /\ job'[i].store = job[i].store
    BY <1>1, <2>2, <2>3 DEF Frame
  <2>5. Apart(i)
    BY <1>1, <1>2, <1>5, <2>4 DEF Apart, Writes, At
  <2>6. QED
    BY <1>2, <1>5, <2>4, <2>5
<1>6. QED
  BY <1>3, <1>4, <1>5

\* The process of a store dies: its calls are gone, the others stay where they are.
Dies(st) ==
    /\ job' \in [Ingesters -> Job]
    /\ \A j \in Ingesters : job'[j] = IF Store(j) = st THEN Idle ELSE job[j]

LEMMA KillStep ==
    ASSUME RetrievalInv, NEW st \in Stores, Kill(st)
    PROVE  CreationInv' /\ CollectionSound' /\ Dies(st) /\ server' = server
<1>1. /\ server' = server /\ ready \in [Stores -> BOOLEAN]
      /\ lock \in [Stores -> Ingesters \cup {"free"}] /\ job \in [Ingesters -> Job]
      /\ ready' = [ready EXCEPT ![st] = FALSE] /\ lock' = [lock EXCEPT ![st] = "free"]
      /\ job' = [i \in Ingesters |-> IF i \in {j \in Ingesters : Store(j) = st}
                                     THEN Idle ELSE job[i]]
      /\ creator' = IF \E i \in {j \in Ingesters : Store(j) = st} : At(i, "index")
                    THEN CutShort ELSE creator
  BY DEF Kill, RetrievalInv, RetrievalTypeOK
<1>2. CutShort \notin Stores /\ NoStore \notin Stores /\ "free" \notin Ingesters
  BY RetrievalAssumption DEF CutShort, NoStore
<1>3. Dies(st)
  BY <1>1, IdleType DEF Dies
<1>4. /\ \A s \in Stores : lock'[s] = IF s = st THEN "free" ELSE lock[s]
      /\ \A s \in Stores : ready'[s] = (s # st /\ ready[s])
  BY <1>1
<1>5. \/ creator' = creator /\ ~(\E i \in Ingesters : Store(i) = st /\ At(i, "index"))
      \/ creator' = CutShort /\ server.exists /\ creator = st
         /\ \E i \in Ingesters : Store(i) = st /\ At(i, "index")
  BY <1>1 DEF RetrievalInv, CreationInv
<1>6. CreationInv'
  <2>1. ~server'.exists => creator' = NoStore
    BY <1>1, <1>5 DEF RetrievalInv, CreationInv
  <2>2. ASSUME NEW j \in Ingesters, At(j, "index")'
        PROVE  server'.exists /\ creator' = Store(j)'
    BY <1>1, <1>2, <1>3, <1>5, <2>2 DEF Dies, RetrievalInv, CreationInv, At, Store, Idle
  <2>3. ASSUME NEW j \in Ingesters, At(j, "lock")', creator' = Store(j)'
        PROVE  (ready[Store(j)] \/ lock[Store(j)] # "free")'
    <3>1. /\ Store(j) # st /\ At(j, "lock") /\ Store(j)' = Store(j) /\ Store(j) \in Stores
      BY <1>3, <2>3 DEF Dies, At, Store, Idle, RetrievalInv, JobsInv
    <3>2. creator = Store(j)
      BY <1>2, <1>5, <2>3, <3>1
    <3>3. QED
      BY <1>4, <3>1, <3>2 DEF RetrievalInv, CreationInv
  <2>4. QED
    BY <2>1, <2>2, <2>3 DEF CreationInv
<1>7. CollectionSound'
  <2>1. ASSUME NEW i \in Ingesters, NEW s \in Stores
        PROVE  (lock[s] = i <=> Store(i) = s /\ job[i].pc \in {"create", "index"})'
    BY <1>2, <1>3, <1>4 DEF Dies, RetrievalInv, CollectionSound, Store, Idle
  <2>2. ASSUME NEW i \in Ingesters, At(i, "create")', server'.exists
        PROVE  creator' # Store(i)'
    BY <1>1, <1>2, <1>3, <1>5, <2>2 DEF Dies, RetrievalInv, JobsInv, CollectionSound, At, Store, Idle
  <2>3. /\ \A s \in Stores : ready'[s] => server'.exists
        /\ \A i \in Ingesters : At(i, "upsert")' => server'.exists
    BY <1>1, <1>3, <1>4 DEF Dies, RetrievalInv, CollectionSound, At, Idle
  <2>4. server'.exists /\ ~server'.index =>
           creator' = CutShort \/ \E i \in Ingesters : At(i, "index")'
    BY <1>1, <1>3, <1>5 DEF Dies, RetrievalInv, CollectionSound, At
  <2>5. QED
    BY <2>1, <2>2, <2>3, <2>4 DEF CollectionSound
<1>8. QED
  BY <1>1, <1>3, <1>6, <1>7

-----------------------------------------------------------------------------
\* The replacements of a source.

\* A step of i that neither writes nor starts to.
Outside(i) ==
    /\ Frame(i) /\ job[i].pc \notin Touching /\ job'[i].pc \notin Replacing
    /\ server'.points = server.points /\ server'.exists = server.exists /\ indexed' = indexed

LEMMA OutsideStep ==
    ASSUME RetrievalInv, NEW i \in Ingesters, Outside(i)
    PROVE  ReplacementInv'
BY DEF Outside, Frame, RetrievalInv, ReplacementInv, Source, Replacing

LEMMA JoinsStep ==
    ASSUME RetrievalInv, NEW i \in Ingesters, At(i, "exists"), Joins(i), server' = server,
           indexed' = indexed
    PROVE  ReplacementInv'
<1>1. /\ Frame(i) /\ Source(i)' = Source(i)
      /\ job'[i].pc = IF server.exists THEN "count" ELSE "ensure"
      /\ job'[i].alone = (OthersAt(i) = {})
      /\ \A j \in OthersAt(i) : ~job'[j].alone
      /\ job[i].pc = "exists"
  BY DEF Joins, Moves, Source, At
<1>2. \A j \in Ingesters \ {i} : Source(j)' = Source(j)
  BY <1>1 DEF Frame, Source
<1>3. Source(i) \in Sources
  BY <1>1, SourceType DEF RetrievalInv
<1>4. ASSUME NEW k \in Ingesters, NEW j \in Ingesters,
             job'[k].pc \in Replacing, job'[k].alone,
             job'[j].pc \in Replacing, Source(j)' = Source(k)'
      PROVE  k = j
  <2>1. CASE k = i /\ j # i
    <3>1. OthersAt(i) = {}
      BY <1>1, <1>4, <2>1
    <3>2. j \in OthersAt(i)
      BY <1>1, <1>2, <1>4, <2>1 DEF Frame, OthersAt
    <3>3. QED
      BY <3>1, <3>2
  <2>2. CASE k # i /\ j = i
    BY <1>1, <1>2, <1>4, <2>2 DEF Frame, OthersAt
  <2>3. CASE k # i /\ j # i
    BY <1>1, <1>2, <1>4, <2>3 DEF Frame, RetrievalInv, ReplacementInv
  <2>4. QED
    BY <2>1, <2>2, <2>3
<1>5. ASSUME NEW j \in Ingesters, job'[j].pc \in Touching, job'[j].alone
      PROVE  server'.points[Source(j)'] = {}
  <2>1. CASE j = i
    BY <1>1, <1>3, <1>5, <2>1 DEF RetrievalInv, ReplacementInv, Touching
  <2>2. CASE j # i
    BY <1>1, <1>2, <1>5, <2>2 DEF Frame, RetrievalInv, ReplacementInv
  <2>3. QED
    BY <2>1, <2>2
<1>6. ASSUME NEW s \in Sources, indexed'[s] # Torn,
             ~(\E j \in Ingesters : job'[j].pc \in Touching /\ Source(j)' = s)
      PROVE  server'.points[s] = ChunksOf(indexed'[s], ChunkSize, ChunkOverlap)
  <2>1. ~(\E j \in Ingesters : job[j].pc \in Touching /\ Source(j) = s)
    BY <1>1, <1>2, <1>6 DEF Frame, Touching
  <2>2. QED
    BY <1>6, <2>1 DEF RetrievalInv, ReplacementInv
<1>7. QED
  BY <1>4, <1>5, <1>6 DEF RetrievalInv, ReplacementInv

LEMMA CountStep ==
    ASSUME RetrievalInv, NEW i \in Ingesters, At(i, "count"), server' = server,
           indexed' = indexed, job'[i].alone = job[i].alone,
           Moves(i, IF server.points[Source(i)] = {} THEN "ensure" ELSE "delete")
    PROVE  ReplacementInv'
<1>1. /\ Frame(i) /\ Source(i)' = Source(i) /\ job[i].pc = "count"
      /\ job'[i].pc \in {"ensure", "delete"}
      /\ job'[i].pc = "ensure" => server.points[Source(i)] = {}
  BY DEF Moves, Source, At
<1>2. \A j \in Ingesters : Source(j)' = Source(j)
  BY <1>1 DEF Frame, Source
<1>3. QED
  BY <1>1, <1>2 DEF Frame, RetrievalInv, ReplacementInv, Touching, Replacing

LEMMA DeleteStep ==
    ASSUME RetrievalInv, NEW i \in Ingesters, At(i, "delete"), Writes(Source(i), {}),
           indexed' = indexed, Moves(i, "ensure"), job'[i].alone = job[i].alone
    PROVE  ReplacementInv'
<1>1. /\ Frame(i) /\ Source(i)' = Source(i) /\ job[i].pc = "delete" /\ job'[i].pc = "ensure"
  BY DEF Moves, Source, At
<1>2. \A j \in Ingesters : Source(j)' = Source(j)
  BY <1>1 DEF Frame, Source
<1>3. /\ Source(i) \in Sources
      /\ \A j \in Ingesters : job[j].pc \in Replacing => Source(j) \in Sources
  BY <1>1, SourceType DEF RetrievalInv, Replacing
<1>4. QED
  BY <1>1, <1>2, <1>3 DEF Frame, Writes, RetrievalInv, ReplacementInv, Touching, Replacing

\* An upsert without a fault by a call that was alone, or not.
LEMMA UpsertStep ==
    ASSUME RetrievalInv, NEW i \in Ingesters, At(i, "upsert"), Writes(Source(i), Upserted(i)),
           Frame(i), job'[i].pc = "file",
           indexed' = [indexed EXCEPT ![Source(i)] = IF job[i].alone THEN job[i].text ELSE Torn]
    PROVE  ReplacementInv'
<1>1. \A j \in Ingesters \ {i} : Source(j)' = Source(j)
  BY DEF Frame, Source
<1>2. /\ Source(i) \in Sources /\ server.exists /\ job[i].text \in Texts
      /\ \A j \in Ingesters : job[j].pc \in Replacing => Source(j) \in Sources
      /\ indexed \in [Sources -> Texts \cup {<<>>, Torn}]
  BY SourceType
     DEF RetrievalInv, RetrievalTypeOK, CollectionSound, JobsInv, At, Replacing, Touching
<1>3. CASE job[i].alone
  <2>1. /\ \A j \in Ingesters \ {i} : ~(job[j].pc \in Replacing /\ Source(j) = Source(i))
        /\ server.points[Source(i)] = {}
    BY <1>3 DEF RetrievalInv, ReplacementInv, At, Replacing, Touching
  <2>2. Upserted(i) = ChunksOf(job[i].text, ChunkSize, ChunkOverlap)
    BY <1>2, <2>1 DEF Upserted, Chunks
  <2>3. QED
    BY <1>1, <1>2, <1>3, <2>1, <2>2
       DEF Frame, Writes, RetrievalInv, ReplacementInv, At, Touching, Replacing
<1>4. CASE ~job[i].alone
  <2>1. \A j \in Ingesters \ {i} :
           job[j].pc \in Replacing /\ Source(j) = Source(i) => ~job[j].alone
    BY <1>4 DEF RetrievalInv, ReplacementInv, At, Replacing, Touching
  <2>2. QED
    BY <1>1, <1>2, <1>4, <2>1
       DEF Frame, Writes, RetrievalInv, ReplacementInv, At, Touching, Replacing
<1>5. QED
  BY <1>3, <1>4

\* A call that fails where the old chunks may be gone leaves the source torn, whether
\* the server acted or not.
LEMMA FailsStep ==
    ASSUME RetrievalInv, NEW i \in Ingesters, job[i].pc \in Touching \cup {"delete"}, Fails(i),
           \/ server'.points = server.points /\ (server.exists => server'.exists)
           \/ Writes(Source(i), {})
           \/ Writes(Source(i), Upserted(i)) /\ At(i, "upsert")
    PROVE  ReplacementInv'
<1>1. /\ Frame(i) /\ job'[i].pc = "idle" /\ ~job'[i].alone
      /\ indexed' = [indexed EXCEPT ![Source(i)] = Torn]
      /\ indexed \in [Sources -> Texts \cup {<<>>, Torn}]
  BY DEF Fails, Leaves, Tear, Idle, RetrievalInv, RetrievalTypeOK
<1>2. \A j \in Ingesters \ {i} : Source(j)' = Source(j)
  BY <1>1 DEF Frame, Source
<1>3. /\ Source(i) \in Sources
      /\ \A j \in Ingesters : job[j].pc \in Replacing => Source(j) \in Sources
  BY SourceType DEF RetrievalInv, Replacing
<1>4. indexed'[Source(i)] = Torn /\ \A s \in Sources \ {Source(i)} : indexed'[s] = indexed[s]
  BY <1>1, <1>3
<1>5. /\ ~server'.exists => \A s \in Sources : server'.points[s] = {}
      /\ \A s \in Sources \ {Source(i)} : server'.points[s] = server.points[s]
  BY <1>3 DEF Writes, RetrievalInv, ReplacementInv, CollectionSound, At
<1>6. ASSUME NEW j \in Ingesters, job'[j].pc \in Touching, job'[j].alone
      PROVE  server'.points[Source(j)'] = {}
  <2>1. /\ j # i /\ job[j].pc \in Touching /\ job[j].alone /\ Source(j)' = Source(j)
        /\ Source(j) # Source(i) /\ Source(j) \in Sources
    BY <1>1, <1>2, <1>3, <1>6
       DEF Frame, RetrievalInv, ReplacementInv, Touching, Replacing
  <2>2. QED
    BY <1>5, <2>1 DEF RetrievalInv, ReplacementInv
<1>7. ASSUME NEW s \in Sources, indexed'[s] # Torn,
             ~(\E j \in Ingesters : job'[j].pc \in Touching /\ Source(j)' = s)
      PROVE  server'.points[s] = ChunksOf(indexed'[s], ChunkSize, ChunkOverlap)
  <2>1. s # Source(i)
    BY <1>4, <1>7
  <2>2. ~(\E j \in Ingesters : job[j].pc \in Touching /\ Source(j) = s)
    BY <1>1, <1>2, <1>7, <2>1 DEF Frame
  <2>3. QED
    BY <1>4, <1>5, <1>7, <2>1, <2>2 DEF RetrievalInv, ReplacementInv
<1>8. ASSUME NEW k \in Ingesters, NEW j \in Ingesters,
             job'[k].pc \in Replacing, job'[k].alone,
             job'[j].pc \in Replacing, Source(j)' = Source(k)'
      PROVE  k = j
  BY <1>1, <1>2, <1>8 DEF Frame, RetrievalInv, ReplacementInv, Replacing, Touching
<1>9. QED
  BY <1>5, <1>6, <1>7, <1>8 DEF ReplacementInv

LEMMA GoesOnStep ==
    ASSUME RetrievalInv, NEW i \in Ingesters, job[i].pc \in Touching, GoesOn(i),
           server'.points = server.points, server.exists => server'.exists
    PROVE  ReplacementInv'
<1>1. /\ Frame(i) /\ job'[i].pc \in Touching /\ job'[i].alone = job[i].alone
      /\ indexed' = indexed
      /\ \A j \in Ingesters : Source(j)' = Source(j)
  BY DEF GoesOn, Moves, Frame, Source
<1>2. QED
  BY <1>1 DEF Frame, RetrievalInv, ReplacementInv, Replacing

LEMMA KillReplacements ==
    ASSUME RetrievalInv, NEW st \in Stores, Kill(st), Dies(st), server' = server
    PROVE  ReplacementInv'
<1>1. \A s \in Sources :
         indexed'[s] = IF \E i \in Ingesters : /\ Store(i) = st /\ job[i].pc \in Touching
                                               /\ Source(i) = s
                       THEN Torn ELSE indexed[s]
  BY DEF Kill
<1>2. \A j \in Ingesters : job'[j].pc \in Replacing =>
         Store(j) # st /\ job'[j] = job[j] /\ Source(j)' = Source(j)
  BY DEF Dies, Idle, Replacing, Touching, Source
<1>3. \A j \in Ingesters : job[j].pc \in Touching /\ Store(j) # st =>
         job'[j].pc \in Touching /\ Source(j)' = Source(j)
  BY DEF Dies, Source
<1>4. \A s \in Sources :
         indexed'[s] # Torn /\ ~(\E j \in Ingesters : job'[j].pc \in Touching /\ Source(j)' = s)
         => server'.points[s] = ChunksOf(indexed'[s], ChunkSize, ChunkOverlap)
  BY <1>1, <1>3 DEF RetrievalInv, ReplacementInv
<1>5. QED
  BY <1>2, <1>4 DEF RetrievalInv, ReplacementInv, Replacing

-----------------------------------------------------------------------------
\* The invariant holds.

LEMMA JobsKept ==
    ASSUME RetrievalInv, NEW i \in Ingesters, Frame(i),
           \/ job'[i].pc = "idle"
           \/ job'[i].pc = "file" /\ job'[i].store \in Stores
           \/ /\ job'[i].store \in Stores /\ job'[i].todo # <<>> /\ job'[i].text \in Texts
    PROVE  JobsInv'
BY DEF Frame, RetrievalInv, JobsInv, At, Store, Replacing, Touching

LEMMA JobsMoved ==
    ASSUME RetrievalInv, NEW i \in Ingesters, NEW pc, Moves(i, pc),
           job[i].pc \in {"exists"} \cup Replacing
    PROVE  JobsInv'
<1>1. /\ job'[i].store \in Stores /\ job'[i].todo # <<>> /\ job'[i].text \in Texts /\ Frame(i)
  BY DEF Moves, RetrievalInv, JobsInv, At, Store, Replacing, Touching
<1>2. QED
  BY <1>1, JobsKept

LEMMA JobsLeft == ASSUME RetrievalInv, NEW i \in Ingesters, Leaves(i) PROVE JobsInv'
BY JobsKept DEF Leaves, Idle

\* Types, action by action: what is left once the places of the calls are known.
LEMMA TypesKept ==
    ASSUME RetrievalInv, NEW i \in Ingesters, IngestStep(i), job' \in [Ingesters -> Job]
    PROVE  RetrievalTypeOK'
<1>1. /\ server \in [exists : BOOLEAN, index : BOOLEAN, points : [Sources -> SUBSET Point]]
      /\ ready \in [Stores -> BOOLEAN] /\ lock \in [Stores -> Ingesters \cup {"free"}]
      /\ faults \in Nat /\ creator \in Stores \cup {NoStore, CutShort}
      /\ indexed \in [Sources -> Texts \cup {<<>>, Torn}]
      /\ Store(i) \in Stores
  <2>1. ~At(i, "idle")
    BY DEF IngestStep, ReadFile, Return, DeleteExists, DeleteCount, Delete, RejectBatch,
           EnsureCollection, TakeLock, CreateCollection, CreateIndex, Upsert, At
  <2>2. QED
    BY <2>1 DEF RetrievalInv, RetrievalTypeOK, JobsInv
<1>2. faults' \in Nat
  <2>1. faults' = faults \/ Fault
    BY DEF IngestStep, ReadFile, Return, DeleteExists, DeleteCount, Delete, RejectBatch,
           EnsureCollection, TakeLock, CreateCollection, CreateIndex, Upsert, NoFault
  <2>2. QED
    BY <1>1, <2>1 DEF Fault
<1>3. ready' \in [Stores -> BOOLEAN]
  <2>1. ready' = ready \/ ready' = [ready EXCEPT ![Store(i)] = TRUE]
    BY DEF IngestStep, ReadFile, Return, DeleteExists, DeleteCount, Delete, RejectBatch,
           EnsureCollection, TakeLock, CreateCollection, CreateIndex, Upsert
  <2>2. QED
    BY <1>1, <2>1
<1>4. lock' \in [Stores -> Ingesters \cup {"free"}]
  <2>1. Raise(i) => lock' \in [Stores -> Ingesters \cup {"free"}]
    BY <1>1 DEF Raise
  <2>2. QED
    BY <1>1, <2>1
       DEF IngestStep, ReadFile, Return, DeleteExists, DeleteCount, Delete, RejectBatch,
           EnsureCollection, TakeLock, CreateCollection, CreateIndex, Upsert
<1>5. creator' \in Stores \cup {NoStore, CutShort}
  BY <1>1 DEF IngestStep, ReadFile, Return, DeleteExists, DeleteCount, Delete, RejectBatch,
              EnsureCollection, TakeLock, CreateCollection, CreateIndex, Upsert, Created
<1>6. indexed' \in [Sources -> Texts \cup {<<>>, Torn}]
  <2>1. Tear(i) => indexed' \in [Sources -> Texts \cup {<<>>, Torn}]
    BY <1>1 DEF Tear
  <2>2. Upsert(i) => indexed' \in [Sources -> Texts \cup {<<>>, Torn}]
    BY <1>1, <2>1, JobFields DEF Upsert, RetrievalInv
  <2>3. QED
    BY <1>1, <2>1, <2>2
       DEF IngestStep, ReadFile, Return, DeleteExists, DeleteCount, Delete, RejectBatch,
           EnsureCollection, TakeLock, CreateCollection, CreateIndex
<1>7. server' \in [exists : BOOLEAN, index : BOOLEAN, points : [Sources -> SUBSET Point]]
  <2>1. CASE Delete(i)
    BY <1>1, <2>1 DEF Delete, Without
  <2>2. CASE Upsert(i)
    <3> DEFINE chunks == Chunks[job[i].text]
               new == {c \in server.points[Source(i)] : \A d \in chunks : d.index # c.index}
                        \cup chunks
    <3>1. /\ server' = server \/ server' = [server EXCEPT !.points[Source(i)] = new]
          /\ At(i, "upsert")
      BY <2>2 DEF Upsert, With
    <3>2. Source(i) \in Sources /\ chunks \subseteq Point
      BY <3>1, SourceType DEF RetrievalInv, JobsInv, At, Replacing, Touching, Point
    <3>3. new \subseteq Point
      BY <1>1, <3>2
    <3> HIDE DEF new
    <3>4. QED
      BY <1>1, <3>1, <3>2, <3>3
  <2>3. CASE CreateCollection(i)
    BY <1>1, <2>3 DEF CreateCollection, Created
  <2>4. CASE CreateIndex(i)
    BY <1>1, <2>4 DEF CreateIndex, Indexed
  <2>5. QED
    BY <1>1, <2>1, <2>2, <2>3, <2>4
       DEF IngestStep, ReadFile, Return, DeleteExists, DeleteCount, RejectBatch,
           EnsureCollection, TakeLock
<1>8. QED
  BY <1>2, <1>3, <1>4, <1>5, <1>6, <1>7 DEF RetrievalTypeOK

LEMMA IngestStepInv ==
    ASSUME RetrievalInv, NEW i \in Ingesters, IngestStep(i)
    PROVE  RetrievalInv'
<1> DEFINE Kept == job' \in [Ingesters -> Job] /\ JobsInv' /\ CreationInv' /\ CollectionSound'
                     /\ ReplacementInv'
<1> SUFFICES Kept
  BY TypesKept DEF RetrievalInv
<1>1. ASSUME Apart(i), JobsInv', ReplacementInv'
      PROVE  Kept
  BY <1>1, ApartStep DEF Apart
<1>2. ASSUME CreationInv', CollectionSound', GoesOn(i) \/ Fails(i), job[i].pc \in Touching,
             server'.points = server.points, server.exists => server'.exists
      PROVE  Kept
  <2>1. JobsInv' /\ job' \in [Ingesters -> Job]
    BY <1>2, JobsMoved, JobsLeft DEF GoesOn, Fails, Moves, Leaves, Replacing
  <2>2. ReplacementInv'
    BY <1>2, GoesOnStep, FailsStep
  <2>3. QED
    BY <1>2, <2>1, <2>2
<1>3. CASE ReadFile(i)
  <2>1. /\ Apart(i) /\ job[i].pc = "file" /\ job[i].store \in Stores
        /\ \/ job'[i].pc = "idle"
           \/ job'[i].pc = "file" /\ job'[i].store \in Stores
           \/ /\ job'[i].pc = "exists" /\ job'[i].store \in Stores
              /\ job'[i].todo # <<>> /\ job'[i].text \in Texts
    <3>1. job[i].pc = "file"
      BY <1>3 DEF ReadFile, At
    <3>2. job[i].store \in Stores
      BY <3>1 DEF RetrievalInv, JobsInv, At, Store
    <3>3. QED
      BY <1>3, <3>1, <3>2, ReadApart DEF Idle
  <2>2. JobsInv'
    BY <2>1, JobsKept DEF Apart
  <2>3. server' = server /\ indexed' = indexed
    BY <1>3 DEF ReadFile
  <2>4. Outside(i)
    BY <2>1, <2>3 DEF Outside, Apart, Replacing, Touching
  <2>5. QED
    BY <1>1, <2>1, <2>2, <2>4, OutsideStep
<1>4. CASE Return(i)
  <2>1. Apart(i) /\ job'[i].pc = "idle"
    BY <1>4, ReturnApart DEF Idle
  <2>2. Outside(i)
    BY <1>4, <2>1 DEF Return, Outside, Apart, Replacing, Touching, At
  <2>3. QED
    BY <1>1, <2>1, <2>2, JobsKept, OutsideStep DEF Apart
<1>5. CASE DeleteExists(i)
  <2>1. /\ Apart(i) /\ server' = server /\ indexed' = indexed /\ (Leaves(i) \/ Joins(i))
        /\ At(i, "exists")
    BY <1>5, ExistsApart DEF DeleteExists
  <2>2. CASE Leaves(i)
    <3>1. Outside(i)
      BY <2>1, <2>2 DEF Outside, Leaves, Idle, At, Replacing, Touching
    <3>2. QED
      BY <1>1, <2>1, <2>2, <3>1, JobsLeft, OutsideStep
  <2>3. CASE Joins(i)
    <3>1. JobsInv'
      BY <2>1, <2>3, JobsMoved DEF Joins, At
    <3>2. QED
      BY <1>1, <2>1, <2>3, <3>1, JoinsStep
  <2>4. QED
    BY <2>1, <2>2, <2>3
<1>6. CASE DeleteCount(i)
  <2>1. /\ Apart(i) /\ server' = server /\ indexed' = indexed /\ At(i, "count")
        /\ \/ Leaves(i)
           \/ /\ Moves(i, IF server.points[Source(i)] = {} THEN "ensure" ELSE "delete")
              /\ job'[i].alone = job[i].alone
    BY <1>6, CountApart DEF DeleteCount
  <2>2. CASE Leaves(i)
    <3>1. Outside(i)
      BY <2>1, <2>2 DEF Outside, Leaves, Idle, At, Replacing, Touching
    <3>2. QED
      BY <1>1, <2>1, <2>2, <3>1, JobsLeft, OutsideStep
  <2>3. CASE ~Leaves(i)
    <3>1. JobsInv'
      BY <2>1, <2>3, JobsMoved DEF At, Replacing
    <3>2. QED
      BY <1>1, <2>1, <2>3, <3>1, CountStep
  <2>4. QED
    BY <2>2, <2>3
<1>7. CASE Delete(i)
  <2>1. /\ Apart(i) /\ At(i, "delete")
        /\ \/ /\ Writes(Source(i), {}) /\ indexed' = indexed
              /\ Moves(i, "ensure") /\ job'[i].alone = job[i].alone
           \/ server' = server /\ indexed' = indexed /\ Leaves(i)
           \/ Writes(Source(i), {}) /\ Tear(i) /\ Leaves(i)
    BY <1>7, DeleteApart DEF Delete
  <2>2. CASE /\ Writes(Source(i), {}) /\ indexed' = indexed
             /\ Moves(i, "ensure") /\ job'[i].alone = job[i].alone
    <3>1. JobsInv'
      BY <2>1, <2>2, JobsMoved DEF At, Replacing
    <3>2. QED
      BY <1>1, <2>1, <2>2, <3>1, DeleteStep
  <2>3. CASE server' = server /\ indexed' = indexed /\ Leaves(i)
    <3>1. Outside(i)
      BY <2>1, <2>3 DEF Outside, Leaves, Idle, At, Replacing, Touching
    <3>2. QED
      BY <1>1, <2>1, <2>3, <3>1, JobsLeft, OutsideStep
  <2>4. CASE Writes(Source(i), {}) /\ Tear(i) /\ Leaves(i)
    <3>1. ReplacementInv'
      BY <2>1, <2>4, FailsStep DEF Fails, At
    <3>2. QED
      BY <1>1, <2>1, <2>4, <3>1, JobsLeft
  <2>5. QED
    BY <2>1, <2>2, <2>3, <2>4
<1>8. CASE RejectBatch(i)
  <2>1. Apart(i) /\ server' = server /\ Fails(i) /\ job[i].pc \in Touching
    BY <1>8, RejectApart DEF RejectBatch, Fails, At, Touching
  <2>2. ReplacementInv'
    BY <2>1, FailsStep
  <2>3. QED
    BY <1>1, <2>1, <2>2, JobsLeft DEF Fails
<1>9. CASE EnsureCollection(i)
  BY <1>2, <1>9, EnsureStep DEF EnsureCollection, At, Touching
<1>10. CASE TakeLock(i)
  BY <1>2, <1>10, TakeLockStep DEF TakeLock, At, Touching
<1>11. CASE CreateCollection(i)
  BY <1>2, <1>11, CreateStep DEF CreateCollection, At, Touching
<1>12. CASE CreateIndex(i)
  BY <1>2, <1>12, IndexStep DEF CreateIndex, At, Touching
<1>13. CASE Upsert(i)
  <2>1. /\ Apart(i) /\ At(i, "upsert") /\ job[i].pc \in Touching
        /\ \/ Fails(i) /\ (server' = server \/ Writes(Source(i), Upserted(i)))
           \/ /\ Writes(Source(i), Upserted(i))
              /\ job'[i].pc = "file" /\ job'[i].store = job[i].store
              /\ indexed' = [indexed EXCEPT ![Source(i)] =
                               IF job[i].alone THEN job[i].text ELSE Torn]
    BY <1>13, UpsertApart DEF Upsert, At, Touching
  <2>2. CASE Fails(i) /\ (server' = server \/ Writes(Source(i), Upserted(i)))
    <3>1. ReplacementInv'
      BY <2>1, <2>2, FailsStep
    <3>2. QED
      BY <1>1, <2>1, <2>2, <3>1, JobsLeft DEF Fails
  <2>3. CASE /\ Writes(Source(i), Upserted(i))
             /\ job'[i].pc = "file" /\ job'[i].store = job[i].store
             /\ indexed' = [indexed EXCEPT ![Source(i)] =
                              IF job[i].alone THEN job[i].text ELSE Torn]
    <3>1. job'[i].store \in Stores /\ Frame(i)
      BY <2>1, <2>3 DEF RetrievalInv, JobsInv, At, Store, Apart
    <3>2. JobsInv' /\ ReplacementInv'
      BY <2>1, <2>3, <3>1, JobsKept, UpsertStep
    <3>3. QED
      BY <1>1, <2>1, <3>2
  <2>4. QED
    BY <2>1, <2>2, <2>3
<1>14. QED
  BY <1>3, <1>4, <1>5, <1>6, <1>7, <1>8, <1>9, <1>10, <1>11, <1>12, <1>13 DEF IngestStep

LEMMA RetrievalInitInv == ASSUME RetrievalInit PROVE RetrievalInv
<1>1. /\ server = [exists |-> FALSE, index |-> FALSE, points |-> [s \in Sources |-> {}]]
      /\ ready = [st \in Stores |-> FALSE] /\ lock = [st \in Stores |-> "free"]
      /\ job = [i \in Ingesters |-> Idle] /\ faults = 0 /\ creator = NoStore
      /\ indexed = [s \in Sources |-> <<>>]
  BY DEF RetrievalInit
<1>2. RetrievalTypeOK
  BY <1>1, IdleType DEF RetrievalTypeOK
<1>3. \A i \in Ingesters : job[i].pc = "idle"
  BY <1>1 DEF Idle
<1>4. JobsInv /\ CreationInv
  BY <1>1, <1>3 DEF JobsInv, CreationInv, At, Replacing, Touching
<1>5. CollectionSound
  BY <1>1, <1>3, RetrievalAssumption DEF CollectionSound, At
<1>6. ChunksOf(<<>>, ChunkSize, ChunkOverlap) = {}
  BY DEF ChunksOf, Marks
<1>7. ReplacementInv
  BY <1>1, <1>3, <1>6 DEF ReplacementInv, Replacing, Touching
<1>8. QED
  BY <1>2, <1>4, <1>5, <1>7 DEF RetrievalInv

LEMMA RetrievalNextInv == RetrievalInv /\ [RetrievalNext]_retrievalVars => RetrievalInv'
<1> SUFFICES ASSUME RetrievalInv, [RetrievalNext]_retrievalVars PROVE RetrievalInv'
  OBVIOUS
<1>1. ASSUME NEW i \in Ingesters, NEW st \in Stores, NEW root \in Roots, Ingest(i, st, root)
      PROVE  RetrievalInv'
  <2>1. /\ Apart(i) /\ job'[i].pc = "file" /\ job'[i].store = st
        /\ UNCHANGED <<server, ready, lock, faults, creator, indexed>> /\ At(i, "idle")
    BY <1>1, IngestApart DEF Ingest
  <2>2. JobsInv'
    BY <2>1, JobsKept DEF Apart
  <2>3. Outside(i)
    BY <2>1 DEF Outside, Apart, At, Replacing, Touching
  <2>4. RetrievalTypeOK'
    BY <2>1 DEF Apart, RetrievalInv, RetrievalTypeOK
  <2>5. QED
    BY <2>1, <2>2, <2>3, <2>4, ApartStep, OutsideStep DEF RetrievalInv
<1>2. ASSUME NEW st \in Stores, Kill(st)
      PROVE  RetrievalInv'
  <2>1. CreationInv' /\ CollectionSound' /\ Dies(st) /\ server' = server /\ ReplacementInv'
    BY <1>2, KillStep, KillReplacements
  <2>2. JobsInv'
    BY <2>1 DEF Dies, RetrievalInv, JobsInv, At, Store, Idle, Replacing, Touching
  <2>3. indexed' \in [Sources -> Texts \cup {<<>>, Torn}]
    BY <1>2 DEF Kill, RetrievalInv, RetrievalTypeOK
  <2>4. /\ ready' \in [Stores -> BOOLEAN] /\ lock' \in [Stores -> Ingesters \cup {"free"}]
        /\ faults' \in Nat /\ creator' \in Stores \cup {NoStore, CutShort}
    BY <1>2 DEF Kill, Fault, RetrievalInv, RetrievalTypeOK
  <2>5. RetrievalTypeOK'
    BY <2>1, <2>3, <2>4 DEF Dies, RetrievalInv, RetrievalTypeOK
  <2>6. QED
    BY <2>1, <2>2, <2>5 DEF RetrievalInv
<1>3. CASE UNCHANGED retrievalVars
  BY <1>3 DEF retrievalVars, RetrievalInv, RetrievalTypeOK, JobsInv, CreationInv, CollectionSound,
              ReplacementInv, At, Store, Source
<1>4. QED
  BY <1>1, <1>2, <1>3, IngestStepInv DEF RetrievalNext

\* Calls, lock, collection and replacements fit together in every reachable state of
\* RagService.ingest over QdrantVectorStore, whatever fails and whoever overlaps.
THEOREM RetrievalCorrect == RetrievalSpec => []RetrievalInv
<1>1. RetrievalInit => RetrievalInv
  BY RetrievalInitInv
<1>2. RetrievalInv /\ [RetrievalNext]_retrievalVars => RetrievalInv'
  BY RetrievalNextInv
<1>3. QED
  BY <1>1, <1>2, PTL DEF RetrievalSpec

\* The threads of a store create the collection once, under its lock, and no upsert is
\* sent before the collection exists (_ensure_collection).
THEOREM CollectionTheorem == RetrievalSpec => []CollectionSound
<1>1. RetrievalInv => CollectionSound
  BY DEF RetrievalInv
<1>2. QED
  BY <1>1, RetrievalCorrect, PTL

-----------------------------------------------------------------------------
\* chunk_text, for every text, size and overlap.

\* The least element of a set of naturals, which stands in for induction.
LEMMA LeastNat ==
    ASSUME NEW T, T \subseteq Nat, T # {}
    PROVE  \E m \in T : \A k \in T : m <= k
<1> DEFINE R == OpToRel(<, Nat)
<1>1. IsWellFoundedOn(R, Nat)
  BY NatLessThanWellFounded
<1>2. \A x, y \in Nat : <<x, y>> \in R <=> x < y
  BY DEF OpToRel
<1> HIDE DEF R
<1>3. \E x \in T : \A y \in T : ~(<<y, x>> \in R)
  BY <1>1, WFMin
<1>4. PICK m \in T : \A y \in T : <<y, m>> \notin R
  BY <1>3
<1>5. ASSUME NEW k \in T PROVE m <= k
  <2>1. k \in Nat /\ m \in Nat /\ <<k, m>> \notin R
    BY <1>4
  <2>2. ~(k < m)
    BY <1>2, <2>1
  <2>3. QED
    BY <2>1, <2>2
<1>6. QED
  BY <1>5

\* The smaller and the larger of two numbers.
LEMMA MinTwo == \A a, b \in Int : Min({a, b}) = IF a <= b THEN a ELSE b
<1> SUFFICES ASSUME NEW a \in Int, NEW b \in Int PROVE Min({a, b}) = IF a <= b THEN a ELSE b
  OBVIOUS
<1> DEFINE m == IF a <= b THEN a ELSE b
<1>1. m \in {a, b} /\ \A y \in {a, b} : m =< y
  OBVIOUS
<1>2. \A x \in {a, b} : (\A y \in {a, b} : x =< y) => x = m
  OBVIOUS
<1> HIDE DEF m
<1>3. Min({a, b}) = m
  BY <1>1, <1>2 DEF Min
<1>4. QED
  BY <1>3 DEF m

LEMMA MaxTwo == \A a, b \in Int : Max({a, b}) = IF a >= b THEN a ELSE b
<1> SUFFICES ASSUME NEW a \in Int, NEW b \in Int PROVE Max({a, b}) = IF a >= b THEN a ELSE b
  OBVIOUS
<1> DEFINE m == IF a >= b THEN a ELSE b
<1>1. m \in {a, b} /\ \A y \in {a, b} : m >= y
  OBVIOUS
<1>2. \A x \in {a, b} : (\A y \in {a, b} : x >= y) => x = m
  OBVIOUS
<1> HIDE DEF m
<1>3. Max({a, b}) = m
  BY <1>1, <1>2 DEF Max
<1>4. QED
  BY <1>3 DEF m

LEMMA MinInterval == ASSUME NEW a \in Int, NEW b \in Int, a <= b PROVE Min(a .. b) = a
<1>1. a \in a .. b /\ \A y \in a .. b : a =< y
  OBVIOUS
<1>2. \A x \in a .. b : (\A y \in a .. b : x =< y) => x = a
  BY <1>1
<1> DEFINE S == a .. b
<1>3. a \in S /\ (\A y \in S : a =< y) /\ \A x \in S : (\A y \in S : x =< y) => x = a
  BY <1>1, <1>2
<1> HIDE DEF S
<1>4. Min(S) = a
  BY <1>3 DEF Min
<1>5. QED
  BY <1>4 DEF S

\* Ranks: counting the smaller ones numbers a finite set without gaps.
LEMMA Ranks ==
    ASSUME NEW K, IsFiniteSet(K), NEW m \in [K -> Int],
           \A v, w \in K : m[v] = m[w] => v = w
    PROVE  LET rank == [w \in K |-> Cardinality({v \in K : m[v] < m[w]})]
           IN  /\ rank \in Injection(K, 0 .. Cardinality(K) - 1)
               /\ {rank[w] : w \in K} = 0 .. Cardinality(K) - 1
<1> DEFINE below(w) == {v \in K : m[v] < m[w]}
           rank == [w \in K |-> Cardinality(below(w))]
           N == Cardinality(K)
           R == 0 .. N - 1
<1>1. N \in Nat
  BY FS_CardinalityType
<1>2. ASSUME NEW w \in K
      PROVE  IsFiniteSet(below(w)) /\ Cardinality(below(w)) \in Nat /\ Cardinality(below(w)) < N
  <2>1. below(w) \in SUBSET K /\ w \notin below(w)
    OBVIOUS
  <2> HIDE DEF below
  <2>2. /\ IsFiniteSet(below(w)) /\ Cardinality(below(w)) <= N
        /\ Cardinality(K) = Cardinality(below(w)) => K = below(w)
    BY <2>1, FS_Subset
  <2>3. Cardinality(below(w)) \in Nat
    BY <2>2, FS_CardinalityType
  <2>4. QED
    BY <1>1, <2>1, <2>2, <2>3
<1>3. ASSUME NEW v \in K, NEW w \in K, m[v] < m[w]
      PROVE  Cardinality(below(v)) < Cardinality(below(w))
  <2>1. below(v) \in SUBSET below(w) /\ v \in below(w) /\ v \notin below(v)
    BY <1>3
  <2>2. IsFiniteSet(below(w)) /\ Cardinality(below(w)) \in Nat /\ Cardinality(below(v)) \in Nat
    BY <1>2
  <2> HIDE DEF below
  <2>3. /\ Cardinality(below(v)) <= Cardinality(below(w))
        /\ Cardinality(below(w)) = Cardinality(below(v)) => below(w) = below(v)
    BY <2>1, <2>2, FS_Subset
  <2>4. QED
    BY <2>1, <2>2, <2>3
<1>4. rank \in [K -> R]
  <2>1. ASSUME NEW w \in K PROVE Cardinality(below(w)) \in R
    <3>1. Cardinality(below(w)) \in Nat /\ Cardinality(below(w)) < N
      BY <1>2
    <3> HIDE DEF below, N
    <3>2. QED
      BY <1>1, <3>1
  <2> HIDE DEF below, R
  <2>2. QED
    BY <2>1
<1>5. \A v, w \in K : rank[v] = rank[w] => v = w
  <2> SUFFICES ASSUME NEW v \in K, NEW w \in K, rank[v] = rank[w], v # w PROVE FALSE
    OBVIOUS
  <2>1. rank[v] = Cardinality(below(v)) /\ rank[w] = Cardinality(below(w))
    OBVIOUS
  <2>2. Cardinality(below(v)) \in Nat /\ Cardinality(below(w)) \in Nat
    BY <1>2
  <2>3. m[v] < m[w] \/ m[w] < m[v]
    OBVIOUS
  <2>4. Cardinality(below(v)) < Cardinality(below(w)) \/ Cardinality(below(w)) < Cardinality(below(v))
    <3>1. CASE m[v] < m[w]
      BY <1>3, <3>1
    <3>2. CASE m[w] < m[v]
      BY <1>3, <3>2
    <3>3. QED
      BY <2>3, <3>1, <3>2
  <2> DEFINE cv == Cardinality(below(v))
             cw == Cardinality(below(w))
  <2>5. cv = cw /\ cv \in Nat /\ cw \in Nat /\ (cv < cw \/ cw < cv)
    BY <2>1, <2>2, <2>4
  <2> HIDE DEF cv, cw
  <2>6. QED
    BY <2>5
<1>6. rank \in Injection(K, R)
  <2> HIDE DEF rank, R
  <2>1. QED
    BY <1>4, <1>5 DEF Injection, IsInjective
<1>7. IsFiniteSet(R) /\ Cardinality(R) = N
  BY <1>1, FS_Interval
<1>8. rank \in Surjection(K, R)
  <2> HIDE DEF rank, R
  <2>1. QED
    BY <1>6, <1>7, FS_Injection
<1>9. {rank[w] : w \in K} = R
  <2> HIDE DEF rank, R
  <2>1. QED
    BY <1>4, <1>8 DEF Surjection
<1>10. QED
  BY <1>6, <1>9


LEMMA Multiples ==
    ASSUME NEW k \in Nat, NEW s \in Nat, s >= 1
    PROVE  k * s \in Nat /\ k * s >= k /\ (k - 1) * s = k * s - s
OBVIOUS

LEMMA StepRange ==
    ASSUME NEW size \in Int, NEW overlap \in Int, size >= 1
    PROVE  Step(size, overlap) \in Nat /\ Step(size, overlap) >= 1 /\ Step(size, overlap) <= size
<1> DEFINE o == Max({0, overlap})
<1>1. o \in Int /\ o >= 0
  BY MaxTwo
<1> HIDE DEF o
<1>2. size - o \in Int
  BY <1>1
<1>3. Max({1, size - o}) = IF 1 >= size - o THEN 1 ELSE size - o
  BY <1>2, MaxTwo
<1>4. Step(size, overlap) = IF 1 >= size - o THEN 1 ELSE size - o
  BY <1>3 DEF Step, o
<1>5. QED
  BY <1>1, <1>4

\* The windows lie within the text, each that is not empty has a first position of its
\* own, and every position of the text lies in one of them.
LEMMA WindowsCover ==
    ASSUME NEW text \in Seq(BOOLEAN), NEW size \in Int, NEW overlap \in Int
    PROVE  /\ \A w \in Windows(text, size, overlap) : w \subseteq 1 .. Len(text)
           /\ \A w \in Windows(text, size, overlap) : w # {} => Min(w) \in Int
           /\ \A v, w \in Windows(text, size, overlap) :
                  v # {} /\ w # {} /\ Min(v) = Min(w) => v = w
           /\ \A p \in 1 .. Len(text) : \E w \in Windows(text, size, overlap) : p \in w
<1> DEFINE n == Len(text)
           step == Step(size, overlap)
           last(start) == Min({start + size, n})
           S == Starts(n, size, overlap)
           W == Windows(text, size, overlap)
<1>1. n \in Nat /\ DOMAIN text = 1 .. n
  OBVIOUS
<1> HIDE DEF n
<1>2. CASE size <= 0
  <2>1. W = {1 .. n}
    BY <1>1, <1>2 DEF Windows
  <2>2. 1 .. n # {} => Min(1 .. n) \in Int
    BY <1>1, MinInterval
  <2> HIDE DEF W
  <2>3. QED
    BY <2>1, <2>2 DEF W, n
<1>3. CASE size >= 1
  <2>1. step \in Nat /\ step >= 1 /\ step <= size
    BY <1>3, StepRange
  <2>2. S = {k * step : k \in {k \in 0 .. n : k = 0 \/ (k - 1) * step + size < n}}
    BY DEF Starts
  <2>3. W = {(start + 1) .. last(start) : start \in S}
    <3>1. ~(size <= 0)
      BY <1>3
    <3>2. QED
      BY <3>1 DEF Windows, n
  <2> HIDE DEF step, S, W
  <2>4. ASSUME NEW start \in S PROVE start \in Nat
    <3>1. PICK k \in 0 .. n : start = k * step
      BY <2>2
    <3>2. k \in Nat
      BY <1>1
    <3>3. QED
      BY <2>1, <3>1, <3>2, Multiples
  <2>5. ASSUME NEW start \in S
        PROVE  /\ last(start) = IF start + size <= n THEN start + size ELSE n
               /\ last(start) \in Int /\ last(start) <= n
    <3>1. start \in Nat /\ start + size \in Int /\ n \in Int
      BY <1>1, <2>4
    <3>2. QED
      BY <3>1, MinTwo
  <2> HIDE DEF last
  <2>6. ASSUME NEW start \in S
        PROVE  /\ (start + 1) .. last(start) \subseteq 1 .. n
               /\ (start + 1) .. last(start) # {} => Min((start + 1) .. last(start)) = start + 1
    <3>1. start \in Nat /\ last(start) \in Int /\ last(start) <= n
      BY <2>4, <2>5
    <3> DEFINE l == last(start)
    <3> HIDE DEF l
    <3>2. start \in Nat /\ l \in Int /\ l <= n
      BY <3>1 DEF l
    <3>3. (start + 1) .. l \subseteq 1 .. n
      BY <1>1, <3>2
    <3>4. (start + 1) .. l # {} => start + 1 <= l
      BY <3>2
    <3>5. start + 1 <= l => Min((start + 1) .. l) = start + 1
      BY <3>2, MinInterval
    <3>6. QED
      BY <3>3, <3>4, <3>5 DEF l
  <2>7. \A w \in W : w \subseteq 1 .. n
    BY <2>3, <2>6
  <2>8. \A w \in W : w # {} => Min(w) \in Int
    <3> SUFFICES ASSUME NEW w \in W, w # {} PROVE Min(w) \in Int
      OBVIOUS
    <3>1. PICK start \in S : w = (start + 1) .. last(start)
      BY <2>3
    <3>2. QED
      BY <3>1, <2>4, <2>6
  <2>9. \A v, w \in W : v # {} /\ w # {} /\ Min(v) = Min(w) => v = w
    <3> SUFFICES ASSUME NEW v \in W, NEW w \in W, v # {}, w # {}, Min(v) = Min(w) PROVE v = w
      OBVIOUS
    <3>1. PICK a \in S : v = (a + 1) .. last(a)
      BY <2>3
    <3>2. PICK b \in S : w = (b + 1) .. last(b)
      BY <2>3
    <3>3. Min(v) = a + 1 /\ Min(w) = b + 1
      BY <2>6, <3>1, <3>2
    <3>4. a = b
      <4>1. a \in Nat /\ b \in Nat
        BY <2>4
      <4>2. a + 1 = b + 1
        BY <3>3, Zenon
      <4>3. QED
        BY <4>1, <4>2
    <3>5. QED
      BY <3>1, <3>2, <3>4
  <2>10. \A p \in 1 .. n : \E w \in W : p \in w
    <3> SUFFICES ASSUME NEW p \in 1 .. n PROVE \E w \in W : p \in w
      OBVIOUS
    <3>1. p \in Nat /\ 1 <= p /\ p <= n
      BY <1>1
    <3> DEFINE T == {k \in Nat : p <= k * step + size}
    <3>2. n \in T
      <4>1. n * step \in Nat /\ n * step >= n
        BY <1>1, <2>1, Multiples
      <4>2. p <= n * step + size
        BY <1>3, <3>1, <4>1, <1>1
      <4>3. QED
        BY <1>1, <4>2
    <3>3. PICK k \in T : \A j \in T : k <= j
      <4>1. T \subseteq Nat /\ T # {}
        BY <3>2
      <4> HIDE DEF T
      <4>2. QED
        BY <4>1, LeastNat
    <3>4. k \in Nat /\ p <= k * step + size /\ k <= n
      BY <3>2, <3>3
    <3>5. k * step \in Nat /\ (k - 1) * step = k * step - step
      BY <2>1, <3>4, Multiples
    <3>6. k # 0 => (k - 1) * step + size < p
      <4> SUFFICES ASSUME k # 0, ~((k - 1) * step + size < p) PROVE FALSE
        OBVIOUS
      <4>1. k - 1 \in Nat
        BY <3>4
      <4>2. p <= (k - 1) * step + size
        BY <2>1, <3>1, <3>5
      <4>3. k - 1 \in T
        BY <4>1, <4>2
      <4>4. k <= k - 1
        BY <3>3, <4>3
      <4>5. QED
        BY <3>4, <4>4
    <3>7. k * step \in S
      <4>1. k = 0 \/ (k - 1) * step + size < n
        <5>1. (k - 1) * step \in Int
          BY <2>1, <3>5
        <5>2. QED
          BY <3>1, <3>6, <5>1, <1>1
      <4> DEFINE J == {j \in 0 .. n : j = 0 \/ (j - 1) * step + size < n}
      <4>2. k \in J
        BY <1>1, <3>4, <4>1
      <4>3. S = {j * step : j \in J}
        BY <2>2
      <4> HIDE DEF J
      <4>4. QED
        BY <4>2, <4>3
    <3>8. k * step < p
      <4>1. CASE k = 0
        BY <2>1, <3>1, <4>1
      <4>2. CASE k # 0
        BY <2>1, <3>1, <3>5, <3>6, <4>2
      <4>3. QED
        BY <4>1, <4>2
    <3> DEFINE start == k * step
    <3>9. start \in S /\ start \in Nat /\ start < p /\ p <= start + size
      BY <3>4, <3>5, <3>7, <3>8
    <3> HIDE DEF start
    <3>10. p <= last(start) /\ last(start) \in Int
      BY <2>5, <3>1, <3>9
    <3>11. p \in (start + 1) .. last(start)
      BY <3>1, <3>9, <3>10
    <3>12. QED
      BY <2>3, <3>9, <3>11
  <2>11. QED
    BY <2>7, <2>8, <2>9, <2>10 DEF W, n
<1>4. QED
  BY <1>2, <1>3

\* chunk_text loses nothing: whatever the text, the size and the overlap, also those the
\* settings should not hold, the chunks carry the text, are numbered from 0 without gaps
\* and between them hold everything of it that is not blank.
THEOREM ChunksTheorem ==
    ASSUME NEW text \in Seq(BOOLEAN), NEW size \in Int, NEW overlap \in Int
    PROVE  LET chunks == ChunksOf(text, size, overlap)
           IN  /\ \A c \in chunks : c.of = text
               /\ {c.index : c \in chunks} = 0 .. Cardinality(chunks) - 1
               /\ UNION {c.at : c \in chunks} = Marks(text)
<1> DEFINE W == Windows(text, size, overlap)
           M == Marks(text)
           kept == {w \in W : w \cap M # {}}
           m == [w \in kept |-> Min(w)]
           rank == [w \in kept |-> Cardinality({v \in kept : m[v] < m[w]})]
           f == [w \in kept |-> [index |-> rank[w], at |-> w \cap M, of |-> text]]
           chunks == ChunksOf(text, size, overlap)
<1>1. /\ \A w \in W : w \subseteq 1 .. Len(text)
      /\ \A w \in W : w # {} => Min(w) \in Int
      /\ \A v, w \in W : v # {} /\ w # {} /\ Min(v) = Min(w) => v = w
      /\ \A p \in 1 .. Len(text) : \E w \in W : p \in w
  BY WindowsCover
<1>2. M \subseteq 1 .. Len(text)
  BY DEF Marks
<1>3. chunks = {[index |-> Cardinality({v \in kept : Min(v) < Min(w)}), at |-> w \cap M, of |-> text] : w \in kept}
  BY DEF ChunksOf
<1> HIDE DEF W, M, chunks
<1>4. kept \subseteq W /\ \A w \in kept : w # {}
  OBVIOUS
<1>5. IsFiniteSet(kept)
  <2>1. IsFiniteSet(1 .. Len(text))
    BY FS_Interval
  <2>2. kept \in SUBSET (SUBSET (1 .. Len(text))) /\ IsFiniteSet(SUBSET (1 .. Len(text)))
    BY <1>1, <1>4, <2>1, FS_SUBSET
  <2> HIDE DEF kept
  <2>3. QED
    BY <2>2, FS_Subset
<1>6. m \in [kept -> Int] /\ \A v, w \in kept : m[v] = m[w] => v = w
  <2> HIDE DEF kept
  <2>1. QED
    BY <1>1, <1>4
<1>7. chunks = {f[w] : w \in kept}
  <2>1. ASSUME NEW w \in kept
        PROVE  f[w] = [index |-> Cardinality({v \in kept : Min(v) < Min(w)}), at |-> w \cap M, of |-> text]
    <3>1. {v \in kept : m[v] < m[w]} = {v \in kept : Min(v) < Min(w)}
      <4> HIDE DEF kept
      <4>1. QED
        OBVIOUS
    <3>2. f[w] = [index |-> Cardinality({v \in kept : m[v] < m[w]}), at |-> w \cap M, of |-> text]
      <4> HIDE DEF kept, m
      <4>1. QED
        OBVIOUS
    <3> HIDE DEF f
    <3>3. QED
      BY <3>1, <3>2
  <2> HIDE DEF kept, f
  <2>2. QED
    BY <1>3, <2>1
<1> HIDE DEF m
<1>8. /\ rank \in Injection(kept, 0 .. Cardinality(kept) - 1)
      /\ {rank[w] : w \in kept} = 0 .. Cardinality(kept) - 1
  <2> HIDE DEF kept
  <2>1. QED
    BY <1>5, <1>6, Ranks
<1> HIDE DEF rank
<1>9. \A w \in kept : f[w].index = rank[w] /\ f[w].at = w \cap M /\ f[w].of = text
  OBVIOUS
<1>10. f \in Bijection(kept, chunks)
  <2>1. f \in [kept -> chunks]
    <3> HIDE DEF kept
    <3>1. QED
      BY <1>7
  <2>2. \A v, w \in kept : f[v] = f[w] => v = w
    <3>1. \A v, w \in kept : rank[v] = rank[w] => v = w
      BY <1>8 DEF Injection, IsInjective
    <3> HIDE DEF kept, f
    <3>2. QED
      BY <1>9, <3>1
  <2> HIDE DEF kept, f
  <2>3. QED
    BY <1>7, <2>1, <2>2 DEF Bijection, Injection, Surjection, IsInjective
<1> HIDE DEF f
<1>11. Cardinality(chunks) = Cardinality(kept)
  <2> HIDE DEF kept
  <2>1. QED
    BY <1>5, <1>10, FS_Bijection DEF ExistsBijection
<1>12. {c.index : c \in chunks} = 0 .. Cardinality(chunks) - 1
  <2> HIDE DEF kept
  <2>1. {c.index : c \in chunks} = {rank[w] : w \in kept}
    BY <1>7, <1>9
  <2>2. QED
    BY <1>8, <1>11, <2>1
<1>13. \A c \in chunks : c.of = text
  BY <1>7, <1>9
<1>14. UNION {c.at : c \in chunks} = M
  <2>1. ASSUME NEW p \in M PROVE \E w \in kept : p \in w \cap M
    BY <1>1, <1>2
  <2>2. \A c \in chunks : c.at \subseteq M
    BY <1>7, <1>9
  <2> HIDE DEF kept
  <2>3. ASSUME NEW p \in M PROVE \E c \in chunks : p \in c.at
    BY <1>7, <1>9, <2>1
  <2>4. QED
    BY <2>2, <2>3
<1>15. QED
  BY <1>12, <1>13, <1>14 DEF chunks, M

\* What retrieval finds of a source is the text that was last ingested, whole and with
\* nothing of an older one, for any number of ingesters, stores and faults.
THEOREM IndexedTheorem == RetrievalSpec => []IndexedWhole
<1>1. RetrievalInv => IndexedWhole
  <2> SUFFICES ASSUME RetrievalInv,
                      NEW s \in Sources,
                      indexed[s] # Torn,
                      ~(\E i \in Ingesters : job[i].pc \in Replacing /\ Source(i) = s)
               PROVE  /\ \A c \in server.points[s] : c.of = indexed[s]
                      /\ {c.index : c \in server.points[s]} = 0 .. Cardinality(server.points[s]) - 1
                      /\ UNION {c.at : c \in server.points[s]} = Marks(indexed[s])
    BY DEF IndexedWhole
  <2>1. ~(\E i \in Ingesters : job[i].pc \in Touching /\ Source(i) = s)
    BY DEF Replacing
  <2>2. server.points[s] = ChunksOf(indexed[s], ChunkSize, ChunkOverlap)
    BY <2>1 DEF RetrievalInv, ReplacementInv
  <2>3. indexed[s] \in Seq(BOOLEAN)
    <3>1. indexed[s] \in Texts \cup {<<>>}
      BY DEF RetrievalInv, RetrievalTypeOK
    <3>2. <<>> \in Seq(BOOLEAN)
      OBVIOUS
    <3>3. QED
      BY <3>1, <3>2, RetrievalAssumption
  <2>4. ChunkSize \in Int /\ ChunkOverlap \in Int
    BY RetrievalAssumption
  <2>5. QED
    BY <2>2, <2>3, <2>4, ChunksTheorem
<1>2. QED
  BY <1>1, RetrievalCorrect, PTL

=============================================================================
