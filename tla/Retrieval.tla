----------------------------- MODULE Retrieval -----------------------------
(***************************************************************************)
(* Retrieval (rag/) over a Qdrant server: RagService.ingest, which cuts    *)
(* files into chunks and replaces the chunks of each file in the           *)
(* collection, and QdrantVectorStore, which creates the collection on the  *)
(* first upsert.  Ingesters are threads, each in one call at a time; calls *)
(* over the same store share its readiness flag and its lock (one kernel), *)
(* the others only the server (jobs of the console, other processes).      *)
(*                                                                         *)
(* Every call to the server is a step of its own, and may fail before or   *)
(* after the server acts on it.  Files change while they are ingested, and *)
(* the process of a store may be killed and started again.                 *)
(*                                                                         *)
(* A text is the sequence of its characters after strip, of each of which  *)
(* only whether it is not blank is known.  health and search change no     *)
(* state.                                                                  *)
(***************************************************************************)
EXTENDS Integers, Sequences, FiniteSetsExt

CONSTANTS
    Ingesters,
    Stores,
    Sources,      \* files
    Roots,        \* paths given to ingest, as the sequence of the files below them
    Texts,        \* what a file may hold
    Torn,         \* in place of the text of a source whose replacement was disturbed
    ChunkSize,
    ChunkOverlap,
    MaxFaults     \* bound: server calls that fail, embedder faults and kills

ASSUME RetrievalAssumption ==
    /\ Roots \subseteq Seq(Sources)
    /\ Texts \subseteq Seq(BOOLEAN)
    /\ Torn \notin Texts
    /\ \A text \in Texts : text # <<>> => text[1] /\ text[Len(text)]
    /\ ChunkSize \in Int /\ ChunkOverlap \in Int
    /\ MaxFaults \in Nat
    /\ "free" \notin Ingesters
    /\ Stores \cap {"no store", "cut short"} = {}

NoStore == "no store"
CutShort == "cut short"

VARIABLES
    server,   \* the collection: exists, index on source, chunks of every source
    ready,    \* _collection_ready of every store
    lock,     \* the ingester that holds the lock of a store
    job,      \* what every ingester is doing
    faults,
    creator,  \* history: the store that created the collection, or CutShort if it did not finish
    indexed   \* history: the text every source was last replaced with, or Torn

retrievalVars == <<server, ready, lock, job, faults, creator, indexed>>
-----------------------------------------------------------------------------
(* chunk_text. *)

Marks(text) == {p \in DOMAIN text : text[p]}

Step(size, overlap) == Max({1, size - Max({0, overlap})})

\* Windows start Step apart, until one reaches the end.
Starts(n, size, overlap) ==
    LET step == Step(size, overlap)
    IN  {k * step : k \in {k \in 0 .. n : k = 0 \/ (k - 1) * step + size < n}}

Windows(text, size, overlap) ==
    IF size <= 0
    THEN {DOMAIN text}
    ELSE {(start + 1) .. Min({start + size, Len(text)}) : start \in Starts(Len(text), size, overlap)}

\* Windows that hold something, numbered in their order.
ChunksOf(text, size, overlap) ==
    LET kept == {w \in Windows(text, size, overlap) : w \cap Marks(text) # {}}
    IN  {[index |-> Cardinality({v \in kept : Min(v) < Min(w)}), at |-> w \cap Marks(text), of |-> text] : w \in kept}

Chunks == [text \in Texts |-> ChunksOf(text, ChunkSize, ChunkOverlap)]
-----------------------------------------------------------------------------
Idle == [pc |-> "idle", store |-> NoStore, todo |-> <<>>, text |-> <<>>, ragged |-> FALSE, alone |-> FALSE]

RetrievalInit ==
    /\ server = [exists |-> FALSE, index |-> FALSE, points |-> [s \in Sources |-> {}]]
    /\ ready = [st \in Stores |-> FALSE]
    /\ lock = [st \in Stores |-> "free"]
    /\ job = [i \in Ingesters |-> Idle]
    /\ faults = 0
    /\ creator = NoStore
    /\ indexed = [s \in Sources |-> <<>>]

Source(i) == Head(job[i].todo)
Store(i) == job[i].store

\* Between the first question to the server about a source and its upsert; and that
\* part of it in which the old chunks may be gone.
Touching == {"ensure", "lock", "create", "index", "upsert"}
Replacing == {"count", "delete"} \cup Touching

At(i, pc) == job[i].pc = pc
Goes(i, pc) == job' = [job EXCEPT ![i].pc = pc]

Fault == faults < MaxFaults /\ faults' = faults + 1
NoFault == UNCHANGED faults

\* Mutant: the lock is kept by the thread that raised.
RaiseHoldingLock(i) ==
    /\ job' = [job EXCEPT ![i] = Idle]
    /\ UNCHANGED lock

\* An exception ends the call, and leaves the with statement of the lock.
Raise(i) ==
    /\ job' = [job EXCEPT ![i] = Idle]
    /\ lock' = [lock EXCEPT ![Store(i)] = IF @ = i THEN "free" ELSE @]

\* The source the call was about is left without its replacement.
Tear(i) == indexed' = [indexed EXCEPT ![Source(i)] = Torn]
-----------------------------------------------------------------------------
(* RagService.ingest. *)

\* The files below the path, once the health gate and the sandbox let the call pass;
\* when they do not, it returns its error envelope and nothing changes.
Ingest(i, st, root) ==
    /\ At(i, "idle")
    /\ job' = [job EXCEPT ![i].pc = "file", ![i].store = st, ![i].todo = root]
    /\ UNCHANGED <<server, ready, lock, faults, creator, indexed>>

\* One file: it may be gone; a text without chunks is passed over, and its old chunks
\* stay; the embedder may raise or give the wrong number of vectors, which ends the
\* call before any write, or vectors that upsert will refuse.
ReadFile(i) ==
    /\ At(i, "file")
    /\ job[i].todo # <<>>
    /\ \/ Raise(i) /\ NoFault
       \/ \E text \in Texts :
              /\ Chunks[text] = {}
              /\ job' = [job EXCEPT ![i].todo = Tail(@)]
              /\ UNCHANGED lock /\ NoFault
       \/ Raise(i) /\ Fault
       \/ \E text \in Texts, ragged \in BOOLEAN :
              /\ Chunks[text] # {}
              /\ job' = [job EXCEPT ![i].pc = "exists", ![i].text = text, ![i].ragged = ragged]
              /\ UNCHANGED lock
              /\ IF ragged THEN Fault ELSE NoFault
    /\ UNCHANGED <<server, ready, creator, indexed>>

Return(i) ==
    /\ At(i, "file")
    /\ job[i].todo = <<>>
    /\ job' = [job EXCEPT ![i] = Idle]
    /\ UNCHANGED <<server, ready, lock, faults, creator, indexed>>
-----------------------------------------------------------------------------
(* QdrantVectorStore.delete_by_source. *)

OthersAt(i) == {j \in Ingesters \ {i} : job[j].pc \in Replacing /\ Source(j) = Source(i)}

DeleteExists(i) ==
    /\ At(i, "exists")
    /\ \/ Fault /\ Raise(i)
       \/ /\ NoFault
          /\ job' = [j \in Ingesters |->
                        CASE j = i -> [job[i] EXCEPT !.pc = IF server.exists THEN "count" ELSE "ensure",
                                                     !.alone = OthersAt(i) = {}]
                          [] j \in OthersAt(i) -> [job[j] EXCEPT !.alone = FALSE]
                          [] OTHER -> job[j]]
          /\ UNCHANGED lock
    /\ UNCHANGED <<server, ready, creator, indexed>>

\* Mutant: chunks are only overwritten by those with the same id.
DeleteCountSkips(i) ==
    /\ At(i, "count")
    /\ Goes(i, "ensure")
    /\ UNCHANGED <<server, ready, lock, faults, creator, indexed>>

DeleteCount(i) ==
    /\ At(i, "count")
    /\ \/ Fault /\ Raise(i)
       \/ NoFault /\ Goes(i, IF server.points[Source(i)] = {} THEN "ensure" ELSE "delete") /\ UNCHANGED lock
    /\ UNCHANGED <<server, ready, creator, indexed>>

Without(s) == [server EXCEPT !.points[s] = {}]

Delete(i) ==
    /\ At(i, "delete")
    /\ \/ NoFault /\ server' = Without(Source(i)) /\ Goes(i, "ensure") /\ UNCHANGED <<lock, indexed>>
       \/ Fault /\ Raise(i) /\ UNCHANGED <<server, indexed>>
       \/ Fault /\ Raise(i) /\ server' = Without(Source(i)) /\ Tear(i)
    /\ UNCHANGED <<ready, creator>>
-----------------------------------------------------------------------------
(* QdrantVectorStore.upsert. *)

\* Vectors that are missing, empty or of different widths.
RejectBatch(i) ==
    /\ At(i, "ensure")
    /\ job[i].ragged
    /\ Raise(i) /\ Tear(i)
    /\ UNCHANGED <<server, ready, faults, creator>>

\* _ensure_collection up to the lock.
EnsureCollection(i) ==
    /\ At(i, "ensure")
    /\ ~job[i].ragged
    /\ \/ /\ ready[Store(i)]
          /\ Goes(i, "upsert")
          /\ NoFault /\ UNCHANGED <<ready, lock, indexed>>
       \/ /\ ~ready[Store(i)]
          /\ Fault /\ Raise(i) /\ Tear(i)
          /\ UNCHANGED ready
       \/ /\ ~ready[Store(i)] /\ server.exists
          /\ ready' = [ready EXCEPT ![Store(i)] = TRUE]
          /\ Goes(i, "upsert")
          /\ NoFault /\ UNCHANGED <<lock, indexed>>
       \/ /\ ~ready[Store(i)] /\ ~server.exists
          /\ Goes(i, "lock")
          /\ NoFault /\ UNCHANGED <<ready, lock, indexed>>
    /\ UNCHANGED <<server, creator>>

\* Mutant: the flag is not looked at again under the lock.
TakeLockUnchecked(i) ==
    /\ At(i, "lock")
    /\ lock[Store(i)] = "free"
    /\ lock' = [lock EXCEPT ![Store(i)] = i]
    /\ Goes(i, "create")
    /\ UNCHANGED <<server, ready, faults, creator, indexed>>

\* The double check: another thread may have made the collection ready meanwhile.
TakeLock(i) ==
    /\ At(i, "lock")
    /\ lock[Store(i)] = "free"
    /\ IF ready[Store(i)]
       THEN Goes(i, "upsert") /\ UNCHANGED lock
       ELSE Goes(i, "create") /\ lock' = [lock EXCEPT ![Store(i)] = i]
    /\ UNCHANGED <<server, ready, faults, creator, indexed>>

Created(by) == server' = [server EXCEPT !.exists = TRUE] /\ creator' = by

\* The server refuses to create a collection that exists.
CreateCollection(i) ==
    /\ At(i, "create")
    /\ \/ /\ server.exists
          /\ Raise(i) /\ Tear(i)
          /\ NoFault /\ UNCHANGED <<server, creator>>
       \/ /\ ~server.exists
          /\ Fault /\ Raise(i) /\ Tear(i)
          /\ Created(CutShort) \/ UNCHANGED <<server, creator>>
       \/ /\ ~server.exists
          /\ Created(Store(i)) /\ Goes(i, "index")
          /\ NoFault /\ UNCHANGED <<lock, indexed>>
    /\ UNCHANGED <<ready>>

Indexed == [server EXCEPT !.index = TRUE]

CreateIndex(i) ==
    /\ At(i, "index")
    /\ \/ /\ Fault /\ Raise(i) /\ Tear(i)
          /\ server' \in {server, Indexed}
          /\ creator' = CutShort
          /\ UNCHANGED ready
       \/ /\ server' = Indexed
          /\ ready' = [ready EXCEPT ![Store(i)] = TRUE]
          /\ lock' = [lock EXCEPT ![Store(i)] = "free"]
          /\ Goes(i, "upsert")
          /\ NoFault /\ UNCHANGED <<creator, indexed>>

\* The id of a point is made of its source and index: it replaces the one it meets.
With(s, chunks) ==
    LET kept == {c \in server.points[s] : \A d \in chunks : d.index # c.index}
    IN  [server EXCEPT !.points[s] = kept \cup chunks]

Upsert(i) ==
    LET s == Source(i)
        after == With(s, Chunks[job[i].text])
    IN  /\ At(i, "upsert")
        /\ \/ /\ Fault /\ Raise(i) /\ Tear(i)
              /\ server' \in {server, after}
           \/ /\ server' = after
              /\ job' = [job EXCEPT ![i].pc = "file", ![i].todo = Tail(@), ![i].text = <<>>, ![i].alone = FALSE]
              /\ indexed' = [indexed EXCEPT ![s] = IF job[i].alone THEN job[i].text ELSE Torn]
              /\ NoFault /\ UNCHANGED lock
        /\ UNCHANGED <<ready, creator>>
-----------------------------------------------------------------------------
(* The surroundings. *)

\* The process of a store is killed; its successor builds a new store.
Kill(st) ==
    /\ Fault
    /\ LET killed == {i \in Ingesters : Store(i) = st} IN
       /\ killed # {} \/ ready[st]
       /\ job' = [i \in Ingesters |-> IF i \in killed THEN Idle ELSE job[i]]
       /\ creator' = IF \E i \in killed : At(i, "index") THEN CutShort ELSE creator
       /\ indexed' = [s \in Sources |->
              IF \E i \in killed : job[i].pc \in Touching /\ Source(i) = s THEN Torn ELSE indexed[s]]
    /\ ready' = [ready EXCEPT ![st] = FALSE]
    /\ lock' = [lock EXCEPT ![st] = "free"]
    /\ UNCHANGED server

IngestStep(i) ==
    \/ ReadFile(i) \/ Return(i)
    \/ DeleteExists(i) \/ DeleteCount(i) \/ Delete(i)
    \/ RejectBatch(i) \/ EnsureCollection(i) \/ TakeLock(i) \/ CreateCollection(i) \/ CreateIndex(i) \/ Upsert(i)

RetrievalNext ==
    \/ \E i \in Ingesters, st \in Stores, root \in Roots : Ingest(i, st, root)
    \/ \E i \in Ingesters : IngestStep(i)
    \/ \E st \in Stores : Kill(st)

\* A thread inside ingest goes on; a call to the server ends, if only by its timeout.
RetrievalFairness == \A i \in Ingesters : WF_retrievalVars(IngestStep(i))

RetrievalSpec == RetrievalInit /\ [][RetrievalNext]_retrievalVars /\ RetrievalFairness
-----------------------------------------------------------------------------
\* A source that nobody is replacing, and whose last replacement was neither cut short
\* nor overlapped by another, is indexed by the chunks of the one text that was last
\* ingested, which are numbered without gaps and between them hold all of it: a text
\* that got shorter leaves no chunk behind, and a replacement that went through heals
\* what an earlier failure left (delete_by_source before upsert in RagService.ingest).
IndexedWhole ==
    \A s \in Sources :
        LET points == server.points[s]
            text == indexed[s]
        IN  text # Torn /\ ~(\E i \in Ingesters : job[i].pc \in Replacing /\ Source(i) = s) =>
                /\ \A c \in points : c.of = text
                /\ {c.index : c \in points} = 0 .. Cardinality(points) - 1
                /\ UNION {c.at : c \in points} = Marks(text)

\* A thread holds the lock of its store exactly while it creates the collection, and
\* threads of one store never try to create it twice: a creation is refused
\* only when another store made it, or an earlier attempt failed half-way.  A store that
\* is ready, and an upsert about to be sent, have a collection; the index on source is
\* missing only while it is being created or after such a failure (_ensure_collection).
CollectionSound ==
    /\ \A i \in Ingesters, st \in Stores : lock[st] = i <=> Store(i) = st /\ job[i].pc \in {"create", "index"}
    /\ \A i \in Ingesters : At(i, "create") /\ server.exists => creator # Store(i)
    /\ \A st \in Stores : ready[st] => server.exists
    /\ \A i \in Ingesters : At(i, "upsert") => server.exists
    /\ server.exists /\ ~server.index => creator = CutShort \/ \E i \in Ingesters : At(i, "index")

\* Every ingest comes to an end, with an answer or with an exception: whatever raises
\* under the lock of the store leaves it free for the threads that wait.
IngestEnds == \A i \in Ingesters : ~At(i, "idle") ~> At(i, "idle")
-----------------------------------------------------------------------------
\* The inductive invariant of the proofs.

Point == UNION {Chunks[text] : text \in Texts}

Job == [pc : {"idle", "file", "exists"} \cup Replacing, store : Stores \cup {NoStore},
        todo : Seq(Sources), text : Texts \cup {<<>>}, ragged : BOOLEAN, alone : BOOLEAN]

RetrievalTypeOK ==
    /\ server \in [exists : BOOLEAN, index : BOOLEAN, points : [Sources -> SUBSET Point]]
    /\ ready \in [Stores -> BOOLEAN]
    /\ lock \in [Stores -> Ingesters \cup {"free"}]
    /\ job \in [Ingesters -> Job]
    /\ faults \in Nat
    /\ creator \in Stores \cup {NoStore, CutShort}
    /\ indexed \in [Sources -> Texts \cup {<<>>, Torn}]

\* A call has a store, and a source from the first question about it on.
JobsInv ==
    \A i \in Ingesters :
        /\ ~At(i, "idle") => Store(i) \in Stores
        /\ job[i].pc \in {"exists"} \cup Replacing => job[i].todo # <<>> /\ job[i].text \in Texts

\* The one creation of the collection: the thread at it owns it, and a thread that
\* waits for the lock finds the flag set when its store made the collection.
CreationInv ==
    /\ ~server.exists => creator = NoStore
    /\ \A i \in Ingesters : At(i, "index") => server.exists /\ creator = Store(i)
    /\ \A i \in Ingesters : At(i, "lock") /\ creator = Store(i) =>
           ready[Store(i)] \/ lock[Store(i)] # "free"

\* Replacements of one source: one that is alone is the only one, and has nothing left
\* of the old chunks once it may write; a source that nobody may be writing, and whose
\* replacements all went through, holds the chunks of its text and nothing else.
ReplacementInv ==
    /\ ~server.exists => \A s \in Sources : server.points[s] = {}
    /\ \A i, j \in Ingesters :
           /\ job[i].pc \in Replacing /\ job[i].alone
           /\ job[j].pc \in Replacing /\ Source(j) = Source(i)
           => i = j
    /\ \A i \in Ingesters :
           job[i].pc \in Touching /\ job[i].alone => server.points[Source(i)] = {}
    /\ \A s \in Sources :
           indexed[s] # Torn /\ ~(\E i \in Ingesters : job[i].pc \in Touching /\ Source(i) = s)
           => server.points[s] = ChunksOf(indexed[s], ChunkSize, ChunkOverlap)

RetrievalInv ==
    /\ RetrievalTypeOK
    /\ JobsInv
    /\ CreationInv
    /\ CollectionSound
    /\ ReplacementInv
=============================================================================
