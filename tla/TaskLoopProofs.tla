--------------------------- MODULE TaskLoopProofs ---------------------------
(***************************************************************************)
(* Theorems about TaskLoop and TaskLoopEffects, for every set of agents,   *)
(* tools, commands, criteria and evidence and every value of the limits.   *)
(***************************************************************************)
EXTENDS TaskLoopEffects, TLAPS, FiniteSetTheorems

-----------------------------------------------------------------------------
\* What the operators on a Blackboard return.

LEMMA NewBoardType == NewBoard \in Board
BY ConstantsAssumption DEF NewBoard, Board, Statuses, Check, Reasons

LEMMA NewBoardCreated == NewBoard.status = "created"
BY DEF NewBoard

\* enqueue_commands touches the queue only.
LEMMA EnqueueType ==
    ASSUME NEW b \in Board, NEW cmds, cmds \subseteq Command
    PROVE  /\ Enqueue(b, cmds) \in Board
           /\ Enqueue(b, cmds).status = b.status
           /\ Enqueue(b, cmds).selected = b.selected
           /\ Enqueue(b, cmds).checks = b.checks
           /\ Enqueue(b, cmds).round = b.round
           /\ Enqueue(b, cmds).turns = b.turns
           /\ Enqueue(b, cmds).arts = b.arts
           /\ Enqueue(b, cmds).applied = b.applied
           /\ Enqueue(b, cmds).reason = b.reason
           /\ Enqueue(b, cmds).pending =
                b.pending \cup {c \in cmds : c.key \notin {p.key : p \in b.pending} \cup b.applied}
BY DEF Enqueue, Board

LEMMA AdmitType ==
    ASSUME NEW d, NEW roster
    PROVE  {AdmitCommand(a) : a \in ToAdmit(d, roster)} \subseteq Command
BY DEF AdmitCommand, ToAdmit, Command, Keys, CommandKinds

\* judge_acceptance touches the checks and the status only.
LEMMA JudgedType ==
    ASSUME NEW b \in Board, NEW claims \in [Criteria -> Claim]
    PROVE  /\ Judged(b, claims) \in Board
           /\ Judged(b, claims).status = "reviewing_ac"
           /\ Judged(b, claims).selected = b.selected
           /\ Judged(b, claims).round = b.round
           /\ Judged(b, claims).turns = b.turns
           /\ Judged(b, claims).arts = b.arts
           /\ Judged(b, claims).pending = b.pending
           /\ Judged(b, claims).applied = b.applied
           /\ Judged(b, claims).checks =
                [c \in Criteria |-> JudgeCheck(b, b.checks[c], claims[c])]
<1>1. ASSUME NEW c \in Criteria
      PROVE  JudgeCheck(b, b.checks[c], claims[c]) \in Check
  BY ConstantsAssumption DEF JudgeCheck, Check, Claim, Board
<1>2. QED
  BY <1>1 DEF Judged, Board, Statuses, Running, Terminal

\* apply_pending_commands touches roster, applied keys and queue.
LEMMA ApplyType ==
    ASSUME NEW b \in Board
    PROVE  /\ ApplyPending(b) \in Board
           /\ ApplyPending(b).status = b.status
           /\ ApplyPending(b).checks = b.checks
           /\ ApplyPending(b).round = b.round
           /\ ApplyPending(b).turns = b.turns
           /\ ApplyPending(b).arts = b.arts
           /\ ApplyPending(b).pending = {}
           /\ ApplyPending(b).applied = b.applied \cup {c.key : c \in Honoured(b)}
           /\ ApplyPending(b).selected =
                [a \in Agents |-> IF a \in Admitted(b) THEN b.selected[a] + 1 ELSE b.selected[a]]
<1>1. {c.key : c \in Honoured(b)} \subseteq Keys
  BY DEF Honoured, Board, Command
<1> DEFINE K == {c.key : c \in Honoured(b)}
           Grown == [a \in Agents |-> IF a \in Admitted(b) THEN b.selected[a] + 1 ELSE b.selected[a]]
<1>2. Grown \in [Agents -> Nat]
  BY DEF Board
<1>3. K \subseteq Keys
  BY <1>1
<1>4. ApplyPending(b) = [b EXCEPT !.applied = b.applied \cup K, !.selected = Grown, !.pending = {}]
  BY DEF ApplyPending
<1> HIDE DEF K, Grown
<1>5. /\ ApplyPending(b) \in Board
      /\ ApplyPending(b).applied = b.applied \cup K
      /\ ApplyPending(b).selected = Grown
      /\ ApplyPending(b).pending = {}
      /\ ApplyPending(b).status = b.status
      /\ ApplyPending(b).checks = b.checks
      /\ ApplyPending(b).round = b.round
      /\ ApplyPending(b).turns = b.turns
      /\ ApplyPending(b).arts = b.arts
  BY <1>2, <1>3, <1>4 DEF Board
<1>6. QED
  BY <1>5 DEF K, Grown

LEMMA SnapshotType ==
    ASSUME NEW b \in Board
    PROVE  Snapshot(b) \in [Criteria -> {"pending", "passed", "failed"} \X Nat]
<1>1. ASSUME NEW c \in Criteria
      PROVE  /\ b.checks[c].status \in {"pending", "passed", "failed"}
             /\ Cardinality(b.checks[c].evidence) \in Nat
  <2>1. b.checks[c] \in Check
    BY DEF Board
  <2>2. IsFiniteSet(b.checks[c].evidence)
    BY <2>1, ConstantsAssumption DEF Check
  <2>3. QED
    BY <2>1, <2>2, FS_CardinalityType DEF Check
<1>2. QED
  BY <1>1 DEF Snapshot

LEMMA NewLocalsType == NewLocals \in Locals
<1>1. {} \in RequestLists
  BY DEF RequestLists
<1>2. QED
  BY <1>1 DEF NewLocals, Locals, NoSignature, Signature, DecisionKinds

\* The locals after a decision.
LEMMA AfterDecideType ==
    ASSUME board \in Board, loc \in Locals, NEW d \in Decision
    PROVE  /\ AfterDecide(d) \in Locals
           /\ AfterDecide(d).worker = {}
<1>1. {<<c.kind, c.agent>> : c \in d.cmds} \subseteq CommandKinds \X Agents
  BY ConstantsAssumption DEF Decision, Command
<1>2. SignatureOf(d) \in Signature
  BY <1>1 DEF SignatureOf, Signature, Decision
<1>3. d.kind \in DecisionKinds
  BY DEF Decision
<1>4. Snapshot(board) \in [Criteria -> {"pending", "passed", "failed"} \X Nat]
  BY SnapshotType
<1>5. board.arts \in Nat
  BY DEF Board
<1> DEFINE S == SignatureOf(d)
           Rep == IF loc.sig = S THEN loc.repeat + 1 ELSE 0
           Snap == Snapshot(board)
<1>6. Rep \in Nat
  BY DEF Locals
<1>7. /\ S \in Signature
      /\ Snap \in [Criteria -> {"pending", "passed", "failed"} \X Nat]
  BY <1>2, <1>4
<1>8. AfterDecide(d) =
        [loc EXCEPT !.sig = S, !.repeat = Rep, !.beforeArts = board.arts, !.beforeSnap = Snap,
                    !.kind = d.kind, !.calls = {}, !.worker = {}, !.queued = {}, !.grew = {}]
  BY DEF AfterDecide
<1> HIDE DEF S, Rep, Snap
<1>9. QED
  BY <1>3, <1>5, <1>6, <1>7, <1>8 DEF Locals

-----------------------------------------------------------------------------
\* What the steps of the loop keep of a Blackboard.

GoodBoard(b) == b \in Board /\ EvidenceOK(b) /\ TurnsOK(b) /\ QueueOK(b) /\ RosterOK(b)

\* Queueing commands with distinct keys keeps the queue free of duplicates.
LEMMA EnqueueGood ==
    ASSUME NEW b, GoodBoard(b), NEW cmds, cmds \subseteq Command, DistinctKeys(cmds)
    PROVE  GoodBoard(Enqueue(b, cmds))
<1> DEFINE e == Enqueue(b, cmds)
<1>1. b \in Board
  BY DEF GoodBoard
<1>2. /\ e \in Board /\ e.status = b.status /\ e.selected = b.selected /\ e.checks = b.checks
      /\ e.turns = b.turns /\ e.arts = b.arts /\ e.applied = b.applied
      /\ e.pending = b.pending
            \cup {c \in cmds : c.key \notin {p.key : p \in b.pending} \cup b.applied}
  BY <1>1, EnqueueType
<1> HIDE DEF e
<1>3. EvidenceOK(e)
  BY <1>2 DEF GoodBoard, EvidenceOK, AllAccepted
<1>4. TurnsOK(e) /\ RosterOK(e)
  BY <1>2 DEF GoodBoard, TurnsOK, RosterOK, Roster
<1>5. QueueOK(e)
  BY <1>2 DEF GoodBoard, QueueOK, DistinctKeys
<1>6. QED
  BY <1>2, <1>3, <1>4, <1>5 DEF GoodBoard, e

\* add_artifact only adds: a good board stays good.
LEMMA AddArtifactsGood ==
    ASSUME NEW b, GoodBoard(b), NEW n \in Nat
    PROVE  /\ GoodBoard(AddArtifacts(b, n))
           /\ AddArtifacts(b, n).status = b.status
           /\ AddArtifacts(b, n).selected = b.selected
           /\ AddArtifacts(b, n).round = b.round
           /\ AddArtifacts(b, n).turns = b.turns
           /\ AddArtifacts(b, n).applied = b.applied
<1> DEFINE e == AddArtifacts(b, n)
<1>1. b \in Board /\ b.arts \in Nat /\ b.arts + n \in Nat
  BY DEF GoodBoard, Board
<1>2. /\ e \in Board /\ e.arts = b.arts + n /\ e.status = b.status
      /\ e.selected = b.selected /\ e.checks = b.checks /\ e.round = b.round
      /\ e.turns = b.turns /\ e.pending = b.pending /\ e.applied = b.applied
  BY <1>1 DEF AddArtifacts, Board
<1> HIDE DEF e
<1>3. ASSUME NEW c \in Criteria, e.checks[c].status = "passed"
      PROVE  e.checks[c].evidence # {} /\ \A i \in e.checks[c].evidence : i < e.arts
  <2>1. b.checks[c] \in Check
    BY <1>1 DEF Board
  <2>2. b.checks[c].evidence \in EvidenceSets
    BY <2>1 DEF Check
  <2>3. b.checks[c].evidence \subseteq Nat
    BY <2>2, ConstantsAssumption
  <2>4. e.checks[c].evidence # {} /\ \A i \in e.checks[c].evidence : i < b.arts
    BY <1>2, <1>3 DEF GoodBoard, EvidenceOK
  <2>5. QED
    BY <1>1, <1>2, <2>3, <2>4
<1>4. EvidenceOK(e)
  BY <1>2, <1>3 DEF EvidenceOK, GoodBoard, AllAccepted
<1>5. TurnsOK(e) /\ QueueOK(e) /\ RosterOK(e)
  BY <1>2 DEF GoodBoard, TurnsOK, QueueOK, RosterOK, Roster
<1>6. QED
  BY <1>2, <1>4, <1>5 DEF GoodBoard, e

LEMMA SetStatusGood ==
    ASSUME NEW b, GoodBoard(b), NEW st \in Running
    PROVE  /\ GoodBoard(SetStatus(b, st))
           /\ SetStatus(b, st).status = st
           /\ SetStatus(b, st).selected = b.selected
           /\ SetStatus(b, st).round = b.round
           /\ SetStatus(b, st).turns = b.turns
           /\ SetStatus(b, st).applied = b.applied
<1> DEFINE e == SetStatus(b, st)
<1>1. b \in Board /\ st \in Statuses /\ st # "finished"
  BY DEF GoodBoard, Statuses, Running
<1>2. /\ e \in Board /\ e.arts = b.arts /\ e.status = st
      /\ e.selected = b.selected /\ e.checks = b.checks /\ e.round = b.round
      /\ e.turns = b.turns /\ e.pending = b.pending /\ e.applied = b.applied
  BY <1>1 DEF SetStatus, Board
<1> HIDE DEF e
<1>3. EvidenceOK(e) /\ TurnsOK(e) /\ QueueOK(e) /\ RosterOK(e)
  BY <1>1, <1>2 DEF GoodBoard, EvidenceOK, TurnsOK, QueueOK, RosterOK, Roster
<1>4. QED
  BY <1>2, <1>3 DEF GoodBoard, e

\* A first turn of an agent in the current round keeps a good board good.
LEMMA AddTurnGood ==
    ASSUME NEW b, GoodBoard(b), NEW a \in Agents, b.turns[<<b.round, a>>] = 0
    PROVE  /\ GoodBoard(AddTurn(b, a))
           /\ AddTurn(b, a).status = b.status
           /\ AddTurn(b, a).selected = b.selected
           /\ AddTurn(b, a).round = b.round
           /\ AddTurn(b, a).applied = b.applied
           /\ \A p \in (0..MaxRounds) \X Agents :
                AddTurn(b, a).turns[p] = IF p = <<b.round, a>> THEN 1 ELSE b.turns[p]
<1> DEFINE e == AddTurn(b, a)
           P == (0..MaxRounds) \X Agents
           q == <<b.round, a>>
           ts == [b.turns EXCEPT ![q] = b.turns[q] + 1]
<1>1. b \in Board /\ b.turns \in [P -> Nat] /\ q \in P /\ b.turns[q] = 0
  BY DEF GoodBoard, Board
<1>2. e = [b EXCEPT !.turns = ts]
  BY DEF AddTurn
<1> HIDE DEF P, q
<1>3. ts \in [P -> Nat] /\ \A p \in P : ts[p] = IF p = q THEN 1 ELSE b.turns[p]
  BY <1>1
<1> HIDE DEF ts
<1>4. /\ e \in Board /\ e.turns = ts /\ e.arts = b.arts /\ e.status = b.status
      /\ e.selected = b.selected /\ e.checks = b.checks /\ e.round = b.round
      /\ e.pending = b.pending /\ e.applied = b.applied
  BY <1>1, <1>2, <1>3 DEF Board, P
<1> HIDE DEF e
<1>5. TurnsOK(e)
  BY <1>3, <1>4 DEF GoodBoard, TurnsOK, P
<1>6. EvidenceOK(e)
  BY <1>4 DEF GoodBoard, EvidenceOK, AllAccepted
<1>7. QueueOK(e) /\ RosterOK(e)
  BY <1>4 DEF GoodBoard, QueueOK, RosterOK, Roster
<1>8. QED
  BY <1>3, <1>4, <1>5, <1>6, <1>7 DEF GoodBoard, e, P, q

LEMMA AdmitDistinct ==
    ASSUME NEW d, NEW roster
    PROVE  DistinctKeys({AdmitCommand(a) : a \in ToAdmit(d, roster)})
BY DEF DistinctKeys, AdmitCommand

\* A judged board marks a check passed only with evidence it holds.
LEMMA JudgedGood ==
    ASSUME NEW b, GoodBoard(b), NEW claims \in [Criteria -> Claim]
    PROVE  GoodBoard(Judged(b, claims))
<1> DEFINE j == Judged(b, claims)
<1>1. b \in Board
  BY DEF GoodBoard
<1>2. /\ j \in Board /\ j.status = "reviewing_ac" /\ j.selected = b.selected
      /\ j.turns = b.turns /\ j.arts = b.arts /\ j.pending = b.pending /\ j.applied = b.applied
      /\ j.checks = [c \in Criteria |-> JudgeCheck(b, b.checks[c], claims[c])]
  BY <1>1, JudgedType
<1> HIDE DEF j
<1>3. ASSUME NEW c \in Criteria, j.checks[c].status = "passed"
      PROVE  j.checks[c].evidence # {} /\ \A e \in j.checks[c].evidence : e < j.arts
  <2>1. j.checks[c] = JudgeCheck(b, b.checks[c], claims[c])
    BY <1>2
  <2>2. b.checks[c] \in Check /\ claims[c] \in Claim
    BY <1>1 DEF Board
  <2>3. b.checks[c].status = "passed" =>
           b.checks[c].evidence # {} /\ \A e \in b.checks[c].evidence : e < b.arts
    BY DEF GoodBoard, EvidenceOK
  <2>4. QED
    BY <1>2, <1>3, <2>1, <2>2, <2>3 DEF JudgeCheck, Check, Claim
<1>4. EvidenceOK(j)
  BY <1>2, <1>3 DEF EvidenceOK
<1>5. TurnsOK(j) /\ RosterOK(j) /\ QueueOK(j)
  BY <1>2 DEF GoodBoard, TurnsOK, RosterOK, Roster, QueueOK
<1>6. QED
  BY <1>2, <1>4, <1>5 DEF GoodBoard, j

\* Applying the queue adds agents of the catalog that were not in the roster.
LEMMA ApplyGood ==
    ASSUME NEW b, GoodBoard(b)
    PROVE  /\ GoodBoard(ApplyPending(b))
           /\ Roster(b) \subseteq Roster(ApplyPending(b))
           /\ Roster(ApplyPending(b)) \subseteq Roster(b) \cup Catalog
<1> DEFINE p == ApplyPending(b)
<1>1. b \in Board /\ b.selected \in [Agents -> Nat]
  BY DEF GoodBoard, Board
<1>2. /\ p \in Board /\ p.status = b.status /\ p.checks = b.checks
      /\ p.turns = b.turns /\ p.arts = b.arts /\ p.pending = {}
      /\ p.selected = [a \in Agents |-> IF a \in Admitted(b) THEN b.selected[a] + 1
                                                             ELSE b.selected[a]]
  BY <1>1, ApplyType
<1> HIDE DEF p
<1>3. \A a \in Admitted(b) : a \in Catalog /\ a \notin Roster(b)
  BY DEF Admitted, Honoured
<1>4. ASSUME NEW a \in Agents
      PROVE  /\ p.selected[a] <= 1
             /\ a \in Roster(b) => a \in Roster(p)
             /\ a \in Roster(p) => a \in Roster(b) \/ a \in Catalog
  <2>1. b.selected[a] \in Nat /\ b.selected[a] <= 1
    BY <1>1 DEF GoodBoard, RosterOK
  <2>2. p.selected[a] = IF a \in Admitted(b) THEN b.selected[a] + 1 ELSE b.selected[a]
    BY <1>2
  <2>3. CASE a \in Admitted(b)
    BY <2>1, <2>2, <2>3, <1>3 DEF Roster
  <2>4. CASE a \notin Admitted(b)
    BY <2>1, <2>2, <2>4 DEF Roster
  <2>5. QED
    BY <2>3, <2>4
<1>5. Roster(b) \subseteq Roster(p) /\ Roster(p) \subseteq Roster(b) \cup Catalog
  BY <1>4 DEF Roster
<1>6. RosterOK(p)
  BY <1>4, <1>5 DEF RosterOK, GoodBoard
<1>7. EvidenceOK(p)
  BY <1>2 DEF GoodBoard, EvidenceOK, AllAccepted
<1>8. TurnsOK(p) /\ QueueOK(p)
  BY <1>2 DEF GoodBoard, TurnsOK, QueueOK
<1>9. QED
  BY <1>2, <1>5, <1>6, <1>7, <1>8 DEF GoodBoard, p

-----------------------------------------------------------------------------
\* The invariant, one kind of step at a time.

LEMMA GoodBoards == ASSUME LoopInv PROVE GoodBoard(board) /\ GoodBoard(disk)
BY DEF LoopInv, TypeOK, EvidenceInv, TurnsOnce, QueueSound, RosterSound, GoodBoard

\* How to put the invariant together from the boards of the next state.
LEMMA FromGoodBoards ==
    ASSUME GoodBoard(board)', GoodBoard(disk)',
           (pc \in PCs)', (loc \in Locals)', (fault \in Faults)', (emitter \in Emitters)', (composed \in SUBSET Agents)',
           PhaseInv', SyncInv', loc'.worker = {}
    PROVE  LoopInv'
BY DEF LoopInv, TypeOK, EvidenceInv, TurnsOnce, QueueSound, RosterSound, GoodBoard

\* _terminate keeps the invariant: the saved board is the terminal one.
LEMMA TerminateStep ==
    ASSUME LoopInv, pc \in Active, pc # "save",
           NEW b, GoodBoard(b), b.turns = disk.turns, b.round = disk.round,
           b.selected = disk.selected, b.applied = disk.applied,
           NEW status \in Terminal, NEW reason \in Reasons,
           status = "finished" => AllAccepted(b),
           Terminate(b, status, reason)
    PROVE  LoopInv'
<1> DEFINE t == [b EXCEPT !.status = status, !.reason = reason]
<1>1. b \in Board
  BY DEF GoodBoard
<1>2. /\ t \in Board /\ t.status = status /\ t.selected = b.selected /\ t.checks = b.checks
      /\ t.round = b.round /\ t.turns = b.turns /\ t.arts = b.arts /\ t.pending = b.pending
      /\ t.applied = b.applied
  BY <1>1 DEF Board, Statuses
<1>3. /\ board' = t /\ disk' = t /\ pc' = "done" /\ loc' = NewLocals
      /\ fault' = fault /\ emitter' = emitter /\ composed' = composed
  BY DEF Terminate
<1> HIDE DEF t
<1>4. EvidenceOK(t) /\ TurnsOK(t) /\ QueueOK(t) /\ RosterOK(t)
  <2>1. EvidenceOK(t)
    BY <1>2 DEF GoodBoard, EvidenceOK, AllAccepted
  <2>2. TurnsOK(t) /\ QueueOK(t) /\ RosterOK(t)
    BY <1>2 DEF GoodBoard, TurnsOK, QueueOK, RosterOK, Roster
  <2>3. QED
    BY <2>1, <2>2
<1>5. GoodBoard(board)' /\ GoodBoard(disk)'
  BY <1>2, <1>3, <1>4 DEF GoodBoard, EvidenceOK, AllAccepted, TurnsOK, QueueOK, RosterOK, Roster
<1>6. NewLocals \in Locals /\ NewLocals.calls = {} /\ NewLocals.worker = {}
  BY NewLocalsType DEF NewLocals
<1>7. PhaseInv'
  BY <1>2, <1>3, <1>6 DEF PhaseInv, Terminal, Active
<1>8. SyncInv'
  BY <1>3 DEF SyncInv
<1>9. pc' \in PCs /\ fault' \in Faults /\ emitter' \in Emitters /\ composed' \in SUBSET Agents
  BY <1>3 DEF PCs, LoopInv, TypeOK
<1>10. QED
  BY <1>3, <1>5, <1>6, <1>7, <1>8, <1>9, FromGoodBoards

\* Losing the memory keeps the invariant.
LEMMA GoDownStep ==
    ASSUME LoopInv, pc \in Active \cup {"done"}, disk' = disk,
           NEW cause \in Faults, GoDown(cause)
    PROVE  LoopInv'
<1>1. board' = disk /\ disk' = disk /\ pc' = "down" /\ loc' = NewLocals /\ fault' = cause
      /\ emitter' = emitter /\ composed' = composed
  BY DEF GoDown
<1>2. GoodBoard(disk)
  BY GoodBoards
<1>3. GoodBoard(board)' /\ GoodBoard(disk)'
  BY <1>1, <1>2 DEF GoodBoard, EvidenceOK, AllAccepted, TurnsOK, QueueOK, RosterOK, Roster
<1>4. NewLocals \in Locals /\ NewLocals.calls = {} /\ NewLocals.worker = {}
  BY NewLocalsType DEF NewLocals
<1>5. disk.status # "created"
  BY DEF LoopInv, PhaseInv, Running
<1>6. PhaseInv'
  BY <1>1, <1>4, <1>5 DEF PhaseInv, Active
<1>7. SyncInv'
  BY <1>1 DEF SyncInv
<1>8. pc' \in PCs /\ fault' \in Faults /\ emitter' \in Emitters /\ composed' \in SUBSET Agents
  BY <1>1 DEF PCs, LoopInv, TypeOK
<1>9. QED
  BY <1>1, <1>3, <1>4, <1>6, <1>7, <1>8, FromGoodBoards

\* compose_team sets roster and status and stores the plan.
LEMMA SelectType ==
    ASSUME NEW n \in Board, NEW sel \in [Agents -> Nat]
    PROVE  LET b == [n EXCEPT !.selected = sel, !.arts = @ + 1, !.status = "team_selected"]
           IN  /\ b \in Board /\ b.selected = sel /\ b.status = "team_selected"
               /\ b.turns = n.turns /\ b.checks = n.checks /\ b.pending = n.pending
               /\ b.applied = n.applied /\ b.round = n.round
<1>1. "team_selected" \in Statuses
  BY DEF Statuses, Running
<1>2. n.arts + 1 \in Nat
  BY DEF Board
<1>3. QED
  BY <1>1, <1>2 DEF Board

\* compose_team and the first save.
LEMMA ComposeStep ==
    ASSUME LoopInv, NEW team \in SUBSET Agents, ComposeTeam(team)
    PROVE  LoopInv'
<1>1. pc = "idle" /\ board = NewBoard /\ loc.worker = {} /\ loc.calls = {}
  BY DEF ComposeTeam, LoopInv, PhaseInv
<1> DEFINE sel == [a \in Agents |-> IF a \in team THEN 1 ELSE 0]
           b == [NewBoard EXCEPT !.selected = sel, !.arts = @ + 1, !.status = "team_selected"]
<1>2. /\ board' = b /\ disk' = b /\ pc' = "top" /\ composed' = team
      /\ loc' = loc /\ fault' = fault /\ emitter' = emitter
  BY <1>1 DEF ComposeTeam
<1>3. sel \in [Agents -> Nat]
  OBVIOUS
<1>4. /\ b \in Board /\ b.selected = sel /\ b.status = "team_selected" /\ b.turns = NewBoard.turns
      /\ b.checks = NewBoard.checks /\ b.pending = {} /\ b.applied = {} /\ b.round = 0
  <2>1. NewBoard \in Board /\ NewBoard.pending = {} /\ NewBoard.applied = {} /\ NewBoard.round = 0
    BY NewBoardType DEF NewBoard
  <2>2. QED
    BY <1>3, <2>1, SelectType
<1>5. /\ \A c \in Criteria : b.checks[c].status # "passed"
      /\ \A p \in (0..MaxRounds) \X Agents : b.turns[p] = 0
  BY <1>4 DEF NewBoard
<1>6. \A a \in Agents : sel[a] <= 1 /\ (sel[a] > 0 => a \in team)
  OBVIOUS
<1> HIDE DEF b, sel
<1>7. GoodBoard(board)' /\ GoodBoard(disk)'
  BY <1>2, <1>4, <1>5, <1>6
     DEF GoodBoard, EvidenceOK, TurnsOK, QueueOK, RosterOK, Roster
<1>8. PhaseInv'
  BY <1>1, <1>2, <1>4 DEF PhaseInv, Running, Active
<1>9. SyncInv'
  BY <1>2 DEF SyncInv
<1>10. pc' \in PCs /\ loc' \in Locals /\ fault' \in Faults /\ emitter' \in Emitters /\ composed' \in SUBSET Agents
  BY <1>2 DEF PCs, LoopInv, TypeOK
<1>11. QED
  BY <1>1, <1>2, <1>7, <1>8, <1>9, <1>10, FromGoodBoards

\* resume_task_loop starts from what was saved.
LEMMA ResumeStep == ASSUME LoopInv, Resume PROVE LoopInv'
<1>1. /\ board' = disk /\ disk' = disk /\ pc' = "top" /\ loc' = NewLocals
      /\ fault' = fault /\ emitter' \in Emitters /\ composed' = composed
  BY DEF Resume
<1>2. GoodBoard(disk) /\ disk.status \in Running
  <2>1. GoodBoard(disk)
    BY GoodBoards
  <2>2. disk.status \in Statuses /\ disk.status # "created" /\ disk.status \notin Terminal
    BY <2>1 DEF Resume, LoopInv, PhaseInv, GoodBoard, Board
  <2>3. QED
    BY <2>1, <2>2 DEF Statuses
<1>3. GoodBoard(board)' /\ GoodBoard(disk)'
  BY <1>1, <1>2 DEF GoodBoard, EvidenceOK, AllAccepted, TurnsOK, QueueOK, RosterOK, Roster
<1>4. NewLocals \in Locals /\ NewLocals.calls = {} /\ NewLocals.worker = {}
  BY NewLocalsType DEF NewLocals
<1>5. PhaseInv'
  BY <1>1, <1>2, <1>4 DEF PhaseInv
<1>6. SyncInv'
  BY <1>1 DEF SyncInv
<1>7. pc' \in PCs /\ fault' \in Faults /\ emitter' \in Emitters /\ composed' \in SUBSET Agents
  BY <1>1 DEF PCs, LoopInv, TypeOK
<1>8. QED
  BY <1>1, <1>3, <1>4, <1>5, <1>6, <1>7, FromGoodBoards

LEMMA ResumeTerminalStep == ASSUME LoopInv, ResumeTerminal PROVE LoopInv'
<1>1. /\ board' = board /\ disk' = disk /\ pc' = "done" /\ loc' = loc
      /\ fault' = fault /\ emitter' = emitter /\ composed' = composed /\ pc \in {"down", "done"}
      /\ disk.status \in Terminal
  BY DEF ResumeTerminal
<1>2. GoodBoard(board)' /\ GoodBoard(disk)'
  BY <1>1, GoodBoards DEF GoodBoard, EvidenceOK, AllAccepted, TurnsOK, QueueOK, RosterOK, Roster
<1>3. loc \in Locals /\ loc.worker = {} /\ loc.calls = {}
  BY <1>1 DEF LoopInv, TypeOK, PhaseInv
<1>4. PhaseInv'
  BY <1>1, <1>3 DEF PhaseInv, Active, Terminal
<1>5. SyncInv'
  BY <1>1 DEF LoopInv, SyncInv
<1>6. pc' \in PCs /\ fault' \in Faults /\ emitter' \in Emitters /\ composed' \in SUBSET Agents
  BY <1>1 DEF PCs, LoopInv, TypeOK
<1>7. QED
  BY <1>1, <1>2, <1>3, <1>4, <1>5, <1>6, FromGoodBoards

\* A step inside an iteration that saves nothing: board and locals change.
LEMMA MemoryStep ==
    ASSUME LoopInv, pc \in Active, pc # "save", NEW b, NEW l,
           board' = b, disk' = disk, loc' = l, fault' = fault, emitter' = emitter, composed' = composed,
           GoodBoard(b), b.status \in Running, b.turns = board.turns, b.round = board.round,
           b.selected = board.selected, b.applied = board.applied,
           l \in Locals, l.worker = {},
           pc' \in {"top", "calls", "judge", "commit"},
           pc' # "top" => board.round < MaxRounds,
           \A p \in l.calls : p[2] \in Roster(board),
           pc' # "calls" => l.calls = {}
    PROVE  LoopInv'
<1>1. GoodBoard(disk) /\ disk.status \in Running
  BY GoodBoards DEF LoopInv, PhaseInv
<1>2. GoodBoard(board)' /\ GoodBoard(disk)'
  BY <1>1 DEF GoodBoard, EvidenceOK, AllAccepted, TurnsOK, QueueOK, RosterOK, Roster
<1>3. Roster(board)' = Roster(board)
  BY DEF Roster
<1>4. PhaseInv'
  BY <1>1, <1>3 DEF PhaseInv, Active, PCs
<1>5. SyncInv'
  BY DEF LoopInv, SyncInv
<1>6. pc' \in PCs /\ fault' \in Faults /\ emitter' \in Emitters /\ composed' \in SUBSET Agents
  BY DEF PCs, LoopInv, TypeOK
<1>7. QED
  BY <1>2, <1>4, <1>5, <1>6, FromGoodBoards

LEMMA RoundsExhaustedStep == ASSUME LoopInv, RoundsExhausted PROVE LoopInv'
<1>1. pc = "top" /\ Terminate(board, "blocked", "max_rounds")
  BY DEF RoundsExhausted
<1>2. GoodBoard(board)
  BY GoodBoards
<1>3. /\ board.turns = disk.turns /\ board.round = disk.round
      /\ board.selected = disk.selected /\ board.applied = disk.applied
  BY <1>1 DEF LoopInv, SyncInv
<1>4. pc \in Active /\ pc # "save" /\ "blocked" \in Terminal /\ "max_rounds" \in Reasons
  BY <1>1 DEF Active, PCs, Terminal, Reasons
<1>5. QED
  BY <1>1, <1>2, <1>3, <1>4, TerminateStep

LEMMA ParseErrorStep == ASSUME LoopInv, DecideParseError PROVE LoopInv'
<1>1. /\ GoodBoard(board) /\ loc \in Locals /\ board.status \in Running
      /\ loc.worker = {} /\ loc.calls = {} /\ pc = "top"
      /\ board.turns = disk.turns /\ board.round = disk.round
      /\ board.selected = disk.selected /\ board.applied = disk.applied
  BY GoodBoards DEF DecideParseError, LoopInv, TypeOK, PhaseInv, SyncInv, Active, PCs
<1>2. pc \in Active /\ pc # "save" /\ "failed" \in Terminal /\ "parse_budget" \in Reasons
  BY <1>1 DEF Active, PCs, Terminal, Reasons
<1>3. CASE loc.parse + 1 >= MaxParseErrors
  <2>1. Terminate(board, "failed", "parse_budget")
    BY <1>3 DEF DecideParseError
  <2>2. QED
    BY <1>1, <1>2, <2>1, TerminateStep
<1>4. CASE ~(loc.parse + 1 >= MaxParseErrors)
  <2> DEFINE l == [loc EXCEPT !.parse = @ + 1]
  <2>1. /\ loc' = l /\ board' = board /\ disk' = disk /\ pc' = "top"
        /\ fault' = fault /\ emitter' = emitter /\ composed' = composed
    BY <1>1, <1>4 DEF DecideParseError
  <2>2. l \in Locals /\ l.worker = {} /\ l.calls = {}
    BY <1>1 DEF Locals
  <2> HIDE DEF l
  <2>3. QED
    BY <1>1, <1>2, <2>1, <2>2, MemoryStep
<1>5. QED
  BY <1>3, <1>4

\* What a decision may rely on, and what queueing its commands gives.
LEMMA DecideFacts ==
    ASSUME LoopInv, NEW d \in Decision, Decide(d)
    PROVE  /\ pc = "top" /\ pc \in Active /\ pc # "save" /\ board.round < MaxRounds
           /\ GoodBoard(board) /\ board \in Board /\ loc \in Locals /\ board.status \in Running
           /\ board.turns = disk.turns /\ board.round = disk.round
           /\ board.selected = disk.selected /\ board.applied = disk.applied
           /\ GoodBoard(Enqueue(board, d.cmds))
           /\ Enqueue(board, d.cmds) \in Board
           /\ Enqueue(board, d.cmds).status = board.status
           /\ Enqueue(board, d.cmds).selected = board.selected
           /\ Enqueue(board, d.cmds).round = board.round
           /\ Enqueue(board, d.cmds).turns = board.turns
           /\ Enqueue(board, d.cmds).applied = board.applied
           /\ AfterDecide(d) \in Locals /\ AfterDecide(d).worker = {}
           /\ AfterDecide(d).calls = {}
<1>1. /\ pc = "top" /\ board.round < MaxRounds /\ loc \in Locals /\ board.status \in Running
      /\ board.turns = disk.turns /\ board.round = disk.round
      /\ board.selected = disk.selected /\ board.applied = disk.applied
  BY DEF Decide, LoopInv, TypeOK, PhaseInv, SyncInv, Active, PCs
<1>2. GoodBoard(board) /\ board \in Board
  BY GoodBoards DEF GoodBoard
<1>3. d.cmds \subseteq Command /\ DistinctKeys(d.cmds)
  BY ConstantsAssumption DEF Decision
<1>4. GoodBoard(Enqueue(board, d.cmds))
  BY <1>2, <1>3, EnqueueGood
<1>5. pc \in Active /\ pc # "save"
  BY <1>1 DEF Active, PCs
<1>6. AfterDecide(d).calls = {}
  BY <1>1 DEF AfterDecide, Locals
<1>7. QED
  BY <1>1, <1>2, <1>3, <1>4, <1>5, <1>6, EnqueueType, AfterDecideType

LEMMA BeginRoundStep ==
    ASSUME LoopInv, NEW d \in Decision, Decide(d), BeginRound(d)
    PROVE  LoopInv'
<1> DEFINE roster == Roster(board)
           events == IF d.calls \cap Depts # {} THEN {"loop.department_expanded"} ELSE {}
           first == Enqueue(board, d.cmds)
           admits == {AdmitCommand(a) : a \in ToAdmit(d, roster)}
           queued == Enqueue(first, admits)
           calls == ExpandedCalls(d, roster)
<1>1. /\ pc = "top" /\ pc \in Active /\ pc # "save" /\ board.round < MaxRounds
      /\ GoodBoard(first) /\ first \in Board /\ first.status \in Running
      /\ first.selected = board.selected /\ first.round = board.round
      /\ first.turns = board.turns /\ first.applied = board.applied
      /\ AfterDecide(d) \in Locals /\ AfterDecide(d).worker = {}
  BY DecideFacts
<1>2. CASE GoDown("contract") /\ disk' = disk
  BY <1>1, <1>2, GoDownStep DEF Faults
<1>3. CASE GoDown("permission") /\ disk' = disk
  BY <1>1, <1>3, GoDownStep DEF Faults
<1>4. CASE /\ \A p \in calls : p[2] \in roster
           /\ board' = queued
           /\ loc' = [AfterDecide(d) EXCEPT !.calls = calls]
           /\ pc' = "calls"
           /\ UNCHANGED <<disk, fault, emitter, composed>>
  <2>1. admits \subseteq Command /\ DistinctKeys(admits)
    BY AdmitType, AdmitDistinct
  <2> HIDE DEF first, admits
  <2>2. /\ GoodBoard(queued) /\ queued.status = first.status /\ queued.selected = first.selected
        /\ queued.round = first.round /\ queued.turns = first.turns
        /\ queued.applied = first.applied
    BY <1>1, <2>1, EnqueueGood, EnqueueType
  <2>3. calls \subseteq Targets \X Agents
    BY DEF ExpandedCalls, Targets, Roster
  <2> HIDE DEF calls, queued, roster
  <2> DEFINE l == [AfterDecide(d) EXCEPT !.calls = calls]
  <2>4. l \in Locals /\ l.worker = {} /\ l.calls = calls
    BY <1>1, <2>3 DEF Locals
  <2>5. loc' = l
    BY <1>4
  <2> HIDE DEF l
  <2>6. QED
    BY <1>1, <1>4, <2>2, <2>4, <2>5, MemoryStep DEF roster
<1>5. QED
  BY <1>2, <1>3, <1>4 DEF BeginRound

\* A list of tool requests is finite.
LEMMA RequestsFinite == IsFiniteSet(Requests)
<1>1. IsFiniteSet(1..MaxMentions)
  BY ConstantsAssumption, FS_Interval
<1>2. QED
  BY <1>1, ConstantsAssumption, FS_Product DEF Requests

LEMMA RunToolStep ==
    ASSUME LoopInv, NEW d \in Decision, Decide(d), RunTool(d)
    PROVE  LoopInv'
<1> DEFINE e == Enqueue(board, d.cmds)
           n == Cardinality(d.tools)
           f == AddArtifacts(e, n)
           b == SetStatus(f, "waiting_tool")
<1>1. /\ pc = "top" /\ pc \in Active /\ pc # "save" /\ board.round < MaxRounds
      /\ GoodBoard(e) /\ e \in Board
      /\ e.selected = board.selected /\ e.round = board.round
      /\ e.turns = board.turns /\ e.applied = board.applied
      /\ AfterDecide(d) \in Locals /\ AfterDecide(d).worker = {} /\ AfterDecide(d).calls = {}
  BY DecideFacts
<1>2. n \in Nat
  <2>1. IsFiniteSet(d.tools)
    BY RequestsFinite, FS_Subset DEF Decision, RequestLists
  <2>2. QED
    BY <2>1, FS_CardinalityType
<1>3. /\ board' = b /\ disk' = disk /\ loc' = AfterDecide(d) /\ pc' = "judge"
      /\ fault' = fault /\ emitter' = emitter /\ composed' = composed
  BY DEF RunTool
<1> HIDE DEF e, n
<1>4. GoodBoard(f) /\ f.selected = e.selected /\ f.round = e.round /\ f.turns = e.turns
      /\ f.applied = e.applied
  BY <1>1, <1>2, AddArtifactsGood
<1>5. "waiting_tool" \in Running
  BY DEF Running
<1> HIDE DEF f
<1>6. GoodBoard(b) /\ b.status \in Running /\ b.selected = f.selected /\ b.round = f.round
      /\ b.turns = f.turns /\ b.applied = f.applied
  BY <1>4, <1>5, SetStatusGood
<1> HIDE DEF b
<1>7. QED
  BY <1>1, <1>3, <1>4, <1>6, MemoryStep

LEMMA ClaimFinishedStep ==
    ASSUME LoopInv, NEW d \in Decision, Decide(d), ClaimFinished(d)
    PROVE  LoopInv'
BY DecideFacts, MemoryStep DEF ClaimFinished

LEMMA GiveUpStep ==
    ASSUME LoopInv, NEW d \in Decision, Decide(d), GiveUp(d)
    PROVE  LoopInv'
<1>1. /\ d.kind \in {"blocked", "failed"}
      /\ Terminate(Enqueue(board, d.cmds), d.kind, "o_decision")
  BY DEF GiveUp
<1>2. d.kind \in Terminal /\ "o_decision" \in Reasons /\ d.kind # "finished"
  BY <1>1 DEF Terminal, Reasons
<1>3. QED
  BY <1>1, <1>2, DecideFacts, TerminateStep

LEMMA DecideStep ==
    ASSUME LoopInv, NEW d \in Decision, Decide(d)
    PROVE  LoopInv'
BY BeginRoundStep, RunToolStep, ClaimFinishedStep, GiveUpStep DEF Decide

\* The calls of a round: skip, start, refuse.
LEMMA CallFacts ==
    ASSUME LoopInv, pc \in {"calls", "judge", "commit"}
    PROVE  /\ pc \in Active /\ pc # "save" /\ board.round < MaxRounds
           /\ GoodBoard(board) /\ loc \in Locals /\ loc.worker = {}
           /\ board.status \in Running
           /\ board.turns = disk.turns /\ board.round = disk.round
           /\ board.selected = disk.selected /\ board.applied = disk.applied
           /\ \A p \in loc.calls : p[2] \in Roster(board)
           /\ pc # "calls" => loc.calls = {}
<1>1. pc \in Active /\ pc # "save" /\ pc # "working"
  BY DEF Active, PCs
<1>2. QED
  BY <1>1, GoodBoards DEF LoopInv, TypeOK, PhaseInv, SyncInv

LEMMA SkipDoneStep == ASSUME LoopInv, NEW p, SkipDone(p) PROVE LoopInv'
<1> DEFINE l == [loc EXCEPT !.calls = @ \ {p}]
<1>1. pc = "calls" /\ loc' = l /\ UNCHANGED <<pc, board, disk, fault, emitter, composed>>
  BY DEF SkipDone
<1>2. l \in Locals /\ l.worker = loc.worker /\ l.calls \subseteq loc.calls
  BY DEF LoopInv, TypeOK, Locals
<1> HIDE DEF l
<1>3. QED
  BY <1>1, <1>2, CallFacts, MemoryStep

LEMMA StartTurnStep == ASSUME LoopInv, NEW p, StartTurn(p) PROVE LoopInv'
<1> DEFINE l == [loc EXCEPT !.calls = @ \ {p}, !.worker = {p[2]}]
           b == AddArtifacts(board, 1)
           a == p[2]
<1>1. /\ pc = "calls" /\ p \in loc.calls /\ a \notin DoneThisRound(board)
      /\ board' = b /\ loc' = l /\ pc' = "working"
      /\ UNCHANGED <<disk, fault, emitter, composed>>
  BY DEF StartTurn
<1>2. /\ board.round < MaxRounds /\ GoodBoard(board) /\ loc \in Locals
      /\ board.turns = disk.turns /\ board.round = disk.round /\ board.status \in Running
      /\ board.selected = disk.selected /\ board.applied = disk.applied
      /\ \A c \in loc.calls : c[2] \in Roster(board)
  BY <1>1, CallFacts
<1>3. a \in Roster(board) /\ a \in Agents
  BY <1>1, <1>2 DEF Roster
<1>4. l \in Locals /\ l.worker = {a} /\ l.calls \subseteq loc.calls
  BY <1>2, <1>3 DEF Locals
<1>5. /\ GoodBoard(b) /\ b.status = board.status /\ b.selected = board.selected
      /\ b.round = board.round /\ b.turns = board.turns /\ b.applied = board.applied
  BY <1>2, AddArtifactsGood
<1>6. board.turns[<<board.round, a>>] = 0
  <2>1. board.turns \in [(0..MaxRounds) \X Agents -> Nat] /\ board.round \in 0..MaxRounds
    BY <1>2 DEF GoodBoard, Board
  <2>2. board.turns[<<board.round, a>>] \in Nat
    BY <2>1, <1>3
  <2>3. QED
    BY <1>1, <1>3, <2>2 DEF DoneThisRound
<1> HIDE DEF l, b, a
<1>7. GoodBoard(board)' /\ GoodBoard(disk)'
  BY <1>1, <1>5, GoodBoards
     DEF GoodBoard, EvidenceOK, AllAccepted, TurnsOK, QueueOK, RosterOK, Roster
<1>8. Roster(board)' = Roster(board)
  BY <1>1, <1>5 DEF Roster
<1>9. disk.status \in Running
  BY <1>1 DEF LoopInv, PhaseInv, Active, PCs
<1>10. PhaseInv'
  BY <1>1, <1>2, <1>3, <1>4, <1>5, <1>8, <1>9 DEF PhaseInv
<1>11. SyncInv'
  BY <1>1, <1>2, <1>5 DEF SyncInv
<1>12. TypeOK'
  BY <1>1, <1>4, <1>7 DEF TypeOK, PCs, GoodBoard, LoopInv
<1>13. TurnsOnce'
  BY <1>1, <1>2, <1>3, <1>4, <1>5, <1>6, <1>7, <1>8 DEF TurnsOnce, GoodBoard
<1>14. QED
  BY <1>7, <1>10, <1>11, <1>12, <1>13
     DEF LoopInv, GoodBoard, EvidenceInv, QueueSound, RosterSound

LEMMA BrokerStep == ASSUME LoopInv, NEW p, BrokerRedirects(p) PROVE LoopInv'
<1>1. pc = "calls" /\ disk' = disk /\ GoDown("permission")
  BY DEF BrokerRedirects
<1>2. QED
  BY <1>1, CallFacts, GoDownStep DEF Faults

\* A step that saves the board it leaves in memory.
LEMMA SaveStep ==
    ASSUME LoopInv, NEW b, NEW l, GoodBoard(b), b.status \in Running,
           board' = b, disk' = b, loc' = l, fault' = fault, emitter' = emitter, composed' = composed,
           l \in Locals, l.worker = {}, pc' \in {"calls", "guard"},
           pc' = "calls" => b.round < MaxRounds,
           \A p \in l.calls : p[2] \in Roster(b),
           pc' = "guard" => l.calls = {}
    PROVE  LoopInv'
<1>1. GoodBoard(board)' /\ GoodBoard(disk)'
  BY DEF GoodBoard, EvidenceOK, AllAccepted, TurnsOK, QueueOK, RosterOK, Roster
<1>2. Roster(board)' = Roster(b)
  BY DEF Roster
<1>3. PhaseInv'
  BY <1>2 DEF PhaseInv
<1>4. SyncInv'
  BY DEF SyncInv
<1>5. pc' \in PCs /\ fault' \in Faults /\ emitter' \in Emitters /\ composed' \in SUBSET Agents
  BY DEF PCs, LoopInv, TypeOK
<1>6. QED
  BY <1>1, <1>3, <1>4, <1>5, FromGoodBoards

LEMMA CompleteTurnStep ==
    ASSUME LoopInv, NEW n \in 0..MaxWorkerArts, CompleteTurn(n)
    PROVE  LoopInv'
<1>1. PICK a \in loc.worker : board' = AddTurn(AddArtifacts(board, n + 1), a)
  BY DEF CompleteTurn
<1> DEFINE f == AddArtifacts(board, n + 1)
           b == AddTurn(f, a)
           l == [loc EXCEPT !.worker = {}]
<1>2. /\ pc = "working" /\ board' = b /\ disk' = b /\ loc' = l /\ pc' = "calls"
      /\ fault' = fault /\ emitter' = emitter /\ composed' = composed
  BY <1>1 DEF CompleteTurn
<1>3. n + 1 \in Nat /\ a \in Agents
  BY ConstantsAssumption DEF LoopInv, TypeOK, Locals
<1>4. /\ board.round < MaxRounds /\ GoodBoard(board) /\ board.status \in Running
      /\ board.turns[<<board.round, a>>] = 0
      /\ \A p \in loc.calls : p[2] \in Roster(board)
  BY <1>2, GoodBoards DEF LoopInv, PhaseInv, TurnsOnce, Active, PCs
<1>5. /\ GoodBoard(f) /\ f.status = board.status /\ f.round = board.round
      /\ f.turns = board.turns /\ f.selected = board.selected
  BY <1>3, <1>4, AddArtifactsGood
<1> HIDE DEF f
<1>6. GoodBoard(b) /\ b.status = f.status /\ b.round = f.round /\ b.selected = f.selected
  BY <1>3, <1>4, <1>5, AddTurnGood
<1>7. l \in Locals /\ l.worker = {} /\ l.calls = loc.calls
  BY DEF LoopInv, TypeOK, Locals
<1>8. Roster(b) = Roster(board)
  BY <1>5, <1>6 DEF Roster
<1> HIDE DEF b, l
<1>9. QED
  BY <1>2, <1>4, <1>5, <1>6, <1>7, <1>8, SaveStep

LEMMA RoundDoneStep == ASSUME LoopInv, RoundDone PROVE LoopInv'
<1> DEFINE b == SetStatus(board, "in_discussion")
<1>1. /\ pc = "calls" /\ loc.calls = {} /\ board' = b /\ pc' = "judge"
      /\ UNCHANGED <<disk, loc, fault, emitter, composed>>
  BY DEF RoundDone
<1>2. "in_discussion" \in Running
  BY DEF Running
<1>3. /\ GoodBoard(b) /\ b.status \in Running /\ b.selected = board.selected
      /\ b.round = board.round /\ b.turns = board.turns /\ b.applied = board.applied
  BY <1>1, <1>2, CallFacts, SetStatusGood
<1> HIDE DEF b
<1>4. QED
  BY <1>1, <1>3, CallFacts, MemoryStep

LEMMA JudgeStep ==
    ASSUME LoopInv, NEW claims \in [Criteria -> Claim], Judge(claims)
    PROVE  LoopInv'
<1> DEFINE j == Judged(board, claims)
           den == [j EXCEPT !.reason = "denied"]
<1>1. pc = "judge"
  BY DEF Judge
<1>2. /\ pc \in Active /\ pc # "save" /\ board.round < MaxRounds
      /\ GoodBoard(board) /\ loc \in Locals /\ loc.worker = {} /\ loc.calls = {}
      /\ board.turns = disk.turns /\ board.round = disk.round
      /\ board.selected = disk.selected /\ board.applied = disk.applied
  BY <1>1, CallFacts
<1>3. /\ GoodBoard(j) /\ j \in Board /\ j.status = "reviewing_ac" /\ j.selected = board.selected
      /\ j.round = board.round /\ j.turns = board.turns /\ j.applied = board.applied
  BY <1>2, JudgedGood, JudgedType DEF GoodBoard
<1> HIDE DEF j
<1>4. CASE loc.kind = "finished" /\ AllAccepted(j)
  <2>1. Terminate(j, "finished", "accepted")
    BY <1>4 DEF Judge, j
  <2>2. "finished" \in Terminal /\ "accepted" \in Reasons
    BY DEF Terminal, Reasons
  <2>3. QED
    BY <1>2, <1>3, <1>4, <2>1, <2>2, TerminateStep
<1>5. CASE ~(loc.kind = "finished" /\ AllAccepted(j))
  <2>1. /\ board' = den \/ board' = j
        /\ pc' = "commit" /\ UNCHANGED <<disk, loc, fault, emitter, composed>>
    BY <1>5 DEF Judge, j
  <2>2. "reviewing_ac" \in Running
    BY DEF Running
  <2>3. CASE board' = j
    BY <1>2, <1>3, <2>1, <2>2, <2>3, MemoryStep
  <2>4. CASE board' = den
    <3>1. /\ den \in Board /\ den.status = j.status /\ den.selected = j.selected
          /\ den.round = j.round /\ den.turns = j.turns /\ den.applied = j.applied
          /\ den.checks = j.checks /\ den.arts = j.arts /\ den.pending = j.pending
      BY <1>3 DEF Board, Reasons
    <3> HIDE DEF den
    <3>2. GoodBoard(den)
      BY <1>3, <3>1
         DEF GoodBoard, EvidenceOK, AllAccepted, TurnsOK, QueueOK, RosterOK, Roster
    <3>3. QED
      BY <1>2, <1>3, <2>1, <2>2, <2>4, <3>1, <3>2, MemoryStep
  <2>5. QED
    BY <2>1, <2>3, <2>4
<1>6. QED
  BY <1>4, <1>5

LEMMA ApplyStep == ASSUME LoopInv, ApplyCommands PROVE LoopInv'
<1>1. pc = "commit"
  BY DEF ApplyCommands
<1>2. /\ pc \in Active /\ board.round < MaxRounds /\ GoodBoard(board) /\ loc \in Locals
      /\ board \in Board /\ loc.worker = {} /\ loc.calls = {} /\ board.status \in Running
      /\ board.turns = disk.turns /\ board.round = disk.round
      /\ board.selected = disk.selected /\ board.applied = disk.applied
  BY <1>1, CallFacts DEF GoodBoard
<1>3. CASE disk' = disk /\ GoDown("contract")
  BY <1>2, <1>3, GoDownStep DEF Faults
<1>4. CASE /\ board' = ApplyPending(board)
           /\ loc' = [loc EXCEPT !.queued = board.pending,
                                 !.grew = Admitted(board),
                                 !.repeat = IF Admitted(board) # {} THEN 0 ELSE @]
           /\ pc' = "save"
           /\ UNCHANGED <<disk, fault, emitter, composed>>
  <2> DEFINE b == ApplyPending(board)
             ad == Admitted(board)
             rep == IF ad # {} THEN 0 ELSE loc.repeat
             l == [loc EXCEPT !.queued = board.pending, !.grew = ad, !.repeat = rep]
  <2>1. /\ board' = b /\ loc' = l /\ pc' = "save" /\ disk' = disk /\ fault' = fault
        /\ emitter' = emitter /\ composed' = composed
    BY <1>4
  <2>2. /\ GoodBoard(b) /\ Roster(board) \subseteq Roster(b)
        /\ Roster(b) \subseteq Roster(board) \cup Catalog
    BY <1>2, ApplyGood
  <2>3. /\ b.status = board.status /\ b.round = board.round /\ b.turns = board.turns
        /\ b.pending = {} /\ board.applied \subseteq b.applied
    BY <1>2, ApplyType
  <2>4. ad \subseteq Agents /\ rep \in Nat /\ board.pending \subseteq Command
    BY <1>2, ConstantsAssumption DEF Admitted, Honoured, Locals, Board
  <2> HIDE DEF ad, rep, b
  <2>5. l \in Locals /\ l.worker = loc.worker /\ l.calls = loc.calls
    BY <1>2, <2>4 DEF Locals
  <2> HIDE DEF l
  <2>6. Roster(board) = Roster(disk)
    BY <1>2 DEF Roster
  <2>7. GoodBoard(board)' /\ GoodBoard(disk)'
    BY <2>1, <2>2, GoodBoards
       DEF GoodBoard, EvidenceOK, AllAccepted, TurnsOK, QueueOK, RosterOK, Roster
  <2>8. disk.status \in Running
    BY <1>2 DEF LoopInv, PhaseInv
  <2>9. PhaseInv'
    BY <1>2, <2>1, <2>3, <2>5, <2>8 DEF PhaseInv
  <2>10. SyncInv'
    <3>1. Roster(board)' = Roster(b) /\ Roster(disk)' = Roster(disk)
      BY <2>1 DEF Roster
    <3>2. QED
      BY <1>2, <2>1, <2>2, <2>3, <2>6, <3>1 DEF SyncInv
  <2>11. pc' \in PCs /\ fault' \in Faults /\ emitter' \in Emitters /\ composed' \in SUBSET Agents
    BY <2>1 DEF PCs, LoopInv, TypeOK
  <2>12. QED
    BY <1>2, <2>1, <2>5, <2>7, <2>9, <2>10, <2>11, FromGoodBoards
<1>5. QED
  BY <1>3, <1>4 DEF ApplyCommands

\* Advancing the round changes the round only.
LEMMA AdvanceGood ==
    ASSUME NEW b, GoodBoard(b), b.round < MaxRounds
    PROVE  LET n == [b EXCEPT !.round = @ + 1]
           IN  /\ GoodBoard(n) /\ n.round = b.round + 1 /\ n.status = b.status
               /\ n.selected = b.selected /\ n.turns = b.turns /\ n.applied = b.applied
               /\ n.pending = b.pending
<1> DEFINE n == [b EXCEPT !.round = @ + 1]
<1>1. b \in Board /\ b.round + 1 \in 0..MaxRounds
  BY ConstantsAssumption DEF GoodBoard, Board
<1>2. /\ n \in Board /\ n.round = b.round + 1 /\ n.status = b.status /\ n.checks = b.checks
      /\ n.selected = b.selected /\ n.turns = b.turns /\ n.applied = b.applied
      /\ n.arts = b.arts /\ n.pending = b.pending
  BY <1>1 DEF Board
<1> HIDE DEF n
<1>3. GoodBoard(n)
  BY <1>2 DEF GoodBoard, EvidenceOK, AllAccepted, TurnsOK, QueueOK, RosterOK, Roster
<1>4. QED
  BY <1>2, <1>3 DEF n

LEMMA SaveRoundStep == ASSUME LoopInv, SaveRound PROVE LoopInv'
<1> DEFINE n == [board EXCEPT !.round = @ + 1]
<1>1. /\ pc = "save" /\ board' = n /\ disk' = n /\ pc' = "guard"
      /\ UNCHANGED <<loc, fault, emitter, composed>>
  BY DEF SaveRound
<1>2. /\ GoodBoard(board) /\ board.round < MaxRounds /\ loc \in Locals /\ loc.worker = {}
      /\ loc.calls = {} /\ board.status \in Running
  BY <1>1, GoodBoards DEF LoopInv, TypeOK, PhaseInv, Active, PCs
<1>3. GoodBoard(n) /\ n.status = board.status
  BY <1>2, AdvanceGood
<1> HIDE DEF n
<1>4. QED
  BY <1>1, <1>2, <1>3, SaveStep

LEMMA GuardStep == ASSUME LoopInv, LoopGuard PROVE LoopInv'
<1>1. pc = "guard"
  BY DEF LoopGuard
<1>2. /\ pc \in Active /\ pc # "save" /\ GoodBoard(board) /\ loc \in Locals
      /\ board.turns = disk.turns /\ board.round = disk.round /\ board.status \in Running
      /\ board.selected = disk.selected /\ board.applied = disk.applied
  BY <1>1, GoodBoards DEF LoopInv, TypeOK, PhaseInv, SyncInv, Active, PCs
<1>3. "blocked" \in Terminal /\ {"no_progress", "repeated"} \subseteq Reasons
  BY DEF Terminal, Reasons
<1>4. CASE disk' = disk /\ GoDown("contract")
  BY <1>2, <1>4, GoDownStep DEF Faults
<1>5. CASE Terminate(board, "blocked", "no_progress")
  BY <1>2, <1>3, <1>5, TerminateStep
<1>6. CASE Terminate(board, "blocked", "repeated")
  BY <1>2, <1>3, <1>6, TerminateStep
<1>7. CASE pc' = "top" /\ loc' = BetweenRounds /\ UNCHANGED <<board, disk, fault, emitter, composed>>
  <2> DEFINE l == BetweenRounds
  <2>1. /\ NewLocals \in Locals /\ NewLocals.worker = {} /\ NewLocals.calls = {}
        /\ loc.sig \in Signature /\ loc.repeat \in Nat /\ loc.parse \in Nat
    BY <1>2, NewLocalsType DEF NewLocals, Locals
  <2>2. l \in Locals /\ l.worker = {} /\ l.calls = {}
    BY <2>1 DEF BetweenRounds, Locals
  <2> HIDE DEF l
  <2>3. loc' = l
    BY <1>7 DEF l
  <2>4. QED
    BY <1>2, <1>7, <2>2, <2>3, MemoryStep
<1>8. QED
  BY <1>4, <1>5, <1>6, <1>7 DEF LoopGuard

-----------------------------------------------------------------------------
\* The invariant holds.

LEMMA InitInv == Init => LoopInv
<1> SUFFICES ASSUME Init PROVE LoopInv
  OBVIOUS
<1>1. NewBoard \in Board /\ NewLocals \in Locals
  BY NewBoardType, NewLocalsType
<1>2. /\ NewBoard.status = "created" /\ NewBoard.pending = {}
      /\ \A c \in Criteria : NewBoard.checks[c].status = "pending"
      /\ \A p \in (0..MaxRounds) \X Agents : NewBoard.turns[p] = 0
      /\ \A a \in Agents : NewBoard.selected[a] = 0
  BY DEF NewBoard
<1>3. GoodBoard(NewBoard)
  BY <1>1, <1>2 DEF GoodBoard, EvidenceOK, TurnsOK, QueueOK, RosterOK, Roster
<1>4. NewLocals.worker = {} /\ NewLocals.calls = {}
  BY DEF NewLocals
<1>5. PhaseInv
  BY <1>4 DEF Init, PhaseInv, Active
<1>6. SyncInv
  BY DEF Init, SyncInv
<1>7. QED
  BY <1>1, <1>3, <1>4, <1>5, <1>6
     DEF Init, LoopInv, TypeOK, PCs, Faults, EvidenceInv, TurnsOnce, QueueSound, RosterSound,
         GoodBoard

LEMMA NextInv == LoopInv /\ [Next]_vars => LoopInv'
<1> SUFFICES ASSUME LoopInv, [Next]_vars PROVE LoopInv'
  OBVIOUS
<1>1. CASE \E team \in SUBSET Agents : ComposeTeam(team)
  BY <1>1, ComposeStep
<1>2. CASE Drive
  <2>1. CASE RoundsExhausted
    BY <2>1, RoundsExhaustedStep
  <2>2. CASE DecideParseError
    BY <2>2, ParseErrorStep
  <2>3. CASE \E d \in Decision : Decide(d)
    BY <2>3, DecideStep
  <2>4. CASE \E p \in loc.calls : SkipDone(p) \/ StartTurn(p) \/ BrokerRedirects(p)
    BY <2>4, SkipDoneStep, StartTurnStep, BrokerStep
  <2>5. CASE \E n \in 0..MaxWorkerArts : CompleteTurn(n)
    BY <2>5, CompleteTurnStep
  <2>6. CASE RoundDone
    BY <2>6, RoundDoneStep
  <2>7. CASE \E claims \in [Criteria -> Claim] : Judge(claims)
    BY <2>7, JudgeStep
  <2>8. CASE ApplyCommands
    BY <2>8, ApplyStep
  <2>9. CASE SaveRound
    BY <2>9, SaveRoundStep
  <2>10. CASE LoopGuard
    BY <2>10, GuardStep
  <2>11. QED
    BY <1>2, <2>1, <2>2, <2>3, <2>4, <2>5, <2>6, <2>7, <2>8, <2>9, <2>10 DEF Drive
<1>3. CASE Crash
  BY <1>3, GoDownStep DEF Crash, Faults
<1>4. CASE Resume
  BY <1>4, ResumeStep
<1>5. CASE ResumeTerminal
  BY <1>5, ResumeTerminalStep
<1>6. CASE UNCHANGED vars
  BY <1>6 DEF vars, LoopInv, TypeOK, PhaseInv, SyncInv, EvidenceInv, EvidenceOK, AllAccepted,
              TurnsOnce, TurnsOK, QueueSound, QueueOK, RosterSound, RosterOK, Roster
<1>7. QED
  BY <1>1, <1>2, <1>3, <1>4, <1>5, <1>6 DEF Next

\* The inductive invariant of the task loop holds in every reachable state.
THEOREM LoopCorrect == Spec => []LoopInv
<1>1. Init => LoopInv
  BY InitInv
<1>2. LoopInv /\ [Next]_vars => LoopInv'
  BY NextInv
<1>3. QED
  BY <1>1, <1>2, PTL DEF Spec

\* A passed check of the task loop, and so every finished task, rests on
\* artifacts of the same Blackboard (judge_acceptance).
THEOREM EvidenceTheorem == Spec => []EvidenceInv
<1>1. LoopInv => EvidenceInv
  BY DEF LoopInv
<1>2. QED
  BY <1>1, LoopCorrect, PTL

\* No worker turn of a round is run or recorded twice, however often the loop
\* crashes and is resumed (run_round, resume_task_loop).
THEOREM TurnsTheorem == Spec => []TurnsOnce
<1>1. LoopInv => TurnsOnce
  BY DEF LoopInv
<1>2. QED
  BY <1>1, LoopCorrect, PTL

\* Idempotency keys are queued once and never after they were applied
\* (enqueue_commands).
THEOREM QueueTheorem == Spec => []QueueSound
<1>1. LoopInv => QueueSound
  BY DEF LoopInv
<1>2. QED
  BY <1>1, LoopCorrect, PTL

\* The roster holds composed and catalog agents, each once
\* (compose_team, apply_pending_commands).
THEOREM RosterTheorem == Spec => []RosterSound
<1>1. LoopInv => RosterSound
  BY DEF LoopInv
<1>2. QED
  BY <1>1, LoopCorrect, PTL

-----------------------------------------------------------------------------
\* The checkpoint implements DurableLoop.

LEMMA DiskStutters == ASSUME disk' = disk PROVE UNCHANGED Durable!dvars
BY DEF Durable!dvars, DurablePhase, DurableTurned, Roster

\* Disk, phase by phase.
LEMMA OpenPhase == ASSUME LoopInv, pc \in Active PROVE DurablePhase = "open"
BY DEF LoopInv, PhaseInv, DurablePhase, Running, Terminal

LEMMA ComposeRefines ==
    ASSUME LoopInv, NEW team \in SUBSET Agents, ComposeTeam(team)
    PROVE  Durable!Compose(team)
<1> DEFINE sel == [a \in Agents |-> IF a \in team THEN 1 ELSE 0]
           b == [NewBoard EXCEPT !.selected = sel, !.arts = @ + 1, !.status = "team_selected"]
<1>1. pc = "idle" /\ board = NewBoard /\ disk = NewBoard
  BY DEF ComposeTeam, LoopInv, PhaseInv
<1>2. disk' = b /\ team # {} /\ (Catalog # {} => team \subseteq Catalog)
  BY <1>1 DEF ComposeTeam
<1>3. sel \in [Agents -> Nat] /\ \A a \in Agents : sel[a] > 0 <=> a \in team
  OBVIOUS
<1>4. /\ b.selected = sel /\ b.status = "team_selected" /\ b.turns = NewBoard.turns
      /\ b.round = NewBoard.round
  <2> HIDE DEF sel
  <2>1. QED
    BY NewBoardType DEF Board
<1> HIDE DEF sel, b
<1>5. NewBoard.status = "created"
  BY NewBoardCreated
<1>6. DurablePhase = "new" /\ DurablePhase' = "open"
  BY <1>1, <1>2, <1>4, <1>5 DEF DurablePhase, Terminal
<1>7. Roster(disk)' = team
  BY <1>2, <1>3, <1>4 DEF Roster
<1>8. DurableTurned' = DurableTurned /\ disk'.round = disk.round
  BY <1>1, <1>2, <1>4 DEF DurableTurned
<1>9. QED
  BY <1>2, <1>6, <1>7, <1>8 DEF Durable!Compose

LEMMA TerminateRefines ==
    ASSUME LoopInv, pc \in Active, NEW b, b \in Board, b.turns = disk.turns, b.round = disk.round,
           b.selected = disk.selected, NEW status \in Terminal, NEW reason,
           Terminate(b, status, reason)
    PROVE  Durable!End(status)
<1> DEFINE t == [b EXCEPT !.status = status, !.reason = reason]
<1>1. disk' = t
  BY DEF Terminate
<1>2. t.status = status /\ t.selected = b.selected /\ t.round = b.round /\ t.turns = b.turns
  BY DEF Board
<1> HIDE DEF t
<1>3. DurablePhase = "open" /\ DurablePhase' = status
  BY <1>1, <1>2, OpenPhase DEF DurablePhase, Terminal
<1>4. Roster(disk)' = Roster(disk) /\ DurableTurned' = DurableTurned /\ disk'.round = disk.round
  BY <1>1, <1>2 DEF Roster, DurableTurned
<1>5. QED
  BY <1>3, <1>4 DEF Durable!End

LEMMA TurnRefines ==
    ASSUME LoopInv, NEW n \in 0..MaxWorkerArts, CompleteTurn(n)
    PROVE  \E a \in Agents : Durable!SaveTurn(a)
<1>1. PICK a \in loc.worker : board' = AddTurn(AddArtifacts(board, n + 1), a)
  BY DEF CompleteTurn
<1> DEFINE f == AddArtifacts(board, n + 1)
           b == AddTurn(f, a)
<1>2. pc = "working" /\ disk' = b
  BY <1>1 DEF CompleteTurn
<1>3. n + 1 \in Nat /\ a \in Agents
  BY ConstantsAssumption DEF LoopInv, TypeOK, Locals
<1>4. /\ board.round < MaxRounds /\ GoodBoard(board) /\ board.status \in Running
      /\ board.turns[<<board.round, a>>] = 0 /\ a \in Roster(board)
      /\ board.turns = disk.turns /\ board.round = disk.round /\ board.selected = disk.selected
      /\ board.round \in 0..MaxRounds /\ pc \in Active
  BY <1>2, GoodBoards DEF LoopInv, TypeOK, Board, PhaseInv, TurnsOnce, SyncInv, Active, PCs
<1>5. /\ GoodBoard(f) /\ f.status = board.status /\ f.round = board.round
      /\ f.turns = board.turns /\ f.selected = board.selected
  BY <1>3, <1>4, AddArtifactsGood
<1> HIDE DEF f
<1>6. /\ b.status = f.status /\ b.round = f.round /\ b.selected = f.selected
      /\ \A p \in (0..MaxRounds) \X Agents :
            b.turns[p] = IF p = <<f.round, a>> THEN 1 ELSE f.turns[p]
  BY <1>3, <1>4, <1>5, AddTurnGood
<1> HIDE DEF b
<1>7. DurablePhase = "open" /\ DurablePhase' = "open"
  BY <1>2, <1>4, <1>5, <1>6, OpenPhase DEF DurablePhase, Running, Terminal
<1>8. /\ Roster(disk) = Roster(board) /\ Roster(disk)' = Roster(disk)
      /\ disk'.round = disk.round
  BY <1>2, <1>4, <1>5, <1>6 DEF Roster
<1>9. DurableTurned' = DurableTurned \cup {<<disk.round, a>>}
  <2>1. <<disk.round, a>> \in (0..MaxRounds) \X Agents
    BY <1>3, <1>4
  <2>2. \A p \in (0..MaxRounds) \X Agents :
           disk'.turns[p] = IF p = <<disk.round, a>> THEN 1 ELSE disk.turns[p]
    BY <1>2, <1>4, <1>5, <1>6
  <2>3. QED
    BY <2>1, <2>2 DEF DurableTurned
<1>10. <<disk.round, a>> \notin DurableTurned
  BY <1>4 DEF DurableTurned
<1>11. disk.round < MaxRounds /\ a \in Roster(disk)
  BY <1>4, <1>8
<1>12. QED
  BY <1>3, <1>7, <1>8, <1>9, <1>10, <1>11 DEF Durable!SaveTurn

LEMMA RoundRefines ==
    ASSUME LoopInv, SaveRound
    PROVE  \E new \in SUBSET Agents : Durable!EndRound(new)
<1> DEFINE n == [board EXCEPT !.round = @ + 1]
           new == Roster(board) \ Roster(disk)
<1>1. pc = "save" /\ disk' = n
  BY DEF SaveRound
<1>2. /\ GoodBoard(board) /\ board.round < MaxRounds /\ board.status \in Running
      /\ board.turns = disk.turns /\ board.round = disk.round
      /\ Roster(disk) \subseteq Roster(board) /\ Roster(board) \subseteq Roster(disk) \cup Catalog
      /\ pc \in Active
  BY <1>1, GoodBoards DEF LoopInv, PhaseInv, SyncInv, Active, PCs
<1>3. /\ n.round = board.round + 1 /\ n.status = board.status /\ n.selected = board.selected
      /\ n.turns = board.turns
  BY <1>2, AdvanceGood
<1> HIDE DEF n
<1>4. DurablePhase = "open" /\ DurablePhase' = "open"
  BY <1>1, <1>2, <1>3, OpenPhase DEF DurablePhase, Running, Terminal
<1>5. Roster(disk)' = Roster(board) /\ DurableTurned' = DurableTurned
  BY <1>1, <1>2, <1>3 DEF Roster, DurableTurned
<1>6. new \subseteq Catalog /\ new \in SUBSET Agents /\ Roster(disk)' = Roster(disk) \cup new
  BY <1>2, <1>5 DEF Roster
<1> HIDE DEF new
<1>7. disk.round < MaxRounds /\ disk'.round = disk.round + 1
  BY <1>1, <1>2, <1>3
<1>8. Durable!EndRound(new)
  BY <1>4, <1>5, <1>6, <1>7 DEF Durable!EndRound
<1>9. QED
  BY <1>6, <1>8

\* The steps that write the checkpoint, and what they write.
LEMMA DiskChange ==
    ASSUME LoopInv, [Next]_vars
    PROVE  \/ disk' = disk
           \/ \E team \in SUBSET Agents : ComposeTeam(team)
           \/ /\ pc \in Active
              /\ \E b \in Board, status \in Terminal, reason \in Reasons :
                    /\ b.turns = disk.turns /\ b.round = disk.round
                    /\ b.selected = disk.selected /\ b.applied = disk.applied
                    /\ Terminate(b, status, reason)
           \/ \E n \in 0..MaxWorkerArts : CompleteTurn(n)
           \/ SaveRound
<1> DEFINE Ends == /\ pc \in Active
                   /\ \E b \in Board, status \in Terminal, reason \in Reasons :
                         /\ b.turns = disk.turns /\ b.round = disk.round
                         /\ b.selected = disk.selected /\ b.applied = disk.applied
                         /\ Terminate(b, status, reason)
<1>1. board \in Board
  BY DEF LoopInv, TypeOK
<1>2. /\ Terminal = {"finished", "blocked", "failed"}
      /\ {"accepted", "max_rounds", "parse_budget", "o_decision", "no_progress", "repeated"}
            \subseteq Reasons
  BY DEF Terminal, Reasons
<1>3. ASSUME pc \in {"top", "guard", "judge"}
      PROVE  /\ pc \in Active /\ board.turns = disk.turns /\ board.round = disk.round
             /\ board.selected = disk.selected /\ board.applied = disk.applied
  BY <1>3 DEF LoopInv, SyncInv, Active, PCs
<1>4. CASE RoundsExhausted
  BY <1>1, <1>2, <1>3, <1>4 DEF RoundsExhausted
<1>5. CASE DecideParseError
  BY <1>1, <1>2, <1>3, <1>5 DEF DecideParseError
<1>6. ASSUME NEW d \in Decision, Decide(d)
      PROVE  disk' = disk \/ Ends
  <2>1. CASE BeginRound(d)
    BY <2>1 DEF BeginRound
  <2>2. CASE RunTool(d) \/ ClaimFinished(d)
    BY <2>2 DEF RunTool, ClaimFinished
  <2>3. CASE GiveUp(d)
    <3> DEFINE e == Enqueue(board, d.cmds)
    <3>1. /\ pc \in Active /\ e \in Board /\ e.turns = disk.turns /\ e.round = disk.round
          /\ e.selected = disk.selected /\ e.applied = disk.applied
      BY <1>6, DecideFacts
    <3>2. d.kind \in Terminal /\ Terminate(e, d.kind, "o_decision")
      BY <1>2, <2>3 DEF GiveUp
    <3>3. QED
      BY <1>2, <3>1, <3>2
  <2>4. QED
    BY <1>6, <2>1, <2>2, <2>3 DEF Decide
<1>7. ASSUME NEW claims \in [Criteria -> Claim], Judge(claims)
      PROVE  disk' = disk \/ Ends
  <2> DEFINE j == Judged(board, claims)
  <2>1. pc = "judge"
    BY <1>7 DEF Judge
  <2>2. /\ j \in Board /\ j.turns = board.turns /\ j.round = board.round
        /\ j.selected = board.selected /\ j.applied = board.applied
    BY <1>1, JudgedType
  <2>3. disk' = disk \/ Terminate(j, "finished", "accepted")
    BY <1>7 DEF Judge
  <2> HIDE DEF j
  <2>4. QED
    BY <1>2, <1>3, <2>1, <2>2, <2>3
<1>8. CASE LoopGuard
  BY <1>1, <1>2, <1>3, <1>8 DEF LoopGuard
<1>9. CASE \E p \in loc.calls : SkipDone(p) \/ StartTurn(p) \/ BrokerRedirects(p)
  BY <1>9 DEF SkipDone, StartTurn, BrokerRedirects
<1>10. CASE RoundDone \/ ApplyCommands
  BY <1>10 DEF RoundDone, ApplyCommands
<1>11. CASE Crash \/ Resume \/ ResumeTerminal \/ UNCHANGED vars
  BY <1>11 DEF Crash, Resume, ResumeTerminal, vars
<1>12. QED
  BY <1>4, <1>5, <1>6, <1>7, <1>8, <1>9, <1>10, <1>11 DEF Next, Drive

LEMMA NextRefines == LoopInv /\ [Next]_vars => [Durable!Next]_(Durable!dvars)
<1> SUFFICES ASSUME LoopInv, [Next]_vars PROVE Durable!Next \/ UNCHANGED Durable!dvars
  OBVIOUS
<1>1. CASE disk' = disk
  BY <1>1, DiskStutters
<1>2. CASE \E team \in SUBSET Agents : ComposeTeam(team)
  BY <1>2, ComposeRefines DEF Durable!Next
<1>3. CASE /\ pc \in Active
           /\ \E b \in Board, status \in Terminal, reason \in Reasons :
                 /\ b.turns = disk.turns /\ b.round = disk.round
                 /\ b.selected = disk.selected /\ b.applied = disk.applied
                 /\ Terminate(b, status, reason)
  <2>1. PICK status \in Terminal : Durable!End(status)
    BY <1>3, TerminateRefines
  <2>2. QED
    BY <2>1 DEF Durable!Next, Terminal
<1>4. CASE \E n \in 0..MaxWorkerArts : CompleteTurn(n)
  BY <1>4, TurnRefines DEF Durable!Next
<1>5. CASE SaveRound
  BY <1>5, RoundRefines DEF Durable!Next
<1>6. QED
  BY <1>1, <1>2, <1>3, <1>4, <1>5, DiskChange

\* The checkpoint of the task loop goes through the history of an
\* uninterrupted loop, whatever crashes and resumes happen: the saves of _drive
\* and run_round implement DurableLoop.
THEOREM DurableTheorem == Spec => ImplementsDurable
<1>1. Init => Durable!Init
  <2> SUFFICES ASSUME Init PROVE Durable!Init
    OBVIOUS
  <2>1. /\ disk.status = "created" /\ disk.round = 0
        /\ \A a \in Agents : disk.selected[a] = 0
        /\ \A p \in (0..MaxRounds) \X Agents : disk.turns[p] = 0
    BY DEF Init, NewBoard
  <2>2. DurablePhase = "new"
    BY <2>1 DEF DurablePhase
  <2>3. Roster(disk) = {}
    BY <2>1 DEF Roster
  <2>4. DurableTurned = {}
    BY <2>1 DEF DurableTurned
  <2>5. QED
    BY <2>1, <2>2, <2>3, <2>4 DEF Durable!Init
<1>2. LoopInv /\ [Next]_vars => [Durable!Next]_(Durable!dvars)
  BY NextRefines
<1>3. QED
  BY <1>1, <1>2, LoopCorrect, PTL DEF Spec, ImplementsDurable, Durable!Spec

\* A terminal checkpoint never changes again (_terminate, resume_task_loop).
THEOREM StickyTheorem == Spec => TerminalSticky
<1>1. LoopInv /\ [Next]_vars => [disk.status \notin Terminal]_disk
  <2> SUFFICES ASSUME LoopInv, [Next]_vars, disk' # disk PROVE disk.status \notin Terminal
    OBVIOUS
  <2>1. pc \in Active \/ pc = "idle"
    BY DiskChange DEF ComposeTeam, CompleteTurn, SaveRound, Active, PCs
  <2>2. CASE pc \in Active
    BY <2>2 DEF LoopInv, PhaseInv, Running, Terminal
  <2>3. CASE pc = "idle"
    BY <2>3, NewBoardCreated DEF LoopInv, PhaseInv, Terminal
  <2>4. QED
    BY <2>1, <2>2, <2>3
<1>2. QED
  BY <1>1, LoopCorrect, PTL DEF Spec, TerminalSticky

\* Roster, applied keys, emptied queue and round reach the checkpoint in one
\* save (the safe checkpoint of _drive).
THEOREM AtomicTheorem == Spec => AtomicCheckpoint
<1> DEFINE A == \/ disk.status = "created"
                \/ /\ disk'.applied = disk.applied
                   /\ disk'.selected = disk.selected
                \/ /\ disk'.round = disk.round + 1
                   /\ disk'.pending = {}
                   /\ disk.applied \subseteq disk'.applied
<1>1. LoopInv /\ [Next]_vars => [A]_disk
  <2> SUFFICES ASSUME LoopInv, [Next]_vars PROVE A \/ disk' = disk
    OBVIOUS
  <2>1. CASE \E team \in SUBSET Agents : ComposeTeam(team)
    BY <2>1, NewBoardCreated DEF ComposeTeam, LoopInv, PhaseInv
  <2>2. ASSUME NEW b \in Board, NEW status \in Terminal, NEW reason \in Reasons,
               b.selected = disk.selected, b.applied = disk.applied,
               Terminate(b, status, reason)
        PROVE  A
    <3>1. disk' = [b EXCEPT !.status = status, !.reason = reason]
      BY <2>2 DEF Terminate
    <3>2. disk'.applied = b.applied /\ disk'.selected = b.selected
      BY <3>1 DEF Board
    <3>3. QED
      BY <2>2, <3>2
  <2>3. ASSUME NEW n \in 0..MaxWorkerArts, CompleteTurn(n)
        PROVE  A
    <3>1. PICK a \in loc.worker : disk' = AddTurn(AddArtifacts(board, n + 1), a)
      BY <2>3 DEF CompleteTurn
    <3> DEFINE f == AddArtifacts(board, n + 1)
    <3>2. n + 1 \in Nat /\ a \in Agents /\ GoodBoard(board)
      BY ConstantsAssumption, GoodBoards DEF LoopInv, TypeOK, Locals
    <3>3. /\ board.turns[<<board.round, a>>] = 0 /\ board.selected = disk.selected
          /\ board.applied = disk.applied
      BY <2>3 DEF CompleteTurn, LoopInv, TurnsOnce, SyncInv
    <3>4. /\ GoodBoard(f) /\ f.selected = board.selected /\ f.applied = board.applied
          /\ f.turns = board.turns /\ f.round = board.round
      BY <3>2, AddArtifactsGood
    <3> HIDE DEF f
    <3>5. AddTurn(f, a).selected = f.selected /\ AddTurn(f, a).applied = f.applied
      BY <3>2, <3>3, <3>4, AddTurnGood
    <3>6. disk' = AddTurn(f, a)
      BY <3>1 DEF f
    <3>7. QED
      BY <3>3, <3>4, <3>5, <3>6
  <2>4. CASE SaveRound
    <3>1. /\ disk' = [board EXCEPT !.round = @ + 1] /\ pc = "save"
      BY <2>4 DEF SaveRound
    <3>2. /\ GoodBoard(board) /\ board.round < MaxRounds /\ board.round = disk.round
          /\ board.pending = {} /\ disk.applied \subseteq board.applied
      BY <3>1, GoodBoards DEF LoopInv, PhaseInv, SyncInv
    <3>3. /\ disk'.round = board.round + 1 /\ disk'.pending = board.pending
          /\ disk'.applied = board.applied
      BY <3>1, <3>2 DEF GoodBoard, Board
    <3>4. QED
      BY <3>2, <3>3
  <2>5. QED
    BY <2>1, <2>2, <2>3, <2>4, DiskChange
<1>2. QED
  BY <1>1, LoopCorrect, PTL DEF Spec, AtomicCheckpoint

-----------------------------------------------------------------------------
\* The history variables of TaskLoopEffects.  What they and the loop guard see
\* of a step of _drive is one of the following.

SameRound == board'.round = board.round /\ board'.turns = board.turns

Composes ==
    /\ pc = "idle" /\ pc' = "top"
    /\ SameRound /\ board'.reason = board.reason
    /\ disk' = board'

Decides ==
    /\ pc = "top" /\ pc' \in {"calls", "judge"}
    /\ SameRound /\ board'.reason = board.reason /\ disk' = disk
    /\ board'.arts >= board.arts
    /\ loc'.beforeArts = board.arts
    /\ ExecutedNow # {} => board'.arts > board.arts

Works ==
    /\ pc \in InRound \ {"save"} /\ pc' \in InRound
    /\ board'.round = board.round
    /\ board'.reason \in {board.reason, "denied"}
    /\ disk' = disk \/ disk' = board'
    /\ loc'.beforeArts = loc.beforeArts
    /\ board'.arts >= board.arts
    /\ \/ board'.turns = board.turns
       \/ /\ board'.arts > board.arts
          /\ \A r \in 0..MaxRounds, a \in Agents :
                r # board.round => board'.turns[<<r, a>>] = board.turns[<<r, a>>]

Saves ==
    /\ pc = "save" /\ pc' = "guard"
    /\ board'.round = board.round + 1 /\ board'.turns = board.turns
    /\ board'.arts = board.arts /\ board'.reason = board.reason
    /\ disk' = board'
    /\ loc' = loc

Loops ==
    /\ pc \in {"top", "guard"} /\ pc' = "top"
    /\ board' = board /\ disk' = disk

Finishes ==
    /\ pc \in Active /\ pc' = "done"
    /\ SameRound /\ board'.status \in Terminal /\ disk' = board'
    /\ board'.reason = "no_progress" => pc = "guard" /\ ~(board.arts > loc.beforeArts)

Falls ==
    /\ pc \in Active \cup {"done"} /\ pc' = "down"
    /\ board' = disk /\ disk' = disk

Returns ==
    /\ disk' = disk
    /\ \/ Resumable /\ pc' = "top" /\ board' = disk
       \/ /\ pc \in {"down", "done"} /\ disk.status \in Terminal
          /\ pc' = "done" /\ board' = board

LEMMA TerminateFinishes ==
    ASSUME pc \in Active, NEW b \in Board, NEW status \in Terminal, NEW reason,
           b.round = board.round, b.turns = board.turns, Terminate(b, status, reason),
           reason = "no_progress" => pc = "guard" /\ ~(board.arts > loc.beforeArts)
    PROVE  Finishes
<1>1. board' = [b EXCEPT !.status = status, !.reason = reason] /\ pc' = "done" /\ disk' = board'
  BY DEF Terminate
<1>2. /\ board'.status = status /\ board'.reason = reason
      /\ board'.round = b.round /\ board'.turns = b.turns
  BY <1>1 DEF Board
<1>3. QED
  BY <1>1, <1>2 DEF Finishes, SameRound

LEMMA DecideEffects ==
    ASSUME LoopInv, NEW d \in Decision, Decide(d)
    PROVE  Decides \/ Finishes \/ Falls
<1> DEFINE e == Enqueue(board, d.cmds)
<1>1. /\ pc = "top" /\ pc \in Active /\ board \in Board /\ loc \in Locals
      /\ board.arts \in Nat /\ d.cmds \subseteq Command /\ d.tools \subseteq Requests
      /\ e \in Board /\ e.round = board.round /\ e.turns = board.turns
      /\ e.arts = board.arts /\ e.reason = board.reason
  <2>1. d.cmds \subseteq Command /\ d.tools \subseteq Requests
    BY ConstantsAssumption DEF Decision, RequestLists
  <2>2. pc = "top" /\ pc \in Active /\ board \in Board /\ loc \in Locals
    BY DecideFacts
  <2>3. board.arts \in Nat
    BY <2>2 DEF Board
  <2>4. QED
    BY <2>1, <2>2, <2>3, EnqueueType
<1>2. /\ AfterDecide(d).beforeArts = board.arts
      /\ AfterDecide(d).kind = d.kind
      /\ AfterDecide(d).sig.tools = d.tools
      /\ AfterDecide(d) \in Locals
  <2>1. AfterDecide(d) \in Locals
    BY <1>1, AfterDecideType
  <2>2. QED
    BY <1>1, <2>1 DEF AfterDecide, Locals, SignatureOf
<1> HIDE DEF e
<1>3. CASE BeginRound(d)
  <2> DEFINE admits == {AdmitCommand(a) : a \in ToAdmit(d, Roster(board))}
             queued == Enqueue(e, admits)
             calls == ExpandedCalls(d, Roster(board))
  <2>1. \/ disk' = disk /\ (GoDown("contract") \/ GoDown("permission"))
        \/ /\ board' = queued /\ pc' = "calls" /\ disk' = disk
           /\ loc' = [AfterDecide(d) EXCEPT !.calls = calls]
    BY <1>3 DEF BeginRound, e
  <2>2. /\ queued.round = e.round /\ queued.turns = e.turns
        /\ queued.arts = e.arts /\ queued.reason = e.reason
    BY <1>1, AdmitType, EnqueueType
  <2> HIDE DEF queued, calls
  <2>3. CASE disk' = disk /\ (GoDown("contract") \/ GoDown("permission"))
    BY <1>1, <2>3 DEF GoDown, Falls
  <2>4. CASE /\ board' = queued /\ pc' = "calls" /\ disk' = disk
             /\ loc' = [AfterDecide(d) EXCEPT !.calls = calls]
    <3>1. loc'.beforeArts = board.arts
      BY <1>2, <2>4 DEF Locals
    <3>2. QED
      BY <1>1, <2>2, <2>4, <3>1 DEF Decides, SameRound, ExecutedNow
  <2>5. QED
    BY <2>1, <2>3, <2>4
<1>4. CASE RunTool(d)
  <2> DEFINE n == Cardinality(d.tools)
             f == AddArtifacts(e, n)
             b == SetStatus(f, "waiting_tool")
  <2>1. /\ board' = b /\ disk' = disk /\ loc' = AfterDecide(d) /\ pc' = "judge"
    BY <1>4 DEF RunTool, e
  <2>2. n \in Nat /\ (d.tools # {} => n > 0)
    <3>1. IsFiniteSet(d.tools)
      BY <1>1, RequestsFinite, FS_Subset
    <3>2. QED
      BY <3>1, FS_CardinalityType, FS_EmptySet
  <2> HIDE DEF n
  <2>3. /\ f \in Board /\ f.round = e.round /\ f.turns = e.turns
        /\ f.arts = e.arts + n /\ f.reason = e.reason
    BY <1>1, <2>2 DEF AddArtifacts, Board
  <2> HIDE DEF f
  <2>4. b.round = f.round /\ b.turns = f.turns /\ b.arts = f.arts /\ b.reason = f.reason
    BY <2>3 DEF SetStatus, Board
  <2> HIDE DEF b
  <2>5. loc'.beforeArts = board.arts /\ loc'.sig.tools = d.tools
    BY <1>2, <2>1
  <2>6. ExecutedNow # {} => n > 0
    BY <2>2, <2>5 DEF ExecutedNow
  <2>7. /\ board'.round = board.round /\ board'.turns = board.turns
        /\ board'.arts = board.arts + n /\ board'.reason = board.reason
    BY <1>1, <2>1, <2>3, <2>4
  <2>8. QED
    BY <1>1, <2>1, <2>2, <2>5, <2>6, <2>7 DEF Decides, SameRound
<1>5. CASE ClaimFinished(d)
  <2>1. /\ board' = e /\ disk' = disk /\ loc' = AfterDecide(d) /\ pc' = "judge"
        /\ d.kind = "finished"
    BY <1>5 DEF ClaimFinished, e
  <2>2. ExecutedNow = {} /\ loc'.beforeArts = board.arts
    BY <1>2, <2>1 DEF ExecutedNow
  <2>3. QED
    BY <1>1, <2>1, <2>2 DEF Decides, SameRound
<1>6. CASE GiveUp(d)
  <2>1. Terminate(e, d.kind, "o_decision") /\ d.kind \in Terminal
    BY <1>6 DEF GiveUp, e, Terminal
  <2>2. QED
    BY <1>1, <2>1, TerminateFinishes
<1>7. QED
  BY <1>3, <1>4, <1>5, <1>6 DEF Decide

LEMMA TurnEffects ==
    ASSUME LoopInv, NEW n \in 0..MaxWorkerArts, CompleteTurn(n)
    PROVE  Works
<1>1. PICK a \in loc.worker : board' = AddTurn(AddArtifacts(board, n + 1), a)
  BY DEF CompleteTurn
<1> DEFINE f == AddArtifacts(board, n + 1)
           P == (0..MaxRounds) \X Agents
           q == <<f.round, a>>
           ts == [f.turns EXCEPT ![q] = @ + 1]
<1>2. /\ pc = "working" /\ pc' = "calls" /\ disk' = board'
      /\ loc' = [loc EXCEPT !.worker = {}]
  BY DEF CompleteTurn
<1>3. /\ n \in Nat /\ n + 1 \in Nat /\ a \in Agents /\ board \in Board /\ loc \in Locals
      /\ board.arts \in Nat
  BY ConstantsAssumption DEF LoopInv, TypeOK, Locals, Board
<1>4. /\ f \in Board /\ f.arts = board.arts + (n + 1) /\ f.round = board.round
      /\ f.turns = board.turns /\ f.reason = board.reason
  BY <1>3 DEF AddArtifacts, Board
<1>5. board' = [f EXCEPT !.turns = ts]
  BY <1>1 DEF AddTurn
<1> HIDE DEF f
<1>6. f.turns \in [P -> Nat]
  BY <1>4 DEF Board
<1>7. \A r \in 0..MaxRounds, c \in Agents :
         r # board.round => ts[<<r, c>>] = board.turns[<<r, c>>]
  BY <1>4, <1>6
<1> HIDE DEF ts
<1>8. /\ board'.turns = ts /\ board'.arts = f.arts /\ board'.reason = f.reason
      /\ board'.round = f.round
  BY <1>4, <1>5 DEF Board
<1>9. loc'.beforeArts = loc.beforeArts
  BY <1>2, <1>3 DEF Locals
<1>10. QED
  BY <1>2, <1>3, <1>4, <1>7, <1>8, <1>9 DEF Works, InRound

LEMMA JudgeEffects ==
    ASSUME LoopInv, NEW claims \in [Criteria -> Claim], Judge(claims)
    PROVE  Works \/ Finishes
<1> DEFINE j == Judged(board, claims)
           den == [j EXCEPT !.reason = "denied"]
<1>1. pc = "judge" /\ pc \in Active /\ board \in Board /\ board.arts \in Nat
  BY DEF Judge, LoopInv, TypeOK, Active, PCs, Board
<1>2. /\ j \in Board /\ j.round = board.round /\ j.turns = board.turns /\ j.arts = board.arts
  BY <1>1, JudgedType
<1>3. j.reason = board.reason
  BY <1>1 DEF Judged, Board
<1>4. \/ Terminate(j, "finished", "accepted")
      \/ /\ board' = den \/ board' = j
         /\ pc' = "commit" /\ disk' = disk /\ loc' = loc
  BY DEF Judge
<1> HIDE DEF j
<1>5. CASE Terminate(j, "finished", "accepted")
  BY <1>1, <1>2, <1>5, TerminateFinishes DEF Terminal
<1>6. CASE /\ board' = den \/ board' = j
           /\ pc' = "commit" /\ disk' = disk /\ loc' = loc
  <2>1. /\ den.round = j.round /\ den.turns = j.turns /\ den.arts = j.arts
        /\ den.reason = "denied"
    BY <1>2 DEF Board
  <2> HIDE DEF den
  <2>2. /\ board'.round = board.round /\ board'.turns = board.turns
        /\ board'.arts = board.arts /\ board'.reason \in {board.reason, "denied"}
    BY <1>2, <1>3, <1>6, <2>1
  <2>3. QED
    BY <1>1, <1>6, <2>2 DEF Works, InRound
<1>7. QED
  BY <1>4, <1>5, <1>6

LEMMA GuardEffects ==
    ASSUME LoopInv, LoopGuard
    PROVE  Loops \/ Finishes \/ Falls
<1>1. pc = "guard" /\ pc \in Active /\ board \in Board /\ "blocked" \in Terminal
  BY DEF LoopGuard, LoopInv, TypeOK, Active, PCs, Terminal
<1>2. \/ disk' = disk /\ GoDown("contract")
      \/ ~Progressed /\ Terminate(board, "blocked", "no_progress")
      \/ Terminate(board, "blocked", "repeated")
      \/ pc' = "top" /\ board' = board /\ disk' = disk
  BY DEF LoopGuard
<1>3. CASE disk' = disk /\ GoDown("contract")
  BY <1>1, <1>3 DEF GoDown, Falls
<1>4. CASE ~Progressed /\ Terminate(board, "blocked", "no_progress")
  <2>1. ~(board.arts > loc.beforeArts)
    BY <1>4 DEF Progressed
  <2>2. QED
    BY <1>1, <1>4, <2>1, TerminateFinishes
<1>5. CASE Terminate(board, "blocked", "repeated")
  BY <1>1, <1>5, TerminateFinishes
<1>6. CASE pc' = "top" /\ board' = board /\ disk' = disk
  BY <1>1, <1>6 DEF Loops
<1>7. QED
  BY <1>2, <1>3, <1>4, <1>5, <1>6

\* Every step is one of them.
LEMMA EffectSteps ==
    ASSUME LoopInv, Next
    PROVE  Composes \/ Decides \/ Works \/ Saves \/ Loops \/ Finishes \/ Falls \/ Returns
<1>1. board \in Board /\ disk \in Board /\ loc \in Locals /\ board.arts \in Nat
  BY DEF LoopInv, TypeOK, Board
<1>2. Terminal = {"finished", "blocked", "failed"}
  BY DEF Terminal
<1>3. CASE \E team \in SUBSET Agents : ComposeTeam(team)
  <2>1. PICK sel : board' = [board EXCEPT !.selected = sel, !.arts = @ + 1,
                                          !.status = "team_selected"]
    BY <1>3 DEF ComposeTeam
  <2>2. /\ board'.round = board.round /\ board'.turns = board.turns
        /\ board'.reason = board.reason
    BY <1>1, <2>1 DEF Board
  <2>3. QED
    BY <1>3, <2>2 DEF ComposeTeam, Composes, SameRound
<1>4. CASE RoundsExhausted
  <2>1. pc \in Active /\ pc = "top"
    BY <1>4 DEF RoundsExhausted, Active, PCs
  <2>2. QED
    BY <1>1, <1>2, <1>4, <2>1, TerminateFinishes DEF RoundsExhausted
<1>5. CASE DecideParseError
  <2>1. pc \in Active /\ pc = "top"
    BY <1>5 DEF DecideParseError, Active, PCs
  <2>2. \/ Terminate(board, "failed", "parse_budget")
        \/ pc' = pc /\ board' = board /\ disk' = disk
    BY <1>5 DEF DecideParseError
  <2>3. QED
    BY <1>1, <1>2, <2>1, <2>2, TerminateFinishes DEF Loops
<1>6. CASE \E d \in Decision : Decide(d)
  BY <1>6, DecideEffects
<1>7. CASE \E p \in loc.calls : SkipDone(p) \/ StartTurn(p) \/ BrokerRedirects(p)
  <2>1. PICK p \in loc.calls : SkipDone(p) \/ StartTurn(p) \/ BrokerRedirects(p)
    BY <1>7
  <2>2. pc = "calls" /\ pc \in Active
    BY <2>1 DEF SkipDone, StartTurn, BrokerRedirects, Active, PCs
  <2>3. CASE SkipDone(p)
    <3>1. loc'.beforeArts = loc.beforeArts
      BY <1>1, <2>3 DEF SkipDone, Locals
    <3>2. QED
      BY <1>1, <2>2, <2>3, <3>1 DEF SkipDone, Works, InRound
  <2>4. CASE StartTurn(p)
    <3>1. loc'.beforeArts = loc.beforeArts
      BY <1>1, <2>4 DEF StartTurn, Locals
    <3>2. board' = [board EXCEPT !.arts = board.arts + 1]
      BY <2>4 DEF StartTurn, AddArtifacts
    <3>3. /\ board'.arts = board.arts + 1 /\ board'.round = board.round
          /\ board'.turns = board.turns /\ board'.reason = board.reason
      BY <1>1, <3>2 DEF Board
    <3>4. QED
      BY <1>1, <2>2, <2>4, <3>1, <3>3 DEF StartTurn, Works, InRound
  <2>5. CASE BrokerRedirects(p)
    BY <2>2, <2>5 DEF BrokerRedirects, GoDown, Falls
  <2>6. QED
    BY <2>1, <2>3, <2>4, <2>5
<1>8. CASE \E n \in 0..MaxWorkerArts : CompleteTurn(n)
  BY <1>8, TurnEffects
<1>9. CASE RoundDone
  <2>1. /\ board'.arts = board.arts /\ board'.round = board.round
        /\ board'.turns = board.turns /\ board'.reason = board.reason
    BY <1>1, <1>9 DEF RoundDone, SetStatus, Board
  <2>2. QED
    BY <1>1, <1>9, <2>1 DEF RoundDone, Works, InRound
<1>10. CASE \E claims \in [Criteria -> Claim] : Judge(claims)
  BY <1>10, JudgeEffects
<1>11. CASE ApplyCommands
  <2>1. pc = "commit" /\ pc \in Active
    BY <1>11 DEF ApplyCommands, Active, PCs
  <2>2. CASE disk' = disk /\ GoDown("contract")
    BY <2>1, <2>2 DEF GoDown, Falls
  <2>3. CASE board' = ApplyPending(board) /\ pc' = "save" /\ disk' = disk
    <3>1. ApplyPending(board).reason = board.reason
      BY <1>1 DEF ApplyPending, Board
    <3>2. /\ board'.arts = board.arts /\ board'.round = board.round
          /\ board'.turns = board.turns /\ board'.reason = board.reason
      BY <1>1, <2>3, <3>1, ApplyType
    <3>3. loc'.beforeArts = loc.beforeArts
      BY <1>1, <1>11, <2>3 DEF ApplyCommands, GoDown, Locals
    <3>4. QED
      BY <1>1, <2>1, <2>3, <3>2, <3>3 DEF Works, InRound
  <2>4. QED
    BY <1>11, <2>2, <2>3 DEF ApplyCommands
<1>12. CASE SaveRound
  <2>1. board' = [board EXCEPT !.round = board.round + 1]
    BY <1>12 DEF SaveRound
  <2>2. /\ board'.arts = board.arts /\ board'.round = board.round + 1
        /\ board'.turns = board.turns /\ board'.reason = board.reason
    BY <1>1, <2>1 DEF Board
  <2>3. QED
    BY <1>12, <2>2 DEF SaveRound, Saves
<1>13. CASE LoopGuard
  BY <1>13, GuardEffects
<1>14. CASE Crash
  BY <1>14 DEF Crash, GoDown, Falls
<1>15. CASE Resume
  BY <1>15 DEF Resume, Returns, Resumable
<1>16. CASE ResumeTerminal
  BY <1>16 DEF ResumeTerminal, Returns
<1>17. QED
  BY <1>3, <1>4, <1>5, <1>6, <1>7, <1>8, <1>9, <1>10, <1>11, <1>12, <1>13, <1>14, <1>15, <1>16
     DEF Next, Drive

\* What Record adds, cell by cell.
LEMMA RecordCells ==
    ASSUME EffectsTypeOK, Record, board.round \in 0..MaxRounds
    PROVE  /\ EffectsTypeOK'
           /\ \A r \in 0..MaxRounds, t \in Requests :
                executed'[<<r, t>>] = executed[<<r, t>>]
                    + IF r = board.round /\ t \in ExecutedNow THEN 1 ELSE 0
           /\ \A r \in 0..MaxRounds :
                lost'[r] = lost[r] + IF ComesDown /\ r = board.round THEN 1 ELSE 0
<1>1. executed' = [p \in (0..MaxRounds) \X Requests |->
                     executed[p] + IF p[1] = board.round /\ p[2] \in ExecutedNow THEN 1 ELSE 0]
  BY DEF Record, EffectsTypeOK
<1>2. lost' = [r \in 0..MaxRounds |->
                     lost[r] + IF ComesDown /\ r = board.round THEN 1 ELSE 0]
  BY DEF Record, EffectsTypeOK
<1>3. QED
  BY <1>1, <1>2 DEF EffectsTypeOK

LEMMA EffectsStep ==
    ASSUME LoopInv, LoopInv', EffectsInv, Next, Record
    PROVE  EffectsInv'
<1>1. /\ pc \in PCs /\ pc' \in PCs
      /\ board.round \in 0..MaxRounds /\ board'.round \in 0..MaxRounds
      /\ disk.round = board.round /\ disk'.round = board'.round
      /\ board.turns = disk.turns
      /\ board.arts \in Nat /\ board'.arts \in Nat
      /\ loc.beforeArts \in Nat /\ loc'.beforeArts \in Nat
      /\ MaxRounds \in Nat
  BY ConstantsAssumption DEF LoopInv, TypeOK, SyncInv, Board, Locals
<1>2. \A r \in 0..MaxRounds, a \in Agents :
         board.turns[<<r, a>>] \in Nat /\ board'.turns[<<r, a>>] \in Nat
  BY DEF LoopInv, TypeOK, Board
<1>3. \A r \in 0..MaxRounds : lost[r] \in Nat /\ \A t \in Requests : executed[<<r, t>>] \in Nat
  BY DEF EffectsInv, EffectsTypeOK
<1>4. /\ EffectsTypeOK'
      /\ \A r \in 0..MaxRounds, t \in Requests :
           executed'[<<r, t>>] = executed[<<r, t>>]
               + IF r = board.round /\ t \in ExecutedNow THEN 1 ELSE 0
      /\ \A r \in 0..MaxRounds :
           lost'[r] = lost[r] + IF ComesDown /\ r = board.round THEN 1 ELSE 0
  BY <1>1, RecordCells DEF EffectsInv
<1>5. /\ pc \in Active => board.status \notin Terminal /\ disk.status \notin Terminal
      /\ pc = "idle" => board.status \notin Terminal
      /\ pc' \in Active => board'.status \notin Terminal /\ disk'.status \notin Terminal
      /\ pc = "done" => disk.status \in Terminal
      /\ pc' = "done" => disk'.status \in Terminal
  BY NewBoardCreated DEF LoopInv, PhaseInv, Running, Terminal
<1>6. \A r \in 0..MaxRounds : r > disk.round => \A t \in Requests : executed[<<r, t>>] = 0
  BY DEF EffectsInv, ToolsOncePerInvocation
<1>7. ASSUME ExecutedNow = {}, ~ComesDown
      PROVE  \A r \in 0..MaxRounds :
                lost'[r] = lost[r] /\ \A t \in Requests : executed'[<<r, t>>] = executed[<<r, t>>]
  BY <1>3, <1>4, <1>7
<1>8. CASE Composes
  <2>1. ExecutedNow = {} /\ ~ComesDown
    BY <1>8 DEF Composes, ExecutedNow, ComesDown
  <2>2. \A r \in 0..MaxRounds :
           lost'[r] = lost[r] /\ \A t \in Requests : executed'[<<r, t>>] = executed[<<r, t>>]
    BY <1>7, <2>1
  <2>3. RoundsInv'
    BY <1>1, <1>3, <1>8, <2>2
       DEF Composes, SameRound, EffectsInv, RoundsInv, Untouched, Resumable
  <2>4. BaselineInv'
    BY <1>5, <1>8 DEF Composes, EffectsInv, BaselineInv, InRound
  <2>5. ToolsOncePerInvocation'
    BY <1>1, <1>8, <2>2 DEF Composes, SameRound, EffectsInv, ToolsOncePerInvocation
  <2>6. NoProgressSound'
    BY <1>5, <1>8 DEF Composes, EffectsInv, BaselineInv, NoProgressSound
  <2>7. QED
    BY <1>4, <2>3, <2>4, <2>5, <2>6 DEF EffectsInv
<1>9. CASE Works
  <2>1. ExecutedNow = {} /\ ~ComesDown
    BY <1>9 DEF Works, ExecutedNow, ComesDown, InRound
  <2>2. \A r \in 0..MaxRounds :
           lost'[r] = lost[r] /\ \A t \in Requests : executed'[<<r, t>>] = executed[<<r, t>>]
    BY <1>7, <2>1
  <2>3. RoundsInv'
    BY <1>9, <2>2 DEF Works, EffectsInv, RoundsInv, Untouched, Resumable, InRound
  <2>4. BaselineInv'
    BY <1>1, <1>5, <1>9, <2>2
       DEF Works, EffectsInv, BaselineInv, Untouched, GrewIn, InRound, Active
  <2>5. ToolsOncePerInvocation'
    BY <1>1, <1>9, <2>2 DEF Works, EffectsInv, ToolsOncePerInvocation
  <2>6. NoProgressSound'
    BY <1>1, <1>9, <2>2 DEF Works, EffectsInv, BaselineInv, NoProgressSound
  <2>7. QED
    BY <1>4, <2>3, <2>4, <2>5, <2>6 DEF EffectsInv
<1>10. CASE Saves
  <2>1. ExecutedNow = {} /\ ~ComesDown
    BY <1>10 DEF Saves, ExecutedNow, ComesDown
  <2>2. \A r \in 0..MaxRounds :
           lost'[r] = lost[r] /\ \A t \in Requests : executed'[<<r, t>>] = executed[<<r, t>>]
    BY <1>7, <2>1
  <2>3. RoundsInv'
    BY <1>1, <1>10, <2>2 DEF Saves, EffectsInv, RoundsInv, Untouched, Resumable
  <2>4. BaselineInv'
    BY <1>1, <1>5, <1>10, <2>2
       DEF Saves, EffectsInv, BaselineInv, Untouched, GrewIn, InRound, Active
  <2>5. ToolsOncePerInvocation'
    BY <1>1, <1>10, <2>2 DEF Saves, EffectsInv, ToolsOncePerInvocation
  <2>6. NoProgressSound'
    BY <1>1, <1>5, <1>10 DEF Saves, EffectsInv, BaselineInv, NoProgressSound, Active
  <2>7. QED
    BY <1>4, <2>3, <2>4, <2>5, <2>6 DEF EffectsInv
<1>11. CASE Loops
  <2>1. ExecutedNow = {} /\ ~ComesDown
    BY <1>11 DEF Loops, ExecutedNow, ComesDown
  <2>2. \A r \in 0..MaxRounds :
           lost'[r] = lost[r] /\ \A t \in Requests : executed'[<<r, t>>] = executed[<<r, t>>]
    BY <1>7, <2>1
  <2>3. RoundsInv'
    BY <1>1, <1>3, <1>11, <2>2 DEF Loops, EffectsInv, RoundsInv, Untouched, Resumable
  <2>4. BaselineInv'
    BY <1>11 DEF Loops, EffectsInv, BaselineInv, InRound
  <2>5. ToolsOncePerInvocation'
    BY <1>11, <2>2 DEF Loops, EffectsInv, ToolsOncePerInvocation
  <2>6. NoProgressSound'
    BY <1>1, <1>11, <2>2 DEF Loops, EffectsInv, BaselineInv, NoProgressSound
  <2>7. QED
    BY <1>4, <2>3, <2>4, <2>5, <2>6 DEF EffectsInv
<1>12. CASE Finishes
  <2>1. ExecutedNow = {} /\ ~ComesDown
    BY <1>12 DEF Finishes, ExecutedNow, ComesDown
  <2>2. \A r \in 0..MaxRounds :
           lost'[r] = lost[r] /\ \A t \in Requests : executed'[<<r, t>>] = executed[<<r, t>>]
    BY <1>7, <2>1
  <2>3. RoundsInv'
    BY <1>12, <2>2 DEF Finishes, SameRound, EffectsInv, RoundsInv, Untouched, Resumable
  <2>4. BaselineInv'
    BY <1>12 DEF Finishes, SameRound, EffectsInv, BaselineInv, InRound
  <2>5. ToolsOncePerInvocation'
    BY <1>1, <1>12, <2>2 DEF Finishes, SameRound, EffectsInv, ToolsOncePerInvocation
  <2>6. NoProgressSound'
    BY <1>1, <1>3, <1>12, <2>2
       DEF Finishes, SameRound, EffectsInv, BaselineInv, NoProgressSound, Untouched, GrewIn
  <2>7. QED
    BY <1>4, <2>3, <2>4, <2>5, <2>6 DEF EffectsInv
<1>13. CASE Returns
  <2>1. ExecutedNow = {} /\ ~ComesDown
    BY <1>13 DEF Returns, ExecutedNow, ComesDown
  <2>2. \A r \in 0..MaxRounds :
           lost'[r] = lost[r] /\ \A t \in Requests : executed'[<<r, t>>] = executed[<<r, t>>]
    BY <1>7, <2>1
  <2>3. RoundsInv'
    BY <1>1, <1>13, <2>2 DEF Returns, EffectsInv, RoundsInv, Untouched, Resumable
  <2>4. BaselineInv'
    BY <1>13 DEF Returns, EffectsInv, BaselineInv, InRound
  <2>5. ToolsOncePerInvocation'
    BY <1>13, <2>2 DEF Returns, EffectsInv, ToolsOncePerInvocation
  <2>6. NoProgressSound'
    BY <1>1, <1>5, <1>13, <2>2 DEF Returns, EffectsInv, BaselineInv, NoProgressSound, Active
  <2>7. QED
    BY <1>4, <2>3, <2>4, <2>5, <2>6 DEF EffectsInv
<1>14. CASE Decides
  <2>1. \A r \in 0..MaxRounds : lost'[r] = lost[r]
    BY <1>3, <1>4, <1>14 DEF Decides, ComesDown
  <2>2. RoundsInv'
    BY <1>14, <1>4 DEF Decides, SameRound, EffectsInv, RoundsInv, Untouched, Resumable
  <2>3. BaselineInv'
    BY <1>1, <1>5, <1>14, <1>4, <2>1
       DEF Decides, SameRound, EffectsInv, RoundsInv, BaselineInv, Untouched, GrewIn, Active
  <2>4. ToolsOncePerInvocation'
    BY <1>1, <1>3, <1>14, <1>4 DEF Decides, EffectsInv, RoundsInv, ToolsOncePerInvocation
  <2>5. NoProgressSound'
    BY <1>1, <1>5, <1>14 DEF Decides, EffectsInv, BaselineInv, NoProgressSound, Active
  <2>6. QED
    BY <1>4, <2>2, <2>3, <2>4, <2>5 DEF EffectsInv
<1>15. CASE Falls
  <2>1. \A r \in 0..MaxRounds :
           /\ lost'[r] \in Nat
           /\ \A t \in Requests : executed'[<<r, t>>] = executed[<<r, t>>]
    <3>1. ExecutedNow = {}
      BY <1>15 DEF Falls, ExecutedNow
    <3>2. QED
      BY <1>1, <1>3, <1>4, <3>1
  <2>2. RoundsInv'
    BY <1>1, <1>3, <1>5, <1>15, <1>4, <2>1
       DEF Falls, ComesDown, EffectsInv, RoundsInv, ToolsOncePerInvocation, Untouched,
           Resumable
  <2>3. BaselineInv'
    BY <1>15 DEF Falls, EffectsInv, BaselineInv, InRound
  <2>4. ToolsOncePerInvocation'
    BY <1>3, <1>15, <1>4, <2>1 DEF Falls, EffectsInv, ToolsOncePerInvocation
  <2>5. NoProgressSound'
    BY <1>1, <1>3, <1>5, <1>15, <1>4 DEF Falls, EffectsInv, BaselineInv, NoProgressSound
  <2>6. QED
    BY <1>4, <2>2, <2>3, <2>4, <2>5 DEF EffectsInv
<1>16. QED
  BY <1>8, <1>9, <1>10, <1>11, <1>12, <1>13, <1>14, <1>15, EffectSteps

LEMMA EffectsInitInv == ASSUME EffectsInit PROVE EffectsInv
<1>1. /\ pc = "idle" /\ board = NewBoard /\ disk = NewBoard
      /\ executed = [p \in (0..MaxRounds) \X Requests |-> 0]
      /\ lost = [r \in 0..MaxRounds |-> 0]
  BY DEF EffectsInit, Init
<1>2. /\ NewBoard.round = 0 /\ NewBoard.reason = ""
      /\ NewBoard.turns = [p \in (0..MaxRounds) \X Agents |-> 0]
  BY DEF NewBoard
<1>3. \A r \in 0..MaxRounds : Untouched(r)
  BY <1>1, <1>2 DEF Untouched
<1>4. EffectsTypeOK
  BY <1>1 DEF EffectsTypeOK
<1>5. ToolsOncePerInvocation
  BY <1>1 DEF ToolsOncePerInvocation
<1>6. RoundsInv /\ BaselineInv /\ NoProgressSound
  BY <1>1, <1>2, <1>3 DEF RoundsInv, BaselineInv, NoProgressSound, Resumable, InRound
<1>7. QED
  BY <1>4, <1>5, <1>6 DEF EffectsInv

LEMMA EffectsNextInv ==
    LoopInv /\ LoopInv' /\ EffectsInv /\ [EffectsNext]_effectVars => EffectsInv'
<1> SUFFICES ASSUME LoopInv, LoopInv', EffectsInv, [EffectsNext]_effectVars PROVE EffectsInv'
  OBVIOUS
<1>1. CASE EffectsNext
  BY <1>1, EffectsStep DEF EffectsNext
<1>2. CASE UNCHANGED effectVars
  BY <1>2 DEF effectVars, vars, EffectsInv, EffectsTypeOK, RoundsInv, BaselineInv,
              ToolsOncePerInvocation, NoProgressSound, Untouched, GrewIn, Resumable
<1>3. QED
  BY <1>1, <1>2

\* The history variables constrain no step of the loop.
LEMMA EffectsLoop == EffectsSpec => Spec
<1>1. EffectsInit => Init
  BY DEF EffectsInit
<1>2. [EffectsNext]_effectVars => [Next]_vars
  BY DEF EffectsNext, effectVars
<1>3. QED
  BY <1>1, <1>2, PTL DEF EffectsSpec, Spec

\* Rounds not reached are untouched, the executions of a round are accounted for by
\* the invocations lost in it, and the baseline of the loop guard misses nothing
\* (_drive, run_tool, resume_task_loop).
THEOREM EffectsCorrect == EffectsSpec => []EffectsInv
<1>1. EffectsInit => EffectsInv
  BY EffectsInitInv
<1>2. LoopInv /\ LoopInv' /\ EffectsInv /\ [EffectsNext]_effectVars => EffectsInv'
  BY EffectsNextInv
<1>3. EffectsSpec => []LoopInv
  BY EffectsLoop, LoopCorrect, PTL
<1>4. QED
  BY <1>1, <1>2, <1>3, PTL DEF EffectsSpec

\* run_tool executes a tool once in a round and once more for every invocation lost in
\* it, and never in a round that is saved, for every number of crashes and resumes.
THEOREM ToolsTheorem == EffectsSpec => []ToolsOncePerInvocation
<1>1. EffectsInv => ToolsOncePerInvocation
  BY DEF EffectsInv
<1>2. QED
  BY <1>1, EffectsCorrect, PTL

\* _drive blocks a task for want of progress only after a round without a turn and
\* without a tool, or one in which an invocation was lost.
THEOREM NoProgressTheorem == EffectsSpec => []NoProgressSound
<1>1. EffectsInv => NoProgressSound
  BY DEF EffectsInv
<1>2. QED
  BY <1>1, EffectsCorrect, PTL

=============================================================================
