-------------------------- MODULE TaskLoopEffects --------------------------
(***************************************************************************)
(* TaskLoop with a record of what a checkpoint cannot undo: the tools      *)
(* run_tool has executed in every round, and the invocations of _drive     *)
(* that came down, by a crash or an exception, in the middle of a round.   *)
(* Both are history variables; the steps are those of TaskLoop.            *)
(***************************************************************************)
EXTENDS TaskLoop

CONSTANT MaxLost  \* bound: invocations that come down in one round

ASSUME EffectsAssumption == MaxLost \in Nat

VARIABLES
    executed,  \* executions of every request in every round
    lost       \* invocations that came down in every round

effectVars == <<vars, executed, lost>>

EffectsInit ==
    /\ Init
    /\ executed = [p \in (0 .. MaxRounds) \X Requests |-> 0]
    /\ lost = [r \in 0 .. MaxRounds |-> 0]

\* The requests run_tool executes in this step: every entry of the list.
ExecutedNow == IF pc = "top" /\ pc' = "judge" /\ loc'.kind = "need_tool" THEN loc'.sig.tools ELSE {}

ComesDown == pc \in Active /\ pc' = "down"

Record ==
    /\ ComesDown => lost[board.round] < MaxLost
    /\ executed' = [p \in DOMAIN executed |->
                       executed[p] + IF p[1] = board.round /\ p[2] \in ExecutedNow THEN 1 ELSE 0]
    /\ lost' = [r \in DOMAIN lost |-> lost[r] + IF ComesDown /\ r = board.round THEN 1 ELSE 0]

EffectsNext == Next /\ Record

EffectsSpec == EffectsInit /\ [][EffectsNext]_effectVars /\ WF_effectVars(Drive /\ Record)
-----------------------------------------------------------------------------
\* Every tool request of a decision is executed once in a round, and once more for every
\* invocation that came down in that round and no more: nothing is saved between run_tool
\* and the end of the round, so a resume decides and executes again, but never for a round
\* that was saved (run_tool, the end-of-round save of _drive).  A tool that the list names
\* n times is n requests, and the code runs it n times each time.
ToolsOncePerInvocation ==
    \A r \in 0 .. MaxRounds :
        /\ \A q \in Requests : executed[<<r, q>>] <= 1 + lost[r]
        /\ r > disk.round => \A q \in Requests : executed[<<r, q>>] = 0

\* A task is blocked for want of progress only when nobody took a turn and no tool ran
\* in its last round; the exception is a round in which an invocation came down, because
\* the resumed one takes its baseline from what is already saved (the loop guard of
\* _drive, resume_task_loop).
NoProgressSound ==
    board.reason = "no_progress" =>
        \/ lost[board.round - 1] > 0
        \/ /\ \A a \in Agents : board.turns[<<board.round - 1, a>>] = 0
           /\ \A q \in Requests : executed[<<board.round - 1, q>>] = 0

-----------------------------------------------------------------------------
\* The inductive invariant of the proofs.

EffectsTypeOK ==
    /\ executed \in [(0 .. MaxRounds) \X Requests -> Nat]
    /\ lost \in [0 .. MaxRounds -> Nat]

\* Nothing has happened in round r: no turn saved, no tool executed.
Untouched(r) ==
    /\ \A a \in Agents : board.turns[<<r, a>>] = 0
    /\ \A q \in Requests : executed[<<r, q>>] = 0

\* The artifacts have grown since the baseline of this iteration if round r saw a
\* turn or a tool, unless an invocation came down in it.
GrewIn(r) ==
    /\ loc.beforeArts <= board.arts
    /\ lost[r] = 0 /\ ~Untouched(r) => board.arts > loc.beforeArts

Resumable == pc = "down" /\ disk.status \notin Terminal

InRound == {"calls", "working", "judge", "commit", "save"}

\* A round not reached is untouched, and so is the one just opened; a round about to
\* be decided was executed only by the invocations lost in it.
RoundsInv ==
    /\ \A r \in 0 .. MaxRounds :
          r > board.round \/ (r = board.round /\ pc \in {"idle", "guard"}) => Untouched(r)
    /\ pc = "top" \/ Resumable =>
          \A q \in Requests : executed[<<board.round, q>>] <= lost[board.round]
    /\ Resumable => lost[board.round] > 0
    /\ pc = "top" /\ lost[board.round] = 0 => Untouched(board.round)

\* What the loop guard compares, and where its verdict is kept.
BaselineInv ==
    /\ pc \in InRound => GrewIn(board.round)
    /\ pc = "guard" => board.round > 0 /\ GrewIn(board.round - 1)
    /\ pc \in {"done", "down"} => board = disk
    /\ \A b \in {board, disk} :
          b.reason = "no_progress" => b.status \in Terminal /\ b.round > 0

EffectsInv ==
    /\ EffectsTypeOK
    /\ RoundsInv
    /\ BaselineInv
    /\ ToolsOncePerInvocation
    /\ NoProgressSound
=============================================================================
