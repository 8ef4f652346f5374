----------------------------- MODULE TaskLoops -----------------------------
(***************************************************************************)
(* The commands that run turns until something is good enough: /fix        *)
(* (src/src/fix_loop.rs), /iterate (iterate_loop.rs) and /auto             *)
(* (auto_loop.rs), the mode they borrow for it, the reset /auto makes      *)
(* between rounds (commands/context_cmds.rs), and /play                    *)
(* (playground.rs), whose sandbox excludes them.                           *)
(*                                                                         *)
(* A round is a turn of the agent and a judgement of the working tree:     *)
(* tests in /fix, a critic's score elsewhere, and in /auto a check of the  *)
(* spec's criteria once the score is high enough.                          *)
(***************************************************************************)
EXTENDS Integers, Sequences

CONSTANTS
    MaxRounds,    \* --max
    Pass,         \* the threshold; scores go from 0 to Pass
    Budget,       \* --budget: what the turns may cost
    TurnCosts,    \* what one turn may cost
    Diffs         \* working trees: their diffs are compared by fingerprint

ASSUME LoopAssumption ==
    MaxRounds \in Nat /\ Pass \in Nat /\ Budget \in Nat \ {0} /\ TurnCosts \subseteq Nat /\ TurnCosts # {}

StallLimit == 3
Kinds == {"fix", "iterate", "auto"}

VARIABLES
    lpKind,        \* the loop that runs, or the last one
    lpAt,          \* what it is at
    lpCriteria,    \* a spec with criteria was found
    lpMode,        \* the configuration in force: "own", "ship" or "sandbox"
    lpBorrowed,    \* the snapshot a loop took
    lpPlay,        \* the snapshot of a play session, or "none"
    lpRounds,      \* one record for each judgement
    lpTurn,        \* turns begun
    lpFeedback,    \* the round whose verdict the next prompt carries; 0: none
    lpDiff,        \* the working tree
    lpChecked,     \* the last check of the criteria: its tree and its answer
    lpStall,       \* rounds without progress
    lpSession,     \* session_usd; a reset zeroes it
    lpBefore,      \* session_usd before the turn
    lpSpent,       \* spent_usd
    lpLate,        \* the deadline has passed
    lpInterrupted, \* the flag Ctrl-C raises
    lpStop,        \* stop_reason
    lpReport,      \* a report of this run was written
    lpCost         \* history: what its turns cost

lpVars == <<lpKind, lpAt, lpCriteria, lpMode, lpBorrowed, lpPlay, lpRounds, lpTurn, lpFeedback,
            lpDiff, lpChecked, lpStall, lpSession, lpBefore, lpSpent, lpLate, lpInterrupted,
            lpStop, lpReport, lpCost>>
lpModes  == <<lpMode, lpBorrowed, lpPlay>>
lpMoney  == <<lpSession, lpBefore, lpSpent, lpCost>>
lpJudged == <<lpRounds, lpFeedback, lpChecked, lpStall>>
lpOuter  == <<lpLate, lpInterrupted>>

NotChecked == [diff |-> 0, met |-> FALSE]

LoopInit ==
    /\ lpKind = "fix" /\ lpAt = "idle" /\ lpCriteria = FALSE
    /\ lpMode = "own" /\ lpBorrowed = "none" /\ lpPlay = "none"
    /\ lpRounds = <<>> /\ lpTurn = 0 /\ lpFeedback = 0 /\ lpDiff = 1
    /\ lpChecked = NotChecked /\ lpStall = 0
    /\ lpSession = 0 /\ lpBefore = 0 /\ lpSpent = 0 /\ lpCost = 0
    /\ lpLate = FALSE /\ lpInterrupted = FALSE /\ lpStop = "none" /\ lpReport = FALSE

LastRound == lpRounds[Len(lpRounds)]

-----------------------------------------------------------------------------
(* Beginning: refused in a play session; /fix when the tests pass already. *)
(* A behaviour has one loop.                                               *)

StartLoop(kind, criteria) ==
    /\ lpAt = "idle" /\ lpPlay = "none" /\ lpStop = "none"
    /\ criteria => kind = "auto"
    /\ lpKind' = kind /\ lpCriteria' = criteria /\ lpAt' = "round" /\ lpStop' = "MaxRounds"
    /\ lpBorrowed' = lpMode /\ lpMode' = "ship"
    /\ UNCHANGED <<lpPlay, lpTurn, lpDiff, lpJudged, lpMoney, lpOuter, lpReport>>

\* /play: the sandbox comes with a mode too, until /play exit or /new.
Play ==
    /\ lpAt = "idle" /\ lpTurn = 0 /\ lpPlay = "none"
    /\ lpPlay' = lpMode /\ lpMode' = "sandbox"
    /\ UNCHANGED <<lpKind, lpAt, lpCriteria, lpBorrowed, lpTurn, lpDiff, lpJudged, lpMoney, lpOuter,
                   lpStop, lpReport>>

PlayExit ==
    /\ lpAt = "idle" /\ lpPlay # "none"
    /\ lpMode' = lpPlay /\ lpPlay' = "none"
    /\ UNCHANGED <<lpKind, lpAt, lpCriteria, lpBorrowed, lpTurn, lpDiff, lpJudged, lpMoney, lpOuter,
                   lpStop, lpReport>>

-----------------------------------------------------------------------------
(* A round. *)

\* pre_round_stop
Bound ==
    IF lpKind # "auto" THEN "none"
    ELSE IF lpInterrupted THEN "Interrupted"
    ELSE IF lpLate THEN "DeadlineReached"
    ELSE IF lpSpent >= Budget THEN "BudgetExhausted"
    ELSE "none"

BeginRound ==
    /\ lpAt = "round" /\ lpTurn < MaxRounds /\ Bound = "none"
    /\ lpTurn' = lpTurn + 1 /\ lpAt' = "turn" /\ lpBefore' = lpSession
    /\ UNCHANGED <<lpKind, lpCriteria, lpModes, lpDiff, lpJudged, lpSession, lpSpent, lpCost, lpOuter,
                   lpStop, lpReport>>

NoMoreRounds ==
    /\ lpAt = "round" /\ (lpTurn = MaxRounds \/ Bound # "none")
    /\ lpAt' = "final"
    /\ lpStop' = IF lpTurn < MaxRounds THEN Bound ELSE lpStop
    /\ UNCHANGED <<lpKind, lpCriteria, lpModes, lpTurn, lpDiff, lpJudged, lpMoney, lpOuter, lpReport>>

SpentAfter(cost) == lpSpent + (lpSession + cost - lpBefore)

\* run_user_turn: the tree may change.  An error stops the loop, and neither the
\* session nor the run counts what such a turn cost; being cancelled is no error.
LoopTurn(diff, cost) ==
    /\ lpAt = "turn" /\ lpAt' = "judge" /\ lpDiff' = diff
    /\ lpSession' = lpSession + cost /\ lpCost' = lpCost + cost
    /\ lpSpent' = SpentAfter(cost) /\ lpBefore' = 0
    /\ UNCHANGED <<lpKind, lpCriteria, lpModes, lpTurn, lpJudged, lpOuter, lpStop, lpReport>>

TurnFails(diff) ==
    /\ lpAt = "turn" /\ lpAt' = "final" /\ lpDiff' = diff /\ lpStop' = "TurnError"
    /\ UNCHANGED <<lpKind, lpCriteria, lpModes, lpTurn, lpJudged, lpMoney, lpOuter, lpReport>>

\* Tests that cannot be run end /fix.
TestsFail ==
    /\ lpKind = "fix" /\ lpAt = "judge" /\ lpAt' = "final" /\ lpStop' = "TurnError"
    /\ UNCHANGED <<lpKind, lpCriteria, lpModes, lpTurn, lpDiff, lpJudged, lpMoney, lpOuter, lpReport>>

\* A critic whose answer does not parse does not pass anything.
Judge(score, parsed) ==
    LET passed == parsed /\ score >= Pass IN
    /\ lpAt = "judge"
    /\ lpRounds' = Append(lpRounds, [score |-> score, passed |-> passed, diff |-> lpDiff])
    /\ lpAt' = IF passed /\ lpCriteria THEN "criteria" ELSE IF passed THEN "final" ELSE "missed"
    /\ lpStop' = IF passed /\ ~lpCriteria THEN "GoalMet" ELSE lpStop
    /\ UNCHANGED <<lpKind, lpCriteria, lpModes, lpTurn, lpFeedback, lpDiff, lpChecked, lpStall,
                   lpMoney, lpOuter, lpReport>>

\* run_done_check on the tree that passed; a failed request has met nothing.
Criteria(met) ==
    /\ lpAt = "criteria"
    /\ lpChecked' = [diff |-> lpDiff, met |-> met]
    /\ lpAt' = IF met THEN "final" ELSE "missed"
    /\ lpStop' = IF met THEN "GoalMet" ELSE lpStop
    /\ UNCHANGED <<lpKind, lpCriteria, lpModes, lpTurn, lpRounds, lpFeedback, lpDiff, lpStall,
                   lpMoney, lpOuter, lpReport>>

SamePlace(now, before) == now.score <= before.score /\ now.diff = before.diff

\* What a missed round leaves: feedback, and in /auto one more stalled round.
Missed ==
    LET stalled == Len(lpRounds) > 1 /\ SamePlace(LastRound, lpRounds[Len(lpRounds) - 1])
        stall   == IF lpKind = "auto" /\ stalled THEN lpStall + 1 ELSE 0 IN
    /\ lpAt = "missed"
    /\ lpFeedback' = Len(lpRounds) /\ lpStall' = stall
    /\ IF stall = StallLimit THEN lpAt' = "final" /\ lpStop' = "Stalled"
       ELSE lpAt' \in (IF lpKind = "auto" THEN {"round", "reset"} ELSE {"round"}) /\ UNCHANGED lpStop
    /\ UNCHANGED <<lpKind, lpCriteria, lpModes, lpTurn, lpRounds, lpDiff, lpChecked, lpMoney,
                   lpOuter, lpReport>>

\* Mutant: a fresh session starts without the feedback.
ResetAll ==
    /\ lpAt = "reset" /\ lpAt' = "round" /\ lpSession' = 0 /\ lpFeedback' = 0
    /\ UNCHANGED <<lpKind, lpCriteria, lpModes, lpTurn, lpRounds, lpChecked, lpStall, lpDiff,
                   lpBefore, lpSpent, lpCost, lpOuter, lpStop, lpReport>>

\* perform_reset: a fresh session, whose costs begin at zero.  It may fail
\* before that, and after.
Reset ==
    /\ lpAt = "reset" /\ lpAt' = "round" /\ lpSession' \in {0, lpSession}
    /\ UNCHANGED <<lpKind, lpCriteria, lpModes, lpTurn, lpJudged, lpDiff, lpBefore, lpSpent, lpCost,
                   lpOuter, lpStop, lpReport>>

-----------------------------------------------------------------------------
(* The end: /auto may check the criteria once more, and reports. *)

\* should_run_final_done_check
FinalCheck ==
    lpKind = "auto" /\ lpCriteria /\ lpChecked = NotChecked /\ lpStop # "Interrupted"

CheckFinally(met) ==
    /\ lpAt = "final" /\ FinalCheck
    /\ lpChecked' = [diff |-> lpDiff, met |-> met] /\ lpAt' = "restore"
    /\ UNCHANGED <<lpKind, lpCriteria, lpModes, lpTurn, lpRounds, lpFeedback, lpStall, lpDiff,
                   lpMoney, lpOuter, lpStop, lpReport>>

Restore ==
    /\ lpAt = "restore" \/ (lpAt = "final" /\ ~FinalCheck)
    /\ lpMode' = lpBorrowed /\ lpBorrowed' = "none"
    /\ lpAt' = "idle" /\ lpReport' = (lpKind = "auto")
    /\ UNCHANGED <<lpKind, lpCriteria, lpPlay, lpTurn, lpDiff, lpJudged, lpMoney, lpOuter, lpStop>>

-----------------------------------------------------------------------------

\* Meanwhile: Ctrl-C, the clock.
World == UNCHANGED <<lpKind, lpAt, lpCriteria, lpModes, lpTurn, lpDiff, lpJudged, lpMoney, lpStop, lpReport>>

CtrlC ==
    /\ lpKind = "auto" /\ lpAt # "idle" /\ ~lpInterrupted /\ lpInterrupted' = TRUE
    /\ World /\ UNCHANGED lpLate

LoopDeadline ==
    /\ lpKind = "auto" /\ lpAt # "idle" /\ ~lpLate /\ lpLate' = TRUE
    /\ World /\ UNCHANGED lpInterrupted

LoopStep ==
    \/ BeginRound \/ NoMoreRounds \/ TestsFail \/ Missed \/ Reset \/ Restore
    \/ \E diff \in Diffs : TurnFails(diff) \/ \E cost \in TurnCosts : LoopTurn(diff, cost)
    \/ \E score \in 0..Pass, parsed \in BOOLEAN : Judge(score, parsed)
    \/ \E met \in BOOLEAN : Criteria(met) \/ CheckFinally(met)

LoopNext ==
    \/ \E kind \in Kinds, criteria \in BOOLEAN : StartLoop(kind, criteria)
    \/ Play \/ PlayExit \/ LoopStep \/ CtrlC \/ LoopDeadline

LoopSpec == LoopInit /\ [][LoopNext]_lpVars

-----------------------------------------------------------------------------
(* Properties. *)

\* README.md: '"done" means the rubric threshold and every criterion is met': a
\* loop that says so ended on a round that passed, and the criteria were met by
\* the tree it leaves.
DoneIsDone ==
    lpStop = "GoalMet" =>
        /\ LastRound.passed /\ LastRound.diff = lpDiff
        /\ lpCriteria => lpChecked = [diff |-> lpDiff, met |-> TRUE]

\* "Stops early on a stall, no score gain and no diff change for three rounds":
\* the last four rounds have one tree, and scores that do not rise.
StallIsStall ==
    lpStop = "Stalled" =>
        \A n \in Len(lpRounds) - 2 .. Len(lpRounds) :
            /\ lpRounds[n].diff = lpRounds[n - 1].diff
            /\ lpRounds[n].score <= lpRounds[n - 1].score

\* The budget counts what the turns of the run cost, across resets that zero the
\* session's costs, and is overspent by one turn at most.
BudgetHolds ==
    /\ lpSpent = lpCost
    /\ lpKind = "auto" /\ lpTurn > 0 => \E last \in TurnCosts : lpSpent - last < Budget

\* "The goal and the latest feedback carry across each reset": a turn after the
\* first is told the verdict on the one before it.
FeedbackIsLatest == lpAt = "turn" => lpFeedback = lpTurn - 1

\* Whatever way a loop or a play session ends, the configuration it borrowed is
\* given back, and /auto has written its report.
GivenBack ==
    lpAt = "idle" =>
        /\ lpMode = IF lpPlay = "none" THEN "own" ELSE "sandbox"
        /\ lpKind = "auto" /\ lpTurn > 0 => lpReport

\* What a loop of turns stops for, spends and gives back.
LoopsSound == DoneIsDone /\ StallIsStall /\ BudgetHolds /\ FeedbackIsLatest /\ GivenBack

\* Every loop ends: turns, critics and tests that answer are enough.
LoopEnds == lpAt = "round" ~> lpAt = "idle"

\* auto_loop.rs: "a user who pressed Ctrl-C wants the run to end, not to wait on
\* another model call": the criteria are not checked once more after it.
NoCallAfterCtrlC ==
    [][lpAt = "final" /\ lpAt' = "restore" => ~lpInterrupted]_lpVars

=============================================================================
