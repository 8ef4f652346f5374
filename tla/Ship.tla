-------------------------------- MODULE Ship --------------------------------
(***************************************************************************)
(* /ship commit, push and pr (src/src/commands/ship.rs, shipcheck.rs): a   *)
(* snapshot of git and, if asked for, a run of the tests; a judgement of   *)
(* it; questions to the user; and then git, gh, a record of what was done  *)
(* and, after a PR, the close of the scorecard's unit.  Meanwhile the user *)
(* edits, other processes stage and commit, and the remote moves.          *)
(*                                                                         *)
(* Content is a number: each edit of the working tree makes a new one.     *)
(***************************************************************************)
EXTENDS Naturals, Sequences

CONSTANTS
    MaxContent,    \* bound on edits
    Broken,        \* contents whose tests fail
    MaxShipFaults, \* bound on steps that fail
    Threshold      \* scorecard.qualityThreshold

Contents == 0..MaxContent
ASSUME ShipAssumption == MaxContent \in Nat /\ Broken \subseteq 1..MaxContent

VARIABLES
    shTree,      \* the working tree
    shIndex,     \* the index
    shCommits,   \* contents of the branch's commits, the first one in the remote
    shPushed,    \* how many of them the remote has
    shUpstream,  \* the branch has an upstream
    shBehind,    \* the remote has commits the branch does not
    shConflict,  \* files in conflict
    shSuite,     \* the tests of the project are found
    shAt,        \* what the command is at
    shArgs,      \* its arguments
    shSnap,      \* its snapshot
    shHash,      \* the commit it speaks of
    shPr,        \* the PR just made: the commit it names, and what the remote had
    shRecord,    \* the record just written under .sessions/ship
    shScored,    \* what the scorecard was just closed with
    shFaults,    \* history: steps that failed
    shMoved      \* history: something else changed since the snapshot

shVars == <<shTree, shIndex, shCommits, shPushed, shUpstream, shBehind, shConflict, shSuite,
            shAt, shArgs, shSnap, shHash, shPr, shRecord, shScored, shFaults, shMoved>>
shGit  == <<shTree, shIndex, shCommits, shPushed, shUpstream, shBehind, shConflict, shSuite>>
shJob  == <<shArgs, shSnap, shHash>>
shDone == <<shPr, shRecord, shScored>>

HeadContent == shCommits[Len(shCommits)]
NoArgs == [action |-> "none", all |-> FALSE, tests |-> FALSE, behind |-> FALSE]
\* staged: the index has the whole tree; clean: and so has the last commit
NoSnap == [tests |-> "not run", staged |-> TRUE, clean |-> TRUE]

ShInit ==
    /\ shTree = 0 /\ shIndex = 0 /\ shCommits = <<0>> /\ shPushed = 1
    /\ shUpstream \in BOOLEAN /\ shBehind = FALSE /\ shConflict = FALSE /\ shSuite \in BOOLEAN
    /\ shAt = "idle" /\ shArgs = NoArgs /\ shSnap = NoSnap /\ shHash = 0
    /\ shPr = {} /\ shRecord = {} /\ shScored = {} /\ shFaults = 0 /\ shMoved = FALSE

-----------------------------------------------------------------------------
(* Everybody else. *)

Elsewhere ==
    /\ shMoved' = (shAt # "idle")
    /\ UNCHANGED <<shUpstream, shSuite, shAt, shJob, shDone, shFaults>>

EditTree ==
    /\ shTree < MaxContent /\ shTree' = shTree + 1
    /\ Elsewhere /\ UNCHANGED <<shIndex, shCommits, shPushed, shBehind, shConflict>>

StageByHand ==
    /\ shIndex # shTree /\ shIndex' = shTree /\ ~shConflict
    /\ Elsewhere /\ UNCHANGED <<shTree, shCommits, shPushed, shBehind, shConflict>>

CommitByHand ==
    /\ shIndex # HeadContent /\ ~shConflict /\ shCommits' = Append(shCommits, shIndex)
    /\ Elsewhere /\ UNCHANGED <<shTree, shIndex, shPushed, shBehind, shConflict>>

RemoteMoves ==
    /\ shUpstream /\ ~shBehind /\ shBehind' = TRUE
    /\ Elsewhere /\ UNCHANGED <<shTree, shIndex, shCommits, shPushed, shConflict>>

\* A pull that may leave conflicts, and their end.
Pull ==
    /\ \/ shBehind /\ shBehind' = FALSE /\ shConflict' \in BOOLEAN
       \/ shConflict /\ shConflict' = FALSE /\ UNCHANGED shBehind
    /\ Elsewhere /\ UNCHANGED <<shTree, shIndex, shCommits, shPushed>>

-----------------------------------------------------------------------------
(* The snapshot and its judgement: evaluate_ship_readiness and its kind. *)

\* Mutant: what is staged when the command begins is tested.
TestsOfStaged == IF ~shSuite THEN "none" ELSE IF shIndex \in Broken THEN "failed" ELSE "passed"

\* run_shipcheck_tests: a project whose tests are not found passes them.
Tests == IF ~shSuite THEN "none" ELSE IF shTree \in Broken THEN "failed" ELSE "passed"

Ahead == Len(shCommits) - shPushed
TreeClean == shTree = shIndex /\ shIndex = HeadContent /\ ~shConflict

Blocked(args, tests) ==
    \/ shConflict
    \/ shBehind /\ ~args.behind
    \/ tests = "failed"
    \/ args.action = "commit" /\ TreeClean /\ Ahead = 0
    \/ args.action = "push" /\ shUpstream /\ Ahead = 0
    \/ args.action = "pr" /\ (~shUpstream \/ Ahead > 0)

\* commit_specific_blockers
NothingToCommit(args) ==
    args.action = "commit" /\ IF args.all THEN shTree = shIndex /\ shIndex = HeadContent
                              ELSE shIndex = HeadContent

\* cmd_ship.  --all is first asked about, a push and a PR only at the end.
ShipStart(args) ==
    LET tests == IF args.tests THEN Tests ELSE "not run"
        refused == Blocked(args, tests) \/ NothingToCommit(args) IN
    /\ shAt = "idle"
    /\ shArgs' = IF refused THEN NoArgs ELSE args
    /\ shSnap' = IF refused THEN NoSnap
                 ELSE [tests |-> tests, staged |-> shTree = shIndex, clean |-> TreeClean]
    /\ shAt' = IF refused THEN "idle"
               ELSE IF args.action = "commit" THEN (IF args.all THEN "stage" ELSE "draft")
               ELSE args.action
    /\ shPr' = {} /\ shRecord' = {} /\ shScored' = {} /\ shMoved' = FALSE
    /\ UNCHANGED <<shGit, shHash, shFaults>>

ShipOver == shAt' = "idle" /\ shArgs' = NoArgs /\ shSnap' = NoSnap /\ shHash' = 0 /\ shMoved' = FALSE

\* The user says no, git refuses, a hook or the network fails: an error, or a
\* line that says so, and the command is over.
ShipStops ==
    /\ shAt \in {"stage", "draft", "commit", "push", "pr", "head", "create", "record", "score"}
    /\ ShipOver
    /\ shAt \in {"head", "record", "score"} => shFaults < MaxShipFaults
    /\ shFaults' = shFaults + IF shAt \in {"head", "record", "score"} THEN 1 ELSE 0
    /\ UNCHANGED <<shGit, shDone>>

-----------------------------------------------------------------------------
(* run_ship_commit *)

\* git add -A
StageAll ==
    /\ shAt = "stage" /\ shAt' = "draft" /\ shIndex' = shTree /\ shConflict' = FALSE
    /\ UNCHANGED <<shTree, shCommits, shPushed, shUpstream, shBehind, shSuite,
                   shJob, shDone, shFaults, shMoved>>

\* What is staged by then is drafted a message for, and asked about.
DraftCommit ==
    /\ shAt = "draft" /\ shIndex # HeadContent /\ shAt' = "commit"
    /\ UNCHANGED <<shGit, shJob, shDone, shFaults, shMoved>>

GitCommit ==
    /\ shAt = "commit" /\ shIndex # HeadContent /\ ~shConflict
    /\ shCommits' = Append(shCommits, shIndex) /\ shAt' = "head"
    /\ UNCHANGED <<shTree, shIndex, shPushed, shUpstream, shBehind, shConflict, shSuite,
                   shJob, shDone, shFaults, shMoved>>

-----------------------------------------------------------------------------
(* run_ship_push *)

\* git push: only a remote that has not moved takes it.
GitPush ==
    /\ shAt = "push" /\ ~shBehind
    /\ shPushed' = Len(shCommits) /\ shUpstream' = TRUE /\ shAt' = "head"
    /\ UNCHANGED <<shTree, shIndex, shCommits, shBehind, shConflict, shSuite, shJob, shDone,
                   shFaults, shMoved>>

\* rev-parse HEAD: after a commit or a push, before a PR.
ReadHead ==
    /\ \/ shAt = "head" /\ shAt' = "record"
       \/ shAt = "pr" /\ shAt' = "create"
    /\ shHash' = Len(shCommits)
    /\ UNCHANGED <<shGit, shArgs, shSnap, shDone, shFaults, shMoved>>

\* A record tells the tests of the snapshot; that of a push has none.
WriteRecord ==
    /\ shAt = "record"
    /\ shRecord' = {[action |-> shArgs.action, hash |-> shHash, tests |-> shSnap.tests,
                     sure |-> ~shMoved /\ (shArgs.all \/ shSnap.staged)]}
    /\ IF shArgs.action = "pr" THEN shAt' = "score" /\ UNCHANGED <<shJob, shMoved>> ELSE ShipOver
    /\ UNCHANGED <<shGit, shPr, shScored, shFaults>>

-----------------------------------------------------------------------------
(* run_ship_pr.  Without gh its command is printed for the user. *)

CreatePr(byGh) ==
    /\ shAt = "create" /\ shAt' = "record"
    /\ shPr' = {[hash |-> shHash, remote |-> shPushed, byGh |-> byGh, sure |-> ~shMoved]}
    /\ UNCHANGED <<shGit, shJob, shRecord, shScored, shFaults, shMoved>>

\* assess_pr_quality of a snapshot that let a PR pass: it has no blockers, and
\* warns of tests that were not run and of changes that are not committed.
Counts(byGh, url, review) ==
    LET score == 100 - (IF review THEN 15 ELSE 0) - (IF byGh THEN 0 ELSE 15) - (IF url THEN 0 ELSE 5)
    IN  score >= Threshold /\ shSnap.tests \in {"passed", "none"} /\ (byGh \/ url)

\* close_scorecard_pr, after the record.
Score(url) ==
    LET byGh == \A pr \in shPr : pr.byGh IN
    /\ shAt = "score" /\ (url => byGh)
    /\ shScored' = {[counts |-> Counts(byGh, url, ~shSnap.clean), hash |-> shHash,
                     sure |-> ~shMoved /\ shSnap.clean]}
    /\ ShipOver /\ UNCHANGED <<shGit, shPr, shRecord, shFaults>>

-----------------------------------------------------------------------------

Requests == [action : {"commit"}, all : BOOLEAN, tests : BOOLEAN, behind : BOOLEAN]
            \cup [action : {"push", "pr"}, all : {FALSE}, tests : BOOLEAN, behind : BOOLEAN]

ShNext ==
    \/ EditTree \/ StageByHand \/ CommitByHand \/ RemoteMoves \/ Pull
    \/ \E args \in Requests : ShipStart(args)
    \/ StageAll \/ DraftCommit \/ GitCommit \/ GitPush \/ ReadHead \/ WriteRecord
    \/ \E made \in BOOLEAN : CreatePr(made) \/ Score(made)
    \/ ShipStops

ShSpec == ShInit /\ [][ShNext]_shVars

-----------------------------------------------------------------------------
(* Properties. *)

\* The record of a commit with passing tests names a commit that passes them: with
\* --all, or with everything staged, and if nothing else changed since they ran.
TestedIsCommitted ==
    \A r \in shRecord : r.action = "commit" /\ r.sure /\ r.tests = "passed"
        => shCommits[r.hash] \notin Broken

\* "branch has unpushed commit(s); run /ship push first": a PR names a commit the
\* remote had when it was made, unless something changed after the snapshot.
PrIsPushed == \A pr \in shPr : pr.sure => pr.hash <= pr.remote

\* A PR that counts as quality is of a commit whose tests pass, if the project has
\* tests that are found, its tree was committed, and nothing changed meanwhile.
CountedIsGood ==
    \A s \in shScored : s.counts /\ s.sure /\ shSuite => shCommits[s.hash] \notin Broken

\* What is committed, pushed and counted is what was tested.
ShipSound == TestedIsCommitted /\ PrIsPushed /\ CountedIsGood

\* README.md:611: "A PR counts as quality-shipped when its local score meets
\* scorecard.qualityThreshold, tests passed": no PR counts without tests.
CountedIsTested == \A s \in shScored : s.counts => shSuite

=============================================================================
