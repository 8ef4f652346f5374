------------------------------ MODULE Verdicts ------------------------------
(***************************************************************************)
(* What the program concludes from the tests, from git and from the critic *)
(* (test_integration.rs, tools/run_tests.rs, shipcheck.rs, handoff.rs,     *)
(* rubric.rs): which tests are looked for and chosen, what a run of them   *)
(* says to /test, the agent's tools, /fix, the end of a turn and           *)
(* /shipcheck; what a snapshot of git lets /ship do; which part of a diff  *)
(* a draft is made of; and when the critic's scores are a pass.            *)
(*                                                                         *)
(* The runner is external: it fails if a test it ran fails, counts what    *)
(* it could build, and cargo runs nothing of a crate that does not build.  *)
(***************************************************************************)
EXTENDS Integers, Sequences, SequencesExt, FiniteSets, FiniteSetsExt

CONSTANTS
    PyTests,     \* test files pytest finds
    RsTests,     \* test files cargo finds
    Others,      \* files that are no tests
    Unwritten,   \* files that need not exist at first
    Named,       \* pairs <<file, test>>: the file's stem is part of the test's
    Below,       \* pairs <<file, test>>: the test lies in or below the file's directory
    Covers,      \* pairs <<file, test>>: the test fails with the file
    MaxChanges,  \* bound on edits
    Weights,     \* the weights of a rubric's criteria
    PassAt,      \* rubric.passThreshold
    Limits,      \* context limits tried
    Marker       \* length of the mark of a cut

TestFiles == PyTests \cup RsTests
VdFiles == TestFiles \cup Others

ASSUME VerdictsAssumption ==
    /\ Named \cup Below \cup Covers \subseteq VdFiles \X TestFiles
    /\ Unwritten \subseteq VdFiles /\ Marker \in Nat \ {0} /\ MaxChanges \in Nat /\ PassAt \in 0..10

VARIABLES
    vdTree,     \* what each file is: absent, good, better (good after an edit), wrong, torn
    vdHead,     \* the same in HEAD
    vdMarks,    \* the build files the workspace has
    vdGit,      \* "none", "root" (of a repository) or "nested" (below its root)
    vdChanges,  \* edits made
    vdReport,   \* what the last run of tests led to
    vdCase      \* a snapshot judged, a context made or a verdict of the critic

vdTested == <<vdTree, vdHead, vdMarks, vdGit, vdChanges, vdReport>>
vdVars == <<vdTested, vdCase>>

NoReport == [by |-> "none", ran |-> {}, verdict |-> "none", told |-> FALSE,
             outcome |-> "none", ready |-> FALSE]

-----------------------------------------------------------------------------
(* The project: which tests there are, and how the runner finds them. *)

Fails(t) == \E f \in VdFiles : /\ f = t \/ <<f, t>> \in Covers
                             /\ vdTree[f] \in {"wrong", "torn"}
Unbuilt(t) == \E f \in VdFiles : (f = t \/ <<f, t>> \in Covers) /\ vdTree[f] = "torn"

\* discover_tests: the first build file of a fixed order decides; without
\* one, the presence of a Python test.
Framework ==
    CASE "python" \in vdMarks -> "pytest"
      [] "cargo" \in vdMarks /\ "python" \notin vdMarks -> "cargo"
      [] vdMarks = {} /\ \E t \in PyTests : vdTree[t] # "absent" -> "pytest"
      [] OTHER -> "unknown"

Found == {t \in (CASE Framework = "pytest" -> PyTests
                   [] Framework = "cargo"  -> RsTests
                   [] OTHER                -> {}) : vdTree[t] # "absent"}

\* What the parsers count as failed: what a suite that does not build never
\* came to run is in none of their lines.
Counted(ran) == {t \in ran : Fails(t) /\ ~Unbuilt(t)}

\* What a runner does when it is given these tests.  Cargo is given none of
\* them and runs all; pytest without a test to run exits with 5.
Run(chosen) ==
    LET ran == IF Framework = "cargo" THEN IF \E t \in Found : Unbuilt(t) THEN {} ELSE Found
               ELSE chosen IN
    [ran    |-> ran,
     failed |-> Counted(ran),
     exit   |-> IF (\E t \in ran : Fails(t)) \/ (ran = {} /\ Framework = "pytest")
                   \/ (Framework = "cargo" /\ ran # Found) THEN 1 ELSE 0]

Completed(chosen) == Run(chosen)

NoFramework == [ran |-> {}, failed |-> {}, exit |-> 1]
NothingRan  == [ran |-> {}, failed |-> {}, exit |-> 0]

RunTests == IF Framework = "unknown" THEN NoFramework ELSE Completed(Found)
RunPattern(ts) == IF Framework = "unknown" THEN NoFramework ELSE Completed(Found \cap ts)
RunSelected(ts) == CASE Framework = "unknown" -> NoFramework
                     [] Framework # "unknown" /\ ts = {} -> NothingRan
                     [] OTHER -> Completed(ts)

-----------------------------------------------------------------------------
(* smart_test_selection *)

Changed == {f \in VdFiles : vdTree[f] # vdHead[f]}

\* git names a tracked file from the root of the repository and an untracked
\* one from the workspace, tests are named from the workspace: below the root,
\* only the directories of untracked files are recognised.
NearBy(f) == IF vdGit = "nested" /\ vdHead[f] # "absent" THEN {} ELSE {t \in Found : <<f, t>> \in Below}

Matches(f) == {t \in Found : <<f, t>> \in Named} \cup NearBy(f)

Selection ==
    CASE vdGit = "none"                     -> Found
      [] vdGit # "none" /\ Changed = {}     -> {}
      [] OTHER -> LET hit == UNION {Matches(f) : f \in Changed} IN IF hit = {} THEN Found ELSE hit

-----------------------------------------------------------------------------
(* Who asks for a run, and what is made of it. *)

\* tests_passing, and the condition of run_user_turn, TestStatus and verify
Passing(r) == r.failed = {} /\ r.exit = 0

Judgement(r) == Passing(r)

Says(by, r) == [NoReport EXCEPT !.by = by, !.ran = r.ran,
                                !.verdict = IF Judgement(r) THEN "green" ELSE "red"]

Conclude(report) == vdReport' = report /\ UNCHANGED <<vdTree, vdHead, vdMarks, vdGit, vdChanges>>

\* /test run, the tool's "all", verify; with a pattern the tests it names.
WholeRun == Conclude(Says("run", RunTests))
PatternRun(t) == Conclude(Says("pattern", RunPattern({t})))

\* The tool's "smart": without changes nothing is run and nothing failed.
SmartRun == Conclude(Says("smart", IF Selection = {} THEN NothingRan ELSE RunSelected(Selection)))

\* run_fix_tests: without changes everything is run.
FixRun ==
    \/ Conclude(Says("fix all", RunTests))
    \/ Conclude(Says("fix smart", IF Selection = {} THEN RunTests ELSE RunSelected(Selection)))

\* The end of a turn that changed files in ship mode: the model is told of a
\* failure, the user that the work is ready, the route of the outcome.
AutoVerify ==
    /\ Selection # {}
    /\ LET r == RunSelected(Selection) IN
       \E routed, conflict \in BOOLEAN :
          Conclude([Says("turn", r) EXCEPT
             !.told = ~Judgement(r), !.ready = Judgement(r) /\ ~conflict,
             !.outcome = IF ~routed THEN "none" ELSE IF Judgement(r) THEN "pass" ELSE "fail"])

\* run_shipcheck_tests: a project without a framework passes.
Shipcheck == Conclude(Says("shipcheck", IF Framework = "unknown" THEN NothingRan ELSE RunTests))

\* The user, the agent and git between the runs.
EditFile(f, to) ==
    /\ vdChanges < MaxChanges /\ to # vdTree[f]
    /\ vdTree' = [vdTree EXCEPT ![f] = to] /\ vdChanges' = vdChanges + 1 /\ vdReport' = NoReport
    /\ UNCHANGED <<vdHead, vdMarks, vdGit>>

Commit ==
    /\ vdGit # "none" /\ Changed # {} /\ vdHead' = vdTree /\ vdReport' = NoReport
    /\ UNCHANGED <<vdTree, vdMarks, vdGit, vdChanges>>

TestNext ==
    /\ \/ WholeRun \/ SmartRun \/ FixRun \/ AutoVerify \/ Shipcheck \/ Commit
       \/ \E t \in TestFiles : PatternRun(t)
       \/ \E f \in VdFiles, to \in {"better", "wrong", "torn"} : EditFile(f, to)
    /\ UNCHANGED vdCase

-----------------------------------------------------------------------------
(* What a snapshot of git allows: parse_status_porcelain_v2 and the judges. *)

NotRun == [run |-> FALSE, failed |-> 0, exit |-> 0, error |-> FALSE]
TestStatuses ==
    {NotRun, [NotRun EXCEPT !.run = TRUE], [NotRun EXCEPT !.run = TRUE, !.failed = 1, !.exit = 1],
     [NotRun EXCEPT !.run = TRUE, !.exit = 2], [NotRun EXCEPT !.run = TRUE, !.exit = 1, !.error = TRUE]}

Snapshots == [head : {"branch", "detached", "unknown"}, upstream : BOOLEAN, ahead : {0, 1},
              behind : {0, 1}, files : SUBSET {"staged", "untracked", "conflict"}, tests : TestStatuses]

\* A file in conflict has a staged and an unstaged status, an untracked none.
Staged(s)    == s.files \cap {"staged", "conflict"}
Conflicts(s) == s.files \cap {"conflict"}

TestsStop(s) == s.tests.failed > 0 \/ s.tests.exit # 0

ReadyToShip(s) == Conflicts(s) = {} /\ ~(s.tests.run /\ TestsStop(s))

Marks(conditions) == {m \in DOMAIN conditions : conditions[m]}

\* Mutant: the exit code of a run that counted no failure is not looked at.
PrBlockersCounted(s, allowBehind) ==
    Marks([head |-> s.head # "branch", upstream |-> ~s.upstream, ahead |-> s.ahead > 0,
           behind |-> s.behind > 0 /\ ~allowBehind, conflict |-> Conflicts(s) # {},
           tests |-> s.tests.run /\ s.tests.failed > 0, error |-> s.tests.error])

PrBlockers(s, allowBehind) ==
    Marks([head |-> s.head # "branch", upstream |-> ~s.upstream, ahead |-> s.ahead > 0,
           behind |-> s.behind > 0 /\ ~allowBehind, conflict |-> Conflicts(s) # {},
           tests |-> s.tests.run /\ TestsStop(s), error |-> s.tests.error])

PrWarnings(s) == Marks([uncommitted |-> s.files # {}, untested |-> ~s.tests.run])

StatusBlockers(s) == Marks([head |-> s.head # "branch", upstream |-> ~s.upstream])

StatusWarnings(s, allowBehind) ==
    Marks([ahead |-> s.ahead > 0, behind |-> s.behind > 0 /\ ~allowBehind,
           conflict |-> Conflicts(s) # {}, uncommitted |-> s.files # {},
           tests |-> s.tests.run /\ TestsStop(s), error |-> s.tests.error])

Readiness(blockers, warnings) ==
    IF blockers # {} THEN "blocked" ELSE IF warnings # {} THEN "needs review" ELSE "ready"

\* quality_input_from_shipcheck
QualityTests(s) ==
    IF ~s.tests.run THEN "not run"
    ELSE IF ~TestsStop(s) /\ ~s.tests.error THEN "passed" ELSE "failed"

NoCase == [kind |-> "none"]

JudgeSnapshot(s, allowBehind) ==
    /\ vdCase = NoCase
    /\ vdCase' = [kind |-> "snapshot",
                  pr |-> Readiness(PrBlockers(s, allowBehind), PrWarnings(s)),
                  status |-> Readiness(StatusBlockers(s), StatusWarnings(s, allowBehind)),
                  agent |-> ReadyToShip(s), quality |-> QualityTests(s)]
    /\ UNCHANGED vdTested

-----------------------------------------------------------------------------
(* A PR on GitHub: what /ship status advises, and what the scorecard's     *)
(* verify makes of it.  Only open PRs reach the first.                     *)

CheckRuns == {<<"COMPLETED", "SUCCESS">>, <<"SUCCESS", "none">>, <<"COMPLETED", "FAILURE">>,
              <<"ERROR", "none">>, <<"IN_PROGRESS", "none">>, <<"COMPLETED", "SKIPPED">>}

PullRequests == [state : {"OPEN", "CLOSED", "MERGED"}, draft : BOOLEAN, checks : SUBSET CheckRuns,
                 review : {"none", "APPROVED", "REVIEW_REQUIRED", "CHANGES_REQUESTED"}]

Bucket(check) ==
    CASE "SUCCESS" \in {check[1], check[2]}                        -> "success"
      [] check[2] = "FAILURE" \/ check[1] \in {"FAILURE", "ERROR"} -> "failing"
      [] check[2] = "SKIPPED"                                      -> "skipped"
      [] OTHER                                                     -> "pending"

Buckets(pr) == {Bucket(check) : check \in pr.checks}

\* ship_pr_status_next_action
NextAction(pr) ==
    IF "failing" \in Buckets(pr) THEN "fix"
    ELSE IF pr.checks = {} \/ "pending" \in Buckets(pr) THEN "wait"
    ELSE IF pr.review = "CHANGES_REQUESTED" THEN "address"
    ELSE IF pr.review = "REVIEW_REQUIRED" THEN "request"
    ELSE "merge"

\* classify_remote_outcome
Outcome(pr) ==
    LET merged == pr.state = "MERGED" IN
    IF "failing" \in Buckets(pr) THEN "failing"
    ELSE IF "pending" \in Buckets(pr) THEN "pending"
    ELSE IF pr.state = "CLOSED" THEN "closed"
    ELSE IF pr.draft THEN "draft"
    ELSE IF pr.review = "CHANGES_REQUESTED" THEN "changesRequested"
    ELSE IF pr.checks = {} THEN "unchecked"
    ELSE IF pr.review = "REVIEW_REQUIRED" /\ ~merged THEN "reviewRequired"
    ELSE IF merged THEN "merged" ELSE "verified"

VerifyPr(pr) ==
    /\ vdCase = NoCase
    /\ vdCase' = [kind |-> "pr", pr |-> pr, outcome |-> Outcome(pr),
                  next |-> IF pr.state = "OPEN" THEN NextAction(pr) ELSE "none"]
    /\ UNCHANGED vdTested

-----------------------------------------------------------------------------
(* build_handoff_context: pieces of text under one limit, and the draft. *)

EmptyContext(limit) == [limit |-> limit, length |-> 0, kept |-> 0, truncated |-> FALSE, marked |-> FALSE]

\* push_limited; where the cut would fall inside a character (wide), the
\* prefix ends before it.
PushLimited(wide, out, text) ==
    LET room == out.limit - out.length
        mark == IF room >= Marker THEN Marker ELSE 0
        kept == IF wide /\ room > mark THEN room - mark - 1 ELSE room - mark IN
    IF out.truncated \/ room <= 0 THEN [out EXCEPT !.truncated = TRUE]
    ELSE IF text <= room THEN [out EXCEPT !.length = @ + text, !.kept = @ + text]
    ELSE [out EXCEPT !.truncated = TRUE, !.marked = mark > 0,
                     !.kept = @ + kept, !.length = @ + kept + mark]

\* A title; and a diff between fences, or a line that there is none.
DiffSection(diff) == IF diff = 0 THEN <<1, 1>> ELSE <<1, 1, diff, 1>>

\* build_dirty_context and build_ahead_context
DirtyPieces(staged, unstaged, untracked) ==
    <<2>> \o (IF untracked = 0 THEN <<>> ELSE <<1>> \o [i \in 1..untracked |-> 1])
          \o DiffSection(staged) \o DiffSection(unstaged)
AheadPieces(commits, diff) ==
    <<2, 1>> \o (IF commits = 0 THEN <<1>> ELSE <<1, commits, 1>>) \o DiffSection(diff)

Context(limit, wide, pieces) ==
    FoldLeft(LAMBDA out, text : PushLimited(wide, out, text), EmptyContext(limit), pieces)

\* cmd_handoff and draft_ship_commit_message: what is sent, where, and what the
\* commit is called.  A model's answer is completed with the headings it lacks
\* (ensure_required_sections), each over the words "Not detected".
DraftFrom(limit, wide, pieces, cloud, allowCloud, answer) ==
    LET refused == cloud /\ ~allowCloud IN
    /\ vdCase = NoCase
    /\ vdCase' = [kind |-> "draft", context |-> Context(limit, wide, pieces),
                   total |-> FoldLeft(LAMBDA sum, text : sum + text, 0, pieces),
                   message |-> IF refused \/ answer \in {"empty", "error", "heading only"}
                               THEN "fallback"
                               ELSE IF answer = "no heading" THEN "placeholder" ELSE "drafted"]
    /\ UNCHANGED vdTested

Answers == {"sections", "no heading", "heading only", "empty", "error"}

-----------------------------------------------------------------------------
(* The critic: load_rubric, weighted_total and parse_verdict. *)

Criteria == 1..Len(Weights)
Clamp(score) == IF score < 0 THEN 0 ELSE IF score > 10 THEN 10 ELSE score
TotalWeight == FoldLeft(LAMBDA sum, w : sum + w, 0, Weights)

Weigh(criteria, scores) ==
    MapThenSumSet(LAMBDA c : Weights[c] * Clamp(scores[c]), criteria)

\* A criterion without a score counts as nothing.
Passes(scores) == Weigh(DOMAIN scores, scores) >= PassAt * TotalWeight

\* run_evaluation: refused for a cloud provider without rubric.allowCloud; an
\* answer without an object of scores is no pass.
Evaluate(refused, scores) ==
    /\ vdCase = NoCase
    /\ vdCase' = [kind |-> "score", parsed |-> ~refused, scores |-> scores,
                   pass |-> ~refused /\ Passes(scores)]
    /\ UNCHANGED vdTested

-----------------------------------------------------------------------------
VdInit ==
    /\ vdTree \in [VdFiles -> {"absent", "good"}]
    /\ \A f \in VdFiles \ Unwritten : vdTree[f] = "good"
    /\ vdHead = vdTree
    /\ vdMarks \in SUBSET {"python", "cargo"} /\ vdGit \in {"none", "root", "nested"}
    /\ vdChanges = 0 /\ vdReport = NoReport
    /\ vdCase = NoCase

JudgeNext == \E s \in Snapshots, allow \in BOOLEAN : JudgeSnapshot(s, allow)

DraftNext ==
    \E limit \in Limits, wide, cloud, allow \in BOOLEAN, answer \in Answers, a, b \in 0..3 :
       \/ \E untracked \in 0..2 :
             DraftFrom(limit, wide, DirtyPieces(a, b, untracked), cloud, allow, answer)
       \/ DraftFrom(limit, wide, AheadPieces(a, b), cloud, allow, answer)

GradeNext ==
    \E refused \in BOOLEAN, named \in SUBSET Criteria :
       \E scores \in [named -> {-2, 0, 5, 7, 10, 12}] : Evaluate(refused, scores)

RemoteNext == \E pr \in PullRequests : VerifyPr(pr)

CaseNext == RemoteNext \/ JudgeNext \/ DraftNext \/ GradeNext

VdNext == TestNext \/ CaseNext

VdSpec == VdInit /\ [][VdNext]_vdVars

-----------------------------------------------------------------------------
(* A verdict of success is about tests that ran: whoever says green, no    *)
(* test it ran fails, whatever the parser counted (a suite that does not   *)
(* build has no failed test, parse_completed_output); and a run that built *)
(* nothing is not green.                                                   *)
GreenMeansPassed ==
    vdReport.verdict = "green" =>
        /\ \A t \in vdReport.ran : ~Fails(t)
        /\ vdReport.by \in {"run", "fix all"} => \A t \in Found : ~Fails(t)

(* What a change is about is never left out by a smart run at the root of  *)
(* its repository: every test whose name or directory matches a changed,   *)
(* staged or untracked file is among those a green run, fix or turn ran.   *)
RelatedIsRun ==
    (vdReport.by \in {"smart", "fix smart", "turn"} /\ vdReport.verdict = "green" /\ vdGit = "root") =>
        \A f \in Changed, t \in Found : <<f, t>> \in Named \cup Below => t \in vdReport.ran

(* The end of a turn draws one conclusion: the model is told exactly when  *)
(* a test that ran fails or the suite did not build, the route's outcome   *)
(* says the same, and ready for /handoff is said only when neither.        *)
TurnTellsTheTruth ==
    vdReport.by = "turn" =>
        LET bad == (\E t \in vdReport.ran : Fails(t)) \/ (\E t \in Found : Unbuilt(t) /\ Framework = "cargo") IN
        /\ vdReport.told <=> bad \/ (vdReport.ran = {} /\ Framework \in {"pytest", "unknown"})
        /\ vdReport.outcome = "pass" => ~bad
        /\ vdReport.ready => ~vdReport.told

(* The judges of one snapshot do not contradict each other: what may be a  *)
(* PR is ready_to_ship for the agent (ship_status), what /ship status does *)
(* not look at cannot be a PR, and the scorecard calls the tests of a PR   *)
(* passed or not run, never failed (quality_input_from_shipcheck).         *)
JudgesAgree ==
    (vdCase.kind = "snapshot" /\ vdCase.pr # "blocked") =>
        vdCase.agent /\ vdCase.status # "blocked" /\ vdCase.quality # "failed"

(* The two readers of a PR agree: one that /ship status would merge has no *)
(* failed or running check, and is verified for the scorecard unless it is *)
(* a draft; and the scorecard verifies nothing that should wait.           *)
RemoteJudgesAgree ==
    (vdCase.kind = "pr" /\ vdCase.pr.state = "OPEN") =>
        /\ vdCase.next = "merge" /\ ~vdCase.pr.draft => vdCase.outcome = "verified"
        /\ vdCase.outcome = "verified" => vdCase.next = "merge"
        /\ vdCase.next = "merge" =>
              \A check \in vdCase.pr.checks : check[1] # "IN_PROGRESS" /\ check[1] # "ERROR" /\ check[2] # "FAILURE"

(* A context keeps its limit, and says that it is partial exactly when     *)
(* something is missing from it (HandoffContext.truncated, the note of     *)
(* render_handoff_prompt); a mark is left out only where it does not fit.  *)
ContextFits ==
    vdCase.kind = "draft" =>
        LET c == vdCase.context IN
        /\ c.length <= c.limit
        /\ c.truncated <=> c.kept < vdCase.total
        /\ c.marked => c.truncated

(* A missing grade is not a free pass (rubric.rs:38): a pass needs scores  *)
(* for enough of the rubric's weight, however high they are.               *)
MissingIsNoPass ==
    (vdCase.kind = "score" /\ vdCase.pass) =>
        /\ vdCase.parsed
        /\ 10 * MapThenSumSet(LAMBDA c : Weights[c], DOMAIN vdCase.scores) >= PassAt * TotalWeight

\* Verdicts on tests, checks and scores say what was found.
VerdictsSound ==
    /\ GreenMeansPassed /\ RelatedIsRun /\ TurnTellsTheTruth /\ JudgesAgree /\ RemoteJudgesAgree
    /\ ContextFits /\ MissingIsNoPass

(* Not of the code.  A commit is called what the model or the fallback     *)
(* called it: where the model gives no Commit Message heading,             *)
(* ensure_required_sections adds one over "Not detected.", and             *)
(* extract_markdown_section takes that for the message (ship.rs:1217).     *)
MessageIsDrafted == vdCase.kind = "draft" => vdCase.message # "placeholder"

(* Not of the code.  What should be merged is no draft: gh is not asked    *)
(* for isDraft by /ship status (ship.rs:759), by the scorecard it is.      *)
DraftIsNotMerged == (vdCase.kind = "pr" /\ vdCase.next = "merge") => ~vdCase.pr.draft

(* Not of the code.  The whole suite gets one verdict: /shipcheck passes a *)
(* project whose framework is unknown (shipcheck.rs:261), run_tests fails  *)
(* it, and /fix then asks for a repair of it (test_integration.rs:231).    *)
UnknownIsNotFailed == (vdReport.by \in {"run", "fix all"} /\ Framework = "unknown") => vdReport.verdict # "red"

(* Not of the code.  The same for a workspace below the root of its        *)
(* repository: RelatedIsRun without vdGit = "root".                        *)
RelatedIsRunNested ==
    (vdReport.by \in {"smart", "fix smart", "turn"} /\ vdReport.verdict = "green" /\ vdGit # "none") =>
        \A f \in Changed, t \in Found : <<f, t>> \in Named \cup Below => t \in vdReport.ran
=============================================================================
