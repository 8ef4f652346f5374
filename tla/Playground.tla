----------------------------- MODULE Playground -----------------------------
(***************************************************************************)
(* Demonstrations and evaluations: /play (src/src/playground.rs), which    *)
(* runs a fixture in a sandbox and gives the settings back afterwards, and *)
(* /play battle, /eval agent and --eval (src/src/agent_eval.rs), which run *)
(* fixtures with several models in workspaces of their own.  Around them,  *)
(* the commands that touch the same state: prompts, /mode, /checkpoints,   *)
(* /undo and /new.                                                         *)
(*                                                                         *)
(* A workspace is one file: "first" as it began, "half" with what a        *)
(* fixture looks for and failing tests, or "good".  Workspace 0 is the     *)
(* user's own, the others are sandboxes.  Evaluations share nothing with   *)
(* the play sessions but the fixtures: they have a specification to        *)
(* themselves.                                                             *)
(***************************************************************************)
EXTENDS Naturals, Sequences

CONSTANTS
    Models,        \* models a battle or an evaluation can be asked for
    Refused,       \* those whose provider validate refuses
    MaxSandboxes,  \* bound: play sessions
    MaxStack,      \* bound: turns with a checkpoint
    MaxOwnEdits    \* bound: edits of the user

ASSUME PlaygroundAssumption ==
    Refused \subseteq Models /\ {MaxSandboxes, MaxStack, MaxOwnEdits} \subseteq Nat

VARIABLES
    pgConfig,       \* state.config: its workspace, mode and checkpoint setting
    pgCheckpoints,  \* state.checkpoints_enabled
    pgPlay,         \* state.play_session: the settings to restore, or NoPlay
    pgAsked,        \* the fixture whose play turn runs, or "none"
    pgTree,         \* workspace -> its file
    pgStack,        \* the checkpoint stack, with the workspace of each turn
    pgSaid,         \* an answer in the session mentions what fixtures look for
    pgScore,        \* state.last_play_scorecard: did it pass, and on its own?
    pgOwn,          \* the user's own settings: config and checkpoints
    pgMade, pgEdits, \* counters of the bounds
    evRun,          \* the evaluation that runs, or NoEval
    evSaved         \* the results that were written to a file last

pgVars == <<pgConfig, pgCheckpoints, pgPlay, pgAsked, pgTree, pgStack, pgSaid,
            pgScore, pgOwn, pgMade, pgEdits>>
evVars == <<evRun, evSaved>>

Own    == 0
Trees  == {"first", "half", "good"}
NoPlay == <<>>
NoEval == [pairs |-> <<>>, results |-> <<>>]
NoScore == [passed |-> FALSE, earned |-> FALSE]

\* What a fixture asks for; "kept" stands for the fixtures users write.
Checks == [fix |-> {"tests"}, feature |-> {"file", "tests"}, explain |-> {"tool", "mention"},
           kept |-> {"clean", "file"}]
Fixtures == DOMAIN Checks

\* list_play_fixtures
Bundled  == Fixtures \ {"kept"}

\* What a run did: the tools it used and what its transcript mentions.
Deeds == [read : BOOLEAN, said : BOOLEAN]

\* evaluate_checks, on a tree, the commit under it and what the run did.
Holds(check, tree, head, did) ==
    \/ check = "tests" /\ tree = "good"
    \/ check = "file" /\ tree # "first"
    \/ check = "clean" /\ tree = head
    \/ check = "tool" /\ did.read
    \/ check = "mention" /\ did.said

\* init_git_if_needed: the commit of the baseline may fail, for want of an
\* author's name, and nobody notices.
Baseline == {"first", "none"}

AllHold(fixture, tree, head, did) == \A c \in Checks[fixture] : Holds(c, tree, head, did)

PgInit ==
    /\ pgConfig = [root |-> Own, mode |-> "explore", checkpoints |-> FALSE]
    /\ pgCheckpoints = FALSE /\ pgPlay = NoPlay /\ pgAsked = "none"
    /\ pgTree = [w \in 0..MaxSandboxes |-> "first"]
    /\ pgStack = <<>> /\ pgSaid = FALSE /\ pgScore = NoScore
    /\ pgOwn = [config |-> pgConfig, checkpoints |-> FALSE]
    /\ pgMade = 0 /\ pgEdits = 0

Between == pgAsked = "none"

-----------------------------------------------------------------------------
(* Settings. *)

WithMode(config, mode) == [config EXCEPT !.mode = mode, !.checkpoints = mode = "ship"]

\* What the user sets outside a play session is the user's own setting.
OwnSetting == pgOwn' = IF pgPlay = NoPlay THEN [config |-> pgConfig', checkpoints |-> pgCheckpoints']
                    ELSE pgOwn

\* /mode
PgMode(mode) ==
    /\ Between
    /\ pgConfig' = WithMode(pgConfig, mode) /\ pgCheckpoints' = pgConfig'.checkpoints
    /\ OwnSetting
    /\ UNCHANGED <<pgPlay, pgAsked, pgTree, pgStack, pgSaid, pgScore, pgMade, pgEdits>>

\* /checkpoints on, off
PgToggle ==
    /\ Between
    /\ pgCheckpoints' = ~pgCheckpoints /\ UNCHANGED pgConfig
    /\ OwnSetting
    /\ UNCHANGED <<pgPlay, pgAsked, pgTree, pgStack, pgSaid, pgScore, pgMade, pgEdits>>

-----------------------------------------------------------------------------
(* Turns. *)

\* A turn that ended: it changed the file of the workspace of the settings.
TurnEndsWell(tree, said) ==
    /\ pgTree' = [pgTree EXCEPT ![pgConfig.root] = tree]
    /\ pgSaid' = (pgSaid \/ said)
    /\ IF pgCheckpoints /\ tree # pgTree[pgConfig.root]
       THEN /\ Len(pgStack) < MaxStack
            /\ pgStack' = Append(pgStack, [world |-> pgConfig.root, tree |-> pgTree[pgConfig.root]])
       ELSE UNCHANGED pgStack

\* A turn that failed keeps its changes, without a checkpoint or an answer.
TurnBreaks(tree) ==
    /\ pgTree' = [pgTree EXCEPT ![pgConfig.root] = tree]
    /\ UNCHANGED <<pgSaid, pgStack>>

\* A prompt of the user.
PgPrompt(tree) ==
    /\ Between
    /\ \/ \E said \in BOOLEAN : TurnEndsWell(tree, said)
       \/ TurnBreaks(tree)
    /\ UNCHANGED <<pgConfig, pgCheckpoints, pgPlay, pgAsked, pgScore, pgOwn, pgMade, pgEdits>>

\* /undo
PgUndo ==
    /\ Between /\ pgStack # <<>>
    /\ pgTree' = [pgTree EXCEPT ![pgConfig.root] = pgStack[Len(pgStack)].tree]
    /\ pgStack' = SubSeq(pgStack, 1, Len(pgStack) - 1)
    /\ UNCHANGED <<pgConfig, pgCheckpoints, pgPlay, pgAsked, pgSaid, pgScore, pgOwn, pgMade, pgEdits>>

-----------------------------------------------------------------------------
(* Play sessions. *)

\* Mutant: the settings to restore are taken after they were changed.
SnapshotLate(sandbox) ==
    /\ pgConfig' = [WithMode(pgConfig, "ship") EXCEPT !.root = sandbox]
    /\ pgCheckpoints' = TRUE
    /\ pgPlay' = [config |-> pgConfig', checkpoints |-> pgCheckpoints']

EnterSandbox(sandbox) ==
    /\ pgConfig' = [WithMode(pgConfig, "ship") EXCEPT !.root = sandbox]
    /\ pgCheckpoints' = pgConfig'.checkpoints
    /\ pgPlay' = [config |-> pgConfig, checkpoints |-> pgCheckpoints]

\* /play <fixture>: start_play_session
PlayStarts(fixture) ==
    /\ Between /\ pgPlay = NoPlay
    /\ pgMade < MaxSandboxes /\ pgMade' = pgMade + 1
    /\ EnterSandbox(pgMade') /\ pgAsked' = fixture
    /\ UNCHANGED <<pgTree, pgStack, pgSaid, pgScore, pgOwn, pgEdits>>

\* The turn of run_play_fixture and its scorecard, which judges the sandbox and
\* the transcript of the whole session; a turn that failed leaves the play
\* session open.
PlayTurn(tree) ==
    /\ pgAsked # "none" /\ pgAsked' = "none"
    /\ \/ \E did \in Deeds :
            /\ TurnEndsWell(tree, did.said)
            /\ LET passed(said) == AllHold(pgAsked, tree, "none", [did EXCEPT !.said = said])
               IN  pgScore' = [passed |-> passed(pgSaid'), earned |-> passed(did.said)]
       \/ TurnBreaks(tree) /\ UNCHANGED pgScore
    /\ UNCHANGED <<pgConfig, pgCheckpoints, pgPlay, pgOwn, pgMade, pgEdits>>

\* restore_play_session
LeaveSandbox ==
    /\ pgConfig' = pgPlay.config /\ pgCheckpoints' = pgPlay.checkpoints
    /\ pgPlay' = NoPlay

\* /play exit
PgExit ==
    /\ Between /\ pgPlay # NoPlay /\ LeaveSandbox
    /\ UNCHANGED <<pgAsked, pgTree, pgStack, pgSaid, pgScore, pgOwn, pgMade, pgEdits>>

\* /new
PgNew ==
    /\ Between
    /\ IF pgPlay # NoPlay THEN LeaveSandbox ELSE UNCHANGED <<pgConfig, pgCheckpoints, pgPlay>>
    /\ pgStack' = <<>> /\ pgSaid' = FALSE
    /\ UNCHANGED <<pgAsked, pgTree, pgScore, pgOwn, pgMade, pgEdits>>

\* The user's editor, at any time.
OwnEdit(tree) ==
    /\ pgEdits < MaxOwnEdits /\ pgEdits' = pgEdits + 1
    /\ pgTree' = [pgTree EXCEPT ![Own] = tree]
    /\ UNCHANGED <<pgConfig, pgCheckpoints, pgPlay, pgAsked, pgStack, pgSaid, pgScore, pgOwn, pgMade>>

PgNext ==
    \/ \E mode \in {"explore", "ship"} : PgMode(mode)
    \/ PgToggle \/ PgUndo \/ PgExit \/ PgNew
    \/ \E tree \in Trees : PgPrompt(tree) \/ PlayTurn(tree) \/ OwnEdit(tree)
    \/ \E fixture \in Bundled : PlayStarts(fixture)

-----------------------------------------------------------------------------
(* Battles and evaluations. *)

\* Every model with every fixture, model by model.
Pairs(models, fixtures) ==
    [i \in 1..Len(models) * Len(fixtures) |->
        [model |-> models[(i - 1) \div Len(fixtures) + 1],
         fixture |-> fixtures[((i - 1) % Len(fixtures)) + 1]]]

EvInit == evRun = NoEval /\ evSaved = NoEval

\* /play battle and --eval take one fixture, /eval agent may take several.
EvalStarts(models, fixtures) ==
    /\ evRun = NoEval /\ evSaved' = NoEval
    /\ evRun' = [pairs |-> Pairs(models, fixtures), results |-> <<>>]

Running == evRun # NoEval /\ Len(evRun.results) < Len(evRun.pairs)
Pair == evRun.pairs[Len(evRun.results) + 1]

\* A run that ended in an error has no checks, and did not pass.
Judged(ended, fixture, tree, head, did) == ended /\ AllHold(fixture, tree, head, did)

\* run_agent_eval, in a temporary workspace with a conversation of its own.
EvalRun(tree, head, did, ended) ==
    /\ Running /\ Pair.model \notin Refused
    /\ evRun' = [evRun EXCEPT !.results = Append(@,
         [pair |-> Pair, passed |-> Judged(ended, Pair.fixture, tree, head, did),
          earned |-> ended /\ \A c \in Checks[Pair.fixture] : Holds(c, tree, head, did)])]
    /\ UNCHANGED evSaved

LoseRest == UNCHANGED evSaved

\* A provider that is refused, or a workspace that cannot be made, ends the
\* evaluation: the results so far are not written.
EvalBreaks == Running /\ evRun' = NoEval /\ LoseRest

\* save_battle_results and the end of cmd_eval_agent.
EvalSaves ==
    /\ evRun # NoEval /\ ~Running
    /\ evSaved' = evRun /\ evRun' = NoEval

EvNext ==
    \/ \E model, other \in Models, fixture, next \in Fixtures :
          \/ EvalStarts(<<model>>, <<fixture>>)
          \/ model # other /\ fixture # next /\ EvalStarts(<<model, other>>, <<fixture, next>>)
    \/ \E tree \in Trees, head \in Baseline, did \in Deeds, ended \in BOOLEAN :
          EvalRun(tree, head, did, ended)
    \/ EvalBreaks \/ EvalSaves

PlaySpec  == PgInit /\ EvInit /\ [][PgNext /\ UNCHANGED evVars]_<<pgVars, evVars>>
EvalsSpec == PgInit /\ EvInit /\ [][EvNext /\ UNCHANGED pgVars]_<<pgVars, evVars>>

-----------------------------------------------------------------------------
(* Properties. *)

\* Quickstart.md: /play exit, "then try the same loop on your real project".
\* However a play session ends and whatever was set in it, outside one the
\* settings are those the user chose outside one, and never a sandbox's.
SettingsBack ==
    pgPlay = NoPlay => pgConfig = pgOwn.config /\ pgCheckpoints = pgOwn.checkpoints /\ pgConfig.root = Own

\* README.md: /play lets the user "try a real agent loop without touching your
\* repo".  While a play session is on, prompts, /undo and the agent leave the
\* user's own workspace as it is.
RepoUntouched ==
    [][pgPlay # NoPlay /\ pgEdits' = pgEdits => pgTree'[Own] = pgTree[Own]]_pgVars

\* README.md: /play runs "in an isolated sandbox so you can try a real agent
\* loop without touching your repo".  What /undo writes to the user's own
\* workspace was taken from there, and not from a sandbox.
UndoStaysHome ==
    [][PgUndo /\ pgTree'[Own] # pgTree[Own] => pgStack[Len(pgStack)].world = Own]_pgVars

\* A model is called better than another on what its own run did: a result that
\* passed is of a run that ended and kept all the checks of its fixture.
PassIsEarned ==
    \A run \in {evRun, evSaved} :
       \A i \in 1..Len(run.results) : run.results[i].passed => run.results[i].earned

\* A play session that is said to be complete was completed by its own turn, and
\* not by what an earlier answer in the session said.
PlayIsEarned == pgScore.passed => pgScore.earned

\* Models are compared on the same fixtures: a file of results has one for
\* every model and fixture asked for, model by model, or is not written.
SavedIsWhole == [i \in 1..Len(evSaved.results) |-> evSaved.results[i].pair] = evSaved.pairs

StaysTrue == [][SettingsBack' /\ PassIsEarned' /\ SavedIsWhole']_<<pgVars, evVars>>

\* Play sessions and evaluations leave the project and its session as they were, and say what
\* came of them.
PlaySound == SettingsBack /\ PassIsEarned /\ SavedIsWhole /\ StaysTrue /\ RepoUntouched

=============================================================================
