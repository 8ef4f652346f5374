---------------------------- MODULE ConfigLayers ----------------------------
(***************************************************************************)
(* agent.config.json (src/src/config.rs, setup.rs, commands/config_cmds.rs): *)
(* what a launch makes of the built-in settings, the file and the           *)
(* environment, and the commands that write the file: /provider and /model  *)
(* with --default, /theme and /setup.  Each of them loads the file, changes *)
(* its keys and writes all of it, without a lock and in place; the user     *)
(* edits the file as well.  The approval policy stands for the settings     *)
(* that a mode sets.                                                        *)
(***************************************************************************)
EXTENDS Integers, Sequences

CONSTANTS
    CfProcs,        \* processes that run in the directory
    CfBackends,     \* providers; a model is <<provider, number>>
    CfModes,        \* the modes that are used
    CfPolicies,     \* the approval policies that are used
    Unset,          \* a key that is not there
    Broken          \* a file that does not parse

CfModels == CfBackends \X {1}

\* The keys of a file, or the settings of a process.
CfSettings == [mode : CfModes \cup {"edit", Unset}, policy : CfPolicies \cup {"always", "dangerous-only", Unset},
               backend : CfBackends \cup {Unset}, model : CfModels \cup {Unset}]

ASSUME ConfigAssumption ==
    /\ CfBackends # {} /\ Unset \notin CfBackends /\ Unset \notin CfModels /\ Unset # Broken
    /\ Unset \notin CfSettings /\ Broken \notin CfSettings

VARIABLES
    cfFile,     \* the file
    cfEnv,      \* mode and policy in the process environment or .env
    cfLive,     \* the settings of each process; Unset: not running
    cfHeld,     \* what a command has loaded to change; <<>>: nothing
    cfPin       \* history: what the last --default saved; Unset: not valid any more

cfVars == <<cfFile, cfEnv, cfLive, cfHeld, cfPin>>

EmptyFile == [mode |-> Unset, policy |-> Unset, backend |-> Unset, model |-> Unset]
BuiltIn == [mode |-> "edit", policy |-> "always", backend |-> CHOOSE b \in CfBackends : TRUE,
            model |-> Unset]

CfInit ==
    /\ \E m \in CfModes \cup {Unset}, a \in CfPolicies \cup {Unset} :
         cfFile \in {Unset, [EmptyFile EXCEPT !.mode = m, !.policy = a]}
    /\ cfEnv \in [mode : CfModes \cup {Unset}, policy : CfPolicies \cup {Unset}]
    /\ cfLive = [p \in CfProcs |-> Unset] /\ cfHeld = [p \in CfProcs |-> <<>>]
    /\ cfPin = Unset

\* apply_operator_mode, of what a mode sets the policy.
ApplyMode(c, mode) ==
    [c EXCEPT !.mode = mode,
              !.policy = CASE mode = "edit" -> "always"
                           [] mode \in {"explore", "ship", "review"} -> "dangerous-only"
                           [] OTHER -> @]

ApplyIfSet(c, mode) == IF mode = Unset THEN c ELSE ApplyMode(c, mode)
Or(value, otherwise) == IF value = Unset THEN otherwise ELSE value

\* The keys of the file that have a value.
Named(c, f) ==
    [c EXCEPT !.policy = Or(f.policy, @), !.backend = Or(f.backend, @),
              !.model = f.model]

\* load_config: the mode of the file, then what the file names.
FromFile(c, f) == Named(ApplyIfSet(c, f.mode), f)

\* A file that does not parse is ignored, all of it.
Layer(c) == IF cfFile \in {Broken, Unset} THEN c ELSE FromFile(c, cfFile)

\* The environment: the policy, then the mode.
FromEnv(c, e) == ApplyIfSet([c EXCEPT !.policy = Or(e.policy, @)], e.mode)

StartProcess(p) ==
    /\ cfLive[p] = Unset
    /\ cfLive' = [cfLive EXCEPT ![p] = FromEnv(Layer(BuiltIn), cfEnv)]
    /\ UNCHANGED <<cfFile, cfEnv, cfHeld, cfPin>>

EndProcess(p) ==
    /\ cfLive[p] # Unset /\ cfLive' = [cfLive EXCEPT ![p] = Unset]
    /\ cfHeld' = [cfHeld EXCEPT ![p] = <<>>]
    /\ UNCHANGED <<cfFile, cfEnv, cfPin>>

Awaits(p) == cfLive[p] # Unset /\ cfHeld[p] = <<>>

Settles(p, c) ==
    /\ Awaits(p) /\ cfLive' = [cfLive EXCEPT ![p] = c]
    /\ UNCHANGED <<cfFile, cfEnv, cfHeld, cfPin>>

\* cmd_backend, cmd_model, cmd_mode
SwitchBackend(c, b) == [c EXCEPT !.backend = b, !.model = Unset]
ModeCommand(p, mode) == Awaits(p) /\ Settles(p, ApplyMode(cfLive[p], mode))
BackendCommand(p, b) == Awaits(p) /\ Settles(p, SwitchBackend(cfLive[p], b))
ModelCommand(p, m) ==
    /\ Awaits(p) /\ m[1] = cfLive[p].backend /\ Settles(p, [cfLive[p] EXCEPT !.model = m])

\* Mutant: the model in the file is left when none is saved.
MergeKeeping(f, c, what) ==
    [f EXCEPT !.backend = c.backend, !.model = IF what = "model" THEN c.model ELSE @]

\* persist_backend_model_defaults merges two keys, the model as it was resolved;
\* persist_display_theme merges one that is not modelled.
Merge(f, c, what) ==
    CASE what = "theme" -> f
      [] what = "backend" -> [f EXCEPT !.backend = c.backend, !.model = Unset]
      [] what = "model" -> [f EXCEPT !.backend = c.backend, !.model = Or(c.model, <<c.backend, 1>>)]

\* Refuses a file that does not parse; creates one that is missing.
PersistLoads(p, what) ==
    /\ Awaits(p) /\ cfFile # Broken
    /\ cfHeld' = [cfHeld EXCEPT ![p] =
         <<Merge(IF cfFile = Unset THEN EmptyFile ELSE cfFile, cfLive[p], what), what>>]
    /\ UNCHANGED <<cfFile, cfEnv, cfLive, cfPin>>

Pinned(f) == [backend |-> f.backend, model |-> f.model]

\* Whoever else has the file loaded will write over this.
Overlapped(p) == \E q \in CfProcs \ {p} : cfHeld[q] # <<>>

\* A pin holds once no other command has an older file in its hands.
PersistWrites(p) ==
    /\ cfHeld[p] # <<>>
    /\ LET f == cfHeld[p][1]
           what == cfHeld[p][2]
       IN  /\ cfFile' = f
           /\ cfPin' = IF Overlapped(p) THEN Unset
                       ELSE IF what = "theme" THEN cfPin ELSE Pinned(f)
    /\ cfHeld' = [cfHeld EXCEPT ![p] = <<>>]
    /\ UNCHANGED <<cfEnv, cfLive>>

\* A crash in the write leaves half a file.
PersistIsKilled(p) ==
    /\ cfHeld[p] # <<>> /\ cfFile' = Broken /\ cfPin' = Unset
    /\ cfHeld' = [cfHeld EXCEPT ![p] = <<>>]
    /\ cfLive' = [cfLive EXCEPT ![p] = Unset]
    /\ UNCHANGED cfEnv

\* write_agent_config writes the settings of the session: other keys of the
\* file are gone.  (Before a first turn, without a file, the same.)
Setup(p, b, policy) ==
    LET c == [SwitchBackend(cfLive[p], b) EXCEPT !.policy = policy] IN
    /\ Awaits(p)
    /\ cfFile' = [mode |-> c.mode, policy |-> c.policy, backend |-> c.backend, model |-> c.model]
    /\ cfLive' = [cfLive EXCEPT ![p] = c]
    /\ cfPin' = IF Overlapped(p) THEN Unset ELSE Pinned(cfFile')
    /\ UNCHANGED <<cfEnv, cfHeld>>

\* The user removes, breaks or begins the file.
UserEdits ==
    /\ cfFile' \in {Unset, Broken, EmptyFile} \ {cfFile} /\ cfPin' = Unset
    /\ UNCHANGED <<cfEnv, cfLive, cfHeld>>

LaunchesAndModes ==
    \E p \in CfProcs :
        \/ StartProcess(p) \/ EndProcess(p)
        \/ \E mode \in CfModes : ModeCommand(p, mode)
        \/ \E b \in CfBackends, policy \in CfPolicies : Setup(p, b, policy)

LaunchesAndSaves ==
    \/ UserEdits
    \/ \E p \in CfProcs :
        \/ StartProcess(p) \/ EndProcess(p) \/ PersistWrites(p) \/ PersistIsKilled(p)
        \/ \E what \in {"theme", "backend", "model"} : PersistLoads(p, what)
        \/ \E m \in CfModels : ModelCommand(p, m)
        \/ \E b \in CfBackends :
            BackendCommand(p, b) \/ \E policy \in CfPolicies : Setup(p, b, policy)

CfNext == LaunchesAndModes \/ LaunchesAndSaves
CfSpec == CfInit /\ [][CfNext]_cfVars

-----------------------------------------------------------------------------
(* Properties. *)

\* A model is only ever used, or saved, with the provider it was chosen for:
\* whichever commands, launches and overlapping saves came before.
ModelOfBackend ==
    /\ \A p \in CfProcs : cfLive[p] # Unset /\ cfLive[p].model # Unset =>
            cfLive[p].model[1] = cfLive[p].backend
    /\ cfFile \notin {Unset, Broken} /\ cfFile.model # Unset => cfFile.model[1] = cfFile.backend

Launched(p) == cfLive[p] = Unset /\ cfLive'[p] # Unset

\* README.md:308: what --default saved is what the next launch uses, unless the
\* file was broken or removed since or two commands saved at the same time.
PinHolds ==
    [][\A p \in CfProcs : Launched(p) /\ cfPin # Unset => Pinned(cfLive'[p]) = cfPin]_cfVars

\* A policy that the file names is in force after a launch, in whatever mode
\* the file asks for, when the environment says nothing.
PolicyOfFile ==
    [][\A p \in CfProcs :
          /\ Launched(p) /\ cfEnv = [mode |-> Unset, policy |-> Unset]
          /\ cfFile \notin {Unset, Broken} /\ cfFile.policy # Unset
          => cfLive'[p].policy = cfFile.policy]_cfVars

\* The layers of the configuration, and what later changes make of them.
LayersHold == []ModelOfBackend /\ PinHolds /\ PolicyOfFile

\* README.md:1168: "Resolution order (later overrides earlier)", the process
\* environment last: the policy that it names is in force.  Violated when a
\* mode comes from .env.
PolicyOfEnv ==
    [][\A p \in CfProcs :
          Launched(p) /\ cfEnv.policy # Unset => cfLive'[p].policy = cfEnv.policy]_cfVars

=============================================================================
