------------------------------ MODULE MCMemory ------------------------------
(* What a session keeps and begins with, each part by itself, for TLC: the *)
(* conversation, the project's memory, its configuration, a host's session, *)
(* what is staged for a turn, the prompt, what a turn shows, what is sent,  *)
(* play sessions and evaluations, and what extends a session.  A behaviour is that of one part, and *)
(* the others stay as they began.                                          *)
EXTENDS Conversation, ProjectMemory, ConfigLayers, SdkSession, JevTurn, LineEditor, AnswerView,
        Requests, Playground, Resources, TLC

VARIABLE part

avVars == <<mdVars, wrVars, tuVars>>

inputVars == <<leVars, lmVars>>

playVars == <<pgVars, evVars>>

rsVars == <<skillVars, promptVars, extensionVars, hookFileVars>>

memoryVars == <<part, cvVars, pmVars, cfVars, sdVars, jtVars, inputVars, avVars, rqVars, playVars, rsVars>>

Begun(p) == part = p /\ UNCHANGED part

MemoryInit ==
    /\ part \in {"conversation", "index", "notes", "modes", "config", "sdk", "staged", "prompt",
              "markdown", "lines", "panels",
              "requests", "play", "evals", "skills", "prompts", "extensions", "hooks", "list"}
    /\ PgInit /\ EvInit
    /\ CvInit /\ NotesInit /\ ListInit /\ (part # "list" => lmOptions = 1) /\ SdInit /\ LeInit /\ MdInit /\ WrInit
    /\ TuInit /\ (part # "panels" => tuDisplay = "grouped")
    /\ RqInit /\ (part # "requests" => rqBackend = "codex")
    /\ IndexInit /\ (part # "index" => \A f \in PmNames : pmFiles[f] = Gone)
    /\ JtInit /\ (part # "staged" => jtMode = "off")
    /\ SkillsInit /\ (part # "skills" => rsWorld.atHome /\ rsWorld.stops = Never
                                          /\ \A f \in SkillFiles : rsWorld.content[f] = "absent")
    /\ PromptsInit /\ (part # "prompts" => rpStore = <<>> /\ rpFile = Never)
    /\ ExtensionsInit /\ (part # "extensions" => reTrusted = {})
    /\ HookFileInit /\ (part # "hooks" => \A i \in 1 .. 2 : rhFile.event = "state" /\ rhFile.groups[i].kind = "value")
    /\ CfInit /\ (part # "modes" => cfFile = Unset /\ cfEnv.mode = Unset /\ cfEnv.policy = Unset)

MemoryNext ==
    \/ Begun("conversation") /\ CvNext /\ UNCHANGED <<pmVars, cfVars, sdVars, jtVars, inputVars, avVars, rqVars, playVars, rsVars>>
    \/ Begun("index") /\ IndexNext /\ UNCHANGED <<cvVars, cfVars, sdVars, jtVars, inputVars, avVars, rqVars, playVars, rsVars>>
    \/ Begun("notes") /\ NotesNext /\ UNCHANGED <<cvVars, cfVars, sdVars, jtVars, inputVars, avVars, rqVars, playVars, rsVars>>
    \/ Begun("modes") /\ LaunchesAndModes /\ UNCHANGED <<cvVars, pmVars, sdVars, jtVars, inputVars, avVars, rqVars, playVars, rsVars>>
    \/ Begun("config") /\ LaunchesAndSaves /\ UNCHANGED <<cvVars, pmVars, sdVars, jtVars, inputVars, avVars, rqVars, playVars, rsVars>>
    \/ Begun("sdk") /\ SdNext /\ UNCHANGED <<cvVars, pmVars, cfVars, jtVars, inputVars, avVars, rqVars, playVars, rsVars>>
    \/ Begun("staged") /\ JtNext /\ UNCHANGED <<cvVars, pmVars, cfVars, sdVars, inputVars, avVars, rqVars, playVars, rsVars>>
    \/ Begun("prompt") /\ LeNext /\ UNCHANGED <<lmVars, cvVars, pmVars, cfVars, sdVars, jtVars, avVars, rqVars, playVars, rsVars>>
    \/ Begun("markdown") /\ MdNext /\ UNCHANGED <<cvVars, pmVars, cfVars, sdVars, jtVars, inputVars, wrVars, tuVars, rqVars, playVars, rsVars>>
    \/ Begun("lines") /\ WrNext /\ UNCHANGED <<cvVars, pmVars, cfVars, sdVars, jtVars, inputVars, mdVars, tuVars, rqVars, playVars, rsVars>>
    \/ Begun("panels") /\ TuNext /\ UNCHANGED <<cvVars, pmVars, cfVars, sdVars, jtVars, inputVars, mdVars, wrVars, rqVars, playVars, rsVars>>
    \/ Begun("requests") /\ RqNext /\ UNCHANGED <<cvVars, pmVars, cfVars, sdVars, jtVars, inputVars, avVars, playVars, rsVars>>
    \/ Begun("play") /\ PgNext /\ UNCHANGED <<cvVars, pmVars, cfVars, sdVars, jtVars, inputVars, avVars, rqVars, evVars, rsVars>>
    \/ Begun("evals") /\ EvNext /\ UNCHANGED <<cvVars, pmVars, cfVars, sdVars, jtVars, inputVars, avVars, rqVars, pgVars, rsVars>>
    \/ Begun("skills") /\ SkillsNext /\ UNCHANGED <<cvVars, pmVars, cfVars, sdVars, jtVars, inputVars, avVars, rqVars, playVars, promptVars, extensionVars, hookFileVars>>
    \/ Begun("prompts") /\ PromptsNext /\ UNCHANGED <<cvVars, pmVars, cfVars, sdVars, jtVars, inputVars, avVars, rqVars, playVars, skillVars, extensionVars, hookFileVars>>
    \/ Begun("extensions") /\ ExtensionsNext /\ UNCHANGED <<cvVars, pmVars, cfVars, sdVars, jtVars, inputVars, avVars, rqVars, playVars, skillVars, promptVars, hookFileVars>>
    \/ Begun("hooks") /\ ReadHooks /\ UNCHANGED <<cvVars, pmVars, cfVars, sdVars, jtVars, inputVars, avVars, rqVars, playVars, skillVars, promptVars, extensionVars>>
    \/ Begun("list") /\ ListNext /\ UNCHANGED <<cvVars, pmVars, cfVars, sdVars, jtVars, leVars, avVars, rqVars, playVars, rsVars>>

MemorySpec == MemoryInit /\ [][MemoryNext]_memoryVars

TextsOfTree == {[id |-> 1, size |-> 1, binary |-> FALSE], [id |-> 2, size |-> 1, binary |-> FALSE],
                [id |-> 3, size |-> 2, binary |-> TRUE], [id |-> 4, size |-> 9, binary |-> FALSE]}
Commands == <<<<"/", "a">>, <<"/", "a", "a">>>>
PiecesOf == {<<"tick">>, <<"tick", "tick">>, <<"tick", "tick", "tick", "nl">>, <<"star">>, <<"hash", " ">>,
             <<"under">>, <<"a">>, <<" ">>, <<"nl">>, <<"dash">>}

SkillPlaces == {[root |-> "home", pkg |-> 0, dir |-> "s", path |-> 2],
                [root |-> "agents", pkg |-> 0, dir |-> "s", path |-> 1],
                [root |-> "albatross", pkg |-> 0, dir |-> "s", path |-> 2],
                [root |-> "packaged", pkg |-> 1, dir |-> "s", path |-> 1],
                [root |-> "packaged", pkg |-> 2, dir |-> "s", path |-> 2],
                [root |-> "packaged", pkg |-> 2, dir |-> "t", path |-> 3]}
TemplatesOf == {<<Literal("review"), Hole("x"), Hole("y")>>, <<Hole("x"), Literal("as")>>}
Offers == (<<"a">> :> [tools |-> {<<"b", "c">>}, commands |-> {"/help", "/go"}])
          @@ (<<"a", "b">> :> [tools |-> {<<"c">>}, commands |-> {"/go", "/do"}])
GroupsOf == {[kind |-> "value"]}
            \cup {[kind |-> "group", matcher |-> m, hooks |-> <<h>>] : m \in {"number", "regex"}, h \in {"one", "bad"}}
            \cup {[kind |-> "group", matcher |-> "any", hooks |-> <<g, h>>] :
                     g \in {"one", "bad", "prompt"}, h \in {"two", "bad", "async"}}

=============================================================================
