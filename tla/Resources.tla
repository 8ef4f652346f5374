----------------------------- MODULE Resources -----------------------------
(***************************************************************************)
(* What a session can be extended with: skills and what packages bring     *)
(* (src/src/skills.rs, packages.rs, config.rs), saved and built-in prompts *)
(* (prompt_library.rs, commands/workflow.rs), extension processes          *)
(* (extensions.rs, commands/extensions_cmds.rs) and the hooks of the       *)
(* configuration file (config.rs, hooks/).  Skills are read once, at the   *)
(* launch, from five roots; their files are read again when they are       *)
(* activated.                                                              *)
(***************************************************************************)
EXTENDS Naturals, Sequences, SequencesExt, FiniteSets, FiniteSetsExt, Functions, TLC

CONSTANTS
    SkillFiles,     \* the places of SKILL.md files: root, pkg, dir and path, the order of the path
    PromptNames,    \* names that can be typed
    OddNames,       \* names of files made by hand that cannot
    Templates,      \* built-in prompts: sequences of holes and literals
    HoleNames,      \* the variables of the built-in prompts
    Manifests,      \* what each configured extension offers; its name is a sequence of segments
    BuiltInCommands,
    HookGroups,     \* what a group of the hooks may look like
    Never           \* no value

ASSUME ResourcesAssumption == PromptNames \cap OddNames = {}

(* ------------------------------- skills -------------------------------- *)

VARIABLES
    rsWorld,    \* what each place holds, whether the workspace is the home directory, and at
                \* which stage the first package's discovery fails
    rsSkills,   \* the registry; Never before the launch
    rsUsed      \* the last activation: name, whether the user was asked, and what came of it

skillVars == <<rsWorld, rsSkills, rsUsed>>

PriorityOf(f) == CASE f.root = "home" -> 10 [] f.root = "packaged" -> 30
                   [] f.root = "agents" -> 40 [] f.root = "albatross" -> 50

\* canonicalize: in the home directory the project's root is the user's.
RealPlace(w, f) ==
    IF w.atHome /\ f.root = "agents"
    THEN CHOOSE g \in SkillFiles : g.root = "home" /\ g.dir = f.dir ELSE f

ContentOf(w, f) == w.content[RealPlace(w, f)]
OfProject(f) == f.root \in {"agents", "albatross"}

\* discover_package: extensions, skills, prompts and themes in this order; what came before a
\* failure stays.
Stages == <<"exts", "skills", "prompts", "themes">>
Reaches(w, pkg, stage) ==
    \/ pkg # 1 \/ w.stops = Never
    \/ SelectInSeq(Stages, LAMBDA s : s = stage) < SelectInSeq(Stages, LAMBDA s : s = w.stops)

\* insert_text_resource: packages have an order, and the last of a name is kept.  The names
\* of the packages are alike once they are slugs.
PackagedSkills(w) ==
    {f \in SkillFiles :
        /\ f.root = "packaged" /\ ContentOf(w, f) # "absent" /\ Reaches(w, f.pkg, "skills")
        /\ \A g \in SkillFiles :
             g.root = "packaged" /\ g.dir = f.dir /\ ContentOf(w, g) # "absent"
                /\ Reaches(w, g.pkg, "skills") => g.pkg <= f.pkg}

Found(w) == {f \in SkillFiles : f.root # "packaged" /\ ContentOf(w, f) # "absent"} \cup PackagedSkills(w)

Before(f, g) ==
    \/ PriorityOf(f) < PriorityOf(g)
    \/ PriorityOf(f) = PriorityOf(g) /\ f.path < g.path

NoSkills == [seen |-> {}, skills |-> <<>>, aliases |-> <<>>, told |-> {}]

\* Mutant: the first skill of a name is kept.
FirstKept(r, f) == r.skills @@ (f.dir :> f)

LastKept(r, f) == (f.dir :> f) @@ r.skills

Shadowed(r, f) == IF f.dir \in DOMAIN r.skills THEN {r.skills[f.dir]} ELSE {}

\* One candidate of from_candidates.
TakeSkill(w, r, f) ==
    LET place == RealPlace(w, f) IN
    IF place \in r.seen THEN r
    ELSE IF ContentOf(w, f) = "broken" THEN [r EXCEPT !.seen = @ \cup {place}, !.told = @ \cup {f}]
    ELSE [seen |-> r.seen \cup {place}, skills |-> LastKept(r, f),
          aliases |-> IF f.root = "packaged" THEN (f.dir :> f) @@ r.aliases ELSE r.aliases,
          told |-> r.told \cup Shadowed(r, f)]

Registry(w) == FoldLeft(LAMBDA r, f : TakeSkill(w, r, f), NoSkills, SetToSortSeq(Found(w), Before))

SkillsInit ==
    /\ rsWorld \in [content : {c \in [SkillFiles -> {"absent", "good", "broken"}] :
                                 \A f \in SkillFiles : c[f] = "broken" => f.path = 1},
                    atHome : BOOLEAN, stops : {Never, "exts", "prompts"}, spoiled : {FALSE}]
    /\ rsSkills = Never /\ rsUsed = Never

LaunchSkills ==
    /\ rsSkills = Never /\ rsSkills' = Registry(rsWorld)
    /\ UNCHANGED <<rsWorld, rsUsed>>

\* Somebody removes or spoils the file of one skill after the launch.
SpoilSkill(f) ==
    /\ rsSkills # Never /\ rsWorld.content[f] = "good" /\ ~ rsWorld.spoiled
    /\ \E c \in {"absent", "broken"} : rsWorld' = [rsWorld EXCEPT !.content[f] = c, !.spoiled = TRUE]
    /\ UNCHANGED <<rsSkills, rsUsed>>

\* get: a name, or package:name.
SkillNamed(r, name) ==
    CASE name.alias = FALSE /\ name.dir \in DOMAIN r.skills -> r.skills[name.dir]
      [] name.alias = TRUE /\ name.dir \in DOMAIN r.aliases -> r.aliases[name.dir]
      [] OTHER -> Never

\* ActivateSkillTool::require_approval.
SkillAsks(r, name) ==
    LET f == SkillNamed(r, name) IN f # Never /\ OfProject(f)

\* activate_skill needs no valid header, only one that ends.
ActivateSkill(name, by) ==
    /\ rsSkills # Never
    /\ LET f == SkillNamed(rsSkills, name) IN
       rsUsed' = [asked |-> by = "model" /\ SkillAsks(rsSkills, name), by |-> by, skill |-> f,
                  ended |-> f # Never /\ ContentOf(rsWorld, f) = "good"]
    /\ UNCHANGED <<rsWorld, rsSkills>>

SkillsNext ==
    \/ LaunchSkills
    \/ \E f \in SkillFiles : SpoilSkill(f)
    \/ \E d \in {f.dir : f \in SkillFiles}, a \in BOOLEAN, by \in {"model", "user"} :
         ActivateSkill([alias |-> a, dir |-> d], by)

\* A skill file that is there at the launch can be activated by a name, is named in what the
\* user is told, or is the same file as one that is; except a package's that another package
\* of the same slug replaces, and those of a package whose discovery failed, which is told.
NothingUnsaid ==
    rsSkills # Never /\ ~ rsWorld.spoiled =>
       \A f \in Found(rsWorld) :
          \E g \in Range(rsSkills.skills) \cup Range(rsSkills.aliases) \cup rsSkills.told :
             RealPlace(rsWorld, g) = RealPlace(rsWorld, f)

\* Among the valid files of a name the one of the highest root is used, where a file that two
\* roots share counts for the lower one.
HighestWins ==
    rsSkills # Never /\ ~ rsWorld.spoiled =>
       LET rank(f) == Min({PriorityOf(g) : g \in {h \in SkillFiles : RealPlace(rsWorld, h) = RealPlace(rsWorld, f)}})
       IN  \A d \in DOMAIN rsSkills.skills :
             \A f \in SkillFiles :
                f \in Found(rsWorld) /\ f.dir = d /\ ContentOf(rsWorld, f) = "good"
                   => rank(f) <= rank(rsSkills.skills[d])

\* The model gets the instructions of a file in the project only when the user was asked;
\* in the home directory the project's .agents/skills are the user's own.
ProjectAsks ==
    rsUsed # Never /\ rsUsed.by = "model" /\ rsUsed.ended =>
       (rsUsed.asked <=> OfProject(rsUsed.skill) /\ RealPlace(rsWorld, rsUsed.skill) = rsUsed.skill)

(* ------------------------------- prompts ------------------------------- *)

VARIABLES
    rpStore,    \* the files of the prompt directory: name to words
    rpFile,     \* the exported file: who wrote it and what it holds; Never: none
    rpLast,     \* what the last command said
    rpSent      \* what the last command sent, with the values it was given; Never: nothing

promptVars == <<rpStore, rpFile, rpLast, rpSent>>

Typed == <<"text">>
LastPrompt == <<"earlier">>
TemplateText == <<"template">>

PromptsInit ==
    /\ rpStore \in {<<>>} \cup {n :> Typed : n \in OddNames}
    /\ rpFile \in {Never} \cup {[by |-> "hand", holds |-> (n :> Typed) @@ (m :> Typed)] : n \in PromptNames, m \in OddNames}
    /\ rpLast = "none" /\ rpSent = Never

\* cmd_prompt "save": the words after the second single space, so that a doubled space puts
\* the name in front of the text; without words the last user prompt.
SavedText(name, text, doubled, earlier) ==
    IF doubled THEN <<name>> \o text
    ELSE IF text # <<>> THEN text ELSE earlier

SavePromptCommand(name, text, doubled, earlier) ==
    LET words == SavedText(name, text, doubled, earlier) IN
    /\ rpStore' = IF words = <<>> THEN rpStore ELSE (name :> words) @@ rpStore
    /\ rpLast' = IF words = <<>> THEN "nothing" ELSE "saved"
    /\ rpSent' = Never /\ UNCHANGED rpFile

TemplateCommand(name) ==
    /\ rpStore' = (name :> TemplateText) @@ rpStore /\ rpLast' = "saved"
    /\ rpSent' = Never /\ UNCHANGED rpFile

DeletePrompt(name) ==
    /\ rpLast' = IF name \in DOMAIN rpStore THEN "deleted" ELSE "failed"
    /\ rpStore' = [n \in DOMAIN rpStore \ {name} |-> rpStore[n]]
    /\ rpSent' = Never /\ UNCHANGED rpFile

\* load_prompt, which the names that list_prompts finds have to pass as well.
Loadable(name) == name \in PromptNames

\* export_prompts; a directory appears with the first prompt and stays.
ExportPrompts ==
    /\ IF \A n \in DOMAIN rpStore : Loadable(n)
       THEN rpFile' = [by |-> "export", holds |-> rpStore] /\ rpLast' = "exported"
       ELSE rpFile' = rpFile /\ rpLast' = "failed"
    /\ rpSent' = Never /\ UNCHANGED rpStore

\* import_prompts: in any order, up to a name it refuses.
ImportPrompts ==
    /\ rpFile # Never
    /\ LET valid == DOMAIN rpFile.holds \cap PromptNames
           all == valid = DOMAIN rpFile.holds
       IN  \E done \in (IF all THEN {valid} ELSE SUBSET valid) :
              /\ rpStore' = Restrict(rpFile.holds, done) @@ rpStore
              /\ rpLast' = IF all THEN "imported" ELSE "import failed"
    /\ rpSent' = Never /\ UNCHANGED rpFile

\* load_prompt; the values typed after the name are not looked at.
RunSaved(name) ==
    /\ rpLast' = IF name \in DOMAIN rpStore THEN "sent" ELSE "failed"
    /\ rpSent' = IF name \in DOMAIN rpStore THEN [text |-> rpStore[name], given |-> <<>>] ELSE Never
    /\ UNCHANGED <<rpStore, rpFile>>

Hole(v) == [hole |-> v]
Literal(w) == [word |-> w]
IsHole(t, v) == "hole" \in DOMAIN t /\ t.hole = v
Replaced(text, v, value) == [i \in DOMAIN text |-> IF IsHole(text[i], v) THEN value ELSE text[i]]

\* PromptLibrary::render, in an order of the map's.
Rendered(template, given, order) ==
    FoldLeft(LAMBDA text, v : Replaced(text, v, given[v]), template, order)

Missing(template, given) ==
    \A v \in HoleNames : (\E i \in DOMAIN template : IsHole(template[i], v)) => v \in DOMAIN given

RunBuiltIn(template, given, order) ==
    /\ rpSent' = IF Missing(template, given)
                 THEN [text |-> Rendered(template, given, order), given |-> given] ELSE Never
    /\ rpLast' = IF Missing(template, given) THEN "sent" ELSE "missing"
    /\ UNCHANGED <<rpStore, rpFile>>

HoleValues == {Literal("value")} \cup {Hole(v) : v \in HoleNames}

PromptsNext ==
    \/ \E n \in PromptNames, t \in {<<>>, Typed}, d \in BOOLEAN, e \in {<<>>, LastPrompt} : SavePromptCommand(n, t, d, e)
    \/ \E n \in PromptNames : TemplateCommand(n) \/ DeletePrompt(n) \/ RunSaved(n)
    \/ ExportPrompts
    \/ ImportPrompts
    \/ \E t \in Templates, names \in SUBSET HoleNames : \E given \in [names -> HoleValues] :
         \E order \in SetToSeqs(names) : RunBuiltIn(t, given, order)

\* What an export has written can be imported whole; a file made by hand need not.
ExportReadsBack == rpLast = "import failed" => rpFile.by = "hand"

\* A built-in prompt is sent with every hole filled, unless a value is a hole itself.
NoHoles ==
    rpSent # Never /\ Range(rpSent.given) \subseteq {Literal("value")} /\ rpSent.given # <<>> =>
       \A i \in DOMAIN rpSent.text : \A v \in HoleNames : ~ IsHole(rpSent.text[i], v)

\* Not of the code: what is saved is what was typed.
SavedAsTyped == \A n \in DOMAIN rpStore : rpStore[n] \in {Typed, LastPrompt, TemplateText}

\* Not of the code: a value is put in as it is given, whatever the map's order.
ValuesAreLiteral ==
    rpSent # Never /\ rpSent.given # <<>> =>
       \E t \in Templates : rpSent.text =
          [i \in DOMAIN t |-> IF "hole" \in DOMAIN t[i] THEN rpSent.given[t[i].hole] ELSE t[i]]

(* ------------------------------ extensions ----------------------------- *)

VARIABLES
    reTools,    \* the tools of the session: full name and owner
    reCommands, \* the commands of extensions: name to owner
    reLoaded,   \* the processes, in the order they were started
    reTrusted   \* the trusted configurations

extensionVars == <<reTools, reCommands, reLoaded, reTrusted>>

\* ext__<configuration>__<tool>, where the two underscores may also be inside a name.
FullName(c, tool) == <<"ext">> \o c \o tool

NoExtensions == [tools |-> {}, commands |-> <<>>, loaded |-> <<>>]

\* spawn_configured, for one process that answers.
AddExtension(r, c, reserved) ==
    LET m == Manifests[c]
        taken == reserved \cup DOMAIN r.commands
        new == {k \in m.commands : k \notin taken}
        named == {t.full : t \in r.tools}
        fresh == {[full |-> FullName(c, t), owner |-> c] : t \in m.tools}
    IN  [tools |-> r.tools \cup {t \in fresh : t.full \notin named},
         commands |-> [k \in new |-> c] @@ r.commands,
         loaded |-> Append(r.loaded, c)]

Spawned(order, answering, reserved) ==
    FoldLeft(LAMBDA r, c : IF c \in answering THEN AddExtension(r, c, reserved) ELSE r, NoExtensions, order)

\* absorb, of tools.
AbsorbedTools(tools, other) == tools \cup {t \in other : \A u \in tools : u.full # t.full}

\* The names that a new command may not have, in a session with these commands.
Reserved(commands) == BuiltInCommands \cup DOMAIN commands

ExtensionsInit ==
    /\ reTrusted \in SUBSET DOMAIN Manifests
    /\ reTools = {} /\ reCommands = <<>> /\ reLoaded = Never

\* BTreeMap order of the configurations, here by their length.
InOrder(names) == SetToSortSeq(names, LAMBDA a, b : Len(a) < Len(b))

Join(r) ==
    /\ reTools' = AbsorbedTools(reTools, r.tools)
    /\ reCommands' = reCommands @@ r.commands
    /\ reLoaded' = (IF reLoaded = Never THEN <<>> ELSE reLoaded) \o r.loaded

\* The launch starts what is trusted; a process may not answer.
LaunchExtensions ==
    /\ reLoaded = Never
    /\ \E answering \in SUBSET reTrusted : Join(Spawned(InOrder(reTrusted), answering, Reserved(reCommands)))
    /\ UNCHANGED reTrusted

ToStart(names) == names \ Range(reLoaded)

\* trust_and_start: each name is trusted in its turn; when the trust file cannot be written
\* nothing is started, and the names before stay trusted.
TrustAndStart(names) ==
    /\ reLoaded # Never /\ names # {}
    /\ \/ /\ reTrusted' = reTrusted \cup names
          /\ \E answering \in SUBSET ToStart(names) :
               Join(Spawned(InOrder(ToStart(names)), answering, Reserved(reCommands)))
       \/ \E k \in 0 .. Cardinality(names) - 1 :
            /\ reTrusted' = reTrusted \cup Range(SubSeq(InOrder(names), 1, k))
            /\ UNCHANGED <<reTools, reCommands, reLoaded>>

ExtensionsNext ==
    \/ LaunchExtensions
    \/ \E names \in {{c} : c \in DOMAIN Manifests} \cup {DOMAIN Manifests} : TrustAndStart(names)

\* No two tools that the model is offered have the same name, whatever the names of the
\* configurations and the tools, and whenever they were started.
ToolsApart == \A t, u \in reTools : t.full = u.full => t = u

\* An extension takes no command of the program, and every command belongs to a process.
CommandsOwned ==
    /\ DOMAIN reCommands \cap BuiltInCommands = {}
    /\ \A k \in DOMAIN reCommands : k \in Manifests[reCommands[k]].commands /\ reCommands[k] \in Range(reLoaded)

\* A configuration has one process at most.
OneProcess == reLoaded # Never => IsInjective(reLoaded)

(* --------------------------- hooks of the file ------------------------- *)

VARIABLES
    rhFile,     \* the "hooks" of agent.config.json: groups of an event, or another value
    rhRead      \* what the launch made of them: hooks with their positions, and what it warned of

hookFileVars == <<rhFile, rhRead>>

Handlers == {"one", "two"}
Silent == {"prompt", "async"}

GroupParses(g) == g.kind = "group" /\ g.matcher # "number"

\* parse_hook_group: a handler that does not parse is left out, with a warning.
ParsedGroup(g) ==
    IF GroupParses(g)
    THEN [kept |-> TRUE, matcher |-> g.matcher,
          hooks |-> SelectSeq(g.hooks, LAMBDA h : h # "bad"),
          warned |-> Len(SelectSeq(g.hooks, LAMBDA h : h = "bad"))]
    ELSE [kept |-> FALSE, warned |-> 1]

\* parse_hook_groups
KeptGroups(file) == SelectSeq([i \in DOMAIN file |-> ParsedGroup(file[i])], LAMBDA g : g.kept)

\* discover_hooks: the position is the key of the trust that was given; a prompt, an agent or
\* an asynchronous handler is passed over.
Discovered(groups) ==
    {[key |-> <<i, j>>, hook |-> groups[i].hooks[j], valid |-> groups[i].matcher # "regex"] :
        <<i, j>> \in {p \in (DOMAIN groups) \X (1 .. 2) :
                        p[2] \in DOMAIN groups[p[1]].hooks /\ groups[p[1]].hooks[p[2]] \notin Silent}}

HookFileInit ==
    /\ rhFile \in {[event |-> e, groups |-> <<g, h>>] : e \in {"known", "state"}, g \in HookGroups, h \in HookGroups}
    /\ rhRead = Never

ReadHooks ==
    /\ rhRead = Never
    /\ rhRead' = IF rhFile.event = "known"
                 THEN [hooks |-> Discovered(KeptGroups(rhFile.groups)),
                       warned |-> ParsedGroup(rhFile.groups[1]).warned + ParsedGroup(rhFile.groups[2]).warned]
                 ELSE [hooks |-> {}, warned |-> 1]
    /\ UNCHANGED rhFile

Count(g, hs) == IF g.kind = "group" THEN Len(SelectSeq(g.hooks, LAMBDA h : h \in hs)) ELSE 0

\* One entry that does not parse takes no other with it: every well-formed command of a
\* well-formed group becomes a hook of its own.
OneBadEntry ==
    rhRead # Never /\ rhFile.event = "known" =>
       LET ok == {i \in 1 .. 2 : rhFile.groups[i].kind = "group" /\ rhFile.groups[i].matcher # "number"} IN
       Cardinality(rhRead.hooks) =
          (IF 1 \in ok THEN Count(rhFile.groups[1], Handlers) ELSE 0)
            + (IF 2 \in ok THEN Count(rhFile.groups[2], Handlers) ELSE 0)

\* Skills, prompts, extensions and hook files, from several places of several owners.
ResourcesSound ==
    /\ NothingUnsaid /\ HighestWins /\ ProjectAsks /\ ExportReadsBack /\ NoHoles /\ ToolsApart
    /\ CommandsOwned /\ OneProcess /\ OneBadEntry

\* Not of the code: a hook keeps its key, and so the user's trust or refusal, when an entry
\* before it does not parse.
KeysStay ==
    rhRead # Never /\ rhFile.event = "known" =>
       \A h \in rhRead.hooks :
          LET g == rhFile.groups[h.key[1]] IN
          g.kind = "group" /\ h.key[2] \in DOMAIN g.hooks /\ g.hooks[h.key[2]] = h.hook

=============================================================================
