------------------------------- MODULE Tuning -------------------------------
(***************************************************************************)
(* How a provider and a model are tried out, ranked and chosen: the probes *)
(* and benchmarks of /doctor (commands/doctor.rs) with the cache they are  *)
(* kept in (capabilities.rs), the ranking of /doctor recommend             *)
(* (recommend.rs, hardware.rs) and the wizard of /setup (setup.rs).        *)
(*                                                                         *)
(* A provider answers each request as it likes, so two probes of a model   *)
(* may differ.  Base URLs do not change; records are kept by provider and  *)
(* file name, and equal scores are ordered either way.  Of the wizard what *)
(* concerns provider and model is kept, with the places it can be left at. *)
(***************************************************************************)
EXTENDS Integers, Sequences, SequencesExt, FiniteSets, FiniteSetsExt

CONSTANTS
    Locals,       \* providers on this machine
    Clouds,       \* providers elsewhere
    Keyed,        \* the clouds there is a key for
    Models,       \* names of models
    Params,       \* parameters of a model's name, in tenths of a billion; 0: it names none
    Bits,         \* bits of its quantisation; 0: it names none
    FileName,     \* sanitize_component of a model's name
    UsualModel,   \* the default model of a provider
    Sizes,        \* pairs of parameters and quantisation that are ranked
    Finds,        \* what a probe may find
    Speeds,       \* what a benchmark may measure: [tps, first]
    MemorySizes,  \* gigabytes a machine may have; 0: not to be found out
    MaxCommands,  \* bound on commands
    MaxKills      \* bound on kills

Providers == Locals \cup Clouds
Tried == Providers \X Models
NoSpeed == [tps |-> 0, first |-> 0]

ASSUME TuningAssumption ==
    /\ Locals \cap Clouds = {} /\ Keyed \subseteq Clouds
    /\ MaxCommands \in Nat /\ MaxKills \in Nat /\ NoSpeed \notin Speeds
    /\ \A p \in Providers : UsualModel[p] \in Models

VARIABLES
    tuCache,    \* the records of the cache, by provider and file name
    tuSession,  \* the provider and the model in use
    tuConfig,   \* the provider and the model override of the configuration
    tuFile,     \* the same in the configuration file
    tuMemory,   \* the gigabytes found out
    tuWork,     \* the command under way
    tuSeen,     \* history: what the last try of a model showed
    tuTimed,    \* history: its last benchmark
    tuChosen,   \* history: the last choice made
    tuCount,    \* commands and kills so far
    tuCase      \* a candidate to rank

tuned == <<tuCache, tuSession, tuConfig, tuFile, tuMemory, tuWork, tuSeen, tuTimed, tuChosen, tuCount>>
tuVars == <<tuned, tuCase>>

NoEntry == [model |-> "none", models |-> FALSE, streaming |-> FALSE, usage |-> FALSE,
            tools |-> "none", warned |-> FALSE, speed |-> NoSpeed]
NoWork == [cmd |-> "none", todo |-> <<>>, rows |-> <<>>, apply |-> FALSE, cloud |-> FALSE, all |-> FALSE,
           pick |-> "none", override |-> "none", before |-> "none", enter |-> FALSE, listed |-> FALSE]
NoChoice == [by |-> "none", provider |-> "none", model |-> "none", asked |-> FALSE, streams |-> "unknown",
             before |-> "none", same |-> FALSE, enter |-> FALSE, listed |-> FALSE]

NoRank == [provider |-> "none"]

Usable(p) == p \in Locals \cup Keyed
ModelOf(p, override) == IF override = "none" THEN UsualModel[p] ELSE override
CachePlaces == Providers \X {FileName[m] : m \in Models}
RecordOf(p, m) == tuCache[<<p, FileName[m]>>]
Entries == {place \in CachePlaces : tuCache[place] # NoEntry}

-----------------------------------------------------------------------------
(* Scores. *)

\* record_score.
PointsOfSpeed(s) ==
    IF s = NoSpeed THEN 0
    ELSE Min({s.tps, 250}) + (IF s.first = 0 THEN -10 ELSE IF s.first <= 1500 THEN 90
                              ELSE IF s.first <= 4000 THEN 45 ELSE IF s.first >= 10000 THEN -45 ELSE 0)

RecordScore(e, local) ==
    IF ~e.models /\ ~e.streaming THEN -1000
    ELSE (IF e.models THEN 80 ELSE 0) + (IF e.streaming THEN 320 ELSE 0) + (IF e.usage THEN 30 ELSE 0)
         + (IF e.tools = "native" THEN 260 ELSE IF e.tools = "inline" THEN 150 ELSE 0)
         + (IF e.warned THEN -80 ELSE 30) + (IF local THEN 40 ELSE 0) + PointsOfSpeed(e.speed)

\* classify_memory.
Tier(gb) == IF gb = 0 THEN "unknown" ELSE IF gb < 12 THEN "tiny" ELSE IF gb < 24 THEN "small"
            ELSE IF gb < 48 THEN "medium" ELSE "large"

\* tier_model_score, in tenths of a billion parameters.
TierScore(tier, params) ==
    IF params = 0 THEN 0
    ELSE CASE tier = "tiny" -> (IF params <= 40 THEN 120 ELSE IF params <= 80 THEN 30 ELSE -250)
           [] tier = "small" -> (IF params <= 85 THEN 150 ELSE IF params <= 145 THEN 25 ELSE -250)
           [] tier = "medium" -> (IF params \in 100..180 THEN 150 ELSE IF params <= 85 THEN 90
                                  ELSE IF params <= 325 THEN 20 ELSE -120)
           [] tier = "large" -> (IF params >= 140 THEN 140 ELSE IF params <= 85 THEN 60 ELSE 100)
           [] OTHER -> 0

\* estimate_memory_gb, in thousandths of a gigabyte.
BytesPerParam(bits) == CASE bits = 2 -> 35 [] bits = 3 -> 45 [] bits = 4 -> 65 [] bits = 6 -> 95
                         [] bits = 8 -> 120 [] OTHER -> 80
MemoryNeeded(params, bits) == params * BytesPerParam(bits) + (IF params >= 300 THEN 4000 ELSE 2500)

\* memory_fit.
Fit(gb, params, bits) ==
    LET need == MemoryNeeded(params, bits) IN
    IF gb = 0 \/ params = 0 THEN "unknown"
    ELSE IF need > gb * 800 THEN "too-large" ELSE IF need > gb * 600 THEN "tight" ELSE "good"

\* score_candidate: a candidate is a provider's model with what is known of it.
FitScore(fit) == CASE fit = "good" -> 300 [] fit = "tight" -> 100 [] fit = "too-large" -> -500 [] OTHER -> 0
Evidence(e, local) ==
    IF e = NoEntry THEN 0
    ELSE LET score == RecordScore(e, local) IN
         (score \div 2) + (IF e.tools = "native" THEN 120 ELSE IF e.tools = "inline" THEN 60 ELSE -40)
         + Min({e.speed.tps, 120})

StandingScore(c) == IF c.installed THEN 220 ELSE IF c.usual THEN 70 ELSE 0
CandidateScore(c) ==
    FitScore(Fit(c.gb, c.params, c.bits)) + StandingScore(c) + (IF c.current THEN 25 ELSE 0)
    + TierScore(Tier(c.gb), c.params) + Evidence(c.entry, c.local) + (IF c.local THEN 0 ELSE -40)

\* confidence_for and confidence_rank.
Confidence(c) ==
    LET tooLarge == Fit(c.gb, c.params, c.bits) = "too-large" IN
    IF c.installed /\ (c.entry.streaming \/ c.entry.speed # NoSpeed) /\ ~tooLarge THEN 3
    ELSE IF (c.installed \/ c.entry # NoEntry) /\ ~tooLarge THEN 2 ELSE 1

-----------------------------------------------------------------------------
(* Probes, and the cache they are kept in. *)

\* probe_tool_calls puts the names of all calls of the answer together.
ToolsFound(find) == IF find.calls = 1 THEN "native" ELSE IF find.json THEN "inline" ELSE "none"

\* doctor_warning.
WarningOf(p, streaming, usage, tools) == streaming /\ (~usage \/ (p = "llamacpp" /\ tools # "native"))

\* probe_backend_capabilities: what comes after a failure is not tried.
Row(p, m, find) ==
    LET models == Usable(p) /\ find.list
        streaming == models /\ find.stream
        tools == IF streaming THEN ToolsFound(find) ELSE "none"
        usage == streaming /\ find.usage
    IN [NoEntry EXCEPT !.model = m, !.models = models, !.streaming = streaming, !.usage = usage,
                       !.tools = tools, !.warned = WarningOf(p, streaming, usage, tools)]

\* doctor_backend_model: the model in use, else the first of the list.
ProbedModels(p, find) ==
    IF p = tuSession.provider THEN {tuSession.model}
    ELSE IF Usable(p) /\ find.list THEN find.first ELSE {UsualModel[p]}

\* save_record: a record without a benchmark takes that of the file it
\* replaces.
SaveRecord(p, row) ==
    LET old == RecordOf(p, row.model)
    IN tuCache' = [tuCache EXCEPT ![<<p, FileName[row.model]>>] = [row EXCEPT !.speed = old.speed]]

\* Mutant: only the benchmark of an old record is changed.
SaveSpeed(p, m, speed) ==
    LET old == RecordOf(p, m)
        base == IF old = NoEntry THEN [NoEntry EXCEPT !.model = m, !.streaming = TRUE] ELSE old
    IN tuCache' = [tuCache EXCEPT ![<<p, FileName[m]>>] = [base EXCEPT !.speed = speed]]

\* save_benchmark.
SaveBenchmark(p, m, speed) ==
    LET old == RecordOf(p, m)
        base == IF old = NoEntry THEN [NoEntry EXCEPT !.model = m] ELSE old
    IN tuCache' = [tuCache EXCEPT ![<<p, FileName[m]>>] = [base EXCEPT !.speed = speed, !.streaming = TRUE]]

TuIdle == tuWork = NoWork
Started == TuIdle /\ tuCount.commands < MaxCommands /\ tuCount' = [tuCount EXCEPT !.commands = @ + 1]

\* /doctor --deep, /doctor models refresh, /doctor autotune and /doctor
\* recommend: which providers are probed first.
ProbesOf(cmd, refresh, all, cloud) ==
    LET named == CASE cmd \in {"deep", "models", "autotune"} -> IF all THEN Providers ELSE {tuConfig.provider}
                   [] cmd = "recommend" -> IF all THEN IF cloud THEN Providers ELSE Locals
                                           ELSE {tuConfig.provider}
        wanted == CASE cmd = "deep" -> TRUE [] cmd = "models" -> refresh
                    [] cmd = "autotune" -> refresh \/ Entries = {} [] cmd = "recommend" -> refresh \/ all
    IN IF wanted THEN SetToSeq(named) ELSE <<>>

StartTuning(cmd, refresh, all, cloud, apply) ==
    /\ Started
    /\ tuWork' = [NoWork EXCEPT !.cmd = cmd, !.todo = ProbesOf(cmd, refresh, all, cloud),
                                !.apply = apply, !.cloud = cloud, !.all = all]
    /\ UNCHANGED <<tuCache, tuSession, tuConfig, tuFile, tuMemory, tuSeen, tuTimed, tuChosen>>

\* A probe shows what it shows; its record is saved at once, and those of
\* --deep after the last one.
ProbeNext(find) ==
    /\ tuWork.todo # <<>> /\ (tuWork.cmd = "deep" \/ tuWork.rows = <<>>)
    /\ LET p == tuWork.todo[1] IN \E m \in ProbedModels(p, find) :
       LET row == Row(p, m, find) IN
       /\ tuSeen' = [tuSeen EXCEPT ![<<p, m>>] = IF row.streaming THEN "streams" ELSE "fails"]
       /\ tuWork' = [tuWork EXCEPT !.todo = Tail(@), !.rows = Append(@, <<p, row>>)]
    /\ UNCHANGED <<tuCache, tuSession, tuConfig, tuFile, tuMemory, tuTimed, tuChosen, tuCount>>

Saving == tuWork.rows # <<>> /\ (tuWork.cmd = "deep" => tuWork.todo = <<>>)
SaveNext ==
    /\ Saving
    /\ SaveRecord(tuWork.rows[1][1], tuWork.rows[1][2])
    /\ tuWork' = [tuWork EXCEPT !.rows = Tail(@)]
    /\ UNCHANGED <<tuSession, tuConfig, tuFile, tuMemory, tuSeen, tuTimed, tuChosen, tuCount>>

Reported ==
    /\ tuWork.cmd \in {"deep", "models"} /\ tuWork.todo = <<>> /\ tuWork.rows = <<>>
    /\ tuWork' = NoWork
    /\ UNCHANGED <<tuCache, tuSession, tuConfig, tuFile, tuMemory, tuSeen, tuTimed, tuChosen, tuCount>>

\* cmd_bench: a benchmark that fails leaves no trace.
BenchModel(m) ==
    /\ Started
    /\ LET p == tuSession.provider IN
       \/ \E speed \in Speeds :
             /\ SaveBenchmark(p, m, speed)
             /\ tuSeen' = [tuSeen EXCEPT ![<<p, m>>] = "streams"]
             /\ tuTimed' = [tuTimed EXCEPT ![<<p, m>>] = speed]
       \/ UNCHANGED <<tuCache, tuSeen, tuTimed>>
    /\ UNCHANGED <<tuSession, tuConfig, tuFile, tuMemory, tuWork, tuChosen>>

\* The program is killed while it writes a record, which no one can read
\* afterwards, or between two; it starts again with what the file says.
KillProbe ==
    /\ ~TuIdle /\ tuCount.kills < MaxKills
    /\ tuCount' = [tuCount EXCEPT !.kills = @ + 1]
    /\ LET rows == ToSet(tuWork.rows)
           unsaved == {<<r[1], r[2].model>> : r \in rows}
           torn == IF Saving THEN {<<tuWork.rows[1][1], FileName[tuWork.rows[1][2].model]>>} ELSE {}
       IN \E lost \in SUBSET torn :
          /\ tuCache' = [place \in CachePlaces |-> IF place \in lost THEN NoEntry ELSE tuCache[place]]
          /\ tuSeen' = [t \in Tried |-> IF t \in unsaved THEN "unknown" ELSE tuSeen[t]]
          /\ tuTimed' = [t \in Tried |-> IF <<t[1], FileName[t[2]]>> \in lost THEN NoSpeed ELSE tuTimed[t]]
    /\ tuSession' = [provider |-> tuFile.provider, model |-> ModelOf(tuFile.provider, tuFile.override)]
    /\ tuConfig' = tuFile /\ tuWork' = NoWork /\ tuChosen' = NoChoice
    /\ UNCHANGED <<tuFile, tuMemory>>

-----------------------------------------------------------------------------
(* Choices. *)

\* The configuration is changed first; a provider that cannot be used ends
\* the command there.
ApplyChoice(by, p, m) ==
    IF tuWork.apply
    THEN /\ tuConfig' = [provider |-> p, override |-> m]
         /\ tuSession' = IF Usable(p) THEN [provider |-> p, model |-> m] ELSE tuSession
         /\ tuChosen' = [NoChoice EXCEPT !.by = by, !.provider = p, !.model = m, !.asked = tuWork.cloud,
                                         !.streams = tuSeen[<<p, m>>]]
    ELSE UNCHANGED <<tuConfig, tuSession, tuChosen>>

\* best_record: of those that stream, and of the local ones unless asked.
Eligible(cloud) == {place \in Entries : tuCache[place].streaming /\ (cloud \/ place[1] \in Locals)}
BestRecords(cloud) ==
    LET score(place) == RecordScore(tuCache[place], place[1] \in Locals) IN
    {place \in Eligible(cloud) : \A other \in Eligible(cloud) : score(other) <= score(place)}

Autotuned ==
    /\ tuWork.cmd = "autotune" /\ tuWork.todo = <<>> /\ tuWork.rows = <<>>
    /\ tuWork' = NoWork
    /\ IF BestRecords(tuWork.cloud) = {} THEN UNCHANGED <<tuConfig, tuSession, tuChosen>>
       ELSE \E place \in BestRecords(tuWork.cloud) : ApplyChoice("autotune", place[1], tuCache[place].model)
    /\ UNCHANGED <<tuCache, tuFile, tuMemory, tuSeen, tuTimed, tuCount>>

\* collect_recommendation_candidates and merge_candidates, with the lists the
\* providers give now.
Addressed == IF tuWork.all THEN IF tuWork.cloud THEN Providers ELSE Locals ELSE {tuConfig.provider}
Candidates(listed) ==
    LET cached == {<<place[1], tuCache[place].model>> :
                      place \in {q \in Entries : tuWork.cloud \/ q[1] \in Locals}}
        current == {<<tuSession.provider, tuSession.model>>}
        usual == {<<p, UsualModel[p]>> : p \in Addressed}
        installed == {<<p, m>> \in listed : p \in Addressed /\ Usable(p)}
        all == cached \cup usual \cup installed \cup (IF tuSession.provider \in Addressed THEN current ELSE {})
        entry(t) == IF t \in cached THEN RecordOf(t[1], t[2]) ELSE NoEntry
    IN {[provider |-> t[1], model |-> t[2], local |-> t[1] \in Locals, gb |-> tuMemory,
         params |-> Params[t[2]], bits |-> Bits[t[2]],
         installed |-> t \in installed, usual |-> t \in usual,
         current |-> t \in current /\ t[1] \in Addressed, entry |-> entry(t)] : t \in all}

\* recommend_models.
Admitted(cs) == {c \in cs : tuWork.cloud \/ c.local}
TopOf(cs) == {c \in cs : \A d \in cs : \/ CandidateScore(d) < CandidateScore(c)
                                       \/ /\ CandidateScore(d) = CandidateScore(c)
                                          /\ Confidence(d) <= Confidence(c)}
Recommended ==
    /\ tuWork.cmd = "recommend" /\ tuWork.todo = <<>> /\ tuWork.rows = <<>>
    /\ tuWork' = NoWork
    /\ \E listed \in SUBSET (Addressed \X Models) :
       LET tops == TopOf(Admitted(Candidates(listed))) IN
       IF tops = {} THEN UNCHANGED <<tuConfig, tuSession, tuChosen>>
       ELSE \E c \in tops : ApplyChoice("recommend", c.provider, c.model)
    /\ UNCHANGED <<tuCache, tuFile, tuMemory, tuSeen, tuTimed, tuCount>>

-----------------------------------------------------------------------------
(* The wizard: provider, key, model, and then policy and tools. *)

\* prompt_backend: Enter takes the configured provider.
StartSetup(p, enter) ==
    /\ Started
    /\ enter => p = tuConfig.provider
    /\ tuWork' = [NoWork EXCEPT !.cmd = "model", !.pick = p, !.enter = enter,
                                !.before = ModelOf(tuConfig.provider, tuConfig.override)]
    /\ UNCHANGED <<tuCache, tuSession, tuConfig, tuFile, tuMemory, tuSeen, tuTimed, tuChosen>>

\* model_override_for: the default is not written down.
OverrideFor(m, p) == IF m = UsualModel[p] THEN "none" ELSE m

\* build_model_menu: the list with the default and the override, and which of
\* them is marked.
Menu(p, listed) == listed \cup {UsualModel[p]} \cup ({tuConfig.override} \ {"none"})
Marked(p) == ModelOf(p, tuConfig.override)

\* prompt_model: Enter takes the marked model, or the default when there is
\* no list.
PickModel(listed, m, enter) ==
    /\ tuWork.cmd = "model"
    /\ \/ m = "none" /\ tuWork' = NoWork
       \/ /\ m \in Models
          /\ listed # {} /\ enter => m \in Menu(tuWork.pick, listed) /\ m = Marked(tuWork.pick)
          /\ listed = {} /\ enter => m = UsualModel[tuWork.pick]
          /\ tuWork' = [tuWork EXCEPT !.cmd = "rest", !.override = OverrideFor(m, tuWork.pick),
                                      !.listed = listed # {}, !.enter = @ /\ enter]
    /\ UNCHANGED <<tuCache, tuSession, tuConfig, tuFile, tuMemory, tuSeen, tuTimed, tuChosen, tuCount>>

\* The file is written when all is answered; the session follows if the
\* provider can be used.
FinishSetup(cancelled) ==
    /\ tuWork.cmd = "rest"
    /\ tuWork' = NoWork
    /\ LET p == tuWork.pick
           written == [provider |-> p, override |-> tuWork.override]
       IN IF cancelled THEN UNCHANGED <<tuFile, tuConfig, tuSession, tuChosen>>
          ELSE /\ tuFile' = written
               /\ IF Usable(p)
                  THEN /\ tuConfig' = written
                       /\ tuSession' = [provider |-> p, model |-> ModelOf(p, written.override)]
                  ELSE UNCHANGED <<tuConfig, tuSession>>
               /\ tuChosen' = [NoChoice EXCEPT !.by = "setup", !.provider = p,
                                  !.model = ModelOf(p, written.override), !.before = tuWork.before,
                                  !.same = p = tuConfig.provider,
                                  !.enter = tuWork.enter, !.listed = tuWork.listed]
    /\ UNCHANGED <<tuCache, tuMemory, tuSeen, tuTimed, tuCount>>

-----------------------------------------------------------------------------
\* detect_hardware_spec: what sysctl does not know the profiler may.
MemoryFound(sysctl, profiler) == IF sysctl # 0 THEN sysctl ELSE profiler

TuInit ==
    /\ tuCache = [place \in CachePlaces |-> NoEntry]
    /\ \E p \in Providers : /\ tuFile = [provider |-> p, override |-> "none"]
                            /\ tuSession = [provider |-> p, model |-> UsualModel[p]]
    /\ tuConfig = tuFile
    /\ \E sysctl, profiler \in MemorySizes : tuMemory = MemoryFound(sysctl, profiler)
    /\ tuWork = NoWork /\ tuChosen = NoChoice
    /\ tuSeen = [t \in Tried |-> "never"] /\ tuTimed = [t \in Tried |-> NoSpeed]
    /\ tuCount = [commands |-> 0, kills |-> 0]
    /\ tuCase = NoRank

TuNext ==
    /\ UNCHANGED tuCase
    /\ \/ \E cmd \in {"deep", "models", "autotune", "recommend"}, refresh, all, cloud, apply \in BOOLEAN :
             /\ cmd \in {"deep", "models"} => ~cloud /\ ~apply
             /\ cmd = "deep" => refresh
             /\ StartTuning(cmd, refresh, all, cloud, apply)
       \/ \E find \in Finds : ProbeNext(find)
       \/ SaveNext \/ Reported \/ Autotuned \/ Recommended \/ KillProbe
       \/ \E m \in Models : BenchModel(m)
       \/ \E p \in Providers, enter \in BOOLEAN : StartSetup(p, enter)
       \/ \E listed \in SUBSET Models, m \in Models \cup {"none"}, enter \in BOOLEAN : PickModel(listed, m, enter)
       \/ \E cancelled \in BOOLEAN : FinishSetup(cancelled)

\* A candidate of any kind there is.
EntriesOf(p) ==
    LET probed == {Row(p, "any", find) : find \in Finds}
        timed == {[e EXCEPT !.streaming = TRUE, !.speed = s] :
                     e \in probed \cup {[NoEntry EXCEPT !.model = "any"]}, s \in Speeds}
    IN {NoEntry} \cup probed \cup timed

RankNext ==
    /\ tuCase = NoRank /\ UNCHANGED tuned
    /\ \E p \in Providers, size \in Sizes, installed, usual, current \in BOOLEAN : \E e \in EntriesOf(p) :
          tuCase' = [provider |-> p, local |-> p \in Locals, gb |-> tuMemory, params |-> size[1],
                     bits |-> size[2], installed |-> installed, usual |-> usual, current |-> current,
                     entry |-> e]

-----------------------------------------------------------------------------
(* Properties. *)

\* The records, the session and the choice are of their kinds.
TuTypeOK ==
    /\ \A place \in CachePlaces : LET e == tuCache[place] IN
          /\ e.model \in Models \cup {"none"} /\ e.tools \in {"native", "inline", "none"}
          /\ e.model # "none" => FileName[e.model] = place[2]
          /\ e.speed \in Speeds \cup {NoSpeed} /\ (e.tools # "none" => e.streaming)
    /\ tuSession.provider \in Providers /\ tuSession.model \in Models
    /\ tuConfig.override \in Models \cup {"none"} /\ tuFile.override \in Models \cup {"none"}
    /\ tuWork.pick \in Providers \cup {"none"} /\ tuMemory \in MemorySizes

\* What /doctor autotune applies streamed when it was last tried: a later
\* probe that fails takes a model out of the choice, however well it once did
\* (capabilities.rs, best_record, save_record and save_benchmark).
TunedStreams == tuChosen.by = "autotune" => tuChosen.streams \in {"streams", "unknown"}

\* Neither command moves the session to a provider elsewhere unless --cloud
\* was said, though records and candidates of such providers are there
\* (capabilities.rs, best_record; recommend.rs, recommend_models).
NoCloudUnasked == tuChosen.by \in {"autotune", "recommend"} /\ tuChosen.provider \in Clouds => tuChosen.asked

\* The benchmark of a record is the last one of the model the record names:
\* probes keep it, and those of other models do not touch it, as long as no
\* two models share a file name (capabilities.rs, save_record and record_path).
OneName(m) == \A n \in Models : FileName[n] = FileName[m] => n = m
BenchIsOwn ==
    \A p \in Providers, m \in Models :
       OneName(m) => RecordOf(p, m).speed = tuTimed[<<p, m>>]

\* Once a command is over the cache says of each model it has a record of
\* what the last try showed, though the rows of --deep are saved after all
\* probes and the program may be killed between (doctor.rs, cmd_doctor_deep
\* and refresh_capability_cache; capabilities.rs, save_benchmark).
CacheIsLastSeen ==
    TuIdle => \A p \in Providers, m \in Models :
                 RecordOf(p, m).model = m /\ tuSeen[<<p, m>>] # "unknown"
                 => (RecordOf(p, m).streaming <=> tuSeen[<<p, m>>] = "streams")

\* A candidate that is better in one respect, and otherwise the same, does
\* not get a lower score (recommend.rs, score_candidate; capabilities.rs,
\* record_score).
Faster(s, t) == s # NoSpeed /\ t # NoSpeed /\ s.tps >= t.tps /\ s.first \in 1..t.first
Improved(c) ==
    {[c EXCEPT !.installed = TRUE], [c EXCEPT !.current = TRUE], [c EXCEPT !.usual = TRUE],
     [c EXCEPT !.local = TRUE]}
    \cup (IF ~c.entry.streaming \/ c.entry.warned THEN {}
          ELSE {[c EXCEPT !.entry.tools = "native"], [c EXCEPT !.entry.usage = TRUE]}
               \cup (IF c.entry.tools = "none" THEN {[c EXCEPT !.entry.tools = "inline"]} ELSE {}))
    \cup {[c EXCEPT !.entry.warned = FALSE]}
    \cup {[c EXCEPT !.entry.speed = s] : s \in {t \in Speeds : Faster(t, c.entry.speed)}}
ImprovementNeverHurts ==
    tuCase # NoRank => \A c \in Improved(tuCase) : CandidateScore(c) >= CandidateScore(tuCase)

\* Of two models never tried, one the machine's memory holds goes before one
\* it does not hold, whatever their sizes and whichever of them is installed,
\* in use or elsewhere (recommend.rs, memory_fit and tier_model_score).
UnprovenTooBigLast ==
    tuCase # NoRank /\ tuCase.entry = NoEntry /\ Fit(tuCase.gb, tuCase.params, tuCase.bits) = "too-large"
    => \A size \in Sizes, installed, usual, current, local \in BOOLEAN :
          Fit(tuCase.gb, size[1], size[2]) \in {"good", "tight"}
          => CandidateScore([tuCase EXCEPT !.params = size[1], !.bits = size[2], !.installed = installed,
                                           !.usual = usual, !.current = current, !.local = local])
             > CandidateScore(tuCase)

\* Who takes what is marked all through the wizard keeps the model, if the
\* provider lists its models (setup.rs, build_model_menu and
\* model_override_for).
EnterKeepsModel ==
    tuChosen.by = "setup" /\ tuChosen.enter /\ tuChosen.listed => tuChosen.model = tuChosen.before

\* What is chosen for the user, and what it is chosen by.
TuningSound ==
    /\ TuTypeOK /\ TunedStreams /\ NoCloudUnasked /\ BenchIsOwn /\ CacheIsLastSeen
    /\ ImprovementNeverHurts /\ UnprovenTooBigLast /\ EnterKeepsModel

-----------------------------------------------------------------------------
(* Not of the code. *)

\* A model whose probe failed would not stand better than before the probe.
FailedProbeNoBoost ==
    tuCase # NoRank /\ tuCase.entry # NoEntry /\ ~tuCase.entry.streaming
    => CandidateScore(tuCase) <= CandidateScore([tuCase EXCEPT !.entry = NoEntry])

\* The model the wizard marks after another provider was taken would be one
\* of that provider, not the override of the last.
MarkedIsOffered ==
    tuWork.cmd = "model" /\ tuWork.pick # tuConfig.provider => Marked(tuWork.pick) = UsualModel[tuWork.pick]

=============================================================================
