------------------------------- MODULE Approvals -------------------------------
(***************************************************************************)
(* Which calls are asked about, and what an answer allows later: the       *)
(* require_approval of the tools (tools/*.rs, mcp.rs), their PathPolicy,   *)
(* the ApprovalCache of approval.rs, and the delegates, which have none     *)
(* (tools/subagent.rs, tools/evaluator.rs).                                *)
(***************************************************************************)
EXTENDS Naturals, TLAPS

CONSTANTS
    ApTools,    \* the tools in use
    Outside,    \* paths outside the workspace
    Inside,     \* paths inside it, and commands
    Harmless,   \* commands that are is_obviously_non_destructive
    MaxAsked,   \* bound on the calls
    MaxNew      \* bound on /new

NoTarget == "none"   \* the arguments have neither command nor path
EveryTarget == "any"

ASSUME ApprovalsAssumption ==
    /\ MaxAsked \in Nat /\ MaxNew \in Nat /\ Harmless \subseteq Inside /\ Inside \cap Outside = {}
    /\ {NoTarget, EveryTarget} \cap (Inside \cup Outside) = {}

Editors == {"file_write", "file_edit"}
Readers == {"file_read", "grep", "glob", "list_dir"}

\* A call is a tool, its command or path, and the rest of its arguments: what is
\* written, and of batch_edit, which has no target, dryRun.
Call ==
    {call \in [name : ApTools, target : Inside \cup Outside \cup {NoTarget}, rest : {"dry", "wet"}] :
        /\ call.name \in {"batch_edit", "run_tests", "web_fetch", "verify"} => call.target = NoTarget
        /\ call.name \in {"file_write", "shell"} => call.target # NoTarget
        /\ call.name \notin {"batch_edit", "file_write"} => call.rest = "wet"}

VARIABLES
    apPolicy,    \* config.approval_policy
    apOutside,   \* config.outside_workspace
    apCwdIn,     \* the current directory is in the workspace
    apAllowed,   \* always_allow: keys, and names as keys of any target
    apSaid,      \* the answers that let more calls through than the one asked about
    apSession,
    apCount, apLast   \* the calls so far, the last one, how it came to its end, and whose it was

apConfig == <<apPolicy, apOutside, apCwdIn>>
apVars   == <<apConfig, apAllowed, apSaid, apSession, apCount, apLast>>

ApInit ==
    /\ apPolicy \in {"always", "dangerous-only", "never"}
    /\ apOutside \in {"allow", "prompt", "deny"} /\ apCwdIn \in BOOLEAN
    /\ apAllowed = {} /\ apSaid = {} /\ apSession = 0 /\ apCount = 0 /\ apLast = <<>>

-----------------------------------------------------------------------------

OutsidePath(call) == call.target \in Outside

\* Tool::require_approval of each tool.
RequireApproval(call) ==
    LET promptPath == apOutside = "prompt" /\ OutsidePath(call)
        promptCwd  == apOutside = "prompt" /\ ~apCwdIn IN
    CASE call.name \in Editors     -> apPolicy # "never" \/ promptPath
      [] call.name = "apply_patch" ->
             apPolicy # "never" \/ (IF call.target = NoTarget THEN promptCwd ELSE promptPath)
      [] call.name \in Readers     -> promptPath
      [] call.name = "batch_edit"  -> call.rest = "wet"
      [] call.name = "shell"       ->
             \/ apPolicy = "always"
             \/ apPolicy = "dangerous-only" /\ (call.target \notin Harmless \/ promptCwd)
      [] call.name = "run_tests"   -> apPolicy = "always"
      [] call.name = "verify"      -> FALSE
      [] OTHER                     -> TRUE   \* web_fetch and MCP tools

\* deny_path and deny_cwd, when the tool runs.  A patch without a path is applied
\* in the workspace root.
Denied(call) ==
    apOutside = "deny" /\
    IF call.name = "shell" THEN ~apCwdIn
    ELSE call.name \in Editors \cup Readers \cup {"apply_patch"} /\ OutsidePath(call)

Key(call)  == [name |-> call.name, target |-> call.target]
AnyTarget(call) == [name |-> call.name, target |-> EveryTarget]

\* Mutant: session-allow is remembered for the tool.
RememberTool(answer, call) == IF answer \in {"always", "session"} THEN {AnyTarget(call)} ELSE {}

\* What an answer adds to always_allow.
Remember(answer, call) ==
    CASE answer = "always"  -> {AnyTarget(call)}
      [] answer = "session" -> {Key(call)}
      [] OTHER              -> {}

Cached(call) == {AnyTarget(call), Key(call)} \cap apAllowed # {}

\* The names of subagent_tool_names, of which a critic of rubric.liveVerify has one more: it
\* runs the project's tests.
SubagentTools == Readers
CriticTools == Readers \cup {"verify"}

\* build_tools_for_names
Held(agent) ==
    CASE agent = "main"     -> ApTools \ {"verify"}
      [] agent = "subagent" -> ApTools \cap SubagentTools
      [] agent = "critic"   -> ApTools \cap CriticTools

EndsBy(agent, call, way) ==
    /\ apCount < MaxAsked /\ apCount' = apCount + 1
    /\ apLast' = <<call, IF way # "refused" /\ Denied(call) THEN "denied" ELSE way, agent>>
    /\ UNCHANGED <<apConfig, apSession>>

Ends(call, way) == call.name \in Held("main") /\ EndsBy("main", call, way)

-----------------------------------------------------------------------------

\* No approval is needed.
Unasked(call) == ~RequireApproval(call) /\ Ends(call, "unasked") /\ UNCHANGED <<apAllowed, apSaid>>

\* ApprovalCache::approve returns before it asks.
Passed(call) ==
    RequireApproval(call) /\ Cached(call) /\ Ends(call, "passed") /\ UNCHANGED <<apAllowed, apSaid>>

\* It asks.  An input that cannot be read is a no.
Asked(call) ==
    /\ RequireApproval(call) /\ ~Cached(call)
    /\ \E answer \in {"yes", "always", "session", "no"} :
        /\ apAllowed' = apAllowed \cup Remember(answer, call)
        /\ apSaid' = IF answer \in {"always", "session"}
                     THEN apSaid \cup {<<answer, call, apSession>>} ELSE apSaid
        /\ Ends(call, IF answer = "no" THEN "refused" ELSE "consented")

\* A delegate has no approval provider: what needs an answer is refused, whatever the user
\* allows the session.  A tool that it does not hold is unknown.
Delegated(agent, call) ==
    /\ EndsBy(agent, call, IF call.name \in Held(agent) /\ ~RequireApproval(call) THEN "unasked" ELSE "refused")
    /\ UNCHANGED <<apAllowed, apSaid>>

\* cmd_new
New ==
    /\ apCount \in 1..MaxAsked - 1 /\ apSession < MaxNew /\ apSession' = apSession + 1
    /\ UNCHANGED <<apConfig, apAllowed, apSaid, apCount, apLast>>

\* apply_operator_mode: edit, and the others.
SetMode(mode) ==
    /\ apCount < MaxAsked /\ apPolicy' = IF mode = "edit" THEN "always" ELSE "dangerous-only"
    /\ apPolicy' # apPolicy
    /\ UNCHANGED <<apOutside, apCwdIn, apAllowed, apSaid, apSession, apCount, apLast>>

ApNext ==
    \/ \E call \in Call : Unasked(call) \/ Passed(call) \/ Asked(call)
    \/ \E call \in Call, agent \in {"subagent", "critic"} : Delegated(agent, call)
    \/ New
    \/ SetMode("edit") \/ SetMode("ship")

ApSpec == ApInit /\ [][ApNext]_apVars

-----------------------------------------------------------------------------
(* Properties. *)

Ran(ways) == apLast # <<>> /\ apLast[2] \in ways

\* A call the user is not asked about, though its tool must, is one that an earlier
\* answer speaks of: "always" for this tool, or "session-allow" for this command or path.
\* A refusal never lets anything through, nor does a plain yes.
ConsentCovers ==
    Ran({"passed"}) =>
        \E said \in apSaid : /\ said[2].name = apLast[1].name
                             /\ said[1] = "session" => said[2].target = apLast[1].target

\* "outsideWorkspace" holds whatever the policy and the cache: with deny no file tool and
\* no command works outside, and with prompt no file tool does without an answer.
KeepsOutside ==
    apCount' # apCount =>
        LET call == apLast'[1]  way == apLast'[2]
            far == call.name \in Editors \cup Readers \cup {"apply_patch"} /\ OutsidePath(call) IN
        /\ apOutside = "deny" /\ (far \/ (call.name = "shell" /\ ~apCwdIn)) => way \in {"denied", "refused"}
        /\ apOutside = "prompt" /\ far => way # "unasked"

\* subagent.rs:53 "Never includes ... any mutating/shell tool": whatever the policy is and the
\* user has allowed, a delegate writes nothing, runs no command and asks nobody, and where
\* paths outside are asked about it sees none.
DelegatesOnlyRead ==
    apLast # <<>> /\ apLast[3] # "main" =>
        /\ apLast[2] \in {"unasked", "refused", "denied"}
        /\ apLast[2] = "unasked" => apLast[1].name \in Readers \cup {"verify"}

StaysAllowed == [][ConsentCovers' /\ DelegatesOnlyRead' /\ KeepsOutside]_apVars

\* What runs is what an answer, the policy and the workspace allow.
ApprovalsHold == ConsentCovers /\ DelegatesOnlyRead /\ StaysAllowed

\* Not of the code, which lets the critic test without being asked: with the policy of always
\* no tests run unasked.
TestsAreAsked == apLast # <<>> /\ apPolicy = "always" /\ apLast[2] = "unasked" => apLast[1].name # "verify"

\* README.md:368 "The session cache resets on `/new`."
CacheResets ==
    [][apCount' # apCount /\ apLast'[2] = "passed" => \E said \in apSaid : said[3] = apSession]_apVars

\* README.md:367 "`[s]ession-allow this exact call`"
ExactCall ==
    Ran({"passed"}) => \E said \in apSaid : said[1] = "always" \/ said[2] = apLast[1]

-----------------------------------------------------------------------------
(* Proofs. *)

\* What the cache holds was answered: its keys come from answers of their kind, and every
\* answer was about a call.
CacheIsSaid ==
    /\ \A said \in apSaid : said[1] \in {"always", "session"} /\ said[2] \in Call
    /\ \A key \in apAllowed : \E said \in apSaid :
          IF said[1] = "always" THEN key = AnyTarget(said[2]) ELSE key = Key(said[2])

ApInv == CacheIsSaid /\ ConsentCovers

LEMMA CacheIsSaidInitially == ApInit => ApInv
<1> QED BY DEF ApInit, ApInv, CacheIsSaid, ConsentCovers, Ran

\* What is remembered of an answer is what the answer is later taken for.
LEMMA RememberedIsSaid ==
    ASSUME CacheIsSaid, NEW call \in Call, NEW answer \in {"yes", "always", "session", "no"},
           apAllowed' = apAllowed \cup Remember(answer, call),
           apSaid' = IF answer \in {"always", "session"}
                     THEN apSaid \cup {<<answer, call, apSession>>} ELSE apSaid
    PROVE  CacheIsSaid'
<1>1. \A said \in apSaid' : said[1] \in {"always", "session"} /\ said[2] \in Call
  <2> SUFFICES ASSUME NEW said \in apSaid' PROVE said[1] \in {"always", "session"} /\ said[2] \in Call
    OBVIOUS
  <2>1. CASE said \in apSaid BY <2>1 DEF CacheIsSaid
  <2>2. CASE said \notin apSaid
    <3>1. answer \in {"always", "session"} /\ said = <<answer, call, apSession>> BY <2>2
    <3> QED BY <3>1
  <2> QED BY <2>1, <2>2
<1>2. ASSUME NEW key \in apAllowed'
      PROVE  \E said \in apSaid' : IF said[1] = "always" THEN key = AnyTarget(said[2]) ELSE key = Key(said[2])
  <2>1. CASE key \in apAllowed
    <3>1. PICK said \in apSaid : IF said[1] = "always" THEN key = AnyTarget(said[2]) ELSE key = Key(said[2])
      BY <2>1 DEF CacheIsSaid
    <3>2. said \in apSaid' OBVIOUS
    <3> QED BY <3>1, <3>2
  <2>2. CASE key \in Remember(answer, call)
    <3> DEFINE new == <<answer, call, apSession>>
    <3>1. answer \in {"always", "session"} BY <2>2 DEF Remember
    <3>2. new \in apSaid' BY <3>1
    <3>3. new[1] = answer /\ new[2] = call OBVIOUS
    <3>4. IF answer = "always" THEN key = AnyTarget(call) ELSE key = Key(call) BY <2>2, <3>1 DEF Remember
    <3> HIDE DEF new
    <3> QED BY <3>2, <3>3, <3>4
  <2> QED BY <2>1, <2>2
<1> QED BY <1>1, <1>2 DEF CacheIsSaid

\* A key that covers a call stems from an answer that speaks of it.
LEMMA CachedIsSaid ==
    ASSUME CacheIsSaid, NEW call \in Call, Cached(call)
    PROVE  \E said \in apSaid : said[2].name = call.name /\ (said[1] = "session" => said[2].target = call.target)
<1>1. PICK key \in apAllowed : key \in {AnyTarget(call), Key(call)} BY DEF Cached
<1>2. PICK said \in apSaid : IF said[1] = "always" THEN key = AnyTarget(said[2]) ELSE key = Key(said[2])
  BY DEF CacheIsSaid
<1>3. said[2] \in Call /\ said[1] \in {"always", "session"} BY DEF CacheIsSaid
<1>4. key.name = call.name BY <1>1 DEF AnyTarget, Key
<1>5. said[2].name = key.name BY <1>2 DEF AnyTarget, Key
<1>6. ASSUME said[1] = "session" PROVE said[2].target = call.target
  <2>1. key.target = said[2].target BY <1>2, <1>6 DEF Key
  <2>2. said[2].target # EveryTarget BY <1>3, ApprovalsAssumption DEF Call, NoTarget, EveryTarget
  <2>3. key.target \in {EveryTarget, call.target} BY <1>1 DEF AnyTarget, Key
  <2> QED BY <2>1, <2>2, <2>3
<1> QED BY <1>4, <1>5, <1>6

LEMMA ApInvStep == ApInv /\ [ApNext]_apVars => ApInv'
<1> SUFFICES ASSUME ApInv, [ApNext]_apVars PROVE ApInv' OBVIOUS
<1> USE DEF ApInv
<1>1. ASSUME NEW call \in Call, Unasked(call) PROVE ApInv'
  <2>1. CacheIsSaid' BY <1>1 DEF Unasked, CacheIsSaid
  <2>2. apLast'[2] # "passed" BY <1>1 DEF Unasked, Ends, EndsBy
  <2> QED BY <2>1, <2>2 DEF ConsentCovers, Ran
<1>2. ASSUME NEW call \in Call, Passed(call) PROVE ApInv'
  <2>1. CacheIsSaid' BY <1>2 DEF Passed, CacheIsSaid
  <2>2. apLast'[1] = call BY <1>2 DEF Passed, Ends, EndsBy
  <2>3. \E said \in apSaid : said[2].name = call.name /\ (said[1] = "session" => said[2].target = call.target)
    BY <1>2, CachedIsSaid DEF Passed
  <2>4. apSaid' = apSaid BY <1>2 DEF Passed
  <2> QED BY <2>1, <2>2, <2>3, <2>4 DEF ConsentCovers, Ran
<1>3. ASSUME NEW call \in Call, Asked(call) PROVE ApInv'
  <2>1. PICK answer \in {"yes", "always", "session", "no"} :
           /\ apAllowed' = apAllowed \cup Remember(answer, call)
           /\ apSaid' = IF answer \in {"always", "session"}
                        THEN apSaid \cup {<<answer, call, apSession>>} ELSE apSaid
           /\ Ends(call, IF answer = "no" THEN "refused" ELSE "consented")
    BY <1>3 DEF Asked
  <2>2. CacheIsSaid' BY <2>1, RememberedIsSaid
  <2>3. apLast'[2] # "passed" BY <2>1 DEF Ends, EndsBy
  <2> QED BY <2>2, <2>3 DEF ConsentCovers, Ran
<1>4. ASSUME NEW call \in Call, NEW agent \in {"subagent", "critic"}, Delegated(agent, call) PROVE ApInv'
  <2>1. CacheIsSaid' BY <1>4 DEF Delegated, CacheIsSaid
  <2>2. apLast'[2] # "passed" BY <1>4 DEF Delegated, EndsBy
  <2> QED BY <2>1, <2>2 DEF ConsentCovers, Ran
<1>5. ASSUME New \/ SetMode("edit") \/ SetMode("ship") \/ UNCHANGED apVars PROVE ApInv'
  BY <1>5 DEF New, SetMode, apVars, apConfig, CacheIsSaid, ConsentCovers, Ran
<1> QED BY <1>1, <1>2, <1>3, <1>4, <1>5 DEF ApNext

\* A delegate runs nothing but what it holds, and only what needs no answer.
LEMMA DelegatesStep == DelegatesOnlyRead /\ [ApNext]_apVars => DelegatesOnlyRead'
<1> SUFFICES ASSUME DelegatesOnlyRead, [ApNext]_apVars PROVE DelegatesOnlyRead' OBVIOUS
<1>1. ASSUME NEW call \in Call, NEW way, Ends(call, way) PROVE DelegatesOnlyRead'
  <2>1. apLast'[3] = "main" BY <1>1 DEF Ends, EndsBy
  <2> QED BY <2>1 DEF DelegatesOnlyRead
<1>2. ASSUME NEW call \in Call, NEW agent \in {"subagent", "critic"}, Delegated(agent, call)
      PROVE  DelegatesOnlyRead'
  <2>1. Held(agent) \subseteq Readers \cup {"verify"} BY DEF Held, SubagentTools, CriticTools
  <2> DEFINE way == IF call.name \in Held(agent) /\ ~RequireApproval(call) THEN "unasked" ELSE "refused"
  <2>2. EndsBy(agent, call, way) BY <1>2 DEF Delegated
  <2>3. way = "unasked" => call.name \in Readers \cup {"verify"} BY <2>1
  <2>4. way \in {"unasked", "refused"} OBVIOUS
  <2> HIDE DEF way
  <2>5. apLast' = <<call, IF way # "refused" /\ Denied(call) THEN "denied" ELSE way, agent>>
    BY <2>2 DEF EndsBy
  <2>6. apLast'[2] \in {"unasked", "refused", "denied"} BY <2>4, <2>5
  <2>7. apLast'[2] = "unasked" => apLast'[1].name \in Readers \cup {"verify"} BY <2>3, <2>5
  <2> QED BY <2>6, <2>7 DEF DelegatesOnlyRead
<1>3. CASE UNCHANGED apLast BY <1>3 DEF DelegatesOnlyRead
<1>4. ASSUME NEW call \in Call, Unasked(call) \/ Passed(call) \/ Asked(call) PROVE DelegatesOnlyRead'
  BY <1>1, <1>4 DEF Unasked, Passed, Asked
<1>5. CASE New \/ SetMode("edit") \/ SetMode("ship") \/ UNCHANGED apVars
  BY <1>3, <1>5 DEF New, SetMode, apVars
<1> QED BY <1>2, <1>4, <1>5 DEF ApNext

\* However a call comes to its end, the workspace decides first: a tool that is to be asked
\* about is, and one that is denied does not run.
LEMMA EndsOutside ==
    ASSUME NEW call \in Call, NEW agent, NEW way, EndsBy(agent, call, way),
           way = "unasked" => ~RequireApproval(call)
    PROVE  KeepsOutside
<1>1. apLast' = <<call, IF way # "refused" /\ Denied(call) THEN "denied" ELSE way, agent>> BY DEF EndsBy
<1> DEFINE far == call.name \in Editors \cup Readers \cup {"apply_patch"} /\ OutsidePath(call)
<1>2. ASSUME apOutside = "deny", far \/ (call.name = "shell" /\ ~apCwdIn) PROVE Denied(call)
  BY <1>2 DEF Denied, Editors, Readers
<1>3. ASSUME apOutside = "prompt", far PROVE RequireApproval(call)
  <2>1. call.target # NoTarget BY <1>3, ApprovalsAssumption DEF OutsidePath
  <2>2. CASE call.name \in Editors BY <1>3, <2>2 DEF RequireApproval, Editors, Readers
  <2>3. CASE call.name = "apply_patch" BY <1>3, <2>1, <2>3 DEF RequireApproval, Editors, Readers
  <2>4. CASE call.name \in Readers BY <1>3, <2>4 DEF RequireApproval, Editors, Readers
  <2> QED BY <1>3, <2>2, <2>3, <2>4
<1>4. apLast'[1] = call BY <1>1
<1>5. apLast'[2] = IF way # "refused" /\ Denied(call) THEN "denied" ELSE way BY <1>1
<1>6. ASSUME apOutside = "deny", far \/ (call.name = "shell" /\ ~apCwdIn)
      PROVE  apLast'[2] \in {"denied", "refused"}
  BY <1>2, <1>5, <1>6
<1>7. ASSUME apOutside = "prompt", far PROVE apLast'[2] # "unasked"
  BY <1>3, <1>5, <1>7
<1> QED BY <1>4, <1>6, <1>7 DEF KeepsOutside

LEMMA OutsideStep == ApNext => KeepsOutside
<1> SUFFICES ASSUME ApNext PROVE KeepsOutside OBVIOUS
<1>1. ASSUME NEW call \in Call, Unasked(call) PROVE KeepsOutside
  BY <1>1, EndsOutside DEF Unasked, Ends
<1>2. ASSUME NEW call \in Call, Passed(call) PROVE KeepsOutside
  <2>1. EndsBy("main", call, "passed") BY <1>2 DEF Passed, Ends
  <2> QED BY <2>1, EndsOutside
<1>3. ASSUME NEW call \in Call, Asked(call) PROVE KeepsOutside
  <2>1. PICK answer : Ends(call, IF answer = "no" THEN "refused" ELSE "consented") BY <1>3 DEF Asked
  <2>2. CASE answer = "no"
    <3>1. EndsBy("main", call, "refused") BY <2>1, <2>2 DEF Ends
    <3> QED BY <3>1, EndsOutside
  <2>3. CASE answer # "no"
    <3>1. EndsBy("main", call, "consented") BY <2>1, <2>3 DEF Ends
    <3> QED BY <3>1, EndsOutside
  <2> QED BY <2>2, <2>3
<1>4. ASSUME NEW call \in Call, NEW agent \in {"subagent", "critic"}, Delegated(agent, call) PROVE KeepsOutside
  <2>1. CASE call.name \in Held(agent) /\ ~RequireApproval(call)
    <3>1. EndsBy(agent, call, "unasked") BY <1>4, <2>1 DEF Delegated
    <3> QED BY <2>1, <3>1, EndsOutside
  <2>2. CASE ~ (call.name \in Held(agent) /\ ~RequireApproval(call))
    <3>1. EndsBy(agent, call, "refused") BY <1>4, <2>2 DEF Delegated
    <3> QED BY <3>1, EndsOutside
  <2> QED BY <2>1, <2>2
<1>5. CASE New \/ SetMode("edit") \/ SetMode("ship") BY <1>5 DEF New, SetMode, KeepsOutside
<1> QED BY <1>1, <1>2, <1>3, <1>4, <1>5 DEF ApNext

\* Whatever tools, paths, answers and delegates there are, a call that passes without being
\* asked about is covered by an answer (approval.rs:62), a delegate only reads, and what the
\* policy says of the outside of the workspace holds of every call.
THEOREM ApprovalsAlwaysHold == ApSpec => ApprovalsHold
<1> DEFINE Inv == ApInv /\ DelegatesOnlyRead
<1>1. ApInit => Inv
  BY CacheIsSaidInitially DEF ApInit, DelegatesOnlyRead
<1>2. Inv /\ [ApNext]_apVars => Inv'
  BY ApInvStep, DelegatesStep
<1>3. Inv => ConsentCovers /\ DelegatesOnlyRead
  BY DEF ApInv
<1>4. Inv /\ [ApNext]_apVars
        => [ConsentCovers' /\ DelegatesOnlyRead' /\ KeepsOutside]_apVars
  <2>1. Inv' => ConsentCovers' /\ DelegatesOnlyRead'
    BY DEF ApInv
  <2> QED
    BY <1>2, <2>1, OutsideStep
<1> HIDE DEF Inv
<1> QED
  BY <1>1, <1>2, <1>3, <1>4, PTL DEF ApSpec, ApprovalsHold, StaysAllowed

=============================================================================
