------------------------------ MODULE AgentLoop ------------------------------
(***************************************************************************)
(* run_agent (src/src/agent.rs): the loop of one turn over model requests, *)
(* tool calls, hooks and compaction.                                       *)
(*                                                                         *)
(* A step asks the model, resolves the calls it makes one by one (hooks,   *)
(* approval, snapshot), then runs what was granted (read-only tools at     *)
(* once, the others in call order), then answers the calls in order and    *)
(* perhaps compacts the transcript.  Ctrl-C may come at any time.          *)
(*                                                                         *)
(* ToolNames has one tool of each kind the loop tells apart; arguments are *)
(* reduced to whether require_approval says TRUE of them; the id of a call *)
(* is the pair of its step and its place in the batch.                     *)
(***************************************************************************)
EXTENDS Transcript, FiniteSets

CONSTANTS
    Tools,        \* the tools the model calls, a subset of ToolNames
    HookEvents,   \* the hook events some configured hook matches
    HasProvider,  \* an ApprovalProvider was passed
    Capturing,    \* a TurnCapturer was passed
    Guarded,      \* a context guard with auto_compact was passed
    KeepMessages, \* guard.keep_messages
    MaxSteps,     \* max_steps
    MaxCalls,     \* bound: calls in one assistant message
    Earlier       \* the transcript the turn starts with

ToolNames == {"file_read", "file_write", "shell", "task", "update_plan", "missing"}
Events == {"PreToolUse", "PermissionRequest", "SubagentStart", "PlanUpdated",
           "SubagentStop", "PostToolUse", "PreCompact", "PostCompact"}

ASSUME ParametersAssumption ==
    /\ Tools \subseteq ToolNames /\ HookEvents \subseteq Events
    /\ {HasProvider, Capturing, Guarded} \subseteq BOOLEAN
    /\ KeepMessages \in Nat \ {0} /\ MaxSteps \in Nat /\ MaxCalls \in Nat \ {0}
\* A turn starts on a transcript that pairs each call with its result.
ASSUME EarlierAssumption == Earlier \in Seq({Earlier[i] : i \in DOMAIN Earlier}) /\ Valid(Earlier)

\* A value of Earlier for TLC: one exchange, and the new prompt of the user.
OneExchange == <<User(<<0, 1>>), Assistant(<<0, 2>>, {}), User(<<0, 3>>)>>

Known    == ToolNames \ {"missing"}       \* tool_map
ReadOnly == {"file_read"}                 \* is_read_only_tool
Mutation == {"file_write"}                \* is_mutation_tool
Call     == [tool : Tools, asks : BOOLEAN]

\* What the hooks of one event decide together: the decisions of all that
\* match, whichever order they come in.
Summarize(decisions) ==
    LET block == decisions \cap {"block", "deny"} # {}
        stop  == "stop" \in decisions
    IN  [block |-> block, stop |-> stop,
         allow |-> "allow" \in decisions /\ ~block /\ ~stop]
Silent == Summarize({})
Outcomes(event) ==
    IF event \in HookEvents
    THEN {Summarize(d) : d \in SUBSET {"allow", "block", "deny", "stop"}} ELSE {Silent}

\* updatedInput counts only with allow, and not when a hook refuses.
Rewrites(outcome, asks) == IF outcome.allow THEN BOOLEAN ELSE {asks}

VARIABLES
    step,         \* steps_taken
    phase,        \* where the loop is
    batch,        \* tcs: the calls, with the arguments the hooks left them
    entry,        \* pending: "run" or "done" for every call resolved
    stopBatch,    \* stop_remaining_reason is Some
    stopAfter,    \* stop_after_step
    output,       \* the calls of the batch that have their output
    answered,     \* how many calls have their tool message
    contexts,     \* hook_contexts is not empty
    messages,     \* the transcript
    natural,      \* natural_stop
    rewritten,    \* transcript_rewritten
    cancelled,    \* the token
    result,       \* how run_agent ended
    (* History variables: no action reads them. *)
    consent,      \* consent[i]: a hook or the user approved call i
    snapped,      \* the calls of the batch whose files were snapshotted
    ran,          \* the calls of the batch that ran, in the order they ended
    halt,         \* a stop that was taken note of: "no", "before", "after" tools
    asked         \* a hook asked to stop before the batch ran

loop  == <<step, natural, rewritten, cancelled, result>>
calls == <<batch, entry, stopBatch, consent, snapped, asked>>
vars  == <<phase, calls, stopAfter, output, answered, contexts, messages, loop, ran, halt>>

Indices == 1..Len(batch)
Id(i)   == <<step, i>>
Ids(n)  == {Id(i) : i \in 1..n}

-----------------------------------------------------------------------------
(* Asking the model. *)

Init ==
    /\ phase = "start" /\ step = 0 /\ messages = Earlier
    /\ batch = << >> /\ entry = << >> /\ output = {} /\ answered = 0
    /\ stopBatch = FALSE /\ stopAfter = FALSE /\ contexts = FALSE
    /\ natural = FALSE /\ rewritten = FALSE /\ cancelled = FALSE /\ result = "none"
    /\ consent = << >> /\ snapped = {} /\ ran = << >> /\ halt = "no" /\ asked = FALSE

\* Jev answered the prompt itself: no model is asked.
DirectAnswer ==
    /\ phase = "start" /\ ~cancelled
    /\ messages' = Append(messages, Assistant(Id(0), {}))
    /\ phase' = "returned" /\ result' = "ended"
    /\ UNCHANGED <<calls, stopAfter, output, answered, contexts, step, natural, rewritten,
                   cancelled, ran, halt>>

Start ==
    /\ phase = "start" /\ phase' = "model"
    /\ UNCHANGED <<calls, stopAfter, output, answered, contexts, messages, loop, ran, halt>>

\* Mutant: the step limit is not looked at.
BeginAnyStep ==
    /\ phase = "model" /\ ~cancelled
    /\ phase' = "stream" /\ step' = step + 1
    /\ UNCHANGED <<calls, stopAfter, output, answered, contexts, messages, natural,
                   rewritten, cancelled, result, ran, halt>>

BeginStep ==
    /\ phase = "model" /\ ~cancelled /\ step < MaxSteps
    /\ phase' = "stream" /\ step' = step + 1
    /\ UNCHANGED <<calls, stopAfter, output, answered, contexts, messages, natural,
                   rewritten, cancelled, result, ran, halt>>

\* The request fails, or is given up because the token was cancelled: `?`
\* drops the messages of the turn.
RequestFails ==
    /\ phase = "stream" /\ phase' = "failed" /\ result' = "error"
    /\ UNCHANGED <<calls, stopAfter, output, answered, contexts, messages, step, natural,
                   rewritten, cancelled, ran, halt>>

NewBatch(b) ==
    /\ batch' = b /\ entry' = << >> /\ output' = {} /\ answered' = 0
    /\ stopBatch' = FALSE /\ stopAfter' = FALSE /\ contexts' = FALSE
    /\ consent' = << >> /\ snapped' = {} /\ ran' = << >> /\ asked' = FALSE

ModelAnswers ==
    /\ phase = "stream" /\ phase' = "ended"
    /\ messages' = Append(messages, Assistant(Id(0), {}))
    /\ natural' = TRUE
    /\ NewBatch(<< >>)
    /\ UNCHANGED <<step, rewritten, cancelled, result, halt>>

ModelCalls(b) ==
    /\ phase = "stream" /\ phase' = "resolve"
    /\ NewBatch(b)
    /\ UNCHANGED <<messages, loop, halt>>

-----------------------------------------------------------------------------
(* Phase 1: resolving the calls, one after the other. *)

Resolving == phase = "resolve" /\ Len(entry) < Len(batch)
Newest    == Len(entry) + 1
Tool      == batch[Newest].tool

\* Hooks that were asked may leave context for the model.
MayAddContext == contexts' \in {contexts, contexts \/ HookEvents # {}}

Settle(how, asks, approved) ==
    /\ entry'   = Append(entry, how)
    /\ batch'   = [batch EXCEPT ![Newest] = [tool |-> Tool, asks |-> asks]]
    /\ consent' = Append(consent, approved)
    /\ UNCHANGED <<phase, stopAfter, output, answered, messages, loop, ran>>

StopIf(stop) ==
    /\ stopBatch' = (stopBatch \/ stop)
    /\ halt' = IF stop THEN "before" ELSE halt

\* A stop of an earlier call: no hook is asked.
SkipAfterStop ==
    /\ Resolving /\ stopBatch
    /\ Settle("done", batch[Newest].asks, FALSE)
    /\ UNCHANGED <<stopBatch, contexts, snapped, halt, asked>>

\* A PreToolUse stop counts when no hook of the event blocks.
Honored(pre) == pre.stop /\ ~pre.block

PreToolUseRefuses(pre) ==
    /\ Resolving /\ ~stopBatch /\ (pre.block \/ pre.stop)
    /\ Settle("done", batch[Newest].asks, FALSE)
    /\ StopIf(Honored(pre))
    /\ asked' = (asked \/ pre.stop)
    /\ MayAddContext /\ UNCHANGED snapped

Passes(pre) == Resolving /\ ~stopBatch /\ ~pre.block /\ ~pre.stop

UnknownTool(pre, asks) ==
    /\ Passes(pre) /\ Tool \notin Known
    /\ Settle("done", asks, FALSE)
    /\ MayAddContext /\ UNCHANGED <<stopBatch, snapped, halt, asked>>

\* The PermissionRequest hooks are asked before the user, and only when the
\* tool asks for approval of the arguments it is going to run with.
Approved(permission, yes) ==
    /\ ~permission.block /\ ~permission.stop
    /\ permission.allow \/ (HasProvider /\ yes)

\* Mutant: only a hook that blocks keeps the call from running.
ClearUnlessBlocked(asks, permission, yes) == asks => ~permission.block /\ (HasProvider => yes)

Clear(asks, permission, yes) == asks => Approved(permission, yes)

Deny(pre, asks, permission, yes) ==
    /\ Passes(pre) /\ Tool \in Known /\ ~Clear(asks, permission, yes)
    /\ Settle("done", asks, FALSE)
    /\ StopIf(permission.stop)
    /\ asked' = (asked \/ permission.stop)
    /\ MayAddContext /\ UNCHANGED snapped

SubagentRefused(pre, asks, permission, yes, start) ==
    /\ Passes(pre) /\ Tool = "task" /\ Clear(asks, permission, yes)
    /\ start.block \/ start.stop
    /\ Settle("done", asks, asks)
    /\ StopIf(start.stop)
    /\ asked' = (asked \/ start.stop)
    /\ MayAddContext /\ UNCHANGED snapped

\* The snapshot is taken while the call is resolved, before any call runs.
Grant(pre, asks, permission, yes, start) ==
    /\ Passes(pre) /\ Tool \in Known /\ Clear(asks, permission, yes)
    /\ Tool = "task" => ~start.block /\ ~start.stop
    /\ Settle("run", asks, asks /\ Approved(permission, yes))
    /\ snapped' = IF Capturing /\ Tool \in Mutation THEN snapped \cup {Newest} ELSE snapped
    /\ MayAddContext /\ UNCHANGED <<stopBatch, halt, asked>>

Resolve ==
    \/ SkipAfterStop
    \/ \E pre \in Outcomes("PreToolUse") :
         \/ PreToolUseRefuses(pre)
         \/ Resolving /\ \E asks \in Rewrites(pre, batch[Newest].asks) :
              \/ UnknownTool(pre, asks)
              \/ \E permission \in IF asks THEN Outcomes("PermissionRequest") ELSE {Silent},
                    yes \in BOOLEAN :
                   \/ Deny(pre, asks, permission, yes)
                   \/ \E start \in IF Tool = "task" THEN Outcomes("SubagentStart")
                                                    ELSE {Silent} :
                        \/ SubagentRefused(pre, asks, permission, yes, start)
                        \/ Grant(pre, asks, permission, yes, start)

\* A stop takes back what was granted earlier in the batch.
Withdrawn(entries) ==
    IF stopBatch THEN [i \in DOMAIN entries |-> "done"] ELSE entries

FinishResolve ==
    /\ phase = "resolve" /\ Len(entry) = Len(batch)
    /\ phase'    = "run"
    /\ entry'    = Withdrawn(entry)
    /\ output'   = {i \in Indices : entry'[i] = "done"}
    /\ messages' = Append(messages, Assistant(Id(0), Ids(Len(batch))))
    /\ stopAfter' = stopBatch
    /\ UNCHANGED <<batch, stopBatch, consent, snapped, asked, answered, contexts, loop, ran, halt>>

-----------------------------------------------------------------------------
(* Phase 2: running them. *)

Granted  == {i \in Indices : entry[i] = "run"}
Reads    == {i \in Granted : batch[i].tool \in ReadOnly}
Serial   == Granted \ Reads

\* Reads run together and end in any order; the others wait for all of them
\* and for one another.
Ready(i) == i \in Reads \/ (Reads \cup {j \in Serial : j < i}) \subseteq output

RunCall(i) ==
    /\ phase = "run" /\ i \in Granted \ output /\ Ready(i)
    /\ output' = output \cup {i} /\ ran' = Append(ran, i)
    /\ UNCHANGED <<phase, calls, stopAfter, answered, contexts, messages, loop, halt>>

-----------------------------------------------------------------------------
(* Phase 3: answering them. *)

\* Mutant: a call that was refused gets no tool message.
AnswerRan(plan, post) ==
    /\ answered'  = answered + 1
    /\ messages'  = IF entry[answered + 1] = "done" THEN messages
                    ELSE Append(messages, ToolResult(Id(answered + 1)))
    /\ UNCHANGED <<phase, calls, output, loop, ran, stopAfter, halt, contexts>>

\* update_plan that succeeded asks the PlanUpdated hooks; a call that ran asks
\* SubagentStop or PostToolUse.  A block replaces the text of the result.
AnswerCall(plan, post) ==
    /\ answered'  = answered + 1
    /\ messages'  = Append(messages, ToolResult(Id(answered + 1)))
    /\ stopAfter' = (stopAfter \/ plan.stop \/ post.stop)
    /\ halt' = IF halt = "no" /\ (plan.stop \/ post.stop) THEN "after" ELSE halt
    /\ MayAddContext
    /\ UNCHANGED <<phase, calls, output, loop, ran>>

\* Mutant: a result is sent as soon as it is there.
AnswerEarly ==
    /\ phase = "run" /\ answered < Len(batch) /\ answered + 1 \in output
    /\ AnswerCall(Silent, Silent)

Answer ==
    /\ phase = "run" /\ output = Indices /\ answered < Len(batch)
    /\ LET i == answered + 1
           planned == entry[i] = "run" /\ batch[i].tool = "update_plan"
           event   == IF batch[i].tool = "task" THEN "SubagentStop" ELSE "PostToolUse"
       IN  \E plan \in IF planned THEN Outcomes("PlanUpdated") ELSE {Silent},
              post \in IF entry[i] = "run" THEN Outcomes(event) ELSE {Silent} :
                AnswerCall(plan, post)

WithContext(ms, given, k) == IF given THEN Append(ms, User(Id(MaxCalls + k))) ELSE ms

EndStep ==
    /\ phase = "run" /\ output = Indices /\ answered = Len(batch)
    /\ messages' = WithContext(messages, contexts, 1)
    /\ IF stopAfter THEN phase' = "ended" /\ natural' = TRUE
       ELSE phase' \in {"model"} \cup {"compact" : g \in {Guarded} \cap {TRUE}}
            /\ UNCHANGED natural
    /\ UNCHANGED <<calls, stopAfter, output, answered, contexts, step, rewritten, cancelled,
                   result, ran, halt>>

\* The budget is over the threshold.  Contexts of the PreCompact hooks join the
\* transcript before it is cut, those of the PostCompact hooks after.
Given(event) == IF event \in HookEvents THEN BOOLEAN ELSE {FALSE}

Compact(pre, given) ==
    /\ phase = "compact"
    /\ LET full == WithContext(messages, given, 2)
           cut  == IF pre.block THEN full ELSE Kept(full, KeepMessages)
           done == cut # full
       IN  \E post \in IF done THEN Outcomes("PostCompact") ELSE {Silent},
              after \in IF done THEN Given("PostCompact") ELSE {FALSE} :
             LET stop == pre.stop \/ post.stop
             IN  /\ messages'  = WithContext(cut, after, 3)
                 /\ rewritten' = (rewritten \/ done)
                 /\ natural'   = stop
                 /\ phase'     = IF stop THEN "ended" ELSE "model"
                 /\ halt'      = IF stop THEN "after" ELSE halt
    /\ UNCHANGED <<calls, stopAfter, output, answered, contexts, step, cancelled, result, ran>>

-----------------------------------------------------------------------------
(* The end, and Ctrl-C. *)

\* hit_step_limit and cancelled of the RunResult.
Outcome(exhausted) ==
    IF cancelled THEN "cancelled"
    ELSE IF exhausted /\ MaxSteps > 0 THEN "limit" ELSE "ended"

Return ==
    /\ \/ phase = "ended"
       \/ phase = "model" /\ (cancelled \/ step = MaxSteps)
    /\ phase' = "returned"
    /\ result' = Outcome(~natural)
    /\ UNCHANGED <<calls, stopAfter, output, answered, contexts, messages, step, natural,
                   rewritten, cancelled, ran, halt>>

Cancel ==
    /\ phase \notin {"returned", "failed"} /\ ~cancelled
    /\ cancelled' = TRUE
    /\ UNCHANGED <<phase, calls, stopAfter, output, answered, contexts, messages, step,
                   natural, rewritten, result, ran, halt>>

Proceed ==
    \/ Start \/ BeginStep \/ ModelAnswers
    \/ \E n \in 1..MaxCalls : \E b \in [1..n -> Call] : ModelCalls(b)
    \/ Resolve \/ FinishResolve \/ Answer \/ EndStep \/ Return
    \/ \E i \in Indices : RunCall(i)
    \/ \E pre \in Outcomes("PreCompact"), given \in Given("PreCompact") : Compact(pre, given)

Next == Proceed \/ DirectAnswer \/ RequestFails \/ Cancel

Spec == Init /\ [][Next]_vars

\* Every await of the loop ends: hooks and commands have timeouts, the user
\* answers a prompt (end of input is a denial), and the provider is assumed to
\* answer or to close its stream: a request has no timeout (see CancelToken).
FairSpec == Spec /\ WF_vars(Proceed)

-----------------------------------------------------------------------------
(* Properties. *)

Flags ==
    /\ stopBatch \in BOOLEAN /\ stopAfter \in BOOLEAN /\ contexts \in BOOLEAN
    /\ natural \in BOOLEAN /\ rewritten \in BOOLEAN /\ cancelled \in BOOLEAN
    /\ asked \in BOOLEAN

\* Every variable has its type.
TypeOK ==
    /\ Flags
    /\ phase \in {"start", "model", "stream", "resolve", "run", "compact", "ended",
                  "returned", "failed"}
    /\ step \in 0..MaxSteps
    /\ batch \in Seq(Call) /\ Len(batch) <= MaxCalls
    /\ entry \in Seq({"run", "done"}) /\ Len(entry) <= Len(batch)
    /\ consent \in Seq(BOOLEAN) /\ Len(consent) = Len(entry)
    /\ output \subseteq Indices /\ snapped \subseteq Indices /\ answered \in 0..Len(batch)
    /\ ran \in Seq(Indices)
    /\ halt \in {"no", "before", "after"}
    /\ result \in {"none", "ended", "cancelled", "limit", "error"}

\* A call that needs approval of the arguments it ran with, as the hooks left
\* them, ran only after a hook or the user approved it.
RanWithConsent ==
    \A k \in 1..Len(ran) : batch[ran[k]].asks => consent[ran[k]]

\* Once a stop before the tools is taken note of nothing of the batch runs, the
\* calls granted before it included; after any stop no model is asked again and
\* the turn does not count as cut off.
StopHolds ==
    /\ halt = "before" => ran = << >>
    /\ halt # "no" => phase \notin {"model", "stream", "compact"} /\ result # "limit"

\* README.md: "A pre-execution stop prevents other pending tool calls in the
\* same assistant step from running".
StopPreventsBatch == asked => ran = << >>

\* Reads end before anything else begins, the rest runs in call order, and a
\* mutation runs after its files were snapshotted.
ExecutionOrder ==
    /\ \A k, l \in 1..Len(ran) : k < l /\ ran[k] \in Serial => ran[l] \in Serial /\ ran[k] < ran[l]
    /\ \A k \in 1..Len(ran) : Capturing /\ batch[ran[k]].tool \in Mutation => ran[k] \in snapped

\* Whatever hooks, stops, refusals and compaction did, each request and the
\* transcript that is returned pair every call with one result.
RequestsValid == phase \in {"stream", "returned"} => Valid(messages)

\* agent.rs: hit_step_limit is "true when the loop stopped because it hit
\* max_steps while the model still had pending tool calls": never after a final
\* answer, a hook's stop or Ctrl-C; and a turn that ended by itself was ended by
\* one of the first two.
LimitMeansCutOff ==
    /\ result = "limit" => step = MaxSteps /\ batch # << >> /\ halt = "no" /\ ~cancelled
    /\ result = "ended" => batch = << >> \/ halt # "no"

\* What a turn promises of its batches, consent, stops and order (agent.rs:640-900),
\* and of its end: that it says what it was.
LoopSound == TypeOK /\ RanWithConsent /\ StopHolds /\ ExecutionOrder /\ LimitMeansCutOff

\* The calls of a batch keep the promise of ToolGate.
FateOf(i) ==
    IF i <= answered THEN "answered"
    ELSE IF i > Len(entry) THEN "proposed"
    ELSE IF entry[i] = "done" THEN "refused"
    ELSE IF i \in output THEN "executed" ELSE "granted"
Gate == INSTANCE ToolGate WITH fate <- [i \in Indices |-> FateOf(i)]
KeepsGate == Gate!Spec

\* The turn ends, whatever the model, the hooks and the user do.
Terminates == <>(phase \in {"returned", "failed"})

\* Ctrl-C ends the turn as cancelled, or with the error of the request it broke.
CancelEnds == cancelled ~> result \in {"cancelled", "error"}

=============================================================================
