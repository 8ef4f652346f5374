------------------------------- MODULE Requests -------------------------------
(***************************************************************************)
(* What is sent to the provider.  A session's messages go to whichever      *)
(* backend is active: src/src/openai.rs sends them as they are,             *)
(* src/src/codex_responses.rs as a list of items, and src/src/anthropic.rs  *)
(* as turns of blocks, in which an answer is sent back as the blocks that   *)
(* came (src/src/agent.rs keeps them beside its own copy of the calls, until *)
(* the session is saved and loaded).                                        *)
(***************************************************************************)
EXTENDS Integers, Sequences, FiniteSets, SequencesExt

CONSTANTS
    RqBackends, \* those a session goes on with, of Adapters below
    MaxSteps,   \* bound on the answers of a session
    MaxBatches  \* bound on the calls of an answer

VARIABLES
    rqMessages, \* the session's messages
    rqBackend,  \* the active backend
    rqTurn,     \* a turn is running: its calls were answered
    rqRan       \* history: for each call, the input it was decided and run with

rqVars == <<rqMessages, rqBackend, rqTurn, rqRan>>

Plainly(role) == [role |-> role, text |-> TRUE, calls |-> <<>>, native |-> <<>>, id |-> 0]
RqResult(id) == [Plainly("tool") EXCEPT !.id = id]
CallBlock(id, input) == [kind |-> "call", id |-> id, input |-> input]
TextBlock(kind) == [kind |-> kind, id |-> 0, input |-> "none"]
ResultBlock(id) == [TextBlock("result") EXCEPT !.id = id]

RqInit ==
    /\ rqMessages = <<Plainly("system")>> /\ rqBackend \in RqBackends
    /\ rqTurn = FALSE /\ rqRan = <<>>

RqAnswers == Cardinality({i \in DOMAIN rqMessages : rqMessages[i].role = "assistant"})

\* A turn may end before its first answer, once.
Asked == Cardinality({i \in 2..Len(rqMessages) : rqMessages[i].role = "user" /\ rqMessages[i - 1].role # "tool"})

AskTurn ==
    /\ ~rqTurn /\ RqAnswers < MaxSteps /\ Asked <= RqAnswers
    /\ rqMessages' = Append(rqMessages, Plainly("user"))
    /\ rqTurn' = TRUE /\ UNCHANGED <<rqBackend, rqRan>>

\* The blocks of an answer of Anthropic: its thinking, its text and its calls.  A
\* call whose block is not stopped when the stream ends has none.
NativeBlocks(how, thinks, text, ids) ==
    (IF thinks THEN <<TextBlock("thinking")>> ELSE <<>>)
      \o (IF text \/ how = "inline" THEN <<TextBlock("text")>> ELSE <<>>)
      \o [i \in 1..(IF how = "whole" THEN Len(ids) ELSE IF how = "cut" THEN Len(ids) - 1 ELSE 0) |->
            CallBlock(ids[i], "asked")]

\* Only Anthropic's stream has blocks.
Native(native) == IF rqBackend = "anthropic" THEN native ELSE <<>>

\* An answer and, when it has calls, their results.  Hooks rewrite the input of
\* some, and what they add follows the results.  A call may also come as text.
RqAnswer(how, n, text, thinks, rewritten, adds) ==
    LET ids == [i \in 1..n |-> Len(rqRan) + i]
        input == [i \in 1..n |-> IF i \in rewritten THEN "rewritten" ELSE "asked"]
    IN  /\ rqTurn /\ RqAnswers < MaxSteps
        /\ how # "whole" => n > 0
        /\ how = "inline" => n = 1 /\ ~text
        /\ thinks => rqBackend = "anthropic"
        /\ rqRan' = rqRan \o input
        /\ rqMessages' = rqMessages
             \o <<[role |-> "assistant", text |-> text, id |-> 0,
                   calls |-> [i \in 1..n |-> CallBlock(ids[i], input[i])],
                   native |-> Native(NativeBlocks(how, thinks, text, ids))]>>
             \o [i \in 1..n |-> RqResult(ids[i])]
             \o (IF adds THEN <<Plainly("user")>> ELSE <<>>)
        /\ rqTurn' = (n > 0) /\ UNCHANGED rqBackend

\* Ctrl-C or the step limit after the results.
RqStop == rqTurn /\ rqTurn' = FALSE /\ UNCHANGED <<rqMessages, rqBackend, rqRan>>

ToBackend ==
    /\ ~rqTurn /\ rqBackend' \in RqBackends
    /\ UNCHANGED <<rqMessages, rqTurn, rqRan>>

\* The session is read from its file: provider_content is not written there.
RqResume ==
    /\ ~rqTurn
    /\ rqMessages' = [i \in DOMAIN rqMessages |-> [rqMessages[i] EXCEPT !.native = <<>>]]
    /\ UNCHANGED <<rqBackend, rqTurn, rqRan>>

RqNext ==
    \/ AskTurn \/ RqStop \/ ToBackend \/ RqResume
    \/ \E how \in {"whole", "cut", "inline"}, n \in 0..MaxBatches, text, thinks, adds \in BOOLEAN :
          \E rewritten \in {{}, 1..(n - 1), {n} \ {0}} : RqAnswer(how, n, text, thinks, rewritten, adds)

-----------------------------------------------------------------------------
(* Bodies: sequences of turns, each a role and its blocks. *)

Turn(role, blocks) == [role |-> role, blocks |-> blocks]
TextOf(m) == IF m.text THEN <<TextBlock("text")>> ELSE <<>>
Stored(m) == TextOf(m) \o m.calls

BlocksOf(m) == IF m.native = <<>> THEN Stored(m) ELSE m.native

\* flush_tool_results
WithResults(acc) ==
    IF acc.results = <<>> THEN acc.out ELSE Append(acc.out, Turn("user", acc.results))

\* Mutant: results wait for the next answer, whatever comes in between.
AddTurnLate(acc, m) ==
    IF m.role = "tool" THEN [acc EXCEPT !.results = Append(@, ResultBlock(m.id))]
    ELSE IF m.role = "system" THEN acc
    ELSE IF m.role = "user" THEN [acc EXCEPT !.out = Append(@, Turn("user", BlocksOf(m)))]
    ELSE [results |-> <<>>,
          out |-> WithResults(acc) \o (IF BlocksOf(m) = <<>> THEN <<>> ELSE <<Turn(m.role, BlocksOf(m))>>)]

AddTurn(acc, m) ==
    IF m.role = "tool" THEN [acc EXCEPT !.results = Append(@, ResultBlock(m.id))]
    ELSE [results |-> <<>>,
          out |-> WithResults(acc)
                    \o (IF m.role = "system" \/ BlocksOf(m) = <<>> THEN <<>>
                        ELSE <<Turn(m.role, BlocksOf(m))>>)]

AnthropicBody(messages) ==
    WithResults(FoldLeft(AddTurn, [out |-> <<>>, results |-> <<>>], messages))

ItemsOf(m) ==
    CASE m.role = "system" -> <<>>
      [] m.role = "tool" -> <<Turn("user", <<ResultBlock(m.id)>>)>>
      [] OTHER -> (IF m.text THEN <<Turn(m.role, TextOf(m))>> ELSE <<>>)
                    \o [i \in DOMAIN m.calls |-> Turn(m.role, <<m.calls[i]>>)]

CodexBody(messages) == FlattenSeq([i \in DOMAIN messages |-> ItemsOf(messages[i])])

ChatBody(messages) ==
    [i \in DOMAIN messages |->
        IF messages[i].role = "tool" THEN Turn("tool", <<ResultBlock(messages[i].id)>>)
        ELSE Turn(messages[i].role, Stored(messages[i]))]

Body(b) ==
    CASE b = "anthropic" -> AnthropicBody(rqMessages)
      [] b = "codex" -> CodexBody(rqMessages)
      [] OTHER -> ChatBody(rqMessages)

Ids(blocks, kind) == {blocks[i].id : i \in {j \in DOMAIN blocks : blocks[j].kind = kind}}

\* Each turn with calls is followed by the one turn that has their results.
InPairs(body) ==
    \A i \in DOMAIN body :
        /\ Ids(body[i].blocks, "call") # {} =>
              i < Len(body) /\ Ids(body[i + 1].blocks, "result") = Ids(body[i].blocks, "call")
        /\ Ids(body[i].blocks, "result") # {} =>
              i > 1 /\ Ids(body[i - 1].blocks, "call") = Ids(body[i].blocks, "result")

\* The blocks that came have the calls that were found in the answer: not so when
\* a call came as text, or its block was cut off.
Telling ==
    \A i \in DOMAIN rqMessages :
        LET m == rqMessages[i]
        IN  m.native # <<>> => Ids(m.native, "call") = Ids(m.calls, "call")

\* Whatever backends gave the answers, however turns were stopped and whatever
\* hooks added, a request to Anthropic has each call's result in the turn after it
\* (the API refuses it otherwise), unless a call has no block.
RequestPaired == Telling => InPairs(AnthropicBody(rqMessages))

BlocksOfKind(body, kind) ==
    SelectSeq(FlattenSeq([i \in DOMAIN body |-> body[i].blocks]), LAMBDA block : block.kind = kind)
IdsInOrder(body, kind) == LET s == BlocksOfKind(body, kind) IN [i \in DOMAIN s |-> s[i].id]

\* A session that goes on with another backend shows it every call and every
\* result, in the order in which they happened.
SwitchKeepsCalls ==
    Telling => \A b \in RqBackends : \A kind \in {"call", "result"} :
        IdsInOrder(Body(b), kind) = [i \in DOMAIN rqRan |-> i]

\* agent_integration_test.rs:529 says that a rewrite updates the executed and the
\* stored input; a request then tells the model what was run.
SentAsRan ==
    LET calls == BlocksOfKind(Body(rqBackend), "call")
    IN  \A i \in DOMAIN calls : calls[i].input = rqRan[calls[i].id]

-----------------------------------------------------------------------------
(* Effort: a request asks for a level, the backend's adapter sends its own    *)
(* word for it or none, and the route ledger says what was sent.            *)

Levels == <<"none", "minimal", "low", "medium", "high", "xhigh", "max">>
Ranks == [word \in ToSet(Levels) |-> CHOOSE i \in DOMAIN Levels : Levels[i] = word]
RankOf(word) == Ranks[word]
Unsent == "unsent"
Adapters == {"openai", "openrouter", "local", "anthropic", "codex"}

\* Models of Anthropic without effort, with up to "high", with "max" but not
\* "xhigh", and with both.
EffortModels == {"older", "high", "max", "both"}

AnthropicEffort(model, level) ==
    CASE model = "older" -> Unsent
      [] model # "older" /\ RankOf(level) <= 3 -> "low"
      [] model # "older" /\ level \in {"medium", "high"} -> level
      [] level = "xhigh" /\ model # "older" -> IF model = "both" THEN "xhigh" ELSE "high"
      [] level = "max" /\ model # "older" -> IF model = "high" THEN "high" ELSE "max"

OpenAiEffort(level) ==
    CASE level = "none" -> Unsent
      [] level \in {"xhigh", "max"} -> "high"
      [] OTHER -> level

RouterEffort(level) == IF level = "max" THEN "xhigh" ELSE level

\* apply_effort_to_request and the builders of the other bodies.
EffortSent(b, model, level) ==
    CASE b = "openrouter" -> RouterEffort(level)
      [] b = "openai" -> OpenAiEffort(level)
      [] b = "anthropic" -> AnthropicEffort(model, level)
      [] b = "codex" -> IF level = "none" THEN Unsent ELSE level
      [] OTHER -> Unsent

AuditOpenAi(level) ==
    LET sent == OpenAiEffort(level)
    IN  <<sent, IF sent = Unsent THEN "disabled" ELSE IF sent = level THEN "applied" ELSE "mapped">>

\* route_audit.rs effective_effort: the level and how it came to be.
Audited(b, model, level) ==
    CASE b = "openrouter" -> <<RouterEffort(level), IF level = "max" THEN "mapped" ELSE "applied">>
      [] b = "openai" -> AuditOpenAi(level)
      [] b = "anthropic" -> LET sent == AnthropicEffort(model, level)
                            IN  <<sent, IF sent = Unsent THEN "unsupported"
                                        ELSE IF sent = level THEN "applied" ELSE "mapped">>
      [] b = "codex" -> IF level = "none" THEN <<Unsent, "disabled">> ELSE <<level, "applied">>
      [] OTHER -> <<Unsent, "unsupported">>

\* The active backend, and those that the sessions here do not use.
Asking == {rqBackend} \cup (Adapters \ RqBackends)

\* What the route ledger records of a request's effort, from which spending is
\* explained, is what the request of that backend had.
AuditIsSent ==
    rqTurn => \A b \in Asking, model \in EffortModels, level \in ToSet(Levels) :
        LET audit == Audited(b, model, level)
        IN  /\ audit[1] = EffortSent(b, model, level)
            /\ audit[2] = "applied" <=> audit[1] = level
            /\ audit[2] = "mapped" <=> audit[1] \notin {level, Unsent}

\* A model that lacks a level gets another, yet asking for more never gives less.
EffortOrdered ==
    rqTurn => \A b \in Asking, model \in EffortModels, n \in 1..(Len(Levels) - 1) :
        LET more == EffortSent(b, model, Levels[n + 1])
            less == EffortSent(b, model, Levels[n])
        IN  /\ less # Unsent => more # Unsent
            /\ more # Unsent /\ less # Unsent => RankOf(less) <= RankOf(more)

\* The requests the backends make of a conversation.
RequestsSound == RequestPaired /\ SwitchKeepsCalls /\ AuditIsSent /\ EffortOrdered

=============================================================================
