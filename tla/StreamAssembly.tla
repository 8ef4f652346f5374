--------------------------- MODULE StreamAssembly ---------------------------
(***************************************************************************)
(* From the events of a streamed answer to text and tool calls: the        *)
(* parsers of openai.rs, anthropic.rs and codex_responses.rs, and what     *)
(* run_agent (agent.rs) makes of the chunks they hand it.                  *)
(*                                                                         *)
(* A server-sent event is a line and an empty line, which may arrive apart;*)
(* bytes of a line that is not complete are buffered and show nowhere.     *)
(* Arguments are split into parts, a text into tokens.  A call is the      *)
(* number the provider has for it, and so are its id and its name.         *)
(***************************************************************************)
EXTENDS Naturals, SequencesExt

CONSTANTS
    WireForms,  \* "chat", "anthropic", "codex" and "bare": codex without output_index
    MaxCalls,   \* bound on the calls of an answer
    MaxParts,   \* bound on the parts of a call's arguments
    SaidTexts   \* "none", "plain", or "json": a call written as text

ASSUME SmAssumption ==
    WireForms \subseteq {"chat", "anthropic", "codex", "bare"} /\ MaxCalls \in Nat /\ MaxParts \in Nat

CallTokens == 3   \* of such a text: the brace, the key "name", and the rest

VARIABLES
    smForm,    \* the provider's
    smMeant,   \* for each call it makes, the parts of its arguments
    smSays,    \* the text it says
    smKnown,   \* that text names a tool there is
    smSent,    \* the event on its way: none or one, as nobody looks past it
    smLine,    \* its line has arrived
    smParts,   \* parts sent of each call
    smBegun,   \* calls the provider has begun, and ended
    smOver,
    smTokens,  \* tokens it has sent
    smEnd,     \* "open", "closed" and not read out, "done", "eof" or "failed"
    smItems,   \* codex: CallState of each item
    smNext,    \* codex: next_index
    smJson,    \* anthropic: tool_json of the open blocks
    smBlocks,  \* anthropic: the blocks to be sent back
    smCalls,   \* run_agent: tool_calls, by index
    smText,    \* run_agent: tokens of assistant_text
    smHeld,    \* run_agent: buffering_inline
    smShown,   \* tokens shown
    smInline   \* the text was taken for a call

smPlan   == <<smForm, smMeant, smSays, smKnown>>
smRemote == <<smParts, smBegun, smOver, smTokens>>
smParser == <<smItems, smNext, smJson, smBlocks>>
smAgent  == <<smCalls, smText, smHeld, smShown, smInline>>
smVars   == <<smPlan, smSent, smLine, smRemote, smEnd, smParser, smAgent>>

Codex == smForm \in {"codex", "bare"}

SmInit ==
    /\ smForm \in WireForms /\ smSays \in SaidTexts /\ smKnown \in BOOLEAN
    /\ \E n \in 0..MaxCalls : smMeant \in [1..n -> 0..MaxParts]
    \* Text that looks like a call and comes with calls is held back for good.
    /\ smSays = "json" => smMeant = <<>>
    /\ smSent = <<>> /\ smLine = FALSE /\ smParts = [c \in DOMAIN smMeant |-> 0]
    /\ smBegun = {} /\ smOver = {} /\ smTokens = 0
    /\ smEnd = "open" /\ smItems = <<>> /\ smNext = 0 /\ smJson = <<>> /\ smBlocks = <<>>
    /\ smCalls = <<>> /\ smText = 0 /\ smHeld = FALSE /\ smShown = 0 /\ smInline = FALSE

-----------------------------------------------------------------------------
(* The provider.  It starts calls in order; anthropic sends one block after *)
(* the other, chat and codex may mix the parts of several calls, and codex   *)
(* may leave out the parts, as "output_item.done" has all arguments.         *)

Sends(event) ==
    /\ smEnd = "open" /\ smSent = <<>> /\ smSent' = <<event>>
    /\ UNCHANGED <<smPlan, smLine, smEnd, smParser, smAgent>>

Event(kind, c, n) == [kind |-> kind, call |-> c, n |-> n]

Startable(c) ==
    /\ c \notin smBegun \cup smOver /\ 1..c - 1 \subseteq smBegun
    /\ smForm = "anthropic" => 1..c - 1 \subseteq smOver

SendBegin(c) ==
    /\ Startable(c) /\ Sends(Event("begin", c, 0)) /\ smBegun' = smBegun \cup {c}
    /\ UNCHANGED <<smParts, smOver, smTokens>>

\* A bare provider may send parts of a call it has not announced.  One whose
\* first event is "end" is left out: handle_event makes its entry with the name,
\* so that no chunk says it and the call is dropped.
SendPart(c) ==
    /\ c \in smBegun \ smOver \/ (smForm = "bare" /\ Startable(c))
    /\ smParts[c] < smMeant[c] /\ Sends(Event("part", c, smParts[c] + 1))
    /\ smParts' = [smParts EXCEPT ![c] = @ + 1] /\ smBegun' = smBegun \cup {c}
    /\ UNCHANGED <<smOver, smTokens>>

SendEnd(c) ==
    /\ smForm # "chat" /\ c \in smBegun \ smOver
    /\ smForm = "anthropic" => smParts[c] = smMeant[c]
    /\ Sends(Event("end", c, smMeant[c])) /\ smOver' = smOver \cup {c}
    /\ UNCHANGED <<smParts, smBegun, smTokens>>

\* A text may be cut into deltas anywhere.
SendText(n) ==
    /\ smSays # "none" /\ smTokens + n <= CallTokens /\ Sends(Event("text", 0, n))
    /\ smTokens' = smTokens + n
    /\ UNCHANGED <<smParts, smBegun, smOver>>

SendDone ==
    /\ DOMAIN smMeant \subseteq IF smForm = "chat" THEN smBegun ELSE smOver
    /\ smForm = "chat" => smParts = smMeant
    /\ smSays # "none" => smTokens = CallTokens
    /\ Sends(Event("done", 0, 0)) /\ UNCHANGED smRemote

-----------------------------------------------------------------------------
(* run_agent: what a chunk adds. *)

\* A map with an entry made or replaced; and the first n parts of arguments.
Put(f, key, entry) == [k \in DOMAIN f \cup {key} |-> IF k = key THEN entry ELSE f[k]]
Parts(n) == [i \in 1..n |-> i]

NoCall == [id |-> 0, name |-> <<>>, args |-> <<>>]

\* A tool call delta; 0 and the empty sequence stand for what it leaves out.
Delta(index, id, name, args) ==
    LET old == IF index \in DOMAIN smCalls THEN smCalls[index] ELSE NoCall
        new == [id   |-> IF id = 0 THEN old.id ELSE id,
                name |-> IF name = 0 THEN old.name ELSE Append(old.name, name),
                args |-> old.args \o args]
    IN  smCalls' = Put(smCalls, index, new)

\* looks_like_start_of_tool_call
LooksLikeCall(tokens) == smSays = "json" /\ tokens >= 2

\* Only the first delta that is not empty decides whether the text is held.
Content(n) ==
    LET held == smHeld \/ (smText = 0 /\ LooksLikeCall(smText + n)) IN
    /\ smText' = smText + n /\ smHeld' = held
    /\ smShown' = IF held THEN smShown ELSE smShown + n

-----------------------------------------------------------------------------
(* The parsers: what an event adds. *)

\* OpenAI-compatible streams say the index, id and name, and then the parts.
ChatEvent(e) ==
    /\ IF e.kind = "begin" THEN Delta(e.call, e.call, e.call, <<>>)
       ELSE Delta(e.call, 0, 0, <<e.n>>)
    /\ UNCHANGED smParser

\* AnthropicSseParser::process_data.  The finished block is kept to be sent back.
AnthropicEvent(e) ==
    /\ CASE e.kind = "begin" -> /\ Delta(e.call, e.call, e.call, <<>>)
                                /\ smJson' = Put(smJson, e.call, <<>>)
                                /\ UNCHANGED smBlocks
         [] e.kind = "part"  -> /\ Delta(e.call, 0, 0, <<e.n>>)
                                /\ smJson' = [smJson EXCEPT ![e.call] = Append(@, e.n)]
                                /\ UNCHANGED smBlocks
         [] e.kind = "end"   -> /\ smBlocks' = Append(smBlocks, <<e.call, smJson[e.call]>>)
                                /\ smJson' = [b \in DOMAIN smJson \ {e.call} |-> smJson[b]]
                                /\ UNCHANGED smCalls
    /\ UNCHANGED <<smItems, smNext>>

\* The entry of an item, made when there is none, with the index it is given.
NewIndex(e) == IF smForm = "codex" THEN e.call ELSE smNext

ItemOf(e, id) ==
    IF e.call \in DOMAIN smItems THEN smItems[e.call]
    ELSE [index |-> NewIndex(e), id |-> id, name |-> id, args |-> <<>>]

Keep(e, item) ==
    /\ smItems' = Put(smItems, e.call, item)
    /\ smNext' = IF smForm = "bare" /\ e.call \notin DOMAIN smItems THEN smNext + 1 ELSE smNext

\* Mutant: the arguments of "done" are added to those that were streamed.
RemainderAll(args, had) == args

\* What "done" has beyond what was streamed.
Remainder(args, had) == IF IsPrefix(had, args) THEN SubSeq(args, Len(had) + 1, Len(args)) ELSE args

\* handle_event
CodexEvent(e) ==
    /\ CASE e.kind = "begin" ->
              LET item == [index |-> NewIndex(e), id |-> e.call, name |-> e.call, args |-> <<>>]
              IN  Keep(e, item) /\ Delta(item.index, e.call, e.call, <<>>)
         [] e.kind = "part" ->
              LET item == ItemOf(e, 0)
              IN  Keep(e, [item EXCEPT !.args = Append(@, e.n)]) /\ Delta(item.index, 0, 0, <<e.n>>)
         [] e.kind = "end" ->
              LET item   == ItemOf(e, e.call)
                  named  == IF item.id = 0 \/ item.name = 0 THEN e.call ELSE 0
                  args   == Parts(e.n)
                  rest   == IF args \in {<<>>, item.args} THEN <<>> ELSE Remainder(args, item.args)
              IN  /\ Keep(e, [index |-> item.index, id |-> e.call, name |-> e.call,
                               args |-> IF rest = <<>> THEN item.args ELSE args])
                  /\ IF named = 0 /\ rest = <<>> THEN UNCHANGED smCalls
                     ELSE Delta(item.index, named, named, rest)
    /\ UNCHANGED <<smJson, smBlocks>>

Take(e) ==
    IF e.kind = "text" THEN Content(e.n) /\ UNCHANGED <<smParser, smCalls>>
    ELSE /\ UNCHANGED <<smText, smHeld, smShown>>
         /\ CASE smForm = "chat"      -> ChatEvent(e)
              [] smForm = "anthropic" -> AnthropicEvent(e)
              [] Codex                -> CodexEvent(e)

-----------------------------------------------------------------------------
(* The stream. *)

\* A line alone is kept in data; the empty line after it ends the event.
FeedLine ==
    /\ smEnd = "open" /\ smSent # <<>> /\ ~smLine /\ smLine' = TRUE
    /\ UNCHANGED <<smPlan, smSent, smRemote, smEnd, smParser, smAgent>>

\* The calls that are complete enough to be made, by index.
FinalCalls(calls) == {i \in DOMAIN calls : calls[i].id # 0 /\ calls[i].name # <<>>}

\* After the stream: text that was held is a call, or is shown after all.
Settle ==
    LET alone == FinalCalls(smCalls) = {} /\ smHeld
        call  == alone /\ smKnown /\ smText = CallTokens IN
    /\ smInline' = call
    /\ smShown' = IF alone /\ ~call THEN smText ELSE smShown
    /\ UNCHANGED <<smCalls, smText, smHeld>>

FeedBlank ==
    /\ smEnd = "open" /\ smLine /\ smLine' = FALSE /\ smSent' = <<>>
    /\ IF smSent[1].kind = "done" THEN smEnd' = "done" /\ Settle /\ UNCHANGED smParser
       ELSE Take(smSent[1]) /\ UNCHANGED <<smEnd, smInline>>
    /\ UNCHANGED <<smPlan, smRemote>>

\* The connection is closed before the terminator, which is no error.
Close ==
    /\ smEnd = "open" /\ smEnd' = "closed"
    /\ smSent' = IF smLine THEN smSent ELSE <<>>
    /\ UNCHANGED <<smPlan, smLine, smRemote, smParser, smAgent>>

\* finalize: a line that has arrived is an event without its empty line.
Finalize ==
    /\ smEnd = "closed" /\ smSent' = <<>> /\ smLine' = FALSE
    /\ IF smSent # <<>> /\ smSent[1].kind # "done"
       THEN Take(smSent[1]) /\ UNCHANGED <<smEnd, smInline>>
       ELSE smEnd' = "eof" /\ Settle /\ UNCHANGED smParser
    /\ UNCHANGED <<smPlan, smRemote>>

\* An error event, an error of the connection, or Ctrl-C: the answer is dropped.
StreamFails ==
    /\ smEnd \in {"open", "closed"} /\ smEnd' = "failed" /\ smSent' = <<>> /\ smLine' = FALSE
    /\ UNCHANGED <<smPlan, smRemote, smParser, smAgent>>

SmNext ==
    \/ \E c \in DOMAIN smMeant : SendBegin(c) \/ SendPart(c) \/ SendEnd(c)
    \/ \E n \in 1..CallTokens : SendText(n)
    \/ SendDone \/ FeedLine \/ FeedBlank \/ Close \/ Finalize \/ StreamFails

SmSpec == SmInit /\ [][SmNext]_smVars

-----------------------------------------------------------------------------
(* Properties. *)

Whole(c) == Parts(smMeant[c])

\* CHANGELOG.md:989 "Tool-call reassembly across streamed chunks": when the
\* stream has come to its end, the calls made are those the provider meant, in its
\* order and each with its own arguments, however they were mixed, cut and
\* announced; and what is sent back to Anthropic is what it sent.
AssembledAsMeant ==
    smEnd = "done" =>
        LET made == FinalCalls(smCalls) IN
        /\ {smCalls[i] : i \in made} =
              {[id |-> c, name |-> <<c>>, args |-> Whole(c)] : c \in DOMAIN smMeant}
        /\ \A i, j \in made : i < j => smCalls[i].id < smCalls[j].id
        /\ smForm = "anthropic" => smBlocks = [c \in DOMAIN smMeant |-> <<c, Whole(c)>>]

\* Even of an answer that is cut short, no call has another's arguments, a part
\* twice, or one without those before it.
NothingMixed ==
    \A i \in DOMAIN smCalls :
        LET call == smCalls[i] IN
        /\ call.id # 0 => call.name = <<call.id>>
        /\ \E c \in DOMAIN smMeant : call.id \in {0, c} /\ IsPrefix(call.args, Whole(c))

\* The user sees the whole text, once, unless it was a call.
TextShownOnce ==
    smEnd \in {"done", "eof"} => smShown = IF smInline THEN 0 ELSE smText

\* What is assembled of a stream is what the model meant.
StreamSound == AssembledAsMeant /\ NothingMixed /\ TextShownOnce

\* README.md:1397 "emit tool calls as plain content (...) instead of populating the
\* `tool_calls` field. Albatross detects and synthesizes a real tool call."
InlineCallFound ==
    smEnd = "done" /\ smSays = "json" /\ smKnown => smInline

=============================================================================
