---------------------------- MODULE Conversation ----------------------------
(***************************************************************************)
(* What a session remembers: the transcript in memory, the rolling summary *)
(* and the session files, over the turns of run_user_turn                  *)
(* (src/src/session_turn.rs), compaction (src/src/context_guard.rs),       *)
(* /compact, /new, /resume and restarts (src/src/main.rs).                 *)
(*                                                                         *)
(* Everything said gets a number of its own, its word; a message carries   *)
(* its word, who it is by, and whether the repo map was folded into it.  A *)
(* summary is the set of words it accounts for, so that what a model makes *)
(* of them does not matter.  A system message is the set of the summaries  *)
(* in it: {} when there is no system message, {{}} when it holds none.  A  *)
(* session file is its system message and the other messages, one a line.  *)
(* Sessions with /path branches are left to another module.                *)
(***************************************************************************)
EXTENDS Transcript

CONSTANTS
    KeepMessages,  \* guard.keep_messages
    Contexts,      \* what is added to prompts: "map" (repo map), "hook"
    CvRestarts,    \* how a session is taken up again: "resume", "continue"
    CompactLimit,  \* bound: compactions inside one turn
    RoundLimit,    \* bound: rounds of tool calls in one turn
    WordLimit,     \* bound: words given out before the last prompt
    FileLimit      \* bound: session files

ASSUME ConversationAssumption ==
    /\ KeepMessages \in Nat \ {0}
    /\ Contexts \subseteq {"map", "hook"} /\ CvRestarts \subseteq {"resume", "continue"}
    /\ {CompactLimit, RoundLimit, WordLimit, FileLimit} \subseteq Nat

VARIABLES
    phase,      \* "idle", "prepare" (the prompt is saved), "turn" or "down"
    messages,   \* state.messages without the system message
    system,     \* state.messages[0]
    summary,    \* state.conversation_summary; {} is None
    files,      \* the session files, oldest first
    current,    \* state.session_path
    (* The turn that is running. *)
    prompt,     \* the id of user_msg
    work,       \* run_agent's messages, without the system message
    shown,      \* the summary in its system message
    guard,      \* guard_params.conversation_summary
    rewritten,  \* transcript_rewritten
    rounds, compactions,
    (* What the properties compare with; only fresh words are read off it. *)
    words,      \* words given out so far
    told        \* told[i]: the words of the conversation files[i] is for

session == <<messages, system, summary, files, current, told>>
turn    == <<prompt, work, shown, guard, rewritten, rounds, compactions>>
cvVars  == <<phase, session, turn, words>>

Id(who, n)  == [by |-> who, word |-> n, map |-> FALSE]
Words(ms)   == {ms[i].id.word : i \in 1..Len(ms)}
Summary(sys) == UNION sys        \* extract_conversation_summary
Blank       == [system |-> {}, body |-> << >>]

-----------------------------------------------------------------------------
(* Session files. *)

\* save_message, for each of ms.
WithSaved(file, ms) == [file EXCEPT !.body = @ \o ms]

\* rewrite_session_transcript: a new file under a new name.
Rewrite(sys, ms, said) ==
    /\ Len(files) < FileLimit
    /\ files'   = Append(files, [system |-> sys, body |-> ms])
    /\ told'    = Append(told, said)
    /\ current' = Len(files) + 1

\* Mutant: a new summary starts from nothing.
FoldedAnew(existing, older) == Words(older)

\* The model that summarizes is given the existing summary and the older
\* messages; the deterministic trim appends to the existing summary.
Folded(existing, older) == existing \cup Words(older)

Older(ms) == SubSeq(ms, 1, Len(ms) - Len(Kept(ms, KeepMessages)))
Shortens(ms) == Kept(ms, KeepMessages) # ms

-----------------------------------------------------------------------------
(* The repo map rides in the last user message of a request. *)

LastUser(ms) == Most({0} \cup {i \in 1..Len(ms) : ms[i].role = "user"})

FoldMap(ms) == [ms EXCEPT ![LastUser(ms)].id.map = TRUE]

\* restore_last_user_message
Restore(ms, id) ==
    IF LastUser(ms) = 0 THEN ms ELSE [ms EXCEPT ![LastUser(ms)].id = id]

-----------------------------------------------------------------------------
(* A turn. *)

NoTurn ==
    /\ prompt' = Id("user", 0) /\ work' = << >> /\ shown' = {} /\ guard' = {}
    /\ rewritten' = FALSE /\ rounds' = 0 /\ compactions' = 0

CvInit ==
    /\ phase = "idle" /\ messages = << >> /\ system = {} /\ summary = {}
    /\ files = <<Blank>> /\ current = 1 /\ told = <<{}>> /\ words = 0
    /\ prompt = Id("user", 0) /\ work = << >> /\ shown = {} /\ guard = {}
    /\ rewritten = FALSE /\ rounds = 0 /\ compactions = 0

\* set_system_message: only a first system message is saved.
Prepared(file) == IF system = {} THEN [file EXCEPT !.system = {summary}] ELSE file

\* Ctrl-C while Jev routes the prompt: the prompt is not part of the session.
CancelRouting ==
    /\ phase = "idle"
    /\ system' = {summary}
    /\ files' = [files EXCEPT ![current] = Prepared(@)]
    /\ UNCHANGED <<phase, messages, summary, current, told, turn, words>>

Submit ==
    /\ phase = "idle" /\ phase' = "prepare"
    /\ words < WordLimit /\ words' = words + 1
    /\ prompt' = Id("user", words')
    /\ LET user == <<User(prompt')>>
       IN  /\ messages' = messages \o user
           /\ files' = [files EXCEPT ![current] = WithSaved(Prepared(@), user)]
           /\ told'  = [told EXCEPT ![current] = @ \cup {words'}]
    /\ system' = {summary}
    /\ UNCHANGED <<summary, current, work, shown, guard, rewritten, rounds, compactions>>

\* A PreCompact hook stops the turn: it keeps the prompt and no answer.
StopBeforeTurn ==
    /\ phase = "prepare" /\ "hook" \in Contexts /\ phase' = "idle"
    /\ NoTurn /\ UNCHANGED <<session, words>>

\* compact_messages on the session's own transcript.
CompactSession ==
    /\ Shortens(messages)
    /\ messages' = Kept(messages, KeepMessages)
    /\ summary'  = Folded(summary, Older(messages))
    /\ system'   = {summary'}
    /\ Rewrite(system', messages', told[current])

StartAgent ==
    /\ phase' = "turn"
    /\ work'  = IF "map" \in Contexts THEN FoldMap(messages') ELSE messages'
    /\ shown' = summary' /\ guard' = summary'
    /\ UNCHANGED <<prompt, rewritten, rounds, compactions, words>>

StartTurn ==
    /\ phase = "prepare"
    /\ UNCHANGED <<messages, summary, files, current, told>> /\ system' = {summary}
    /\ StartAgent

CompactAndStart == phase = "prepare" /\ CompactSession /\ StartAgent

Working(ms) == \* ms join the agent's messages
    /\ phase = "turn"
    /\ work' = work \o ms /\ words' = words + Len(ms)

\* One step of the loop with a call, its result and what hooks add.
Round(context) ==
    /\ rounds < RoundLimit /\ rounds' = rounds + 1
    /\ LET call == Id("tool", words + 2)
       IN  Working(<<Assistant(Id("agent", words + 1), {call}), ToolResult(call)>>
                   \o IF context THEN <<User(Id("hook", words + 3))>> ELSE << >>)
    /\ UNCHANGED <<phase, session, prompt, shown, guard, rewritten, compactions>>

\* maybe_compact_messages: the summary it extends is the one the turn began
\* with.  The session's summary follows the event at once.
CompactInTurn ==
    /\ phase = "turn" /\ rounds > 0 /\ Shortens(work)
    /\ compactions < CompactLimit /\ compactions' = compactions + 1
    /\ work'    = Kept(work, KeepMessages)
    /\ shown'   = Folded(guard, Older(work))
    /\ summary' = shown' /\ rewritten' = TRUE
    /\ UNCHANGED <<phase, messages, system, files, current, told, prompt, guard, rounds, words>>

\* run_agent returned Err: what the agent said is dropped.
FailTurn ==
    /\ phase = "turn" /\ phase' = "idle"
    /\ NoTurn /\ UNCHANGED <<session, words>>

MustRewrite(ms) == rewritten \/ Len(ms) < Len(messages)

\* Mutant: one message too early.
AppendedWithPrompt(ms) == SubSeq(ms, Len(messages), Len(ms))

\* messages[before..]
Appended(ms) == SubSeq(ms, Len(messages) + 1, Len(ms))

\* The conversation with what the running turn added to it.
Said == told[current] \cup (prompt.word + 1)..words

\* run_agent returned Ok, with a final answer unless it was stopped or cut off;
\* afterwards the tests may add their failures.
EndTurn(answers, feedback) ==
    /\ phase = "turn" /\ phase' = "idle"
    /\ LET final == IF answers THEN <<Assistant(Id("agent", words + 1), {})>> ELSE << >>
           last  == words + Len(final)
           tests == IF feedback THEN <<User(Id("test", last + 1))>> ELSE << >>
           sent  == work \o final
           done  == IF "map" \in Contexts THEN Restore(sent, prompt) ELSE sent
           new   == (words + 1)..(last + Len(tests))
       IN  /\ messages' = done \o tests
           /\ words' = last + Len(tests)
           /\ IF MustRewrite(done)
              THEN Rewrite({shown}, messages', Said \cup new)
              ELSE /\ files' = [files EXCEPT ![current] = WithSaved(@, Appended(done) \o tests)]
                   /\ told'  = [told EXCEPT ![current] = Said \cup new]
                   /\ UNCHANGED current
    /\ system' = {shown}
    /\ summary' = IF shown = {} THEN summary ELSE shown
    /\ NoTurn

-----------------------------------------------------------------------------
(* Between turns. *)

\* /compact
CompactCommand ==
    /\ phase = "idle" /\ CompactSession
    /\ UNCHANGED <<phase, turn, words>>

\* run_prompt_content, for /prompt run: one request of its own, whose prompt
\* stays when the request fails.  A system message it has to add holds no summary.
RunPrompt(answers) ==
    /\ phase = "idle"
    /\ words < WordLimit /\ words' = words + 1 + Cardinality(answers)
    /\ system' = IF system = {} THEN {{}} ELSE system
    /\ LET said == <<User(Id("user", words + 1))>>
                   \o IF answers = {} THEN << >> ELSE <<Assistant(Id("agent", words'), {})>>
       IN  /\ messages' = messages \o said
           /\ files' = [files EXCEPT ![current] = WithSaved([@ EXCEPT !.system = system'], said)]
    /\ told' = [told EXCEPT ![current] = @ \cup (words + 1)..words']
    /\ UNCHANGED <<phase, summary, current, turn>>

NewFile ==
    /\ Len(files) < FileLimit
    /\ messages' = << >> /\ system' = {} /\ summary' = {}
    /\ files' = Append(files, Blank) /\ told' = Append(told, {})
    /\ current' = Len(files) + 1

\* /new
NewSession ==
    /\ phase = "idle" /\ messages # << >> /\ NewFile
    /\ UNCHANGED <<phase, turn, words>>

Load(i) ==
    /\ files[i] # Blank                \* the file exists
    /\ messages' = files[i].body /\ system' = files[i].system
    /\ current' = i
    /\ UNCHANGED <<files, told, turn, words>>

\* /resume
ResumeCommand(i) ==
    /\ phase = "idle" /\ "resume" \in CvRestarts /\ Load(i)
    /\ summary' = Summary(files[i].system)
    /\ UNCHANGED phase

\* The program ends, or is killed, whatever it was doing.
Quit ==
    /\ phase # "down" /\ phase' = "down"
    /\ NoTurn /\ UNCHANGED <<session, words>>

Launch ==
    /\ phase = "down" /\ phase' = "idle"
    /\ NewFile /\ UNCHANGED <<turn, words>>

\* albatross --continue; which file was written last is left open.
Continue(i) ==
    /\ phase = "down" /\ "continue" \in CvRestarts /\ Load(i)
    /\ summary' = {} /\ phase' = "idle"

CvNext ==
    \/ CancelRouting \/ Submit \/ StopBeforeTurn \/ StartTurn \/ CompactAndStart
    \/ \E context \in {FALSE} \cup {TRUE : h \in {"hook"} \cap Contexts} : Round(context)
    \/ CompactInTurn \/ FailTurn
    \/ \E answers, feedback \in BOOLEAN : EndTurn(answers, feedback)
    \/ \E answers \in SUBSET {"agent"} : RunPrompt(answers)
    \/ CompactCommand \/ NewSession \/ Quit \/ Launch
    \/ \E i \in 1..Len(files) : ResumeCommand(i) \/ Continue(i)

CvSpec == CvInit /\ [][CvNext]_cvVars

-----------------------------------------------------------------------------
(* Properties. *)

Message == [role : {"user", "assistant", "tool"}, calls : SUBSET
            [by : {"tool"}, word : Nat, map : {FALSE}],
            id : [by : {"user", "agent", "tool", "hook", "test"}, word : Nat, map : BOOLEAN]]
Texts == Seq(Message)
Summaries == SUBSET Nat
SessionFile == [system : SUBSET Summaries, body : Texts]

\* Every variable has its type.
CvTypeOK ==
    /\ phase \in {"idle", "prepare", "turn", "down"}
    /\ messages \in Texts /\ work \in Texts
    /\ {summary, shown, guard} \subseteq Summaries /\ system \in SUBSET Summaries
    /\ files \in Seq(SessionFile)
    /\ told \in Seq(Summaries) /\ Len(told) = Len(files) /\ current \in 1..Len(files)
    /\ prompt \in [by : {"user"}, word : 0..words, map : {FALSE}]
    /\ rewritten \in BOOLEAN /\ {words, rounds, compactions} \subseteq Nat

\* Between turns and inside one, whatever was said in the conversation is in
\* the transcript or accounted for by the summary the model is shown.
NothingForgotten ==
    CASE phase \in {"idle", "prepare"} -> told[current] \subseteq Words(messages) \cup summary
      [] phase = "turn" -> Said \subseteq Words(work) \cup shown
      [] phase = "down" -> TRUE

\* Killed between any two steps, a session can be taken up from any of its files
\* without loss: what was said is in the file or in the summary it holds.
Recoverable ==
    \A i \in 1..Len(files) :
       told[i] \subseteq Words(files[i].body) \cup Summary(files[i].system)

\* What was told is in the conversation that goes on or, folded away, on disk.
HistoryKept == NothingForgotten /\ Recoverable

\* Between turns the file of the session is the transcript in memory: whether
\* a turn appends to it or rewrites it, nothing is doubled or left out.
FileIsTranscript == phase \in {"idle", "prepare"} => files[current].body = messages

\* session_turn.rs: "session state and any transcript rewrite must retain
\* exactly what the user submitted"; the repo map of a request never stays in
\* the session or in a file, and no prompt takes the place of another message.
RawPrompts(ms) ==
    /\ \A i \in 1..Len(ms) : ~ms[i].id.map
    /\ \A i, j \in 1..Len(ms) : ms[i].id = ms[j].id => i = j
SubmittedTextKept ==
    /\ phase # "turn" => RawPrompts(messages)
    /\ \A i \in 1..Len(files) : RawPrompts(files[i].body)

\* A transcript pairs calls with results in memory and in every file.
TranscriptsValid ==
    /\ Valid(messages) /\ Valid(work)
    /\ \A i \in 1..Len(files) : Valid(files[i].body)

\* Between turns, the conversation in memory, its file and what the user typed are one valid
\* transcript.
TranscriptKept == CvTypeOK /\ FileIsTranscript /\ SubmittedTextKept /\ TranscriptsValid

=============================================================================
