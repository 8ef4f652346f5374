------------------------------ MODULE AnswerView ------------------------------
(***************************************************************************)
(* How a turn is shown while it runs.  A model's text comes in pieces cut   *)
(* anywhere: src/src/markdown.rs styles it, holding back what the next      *)
(* character decides, and src/src/renderer.rs StreamWrap breaks it into     *)
(* lines.  TuiRenderer switches between the panels of the answer and of the *)
(* reasoning and gathers tool calls into groups.                           *)
(***************************************************************************)
EXTENDS Integers, Sequences, FiniteSets, SequencesExt

CONSTANTS
    Pieces,     \* what the text may come in: sequences of characters
    MaxPieces,  \* bound on the pieces of an answer
    Width,      \* columns of the panel
    MaxWrapped, \* bound on the characters that are wrapped
    MaxCalls,   \* bound on the tool calls of a turn
    MaxShown    \* bound on the pieces of text and reasoning of a turn

-----------------------------------------------------------------------------
(* Markdown.  Characters are letters, " ", "nl" and the markers. *)

VARIABLES
    mdFed,      \* history: all that was fed
    mdPieces,   \* history: in how many pieces
    mdState     \* the styler, with all that it has emitted

mdVars == <<mdFed, mdPieces, mdState>>

Fresh == [bold |-> FALSE, italic |-> FALSE, code |-> FALSE, heading |-> FALSE, fence |-> FALSE,
          start |-> TRUE, prev |-> "nl", pending |-> <<>>, out |-> <<>>]

MdInit == mdFed = <<>> /\ mdPieces = 0 /\ mdState = Fresh

White == {" ", "nl"}
Markers == {"tick", "star", "under", "hash", "dash"}

\* backtick_run and hash_run; find_newline, 0 when there is none.
RunOf(c, buf) ==
    LET others == {i \in DOMAIN buf : buf[i] # c}
    IN  IF others = {} THEN Len(buf) ELSE (CHOOSE i \in others : \A j \in others : i <= j) - 1
LineEnd(buf) == LET n == SelectInSeq(buf, LAMBDA c : c = "nl") IN n

\* n characters are taken and what they become is emitted; n = 0: wait for more.
Taken(n, m, emitted, last) ==
    [n |-> n, m |-> [m EXCEPT !.out = @ \o emitted, !.prev = last, !.start = last = "nl"]]
Undecided(m) == [n |-> 0, m |-> m]

\* active_codes: what is emitted again after a reset.
Active(m) ==
    SelectSeq(<<"heading", "bold", "italic", "code">>,
              LAMBDA style : CASE style = "heading" -> m.heading [] style = "bold" -> m.bold
                               [] style = "italic" -> m.italic [] style = "code" -> m.code)

\* A marker opens its style, or closes it for the others to go on.
Opened(n, m, style, c) == Taken(n, m, <<style>>, c)
Closed(n, m, c) == Taken(n, m, <<"reset">> \o Active(m), c)

Styled(m) == m.bold \/ m.italic \/ m.code \/ m.heading
Plain(m) == [m EXCEPT !.bold = FALSE, !.italic = FALSE, !.code = FALSE, !.heading = FALSE]

\* A line of three backticks or more, whole, opens or closes a block.
FenceLine(m, buf) ==
    Taken(LineEnd(buf), [m EXCEPT !.fence = ~@], <<IF m.fence THEN "close" ELSE "open">>, "nl")

InFence(m, buf) ==
    LET ticks == RunOf("tick", buf) IN
    IF m.start /\ ticks > 0
    THEN IF (ticks = Len(buf) /\ ticks < 3) \/ (ticks >= 3 /\ LineEnd(buf) = 0) THEN Undecided(m)
         ELSE IF ticks >= 3 THEN FenceLine(m, buf)
         ELSE Taken(ticks, m, SubSeq(buf, 1, ticks), "tick")
    ELSE Taken(1, m, <<buf[1]>>, buf[1])

\* try_emphasis
Emphasis(m, c, next) ==
    IF m.italic /\ m.prev \notin White THEN Closed(1, [m EXCEPT !.italic = FALSE], c)
    ELSE IF ~m.italic /\ m.prev \in White \cup Markers /\ next \notin White
         THEN Opened(1, [m EXCEPT !.italic = TRUE], "italic", c)
         ELSE Taken(1, m, <<c>>, c)

\* A hard newline ends every style.
NewLine(m) == Taken(1, Plain(m), (IF Styled(m) THEN <<"reset">> ELSE <<>>) \o <<"nl">>, "nl")

Inline(m, buf) ==
    LET c == buf[1] IN
    CASE c = "nl" -> NewLine(m)
      [] c = "tick" -> IF m.code THEN Closed(1, [m EXCEPT !.code = FALSE], c)
                    ELSE Opened(1, [m EXCEPT !.code = TRUE], "code", c)
      [] m.code /\ c \notin {"nl", "tick"} -> Taken(1, m, <<c>>, c)
      [] ~m.code /\ c \in {"star", "under"} /\ Len(buf) = 1 -> Undecided(m)
      [] ~m.code /\ c = "star" /\ Len(buf) > 1 /\ buf[2] = "star" ->
            IF m.bold THEN Closed(2, [m EXCEPT !.bold = FALSE], c)
            ELSE Opened(2, [m EXCEPT !.bold = TRUE], "bold", c)
      [] ~m.code /\ c \in {"star", "under"} /\ Len(buf) > 1 /\ (c = "under" \/ buf[2] # "star") ->
            Emphasis(m, c, buf[2])
      [] OTHER -> Taken(1, m, <<c>>, c)

\* Mutant: only backticks are held back at the start of a line.
WaitsForTicks(buf) ==
    LET ticks == RunOf("tick", buf)
    IN  buf[1] = "tick" /\ (IF ticks >= 3 THEN LineEnd(buf) = 0 ELSE ticks = Len(buf))

\* What comes next decides what the start of a line is.
Waits(buf) ==
    LET ticks == RunOf("tick", buf)
    IN  \/ buf[1] = "tick" /\ (IF ticks >= 3 THEN LineEnd(buf) = 0 ELSE ticks = Len(buf))
        \/ buf[1] = "hash" /\ RunOf("hash", buf) = Len(buf)
        \/ buf[1] \in {"dash", "star"} /\ Len(buf) = 1

\* Fences, headings and bullets are looked for at the start of a line, after
\* any indentation.
AtStart(m, buf) ==
    LET c == buf[1]
        hashes == RunOf("hash", buf)
    IN  IF c = " " THEN [n |-> 1, m |-> [m EXCEPT !.out = Append(@, c), !.prev = c]]
        ELSE IF Waits(buf) THEN Undecided(m)
        ELSE IF RunOf("tick", buf) >= 3 THEN FenceLine(m, buf)
        ELSE IF hashes \in 1..6 /\ hashes < Len(buf) /\ buf[hashes + 1] = " "
        THEN Opened(hashes + 1, [m EXCEPT !.heading = TRUE], "heading", " ")
        ELSE IF c \in {"dash", "star"} /\ Len(buf) > 1 /\ buf[2] = " " THEN Taken(2, m, <<"bullet">>, " ")
        ELSE Inline(m, buf)

RECURSIVE Consume(_, _)
Consume(m, buf) ==
    LET step == IF m.fence THEN InFence(m, buf) ELSE IF m.start THEN AtStart(m, buf) ELSE Inline(m, buf)
    IN  IF buf = <<>> \/ step.n = 0 THEN [m EXCEPT !.pending = buf]
        ELSE Consume(step.m, SubSeq(buf, step.n + 1, Len(buf)))

\* MarkdownInline::feed
FeedMd(m, piece) == Consume([m EXCEPT !.pending = <<>>], m.pending \o piece)

\* MarkdownInline::finish: what is undecided is text, even a closing fence
\* without its newline.
Finish(m) ==
    m.out \o m.pending \o (IF Styled(m) THEN <<"reset">> ELSE <<>>)
          \o (IF m.fence THEN <<"close">> ELSE <<>>)

FeedPiece(piece) ==
    /\ mdPieces < MaxPieces
    /\ mdPieces' = mdPieces + 1 /\ mdFed' = mdFed \o piece
    /\ mdState' = FeedMd(mdState, piece)

MdNext == \E piece \in Pieces : FeedPiece(piece)

\* markdown.rs:13 "Chunk-boundary safe": what is emitted, and what is held back,
\* is what feeding the text in one piece would give.
ChunkSafe == mdState = FeedMd(Fresh, mdFed)

Styles == {"bold", "italic", "code", "heading"}
LastMark(out) == SelectLastInSeq(out, LAMBDA c : c \in Styles \cup {"reset"})
OpenAt(out, n) ==
    LET last == LastMark(SubSeq(out, 1, n)) IN last > 0 /\ out[last] # "reset"

\* A marker that is never closed styles nothing past its line, nor what the
\* terminal shows after the answer; and every code block that is opened is
\* closed once, in turn.
StylesEnd ==
    LET out == Finish(mdState)
        fences == SelectSeq(out, LAMBDA c : c \in {"open", "close"})
    IN  /\ \A i \in DOMAIN out : out[i] = "nl" => ~OpenAt(out, i - 1)
        /\ ~OpenAt(out, Len(out))
        /\ Len(fences) % 2 = 0
        /\ \A i \in DOMAIN fences : fences[i] = IF i % 2 = 1 THEN "open" ELSE "close"

-----------------------------------------------------------------------------
(* Lines.  Characters are letters, " ", "nl", "esc" (an escape sequence,    *)
(* which has no width) and "fence" (the styler's code blocks).             *)

VARIABLES
    wrText,     \* history: all that was fed
    wrLines,    \* the lines that were written
    wrWord,     \* the word that is held back
    wrCol, wrIndent, wrStart, wrSpace,  \* StreamWrap's
    wrVerbatim  \* inside a code block

wrVars == <<wrText, wrLines, wrWord, wrCol, wrIndent, wrStart, wrSpace, wrVerbatim>>

WrInit ==
    /\ wrText = <<>> /\ wrLines = <<<<>>>> /\ wrWord = <<>> /\ wrCol = 0 /\ wrIndent = 0
    /\ wrStart = TRUE /\ wrSpace = FALSE /\ wrVerbatim = FALSE

Wide(text) == Len(SelectSeq(text, LAMBDA c : c # "esc"))
Padding(n) == [i \in 1..n |-> " "]
Onto(lines, text) == [lines EXCEPT ![Len(lines)] = @ \o text]

\* A word that is longer than a line is cut where the line is full.
RECURSIVE CutWord(_, _, _)
CutWord(lines, col, word) ==
    IF word = <<>> THEN [lines |-> lines, col |-> col]
    ELSE IF word[1] = "esc" THEN CutWord(Onto(lines, <<"esc">>), col, Tail(word))
    ELSE IF col >= Width
    THEN CutWord(Append(lines, Padding(wrIndent) \o <<word[1]>>), wrIndent + 1, Tail(word))
    ELSE CutWord(Onto(lines, <<word[1]>>), col + 1, Tail(word))

Gap == IF wrSpace /\ wrCol > wrIndent THEN 1 ELSE 0

\* The word and the space before it do not fit.
Breaks(n) == wrCol + Gap + n > Width

\* flush_word
Flushed ==
    LET n == Wide(wrWord)
        room == IF wrCol < Width THEN Gap ELSE 0
    IN  IF wrWord = <<>> THEN [lines |-> wrLines, col |-> wrCol]
        ELSE IF n > Width THEN CutWord(Onto(wrLines, Padding(room)), wrCol + room, wrWord)
        ELSE IF Breaks(n)
        THEN [lines |-> Append(wrLines, Padding(wrIndent) \o wrWord), col |-> wrIndent + n]
        ELSE [lines |-> Onto(wrLines, Padding(Gap) \o wrWord), col |-> wrCol + Gap + n]

FreshLine == wrCol' = 0 /\ wrIndent' = 0 /\ wrStart' = TRUE /\ wrSpace' = FALSE
SameLine == UNCHANGED <<wrIndent, wrStart, wrVerbatim>>

\* StreamWrap::feed, a character.
Letter(c) ==
    /\ wrWord' = Append(wrWord, c) /\ wrStart' = (wrStart /\ c = "esc")
    /\ UNCHANGED <<wrLines, wrCol, wrIndent, wrSpace, wrVerbatim>>

\* Indentation is written at once, as long as it fits.
Indentation ==
    /\ wrStart /\ UNCHANGED <<wrWord, wrStart, wrSpace, wrVerbatim>>
    /\ IF wrCol < Width
       THEN wrLines' = Onto(wrLines, <<" ">>) /\ wrCol' = wrCol + 1 /\ wrIndent' = wrCol + 1
       ELSE UNCHANGED <<wrLines, wrCol, wrIndent>>

WordEnds ==
    /\ ~wrStart /\ wrWord' = <<>> /\ wrSpace' = TRUE /\ SameLine
    /\ wrLines' = Flushed.lines /\ wrCol' = Flushed.col

LineEnds ==
    /\ wrWord' = <<>> /\ wrLines' = Append(Flushed.lines, <<>>) /\ FreshLine
    /\ UNCHANGED wrVerbatim

\* Inside a code block lines are written as they are.
Verbatim(c) ==
    /\ wrLines' = IF c = "nl" THEN Append(wrLines, <<>>) ELSE Onto(wrLines, <<c>>)
    /\ UNCHANGED <<wrWord, wrCol, wrIndent, wrStart, wrSpace, wrVerbatim>>

\* write_md_event: set_verbatim, and a rule of its own line.
FenceEvent ==
    /\ wrVerbatim' = ~wrVerbatim /\ wrWord' = <<>> /\ FreshLine
    /\ wrLines' = Append(Onto(Flushed.lines, <<"fence">>), <<>>)

WrapChar(c) ==
    /\ Len(wrText) < MaxWrapped /\ wrText' = Append(wrText, c)
    /\ CASE c = "fence" -> FenceEvent
         [] c # "fence" /\ wrVerbatim -> Verbatim(c)
         [] c = "nl" /\ ~wrVerbatim -> LineEnds
         [] c = " " /\ ~wrVerbatim -> Indentation \/ WordEnds
         [] OTHER -> Letter(c)

WrNext == \E c \in {"a", " ", "nl", "esc", "fence"} : WrapChar(c)

Written == Flushed.lines
OfText(text, chars) == SelectSeq(text, LAMBDA c : c \in chars)

\* renderer.rs:147, 13: nothing of the answer is lost, reordered or joined, and
\* no line of prose is wider than the panel but one that is its indentation
\* and one word.
ProseFits ==
    LET lines == Written
        blocks == SelectSeq(wrText, LAMBDA c : c = "fence")
    IN  /\ OfText(FlattenSeq(lines), {"a", "esc", "fence"}) = OfText(wrText, {"a", "esc", "fence"})
        /\ blocks = <<>> => \A i \in DOMAIN lines :
              LET line == SelectSeq(lines[i], LAMBDA c : c # "esc")
                  first == SelectInSeq(line, LAMBDA c : c = "a")
              IN  Len(line) <= Width \/ \A j \in first..Len(line) : line[j] = "a"

-----------------------------------------------------------------------------
(* Panels.  A round is its reasoning, its text, its calls and then their     *)
(* results; calls are shown in the groups of one kind, counted, or one by   *)
(* one.                                                                     *)

VARIABLES
    tuDisplay,  \* tool_display: "grouped", "minimal" or "verbose"
    tuPhase,    \* what the round has come to: "talk", "calls", "results" or "over"
    tuAnswer,   \* answer_wrap: the panel of the answer is open
    tuThinking, \* reasoning_header_shown
    tuGroup,    \* grouped_pending, or what minimal_batch counts
    tuKind,     \* grouped_category
    tuShown,    \* what was printed: panels, texts and cards
    tuCalls,    \* history: the calls of the turn, with their kinds
    tuDone      \* history: the calls whose results came

tuVars == <<tuDisplay, tuPhase, tuAnswer, tuThinking, tuGroup, tuKind, tuShown, tuCalls, tuDone>>

Kinds == {"read", "search"}
Card(calls) == [what |-> "card", calls |-> calls]
Block(what) == [what |-> what, calls |-> <<>>]

TuInit ==
    /\ tuDisplay \in {"grouped", "minimal", "verbose"} /\ tuPhase = "talk"
    /\ tuAnswer = FALSE /\ tuThinking = FALSE /\ tuGroup = <<>> /\ tuKind = "none"
    /\ tuShown = <<>> /\ tuCalls = <<>> /\ tuDone = {}

\* flush_grouped and flush_minimal, what they print.
Cards(display) == IF tuDisplay # display \/ tuGroup = <<>> THEN <<>> ELSE <<Card(tuGroup)>>
AllCards == Cards("grouped") \o Cards("minimal")

TuUnchanged == UNCHANGED <<tuDisplay, tuCalls, tuDone>>

\* render_text: the counts of calls are printed and the reasoning is closed;
\* groups are not.
RenderText ==
    /\ tuPhase \in {"talk", "results"} /\ tuDone = DOMAIN tuCalls /\ Len(tuShown) < MaxShown
    /\ tuShown' = tuShown \o Cards("minimal")
                   \o (IF tuAnswer THEN <<>> ELSE <<Block("header")>>) \o <<Block("text")>>
    /\ tuGroup' = IF tuDisplay = "minimal" THEN <<>> ELSE tuGroup
    /\ tuAnswer' = TRUE /\ tuThinking' = FALSE /\ tuPhase' = "talk"
    /\ UNCHANGED tuKind /\ TuUnchanged

\* render_reasoning, when it is shown.
RenderReasoning ==
    /\ tuPhase \in {"talk", "results"} /\ tuDone = DOMAIN tuCalls /\ Len(tuShown) < MaxShown
    /\ tuShown' = tuShown \o (IF tuThinking THEN <<>> ELSE <<Block("thinking")>>) \o <<Block("thought")>>
    /\ tuAnswer' = FALSE /\ tuThinking' = TRUE /\ tuPhase' = "talk"
    /\ UNCHANGED <<tuGroup, tuKind>> /\ TuUnchanged

\* render_tool_call in a group: a call of another kind closes the group.
Grouped(kind, call) ==
    /\ tuShown' = tuShown \o (IF kind = tuKind THEN <<>> ELSE Cards("grouped"))
    /\ tuKind' = kind /\ tuGroup' = IF kind = tuKind THEN Append(tuGroup, call) ELSE <<call>>

\* A call ends the answer, not the reasoning.
RenderCall(kind) ==
    /\ tuPhase \in {"talk", "calls", "results"} /\ Len(tuCalls) < MaxCalls
    /\ tuPhase = "calls" \/ tuDone = DOMAIN tuCalls
    /\ tuPhase' = "calls" /\ tuCalls' = Append(tuCalls, kind)
    /\ LET call == Len(tuCalls) + 1
       IN  \/ tuDisplay = "grouped" /\ Grouped(kind, call)
           \/ tuDisplay = "minimal" /\ tuGroup' = Append(tuGroup, call) /\ UNCHANGED <<tuShown, tuKind>>
           \/ /\ tuDisplay = "verbose" /\ tuShown' = Append(tuShown, Card(<<call>>))
              /\ UNCHANGED <<tuGroup, tuKind>>
    /\ tuAnswer' = FALSE /\ UNCHANGED <<tuDisplay, tuThinking, tuDone>>

\* render_plan: everything that waits is printed first.
RenderPlan ==
    /\ tuPhase \in {"talk", "calls"} /\ Len(tuShown) < MaxShown
    /\ tuShown' = Append(tuShown \o AllCards, Block("plan"))
    /\ tuAnswer' = FALSE /\ tuGroup' = <<>>
    /\ tuKind' = IF Cards("grouped") = <<>> THEN tuKind ELSE "none"
    /\ UNCHANGED <<tuThinking, tuPhase>> /\ TuUnchanged

\* render_tool_result: nothing in a group but its summary.
RenderResult ==
    /\ tuPhase \in {"calls", "results"} /\ tuPhase' = "results"
    /\ \E call \in DOMAIN tuCalls \ tuDone :
          /\ tuDone' = tuDone \cup {call}
          /\ tuShown' = IF tuDisplay = "verbose" THEN Append(tuShown, Block("result")) ELSE tuShown
    /\ UNCHANGED <<tuDisplay, tuAnswer, tuThinking, tuGroup, tuKind, tuCalls>>

\* end_turn: after an error or Ctrl-C too, at any point.
TurnOver ==
    /\ tuPhase # "over" /\ tuPhase' = "over"
    /\ tuShown' = tuShown \o AllCards
    /\ tuAnswer' = FALSE /\ tuThinking' = FALSE /\ tuGroup' = <<>> /\ tuKind' = "none" /\ TuUnchanged

TuNext ==
    \/ RenderText \/ RenderReasoning \/ RenderPlan \/ RenderResult \/ TurnOver
    \/ \E kind \in Kinds : RenderCall(kind)

CallsOf(shown) ==
    FlattenSeq([i \in DOMAIN shown |-> shown[i].calls])

\* However calls of several kinds, plans, texts and an interrupt follow one
\* another, each call of a turn is shown once and in its order, in a card of its
\* own kind when cards are by kind.
CallsShown ==
    /\ CallsOf(tuShown) \o tuGroup = [i \in DOMAIN tuCalls |-> i]
    /\ tuPhase = "over" => tuGroup = <<>>
    /\ tuDisplay = "grouped" => \A i \in DOMAIN tuShown :
          Cardinality({tuCalls[c] : c \in Range(tuShown[i].calls)}) <= 1

\* Nothing is printed into an answer that goes on: its text follows its header
\* or its text.
PanelsApart ==
    /\ \A i \in DOMAIN tuShown : tuShown[i].what = "text" =>
          i > 1 /\ tuShown[i - 1].what \in {"header", "text"}
    /\ tuAnswer => tuShown # <<>> /\ tuShown[Len(tuShown)].what = "text"

\* What a turn shows, however its answer is cut into chunks.
ViewSound == ChunkSafe /\ StylesEnd /\ ProseFits /\ CallsShown /\ PanelsApart

\* renderer.rs:546 says that the reasoning is closed before a call is shown: a
\* thought then follows its header or a thought.
ThoughtsHeaded ==
    \A i \in DOMAIN tuShown : tuShown[i].what = "thought" =>
        i > 1 /\ tuShown[i - 1].what \in {"thinking", "thought"}

=============================================================================
