------------------------------ MODULE LineEditor ------------------------------
(***************************************************************************)
(* The prompt's line editor (src/src/input.rs read_plain_outcome): a line   *)
(* with a cursor, the history under the arrow keys, and the menu of         *)
(* slash-commands that opens by itself, takes the same keys, and stays open *)
(* or shut by what was typed last.                                          *)
(***************************************************************************)
EXTENDS Integers, Sequences, SequencesExt

CONSTANTS
    Slash, Space, Letters,  \* characters; Slash and Space are no letters
    LeCommands,             \* the commands' names, in the menu's order
    MaxLine,                \* bound on the length of a line
    MaxKept,                \* history.max_entries
    MaxLines,               \* bound on lines that are read
    MaxRows,                \* SELECT_MAX_ROWS
    MaxDigit,               \* the last row with a number key
    MaxOptions,             \* bound on the options of a list
    MaxKeys                 \* bound on the keys that draw a list again

Chars == Letters \cup {Slash, Space}

ASSUME LineAssumption ==
    /\ LeCommands \in Seq(Seq(Chars)) /\ \A i \in DOMAIN LeCommands : Space \notin Range(LeCommands[i])
    /\ MaxKept \in Nat /\ MaxRows \in Nat \ {0} /\ MaxDigit \in Nat /\ MaxOptions \in Nat

VARIABLES
    leLine,     \* the characters
    leCursor,   \* characters before the cursor
    leIndex,    \* history_idx: the entry that is shown, from 0; one more: none
    leSel,      \* the selected row of the menu, from 0
    leShut,     \* dismissed
    leHistory,  \* InputHistory.entries
    leRead,     \* history: how many lines were returned
    leEnters    \* history: Enter was pressed so often since any other key or a line

leVars == <<leLine, leCursor, leIndex, leSel, leShut, leHistory, leRead, leEnters>>

LeInit ==
    /\ leLine = <<>> /\ leCursor = 0 /\ leIndex = 0 /\ leSel = 0 /\ leShut = FALSE
    /\ leHistory = <<>> /\ leRead = 0 /\ leEnters = 0

\* The commands whose names the line begins, in their order.
Matching(line) ==
    LET found[i \in 0..Len(LeCommands)] ==
          IF i = 0 THEN <<>>
          ELSE IF IsPrefix(line, LeCommands[i]) THEN Append(found[i - 1], LeCommands[i])
          ELSE found[i - 1]
    IN  found[Len(LeCommands)]

\* completion_matches: no menu for the one command that is all there.
Completions(line, cursor, shut) ==
    LET found == Matching(line)
    IN  IF shut \/ cursor # Len(line) \/ line = <<>> \/ line[1] # Slash \/ found = <<line>>
        THEN <<>> ELSE found

Menu == Completions(leLine, leCursor, leShut)
Smaller(a, b) == IF a < b THEN a ELSE b

\* selected_completion_name
Selected == Menu[Smaller(leSel, Len(Menu) - 1) + 1]

\* Any other key than Enter.
Key == leEnters' = 0 /\ UNCHANGED leRead

\* An edit opens the menu again, at its first row.
Edited(line, cursor) ==
    /\ leLine' = line /\ leCursor' = cursor /\ leSel' = 0 /\ leShut' = FALSE

Moved(cursor) ==
    /\ Key /\ leCursor' = cursor /\ UNCHANGED <<leLine, leIndex, leSel, leShut, leHistory>>

Type(c) ==
    /\ Len(leLine) < MaxLine /\ Key
    /\ Edited(InsertAt(leLine, leCursor + 1, c), leCursor + 1)
    /\ UNCHANGED <<leIndex, leHistory>>

Backspace ==
    /\ leCursor > 0 /\ Key /\ Edited(RemoveAt(leLine, leCursor), leCursor - 1)
    /\ UNCHANGED <<leIndex, leHistory>>

Escape ==
    /\ Key /\ leShut' = TRUE /\ UNCHANGED <<leLine, leCursor, leIndex, leSel, leHistory>>

LeftKey == leCursor > 0 /\ Moved(leCursor - 1)

\* prev_word, next_word
PrevWord(line, cursor) ==
    LET starts == {i \in 1..cursor : line[i] # Space /\ (i = 1 \/ line[i - 1] = Space)}
    IN  IF starts = {} THEN 0 ELSE (CHOOSE i \in starts : \A j \in starts : j <= i) - 1
NextWord(line, cursor) ==
    LET starts == {i \in (cursor + 2)..Len(line) : line[i] # Space /\ line[i - 1] = Space}
    IN  IF starts = {} THEN Len(line) ELSE (CHOOSE i \in starts : \A j \in starts : i <= j) - 1

WordLeft == Moved(PrevWord(leLine, leCursor))
WordRight == Moved(NextWord(leLine, leCursor))

\* Right at the end of the line accepts what is selected, without the space.
RightKey ==
    \/ leCursor < Len(leLine) /\ Moved(leCursor + 1)
    \/ /\ leCursor = Len(leLine) /\ Menu # <<>> /\ Key /\ Edited(Selected, Len(Selected))
       /\ UNCHANGED <<leIndex, leHistory>>

\* Mutant: Enter and Tab accept the name alone.
AcceptedBare == Selected

\* A space follows, ready for arguments.
Accepted == Append(Selected, Space)

TabKey ==
    /\ Menu # <<>> /\ Key /\ Edited(Accepted, Len(Accepted)) /\ UNCHANGED <<leIndex, leHistory>>

\* The last row is the last.
RowBelow(n) == Smaller(leSel + 1, n - 1)

\* Up and Down are the menu's while it is open.
UpInMenu ==
    /\ Menu # <<>> /\ Key /\ leSel' = (IF leSel = 0 THEN 0 ELSE leSel - 1)
    /\ UNCHANGED <<leLine, leCursor, leIndex, leShut, leHistory>>
DownInMenu ==
    /\ Menu # <<>> /\ Key /\ leSel' = RowBelow(Len(Menu))
    /\ UNCHANGED <<leLine, leCursor, leIndex, leShut, leHistory>>

\* What was typed is not kept when the history takes its place.
UpInHistory ==
    LET older == IF leIndex = 0 THEN 0 ELSE leIndex - 1 IN
    /\ Menu = <<>> /\ leHistory # <<>> /\ Key
    /\ leIndex' = older /\ Edited(leHistory[older + 1], Len(leHistory[older + 1]))
    /\ UNCHANGED leHistory
DownInHistory ==
    /\ Menu = <<>> /\ leHistory # <<>> /\ Key /\ UNCHANGED leHistory
    /\ IF leIndex + 1 < Len(leHistory)
       THEN /\ leIndex' = leIndex + 1
            /\ Edited(leHistory[leIndex + 2], Len(leHistory[leIndex + 2]))
       ELSE leIndex' = Len(leHistory) /\ Edited(<<>>, 0)

\* InputHistory::push: no blank line, no line twice in a row, the oldest goes.
Pushed(history, line) ==
    LET all == Append(history, line)
    IN  IF Range(line) \subseteq {Space} \/ (history # <<>> /\ Last(history) = line) THEN history
        ELSE SubSeq(all, Len(all) - Smaller(Len(all), MaxKept) + 1, Len(all))

\* Enter accepts what is selected, or returns the line; the caller pushes it,
\* and the next line begins below the history.
EnterKey ==
    IF Menu # <<>>
    THEN /\ Edited(Accepted, Len(Accepted)) /\ leEnters' = leEnters + 1
         /\ UNCHANGED <<leIndex, leHistory, leRead>>
    ELSE /\ leRead < MaxLines /\ leRead' = leRead + 1 /\ leEnters' = 0
         /\ leHistory' = Pushed(leHistory, leLine) /\ leIndex' = Len(leHistory')
         /\ Edited(<<>>, 0)

LeNext ==
    \/ \E c \in Chars : Type(c)
    \/ Backspace \/ Escape \/ LeftKey \/ RightKey \/ WordLeft \/ WordRight \/ TabKey
    \/ UpInMenu \/ DownInMenu \/ UpInHistory \/ DownInHistory \/ EnterKey

LeSpec == LeInit /\ [][LeNext]_leVars

-----------------------------------------------------------------------------
(* read_select_outcome: a list of choices that is drawn again, in its own   *)
(* place, after every key that moves.  A frame is a title, the rows of the  *)
(* window, a line for what is above and one for what is below, and a hint.  *)

VARIABLES
    lmOptions,  \* how many options there are
    lmSel,      \* the highlighted one, from 1
    lmScreen,   \* the lines from where the list was begun; the cursor is on the last
    lmPrev,     \* prev_rows
    lmKeys,     \* bound: keys so far
    lmOut       \* "open", "cancelled", or "chosen": the highlighted one

lmVars == <<lmOptions, lmSel, lmScreen, lmPrev, lmKeys, lmOut>>

\* The window follows the highlighted row.
WindowStart(n, sel) == IF n <= MaxRows \/ sel <= MaxRows THEN 0 ELSE sel - MaxRows

\* render_select_menu
Frame(n, sel) ==
    LET start == WindowStart(n, sel)
        shown == Smaller(n - start, MaxRows) IN
    <<[line |-> "title", n |-> 0]>>
    \o (IF start > 0 THEN <<[line |-> "above", n |-> start]>> ELSE <<>>)
    \o [i \in 1..shown |-> [line |-> IF start + i = sel THEN "marked" ELSE "option", n |-> start + i]]
    \o (IF start + shown < n THEN <<[line |-> "more", n |-> n - start - shown]>> ELSE <<>>)
    \o <<[line |-> "hint", n |-> 0]>>

\* From the hint back to the title of the frame before.
LinesUp(prev, next) == IF prev = 0 THEN 0 ELSE prev - 1

\* Up, clear to the end of the screen, and the new frame.
Drawn(sel) ==
    LET frame == Frame(lmOptions, sel)
        kept == Len(lmScreen) - LinesUp(lmPrev, Len(frame)) - 1 IN
    /\ lmScreen' = SubSeq(lmScreen, 1, kept) \o frame
    /\ lmPrev' = Len(frame) /\ lmSel' = sel

ListInit ==
    /\ lmOptions \in 1..MaxOptions /\ lmKeys = 0 /\ lmOut = "open"
    /\ \E default \in 1..(MaxOptions + 1) :
          LET sel == Smaller(default, lmOptions) IN
          lmSel = sel /\ lmScreen = Frame(lmOptions, sel) /\ lmPrev = Len(lmScreen)

\* Arrows, Home and End.
MoveInList(sel) ==
    /\ lmOut = "open" /\ lmKeys < MaxKeys /\ lmKeys' = lmKeys + 1
    /\ Drawn(sel) /\ UNCHANGED <<lmOptions, lmOut>>

Chosen(sel) == lmOut' = "chosen" /\ Drawn(sel) /\ UNCHANGED <<lmOptions, lmKeys>>

EnterInList == lmOut = "open" /\ Chosen(lmSel)

\* A digit chooses at once, when there is such a row.
DigitRows(n) == 1..Smaller(n, MaxDigit)

DigitInList == lmOut = "open" /\ \E d \in DigitRows(lmOptions) : Chosen(d)

LeaveList == lmOut = "open" /\ lmOut' = "cancelled" /\ UNCHANGED <<lmOptions, lmSel, lmScreen, lmPrev, lmKeys>>

ListNext ==
    \/ MoveInList(IF lmSel = 1 THEN 1 ELSE lmSel - 1) \/ MoveInList(Smaller(lmSel + 1, lmOptions))
    \/ MoveInList(1) \/ MoveInList(lmOptions)
    \/ EnterInList \/ DigitInList \/ LeaveList

\* The prompt and a list, whichever takes the keys.
EditorSpec ==
    LeInit /\ ListInit
        /\ [][(LeNext /\ UNCHANGED lmVars) \/ (ListNext /\ UNCHANGED leVars)]_<<leVars, lmVars>>

-----------------------------------------------------------------------------
(* Properties. *)

\* insert, remove and the index into the history never leave their vectors:
\* the editor cannot panic, whatever keys come in whatever order.
InBounds ==
    /\ leCursor \in 0..Len(leLine) /\ leIndex \in 0..Len(leHistory)
    /\ Menu # <<>> => leSel \in 0..(Len(Menu) - 1)

\* README.md:1347: Enter accepts a completion; it cannot go on accepting: the
\* second Enter in a row returns a line, also where the name of a command is
\* the beginning of another.
EnterGetsThrough == leEnters <= 1

\* The history that the arrows show holds no line twice in a row and no more
\* than its limit.
HistoryTidy ==
    /\ Len(leHistory) <= MaxKept
    /\ \A i \in 1..(Len(leHistory) - 1) : leHistory[i] # leHistory[i + 1]

\* A list takes the place of itself: after any keys the screen shows one frame,
\* from the line where the list was begun, although the lines for what is above
\* and below come and go.
OneFrame == Len(lmScreen) = lmPrev /\ \A i \in DOMAIN lmScreen : lmScreen[i].line = "title" <=> i = 1

\* What Enter or a digit returns is an option, and the one that is marked.
MarkedIsTaken ==
    /\ lmOut = "chosen" => lmSel \in 1..lmOptions
    /\ \E i \in DOMAIN lmScreen : lmScreen[i] = [line |-> "marked", n |-> lmSel]

\* The prompt and the lists, whatever keys are pressed.
EditorSound == InBounds /\ EnterGetsThrough /\ HistoryTidy /\ OneFrame /\ MarkedIsTaken

=============================================================================
