-------------------------------- MODULE ShellRun --------------------------------
(***************************************************************************)
(* A command of the shell tool (execute_cancelable of tools/shell.rs): the *)
(* wait for it, the two tasks that read its pipes, its deadline, Ctrl-C,   *)
(* and the processes it may leave behind.                                  *)
(*                                                                         *)
(* The command may start one process in its own group and one that has     *)
(* left it; both may hold on to the pipes.  A reader is done when nobody   *)
(* holds its pipe.                                                         *)
(***************************************************************************)
EXTENDS Naturals

CONSTANT MaxOutput   \* bound on what is written to a pipe

ASSUME ShellAssumption == MaxOutput \in Nat

VARIABLES
    shStep,    \* "wait", "stdout", "stderr" or "done"
    shUp,      \* the processes that run
    shHolds,   \* for each pipe, the processes that have it open
    shWrote,   \* for each pipe, how much was written to it
    shCode,    \* how the command ended by itself: "zero", "other", or "none"
    shCancel,  \* the token is cancelled
    shLate,    \* the command's deadline has passed
    shOut      \* the result: [code, timedOut, cancelled, got]

shVars == <<shStep, shUp, shHolds, shWrote, shCode, shCancel, shLate, shOut>>

Pipes     == {"out", "err"}
Group     == {"command", "child"}
Processes == Group \cup {"stray"}

ShInit ==
    /\ shStep = "wait" /\ shUp = {"command"} /\ shHolds = [p \in Pipes |-> {"command"}]
    /\ shWrote = [p \in Pipes |-> 0] /\ shCode = "none" /\ shCancel = FALSE /\ shLate = FALSE
    /\ shOut = [code |-> "none", timedOut |-> FALSE, cancelled |-> FALSE, got |-> [p \in Pipes |-> 0]]

-----------------------------------------------------------------------------
(* The processes. *)

Drop(gone) == [p \in Pipes |-> shHolds[p] \ gone]

ShStarts(q, pipes) ==
    /\ "command" \in shUp /\ q \notin shUp /\ \A p \in Pipes : q \notin shHolds[p]
    /\ shUp' = shUp \cup {q}
    /\ shHolds' = [p \in Pipes |-> IF p \in pipes THEN shHolds[p] \cup {q} ELSE shHolds[p]]
    /\ UNCHANGED <<shStep, shWrote, shCode, shCancel, shLate, shOut>>

ShWrites(p) ==
    /\ shHolds[p] # {} /\ shWrote[p] < MaxOutput /\ shWrote' = [shWrote EXCEPT ![p] = @ + 1]
    /\ UNCHANGED <<shStep, shUp, shHolds, shCode, shCancel, shLate, shOut>>

ShEnds(q, code) ==
    /\ q \in shUp /\ shUp' = shUp \ {q} /\ shHolds' = Drop({q})
    /\ shCode' = IF q = "command" THEN code ELSE shCode
    /\ UNCHANGED <<shStep, shWrote, shCancel, shLate, shOut>>

\* Ctrl-C, and the time of the call's timeout.
ShCtrlC ==
    /\ ~shCancel /\ shStep # "done" /\ shCancel' = TRUE
    /\ UNCHANGED <<shStep, shUp, shHolds, shWrote, shCode, shLate, shOut>>

ShTimeGoes ==
    /\ ~shLate /\ shStep # "done" /\ shLate' = TRUE
    /\ UNCHANGED <<shStep, shUp, shHolds, shWrote, shCode, shCancel, shOut>>

-----------------------------------------------------------------------------
(* The tool. *)

\* Mutant: only the command itself is killed.
KillCommand ==
    /\ shUp' = shUp \ {"command"} /\ shHolds' = Drop({"command"})

\* kill_shell_process_group, and the killed command is waited for.
KillGroup ==
    /\ shUp' = shUp \ Group /\ shHolds' = Drop(Group)

\* The select between the command's end and the token.
ShExited ==
    /\ shStep = "wait" /\ shCode # "none" /\ shStep' = "stdout"
    /\ shOut' = [shOut EXCEPT !.code = shCode]
    /\ UNCHANGED <<shUp, shHolds, shWrote, shCode, shCancel, shLate>>

ShDeadline ==
    /\ shStep = "wait" /\ shLate /\ shStep' = "stdout" /\ KillGroup
    /\ shOut' = [shOut EXCEPT !.timedOut = TRUE]
    /\ UNCHANGED <<shWrote, shCode, shCancel, shLate>>

ShCancelled ==
    /\ shStep = "wait" /\ shCancel /\ shStep' = "stdout" /\ KillGroup
    /\ shOut' = [shOut EXCEPT !.cancelled = TRUE]
    /\ UNCHANGED <<shWrote, shCode, shCancel, shLate>>

After(step) == IF step = "stdout" THEN "stderr" ELSE "done"
PipeOf(step) == IF step = "stdout" THEN "out" ELSE "err"

\* A reader has come to the end of its pipe.
ShRead(step) ==
    /\ shStep = step /\ shHolds[PipeOf(step)] = {} /\ shStep' = After(step)
    /\ shOut' = [shOut EXCEPT !.got[PipeOf(step)] = shWrote[PipeOf(step)]]
    /\ UNCHANGED <<shUp, shHolds, shWrote, shCode, shCancel, shLate>>

\* reader_deadline: that of the command, unless it was killed; stderr has the
\* cleanup's half second in any case.  What was read so far is lost.
ShReaderLate(step) ==
    /\ shStep = step
    /\ step = "stderr" \/ shLate \/ shOut.timedOut \/ shOut.cancelled
    /\ shStep' = After(step) /\ KillGroup
    /\ shOut' = [shOut EXCEPT !.timedOut = TRUE]
    /\ UNCHANGED <<shWrote, shCode, shCancel, shLate>>

ShTool ==
    \/ ShExited \/ ShDeadline \/ ShCancelled
    \/ \E step \in {"stdout", "stderr"} : ShRead(step) \/ ShReaderLate(step)

ShNext ==
    \/ ShTool \/ ShTimeGoes \/ ShCtrlC
    \/ \E q \in Processes, pipes \in SUBSET Pipes : ShStarts(q, pipes)
    \/ \E p \in Pipes : ShWrites(p)
    \/ \E q \in Processes, code \in {"zero", "other"} : ShEnds(q, code)

ShSpec == ShInit /\ [][ShNext]_shVars

-----------------------------------------------------------------------------
(* Properties. *)

\* A result that names neither timeout nor Ctrl-C is that of the command: it has ended by
\* itself with this code, and all that was written before nobody held the pipes is there.
ResultIsCommands ==
    shStep = "done" /\ ~shOut.timedOut /\ ~shOut.cancelled =>
        shOut.code = shCode /\ shCode # "none" /\ shOut.got = shWrote

\* CHANGELOG.md:104 "terminate the full process group (...) so background descendants
\* cannot outlive (...) a tool call": none is left in the group of a command that was cut off.
GroupEnds ==
    shStep = "done" /\ (shOut.timedOut \/ shOut.cancelled) => shUp \cap Group = {}

\* What a command's result says, and that nothing of it goes on once it was ended.
ShellSound == ResultIsCommands /\ GroupEnds

\* "(...) or indefinitely stall a tool call": whatever runs on and holds the pipes, once the
\* deadline has passed or the user pressed Ctrl-C the tool returns.
ShellReturns == (shLate \/ shCancel) ~> shStep = "done"

\* Ctrl-C ends a command's tool call without waiting for the command's deadline.
CtrlCIsSeen ==
    [][shOut'.timedOut /\ ~shOut.timedOut /\ shCancel /\ shStep = "stdout" => shOut.cancelled]_shVars

=============================================================================
