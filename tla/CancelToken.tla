----------------------------- MODULE CancelToken -----------------------------
(***************************************************************************)
(* Ctrl-C and those who wait for it: the token of src/src/cancel.rs, the   *)
(* request streams of openai.rs, anthropic.rs and codex_responses.rs, and  *)
(* the commands of tools/shell.rs.                                         *)
(*                                                                         *)
(* cancel() raises a flag and then wakes whoever waits; cancelled() looks  *)
(* at the flag and then begins to wait.  They run on different threads.    *)
(* tokio wakes every Notified future that was created before               *)
(* notify_waiters, polled or not, and none created after.                  *)
(***************************************************************************)
EXTENDS Naturals

CONSTANTS
    Streams,   \* model requests: they look again after every chunk
    Shells     \* shell commands: they look once, and have a deadline

Waiters == Streams \cup Shells

ASSUME WaitersAssumption == Streams \cap Shells = {}

VARIABLES
    flag,       \* inner.cancelled
    notified,   \* notify_waiters was called
    ctrlC,      \* the signal task: "ready", "swapped", "done"
    pc,         \* where each waiter is
    late        \* late[w]: its Notified future was created after notify_waiters

cancelVars == <<flag, notified, ctrlC, pc, late>>

Over == {"finished", "timeout", "cancelled"}

CancelInit ==
    /\ flag = FALSE /\ notified = FALSE /\ ctrlC = "ready"
    /\ pc = [w \in Waiters |-> IF w \in Streams THEN "send" ELSE "check"]
    /\ late = [w \in Waiters |-> FALSE]

Move(w, from, to) == pc[w] = from /\ pc' = [pc EXCEPT ![w] = to]

-----------------------------------------------------------------------------
(* The signal task: the first Ctrl-C of a turn. *)

Swap ==
    /\ ctrlC = "ready" /\ ctrlC' = "swapped"
    /\ flag' = TRUE
    /\ UNCHANGED <<notified, pc, late>>

NotifyWaiters ==
    /\ ctrlC = "swapped" /\ ctrlC' = "done"
    /\ notified' = TRUE
    /\ UNCHANGED <<flag, pc, late>>

-----------------------------------------------------------------------------
(* A waiter: the branches of its select. *)

\* The request is sent and its headers awaited outside the select.
Headers(w) ==
    /\ w \in Streams
    /\ Move(w, "send", "check") \/ Move(w, "send", "finished")
    /\ UNCHANGED <<flag, notified, ctrlC, late>>

Check(w) ==
    /\ Move(w, "check", IF flag THEN "cancelled" ELSE "create")
    /\ UNCHANGED <<flag, notified, ctrlC, late>>

Create(w) ==
    /\ Move(w, "create", "wait")
    /\ late' = [late EXCEPT ![w] = notified]
    /\ UNCHANGED <<flag, notified, ctrlC>>

Wake(w) ==
    /\ notified /\ ~late[w]
    /\ Move(w, "wait", "cancelled")
    /\ UNCHANGED <<flag, notified, ctrlC, late>>

\* The other branch of the select of a stream: the next chunk, or the end.
Chunk(w) ==
    /\ w \in Streams
    /\ \E to \in {"check", "finished"} : Move(w, "wait", to) \/ Move(w, "check", to)
    /\ UNCHANGED <<flag, notified, ctrlC, late>>

\* That of a command: it exits, or its deadline passes and it is killed.
ShellExits(w) ==
    /\ w \in Shells
    /\ Move(w, "wait", "finished") \/ Move(w, "check", "finished")
    /\ UNCHANGED <<flag, notified, ctrlC, late>>

ShellDeadline(w) ==
    /\ w \in Shells /\ Move(w, "wait", "timeout")
    /\ UNCHANGED <<flag, notified, ctrlC, late>>

CancelNext ==
    \/ Swap \/ NotifyWaiters
    \/ \E w \in Waiters : \/ Headers(w) \/ Check(w) \/ Create(w) \/ Wake(w)
                          \/ Chunk(w) \/ ShellExits(w) \/ ShellDeadline(w)

CancelSpec == CancelInit /\ [][CancelNext]_cancelVars

-----------------------------------------------------------------------------
(* Properties. *)

\* Every variable has its type, and nobody is woken before the flag is up.
CancelTypeOK ==
    /\ flag \in BOOLEAN /\ notified \in BOOLEAN
    /\ ctrlC \in {"ready", "swapped", "done"}
    /\ pc \in [Waiters -> {"send", "check", "create", "wait"} \cup Over]
    /\ late \in [Waiters -> BOOLEAN]
    /\ (flag <=> ctrlC # "ready") /\ (notified <=> ctrlC = "done")

\* Whoever waits when the flag goes up is woken, each of them, even by a
\* provider that never sends another byte.
WaitersWake ==
    \A w \in Waiters : (pc[w] = "wait" /\ ctrlC = "swapped") ~> pc[w] \in Over

\* CHANGELOG.md: "Ctrl-C cancellation for active model streams and shell
\* commands": after Ctrl-C every stream and every command ends.
CancelReaches == \A w \in Waiters : flag ~> pc[w] \in Over

\* The same of providers that keep sending chunks.
Talking == \A w \in Streams : WF_cancelVars(pc[w] = "wait" /\ Chunk(w))
CancelReachesTalkers == Talking => CancelReaches

=============================================================================
