----------------------------- MODULE SdkSession -----------------------------
(***************************************************************************)
(* A session of the in-process API (src/src/sdk.rs): the host awaits       *)
(* prompt(), may drop that future at any of its awaits, clears and resumes *)
(* the conversation, and aborts from another task with a handle that only  *)
(* shares the token of the turn in progress.  Subscribers hear of a turn's *)
(* beginning and of its end.                                               *)
(***************************************************************************)
EXTENDS Naturals, Sequences

CONSTANTS
    MaxTurns,   \* bound on prompts
    Handles     \* tasks that hold an abort handle

ASSUME SdkAssumption == MaxTurns \in Nat

Turns == 1..MaxTurns

VARIABLES
    sdTurn,         \* the last prompt
    sdAt,           \* where it is: "idle", "started", "running", "looked" or "dropped"
    sdFlag,         \* what the run found the token to be when it ended
    sdCell,         \* the token the handles share; 0: none
    sdHeld,         \* the token each handle has in its hand; 0: none
    sdCancelled,    \* tokens that are cancelled
    sdMessages,     \* turns whose messages the session holds
    sdSnapshot,     \* a snapshot the host took
    sdEvents,       \* what subscribers heard of each turn
    sdEnded,        \* history: turns that returned a result since the last clear or resume
    sdAsked,        \* history: turns that an abort found in progress
    sdDropped,      \* history: turns that were dropped
    sdStopped       \* history: turns whose token was cancelled while they ran

sdVars == <<sdTurn, sdAt, sdFlag, sdCell, sdHeld, sdCancelled, sdMessages, sdSnapshot,
            sdEvents, sdEnded, sdAsked, sdDropped, sdStopped>>

\* AgentBuilder::build
SdInit ==
    /\ sdTurn = 0 /\ sdAt = "idle" /\ sdFlag = FALSE
    /\ sdCell = 0 /\ sdHeld = [h \in Handles |-> 0] /\ sdCancelled = {}
    /\ sdMessages = <<>> /\ sdSnapshot = <<>> /\ sdEnded = <<>>
    /\ sdEvents = [t \in Turns |-> <<>>] /\ sdAsked = {} /\ sdDropped = {} /\ sdStopped = {}

Free == sdAt \in {"idle", "dropped"}
Heard(t, event) == sdEvents' = [sdEvents EXCEPT ![t] = Append(@, event)]

\* prompt_content: subscribers hear of it before the handles can find its token.
Prompt ==
    /\ Free /\ sdTurn < MaxTurns
    /\ sdTurn' = sdTurn + 1 /\ sdAt' = "started" /\ Heard(sdTurn', "started")
    /\ UNCHANGED <<sdStopped, sdDropped, sdFlag, sdCell, sdHeld, sdCancelled, sdMessages, sdSnapshot, sdEnded, sdAsked>>

\* Mutant: a session has one token.
SharedToken == 1

\* Each turn has a token of its own.
NewToken == sdTurn

TokenSet ==
    /\ sdAt = "started" /\ sdAt' = "running" /\ sdCell' = NewToken
    /\ UNCHANGED <<sdStopped, sdDropped, sdTurn, sdFlag, sdHeld, sdCancelled, sdMessages, sdSnapshot, sdEvents,
                   sdEnded, sdAsked>>

\* route_request and run_agent: a natural end, the step limit, or a direct
\* answer; the token is looked at once more.
RunEnds ==
    /\ sdAt = "running" /\ sdAt' = "looked" /\ sdFlag' = (NewToken \in sdCancelled)
    /\ UNCHANGED <<sdStopped, sdDropped, sdTurn, sdCell, sdHeld, sdCancelled, sdMessages, sdSnapshot, sdEvents,
                   sdEnded, sdAsked>>

Returns(event) ==
    /\ Heard(sdTurn, event) /\ sdAt' = "idle" /\ sdCell' = 0
    /\ UNCHANGED <<sdStopped, sdDropped, sdTurn, sdFlag, sdHeld, sdCancelled, sdSnapshot, sdAsked>>

\* TurnAborted or TurnCompleted
Lifecycle == IF sdFlag THEN "aborted" ELSE "completed"

TurnReturns ==
    /\ sdAt = "looked"
    /\ sdMessages' = Append(sdMessages, sdTurn) /\ sdEnded' = Append(sdEnded, sdTurn)
    /\ Returns(Lifecycle)

\* The conversation is what it was before the turn.
AfterFailure == sdMessages

\* A request fails, or a token that is cancelled ends a stream.
TurnFails ==
    /\ sdAt = "running" /\ sdMessages' = AfterFailure /\ UNCHANGED sdEnded
    /\ Returns("failed")

\* The host gives up waiting: the token stays in the handles' cell.
FutureDropped ==
    /\ sdAt = "running" /\ sdAt' = "dropped" /\ sdDropped' = sdDropped \cup {sdTurn}
    /\ UNCHANGED <<sdStopped, sdTurn, sdFlag, sdCell, sdHeld, sdCancelled, sdMessages, sdSnapshot,
                   sdEvents, sdEnded, sdAsked>>

\* AbortHandle::abort copies the token out of the cell, then cancels it.
AbortLooks(h) ==
    /\ sdHeld[h] = 0 /\ sdCell # 0
    /\ sdHeld' = [sdHeld EXCEPT ![h] = sdCell]
    /\ sdAsked' = IF sdAt \in {"running", "looked"} THEN sdAsked \cup {sdTurn} ELSE sdAsked
    /\ UNCHANGED <<sdStopped, sdDropped, sdTurn, sdAt, sdFlag, sdCell, sdCancelled, sdMessages, sdSnapshot,
                   sdEvents, sdEnded>>

AbortCancels(h) ==
    /\ sdStopped' = IF sdAt = "running" THEN sdStopped \cup ({sdHeld[h]} \cap {NewToken})
                    ELSE sdStopped
    /\ sdHeld[h] # 0
    /\ sdCancelled' = sdCancelled \cup {sdHeld[h]} /\ sdHeld' = [sdHeld EXCEPT ![h] = 0]
    /\ UNCHANGED <<sdDropped, sdTurn, sdAt, sdFlag, sdCell, sdMessages, sdSnapshot, sdEvents, sdEnded,
                   sdAsked>>

TakeSnapshot ==
    /\ Free /\ sdSnapshot' = sdMessages
    /\ UNCHANGED <<sdStopped, sdDropped, sdTurn, sdAt, sdFlag, sdCell, sdHeld, sdCancelled, sdMessages, sdEvents,
                   sdEnded, sdAsked>>

\* clear, and a session built from a snapshot.
Replace(messages) ==
    /\ Free /\ sdMessages' = messages /\ sdEnded' = messages
    /\ UNCHANGED <<sdStopped, sdDropped, sdTurn, sdAt, sdFlag, sdCell, sdHeld, sdCancelled, sdSnapshot, sdEvents,
                   sdAsked>>

Clear == Replace(<<>>)
ResumeSnapshot == Replace(sdSnapshot)

SdNext ==
    \/ Prompt \/ TokenSet \/ RunEnds \/ TurnReturns \/ TurnFails \/ FutureDropped
    \/ TakeSnapshot \/ Clear \/ ResumeSnapshot
    \/ \E h \in Handles : AbortLooks(h) \/ AbortCancels(h)

SdSpec == SdInit /\ [][SdNext]_sdVars

-----------------------------------------------------------------------------
(* Properties. *)

\* An abort stops the turn it found in progress and never a later one, however
\* late it comes to cancel: while a turn has not been aborted its token is not
\* cancelled.
AbortHitsItsTurn ==
    sdAt \in {"running", "looked"} /\ NewToken \in sdCancelled => sdTurn \in sdAsked

\* The conversation is that of the turns that returned a result: a turn that
\* failed, was cut off in a stream or was dropped leaves nothing behind.
FailedLeavesNothing == sdMessages = sdEnded

Closing(t) == {i \in DOMAIN sdEvents[t] : sdEvents[t][i] # "started"}

\* docs/SDK.md:136: a turn ends with exactly one of completed, aborted and
\* failed, before the next begins; a dropped one is the exception.
OneEnd ==
    \A t \in 1..sdTurn :
        /\ \A i, j \in Closing(t) : i = j
        /\ t < sdTurn \/ sdAt = "idle" => Closing(t) # {} \/ t \in sdDropped

\* docs/SDK.md:73, 136: a turn whose token was cancelled while it ran is not
\* reported as completed.
AbortIsTold == \A t \in sdStopped : \A i \in Closing(t) : sdEvents[t][i] \in {"aborted", "failed"}

\* What a host may rely on of the turns it starts and aborts.
HostTurnsEnd == AbortHitsItsTurn /\ FailedLeavesNothing /\ OneEnd /\ AbortIsTold

=============================================================================
