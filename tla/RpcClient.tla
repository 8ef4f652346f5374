------------------------------ MODULE RpcClient ------------------------------
(***************************************************************************)
(* JSON-RPC over the pipes of a child process: the clients of MCP servers  *)
(* (src/src/mcp.rs) and of extensions (src/src/extensions.rs), which are   *)
(* the same but for the opening and for what a failed write leaves behind. *)
(*                                                                         *)
(* Every caller registers a one-shot channel under its id, writes a frame  *)
(* while it holds the lock of stdin, and waits with a deadline.  One reader *)
(* task hands answers to the channels and, at the end of stdout, fails     *)
(* those that are left.  Ids are never reused, so a request is its id.     *)
(***************************************************************************)
EXTENDS FiniteSets, Naturals

CONSTANTS
    Calls,      \* requests after the opening
    Hello,      \* the request "initialize"
    List,       \* the request "tools/list" that follows in MCP
    Nobody,     \* the lock of stdin is free
    PipeRoom    \* frames the pipe to the server holds

Requests == Calls \cup {Hello, List}

ASSUME RpcAssumption == PipeRoom \in Nat \ {0} /\ Nobody \notin Requests

VARIABLES
    rpcKind,     \* "mcp" or "extension"
    rpcOpen,     \* how far the opening is
    rpcPc,       \* where each caller is in request()
    rpcEnd,      \* what its request came to
    rpcPending,  \* the map of channels
    rpcSlot,     \* what was sent into each channel
    rpcStdin,    \* who holds the lock of stdin
    rpcPipe,     \* frames the server has not read
    rpcSeen,     \* frames it has read
    rpcLines,    \* answers the reader has not read
    rpcServer,   \* "up", "deaf" (reads no more), "mute" (closed stdout), "dead"
    rpcReader,   \* the reader task runs
    rpcLate      \* history: requests registered after it ended

rpcVars == <<rpcKind, rpcOpen, rpcPc, rpcEnd, rpcPending, rpcSlot, rpcStdin, rpcPipe,
             rpcSeen, rpcLines, rpcServer, rpcReader, rpcLate>>
rpcServerVars == <<rpcSeen, rpcLines, rpcServer, rpcReader>>
rpcFixed      == <<rpcKind, rpcOpen>>

Answers == {"ok", "error"}

RpcInit ==
    /\ rpcKind \in {"mcp", "extension"} /\ rpcOpen = "initialize"
    /\ rpcPc = [c \in Requests |-> "idle"] /\ rpcEnd = [c \in Requests |-> "none"]
    /\ rpcPending = {} /\ rpcSlot = [c \in Requests |-> "empty"]
    /\ rpcStdin = Nobody /\ rpcPipe = {} /\ rpcSeen = {} /\ rpcLines = {}
    /\ rpcServer = "up" /\ rpcReader = TRUE /\ rpcLate = {}

CallerAt(c, from)   == rpcPc[c] = from
CallerGoto(c, to)   == rpcPc' = [rpcPc EXCEPT ![c] = to]
CallerEnds(c, how)   == CallerGoto(c, "done") /\ rpcEnd' = [rpcEnd EXCEPT ![c] = how]

-----------------------------------------------------------------------------
(* A caller: request() and request_with_timeout(). *)

\* spawn sends the opening; everything else needs a client.
MayCall(c) ==
    \/ c = Hello /\ rpcOpen = "initialize"
    \/ c = List /\ rpcOpen = "list"
    \/ c \in Calls /\ rpcOpen = "ready"

Register(c) ==
    /\ CallerAt(c, "idle") /\ MayCall(c) /\ CallerGoto(c, "registered")
    /\ rpcPending' = rpcPending \cup {c}
    /\ rpcLate' = IF rpcReader THEN rpcLate ELSE rpcLate \cup {c}
    /\ UNCHANGED <<rpcFixed, rpcEnd, rpcSlot, rpcStdin, rpcPipe, rpcServerVars>>

LockStdin(c) ==
    /\ CallerAt(c, "registered") /\ rpcStdin = Nobody
    /\ rpcStdin' = c /\ CallerGoto(c, "writing")
    /\ UNCHANGED <<rpcFixed, rpcEnd, rpcPending, rpcSlot, rpcPipe, rpcServerVars, rpcLate>>

\* Mutant: the request is forgotten once it is written.
WriteAndForget(c) ==
    /\ CallerAt(c, "writing") /\ rpcServer # "dead" /\ Cardinality(rpcPipe) < PipeRoom
    /\ rpcPipe' = rpcPipe \cup {c} /\ rpcStdin' = Nobody /\ CallerGoto(c, "waiting")
    /\ rpcPending' = rpcPending \ {c}
    /\ UNCHANGED <<rpcFixed, rpcEnd, rpcSlot, rpcServerVars, rpcLate>>

\* A write waits for room in the pipe, with the lock and without a deadline.
Write(c) ==
    /\ CallerAt(c, "writing") /\ rpcServer # "dead" /\ Cardinality(rpcPipe) < PipeRoom
    /\ rpcPipe' = rpcPipe \cup {c} /\ rpcStdin' = Nobody /\ CallerGoto(c, "waiting")
    /\ UNCHANGED <<rpcFixed, rpcEnd, rpcPending, rpcSlot, rpcServerVars, rpcLate>>

\* MCP leaves at once; an extension's request takes its entry back first.
WriteFails(c) ==
    /\ CallerAt(c, "writing") /\ rpcServer = "dead" /\ rpcStdin' = Nobody
    /\ IF rpcKind = "mcp" THEN CallerEnds(c, "unwritten")
       ELSE CallerGoto(c, "unwritten") /\ UNCHANGED rpcEnd
    /\ UNCHANGED <<rpcFixed, rpcPending, rpcSlot, rpcPipe, rpcServerVars, rpcLate>>

\* Mutant: the reader keeps the deadline.
ExpireByReader(c) ==
    /\ CallerAt(c, "waiting") /\ rpcSlot[c] = "empty" /\ rpcReader /\ CallerGoto(c, "timeout")
    /\ UNCHANGED <<rpcFixed, rpcEnd, rpcPending, rpcSlot, rpcStdin, rpcPipe, rpcServerVars, rpcLate>>

\* The deadline passes; the channel is dropped.
RequestExpires(c) ==
    /\ CallerAt(c, "waiting") /\ rpcSlot[c] = "empty" /\ CallerGoto(c, "timeout")
    /\ UNCHANGED <<rpcFixed, rpcEnd, rpcPending, rpcSlot, rpcStdin, rpcPipe, rpcServerVars, rpcLate>>

Unregister(c) ==
    /\ \E how \in {"unwritten", "timeout"} : CallerAt(c, how) /\ CallerEnds(c, how)
    /\ rpcPending' = rpcPending \ {c}
    /\ UNCHANGED <<rpcFixed, rpcSlot, rpcStdin, rpcPipe, rpcServerVars, rpcLate>>

Receive(c) ==
    /\ CallerAt(c, "waiting") /\ rpcSlot[c] # "empty" /\ CallerEnds(c, rpcSlot[c])
    /\ UNCHANGED <<rpcFixed, rpcPending, rpcSlot, rpcStdin, rpcPipe, rpcServerVars, rpcLate>>

-----------------------------------------------------------------------------
(* The opening: spawn, initialize, spawn_configured. *)

OpenAs(next) == rpcOpen' = next /\ UNCHANGED <<rpcKind, rpcPc, rpcEnd, rpcPending, rpcSlot,
                                              rpcStdin, rpcPipe, rpcSeen, rpcLines, rpcReader, rpcLate>>

Opened ==
    /\ UNCHANGED rpcServer
    /\ \/ rpcOpen = "initialize" /\ rpcEnd[Hello] = "ok"
          /\ OpenAs(IF rpcKind = "mcp" THEN "notify" ELSE "ready")
       \/ rpcOpen = "list" /\ rpcEnd[List] = "ok" /\ OpenAs("ready")

\* notifications/initialized is written under the lock and has no answer.
Notified ==
    /\ rpcOpen = "notify" /\ rpcStdin = Nobody /\ rpcServer # "dead" /\ UNCHANGED rpcServer
    /\ Cardinality(rpcPipe) < PipeRoom
    /\ OpenAs("list")

\* The client is dropped, and its child killed.
OpenFails ==
    /\ \/ rpcOpen = "initialize" /\ rpcEnd[Hello] \notin {"none", "ok"}
       \/ rpcOpen = "notify" /\ rpcServer = "dead"
       \/ rpcOpen = "list" /\ rpcEnd[List] \notin {"none", "ok"}
    /\ rpcServer' = "dead" /\ OpenAs("failed")

-----------------------------------------------------------------------------
(* The reader task. *)

\* handle_incoming: an answer whose request is gone, or a second one, is dropped.
Deliver(c, answer) ==
    /\ rpcReader /\ <<c, answer>> \in rpcLines /\ rpcLines' = rpcLines \ {<<c, answer>>}
    /\ rpcPending' = rpcPending \ {c}
    /\ rpcSlot' = [rpcSlot EXCEPT ![c] = IF c \in rpcPending THEN answer ELSE @]
    /\ UNCHANGED <<rpcFixed, rpcPc, rpcEnd, rpcStdin, rpcPipe, rpcSeen, rpcServer, rpcReader, rpcLate>>

\* End of stdout: every request that is registered is failed.
ReaderEnds ==
    /\ rpcReader /\ rpcServer \in {"mute", "dead"} /\ rpcLines = {} /\ rpcReader' = FALSE
    /\ rpcSlot' = [c \in Requests |-> IF c \in rpcPending THEN "closed" ELSE rpcSlot[c]]
    /\ rpcPending' = {}
    /\ UNCHANGED <<rpcFixed, rpcPc, rpcEnd, rpcStdin, rpcPipe, rpcSeen, rpcLines, rpcServer, rpcLate>>

-----------------------------------------------------------------------------
(* The server may answer late, twice or never, and stop in any way. *)

ServerStep == UNCHANGED <<rpcFixed, rpcPc, rpcEnd, rpcPending, rpcSlot, rpcStdin, rpcReader, rpcLate>>

ServerReads(c) ==
    /\ rpcServer \in {"up", "mute"} /\ c \in rpcPipe
    /\ rpcPipe' = rpcPipe \ {c} /\ rpcSeen' = rpcSeen \cup {c}
    /\ ServerStep /\ UNCHANGED <<rpcLines, rpcServer>>

ServerAnswers(c, answer) ==
    /\ rpcServer \in {"up", "deaf"} /\ c \in rpcSeen
    /\ rpcLines' = rpcLines \cup {<<c, answer>>}
    /\ ServerStep /\ UNCHANGED <<rpcPipe, rpcSeen, rpcServer>>

ServerStops(how) ==
    /\ \/ rpcServer = "up" /\ how \in {"deaf", "mute"}
       \/ rpcServer # "dead" /\ how = "dead"
    /\ rpcServer' = how
    /\ ServerStep /\ UNCHANGED <<rpcPipe, rpcSeen, rpcLines>>

-----------------------------------------------------------------------------

Caller(c) == \/ LockStdin(c) \/ Write(c) \/ WriteFails(c) \/ RequestExpires(c)
             \/ Unregister(c) \/ Receive(c)
Opening   == Opened \/ Notified \/ OpenFails
Reader    == ReaderEnds \/ \E c \in Requests, a \in Answers : Deliver(c, a)

RpcNext ==
    \/ \E c \in Requests : Register(c) \/ Caller(c) \/ ServerReads(c)
    \/ Opening \/ Reader
    \/ \E c \in Requests, a \in Answers : ServerAnswers(c, a)
    \/ \E how \in {"deaf", "mute", "dead"} : ServerStops(how)

RpcSpec == RpcInit /\ [][RpcNext]_rpcVars

-----------------------------------------------------------------------------
(* Properties. *)

\* Every variable has its type; the lock is held by the caller that writes.
RpcTypeOK ==
    /\ rpcKind \in {"mcp", "extension"}
    /\ rpcOpen \in {"initialize", "notify", "list", "ready", "failed"}
    /\ rpcPc \in [Requests -> {"idle", "registered", "writing", "waiting", "unwritten", "timeout", "done"}]
    /\ rpcEnd \in [Requests -> {"none", "unwritten", "timeout", "closed"} \cup Answers]
    /\ rpcPending \in SUBSET Requests /\ rpcLate \in SUBSET Requests
    /\ rpcSlot \in [Requests -> {"empty", "closed"} \cup Answers]
    /\ rpcPipe \in SUBSET Requests /\ rpcSeen \in SUBSET Requests
    /\ rpcLines \in SUBSET (Requests \X Answers)
    /\ rpcServer \in {"up", "deaf", "mute", "dead"} /\ rpcReader \in BOOLEAN
    /\ rpcStdin \in Requests \cup {Nobody}
    /\ \A c \in Requests : rpcPc[c] = "writing" <=> rpcStdin = c

\* mcp.rs "fail every pending request so callers don't hang": nobody waits for
\* an answer that cannot reach it.  A caller whose channel is empty is
\* registered, and the reader still runs unless it had ended before.
WaitersReachable ==
    \A c \in Requests :
        rpcPc[c] \in {"registered", "writing", "waiting"} /\ rpcSlot[c] = "empty"
            => c \in rpcPending /\ (rpcReader \/ c \in rpcLate)

\* The map of channels does not grow with the requests that are over: a request
\* leaves it before it ends, but for MCP's when its frame could not be written.
PendingDrains ==
    \A c \in rpcPending : rpcPc[c] = "done" => rpcKind = "mcp" /\ rpcEnd[c] = "unwritten"

\* A request ends with an answer only if the server read it and answered it:
\* late, double and foreign answers end nothing.
AnsweredByServer ==
    \A c \in Requests : rpcEnd[c] \in Answers => c \in rpcSeen

\* The table of pending requests and who waits on it.
RpcSound == RpcTypeOK /\ WaitersReachable /\ PendingDrains /\ AnsweredByServer

\* A request ends, whatever the server does: with an answer, at its
\* death, or at the deadline.  The exception is a server that lives and does
\* not read: no deadline covers the write.
RequestsEnd ==
    \A c \in Requests : rpcPc[c] = "registered" ~> (rpcPc[c] = "done" \/ rpcServer = "deaf")

=============================================================================
