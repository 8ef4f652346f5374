----------------------------- MODULE MCPlumbing -----------------------------
(* What carries requests and commands, each part by itself, for TLC: a     *)
(* behaviour is that of one part, and the others stay as they began.       *)
EXTENDS CancelToken, RpcClient, HookDispatch, ShellRun

VARIABLE part

plumbingVars == <<part, cancelVars, rpcVars, hkVars, shVars>>

Begun(p) == part = p /\ UNCHANGED part

PlumbingInit ==
    /\ part \in {"cancel", "rpc", "hooks", "shell"}
    /\ CancelInit /\ RpcInit /\ HookInit /\ ShInit
    /\ part # "rpc" => rpcKind = "mcp"

PlumbingNext ==
    \/ Begun("cancel") /\ CancelNext /\ UNCHANGED <<rpcVars, hkVars, shVars>>
    \/ Begun("rpc") /\ RpcNext /\ UNCHANGED <<cancelVars, hkVars, shVars>>
    \/ Begun("hooks") /\ HookNext /\ UNCHANGED <<cancelVars, rpcVars, shVars>>
    \/ Begun("shell") /\ ShNext /\ UNCHANGED <<cancelVars, rpcVars, hkVars>>

-----------------------------------------------------------------------------
(* A thread that can go on does, a timer fires, providers accept requests   *)
(* and a server that reads goes on reading.  The user need not press        *)
(* Ctrl-C, and commands, servers and hooks need do nothing at all.          *)

CancelFair ==
    /\ WF_cancelVars(part = "cancel" /\ NotifyWaiters)
    /\ \A w \in Waiters :
        /\ WF_cancelVars(part = "cancel" /\ Headers(w))
        /\ WF_cancelVars(part = "cancel" /\ Check(w))
        /\ WF_cancelVars(part = "cancel" /\ Create(w))
        /\ WF_cancelVars(part = "cancel" /\ Wake(w))
        /\ WF_cancelVars(part = "cancel" /\ ShellDeadline(w))

RpcFair ==
    /\ \A c \in Requests : /\ WF_rpcVars(part = "rpc" /\ Caller(c))
                           /\ WF_rpcVars(part = "rpc" /\ ServerReads(c))
    /\ WF_rpcVars(part = "rpc" /\ Opening)
    /\ WF_rpcVars(part = "rpc" /\ Reader)

HookFair ==
    /\ WF_hkVars(part = "hooks" /\ Summarize)
    /\ \A h \in Hooks : WF_hkVars(part = "hooks" /\ Runner(h))

ShellFair ==
    /\ WF_shVars(part = "shell" /\ ShTool)
    /\ WF_shVars(part = "shell" /\ ShTimeGoes)

PlumbingSpec ==
    PlumbingInit /\ [][PlumbingNext]_plumbingVars /\ CancelFair /\ RpcFair /\ HookFair
    /\ ShellFair

\* Nothing waits for ever, for a token that is as it should be: waiters, requests,
\* dispatches and commands end.
PlumbingEnds ==
    /\ []CancelTypeOK
    /\ WaitersWake /\ CancelReachesTalkers /\ RequestsEnd /\ DispatchEnds /\ ShellReturns

=============================================================================
