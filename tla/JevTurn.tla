------------------------------- MODULE JevTurn -------------------------------
(***************************************************************************)
(* How a turn begins (src/src/session_turn.rs run_user_turn) when a router *)
(* is asked first whether it can answer (jev.rs route_request, agent.rs):  *)
(* what was staged for the turn, images and the context of hooks, is taken *)
(* out of the session before the router is asked, and the router's answer  *)
(* replaces that of the model when it may.                                 *)
(***************************************************************************)
EXTENDS Naturals, Sequences

CONSTANTS
    MaxStaged,  \* bound on images and contexts made
    MaxPrompts  \* bound on turns

ASSUME JevAssumption == MaxStaged \in Nat /\ MaxPrompts \in Nat

VARIABLES
    jtMode,     \* config.jev.mode
    jtImages,   \* pending_image_attachments
    jtContexts, \* pending_hook_contexts
    jtMade,     \* how much was staged so far, images and contexts
    jtAt,       \* "idle", "hooked", "drained", "asked", "pushed"
    jtTurn,     \* the turn at work: its images and contexts
    jtReply,    \* what the router said; "none": not asked
    jtSent,     \* turns that were answered: images, contexts, and by whom
    jtCtrlC,    \* the token of the turn
    jtLost,     \* history: what was drained when Ctrl-C ended the routing
    jtCleared   \* history: images the user cleared

jtVars == <<jtMode, jtImages, jtContexts, jtMade, jtAt, jtTurn, jtReply, jtSent, jtCtrlC,
            jtLost, jtCleared>>
jtQuiet == <<jtImages, jtContexts, jtMade, jtSent, jtLost, jtCleared>>

NoPrompt == [images |-> {}, contexts |-> {}]

JtInit ==
    /\ jtMode \in {"off", "shadow", "active"}
    /\ jtImages = {} /\ jtContexts = {} /\ jtMade = 0 /\ jtAt = "idle" /\ jtTurn = NoPrompt
    /\ jtReply = "none" /\ jtSent = <<>> /\ jtCtrlC = FALSE /\ jtLost = {} /\ jtCleared = {}

\* /jev
SetMode(mode) ==
    /\ jtAt = "idle" /\ mode # jtMode /\ jtMode' = mode
    /\ UNCHANGED <<jtQuiet, jtAt, jtTurn, jtReply, jtCtrlC>>

\* /image, and hooks whose context waits for the next turn.
StageImage ==
    /\ jtAt = "idle" /\ jtMade < MaxStaged /\ jtMade' = jtMade + 1
    /\ jtImages' = jtImages \cup {jtMade'}
    /\ UNCHANGED <<jtMode, jtContexts, jtAt, jtTurn, jtReply, jtSent, jtCtrlC, jtLost, jtCleared>>

HookLeavesContext ==
    /\ jtAt = "idle" /\ jtMade < MaxStaged /\ jtMade' = jtMade + 1
    /\ jtContexts' = jtContexts \cup {jtMade'}
    /\ UNCHANGED <<jtMode, jtImages, jtAt, jtTurn, jtReply, jtSent, jtCtrlC, jtLost, jtCleared>>

ClearImages ==
    /\ jtAt = "idle" /\ jtImages # {}
    /\ jtImages' = {} /\ jtCleared' = jtCleared \cup jtImages
    /\ UNCHANGED <<jtMode, jtContexts, jtMade, jtAt, jtTurn, jtReply, jtSent, jtCtrlC, jtLost>>

\* Mutant: what is staged is taken before the hooks have let the prompt pass.
TakenFirst(passes) ==
    /\ jtAt = "idle" /\ Len(jtSent) < MaxPrompts
    /\ jtTurn' = [images |-> jtImages, contexts |-> jtContexts]
    /\ jtImages' = {} /\ jtContexts' = {} /\ jtCtrlC' = FALSE
    /\ jtAt' = (IF passes THEN "drained" ELSE "idle")
    /\ UNCHANGED <<jtMode, jtMade, jtReply, jtSent, jtLost, jtCleared>>

\* UserPromptSubmit hooks: a block or a stop leaves everything staged.
PromptHooks(passes) ==
    /\ jtAt = "idle" /\ Len(jtSent) < MaxPrompts
    /\ jtAt' = (IF passes THEN "hooked" ELSE "idle") /\ jtCtrlC' = FALSE
    /\ UNCHANGED <<jtQuiet, jtMode, jtTurn, jtReply>>

\* The contexts go into the system message, the images into the user's.
Drain ==
    /\ jtAt = "hooked" /\ jtAt' = "drained"
    /\ jtTurn' = [images |-> jtImages, contexts |-> jtContexts]
    /\ jtImages' = {} /\ jtContexts' = {}
    /\ UNCHANGED <<jtMode, jtMade, jtReply, jtSent, jtCtrlC, jtLost, jtCleared>>

\* Only text is routed.
Eligible == jtMode # "off" /\ jtTurn.images = {}

\* JevClient::query: a transport error, a late, invalid or incomplete answer;
\* an uncertain route, the main model, an uncertain decision; or an answer.
Routed(reply) ==
    /\ jtAt = "drained" /\ jtAt' = "asked"
    /\ jtReply' = IF Eligible THEN reply ELSE "none"
    /\ UNCHANGED <<jtQuiet, jtMode, jtTurn, jtCtrlC>>

\* Ctrl-C while the router is asked: the turn ends, and what it drained is gone.
CancelledInRouting ==
    /\ jtAt = "drained" /\ jtAt' = "idle"
    /\ jtLost' = jtLost \cup jtTurn.images \cup jtTurn.contexts /\ jtTurn' = NoPrompt
    /\ UNCHANGED <<jtMode, jtImages, jtContexts, jtMade, jtReply, jtSent, jtCtrlC, jtCleared>>

\* The user message is pushed and saved; from now on Ctrl-C sets the token.
PushUser ==
    /\ jtAt = "asked" /\ jtAt' = "pushed"
    /\ UNCHANGED <<jtQuiet, jtMode, jtTurn, jtReply, jtCtrlC>>

CtrlC ==
    /\ jtAt = "pushed" /\ ~jtCtrlC /\ jtCtrlC' = TRUE
    /\ UNCHANGED <<jtQuiet, jtMode, jtAt, jtTurn, jtReply>>

\* would_answer, direct_answer, and run_agent's look at the token.
Direct == jtReply = "sure" /\ jtMode = "active" /\ ~jtCtrlC

\* run_agent: the router's answer, a model's, or none.
Answered ==
    /\ jtAt = "pushed" /\ jtAt' = "idle" /\ jtTurn' = NoPrompt /\ jtReply' = "none"
    /\ \E by \in IF Direct THEN {"jev"} ELSE IF jtCtrlC THEN {"nobody"} ELSE {"model", "nobody"} :
         jtSent' = Append(jtSent, [turn |-> jtTurn, by |-> by, mode |-> jtMode, late |-> jtCtrlC])
    /\ UNCHANGED <<jtMode, jtImages, jtContexts, jtMade, jtCtrlC, jtLost, jtCleared>>

Replies == {"failed", "main", "unsure", "sure"}

JtNext ==
    \/ StageImage \/ HookLeavesContext \/ ClearImages \/ Drain \/ CancelledInRouting
    \/ PushUser \/ CtrlC \/ Answered
    \/ \E mode \in {"off", "shadow", "active"} : SetMode(mode)
    \/ \E passes \in BOOLEAN : PromptHooks(passes)
    \/ \E reply \in Replies : Routed(reply)

JtSpec == JtInit /\ [][JtNext]_jtVars

-----------------------------------------------------------------------------
(* Properties. *)

InTurn(t) == t.images \cup t.contexts
SentTurns == {jtSent[i] : i \in DOMAIN jtSent}

\* Where what was staged may be: the first four places, then the turns sent.
Place(i) ==
    CASE i = 1 -> jtImages \cup jtContexts
      [] i = 2 -> InTurn(jtTurn)
      [] i = 3 -> jtLost
      [] i = 4 -> jtCleared
      [] OTHER -> InTurn(jtSent[i - 4].turn)
Places == 1..(4 + Len(jtSent))

\* What was staged for the next turn is in exactly one place: still staged, in
\* the turn at work, or in one turn that was sent; a prompt that hooks blocked
\* leaves it staged.  Ctrl-C while the router is asked is the exception.
StagedOnce ==
    /\ UNION {Place(i) : i \in Places} = 1..jtMade
    /\ \A i, j \in Places : i # j => Place(i) \cap Place(j) = {}

\* The router answers for the model only when it is switched on, never in place
\* of an answer about an image, and never after Ctrl-C.
JevMayAnswer ==
    \A s \in SentTurns : s.by = "jev" => s.mode = "active" /\ s.turn.images = {} /\ ~s.late

\* What is staged goes with one turn, and Jev answers no other than it may.
StagingHolds == StagedOnce /\ JevMayAnswer


=============================================================================
