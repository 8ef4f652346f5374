----------------------------- MODULE MCCommands -----------------------------
(* The commands that change the model or run turns of their own, and the   *)
(* loop of a turn when nothing but the steps of the program is fair, each  *)
(* part by itself, for TLC: a behaviour is that of one part, and the       *)
(* others stay as they began.                                              *)
EXTENDS RoutedPlan, TaskLoops, ActiveModel, AgentLoop

VARIABLE part

commandsVars == <<part, plVars, lpVars, amVars, vars>>

Begun(p) == part = p /\ UNCHANGED part

CommandsInit ==
    /\ part \in {"plan", "loops", "model", "turn"}
    /\ PlanInit /\ LoopInit /\ AmInit /\ Init

CommandsNext ==
    \/ Begun("plan") /\ PlanNext /\ UNCHANGED <<lpVars, amVars, vars>>
    \/ Begun("loops") /\ LoopNext /\ UNCHANGED <<plVars, amVars, vars>>
    \/ Begun("model") /\ AmNext /\ UNCHANGED <<plVars, lpVars, vars>>
    \/ Begun("turn") /\ Next /\ UNCHANGED <<plVars, lpVars, amVars>>

\* What a command has begun it goes on with: turns, critics and tests answer.
CommandsSpec ==
    /\ CommandsInit /\ [][CommandsNext]_commandsVars
    /\ WF_plVars(part = "plan" /\ PlanStep)
    /\ WF_lpVars(part = "loops" /\ LoopStep)
    /\ WF_vars(part = "turn" /\ Proceed)

\* The loop of a turn ends (AgentLoop's Terminates, in the behaviours that are
\* a turn's), whatever the model, the hooks and the user do.
TurnReturns == part = "turn" => Terminates

\* A turn, an executor and a loop come to an end, whatever the model and the user do.
CommandsEnd == TurnReturns /\ CancelEnds /\ ExecutorReturns /\ LoopEnds

=============================================================================
