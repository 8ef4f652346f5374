----------------------------- MODULE RoutedPlan -----------------------------
(***************************************************************************)
(* /plan route and /plan execute: a planner model drafts a graph of tasks, *)
(* planner.rs accepts or refuses it, and cmd_plan_execute                  *)
(* (src/src/commands/mod.rs) runs its ready tasks one by one, each as a    *)
(* turn with a model of its own, and saves plan.json before and after.     *)
(* The executor may be killed anywhere and started again.                  *)
(***************************************************************************)
EXTENDS Naturals, FiniteSets

CONSTANTS
    TaskCount,    \* tasks of a draft, in the order drafted
    MaxFaults     \* bound on executors killed and saves that fail

ASSUME PlanAssumption == TaskCount \in Nat /\ MaxFaults \in Nat

Tasks == 1..TaskCount

VARIABLES
    plAt,         \* what the command is at
    plDeps,       \* the graph drafted: tasks each task waits for
    plFile,       \* status of each task in plan.json
    plHeld,       \* and in the executor's memory
    plTask,       \* the task at hand; 0: none
    plModel,      \* the active model: 0 the user's own, else a task's
    plBudget,     \* --max: tasks it may still run
    plTurns,      \* history: turns of each task that ended
    plFaults,      \* history: executors killed and saves failed
    plUnsaved     \* history: a save failed

plVars == <<plAt, plDeps, plFile, plHeld, plTask, plModel, plBudget, plTurns, plFaults, plUnsaved>>

PlanInit ==
    /\ plAt = "idle" /\ plDeps = [t \in Tasks |-> {}]
    /\ plFile = <<>> /\ plHeld = <<>> /\ plTask = 0 /\ plModel = 0 /\ plBudget = 0
    /\ plTurns = [t \in Tasks |-> 0] /\ plFaults = 0 /\ plUnsaved = FALSE

-----------------------------------------------------------------------------
(* planner.rs: which drafts are plans. *)

\* first_dependency_cycle finds one where each of some tasks waits for another of them.
Cyclic(deps) == \E tasks \in SUBSET Tasks : tasks # {} /\ \A t \in tasks : deps[t] \cap tasks # {}

\* routed_plan_from_value; unknown and doubled ids are refused before.
Accepted(deps) ==
    /\ \A t \in Tasks : t \notin deps[t]
    /\ \E t \in Tasks : deps[t] = {}
    /\ ~Cyclic(deps)

\* cmd_plan_route: a draft that is refused leaves the old plan.
Route(deps) ==
    /\ plAt = "idle" /\ plFile = <<>> /\ Accepted(deps)
    /\ plDeps' = deps /\ plFile' = [t \in Tasks |-> "pending"]
    /\ UNCHANGED <<plAt, plHeld, plTask, plModel, plBudget, plTurns, plFaults, plUnsaved>>

-----------------------------------------------------------------------------
(* cmd_plan_execute *)

Execute(max) ==
    /\ plAt = "idle" /\ plFile # <<>>
    /\ plAt' = "next" /\ plHeld' = plFile /\ plBudget' = max
    /\ UNCHANGED <<plDeps, plFile, plTask, plModel, plTurns, plFaults, plUnsaved>>

\* Mutant: what failed does not hold up what waits for it.
ReadyAfterFailure ==
    {t \in Tasks : plHeld[t] \in {"pending", "running"}
                   /\ \A d \in plDeps[t] : plHeld[d] \in {"done", "failed"}}

\* next_ready_task_index: "running" is left of an executor that was killed.
ReadyTasks ==
    {t \in Tasks : plHeld[t] \in {"pending", "running"}
                   /\ \A d \in plDeps[t] : plHeld[d] = "done"}
First(tasks) == CHOOSE t \in tasks : \A u \in tasks : t <= u

\* The original model is restored on every way out but a failed save.
PlanEnds ==
    /\ plAt = "next" /\ (plBudget = 0 \/ ReadyTasks = {})
    /\ plAt' = "idle" /\ plModel' = 0 /\ plTask' = 0 /\ plHeld' = <<>> /\ plBudget' = 0
    /\ UNCHANGED <<plDeps, plFile, plTurns, plFaults, plUnsaved>>

\* The status of a task changes in memory and is saved, or the command ends.
Mark(t, status, next) ==
    /\ plHeld' = [plHeld EXCEPT ![t] = status]
    /\ \/ /\ plFile' = [plHeld EXCEPT ![t] = status] /\ plAt' = next
          /\ UNCHANGED <<plUnsaved, plFaults>>
       \/ /\ plFaults < MaxFaults /\ plFaults' = plFaults + 1 /\ plUnsaved' = TRUE
          /\ plAt' = "unsaved" /\ UNCHANGED plFile

\* A tier without a coder fails its task and stops the command.
BeginTask ==
    /\ plAt = "next" /\ plBudget > 0 /\ ReadyTasks # {}
    /\ plTask' = First(ReadyTasks)
    /\ Mark(First(ReadyTasks), "running", "apply") \/ Mark(First(ReadyTasks), "failed", "stop")
    /\ UNCHANGED <<plDeps, plModel, plBudget, plTurns>>

\* Mutant: a model that cannot be applied leaves its task for another try.
ApplyAgain ==
    /\ plAt = "apply"
    /\ \/ plModel' = plTask /\ plAt' = "turn" /\ UNCHANGED <<plHeld, plFile, plUnsaved, plFaults>>
       \/ UNCHANGED plModel /\ Mark(plTask, "pending", "next")
    /\ UNCHANGED <<plDeps, plTask, plBudget, plTurns>>

\* apply_model_ref changes nothing when it fails.
Apply ==
    /\ plAt = "apply"
    /\ \/ plModel' = plTask /\ plAt' = "turn" /\ UNCHANGED <<plHeld, plFile, plUnsaved, plFaults>>
       \/ UNCHANGED plModel /\ Mark(plTask, "failed", "stop")
    /\ UNCHANGED <<plDeps, plTask, plBudget, plTurns>>

\* run_user_turn.  One that was cancelled or cut off at the limit ended as well.
TaskTurn(ok) ==
    /\ plAt = "turn"
    /\ plTurns' = IF ok THEN [plTurns EXCEPT ![plTask] = @ + 1] ELSE plTurns
    /\ plAt' = IF ok THEN "ended" ELSE "erred"
    /\ UNCHANGED <<plDeps, plFile, plHeld, plTask, plModel, plBudget, plFaults, plUnsaved>>

Record ==
    /\ \/ plAt = "ended" /\ plBudget' = plBudget - 1 /\ Mark(plTask, "done", "next")
       \/ plAt = "erred" /\ plBudget' = plBudget /\ Mark(plTask, "failed", "stop")
    /\ UNCHANGED <<plDeps, plTask, plModel, plTurns>>

Stop ==
    /\ plAt = "stop"
    /\ plAt' = "idle" /\ plModel' = 0 /\ plTask' = 0 /\ plHeld' = <<>> /\ plBudget' = 0
    /\ UNCHANGED <<plDeps, plFile, plTurns, plFaults, plUnsaved>>

\* `?`: the error of a save leaves the task's model active.
Unsaved ==
    /\ plAt = "unsaved"
    /\ plAt' = "idle" /\ plTask' = 0 /\ plHeld' = <<>> /\ plBudget' = 0
    /\ UNCHANGED <<plDeps, plFile, plModel, plTurns, plFaults, plUnsaved>>

\* A new process has the user's model again.
Kill ==
    /\ plAt # "idle" /\ plFaults < MaxFaults /\ plFaults' = plFaults + 1
    /\ plAt' = "idle" /\ plTask' = 0 /\ plHeld' = <<>> /\ plBudget' = 0 /\ plModel' = 0
    /\ UNCHANGED <<plDeps, plFile, plTurns, plUnsaved>>

PlanStep == PlanEnds \/ BeginTask \/ Apply \/ Record \/ Stop \/ Unsaved \/ \E ok \in BOOLEAN : TaskTurn(ok)
PlanNext ==
    \/ \E deps \in [Tasks -> SUBSET Tasks] : Route(deps)
    \/ \E max \in 1..TaskCount : Execute(max)
    \/ PlanStep \/ Kill

PlanSpec == PlanInit /\ [][PlanNext]_plVars

-----------------------------------------------------------------------------
(* Properties. *)

\* A plan that was accepted cannot get stuck by itself: while a task is pending
\* there is one that can run, unless something failed.
NoDeadEnds ==
    plHeld # <<>> /\ (\E t \in Tasks : plHeld[t] \in {"pending", "running"}) /\ ReadyTasks = {}
        => \E t \in Tasks : plHeld[t] = "failed"

\* A task's turn begins when the turns it depends on have ended without error,
\* in whatever executor they ran.
DependenciesFirst ==
    plAt = "turn" => \A d \in plDeps[plTask] : plTurns[d] > 0

\* A task is recorded as done only after its turn, and its turn runs again only
\* if an executor was killed, or could not save, between the turn and the record.
OncePerTask ==
    /\ plFile # <<>> => \A t \in Tasks : plFile[t] = "done" => plTurns[t] > 0
    /\ \A t \in Tasks : plTurns[t] <= 1 + plFaults
    /\ plAt = "turn" => plFile[plTask] = "running"

\* When the command is over the user's model is active again; not, when plan.json
\* could not be saved.
OwnModelBack == plAt = "idle" /\ plModel # 0 => plUnsaved

\* What the executor of a plan does with its tasks and the session's model.
PlanSound == NoDeadEnds /\ DependenciesFirst /\ OncePerTask /\ OwnModelBack

\* An executor that is not killed returns.
ExecutorReturns == plAt = "next" ~> plAt = "idle"

=============================================================================
