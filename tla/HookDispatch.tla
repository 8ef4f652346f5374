---------------------------- MODULE HookDispatch ----------------------------
(***************************************************************************)
(* One dispatch of an event to its hooks: HookRegistry::dispatch           *)
(* (hooks/registry.rs), run_command_hook (hooks/runner.rs) for each, and   *)
(* what their results come to together (hooks/effects.rs, runtime.rs).     *)
(*                                                                         *)
(* A hook is a shell command in a process group of its own.  It is given   *)
(* the payload on stdin, its stdout and stderr are read to their ends, and *)
(* it is waited for: four waits, one deadline.  What it started in the     *)
(* background may hold its pipes, inside its group or outside.             *)
(***************************************************************************)
EXTENDS Naturals, FiniteSets, Sequences

CONSTANTS
    HookCount,       \* hooks that match the event
    MaxConcurrent,   \* MAX_CONCURRENT_HOOKS
    HookEvents,      \* the events dispatched
    Printed,         \* decisions a command may print
    ExitCodes        \* and codes it may exit with

Refusals == {"block", "deny", "stop"}

\* "rewrite" is allow with an updatedInput, "infra" is 126 or 127, "other" warns.
ASSUME HookAssumption ==
    /\ HookCount \in Nat /\ MaxConcurrent \in Nat \ {0}
    /\ Printed \subseteq {"allow", "rewrite"} \cup Refusals
    /\ ExitCodes \subseteq {"zero", "two", "infra", "other"}

Hooks == 1..HookCount

VARIABLES
    hkEvent,     \* the event
    hkStage,     \* the wait each run is at
    hkChild,     \* "none", "running", "killed", or how it exited by itself
    hkStray,     \* a process it left: "none", "group" or "escaped" of it
    hkMute,      \* the child closed its own ends of the pipes
    hkSaid,      \* the decision the child printed
    hkRead,      \* as much of it as the reader task has read
    hkFailure,   \* HookRunFailure, or "none"
    hkRuns,      \* hooks in the order their runs ended
    hkOutcome    \* the outcomes returned: at most one

hkVars == <<hkEvent, hkStage, hkChild, hkStray, hkMute, hkSaid, hkRead, hkFailure,
            hkRuns, hkOutcome>>
hkProcess == <<hkChild, hkStray, hkMute, hkSaid, hkRead>>

HookInit ==
    /\ hkEvent \in HookEvents
    /\ hkStage = [h \in Hooks |-> "queued"] /\ hkChild = [h \in Hooks |-> "none"]
    /\ hkStray = [h \in Hooks |-> "none"] /\ hkMute = [h \in Hooks |-> FALSE]
    /\ hkSaid = [h \in Hooks |-> "nothing"] /\ hkRead = [h \in Hooks |-> "nothing"]
    /\ hkFailure = [h \in Hooks |-> "none"]
    /\ hkRuns = <<>> /\ hkOutcome = {}

Stage(h, from, to) == hkStage[h] = from /\ hkStage' = [hkStage EXCEPT ![h] = to]
Finish(h)          == hkRuns' = Append(hkRuns, h)

-----------------------------------------------------------------------------
(* run_command_hook *)

\* buffer_unordered starts the next hook when fewer than the limit run.
Spawn(h) ==
    /\ Cardinality({g \in Hooks : hkStage[g] \notin {"queued", "ended"}}) < MaxConcurrent
    /\ \A g \in Hooks : g < h => hkStage[g] # "queued"
    /\ \/ Stage(h, "queued", "stdin") /\ hkChild' = [hkChild EXCEPT ![h] = "running"]
          /\ UNCHANGED <<hkFailure, hkRuns>>
       \/ Stage(h, "queued", "ended") /\ hkFailure' = [hkFailure EXCEPT ![h] = "spawn"]
          /\ Finish(h) /\ UNCHANGED hkChild
    /\ UNCHANGED <<hkEvent, hkStray, hkMute, hkSaid, hkRead, hkOutcome>>

\* The pipes end when nobody holds them.
Eof(h) == (hkMute[h] \/ hkChild[h] # "running") /\ hkStray[h] = "none"

\* The payload is written, or its reader is gone.
StdinWritten(h) ==
    /\ Stage(h, "stdin", "stdout")
    /\ UNCHANGED <<hkEvent, hkProcess, hkFailure, hkRuns, hkOutcome>>

StdoutEnds(h) ==
    /\ Eof(h) /\ hkRead[h] = hkSaid[h] /\ Stage(h, "stdout", "stderr")
    /\ UNCHANGED <<hkEvent, hkProcess, hkFailure, hkRuns, hkOutcome>>

StderrEnds(h) ==
    /\ Eof(h) /\ Stage(h, "stderr", "wait")
    /\ UNCHANGED <<hkEvent, hkProcess, hkFailure, hkRuns, hkOutcome>>

Waited(h) ==
    /\ hkChild[h] # "running" /\ Stage(h, "wait", "ended") /\ Finish(h)
    /\ UNCHANGED <<hkEvent, hkProcess, hkFailure, hkOutcome>>

\* The wait a run is at is not over.
Blocked(h) ==
    \/ hkStage[h] = "stdin"
    \/ hkStage[h] = "stdout" /\ (~Eof(h) \/ hkRead[h] # hkSaid[h])
    \/ hkStage[h] = "stderr" /\ ~Eof(h)
    \/ hkStage[h] = "wait" /\ hkChild[h] = "running"

\* terminate_child_tree kills the group: whatever was left in it, and the child.
Killed(h) == hkStray' = [hkStray EXCEPT ![h] = IF @ = "group" THEN "none" ELSE @]

\* The deadline, the same for every wait, may pass at any time.  The tree is
\* killed and reaped, and a code it had exited with is kept.
TimesOut(h) ==
    /\ Blocked(h)
    /\ hkStage' = [hkStage EXCEPT ![h] = "ended"]
    /\ hkChild' = [hkChild EXCEPT ![h] = IF @ = "running" THEN "killed" ELSE @]
    /\ Killed(h)
    /\ hkFailure' = [hkFailure EXCEPT ![h] = "timeout"] /\ Finish(h)
    /\ UNCHANGED <<hkEvent, hkMute, hkSaid, hkRead, hkOutcome>>

\* The task that reads stdout into the buffer the run looks at in the end.
ReadOutput(h) ==
    /\ hkStage[h] \in {"stdin", "stdout"} /\ hkRead[h] # hkSaid[h]
    /\ hkRead' = [hkRead EXCEPT ![h] = hkSaid[h]]
    /\ UNCHANGED <<hkEvent, hkStage, hkChild, hkStray, hkMute, hkSaid, hkFailure, hkRuns, hkOutcome>>

-----------------------------------------------------------------------------
(* The command does as it likes. *)

\* A stray that lives on after the run is over concerns nobody.
CommandOnly == UNCHANGED <<hkEvent, hkStage, hkRead, hkFailure, hkRuns, hkOutcome>>

Says(h, d) ==
    /\ hkChild[h] = "running" /\ ~hkMute[h] /\ hkSaid[h] = "nothing"
    /\ hkSaid' = [hkSaid EXCEPT ![h] = d]
    /\ CommandOnly /\ UNCHANGED <<hkChild, hkStray, hkMute>>

Closes(h) ==
    /\ hkChild[h] = "running" /\ ~hkMute[h] /\ hkMute' = [hkMute EXCEPT ![h] = TRUE]
    /\ CommandOnly /\ UNCHANGED <<hkChild, hkStray, hkSaid>>

Leaves(h, where) ==
    /\ hkChild[h] = "running" /\ ~hkMute[h] /\ hkStray[h] = "none"
    /\ hkStray' = [hkStray EXCEPT ![h] = where]
    /\ CommandOnly /\ UNCHANGED <<hkChild, hkMute, hkSaid>>

CommandExits(h, code) ==
    /\ hkChild[h] = "running" /\ hkChild' = [hkChild EXCEPT ![h] = code]
    /\ CommandOnly /\ UNCHANGED <<hkStray, hkMute, hkSaid>>

StrayEnds(h) ==
    /\ hkStray[h] # "none" /\ hkStage[h] # "ended" /\ hkStray' = [hkStray EXCEPT ![h] = "none"]
    /\ CommandOnly /\ UNCHANGED <<hkChild, hkMute, hkSaid>>

-----------------------------------------------------------------------------
(* What the results come to. *)

Gating == hkEvent \in {"PreToolUse", "PermissionRequest"}

\* parse_hook_effect: exit code 2 blocks unless something else was decided.
Effect(h) == IF hkChild[h] = "two" /\ hkRead[h] = "nothing" THEN "block" ELSE hkRead[h]

FailClosed(h) ==
    Gating /\ (hkFailure[h] # "none" \/ hkChild[h] = "infra")

Effective(h) ==
    IF Effect(h) \notin Refusals /\ FailClosed(h) THEN "block" ELSE Effect(h)

Rewrites(h) ==
    /\ hkRead[h] = "rewrite" /\ Effect(h) = "rewrite"
    /\ hkEvent \in {"PreToolUse", "UserPromptSubmit"}

\* Mutant: results are taken as they come.
LastEnded(hooks) ==
    hkRuns[CHOOSE i \in DOMAIN hkRuns :
             hkRuns[i] \in hooks /\ \A j \in DOMAIN hkRuns : hkRuns[j] \in hooks => j <= i]

\* dispatch: results in the order of the hooks, whatever order they ended in.
LastOf(hooks) == CHOOSE h \in hooks : \A g \in hooks : g <= h

\* summarize_hook_dispatch: a refusal withdraws permission and rewrites; among
\* rewrites the last one counts.
Outcome ==
    LET did(kinds) == \E h \in Hooks : Effective(h) \in kinds
        rewriters  == {h \in Hooks : Rewrites(h)}
    IN  [blocked |-> did({"block", "deny"}), stopped |-> did({"stop"}),
         allowed |-> did({"allow", "rewrite"}) /\ ~did(Refusals),
         input   |-> IF did(Refusals) \/ rewriters = {} THEN 0 ELSE LastOf(rewriters)]

Summarize ==
    /\ hkOutcome = {} /\ \A h \in Hooks : hkStage[h] = "ended"
    /\ hkOutcome' = {Outcome}
    /\ UNCHANGED <<hkEvent, hkStage, hkProcess, hkFailure, hkRuns>>

-----------------------------------------------------------------------------

Runner(h) == \/ Spawn(h) \/ StdoutEnds(h) \/ StderrEnds(h) \/ Waited(h)
             \/ TimesOut(h) \/ ReadOutput(h)
CommandStep(h) ==
    \/ Closes(h) \/ StrayEnds(h)
    \/ \E d \in Printed : Says(h, d)
    \/ \E where \in {"group", "escaped"} : Leaves(h, where)
    \/ \E code \in ExitCodes : CommandExits(h, code)

HookNext == Summarize \/ \E h \in Hooks : Runner(h) \/ StdinWritten(h) \/ CommandStep(h)
HookSpec == HookInit /\ [][HookNext]_hkVars

-----------------------------------------------------------------------------
(* Properties. *)

\* A refusal holds: if a hook printed one that was read, or exited with 2
\* without deciding, or is a gate and failed, timed out or could not be run,
\* then the outcome is a refusal, permits nothing and rewrites nothing.
RefusalsHold ==
    \A o \in hkOutcome : \A h \in Hooks :
        \/ hkRead[h] \in Refusals
        \/ hkChild[h] = "two" /\ hkRead[h] = "nothing"
        \/ Gating /\ (hkChild[h] \in {"none", "killed", "infra"} \/ hkFailure[h] = "timeout")
        => (o.blocked \/ o.stopped) /\ ~o.allowed /\ o.input = 0

\* An input that replaces the call's is that of the last hook, in the order of
\* the configuration, which allowed and rewrote, whatever order they ended in.
RewriteIsLast ==
    \A o \in hkOutcome : o.input # 0 =>
        /\ hkRead[o.input] = "rewrite"
        /\ \A h \in o.input + 1 .. HookCount : hkRead[h] # "rewrite"

\* hooks/mod.rs:678 "command_runner_timeout_kills_background_process_group": a run
\* that is over leaves no child, and after a timeout nothing of its group.
NoStrays ==
    \A h \in Hooks : hkStage[h] = "ended" =>
        /\ hkChild[h] # "running"
        /\ hkFailure[h] = "timeout" => hkStray[h] # "group"

\* What the outcomes of several hooks come to, and that none of them stays behind.
HooksSound == RefusalsHold /\ RewriteIsLast /\ NoStrays

\* A dispatch ends, whatever its commands and their descendants do.
DispatchEnds == (\E h \in Hooks : hkStage[h] # "queued") ~> hkOutcome # {}

=============================================================================
