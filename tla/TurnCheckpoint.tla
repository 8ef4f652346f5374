--------------------------- MODULE TurnCheckpoint ---------------------------
(***************************************************************************)
(* File checkpoints of an agent turn and /undo.                            *)
(*                                                                         *)
(* src/src/turn_checkpoint.rs keeps, for the turn that is running, the     *)
(* content every file had before the first mutation tool named it; the     *)
(* session keeps a bounded stack of those checkpoints.  The agent loop     *)
(* snapshots while it resolves a batch of tool calls and runs the batch    *)
(* afterwards (agent.rs); session_turn.rs decides at the end of the turn   *)
(* whether the checkpoint is pushed; commands/session.rs pops and restores.*)
(*                                                                         *)
(* A file is a member of Files, what it holds a member of Contents, or     *)
(* Absent, or Folder when the path is a directory.  TurnLimit and MaxBatch *)
(* bound the model; MaxTurns, MaxBytes and MaxFileBytes are the limits of  *)
(* CheckpointLimits.                                                       *)
(***************************************************************************)
EXTENDS Integers, Sequences, FiniteSets

CONSTANTS
    Files,         \* paths inside the workspace root
    Contents,      \* what a regular file may hold
    Absent,        \* no file at that path
    Folder,        \* the path is a directory
    Opaque,        \* baseline {existed: true, content: None}
    NotTaken,      \* no baseline recorded for that path
    Size,          \* Size[c]: length of c in bytes
    Binary,        \* the contents looks_binary accepts
    MaxTurns,      \* limits.max_turns: checkpoints kept
    MaxBytes,      \* limits.max_bytes: bytes one checkpoint may hold
    MaxFileBytes,  \* limits.max_file_bytes
    MaxBatch,      \* bound: tool calls in one batch
    TurnLimit,     \* bound: agent turns in a behaviour
    Faults         \* which of FaultKinds may happen

FaultKinds ==
    {"read",      \* reading a file for its baseline fails
     "restore",   \* writing or removing a file during /undo fails
     "torn",      \* a tool's write fails after it changed one file
     "hidden",    \* a hook or the output compactor replaces a result
     "rename",    \* a patch renames a file without ---/+++ headers
     "outside",   \* shell commands and the user's editor change files
     "off",       \* checkpoints switched off in the settings
     "error"}     \* run_agent returns Err: model error, Ctrl-C, compaction

Markers == {Absent, Folder, Opaque, NotTaken}

ASSUME ContentsAssumption ==
    /\ Contents \cap Markers = {}
    /\ Absent \notin {Folder, Opaque, NotTaken}
    /\ Folder \notin {Opaque, NotTaken} /\ Opaque # NotTaken
    /\ Binary \subseteq Contents
    /\ Size \in [Contents -> Nat]
ASSUME LimitsAssumption ==
    /\ {MaxTurns, MaxBytes, MaxFileBytes, MaxBatch, TurnLimit} \subseteq Nat
ASSUME FaultsAssumption == Faults \subseteq FaultKinds

OnDisk   == Contents \cup {Absent, Folder}
Baseline == Contents \cup {Absent, Opaque, NotTaken}
Disk     == [Files -> OnDisk]

FileTools == {"file_write", "file_edit", "apply_patch", "batch_edit"}
ToolCall  == [tool : FileTools \cup {"shell"}, paths : SUBSET Files]

Checkpoint == [files : [Files -> Baseline], skipped : SUBSET Files, bytes : Nat]
NewCheckpoint ==
    [files |-> [f \in Files |-> NotTaken], skipped |-> {}, bytes |-> 0]

VARIABLES
    disk,        \* what every path holds
    phase,       \* "idle", "resolve", "execute" or "stopped"
    capturing,   \* turn_capturer is Some
    checkpoint,  \* the capturer's checkpoint
    todo,        \* paths of the newest call still to be baselined
    pending,     \* the calls of the batch that were granted, in call order
    mutated,     \* memory_changed
    stack,       \* checkpoint_stack.checkpoints, oldest first
    turns,       \* turns begun, bounded by TurnLimit
    (* History variables: no action reads them. *)
    start,       \* the disk when the running turn began; between turns, the disk
    missed,      \* files this turn could not baseline before they changed
    before,      \* before[i]: the disk when the turn of stack[i] began
    leaked       \* files changed since stack[1] with no way back recorded

vars == <<disk, phase, capturing, checkpoint, todo, pending, mutated, stack, turns,
          start, missed, before, leaked>>
history == <<start, missed, before, leaked>>

-----------------------------------------------------------------------------
(* Snapshots. *)

Recorded(cp, f, b) == [cp EXCEPT !.files[f] = b]
Reported(cp, f)    == [cp EXCEPT !.skipped = @ \cup {f}]

\* A binary file or an oversized one leaves a baseline without content, and a
\* file over what is left of the byte budget leaves none.
Ingest(cp, f, v) ==
    IF v \in Binary \/ Size[v] > MaxFileBytes
    THEN Reported(Recorded(cp, f, Opaque), f)
    ELSE IF cp.bytes + Size[v] > MaxBytes
         THEN Reported(cp, f)
         ELSE [Recorded(cp, f, v) EXCEPT !.bytes = @ + Size[v]]

\* Mutant: a created file has no baseline.
BaselineExisting(cp, f, v) == IF v \in {Absent, Folder} THEN cp ELSE Ingest(cp, f, v)

\* A missing file gets the baseline existed = false, a directory is reported.
Baselined(cp, f, v) ==
    CASE v = Absent   -> Recorded(cp, f, Absent)
      [] v = Folder   -> Reported(cp, f)
      [] v \in Contents -> Ingest(cp, f, v)

\* Mutant: the newest content wins.
SnapshotAgain(cp, f, v) == Baselined(cp, f, v)

\* The first baseline of a turn wins.
Snapshot(cp, f, v) == IF cp.files[f] # NotTaken THEN cp ELSE Baselined(cp, f, v)

Holds(b)  == b \in Contents \cup {Absent}     \* restore_checkpoint acts on it
Taken(f)  == checkpoint.files[f] # NotTaken
HasRestorableFiles(cp) == \E f \in Files : cp.files[f] # NotTaken

Changed == {f \in Files : disk[f] # start[f]}

\* Files with no way back are counted from the oldest checkpoint on the stack.
Leak(S) == IF stack = << >> THEN {} ELSE leaked \cup S

-----------------------------------------------------------------------------
(* A turn. *)

Init ==
    /\ disk \in Disk
    /\ phase = "idle" /\ capturing = FALSE /\ checkpoint = NewCheckpoint
    /\ pending = << >> /\ todo = {} /\ mutated = FALSE
    /\ stack = << >> /\ turns = 0
    /\ start = disk /\ missed = {} /\ before = << >> /\ leaked = {}

BeginTurn ==
    /\ phase = "idle" /\ turns < TurnLimit
    /\ turns' = turns + 1
    /\ phase' = "resolve"
    /\ capturing' \in (IF "off" \in Faults THEN BOOLEAN ELSE {TRUE})
    /\ UNCHANGED <<disk, checkpoint, todo, pending, mutated, stack, history>>

\* A granted call joins the batch.  Only a mutation tool has its paths
\* baselined; a patch that renames without content headers names no path.
Resolve(call) ==
    /\ phase = "resolve" /\ todo = {} /\ Len(pending) < MaxBatch
    /\ CASE call.tool = "shell" -> call.paths = {} /\ "outside" \in Faults
         [] call.tool \in {"file_write", "file_edit"} -> Cardinality(call.paths) = 1
         [] call.tool = "apply_patch" -> call.paths # {} \/ "rename" \in Faults
         [] call.tool = "batch_edit" -> call.paths # {}
    /\ pending' = Append(pending, call)
    /\ todo' = IF capturing THEN call.paths ELSE {}
    /\ UNCHANGED <<disk, phase, capturing, checkpoint, mutated, stack, turns, history>>

SnapshotPath(f) ==
    /\ phase = "resolve" /\ f \in todo
    /\ todo' = todo \ {f}
    /\ checkpoint' = Snapshot(checkpoint, f, disk[f])
    /\ UNCHANGED <<disk, phase, capturing, pending, mutated, stack, turns, history>>

\* The error of the read is dropped and the tool runs all the same.
SnapshotFails(f) ==
    /\ phase = "resolve" /\ f \in todo /\ "read" \in Faults
    /\ ~Taken(f) /\ disk[f] \in Contents
    /\ todo' = todo \ {f}
    /\ missed' = missed \cup {f}
    /\ UNCHANGED <<disk, phase, capturing, checkpoint, pending, mutated, stack, turns,
                   start, before, leaked>>

StartExecution ==
    /\ phase = "resolve" /\ todo = {} /\ pending # << >>
    /\ phase' = "execute"
    /\ UNCHANGED <<disk, capturing, checkpoint, pending, todo, mutated, stack, turns, history>>

\* A hook asked to stop while the batch was resolved: nothing of it runs.
StopBatch ==
    /\ phase = "resolve" /\ todo = {} /\ pending # << >>
    /\ phase' = "stopped"
    /\ pending' = << >>
    /\ UNCHANGED <<disk, capturing, checkpoint, todo, mutated, stack, turns, history>>

Finish == \* the head of the batch is done
    /\ pending' = Tail(pending)
    /\ phase' = IF Len(pending) = 1 THEN "resolve" ELSE "execute"
    /\ UNCHANGED <<capturing, checkpoint, todo, stack, turns, start, before, leaked>>

Overwrite(new) == disk' = [f \in Files |-> IF f \in DOMAIN new THEN new[f] ELSE disk[f]]

Running(tool) == phase = "execute" /\ Head(pending).tool = tool

\* tool_output_mutated_workspace reads the result the renderer was sent; a
\* PostToolUse block or a truncated result no longer says "applied".
Report == mutated' \in (IF "hidden" \in Faults THEN {mutated, TRUE} ELSE {TRUE})

FileWrite ==
    /\ Running("file_write")
    /\ \E new \in [Head(pending).paths -> Contents] :
          /\ \A f \in DOMAIN new : disk[f] # Folder
          /\ Overwrite(new)
    /\ Report /\ Finish /\ UNCHANGED missed

\* file_edit, which may create its file, and batch_edit over several at once.
EditFiles ==
    /\ Running("file_edit") \/ Running("batch_edit")
    /\ \E new \in [Head(pending).paths -> Contents] :
          /\ \A f \in DOMAIN new :
               disk[f] \in Contents \/ (disk[f] = Absent /\ Running("file_edit"))
          /\ Overwrite(new)
    /\ Report /\ Finish /\ UNCHANGED missed

ApplyPatch ==
    /\ Running("apply_patch") /\ Head(pending).paths # {}
    /\ \E new \in [Head(pending).paths -> Contents \cup {Absent}] :
          /\ \A f \in DOMAIN new : disk[f] # Folder
          /\ Overwrite(new)
    /\ Report /\ Finish /\ UNCHANGED missed

RenameByPatch(from, to) ==
    /\ Running("apply_patch") /\ Head(pending).paths = {}
    /\ disk[from] \in Contents /\ disk[to] = Absent
    /\ disk' = [disk EXCEPT ![from] = Absent, ![to] = disk[from]]
    /\ missed' = missed \cup {f \in {from, to} : ~Taken(f)}
    /\ Report /\ Finish

\* The tool reports an error and left the workspace alone.
ToolFails ==
    /\ phase = "execute" /\ Head(pending).tool \in FileTools
    /\ Finish /\ UNCHANGED <<disk, mutated, missed>>

\* A write failed after it had begun: the file it was writing is damaged, the
\* files batch_edit had written before are rolled back.  batch_edit reports
\* applied = true nonetheless, the other tools report the error.
ToolTears(f) ==
    /\ phase = "execute" /\ "torn" \in Faults /\ f \in Head(pending).paths
    /\ \/ disk[f] \in Contents
       \/ disk[f] = Absent /\ Head(pending).tool \in {"file_write", "file_edit"}
    /\ \E c \in Contents : disk' = [disk EXCEPT ![f] = c]
    /\ mutated' = (mutated \/ Head(pending).tool = "batch_edit")
    /\ Finish /\ UNCHANGED missed

ShellWrite(f) ==
    /\ Running("shell")
    /\ \E v \in OnDisk : disk' = [disk EXCEPT ![f] = v]
    /\ missed' = IF Taken(f) THEN missed ELSE missed \cup {f}
    /\ Finish /\ UNCHANGED mutated

\* run_agent returned Ok: the checkpoint is kept when a result said the
\* workspace changed, and the oldest one leaves a full stack.
Keeps == mutated /\ capturing /\ HasRestorableFiles(checkpoint)

\* The turn's own state goes with it.
LeaveTurn ==
    /\ phase' = "idle"
    /\ capturing' = FALSE /\ checkpoint' = NewCheckpoint /\ mutated' = FALSE
    /\ start' = disk /\ missed' = {}
    /\ UNCHANGED <<disk, todo, pending, turns>>

\* Mutants of Trim: one checkpoint too many; the oldest ones stay.
TrimLate(s) == IF Len(s) > MaxTurns + 1 THEN Tail(s) ELSE s
TrimNewest(s) == IF Len(s) > MaxTurns THEN SubSeq(s, 1, MaxTurns) ELSE s

Trim(s) == IF Len(s) > MaxTurns THEN SubSeq(s, Len(s) - MaxTurns + 1, Len(s)) ELSE s

EndTurn ==
    /\ phase \in {"resolve", "stopped"} /\ pending = << >>
    /\ IF Keeps
       THEN /\ stack'  = Trim(Append(stack, checkpoint))
            /\ before' = Trim(Append(before, start))
            /\ leaked' = IF stack' = << >> THEN {}
                         ELSE leaked \cup missed \cup checkpoint.skipped
       ELSE /\ leaked' = Leak(Changed)
            /\ UNCHANGED <<stack, before>>
    /\ LeaveTurn

\* run_agent returned Err: `result?` leaves before the checkpoint is looked at.
FailTurn ==
    /\ phase = "resolve" /\ pending = << >> /\ "error" \in Faults
    /\ leaked' = Leak(Changed)
    /\ LeaveTurn /\ UNCHANGED <<stack, before>>

-----------------------------------------------------------------------------
(* Between turns. *)

\* restore_checkpoint, when the writes to the files in failed go wrong.
Restored(cp, failed) ==
    [f \in Files |-> IF Holds(cp.files[f]) /\ f \notin failed
                     THEN cp.files[f] ELSE disk[f]]

\* A directory is neither overwritten nor removed as a file.
Undo ==
    /\ phase = "idle" /\ stack # << >>
    /\ LET cp   == stack[Len(stack)]
           must == {f \in Files : Holds(cp.files[f]) /\ disk[f] = Folder}
           may  == {f \in Files : Holds(cp.files[f]) /\ "restore" \in Faults}
       IN  \E failed \in SUBSET (must \cup may) :
             /\ must \subseteq failed
             /\ disk' = Restored(cp, failed)
             /\ leaked' = IF Len(stack) = 1 THEN {} ELSE leaked \cup failed
    /\ stack'  = SubSeq(stack, 1, Len(stack) - 1)
    /\ before' = SubSeq(before, 1, Len(before) - 1)
    /\ start' = disk'
    /\ UNCHANGED <<phase, capturing, checkpoint, pending, todo, mutated, turns, missed>>

NewSession ==
    /\ phase = "idle" /\ stack # << >>
    /\ stack' = << >> /\ before' = << >> /\ leaked' = {}
    /\ UNCHANGED <<disk, phase, capturing, checkpoint, pending, todo, mutated, turns,
                   start, missed>>

\* The user's editor, at any time.
ExternalEdit(f) ==
    /\ "outside" \in Faults
    /\ \E v \in OnDisk \ {disk[f]} : disk' = [disk EXCEPT ![f] = v]
    /\ IF phase = "idle"
       THEN leaked' = Leak({f}) /\ start' = disk' /\ UNCHANGED missed
       ELSE /\ missed' = IF Taken(f) THEN missed ELSE missed \cup {f}
            /\ UNCHANGED <<leaked, start>>
    /\ UNCHANGED <<phase, capturing, checkpoint, pending, todo, mutated, stack, turns, before>>

Next ==
    \/ BeginTurn \/ StartExecution \/ StopBatch \/ EndTurn \/ FailTurn
    \/ \E call \in ToolCall : Resolve(call)
    \/ FileWrite \/ EditFiles \/ ApplyPatch \/ ToolFails
    \/ \E f \in Files : \/ SnapshotPath(f) \/ SnapshotFails(f) \/ ToolTears(f)
                        \/ ShellWrite(f) \/ ExternalEdit(f)
    \/ \E from, to \in Files : RenameByPatch(from, to)
    \/ Undo \/ NewSession

Spec == Init /\ [][Next]_vars

-----------------------------------------------------------------------------
(* Properties. *)

\* Every variable has its type.
TypeOK ==
    /\ disk \in Disk /\ start \in Disk
    /\ phase \in {"idle", "resolve", "execute", "stopped"}
    /\ capturing \in BOOLEAN /\ mutated \in BOOLEAN
    /\ checkpoint \in Checkpoint
    /\ pending \in Seq(ToolCall) /\ todo \in SUBSET Files
    /\ stack \in Seq(Checkpoint) /\ before \in Seq(Disk) /\ Len(before) = Len(stack)
    /\ turns \in Nat
    /\ missed \in SUBSET Files /\ leaked \in SUBSET Files

\* A baseline is what the file held when the turn began, whatever the calls
\* of the turn, their order and the number of times they name the file; the
\* exceptions are the files reported as skipped and those something other
\* than a file tool changed first.
BaselineFaithful ==
    \A f \in Files \ (missed \cup checkpoint.skipped) :
       Taken(f) => checkpoint.files[f] = start[f]

\* No file tool changes a file the checkpoint neither holds nor reports: the
\* snapshots of a batch come before any of its writes, and a call that was
\* resolved but never ran does no harm.
MutationsCovered ==
    capturing => \A f \in Changed : Taken(f) \/ f \in missed \cup checkpoint.skipped

\* What a checkpoint is good for: it is true, and it is complete.
CheckpointSound == BaselineFaithful /\ MutationsCovered

\* What BaselineFaithful and MutationsCovered rest on: only a turn that
\* captures snapshots, only while it resolves; a batch runs once every path
\* its calls name has a baseline, is reported or could not be read.
PhaseInv ==
    /\ todo # {} => phase = "resolve" /\ capturing /\ pending # << >>
    /\ phase = "execute" => pending # << >>
    /\ ~capturing => checkpoint = NewCheckpoint
    /\ phase = "idle" => ~capturing /\ disk = start /\ missed = {} /\ pending = << >>
PendingCovered ==
    capturing => \A i \in 1..Len(pending) : \A f \in pending[i].paths :
                    f \in todo \/ Taken(f) \/ f \in missed \cup checkpoint.skipped
CheckpointInv == TypeOK /\ PhaseInv /\ PendingCovered /\ BaselineFaithful /\ MutationsCovered

\* Popping the stack one checkpoint after the other takes every file that
\* never leaked back to what it held when the turn of each popped checkpoint
\* began: the first baseline at or above level j is the file's content at
\* that turn's start, and a file without one has not changed since.
Untouched(f, lo, hi) == \A i \in lo..hi : stack[i].files[f] = NotTaken
StackRewinds ==
    \A j \in 1..Len(stack) : \A f \in Files \ leaked :
       /\ Untouched(f, j, Len(stack)) => start[f] = before[j][f]
       /\ \A i \in j..Len(stack) :
            stack[i].files[f] # NotTaken /\ Untouched(f, j, i - 1)
               => stack[i].files[f] = before[j][f]

\* The limits of CheckpointLimits hold: no more than max_turns checkpoints,
\* none over its byte budget.
WithinLimits ==
    /\ Len(stack) <= MaxTurns
    /\ checkpoint.bytes <= MaxBytes
    /\ \A i \in 1..Len(stack) : stack[i].bytes <= MaxBytes

\* What is kept for /undo is well formed and no more than the limits say.
WithinBounds == TypeOK /\ WithinLimits

\* Not of the code (turn_checkpoint.rs:310, Quickstart.md): /undo "restores file
\* contents from immediately before the last mutating agent turn": what the stack
\* holds of a file is what it held when the turn of the checkpoint began.
RestoresPreTurnContent ==
    \A i \in 1..Len(stack) : \A f \in Files :
       Holds(stack[i].files[f]) => stack[i].files[f] = before[i][f]

\* Not of the code (README.md:63): "/undo reverts the last agent turn's file
\* mutations".  A turn that changed files leaves the checkpoint /undo takes.
LastTurnCanBeUndone ==
    [][phase # "idle" /\ phase' = "idle" /\ Changed # {}
         => stack' # << >> /\ stack'[Len(stack')] = checkpoint]_vars

StackInv == CheckpointInv /\ StackRewinds /\ (stack = << >> => leaked = {})

============================================================================
