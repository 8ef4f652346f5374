-------------------------------- MODULE FileTools --------------------------------
(***************************************************************************)
(* What the mutating tools do to files: tools/file_write.rs, file_edit.rs, *)
(* apply_patch_tool.rs, and batch_edit.rs with batch_operations.rs.        *)
(*                                                                         *)
(* A text is a sequence of words.  A write empties the file and fills it,  *)
(* and may fail before or between; somebody else may save a file between   *)
(* any two steps.                                                          *)
(***************************************************************************)
EXTENDS Naturals, FiniteSets, SequencesExt, Functions

CONSTANTS
    Paths,
    FtTexts,          \* texts a file may begin with, or be saved with
    FtCalls,        \* the calls a model may make, see Op
    Missing, Bad,   \* no file; an edit that cannot be made
    MaxRun,         \* bound on the calls
    MaxSaves        \* bound on what others save

\* A call names files of the workspace, and one that is not a batch or a patch just one.
ASSUME FtAssumption ==
    /\ Paths \subseteq Nat
    /\ \A call \in FtCalls :
         /\ call.tool \in {"file_write", "file_edit", "batch_edit", "apply_patch"}
         /\ 1 \in DOMAIN call.ops /\ \A i \in DOMAIN call.ops : call.ops[i].path \in Paths
         /\ call.tool \in {"file_write", "file_edit"} =>
              \A i \in DOMAIN call.ops : call.ops[i].path = call.ops[1].path

\* Put the text "new" for the word "old", at the "start" or the "end", or for the
\* "whole", or "create" the file; "hunk" is a patch whose context is all of the text.
Op(path, kind, old, new) == [path |-> path, kind |-> kind, old |-> old, new |-> new]

VARIABLES
    ftDisk,    \* [Paths -> a text or Missing]
    ftCall,    \* the call that runs: [tool, ops, dry]
    ftStep,    \* "idle", "run", "again", "write", "undo" or "reread"
    ftRead,    \* originals
    ftWork,    \* the texts to be written
    ftLeft,    \* the files yet to be written, and of a rollback to be restored
    ftTried,   \* the files it has written
    ftSpoilt,  \* those a write left empty, or a rollback did not restore
    ftSaved,   \* those somebody saved since the call began
    ftOut,     \* the last result: [flag, error, failed]
    ftFound,   \* the disk as the call found it
    ftRuns, ftSaves

ftRun  == <<ftRead, ftWork, ftLeft, ftTried>>
ftVars == <<ftDisk, ftCall, ftStep, ftRun, ftSpoilt, ftSaved, ftOut, ftFound, ftRuns, ftSaves>>

Nothing == [flag |-> FALSE, error |-> FALSE, failed |-> FALSE]

FtInit ==
    /\ ftDisk \in [Paths -> FtTexts \cup {Missing}] /\ ftFound = ftDisk
    /\ ftCall = <<>> /\ ftStep = "idle" /\ ftRead = <<>> /\ ftWork = <<>>
    /\ ftLeft = {} /\ ftTried = {} /\ ftSpoilt = {} /\ ftSaved = {}
    /\ ftOut = Nothing /\ ftRuns = 0 /\ ftSaves = 0

-----------------------------------------------------------------------------
(* Edits. *)

Places(text, word) == {i \in DOMAIN text : text[i] = word}

\* apply_edit_to_content, and an edit of file_edit: what is replaced must be there
\* exactly once.
EditText(text, op) ==
    CASE op.kind = "start" -> op.new \o text
      [] op.kind = "end"   -> text \o op.new
      [] op.kind = "hunk"  -> IF text = op.old THEN op.new ELSE Bad
      [] op.kind = "word"  ->
            LET at == Places(text, op.old) IN
            IF Cardinality(at) # 1 THEN Bad
            ELSE LET i == CHOOSE i \in at : TRUE
                 IN  SubSeq(text, 1, i - 1) \o op.new \o SubSeq(text, i + 1, Len(text))
      [] OTHER -> Bad

\* The files of some ops; they are taken in the order of a BTreeMap.
Files(ops) == {op.path : op \in ToSet(ops)}
First(path, paths) == path \in paths /\ \A other \in paths : path <= other

\* The ops of one file, one after the other.
Rewritten(path, text, ops) ==
    FoldLeft(LAMBDA working, op : IF op.path # path \/ working = Bad THEN working ELSE EditText(working, op),
             text, ops)

\* All ops, grouped by file; of files that are there.
Edited(disk, ops) ==
    LET texts == [path \in Files(ops) |-> IF disk[path] = Missing THEN Bad ELSE Rewritten(path, disk[path], ops)]
    IN  IF \E path \in Files(ops) : texts[path] = Bad THEN Bad
        ELSE [path \in Paths |-> IF path \in Files(ops) THEN texts[path] ELSE disk[path]]

\* The texts a call would leave.
Planned(disk, call) ==
    LET op == call.ops[1] IN
    IF op.kind = "whole" \/ (op.kind = "create" /\ disk[op.path] = Missing /\ Len(call.ops) = 1)
    THEN [disk EXCEPT ![op.path] = op.new]
    ELSE Edited(disk, call.ops)

-----------------------------------------------------------------------------
(* A call. *)

Begin(call) ==
    /\ ftStep = "idle" /\ ftRuns < MaxRun /\ ftRuns' = ftRuns + 1
    /\ ftCall' = call /\ ftStep' = "run" /\ ftFound' = ftDisk
    /\ ftRead' = <<>> /\ ftWork' = <<>> /\ ftLeft' = {} /\ ftTried' = {}
    /\ ftSpoilt' = {} /\ ftSaved' = {} /\ ftOut' = Nothing
    /\ UNCHANGED <<ftDisk, ftSaves>>

End(flag, error, failed) ==
    /\ ftStep' = "idle" /\ ftOut' = [flag |-> flag, error |-> error, failed |-> failed]
    /\ UNCHANGED <<ftRead, ftWork, ftLeft>>

Go(step) == ftStep' = step /\ UNCHANGED ftOut

Reads ==
    /\ ftRead' = ftDisk /\ ftWork' = Planned(ftDisk, ftCall) /\ ftLeft' = Files(ftCall.ops)
    /\ Go("write")

FtKept == UNCHANGED <<ftCall, ftTried, ftSpoilt, ftSaved, ftFound, ftRuns, ftSaves>>

\* execute of file_write and file_edit, as far as the write.
RunFile ==
    /\ ftStep = "run" /\ ftCall.tool \in {"file_write", "file_edit"}
    /\ IF Planned(ftDisk, ftCall) = Bad THEN End(FALSE, TRUE, FALSE) ELSE Reads
    /\ FtKept /\ UNCHANGED ftDisk

\* batch_edit's run with dry_run, and `git apply --check`.
Validate ==
    /\ ftStep = "run" /\ ftCall.tool \in {"batch_edit", "apply_patch"}
    /\ IF Planned(ftDisk, ftCall) = Bad THEN End(FALSE, ftCall.tool = "apply_patch", TRUE)
       ELSE IF ftCall.dry THEN End(FALSE, FALSE, FALSE)
       ELSE Go("again") /\ UNCHANGED <<ftRead, ftWork, ftLeft>>
    /\ FtKept /\ UNCHANGED ftDisk

\* execute_batch_operations once more.  Whatever it returns, the output says applied.
RunBatch ==
    /\ ftStep = "again" /\ ftCall.tool = "batch_edit"
    /\ IF Planned(ftDisk, ftCall) = Bad THEN End(TRUE, FALSE, TRUE) ELSE Reads
    /\ FtKept /\ UNCHANGED ftDisk

\* `git apply` changes all files of the patch or none.
RunPatch ==
    /\ ftStep = "again" /\ ftCall.tool = "apply_patch"
    /\ LET texts == Planned(ftDisk, ftCall) IN
       IF texts = Bad THEN End(FALSE, TRUE, FALSE) /\ UNCHANGED ftDisk
       ELSE ftDisk' = texts /\ End(TRUE, FALSE, FALSE)
    /\ FtKept

\* A write that fails "clean" could not open the file, and one that is "torn" fill it.
Outcomes == {"ok", "clean", "torn"}
Writes(path, text, outcome, spoils) ==
    /\ ftDisk' = [ftDisk EXCEPT ![path] = CASE outcome = "ok" -> text [] outcome = "torn" -> <<>>
                                            [] OTHER -> @]
    /\ ftSpoilt' = IF outcome \in spoils THEN ftSpoilt \cup {path} ELSE ftSpoilt
    /\ UNCHANGED <<ftCall, ftSaved, ftFound, ftRuns, ftSaves>>

\* fs::write of the next file.
Write ==
    /\ ftStep = "write"
    /\ \E path \in ftLeft, outcome \in Outcomes :
        /\ First(path, ftLeft) /\ Writes(path, ftWork[path], outcome, {"torn"})
        /\ IF outcome = "ok"
           THEN /\ ftLeft' = ftLeft \ {path} /\ ftTried' = ftTried \cup {path}
                /\ Go(IF ftLeft' = {} THEN "reread" ELSE "write") /\ UNCHANGED <<ftRead, ftWork>>
           ELSE IF ftCall.tool = "batch_edit"
           THEN ftLeft' = ftTried /\ Go("undo") /\ UNCHANGED <<ftRead, ftWork, ftTried>>
           ELSE End(FALSE, TRUE, FALSE) /\ UNCHANGED ftTried

\* fs::write of the next file written, with texts; an error is ignored.
Restores(texts) ==
    /\ ftStep = "undo" /\ UNCHANGED ftTried
    /\ IF ftLeft = {}
       THEN End(TRUE, FALSE, TRUE) /\ UNCHANGED <<ftDisk, ftCall, ftSpoilt, ftSaved, ftFound, ftRuns, ftSaves>>
       ELSE \E path \in ftLeft, outcome \in Outcomes :
               /\ First(path, ftLeft) /\ Writes(path, texts[path], outcome, {"clean", "torn"})
               /\ ftLeft' = ftLeft \ {path} /\ Go("undo") /\ UNCHANGED <<ftRead, ftWork>>

\* Mutant: the files written so far are given back what they were to hold.
UndoToWork == Restores(ftWork)

\* The files written so far are given back their originals.
UndoWrites == Restores(ftRead)

\* All is written; file_edit reads its file again.
Finish ==
    /\ ftStep = "reread" /\ End(TRUE, FALSE, FALSE) /\ FtKept /\ UNCHANGED ftDisk

\* Somebody saves a file, or removes it.
SomeoneSaves(path, text) ==
    /\ ftSaves < MaxSaves /\ ftSaves' = ftSaves + 1 /\ text # ftDisk[path]
    /\ ftDisk' = [ftDisk EXCEPT ![path] = text] /\ ftSaved' = ftSaved \cup {path}
    /\ UNCHANGED <<ftCall, ftStep, ftRun, ftSpoilt, ftOut, ftFound, ftRuns>>

FtNext ==
    \/ \E call \in FtCalls : Begin(call)
    \/ RunFile \/ Validate \/ RunBatch \/ RunPatch \/ Write \/ UndoWrites \/ Finish
    \/ \E path \in Paths, text \in FtTexts \cup {Missing} : SomeoneSaves(path, text)

FtSpec == FtInit /\ [][FtNext]_ftVars

-----------------------------------------------------------------------------
(* Properties. *)

Over == ftStep = "idle" /\ ftRuns > 0

\* Files nobody but the call has touched, and where no write was cut off.
Undisturbed(path) == path \notin ftSaved \cup ftSpoilt

\* tool_output_mutated_workspace: what the turn's bookkeeping believes.
ReportsMutation == ftOut.flag /\ ~ftOut.error

\* A call that reports no change has made none: what it says marks the path dirty, and a
\* failed or refused edit, a dry run or an invalid batch leaves every file alone.
UnreportedIsUnchanged ==
    Over /\ ~ReportsMutation =>
        \A path \in Paths : Undisturbed(path) => ftDisk[path] = ftFound[path]

\* "write failed and prior files were rolled back": a coordinated edit is made in all of
\* its files or in none.  A file whose restoring failed in turn stays edited.
AllOrNothing ==
    Over /\ ftCall.tool = "batch_edit" /\ ftSaved = {} =>
        LET kept == {path \in Paths : Undisturbed(path)} IN
        \/ \A path \in kept : ftDisk[path] = ftFound[path]
        \/ \A path \in kept : ftDisk[path] = Planned(ftFound, ftCall)[path]

\* What the file tools say of the files is so.
FilesSound == UnreportedIsUnchanged /\ AllOrNothing

\* What a result calls applied has been applied.
AppliedIsApplied ==
    Over /\ ReportsMutation /\ ftSaved = {} => ftDisk = Planned(ftFound, ftCall)

=============================================================================
