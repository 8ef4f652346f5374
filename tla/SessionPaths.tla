---------------------------- MODULE SessionPaths ----------------------------
(***************************************************************************)
(* Session paths: forks of the conversation and the workspace              *)
(* (src/src/session_paths.rs), the commands /path, /new and /resume        *)
(* (src/src/commands/session.rs), leaving the program and --continue       *)
(* (src/src/main.rs).                                                      *)
(*                                                                         *)
(* A path's saved state is a conversation and a snapshot of the workspace. *)
(* A conversation is the number of the turn it ends with.  The snapshot of *)
(* a file is its text, Opaque (a binary or oversized file: listed without  *)
(* content) or NoKey (no such file, or one over the byte budget).          *)
(***************************************************************************)
EXTENDS Naturals, FiniteSets

CONSTANTS
    Files,
    Contents,    \* what a file may hold
    Empty,       \* the empty content
    Binary,      \* contents a snapshot lists without content
    Unfit,       \* contents over what is left of the byte budget
    Absent,      \* no such file on disk
    Opaque, NoKey,
    Paths,       \* names of paths
    Main,        \* DEFAULT_PATH_ID
    NoPath,      \* metadata without activePathId
    MaxPaths,    \* config.max_paths
    Restarts,    \* the program is left and taken up again
    Compacts,    \* compaction writes the transcript to a session file of its own
    TurnLimit    \* bound: turns

ASSUME ContentsAssumption ==
    /\ Empty \in Contents \ (Binary \cup Unfit)
    /\ Binary \subseteq Contents /\ Unfit \subseteq Contents
    /\ {Absent, Opaque, NoKey} \cap Contents = {} /\ Opaque # NoKey
ASSUME PathsAssumption == Main \in Paths /\ {NoPath, "new"} \cap Paths = {}
ASSUME BoundsAssumption == {MaxPaths, TurnLimit} \subseteq Nat /\ {Restarts, Compacts} \subseteq BOOLEAN

Text     == Contents \ (Binary \cup Unfit)
Disk     == [Files -> Contents \cup {Absent}]
Snapshot == [Files -> Text \cup {Opaque, NoKey}]

VARIABLES
    up,        \* the program runs; while it does not, what it left behind
    disk,      \* the workspace
    conv,      \* state.messages and what goes with them
    active,    \* registry.active_id
    known,     \* the ids in registry.paths
    saved,     \* saved[p]: state.json of path p
    dirty,     \* path_store.dirty
    at,        \* state.session_path: the file of a path, or New after a compaction
    written,   \* the conversation in a session file: the first one, and New
    meta,      \* activePathId in its metadata
    newest,    \* the session file written last
    turns      \* bounded by TurnLimit

vars == <<up, disk, conv, active, known, saved, dirty, at, written, meta, newest, turns>>

First == "first"
New   == "new"
NoFile == "none"

\* The session file a conversation at a is written to; the one of a forked
\* path lies in the path's directory, where no session is looked for.
FileAt(a) == CASE a = Main -> First [] a = New -> New [] OTHER -> NoFile

None == [conv |-> 0, files |-> [f \in Files |-> NoKey], there |-> FALSE]

-----------------------------------------------------------------------------
(* Snapshots. *)

\* WorkspaceSnapshot::capture walks the files there are.
Captured(d) ==
    [f \in Files |-> CASE d[f] \in Text   -> d[f]
                       [] d[f] \in Binary -> Opaque
                       [] OTHER           -> NoKey]

State == [conv |-> conv, files |-> Captured(disk), there |-> TRUE]

\* Mutant: what only the old path has stays.
RestoredOver(from, to) ==
    [f \in Files |-> IF to[f] \in Text THEN to[f] ELSE disk[f]]

\* remove_files_not_in_snapshot, then restore: a file without content in the
\* target is left alone.
Restored(from, to) ==
    [f \in Files |-> IF to[f] \in Text THEN to[f]
                     ELSE IF from[f] # NoKey /\ to[f] = NoKey THEN Absent
                     ELSE disk[f]]

\* Mutant: as a switch does it, and with nothing to compare with.
OverwrittenClean(to) ==
    [f \in Files |-> IF to[f] \in Text THEN to[f]
                     ELSE IF to[f] = NoKey THEN Absent ELSE disk[f]]

\* restore alone
Overwritten(to) == [f \in Files |-> IF to[f] \in Text THEN to[f] ELSE disk[f]]

\* save_path_state
SavePath(p) ==
    /\ saved' = [saved EXCEPT ![p] = State]
    /\ known' = known \cup {p}

\* save_active_path_metadata writes beside the file the session is in.
SaveMeta(a, id) ==
    meta' = IF FileAt(a) = NoFile THEN meta ELSE [meta EXCEPT ![FileAt(a)] = id]

-----------------------------------------------------------------------------
(* Working. *)

Init ==
    /\ up = TRUE /\ disk \in [Files -> Text \cup {Absent}] /\ conv = 0
    /\ active = Main /\ known = {} /\ saved = [p \in Paths |-> None]
    /\ dirty = FALSE /\ at = Main /\ newest = NoFile /\ turns = 0
    /\ written = [f \in {First, New} |-> 0] /\ meta = [f \in {First, New} |-> NoPath]

\* A turn that only talks, or that changes a file by a file tool.
Turn ==
    /\ up /\ turns < TurnLimit
    /\ turns' = turns + 1 /\ conv' = turns'
    /\ \/ UNCHANGED <<disk, dirty>>
       \/ \E f \in Files, v \in Contents \cup {Absent} :
             disk' = [disk EXCEPT ![f] = v] /\ dirty' = TRUE
    /\ IF FileAt(at) = NoFile THEN UNCHANGED <<written, newest>>
       ELSE written' = [written EXCEPT ![FileAt(at)] = conv'] /\ newest' = FileAt(at)
    /\ UNCHANGED <<up, active, known, saved, at, meta>>

\* A shell command, /undo or the user's editor: nothing is marked.
Edit(f) ==
    /\ \E v \in Contents \cup {Absent} : v # disk[f] /\ disk' = [disk EXCEPT ![f] = v]
    /\ UNCHANGED <<up, conv, active, known, saved, dirty, at, written, meta, newest, turns>>

\* rewrite_session_transcript: the session goes on in a new file, its paths
\* stay where they were.
Compact ==
    /\ up /\ Compacts /\ at' = New /\ newest' = New
    /\ written' = [written EXCEPT ![New] = conv] /\ meta' = [meta EXCEPT ![New] = NoPath]
    /\ UNCHANGED <<up, disk, conv, active, known, saved, dirty, turns>>

-----------------------------------------------------------------------------
(* /path. *)

Enter(p) == \* apply_path_session_state and what follows it
    /\ active' = p /\ at' = p /\ SaveMeta(p, p)
    /\ dirty' = FALSE

PathCount == IF known = {} THEN 1 ELSE Cardinality(known)

Fork(p) ==
    /\ up /\ p \in Paths \ (known \cup {Main}) /\ PathCount + 1 <= MaxPaths
    /\ saved' = [saved EXCEPT ![active] = State, ![p] = State]
    /\ known' = known \cup {active, p}
    /\ Enter(p)
    /\ UNCHANGED <<up, disk, conv, written, newest, turns>>

Switch(p) ==
    /\ up /\ p # active /\ saved[p].there
    /\ SavePath(active)
    /\ disk' = Restored(Captured(disk), saved[p].files)
    /\ conv' = saved[p].conv
    /\ Enter(p)
    /\ UNCHANGED <<up, written, newest, turns>>

\* read_baseline_or_disk: "" for a file that is not there or not text.
Shown(snapshot, f) ==
    IF snapshot[f] \in Text THEN snapshot[f]
    ELSE IF snapshot[f] = Opaque /\ disk[f] \in Contents \ Binary THEN disk[f] ELSE Empty

\* The files that differ between the saved states; /path diff shows them.
Differing(p) ==
    {f \in Files : Shown(saved[active].files, f) # Shown(saved[p].files, f)}

\* apply_picked_content: an empty file there is not written here.
Picked(p) ==
    [f \in Files |->
        LET new == Shown(saved[p].files, f)
        IN  IF f \notin Differing(p) THEN disk[f]
            ELSE IF new # Empty THEN new
            ELSE IF saved[p].files[f] = NoKey THEN Absent ELSE disk[f]]

Pick(p) ==
    /\ up /\ saved[p].there /\ saved[active].there /\ Differing(p) # {}
    /\ disk' = Picked(p) /\ dirty' = TRUE
    /\ UNCHANGED <<up, conv, active, known, saved, at, written, meta, newest, turns>>

DropPath(p) ==
    /\ up /\ p \notin {Main, active} /\ saved[p].there
    /\ saved' = [saved EXCEPT ![p] = None] /\ known' = known \ {p}
    /\ UNCHANGED <<up, disk, conv, active, dirty, at, written, meta, newest, turns>>

-----------------------------------------------------------------------------
(* Leaving and coming back.  A session nothing was written of cannot be     *)
(* come back to.                                                           *)

\* shutdown_interactive_session: the active path is saved if it is dirty.
Exit ==
    /\ up /\ Restarts /\ newest # NoFile /\ up' = FALSE
    /\ IF dirty THEN SavePath(active) ELSE UNCHANGED <<saved, known>>
    /\ SaveMeta(at, active) /\ dirty' = FALSE
    /\ UNCHANGED <<disk, conv, active, at, written, newest, turns>>

\* A crash; /resume in the running program forgets as much.
Crash ==
    /\ up /\ Restarts /\ newest # NoFile /\ up' = FALSE /\ dirty' = FALSE
    /\ UNCHANGED <<disk, conv, active, known, saved, at, written, meta, newest, turns>>

\* The path to come back to: the metadata's, then the registry's.
Target == IF known = {} THEN Main ELSE IF meta[First] # NoPath THEN meta[First] ELSE active

\* --continue, or /resume latest (a command), which also writes the metadata,
\* when the session's first file is the newest.
Resume(command) ==
    /\ ~up /\ up' = TRUE /\ newest = First
    /\ active' = Target
    /\ IF saved[Target].there
       THEN /\ conv' = saved[Target].conv /\ at' = Target
            /\ disk' = Overwritten(saved[Target].files)
       ELSE conv' = written[First] /\ at' = Main /\ UNCHANGED disk
    /\ meta' = IF command THEN [meta EXCEPT ![First] = Target] ELSE meta
    /\ UNCHANGED <<known, saved, dirty, written, newest, turns>>

\* The newest file is one compaction began: a session without paths.
ResumeNew(command) ==
    /\ ~up /\ up' = TRUE /\ newest = New /\ newest' = First
    /\ active' = Main /\ known' = {} /\ saved' = [p \in Paths |-> None]
    /\ conv' = written[New] /\ at' = Main
    /\ written' = [f \in {First, New} |-> IF f = First THEN written[New] ELSE 0]
    /\ meta' = [f \in {First, New} |->
                  IF f = New THEN NoPath ELSE IF command THEN Main ELSE meta[New]]
    /\ UNCHANGED <<disk, dirty, turns>>

Next ==
    \/ Turn \/ Compact \/ Exit \/ Crash
    \/ \E f \in Files : Edit(f)
    \/ \E p \in Paths : Fork(p) \/ Switch(p) \/ Pick(p) \/ DropPath(p)
    \/ \E command \in BOOLEAN : Resume(command) \/ ResumeNew(command)

Spec == Init /\ [][Next]_vars

-----------------------------------------------------------------------------
(* Properties. *)

Saved == [conv : Nat, files : Snapshot, there : BOOLEAN]

\* Every variable has its type.
TypeOK ==
    /\ {up, dirty} \subseteq BOOLEAN /\ disk \in Disk /\ {conv, turns} \subseteq Nat
    /\ active \in Paths /\ known \in SUBSET Paths
    /\ saved \in [Paths -> Saved]
    /\ at \in Paths \cup {New} /\ newest \in {First, New, NoFile}
    /\ written \in [{First, New} -> Nat]
    /\ meta \in [{First, New} -> Paths \cup {NoPath}]

\* Whatever is forked, switched, picked and dropped, and whoever edits the
\* workspace meanwhile, each path is a world of its own as long as the program
\* runs, in a session that was taken up too.
WorldOf(p) ==
    IF p = active THEN [conv |-> conv, files |-> Captured(disk)]
    ELSE [conv |-> saved[p].conv, files |-> saved[p].files]
Promise == INSTANCE PathWorlds WITH
    worlds <- [p \in known \cup {active} |-> WorldOf(p)],
    Worlds <- [conv : Nat, files : Snapshot]
KeepsWorlds == Promise!Init /\ [][up => Promise!Step]_vars

\* A session that was saved as it stands is taken up as it stands.
AsSaved == known # {} => saved[active] = State
ResumesAsSaved ==
    [][\A command \in BOOLEAN :
         Resume(command) /\ AsSaved /\ meta[First] \in {NoPath, active}
            => conv' = conv /\ disk' = disk /\ active' = active]_vars

\* Paths are well formed, and a launch resumes what was saved.
PathsSound == []TypeOK /\ ResumesAsSaved

\* session_paths.rs:4: "A path snapshots the conversation and the workspace
\* together": what a switch takes off the disk is in the state of the path it
\* leaves.
SwitchLosesNothing ==
    [][\A p \in Paths : Switch(p) =>
         \A f \in Files : disk[f] = disk'[f] \/ Captured(disk)[f] = disk[f] \/ disk[f] = Absent]_vars

\* CHANGELOG.md: paths resume "via --continue, /resume, and session metadata
\* activePathId": the path is the one the session was left on.
ResumesActivePath == [][~up /\ up' => active' = active]_vars

\* README.md: "albatross --continue resumes the most recent session in the
\* cwd": with the conversation as it was left by a normal exit or a crash.
ResumesConversation ==
    [][\A command \in BOOLEAN : Resume(command) /\ active' = active => conv' = conv]_vars

\* CHANGELOG.md: /path pick merges file changes: what is picked from a path is
\* what that path holds.
PickTakesFiles ==
    [][\A p \in Paths : Pick(p) =>
         \A f \in Differing(p) : Captured(disk')[f] = saved[p].files[f]]_vars

=============================================================================
