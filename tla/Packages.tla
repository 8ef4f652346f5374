------------------------------ MODULE Packages ------------------------------
(***************************************************************************)
(* The package manager (src/src/packages.rs): packages.json, which says    *)
(* what is installed, and one directory for each package and kind of       *)
(* source, with siblings ".old" and ".remove" while it is replaced or      *)
(* deleted.  The registry is loaded before the package is fetched and      *)
(* replaced by a rename at the end; whatever fails in between is undone.   *)
(***************************************************************************)
EXTENDS Naturals

CONSTANTS
    PkCount,       \* packages: the first one is updated first
    MaxFetched,    \* bound on versions fetched
    MaxPkFaults    \* bound on renames and writes that fail, and on crashes

ASSUME PackagesAssumption == PkCount \in Nat \ {0}

PkIds   == 1..PkCount
PkKinds == {"npm", "git"}
PkDirs  == PkIds \X PkKinds

VARIABLES
    pkReg,       \* packages.json: version 0 is not installed
    pkDir,       \* the version in each directory; 0: there is none
    pkOld,       \* and in its sibling ".old"
    pkGone,      \* and in ".remove"
    pkAt,        \* what the command is at
    pkJob,       \* the entry it is about to write, and of which package
    pkTodo,      \* what /package update has still to install
    pkFetched,   \* versions fetched
    pkFaults,    \* history: faults so far
    pkCrashed,   \* history: packages a crash left in the middle of a change
    pkBefore,    \* history: registry and directories before the command
    pkEnd        \* history: what the last command came to

pkVars == <<pkReg, pkDir, pkOld, pkGone, pkAt, pkJob, pkTodo, pkFetched, pkFaults,
            pkCrashed, pkBefore, pkEnd>>
pkDisk == <<pkReg, pkDir, pkOld, pkGone>>
pkPast == <<pkCrashed, pkBefore>>

NotInstalled == [kind |-> "npm", version |-> 0, pinned |-> FALSE]
NoJob == [id |-> 1, entry |-> NotInstalled]
NoDirs == [d \in PkDirs |-> 0]

PkInit ==
    /\ pkReg = [i \in PkIds |-> NotInstalled]
    /\ pkDir = NoDirs /\ pkOld = NoDirs /\ pkGone = NoDirs
    /\ pkAt = "idle" /\ pkJob = NoJob /\ pkTodo = {} /\ pkFetched = 0 /\ pkFaults = 0
    /\ pkCrashed = {} /\ pkBefore = [reg |-> pkReg, dir |-> NoDirs] /\ pkEnd = "none"

PkStep(from, to) == pkAt = from /\ pkAt' = to
Here == <<pkJob.id, pkJob.entry.kind>>   \* the directory of the package at hand

\* A fault ends the command with an error, or leads to the step that undoes it.
PkFault(from, to) ==
    /\ pkFaults < MaxPkFaults /\ pkFaults' = pkFaults + 1 /\ PkStep(from, to)

\* What a command that is over leaves in memory.
PkOver(how) ==
    /\ pkAt' = "idle" /\ pkJob' = NoJob /\ pkTodo' = {} /\ pkEnd' = how

PkFails ==
    /\ pkAt = "failed" /\ PkOver("error")
    /\ UNCHANGED <<pkDisk, pkFetched, pkFaults, pkPast>>

-----------------------------------------------------------------------------
(* install: fetched into a directory of its own before anything is touched. *)

Fetched(id, kind, pinned) ==
    /\ pkFetched < MaxFetched /\ pkFetched' = pkFetched + 1
    /\ pkJob' = [id |-> id, entry |-> [kind |-> kind, version |-> pkFetched + 1, pinned |-> pinned]]
    /\ pkAt' = "stale" /\ pkBefore' = [reg |-> pkReg, dir |-> pkDir]

Install(id, kind, pinned) ==
    /\ pkAt = "idle" /\ Fetched(id, kind, pinned)
    /\ UNCHANGED <<pkDisk, pkTodo, pkFaults, pkCrashed, pkEnd>>

\* update: the packages that are not pinned, one after the other.
Update ==
    /\ pkAt = "idle"
    /\ pkTodo' = {i \in PkIds : pkReg[i].version # 0 /\ ~pkReg[i].pinned} /\ pkTodo' # {}
    /\ pkAt' = "update"
    /\ UNCHANGED <<pkDisk, pkJob, pkFetched, pkFaults, pkPast, pkEnd>>

UpdateNext ==
    /\ pkAt = "update"
    /\ IF pkTodo = {} THEN PkOver("ok") /\ UNCHANGED <<pkFetched, pkBefore>>
       ELSE \E id \in pkTodo :
          /\ \A i \in pkTodo : id <= i
          /\ pkTodo' = pkTodo \ {id} /\ Fetched(id, pkReg[id].kind, FALSE) /\ UNCHANGED pkEnd
    /\ UNCHANGED <<pkDisk, pkFaults, pkCrashed>>

\* The first one that cannot be fetched stops an update.
FetchFails ==
    /\ pkAt = "update" /\ pkTodo # {} /\ PkOver("unfetched")
    /\ UNCHANGED <<pkDisk, pkFetched, pkFaults, pkPast>>

\* replace_directory: the backup of an earlier command is deleted ...
ClearOld ==
    /\ \/ PkStep("stale", "backup") /\ pkOld' = [pkOld EXCEPT ![Here] = 0] /\ UNCHANGED pkFaults
       \/ PkFault("stale", "failed") /\ UNCHANGED pkOld
    /\ UNCHANGED <<pkReg, pkDir, pkGone, pkJob, pkTodo, pkFetched, pkPast, pkEnd>>

\* Mutant: what is installed is deleted to make room.
DeleteInstalled ==
    /\ PkStep("backup", "place") /\ pkDir' = [pkDir EXCEPT ![Here] = 0]
    /\ UNCHANGED <<pkReg, pkOld, pkGone, pkJob, pkTodo, pkFetched, pkFaults, pkPast, pkEnd>>

\* ... what is installed becomes the backup ...
Backup ==
    /\ \/ /\ PkStep("backup", "place") /\ UNCHANGED pkFaults
          /\ pkOld' = [pkOld EXCEPT ![Here] = pkDir[Here]] /\ pkDir' = [pkDir EXCEPT ![Here] = 0]
       \/ PkFault("backup", "failed") /\ UNCHANGED <<pkOld, pkDir>>
    /\ UNCHANGED <<pkReg, pkGone, pkJob, pkTodo, pkFetched, pkPast, pkEnd>>

\* ... and what was fetched takes its place.
Place ==
    /\ \/ /\ PkStep("place", "save") /\ UNCHANGED pkFaults
          /\ pkDir' = [pkDir EXCEPT ![Here] = pkJob.entry.version]
       \/ PkFault("place", "restore") /\ UNCHANGED pkDir
    /\ UNCHANGED <<pkReg, pkOld, pkGone, pkJob, pkTodo, pkFetched, pkPast, pkEnd>>

Restored ==
    /\ PkStep("restore", "failed")
    /\ pkDir' = [pkDir EXCEPT ![Here] = IF pkOld[Here] # 0 THEN pkOld[Here] ELSE @]
    /\ pkOld' = [pkOld EXCEPT ![Here] = 0]
    /\ UNCHANGED <<pkReg, pkGone, pkJob, pkTodo, pkFetched, pkFaults, pkPast, pkEnd>>

SaveInstalled ==
    /\ \/ PkStep("save", "clean") /\ UNCHANGED pkFaults
          /\ pkReg' = [pkReg EXCEPT ![pkJob.id] = pkJob.entry]
       \/ PkFault("save", "undo") /\ UNCHANGED pkReg
    /\ UNCHANGED <<pkDir, pkOld, pkGone, pkJob, pkTodo, pkFetched, pkPast, pkEnd>>

Undo ==
    /\ PkStep("undo", "restore") /\ pkDir' = [pkDir EXCEPT ![Here] = 0]
    /\ UNCHANGED <<pkReg, pkOld, pkGone, pkJob, pkTodo, pkFetched, pkFaults, pkPast, pkEnd>>

\* A backup that cannot be deleted is an error of a package that is installed.
Clean ==
    /\ pkAt = "clean" /\ pkCrashed' = pkCrashed \ {pkJob.id}
    /\ \/ pkOld' = [pkOld EXCEPT ![Here] = 0] /\ UNCHANGED pkFaults
          /\ IF pkTodo = {} THEN PkOver("ok")
             ELSE pkAt' = "update" /\ UNCHANGED <<pkJob, pkTodo, pkEnd>>
       \/ /\ pkFaults < MaxPkFaults /\ pkFaults' = pkFaults + 1
          /\ PkOver("unclean") /\ UNCHANGED pkOld
    /\ UNCHANGED <<pkReg, pkDir, pkGone, pkFetched, pkBefore>>

-----------------------------------------------------------------------------
(* remove *)

RemovePackage(id) ==
    /\ pkAt = "idle" /\ pkReg[id].version # 0
    /\ pkAt' = "stale removal" /\ pkJob' = [id |-> id, entry |-> pkReg[id]]
    /\ pkBefore' = [reg |-> pkReg, dir |-> pkDir]
    /\ UNCHANGED <<pkDisk, pkTodo, pkFetched, pkFaults, pkCrashed, pkEnd>>

ClearGone ==
    /\ \/ PkStep("stale removal", "stage") /\ UNCHANGED pkFaults
          /\ pkGone' = [pkGone EXCEPT ![Here] = 0]
       \/ PkFault("stale removal", "failed") /\ UNCHANGED pkGone
    /\ UNCHANGED <<pkReg, pkDir, pkOld, pkJob, pkTodo, pkFetched, pkPast, pkEnd>>

StageRemoval ==
    /\ \/ /\ PkStep("stage", "save removal") /\ UNCHANGED pkFaults
          /\ pkGone' = [pkGone EXCEPT ![Here] = pkDir[Here]] /\ pkDir' = [pkDir EXCEPT ![Here] = 0]
       \/ PkFault("stage", "failed") /\ UNCHANGED <<pkGone, pkDir>>
    /\ UNCHANGED <<pkReg, pkOld, pkJob, pkTodo, pkFetched, pkPast, pkEnd>>

SaveRemoved ==
    /\ \/ PkStep("save removal", "delete") /\ UNCHANGED pkFaults
          /\ pkReg' = [pkReg EXCEPT ![pkJob.id] = NotInstalled]
       \/ PkFault("save removal", "unstage") /\ UNCHANGED pkReg
    /\ UNCHANGED <<pkDir, pkOld, pkGone, pkJob, pkTodo, pkFetched, pkPast, pkEnd>>

Unstage ==
    /\ PkStep("unstage", "failed")
    /\ pkDir' = [pkDir EXCEPT ![Here] = IF pkGone[Here] # 0 THEN pkGone[Here] ELSE @]
    /\ pkGone' = [pkGone EXCEPT ![Here] = 0]
    /\ UNCHANGED <<pkReg, pkOld, pkJob, pkTodo, pkFetched, pkFaults, pkPast, pkEnd>>

Delete ==
    /\ pkAt = "delete" /\ pkCrashed' = pkCrashed \ {pkJob.id}
    /\ \/ pkGone' = [pkGone EXCEPT ![Here] = 0] /\ PkOver("ok") /\ UNCHANGED pkFaults
       \/ /\ pkFaults < MaxPkFaults /\ pkFaults' = pkFaults + 1
          /\ PkOver("unclean") /\ UNCHANGED pkGone
    /\ UNCHANGED <<pkReg, pkDir, pkOld, pkFetched, pkBefore>>

-----------------------------------------------------------------------------

PkCrash ==
    /\ pkAt \notin {"idle", "update"} /\ pkFaults < MaxPkFaults /\ pkFaults' = pkFaults + 1
    /\ pkCrashed' = pkCrashed \cup {pkJob.id} /\ PkOver("crash")
    /\ UNCHANGED <<pkDisk, pkFetched, pkBefore>>

PkNext ==
    \/ \E id \in PkIds : \/ RemovePackage(id)
                         \/ \E kind \in PkKinds, pinned \in BOOLEAN : Install(id, kind, pinned)
    \/ Update \/ UpdateNext \/ FetchFails \/ ClearOld \/ Backup \/ Place \/ Restored
    \/ SaveInstalled \/ Undo \/ Clean
    \/ ClearGone \/ StageRemoval \/ SaveRemoved \/ Unstage \/ Delete
    \/ PkFails \/ PkCrash

PkSpec == PkInit /\ [][PkNext]_pkVars

-----------------------------------------------------------------------------
(* Properties. *)

\* packages.rs "saving package registry; installation rolled back" and "removal
\* rolled back": a command that ends with an error before the registry is saved
\* leaves the registry and every installed package as they were, whichever of
\* its steps failed.
RolledBack ==
    pkAt = "idle" /\ pkEnd = "error" => pkReg = pkBefore.reg /\ pkDir = pkBefore.dir

\* Between commands the registry names what its directories hold, also after an
\* update that stopped half way, and for a package a crash left in the middle of
\* a change again from the next install on.
AsRegistered ==
    pkAt = "idle" => \A i \in PkIds \ pkCrashed :
        pkReg[i].version # 0 => pkDir[<<i, pkReg[i].kind>>] = pkReg[i].version

\* Whatever single step fails, or wherever the process dies once, a package that is
\* registered and not being removed has a copy on the disk: in its directory,
\* beside it, or fetched and about to take its place.  (An install after a crash
\* deletes the backup the crash left, the only other copy there may be.)
Removing == {"stale removal", "stage", "save removal", "unstage", "delete"}
SomeCopyLeft ==
    pkFaults <= 1 =>
      \A i \in PkIds : pkReg[i].version # 0 /\ ~(pkAt \in Removing /\ pkJob.id = i) =>
        LET d == <<i, pkReg[i].kind>>
            staged == pkAt \in {"backup", "place"} /\ Here = d
        IN  staged \/ pkDir[d] + pkOld[d] + pkGone[d] # 0

\* The packages, their files and the registry, through failures and crashes.
PackagesSound == RolledBack /\ AsRegistered /\ SomeCopyLeft

=============================================================================
