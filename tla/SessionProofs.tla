---------------------------- MODULE SessionProofs ----------------------------
(***************************************************************************)
(* Proofs about a session, for constants of any size.  Its paths           *)
(* (SessionPaths): they keep their types, a launch takes up what was       *)
(* saved, and, where no file is one a snapshot lists without its content,  *)
(* every step of the running program is a step or a stutter of PathWorlds. *)
(* The turns of a host program (SdkSession), what is staged for a turn     *)
(* before Jev is asked (JevTurn), and the configuration a session starts   *)
(* with (ConfigLayers).  What its conversation has told is in the          *)
(* transcript, a summary or a file, and transcripts stay valid             *)
(* (Conversation).                                                         *)
(***************************************************************************)
EXTENDS SessionPaths, SdkSession, JevTurn, ConfigLayers, Conversation, SequenceTheorems,
        FiniteSetTheorems, WellFoundedInduction, TLAPS

\* A path is known if it has a saved state, and the first path is among them;
\* before there are any, the session is that of its file.
PathInv ==
    /\ TypeOK
    /\ \A p \in Paths : saved[p].there <=> p \in known
    /\ known # {} => Main \in known
    /\ known = {} => /\ active = Main /\ at \in {Main, New}
                     /\ at = Main => written[First] = conv
                     /\ at = New => newest = New

-----------------------------------------------------------------------------
(* Snapshots. *)

LEMMA TextIsApart ==
  /\ Opaque \notin Text /\ NoKey \notin Text /\ Absent \notin Text /\ Opaque # NoKey
  /\ Absent \notin Binary /\ Text \cap Binary = {} /\ Text \subseteq Contents
  BY ContentsAssumption DEF Text

\* What a snapshot has of a file.
LEMMA CapturedFile ==
  ASSUME NEW d \in Disk, NEW f \in Files
  PROVE  /\ d[f] \in Text => Captured(d)[f] = d[f]
         /\ d[f] \in Binary => Captured(d)[f] = Opaque
         /\ d[f] \notin Text \cup Binary => Captured(d)[f] = NoKey
  BY TextIsApart DEF Captured

LEMMA CapturedIsSnapshot ==
  ASSUME NEW d \in Disk
  PROVE  Captured(d) \in Snapshot
  BY CapturedFile DEF Captured, Snapshot

LEMMA StateIsSaved ==
  ASSUME TypeOK
  PROVE  State \in Saved /\ State.there
  BY CapturedIsSnapshot DEF State, Saved, TypeOK

LEMMA ShownIsContent ==
  ASSUME TypeOK, NEW snapshot, NEW f \in Files
  PROVE  Shown(snapshot, f) \in Contents
  BY ContentsAssumption DEF Shown, Text

\* Restoring the snapshot of the disk itself changes nothing.
LEMMA OverwrittenBySelf ==
  ASSUME NEW d \in Disk, disk = d
  PROVE  Overwritten(Captured(d)) = d
<1>1. \A f \in Files : IF Captured(d)[f] \in Text THEN Captured(d)[f] = d[f] ELSE TRUE
  BY CapturedFile, TextIsApart
<1>2. d = [f \in Files |-> d[f]]
  BY DEF Disk
<1>3. Overwritten(Captured(d)) = [f \in Files |-> d[f]]
  BY <1>1 DEF Overwritten
<1> QED
  BY <1>2, <1>3

\* A switch makes the disk one of which a snapshot is the saved one, when there is
\* no file that a snapshot lists without its content.
LEMMA RestoredIsCaptured ==
  ASSUME Binary = {}, disk \in Disk, NEW to \in Snapshot, \A f \in Files : to[f] # Opaque
  PROVE  /\ Restored(Captured(disk), to) \in Disk
         /\ Captured(Restored(Captured(disk), to)) = to
<1> DEFINE new == Restored(Captured(disk), to)
<1>1. ASSUME NEW f \in Files
      PROVE  /\ new[f] \in Contents \cup {Absent}
             /\ to[f] \in Text => new[f] = to[f]
             /\ to[f] = NoKey => new[f] \notin Text
  <2>1. CASE to[f] \in Text
    BY <2>1, TextIsApart DEF Restored
  <2>2. CASE to[f] = NoKey
    <3>1. Captured(disk)[f] # NoKey => new[f] = Absent
      BY <2>2, TextIsApart DEF Restored
    <3>2. Captured(disk)[f] = NoKey => new[f] = disk[f] /\ disk[f] \notin Text
      BY <2>2, TextIsApart, CapturedFile DEF Restored
    <3> QED
      BY <2>2, <3>1, <3>2, TextIsApart DEF Disk
  <2> QED
    BY <2>1, <2>2 DEF Snapshot
<1>2. new \in Disk
  BY <1>1 DEF Restored, Disk
<1>3. ASSUME NEW f \in Files PROVE Captured(new)[f] = to[f]
  <2>1. to[f] \in Text \/ to[f] = NoKey
    BY DEF Snapshot
  <2> QED
    BY <1>1, <1>2, <2>1, CapturedFile
<1>4. Captured(new) = [f \in Files |-> Captured(new)[f]] /\ to = [f \in Files |-> to[f]]
  BY DEF Captured, Snapshot
<1> QED
  BY <1>2, <1>3, <1>4

-----------------------------------------------------------------------------
(* The invariant. *)

LEMMA PathInvInitially == Init => PathInv
<1> SUFFICES ASSUME Init PROVE PathInv
  OBVIOUS
<1> USE ContentsAssumption, PathsAssumption, BoundsAssumption DEF Init
<1>1. None \in Saved /\ ~None.there
  BY DEF None, Saved, Snapshot
<1>2. up \in BOOLEAN /\ dirty \in BOOLEAN
  BY Zenon
<1>3. disk \in Disk
  BY DEF Disk, Text
<1>4. TypeOK
  BY <1>1, <1>2, <1>3 DEF TypeOK, First, New, NoFile
<1> QED
  BY <1>1, <1>4 DEF PathInv, First, New

LEMMA TurnKeeps == ASSUME PathInv, Turn PROVE PathInv'
<1> USE ContentsAssumption, PathsAssumption, BoundsAssumption DEF PathInv, Turn
<1>1. FileAt(at) \in {First, New, NoFile} /\ (at = Main => FileAt(at) = First) /\ (at = New => FileAt(at) = New)
  BY DEF FileAt, New
<1>2. disk' \in Disk /\ dirty' \in BOOLEAN
  <2>1. CASE UNCHANGED <<disk, dirty>>
    BY <2>1 DEF TypeOK
  <2>2. ASSUME NEW f \in Files, NEW v \in Contents \cup {Absent},
               disk' = [disk EXCEPT ![f] = v], dirty' = TRUE
        PROVE  disk' \in Disk /\ dirty' \in BOOLEAN
    BY <2>2 DEF TypeOK, Disk
  <2> QED
    BY <2>1, <2>2
<1>3. /\ conv' \in Nat /\ turns' \in Nat
      /\ written' \in [{First, New} -> Nat] /\ newest' \in {First, New, NoFile}
  BY <1>1 DEF TypeOK, First, New, NoFile
<1>4. TypeOK'
  BY <1>2, <1>3 DEF TypeOK
<1> QED
  BY <1>1, <1>4 DEF TypeOK, First, New, NoFile

LEMMA EditKeeps == ASSUME PathInv, NEW f \in Files, Edit(f) PROVE PathInv'
  BY DEF PathInv, Edit, TypeOK, Disk

LEMMA CompactKeeps == ASSUME PathInv, Compact PROVE PathInv'
  BY PathsAssumption DEF PathInv, Compact, TypeOK, First, New, NoFile

LEMMA MetaKeeps ==
  ASSUME TypeOK, NEW a \in Paths \cup {New}, NEW id \in Paths, SaveMeta(a, id)
  PROVE  meta' \in [{First, New} -> Paths \cup {NoPath}]
  BY DEF TypeOK, SaveMeta, FileAt, First, New, NoFile

LEMMA ForkKeeps == ASSUME PathInv, NEW p \in Paths, Fork(p) PROVE PathInv'
<1> USE DEF PathInv, Fork, Enter
<1>1. State \in Saved /\ State.there
  BY StateIsSaved
<1>2. meta' \in [{First, New} -> Paths \cup {NoPath}]
  BY MetaKeeps
<1>3. TypeOK'
  BY <1>1, <1>2 DEF TypeOK
<1>4. \A q \in Paths : saved'[q].there <=> q \in known'
  BY <1>1 DEF TypeOK
<1>5. known' # {} /\ Main \in known'
  BY DEF TypeOK
<1> QED
  BY <1>3, <1>4, <1>5

LEMMA SavePathKeeps ==
  ASSUME PathInv, SavePath(active)
  PROVE  /\ saved' \in [Paths -> Saved] /\ known' \in SUBSET Paths
         /\ \A q \in Paths : saved'[q].there <=> q \in known'
         /\ known' # {} /\ Main \in known'
<1>1. State \in Saved /\ State.there
  BY StateIsSaved DEF PathInv
<1> QED
  BY <1>1 DEF PathInv, SavePath, TypeOK

\* The disk a switch leaves is one.
LEMMA RestoredIsDisk ==
  ASSUME disk \in Disk, NEW to \in Snapshot, NEW from
  PROVE  Restored(from, to) \in Disk
<1>1. \A f \in Files : Restored(from, to)[f] \in Contents \cup {Absent}
  BY TextIsApart DEF Restored, Disk
<1> QED
  BY <1>1 DEF Restored, Disk

LEMMA SwitchKeeps == ASSUME PathInv, NEW p \in Paths, Switch(p) PROVE PathInv'
<1> USE DEF Switch, Enter
<1>1. /\ saved' \in [Paths -> Saved] /\ known' \in SUBSET Paths
      /\ \A q \in Paths : saved'[q].there <=> q \in known'
      /\ known' # {} /\ Main \in known'
  BY SavePathKeeps
<1>2. meta' \in [{First, New} -> Paths \cup {NoPath}]
  BY MetaKeeps DEF PathInv
<1>3. saved[p].files \in Snapshot /\ saved[p].conv \in Nat
  BY DEF PathInv, TypeOK, Saved
<1>4. disk' \in Disk
  BY <1>3, RestoredIsDisk DEF PathInv, TypeOK
<1>5. TypeOK'
  BY <1>1, <1>2, <1>3, <1>4 DEF PathInv, TypeOK
<1> QED
  BY <1>1, <1>5 DEF PathInv

LEMMA PickKeeps == ASSUME PathInv, NEW p \in Paths, Pick(p) PROVE PathInv'
<1>1. \A f \in Files : Picked(p)[f] \in Contents \cup {Absent}
  BY ShownIsContent DEF PathInv, Picked, TypeOK, Disk
<1>2. disk' \in Disk
  BY <1>1 DEF Pick, Picked, Disk
<1> QED
  BY <1>2 DEF PathInv, Pick, TypeOK

LEMMA DropKeeps == ASSUME PathInv, NEW p \in Paths, DropPath(p) PROVE PathInv'
<1>1. None \in Saved /\ ~None.there
  BY DEF None, Saved, Snapshot
<1>2. known # {} /\ Main \in known /\ Main # p
  BY DEF PathInv, DropPath
<1> QED
  BY <1>1, <1>2 DEF PathInv, DropPath, TypeOK

LEMMA ExitKeeps == ASSUME PathInv, Exit PROVE PathInv'
<1> USE DEF Exit
<1>1. meta' \in [{First, New} -> Paths \cup {NoPath}]
  BY MetaKeeps DEF PathInv, TypeOK
<1>2. CASE dirty
  <2>1. SavePath(active)
    BY <1>2
  <2> QED
    BY <1>1, <2>1, SavePathKeeps DEF PathInv, TypeOK
<1>3. CASE ~dirty
  BY <1>1, <1>3 DEF PathInv, TypeOK
<1> QED
  BY <1>2, <1>3

LEMMA CrashKeeps == ASSUME PathInv, Crash PROVE PathInv'
  BY DEF PathInv, Crash, TypeOK

LEMMA TargetIsPath == ASSUME TypeOK PROVE Target \in Paths
  BY PathsAssumption DEF Target, TypeOK, First

LEMMA ResumeKeeps ==
  ASSUME PathInv, NEW command \in BOOLEAN, Resume(command) \/ ResumeNew(command)
  PROVE  PathInv'
<1> USE PathsAssumption DEF PathInv
<1>1. ASSUME Resume(command) PROVE PathInv'
  <2> USE <1>1 DEF Resume
  <2>1. Target \in Paths
    BY TargetIsPath
  <2>2. meta' \in [{First, New} -> Paths \cup {NoPath}]
    BY <2>1 DEF TypeOK
  <2>3. saved[Target].files \in Snapshot /\ saved[Target].conv \in Nat
    BY <2>1 DEF TypeOK, Saved
  <2>4. \A f \in Files : Overwritten(saved[Target].files)[f] \in Contents \cup {Absent}
    BY TextIsApart DEF Overwritten, TypeOK, Disk
  <2>5. disk' \in Disk
    BY <2>4 DEF Overwritten, TypeOK, Disk
  <2>6. conv' \in Nat /\ at' \in Paths \cup {New}
    BY <2>1, <2>3 DEF TypeOK, First
  <2>7. TypeOK'
    BY <2>1, <2>2, <2>5, <2>6 DEF TypeOK
  <2>8. known = {} => active' = Main /\ at' = Main /\ conv' = written[First]
    BY <2>1 DEF Target
  <2> QED
    BY <2>7, <2>8 DEF First, New
<1>2. ASSUME ResumeNew(command) PROVE PathInv'
  <2>1. None \in Saved /\ ~None.there
    BY DEF None, Saved, Snapshot
  <2> QED
    BY <1>2, <2>1 DEF ResumeNew, TypeOK, First, New, NoFile
<1> QED
  BY <1>1, <1>2

\* The invariant of the session paths, whatever they are called and however many.
THEOREM PathInvHolds == Spec => []PathInv
<1>1. PathInv /\ [Next]_vars => PathInv'
  <2>1. PathInv /\ UNCHANGED vars => PathInv'
    BY DEF PathInv, TypeOK, vars
  <2> QED
    BY <2>1, TurnKeeps, EditKeeps, CompactKeeps, ForkKeeps, SwitchKeeps, PickKeeps, DropKeeps,
       ExitKeeps, CrashKeeps, ResumeKeeps DEF Next
<1> QED
  BY <1>1, PathInvInitially, PTL DEF Spec

\* Every variable has its type, always.
THEOREM TypeCorrect == Spec => []TypeOK
<1>1. PathInv => TypeOK
  BY DEF PathInv
<1> QED
  BY <1>1, PathInvHolds, PTL

-----------------------------------------------------------------------------
(* A session that was saved as it stands is taken up as it stands. *)

LEMMA ResumeIsExact ==
  ASSUME PathInv, NEW command \in BOOLEAN, Resume(command), AsSaved, meta[First] \in {NoPath, active}
  PROVE  conv' = conv /\ disk' = disk /\ active' = active
<1> USE PathsAssumption DEF PathInv, Resume
<1>1. CASE known = {}
  <2>1. Target = Main /\ active = Main /\ ~saved[Main].there
    BY <1>1 DEF Target
  <2>2. at = Main
    BY <1>1 DEF First, New
  <2> QED
    BY <1>1, <2>1, <2>2
<1>2. CASE known # {}
  <2>1. Target = active
    BY <1>2 DEF Target
  <2>2. saved[active] = State /\ State.there
    BY <1>2, StateIsSaved DEF AsSaved
  <2>3. saved[active].conv = conv /\ saved[active].files = Captured(disk)
    BY <2>2 DEF State
  <2>4. Overwritten(Captured(disk)) = disk
    BY OverwrittenBySelf DEF TypeOK
  <2> QED
    BY <2>1, <2>2, <2>3, <2>4
<1> QED
  BY <1>1, <1>2

THEOREM ResumesExactly == Spec => ResumesAsSaved
<1>1. PathInv /\ [Next]_vars =>
        [\A command \in BOOLEAN :
           Resume(command) /\ AsSaved /\ meta[First] \in {NoPath, active}
              => conv' = conv /\ disk' = disk /\ active' = active]_vars
  BY ResumeIsExact
<1> QED
  BY <1>1, PathInvHolds, PTL DEF Spec, ResumesAsSaved

\* What a launch finds: paths that are well formed, and what was saved.
THEOREM PathsAlwaysSound == Spec => PathsSound
  BY TypeCorrect, ResumesExactly, PTL DEF PathsSound

-----------------------------------------------------------------------------
(* The refinement.  A file that a snapshot lists without its content is     *)
(* not in it, so the theorem is about projects where nothing is Binary.    *)

WorldSet == [conv : Nat, files : Snapshot]
WorldMap == [p \in known \cup {active} |-> WorldOf(p)]

LEMMA WorldOfActive ==
  ASSUME TypeOK
  PROVE  WorldOf(active) = [conv |-> conv, files |-> Captured(disk)] /\ WorldOf(active) \in WorldSet
  BY CapturedIsSnapshot DEF WorldOf, WorldSet, TypeOK

\* No saved state has such a file.
NoOpaque == Binary = {} => \A p \in Paths, f \in Files : saved[p].files[f] # Opaque

LEMMA CapturedHasNone ==
  ASSUME Binary = {}, NEW d \in Disk, NEW f \in Files
  PROVE  Captured(d)[f] # Opaque
  BY CapturedFile, TextIsApart

LEMMA NoOpaqueKept ==
  ASSUME PathInv, NoOpaque, [Next]_vars
  PROVE  NoOpaque'
<1> SUFFICES ASSUME Binary = {} PROVE \A p \in Paths, f \in Files : saved'[p].files[f] # Opaque
  BY DEF NoOpaque
<1>1. \A f \in Files : State.files[f] # Opaque /\ None.files[f] # Opaque
  BY CapturedHasNone, TextIsApart DEF State, None, PathInv, TypeOK
<1>2. ASSUME SavePath(active) PROVE \A p \in Paths, f \in Files : saved'[p].files[f] # Opaque
  BY <1>1, <1>2 DEF SavePath, PathInv, TypeOK, NoOpaque
<1>3. ASSUME UNCHANGED saved PROVE \A p \in Paths, f \in Files : saved'[p].files[f] # Opaque
  BY <1>3 DEF NoOpaque
<1>4. CASE Turn \/ Compact \/ Crash \/ UNCHANGED vars
  BY <1>3, <1>4 DEF Turn, Compact, Crash, vars
<1>5. CASE Exit
  BY <1>2, <1>3, <1>5 DEF Exit
<1>6. ASSUME NEW f \in Files, Edit(f) PROVE UNCHANGED saved
  BY <1>6 DEF Edit
<1>7. ASSUME NEW p \in Paths, Fork(p) PROVE \A q \in Paths, f \in Files : saved'[q].files[f] # Opaque
  <2>1. saved' = [saved EXCEPT ![active] = State, ![p] = State]
    BY <1>7 DEF Fork
  <2>2. \A q \in Paths : saved'[q] = State \/ saved'[q] = saved[q]
    BY <2>1 DEF PathInv, TypeOK
  <2> QED
    BY <1>1, <2>2 DEF NoOpaque
<1>8. ASSUME NEW p \in Paths, Switch(p) PROVE SavePath(active)
  BY <1>8 DEF Switch
<1>9. ASSUME NEW p \in Paths, Pick(p) PROVE UNCHANGED saved
  BY <1>9 DEF Pick
<1>10. ASSUME NEW p \in Paths, DropPath(p) PROVE \A q \in Paths, f \in Files : saved'[q].files[f] # Opaque
  BY <1>1, <1>10 DEF DropPath, PathInv, TypeOK, NoOpaque
<1>11. ASSUME NEW command \in BOOLEAN, Resume(command) PROVE UNCHANGED saved
  BY <1>11 DEF Resume
<1>12. ASSUME NEW command \in BOOLEAN, ResumeNew(command)
       PROVE  \A q \in Paths, f \in Files : saved'[q].files[f] # Opaque
  BY <1>1, <1>12 DEF ResumeNew
<1> QED
  BY <1>2, <1>3, <1>4, <1>5, <1>6, <1>7, <1>8, <1>9, <1>10, <1>11, <1>12 DEF Next

\* What leaves the map, the saved states and the path worked on alone is a stutter,
\* if the world is as it was, and work on it if it is another.
LEMMA WorkOnWorld ==
  ASSUME TypeOK, TypeOK', UNCHANGED <<active, known, saved>>
  PROVE  Promise!Step
<1>1. \A p \in known \cup {active} : p # active => WorldOf(p)' = WorldOf(p)
  BY DEF WorldOf
<1>2. WorldOf(active)' \in WorldSet
  BY CapturedIsSnapshot DEF WorldOf, WorldSet, TypeOK
<1>3. WorldMap' = [WorldMap EXCEPT ![active] = WorldMap'[active]] /\ WorldMap'[active] \in WorldSet
  BY <1>1, <1>2 DEF WorldMap
<1>4. Promise!Work
  BY <1>3 DEF Promise!Work, WorldMap, WorldSet
<1> QED
  BY <1>4 DEF Promise!Step, Promise!Next

LEMMA WorldStays ==
  ASSUME UNCHANGED WorldMap, UNCHANGED active
  PROVE  Promise!Step
  BY DEF Promise!Step, WorldMap

\* The active path is saved, and nothing else.
LEMMA SavingStays ==
  ASSUME TypeOK, SavePath(active), UNCHANGED <<active, conv, disk>>
  PROVE  Promise!Step
<1>1. known' \cup {active'} = known \cup {active}
  BY DEF SavePath
<1>2. \A p \in known \cup {active} : WorldOf(p)' = WorldOf(p)
  BY DEF SavePath, WorldOf, TypeOK
<1>3. UNCHANGED WorldMap
  BY <1>1, <1>2 DEF WorldMap
<1> QED
  BY <1>3, WorldStays

LEMMA ForkIsFork ==
  ASSUME PathInv, PathInv', NEW p \in Paths, Fork(p)
  PROVE  Promise!Step
<1> USE DEF Fork, Enter
<1>1. known' \cup {active'} = known \cup {active, p} /\ active' = p
  BY DEF PathInv, TypeOK
<1>2. State.conv = conv /\ State.files = Captured(disk)
  BY DEF State
<1>3. WorldOf(p)' = WorldOf(active) /\ WorldOf(active) = [conv |-> conv, files |-> Captured(disk)]
  BY DEF WorldOf
<1>4. ASSUME NEW q \in known \cup {active}, q # p PROVE WorldOf(q)' = WorldOf(q)
  <2>1. q \in Paths
    BY DEF PathInv, TypeOK
  <2>2. saved'[q] = IF q = active THEN State ELSE saved[q]
    BY <1>4, <2>1 DEF PathInv, TypeOK
  <2> QED
    BY <1>2, <1>4, <2>2, <1>1 DEF WorldOf
<1>5. CASE p = active
  <2>1. UNCHANGED WorldMap
    BY <1>1, <1>3, <1>4, <1>5 DEF WorldMap
  <2> QED
    BY <1>1, <1>5, <2>1, WorldStays
<1>6. CASE p # active
  <2>1. p \notin DOMAIN WorldMap
    BY <1>6 DEF WorldMap
  <2>2. WorldMap' = [q \in DOMAIN WorldMap \cup {p} |-> IF q = p THEN WorldMap[active] ELSE WorldMap[q]]
    BY <1>1, <1>3, <1>4, <1>6 DEF WorldMap
  <2>3. Promise!Fork(p)
    BY <1>1, <2>1, <2>2 DEF Promise!Fork, Promise!Existing, WorldMap
  <2> QED
    BY <2>3 DEF Promise!Step, Promise!Next
<1> QED
  BY <1>5, <1>6

LEMMA SwitchIsSwitch ==
  ASSUME Binary = {}, PathInv, NoOpaque, NEW p \in Paths, Switch(p)
  PROVE  Promise!Step
<1> USE DEF Switch, Enter
<1>1. p \in known /\ p # active /\ active' = p
  BY DEF PathInv
<1>2. known' \cup {active'} = known \cup {active}
  BY <1>1 DEF SavePath
<1>3. State.conv = conv /\ State.files = Captured(disk)
  BY DEF State
<1>4. ASSUME NEW q \in known \cup {active}, q # p PROVE WorldOf(q)' = WorldOf(q)
  <2>1. q \in Paths
    BY DEF PathInv, TypeOK
  <2>2. saved'[q] = IF q = active THEN State ELSE saved[q]
    BY <2>1 DEF SavePath, PathInv, TypeOK
  <2> QED
    BY <1>1, <1>3, <1>4, <2>2 DEF WorldOf
<1>5. WorldOf(p)' = WorldOf(p)
  <2>1. saved[p].files \in Snapshot /\ \A f \in Files : saved[p].files[f] # Opaque
    BY DEF PathInv, TypeOK, Saved, NoOpaque
  <2>2. Captured(disk') = saved[p].files
    BY <2>1, RestoredIsCaptured DEF PathInv, TypeOK
  <2> QED
    BY <1>1, <2>2 DEF WorldOf
<1>6. UNCHANGED WorldMap
  BY <1>2, <1>4, <1>5 DEF WorldMap
<1>7. Promise!Switch(p)
  BY <1>1, <1>6 DEF Promise!Switch, Promise!Existing, WorldMap
<1> QED
  BY <1>7 DEF Promise!Step, Promise!Next

LEMMA DropIsDrop ==
  ASSUME PathInv, NEW p \in Paths, DropPath(p)
  PROVE  Promise!Step
<1> USE DEF DropPath
<1>1. p \in known /\ p \notin {Main, active} /\ UNCHANGED active
  BY DEF PathInv
<1>2. known' \cup {active'} = (known \cup {active}) \ {p}
  BY <1>1
<1>3. \A q \in (known \cup {active}) \ {p} : WorldOf(q)' = WorldOf(q)
  BY DEF WorldOf, PathInv, TypeOK
<1>4. WorldMap' = [q \in DOMAIN WorldMap \ {p} |-> WorldMap[q]]
  BY <1>2, <1>3 DEF WorldMap
<1>5. Promise!Drop(p)
  BY <1>1, <1>4 DEF Promise!Drop, Promise!Existing, WorldMap
<1> QED
  BY <1>5 DEF Promise!Step, Promise!Next

LEMMA StepsAreSteps ==
  ASSUME Binary = {}, PathInv, PathInv', NoOpaque, Next, up
  PROVE  Promise!Step
<1>1. TypeOK /\ TypeOK'
  BY DEF PathInv
<1>2. CASE Turn \/ Compact \/ Crash
  BY <1>1, <1>2, WorkOnWorld DEF Turn, Compact, Crash
<1>3. CASE Exit
  <2>1. CASE dirty
    BY <1>1, <1>3, <2>1, SavingStays DEF Exit
  <2>2. CASE ~dirty
    BY <1>1, <1>3, <2>2, WorkOnWorld DEF Exit
  <2> QED
    BY <2>1, <2>2
<1>4. ASSUME NEW f \in Files, Edit(f) PROVE Promise!Step
  BY <1>1, <1>4, WorkOnWorld DEF Edit
<1>5. ASSUME NEW p \in Paths, Pick(p) PROVE Promise!Step
  BY <1>1, <1>5, WorkOnWorld DEF Pick
<1>6. ASSUME NEW command \in BOOLEAN PROVE ~Resume(command) /\ ~ResumeNew(command)
  BY DEF Resume, ResumeNew
<1> QED
  BY <1>2, <1>3, <1>4, <1>5, <1>6, ForkIsFork, SwitchIsSwitch, DropIsDrop DEF Next

\* Every path is a world of its own as long as the program runs: where there are no
\* binary files, each step is one of PathWorlds or changes nothing of it.
THEOREM PathsAreWorlds == ASSUME Binary = {} PROVE Spec => KeepsWorlds
<1>1. Init => Promise!Init
  <2> SUFFICES ASSUME Init PROVE Promise!Init
    OBVIOUS
  <2>1. TypeOK /\ known = {} /\ active = Main
    BY PathInvInitially DEF PathInv, Init
  <2>2. WorldMap \in [{Main} -> WorldSet]
    BY <2>1, WorldOfActive DEF WorldMap
  <2> QED
    BY <2>1, <2>2 DEF Promise!Init, WorldMap, WorldSet
<1>2. Init => NoOpaque
  BY TextIsApart DEF Init, NoOpaque, None
<1>3. PathInv /\ NoOpaque /\ [Next]_vars => NoOpaque'
  BY NoOpaqueKept
<1>4. PathInv /\ PathInv' /\ NoOpaque /\ [Next]_vars => [up => Promise!Step]_vars
  BY StepsAreSteps
<1> QED
  BY <1>1, <1>2, <1>3, <1>4, PathInvHolds, PTL DEF Spec, KeepsWorlds

-----------------------------------------------------------------------------
(* The turns of a host program. *)

\* What subscribers may hear of a turn: that it has started, then that it has ended.
Events == {"started", "completed", "aborted", "failed"}
Story(s) == /\ Len(s) <= 2
            /\ Len(s) >= 1 => s[1] = "started"
            /\ Len(s) = 2 => s[2] # "started"
Open == sdAt \in {"started", "running", "looked", "dropped"}

SdkTypeOK ==
    /\ sdTurn \in 0..MaxTurns /\ sdAt \in {"idle", "started", "running", "looked", "dropped"}
    /\ sdAt # "idle" => sdTurn # 0
    /\ sdFlag \in BOOLEAN /\ sdCell \in 0..sdTurn /\ sdHeld \in [Handles -> 0..sdTurn]
    /\ sdCancelled \subseteq 1..sdTurn /\ sdStopped \subseteq sdCancelled
    /\ sdEvents \in [Turns -> Seq(Events)] /\ sdDropped \subseteq 1..sdTurn

\* A token reaches the handles once its turn runs, and who took it while the turn
\* was in progress has asked for its end.
TokensAsked ==
    /\ sdAt \in {"running", "looked"} => sdCell = sdTurn
    /\ sdAt = "started" => /\ sdCell # sdTurn /\ sdTurn \notin sdCancelled
                           /\ \A h \in Handles : sdHeld[h] # sdTurn
    /\ sdAt \in {"running", "looked"} =>
          /\ sdTurn \in sdCancelled => sdTurn \in sdAsked
          /\ \A h \in Handles : sdHeld[h] = sdTurn => sdTurn \in sdAsked

\* What was heard of a turn, by how far it is.
TurnsTold ==
    /\ \A t \in Turns :
          /\ Story(sdEvents[t])
          /\ IF t > sdTurn THEN Len(sdEvents[t]) = 0
             ELSE IF (t = sdTurn /\ Open) \/ t \in sdDropped THEN Len(sdEvents[t]) = 1
             ELSE Len(sdEvents[t]) = 2
    /\ sdAt = "dropped" => sdTurn \in sdDropped
    /\ sdAt \in {"started", "running", "looked"} => sdTurn \notin sdDropped
    /\ sdAt = "looked" /\ sdTurn \in sdStopped => sdFlag
    /\ \A t \in sdStopped : Len(sdEvents[t]) = 2 => sdEvents[t][2] # "completed"

\* The inductive invariant.
SdkInv == SdkTypeOK /\ TokensAsked /\ FailedLeavesNothing /\ TurnsTold

LEMMA StoryGrows ==
    ASSUME NEW s \in Seq(Events), NEW e \in Events, Story(s), Len(s) <= 1, e = "started" <=> Len(s) = 0
    PROVE  /\ Append(s, e) \in Seq(Events) /\ Story(Append(s, e))
           /\ Len(Append(s, e)) = Len(s) + 1 /\ Append(s, e)[Len(s) + 1] = e
<1>1. /\ Append(s, e) \in Seq(Events) /\ Len(Append(s, e)) = Len(s) + 1 /\ Append(s, e)[Len(s) + 1] = e
      /\ \A i \in 1..Len(s) : Append(s, e)[i] = s[i]
  BY AppendProperties
<1>2. Len(s) = 0 \/ Len(s) = 1
  <2>1. Len(s) \in Nat OBVIOUS
  <2>2. \A n \in Nat : n <= 1 => n = 0 \/ n = 1 OBVIOUS
  <2>3. Len(s) <= 1 OBVIOUS
  <2> HIDE DEF Events
  <2> QED BY <2>1, <2>2, <2>3, Zenon
<1> HIDE DEF Events
<1>3. CASE Len(s) = 0 BY <1>1, <1>3 DEF Story
<1>4. CASE Len(s) = 1 BY <1>1, <1>4 DEF Story
<1> QED BY <1>1, <1>2, <1>3, <1>4

LEMMA SdkInitially == SdInit => SdkInv
<1> SUFFICES ASSUME SdInit PROVE SdkInv OBVIOUS
<1> USE SdkAssumption
<1>1. SdkTypeOK
  <2>1. sdEvents \in [Turns -> Seq(Events)]
    <3>1. <<>> \in Seq(Events) OBVIOUS
    <3> QED BY <3>1 DEF SdInit
  <2>2. sdTurn = 0 /\ 0 \in 0..MaxTurns /\ 0 \in 0..sdTurn BY DEF SdInit
  <2>3. sdHeld \in [Handles -> 0..sdTurn] BY <2>2 DEF SdInit
  <2> QED BY <2>1, <2>2, <2>3 DEF SdInit, SdkTypeOK
<1>2. TokensAsked BY DEF SdInit, TokensAsked
<1>3. FailedLeavesNothing BY DEF SdInit, FailedLeavesNothing
<1>4. TurnsTold BY DEF SdInit, TurnsTold, Turns, Story
<1> QED BY <1>1, <1>2, <1>3, <1>4 DEF SdkInv

\* An end of the turn at work.
LEMMA ReturnKeeps ==
    ASSUME SdkInv, NEW event \in {"completed", "aborted", "failed"}, Returns(event),
           sdAt \in {"running", "looked"}, sdTurn \in sdStopped => event # "completed",
           sdMessages' = sdEnded'
    PROVE  SdkInv'
<1> USE SdkAssumption
<1>0. SdkTypeOK /\ TokensAsked /\ TurnsTold BY DEF SdkInv
<1>1. /\ sdEvents' = [sdEvents EXCEPT ![sdTurn] = Append(@, event)] /\ sdAt' = "idle" /\ sdCell' = 0
      /\ UNCHANGED <<sdStopped, sdDropped, sdTurn, sdFlag, sdHeld, sdCancelled>>
  BY DEF Returns, Heard
<1>2. sdTurn \in Turns BY <1>0 DEF SdkTypeOK, Turns
<1>3. sdEvents[sdTurn] \in Seq(Events) /\ Story(sdEvents[sdTurn]) /\ Len(sdEvents[sdTurn]) = 1
  <2>1. ~(sdTurn > sdTurn) BY <1>2 DEF Turns
  <2> QED BY <1>0, <1>2, <2>1 DEF SdkTypeOK, TurnsTold, Open
<1>4. /\ Story(sdEvents'[sdTurn]) /\ Len(sdEvents'[sdTurn]) = 2 /\ sdEvents'[sdTurn][2] = event
      /\ sdEvents' \in [Turns -> Seq(Events)]
      /\ \A t \in Turns \ {sdTurn} : sdEvents'[t] = sdEvents[t]
  <2> DEFINE s == sdEvents[sdTurn]
  <2>1. event \in Events /\ event # "started" BY DEF Events
  <2>2. /\ Append(s, event) \in Seq(Events) /\ Story(Append(s, event))
        /\ Len(Append(s, event)) = 2 /\ Append(s, event)[2] = event
    <3>1. s \in Seq(Events) /\ Story(s) /\ Len(s) = 1 BY <1>3
    <3> HIDE DEF s
    <3> QED BY <2>1, <3>1, StoryGrows, SMTT(30)
  <2> QED BY <1>0, <1>1, <1>2, <2>2 DEF SdkTypeOK
<1>5. SdkTypeOK' BY <1>0, <1>1, <1>4 DEF SdkTypeOK
<1>6. TokensAsked' BY <1>1 DEF TokensAsked
<1>7. TurnsTold'
  <2>1. ASSUME NEW t \in Turns
        PROVE  /\ Story(sdEvents'[t])
               /\ IF t > sdTurn THEN Len(sdEvents'[t]) = 0
                  ELSE IF t \in sdDropped THEN Len(sdEvents'[t]) = 1
                  ELSE Len(sdEvents'[t]) = 2
    <3>1. CASE t = sdTurn
      <4>1. sdTurn \notin sdDropped BY <1>0 DEF TurnsTold
      <4>3. ~(t > sdTurn) BY <1>2, <3>1 DEF Turns
      <4> QED BY <1>4, <3>1, <4>1, <4>3
    <3>2. CASE t # sdTurn BY <1>0, <1>4, <3>2 DEF TurnsTold, Open
    <3> QED BY <3>1, <3>2
  <2>2. ASSUME NEW t \in sdStopped PROVE Len(sdEvents'[t]) = 2 => sdEvents'[t][2] # "completed"
    <3>1. t \in Turns BY <1>0 DEF SdkTypeOK, Turns
    <3>2. CASE t = sdTurn
      <4>1. event # "completed" BY <2>2, <3>2
      <4> QED BY <1>4, <3>2, <4>1
    <3>3. CASE t # sdTurn BY <1>0, <1>4, <3>1, <3>3 DEF TurnsTold
    <3> QED BY <3>2, <3>3
  <2> QED BY <1>1, <2>1, <2>2 DEF TurnsTold, Open
<1>8. FailedLeavesNothing' BY DEF FailedLeavesNothing
<1> QED BY <1>5, <1>6, <1>7, <1>8 DEF SdkInv

\* The conversation is replaced, or a snapshot is taken.
LEMMA SdkStep == SdkInv /\ [SdNext]_sdVars => SdkInv'
<1> SUFFICES ASSUME SdkInv, [SdNext]_sdVars PROVE SdkInv' OBVIOUS
<1> USE SdkAssumption
<1>0. SdkTypeOK /\ TokensAsked /\ TurnsTold /\ FailedLeavesNothing BY DEF SdkInv
<1>1. CASE Prompt
  <2>1. /\ sdAt \in {"idle", "dropped"} /\ sdTurn' = sdTurn + 1 /\ sdTurn < MaxTurns /\ sdAt' = "started"
        /\ sdEvents' = [sdEvents EXCEPT ![sdTurn'] = Append(@, "started")]
        /\ UNCHANGED <<sdStopped, sdDropped, sdFlag, sdCell, sdHeld, sdCancelled, sdMessages, sdEnded, sdAsked>>
    BY <1>1 DEF Prompt, Free, Heard
  <2>2. sdTurn \in Nat /\ sdTurn' \in Turns /\ sdTurn' > sdTurn BY <1>0, <2>1 DEF SdkTypeOK, Turns
  <2>3. sdEvents[sdTurn'] \in Seq(Events) /\ Len(sdEvents[sdTurn']) = 0 /\ Story(sdEvents[sdTurn'])
    BY <1>0, <2>2 DEF SdkTypeOK, TurnsTold
  <2>4. /\ Story(sdEvents'[sdTurn']) /\ Len(sdEvents'[sdTurn']) = 1 /\ sdEvents' \in [Turns -> Seq(Events)]
        /\ \A t \in Turns \ {sdTurn'} : sdEvents'[t] = sdEvents[t]
    <3>1. "started" \in Events BY DEF Events
    <3>2. \A s : s = sdEvents[sdTurn'] =>
              /\ Append(s, "started") \in Seq(Events) /\ Story(Append(s, "started"))
              /\ Len(Append(s, "started")) = 1
      BY <2>3, <3>1, StoryGrows
    <3> QED BY <1>0, <2>1, <2>2, <3>2 DEF SdkTypeOK
  <2>5. SdkTypeOK' BY <1>0, <2>1, <2>2, <2>4 DEF SdkTypeOK
  <2>6. TokensAsked' BY <1>0, <2>1, <2>2 DEF SdkTypeOK, TokensAsked
  <2>7. TurnsTold'
    <3>1. ASSUME NEW t \in Turns
          PROVE  /\ Story(sdEvents'[t])
                 /\ IF t > sdTurn' THEN Len(sdEvents'[t]) = 0
                    ELSE IF t = sdTurn' \/ t \in sdDropped THEN Len(sdEvents'[t]) = 1
                    ELSE Len(sdEvents'[t]) = 2
      <4>1. CASE t = sdTurn' BY <2>2, <2>4, <4>1 DEF Turns
      <4>2. CASE t > sdTurn' BY <1>0, <2>1, <2>2, <2>4, <4>2 DEF TurnsTold, Turns
      <4>3. CASE t < sdTurn'
        <5>1. ~(t > sdTurn) /\ ~(t > sdTurn') /\ t # sdTurn' BY <2>1, <2>2, <4>3 DEF Turns
        <5>2. sdAt = "dropped" => sdTurn \in sdDropped BY <1>0 DEF TurnsTold
        <5>3. t = sdTurn /\ Open => t \in sdDropped BY <2>1, <5>2 DEF Open
        <5>4. Story(sdEvents[t]) /\ Len(sdEvents[t]) = IF t \in sdDropped THEN 1 ELSE 2
          BY <1>0, <5>1, <5>3 DEF TurnsTold
        <5>5. sdEvents'[t] = sdEvents[t] BY <2>4, <5>1
        <5> QED BY <5>1, <5>4, <5>5
      <4>4. t \in Nat /\ sdTurn' \in Nat BY <2>2, SdkAssumption DEF Turns
      <4>5. t = sdTurn' \/ t > sdTurn' \/ t < sdTurn' BY <4>4
      <4> QED BY <4>1, <4>2, <4>3, <4>5
    <3>2. sdTurn' \notin sdDropped
      <4>1. sdTurn' \notin 1..sdTurn BY <2>2 DEF Turns
      <4> QED BY <1>0, <4>1 DEF SdkTypeOK
    <3>3. ASSUME NEW t \in sdStopped PROVE Len(sdEvents'[t]) = 2 => sdEvents'[t][2] # "completed"
      <4>1. t \in Turns /\ t # sdTurn' BY <1>0, <2>2 DEF SdkTypeOK, Turns
      <4> QED BY <1>0, <2>4, <4>1 DEF TurnsTold
    <3> QED BY <2>1, <3>1, <3>2, <3>3 DEF TurnsTold, Open
  <2>8. FailedLeavesNothing' BY <1>0, <2>1 DEF FailedLeavesNothing
  <2> QED BY <2>5, <2>6, <2>7, <2>8 DEF SdkInv
<1>2. CASE TokenSet
  <2>1. SdkTypeOK' BY <1>0, <1>2 DEF TokenSet, NewToken, SdkTypeOK
  <2>2. TokensAsked' BY <1>0, <1>2 DEF TokenSet, NewToken, TokensAsked
  <2>3. TurnsTold' BY <1>0, <1>2 DEF TokenSet, TurnsTold, Open
  <2> QED BY <1>0, <1>2, <2>1, <2>2, <2>3 DEF TokenSet, SdkInv, FailedLeavesNothing
<1>3. CASE RunEnds
  <2>1. SdkTypeOK' BY <1>0, <1>3 DEF RunEnds, SdkTypeOK
  <2>2. TokensAsked' BY <1>0, <1>3 DEF RunEnds, TokensAsked
  <2>3. sdTurn \in sdStopped => sdFlag' BY <1>0, <1>3 DEF RunEnds, NewToken, SdkTypeOK
  <2>4. TurnsTold' BY <1>0, <1>3, <2>3 DEF RunEnds, TurnsTold, Open
  <2> QED BY <1>0, <1>3, <2>1, <2>2, <2>4 DEF RunEnds, SdkInv, FailedLeavesNothing
<1>4. CASE TurnReturns
  <2>1. Lifecycle \in {"completed", "aborted", "failed"} BY DEF Lifecycle
  <2>2. sdTurn \in sdStopped => Lifecycle # "completed" BY <1>0, <1>4 DEF TurnReturns, TurnsTold, Lifecycle
  <2>3. sdMessages' = sdEnded' /\ sdAt \in {"running", "looked"} /\ Returns(Lifecycle)
    BY <1>0, <1>4 DEF TurnReturns, FailedLeavesNothing
  <2>4. \A event : event = Lifecycle => event \in {"completed", "aborted", "failed"} /\ Returns(event)
                                       /\ (sdTurn \in sdStopped => event # "completed")
    BY <2>1, <2>2, <2>3
  <2> HIDE DEF Lifecycle
  <2> QED BY <2>1, <2>2, <2>3, ReturnKeeps DEF Lifecycle
<1>5. CASE TurnFails
  <2>1. sdMessages' = sdEnded' BY <1>0, <1>5 DEF TurnFails, AfterFailure, FailedLeavesNothing
  <2> QED BY <1>5, <2>1, ReturnKeeps DEF TurnFails
<1>6. CASE FutureDropped
  <2>1. SdkTypeOK' BY <1>0, <1>6 DEF FutureDropped, SdkTypeOK
  <2>2. TokensAsked' BY <1>0, <1>6 DEF FutureDropped, TokensAsked
  <2>3. TurnsTold'
    <3>1. \A t \in Turns : /\ Story(sdEvents[t])
                           /\ IF t > sdTurn THEN Len(sdEvents[t]) = 0
                              ELSE IF t = sdTurn \/ t \in sdDropped \cup {sdTurn} THEN Len(sdEvents[t]) = 1
                              ELSE Len(sdEvents[t]) = 2
      BY <1>0, <1>6 DEF FutureDropped, TurnsTold, Open
    <3> QED BY <1>0, <1>6, <3>1 DEF FutureDropped, TurnsTold, Open
  <2> QED BY <1>0, <1>6, <2>1, <2>2, <2>3 DEF FutureDropped, SdkInv, FailedLeavesNothing
<1>7. ASSUME NEW h \in Handles, AbortLooks(h) PROVE SdkInv'
  <2>1. SdkTypeOK' BY <1>0, <1>7 DEF AbortLooks, SdkTypeOK
  <2>2. TokensAsked' BY <1>0, <1>7 DEF AbortLooks, TokensAsked, SdkTypeOK
  <2>3. TurnsTold' BY <1>0, <1>7 DEF AbortLooks, TurnsTold, Open
  <2> QED BY <1>0, <1>7, <2>1, <2>2, <2>3 DEF AbortLooks, SdkInv, FailedLeavesNothing
<1>8. ASSUME NEW h \in Handles, AbortCancels(h) PROVE SdkInv'
  <2>0. /\ sdHeld[h] \in 1..sdTurn
        /\ sdStopped' \subseteq sdStopped \cup {sdHeld[h]}
    <3>1. sdHeld[h] \in 0..sdTurn /\ sdHeld[h] # 0 /\ sdTurn \in Nat
      BY <1>0, <1>8 DEF AbortCancels, SdkTypeOK
    <3>2. sdHeld[h] \in 1..sdTurn BY <3>1
    <3>3. sdStopped' \subseteq sdStopped \cup {sdHeld[h]} BY <1>8 DEF AbortCancels
    <3> QED BY <3>2, <3>3
  <2>1. SdkTypeOK'
    <3>1. sdCancelled' = sdCancelled \cup {sdHeld[h]} /\ sdHeld' = [sdHeld EXCEPT ![h] = 0]
      BY <1>8 DEF AbortCancels
    <3>2. sdCancelled' \subseteq 1..sdTurn /\ sdStopped' \subseteq sdCancelled'
      BY <1>0, <2>0, <3>1 DEF SdkTypeOK
    <3>3. 0 \in 0..sdTurn BY <1>0 DEF SdkTypeOK
    <3>4. sdHeld' \in [Handles -> 0..sdTurn] BY <1>0, <3>1, <3>3 DEF SdkTypeOK
    <3> QED BY <1>0, <1>8, <3>2, <3>4 DEF AbortCancels, SdkTypeOK
  <2>2. TokensAsked' BY <1>0, <1>8 DEF AbortCancels, TokensAsked, SdkTypeOK
  <2>3. TurnsTold'
    <3>1. sdAt = "looked" => sdStopped' = sdStopped BY <1>8 DEF AbortCancels
    <3>2. ASSUME NEW t \in sdStopped' PROVE Len(sdEvents[t]) = 2 => sdEvents[t][2] # "completed"
      <4>1. CASE t \in sdStopped BY <1>0, <4>1 DEF TurnsTold
      <4>2. CASE t \notin sdStopped
        <5>1. t = sdTurn /\ sdAt = "running" BY <1>8, <3>2, <4>2 DEF AbortCancels, NewToken
        <5>2. sdTurn \in Turns BY <1>0, <5>1 DEF SdkTypeOK, Turns
        <5>3. ~(sdTurn > sdTurn) BY <5>2 DEF Turns
        <5>4. Len(sdEvents[sdTurn]) = 1 BY <1>0, <5>1, <5>2, <5>3 DEF TurnsTold, Open
        <5> QED BY <5>1, <5>4
      <4> QED BY <4>1, <4>2
    <3> QED BY <1>0, <1>8, <3>1, <3>2 DEF AbortCancels, TurnsTold, Open
  <2> QED BY <1>0, <1>8, <2>1, <2>2, <2>3 DEF AbortCancels, SdkInv, FailedLeavesNothing
<1>9. CASE TakeSnapshot \/ UNCHANGED sdVars
  <2>1. UNCHANGED <<sdStopped, sdDropped, sdTurn, sdAt, sdFlag, sdCell, sdHeld, sdCancelled, sdMessages, sdEvents,
                    sdEnded, sdAsked>>
    BY <1>9 DEF TakeSnapshot, sdVars
  <2> QED BY <2>1 DEF SdkInv, SdkTypeOK, TokensAsked, TurnsTold, Open, FailedLeavesNothing
<1>10. ASSUME NEW ms, Replace(ms) PROVE SdkInv'
  BY <1>10 DEF Replace, SdkInv, SdkTypeOK, TokensAsked, TurnsTold, Open, FailedLeavesNothing
<1> QED BY <1>1, <1>2, <1>3, <1>4, <1>5, <1>6, <1>7, <1>8, <1>9, <1>10 DEF SdNext, Clear, ResumeSnapshot

LEMMA SdkInvSound == SdkInv => HostTurnsEnd
<1> SUFFICES ASSUME SdkInv PROVE HostTurnsEnd OBVIOUS
<1> USE SdkAssumption
<1>0. SdkTypeOK /\ TokensAsked /\ TurnsTold /\ FailedLeavesNothing BY DEF SdkInv
<1>1. AbortHitsItsTurn BY <1>0 DEF TokensAsked, AbortHitsItsTurn, NewToken
<1>2. ASSUME NEW t \in 1..sdTurn
      PROVE  /\ \A i, j \in Closing(t) : i = j
             /\ t < sdTurn \/ sdAt = "idle" => Closing(t) # {} \/ t \in sdDropped
             /\ t \in sdStopped => \A i \in Closing(t) : sdEvents[t][i] \in {"aborted", "failed"}
  <2>1. t \in Turns /\ ~(t > sdTurn) BY <1>0 DEF SdkTypeOK, Turns
  <2>2. CASE (t = sdTurn /\ Open) \/ t \in sdDropped
    <3>1. Len(sdEvents[t]) = 1 /\ sdEvents[t][1] = "started" /\ DOMAIN sdEvents[t] = 1..1
      BY <1>0, <2>1, <2>2 DEF TurnsTold, Story, SdkTypeOK
    <3>2. Closing(t) = {} BY <3>1 DEF Closing
    <3>3. t < sdTurn \/ sdAt = "idle" => t \in sdDropped BY <1>0, <2>2 DEF Open, SdkTypeOK
    <3> QED BY <3>2, <3>3
  <2>3. CASE ~((t = sdTurn /\ Open) \/ t \in sdDropped)
    <3>1. /\ Len(sdEvents[t]) = 2 /\ sdEvents[t][1] = "started" /\ sdEvents[t][2] # "started"
          /\ DOMAIN sdEvents[t] = 1..2 /\ sdEvents[t][2] \in Events
      BY <1>0, <2>1, <2>3 DEF TurnsTold, Story, SdkTypeOK
    <3>2. Closing(t) = {2} BY <3>1 DEF Closing
    <3>3. t \in sdStopped => sdEvents[t][2] # "completed" BY <1>0, <3>1 DEF TurnsTold
    <3> QED BY <3>1, <3>2, <3>3 DEF Events
  <2> QED BY <2>2, <2>3
<1>3. AbortIsTold BY <1>0, <1>2 DEF AbortIsTold, SdkTypeOK
<1> QED BY <1>0, <1>1, <1>2, <1>3 DEF HostTurnsEnd, OneEnd

\* A host can rely on the turns it starts and aborts (sdk.rs, docs/SDK.md): an abort
\* ends the turn it found and no later one, a turn that failed or was dropped leaves
\* nothing in the conversation, and every turn that is not dropped has one end, which
\* is not that of a completed one if its token was cancelled while it ran; for any
\* number of turns and of handles.
THEOREM HostTurnsAlwaysEnd == SdSpec => []HostTurnsEnd
BY SdkInitially, SdkStep, SdkInvSound, PTL DEF SdSpec

-----------------------------------------------------------------------------
(* What is staged for a turn, and Jev. *)

JtModes == {"off", "shadow", "active"}
Prompts == [images : SUBSET Nat, contexts : SUBSET Nat]
SentRecords == [turn : Prompts, by : {"jev", "model", "nobody"}, mode : JtModes, late : BOOLEAN]

JtTypeOK ==
    /\ jtMode \in JtModes /\ jtReply \in Replies \cup {"none"} /\ jtCtrlC \in BOOLEAN
    /\ jtAt \in {"idle", "hooked", "drained", "asked", "pushed"}
    /\ jtImages \subseteq Nat /\ jtContexts \subseteq Nat /\ jtMade \in Nat
    /\ jtTurn \in Prompts /\ jtSent \in Seq(SentRecords) /\ jtLost \subseteq Nat /\ jtCleared \subseteq Nat

\* Before the drain there is no turn at work, and what the router is asked about has no image.
TurnInOrder ==
    /\ jtAt \in {"idle", "hooked"} => jtTurn = NoPrompt
    /\ jtReply = "sure" => jtAt \in {"asked", "pushed"} /\ jtTurn.images = {}

JevInv == JtTypeOK /\ TurnInOrder /\ jtImages \cap jtContexts = {} /\ StagedOnce /\ JevMayAnswer

LEMMA JevInitially == JtInit => JevInv
<1> SUFFICES ASSUME JtInit PROVE JevInv OBVIOUS
<1>1. JtTypeOK
  <2>1. jtTurn \in Prompts BY DEF JtInit, NoPrompt, Prompts
  <2>2. jtSent \in Seq(SentRecords) BY DEF JtInit
  <2> QED BY <2>1, <2>2 DEF JtInit, JtTypeOK, JtModes
<1>2. TurnInOrder BY DEF JtInit, TurnInOrder
<1>3. StagedOnce
  <2>1. Places = 1..4 BY DEF JtInit, Places
  <2>2. \A i \in 1..4 : Place(i) = {} BY DEF JtInit, Place, NoPrompt, InTurn
  <2>3. 1..jtMade = {} BY DEF JtInit
  <2> QED BY <2>1, <2>2, <2>3 DEF StagedOnce
<1>4. JevMayAnswer BY DEF JtInit, JevMayAnswer, SentTurns
<1> QED BY <1>1, <1>2, <1>3, <1>4 DEF JtInit, JevInv

\* A step that moves nothing.
LEMMA NothingMoves ==
    ASSUME StagedOnce, UNCHANGED <<jtQuiet, jtTurn>>
    PROVE  StagedOnce'
<1>1. jtMade' = jtMade /\ jtSent' = jtSent /\ Places' = Places BY DEF jtQuiet, Places
<1>2. \A i \in Places : Place(i)' = Place(i) BY DEF jtQuiet, Place
<1> QED BY <1>1, <1>2 DEF StagedOnce

\* A step that answers no turn.
LEMMA NothingAnswered == JevMayAnswer /\ UNCHANGED jtSent => JevMayAnswer'
BY DEF JevMayAnswer, SentTurns

\* One more thing is staged.
LEMMA OneStaged ==
    ASSUME JtTypeOK, StagedOnce, jtMade' = jtMade + 1,
           jtImages' \cup jtContexts' = (jtImages \cup jtContexts) \cup {jtMade'},
           UNCHANGED <<jtTurn, jtSent, jtLost, jtCleared>>
    PROVE  StagedOnce'
<1>1. jtMade \in Nat /\ Len(jtSent) \in Nat BY DEF JtTypeOK
<1>2. Place(1)' = Place(1) \cup {jtMade'} BY DEF Place
<1>3. \A i \in Places : i # 1 => Place(i)' = Place(i) BY DEF Place
<1>4. Places' = Places /\ 1 \in Places BY <1>1 DEF Places
<1>5. 1..jtMade' = (1..jtMade) \cup {jtMade'} /\ jtMade' \notin 1..jtMade BY <1>1
<1>6. UNION {Place(i) : i \in Places} = 1..jtMade /\ \A i, j \in Places : i # j => Place(i) \cap Place(j) = {}
  BY DEF StagedOnce
<1>7. (UNION {Place(i) : i \in Places})' = 1..jtMade'
  <2>1. ASSUME NEW x \in 1..jtMade' PROVE \E i \in Places : x \in Place(i)'
    <3>1. CASE x = jtMade' BY <3>1, <1>2, <1>4
    <3>2. CASE x # jtMade'
      <4>1. PICK i \in Places : x \in Place(i) BY <1>5, <1>6, <3>2
      <4> QED BY <4>1, <1>2, <1>3
    <3> QED BY <3>1, <3>2
  <2>2. ASSUME NEW i \in Places, NEW x \in Place(i)' PROVE x \in 1..jtMade'
    <3>1. x \in Place(i) \/ x = jtMade' BY <1>2, <1>3
    <3>2. Place(i) \subseteq 1..jtMade BY <1>6
    <3> QED BY <1>5, <3>1, <3>2
  <2> QED BY <1>4, <2>1, <2>2
<1>8. ASSUME NEW i \in Places, NEW j \in Places, i # j PROVE Place(i)' \cap Place(j)' = {}
  <2>1. jtMade' \notin Place(i) /\ jtMade' \notin Place(j) BY <1>5, <1>6
  <2>2. Place(i) \cap Place(j) = {} BY <1>6, <1>8
  <2>3. CASE i = 1 BY <2>1, <2>2, <2>3, <1>2, <1>3, <1>8
  <2>4. CASE j = 1 BY <2>1, <2>2, <2>4, <1>2, <1>3, <1>8
  <2>5. CASE i # 1 /\ j # 1 BY <2>2, <2>5, <1>3
  <2> QED BY <2>3, <2>4, <2>5
<1> QED BY <1>4, <1>7, <1>8 DEF StagedOnce

\* A part of what one place holds goes to another place, or to a new one, that holds the
\* rest of nothing.
LEMMA OneMoves ==
    ASSUME StagedOnce, NEW from \in Places, NEW to \in Places', from # to, NEW moved, moved \subseteq Place(from),
           Places \subseteq Places', Places' \subseteq Places \cup {to}, jtMade' = jtMade,
           Place(from)' = Place(from) \ moved,
           Place(to)' = (IF to \in Places THEN Place(to) ELSE {}) \cup moved,
           \A i \in Places \ {from, to} : Place(i)' = Place(i)
    PROVE  StagedOnce'
<1>1. UNION {Place(i) : i \in Places} = 1..jtMade /\ \A i, j \in Places : i # j => Place(i) \cap Place(j) = {}
  BY DEF StagedOnce
<1>2. (UNION {Place(i) : i \in Places})' = 1..jtMade'
  <2>1. ASSUME NEW x \in 1..jtMade PROVE \E i \in Places' : x \in Place(i)'
    <3>1. PICK i \in Places : x \in Place(i) BY <1>1
    <3>2. CASE x \in moved BY <3>2
    <3>3. CASE x \notin moved
      <4>1. CASE i = from BY <3>1, <3>3, <4>1
      <4>2. CASE i = to BY <3>1, <4>2
      <4>3. CASE i \notin {from, to} BY <3>1, <4>3
      <4> QED BY <4>1, <4>2, <4>3
    <3> QED BY <3>2, <3>3
  <2>2. ASSUME NEW i \in Places', NEW x \in Place(i)' PROVE x \in 1..jtMade
    <3>1. \E j \in Places : x \in Place(j)
      <4>1. CASE i = from BY <2>2, <4>1
      <4>2. CASE i = to BY <2>2, <4>2
      <4>3. CASE i \notin {from, to} BY <2>2, <4>3
      <4> QED BY <4>1, <4>2, <4>3
    <3> QED BY <1>1, <3>1
  <2> QED BY <2>1, <2>2
<1>3. ASSUME NEW i \in Places', NEW j \in Places', i # j, NEW x, x \in Place(i)', x \in Place(j)' PROVE FALSE
  <2> DEFINE Was(k) == IF k = to /\ x \in moved THEN from ELSE k
  <2>1. ASSUME NEW k \in Places', x \in Place(k)' PROVE Was(k) \in Places /\ x \in Place(Was(k)) /\ (k = from => x \notin moved)
    <3>1. CASE k = from BY <2>1, <3>1
    <3>2. CASE k = to BY <2>1, <3>2
    <3>3. CASE k \notin {from, to} BY <2>1, <3>3
    <3> QED BY <3>1, <3>2, <3>3
  <2>2. Was(i) \in Places /\ Was(j) \in Places /\ x \in Place(Was(i)) /\ x \in Place(Was(j)) BY <2>1, <1>3
  <2>3. Was(i) = Was(j) BY <2>2, <1>1
  <2>4. from \in Places /\ x \in moved => x \in Place(from) OBVIOUS
  <2>5. CASE x \in moved
    <3>1. ASSUME NEW k \in Places', x \in Place(k)' PROVE k = to
      <4>1. CASE k = from BY <2>1, <2>5, <3>1, <4>1
      <4>2. CASE k \notin {from, to}
        <5>1. k \in Places /\ x \in Place(k) BY <3>1, <4>2
        <5> QED BY <1>1, <2>4, <2>5, <4>2, <5>1
      <4> QED BY <4>1, <4>2
    <3> QED BY <3>1, <1>3
  <2>6. CASE x \notin moved BY <2>3, <2>6, <1>3
  <2> QED BY <2>5, <2>6
<1> QED BY <1>2, <1>3 DEF StagedOnce

LEMMA JevStep == JevInv /\ [JtNext]_jtVars => JevInv'
<1> SUFFICES ASSUME JevInv, [JtNext]_jtVars PROVE JevInv' OBVIOUS
<1>0. JtTypeOK /\ TurnInOrder /\ jtImages \cap jtContexts = {} /\ StagedOnce /\ JevMayAnswer BY DEF JevInv
<1>a. jtMade \in Nat /\ Len(jtSent) \in Nat BY <1>0 DEF JtTypeOK
<1>b. 1 \in Places /\ 2 \in Places /\ 3 \in Places /\ 4 \in Places BY <1>a DEF Places
\* A step that leaves what is staged, sent and lost, and the turn at work, alone.
<1>q. ASSUME UNCHANGED <<jtQuiet, jtTurn>>, jtMode' \in JtModes, jtReply' \in Replies \cup {"none"},
             jtCtrlC' \in BOOLEAN, jtAt' \in {"idle", "hooked", "drained", "asked", "pushed"}, TurnInOrder'
      PROVE  JevInv'
  <2>1. JtTypeOK' BY <1>0, <1>q DEF JtTypeOK, jtQuiet
  <2>2. StagedOnce' BY <1>0, <1>q, NothingMoves
  <2>3. JevMayAnswer' BY <1>0, <1>q, NothingAnswered DEF jtQuiet
  <2> QED BY <1>0, <1>q, <2>1, <2>2, <2>3 DEF JevInv, jtQuiet
<1>1. CASE StageImage
  <2>1. /\ jtAt = "idle" /\ jtMade' = jtMade + 1 /\ jtImages' = jtImages \cup {jtMade'}
        /\ UNCHANGED <<jtMode, jtContexts, jtAt, jtTurn, jtReply, jtSent, jtCtrlC, jtLost, jtCleared>>
    BY <1>1 DEF StageImage
  <2>2. StagedOnce' BY <1>0, <2>1, OneStaged
  <2>3. jtMade' \notin jtContexts
    <3>1. Place(1) \subseteq 1..jtMade BY <1>0, <1>b DEF StagedOnce
    <3> QED BY <1>a, <2>1, <3>1 DEF Place
  <2>4. JtTypeOK' BY <1>0, <1>a, <2>1 DEF JtTypeOK
  <2>5. TurnInOrder' BY <1>0, <2>1 DEF TurnInOrder
  <2>6. JevMayAnswer' BY <1>0, <2>1, NothingAnswered
  <2> QED BY <1>0, <2>1, <2>2, <2>3, <2>4, <2>5, <2>6 DEF JevInv
<1>2. CASE HookLeavesContext
  <2>1. /\ jtAt = "idle" /\ jtMade' = jtMade + 1 /\ jtContexts' = jtContexts \cup {jtMade'}
        /\ UNCHANGED <<jtMode, jtImages, jtAt, jtTurn, jtReply, jtSent, jtCtrlC, jtLost, jtCleared>>
    BY <1>2 DEF HookLeavesContext
  <2>2. StagedOnce'
    <3>1. jtImages' \cup jtContexts' = (jtImages \cup jtContexts) \cup {jtMade'} BY <2>1
    <3> QED BY <1>0, <2>1, <3>1, OneStaged
  <2>3. jtMade' \notin jtImages
    <3>1. Place(1) \subseteq 1..jtMade BY <1>0, <1>b DEF StagedOnce
    <3> QED BY <1>a, <2>1, <3>1 DEF Place
  <2>4. JtTypeOK' BY <1>0, <1>a, <2>1 DEF JtTypeOK
  <2>5. TurnInOrder' BY <1>0, <2>1 DEF TurnInOrder
  <2>6. JevMayAnswer' BY <1>0, <2>1, NothingAnswered
  <2> QED BY <1>0, <2>1, <2>2, <2>3, <2>4, <2>5, <2>6 DEF JevInv
<1>3. CASE ClearImages
  <2>1. /\ jtImages' = {} /\ jtCleared' = jtCleared \cup jtImages
        /\ UNCHANGED <<jtMode, jtContexts, jtMade, jtAt, jtTurn, jtReply, jtSent, jtCtrlC, jtLost>>
    BY <1>3 DEF ClearImages
  <2>2. StagedOnce'
    <3>1. Places' = Places BY <2>1 DEF Places
    <3>2. Place(1)' = Place(1) \ jtImages /\ jtImages \subseteq Place(1) BY <1>0, <2>1 DEF Place
    <3>3. Place(4)' = Place(4) \cup jtImages BY <2>1 DEF Place
    <3>4. \A i \in Places \ {1, 4} : Place(i)' = Place(i) BY <2>1 DEF Place
    <3> HIDE DEF Place
    <3> QED BY <1>0, <1>b, <2>1, <3>1, <3>2, <3>3, <3>4, OneMoves
  <2>3. JtTypeOK' BY <1>0, <2>1 DEF JtTypeOK
  <2>4. TurnInOrder' BY <1>0, <2>1 DEF TurnInOrder
  <2>5. JevMayAnswer' BY <1>0, <2>1, NothingAnswered
  <2> QED BY <2>1, <2>2, <2>3, <2>4, <2>5 DEF JevInv
<1>4. CASE Drain
  <2>1. /\ jtAt = "hooked" /\ jtAt' = "drained" /\ jtTurn' = [images |-> jtImages, contexts |-> jtContexts]
        /\ jtImages' = {} /\ jtContexts' = {}
        /\ UNCHANGED <<jtMode, jtMade, jtReply, jtSent, jtCtrlC, jtLost, jtCleared>>
    BY <1>4 DEF Drain
  <2>2. StagedOnce'
    <3>1. Places' = Places BY <2>1 DEF Places
    <3>2. Place(1)' = Place(1) \ Place(1) BY <2>1 DEF Place
    <3>3. Place(2) = {}
      <4>1. jtTurn = NoPrompt BY <1>0, <2>1 DEF TurnInOrder
      <4> QED BY <4>1 DEF Place, NoPrompt, InTurn
    <3>4. Place(2)' = Place(2) \cup Place(1)
      <4>1. Place(2)' = jtImages \cup jtContexts BY <2>1 DEF Place, InTurn
      <4> QED BY <3>3, <4>1 DEF Place
    <3>5. \A i \in Places \ {1, 2} : Place(i)' = Place(i) BY <2>1 DEF Place
    <3> HIDE DEF Place
    <3> QED BY <1>0, <1>b, <2>1, <3>1, <3>2, <3>4, <3>5, OneMoves
  <2>3. JtTypeOK'
    <3>1. jtTurn' \in Prompts BY <1>0, <2>1 DEF JtTypeOK, Prompts
    <3> QED BY <1>0, <2>1, <3>1 DEF JtTypeOK
  <2>4. TurnInOrder' BY <1>0, <2>1 DEF TurnInOrder
  <2>5. JevMayAnswer' BY <1>0, <2>1, NothingAnswered
  <2> QED BY <2>1, <2>2, <2>3, <2>4, <2>5 DEF JevInv
<1>5. CASE CancelledInRouting
  <2>1. /\ jtAt = "drained" /\ jtAt' = "idle"
        /\ jtLost' = jtLost \cup jtTurn.images \cup jtTurn.contexts /\ jtTurn' = NoPrompt
        /\ UNCHANGED <<jtMode, jtImages, jtContexts, jtMade, jtReply, jtSent, jtCtrlC, jtCleared>>
    BY <1>5 DEF CancelledInRouting
  <2>2. StagedOnce'
    <3>1. Places' = Places BY <2>1 DEF Places
    <3>2. Place(2)' = {}
      <4>1. Place(2)' = InTurn(NoPrompt) BY <2>1 DEF Place
      <4> QED BY <4>1 DEF InTurn, NoPrompt
    <3>3. Place(3)' = Place(3) \cup Place(2) BY <2>1 DEF Place, InTurn
    <3>4. \A i \in Places \ {2, 3} : Place(i)' = Place(i) BY <2>1 DEF Place
    <3> HIDE DEF Place
    <3>5. Place(2)' = Place(2) \ Place(2) BY <3>2
    <3> QED BY <1>0, <1>b, <2>1, <3>1, <3>3, <3>4, <3>5, OneMoves
  <2>3. JtTypeOK'
    <3>1. NoPrompt \in Prompts BY DEF NoPrompt, Prompts
    <3>2. jtTurn.images \subseteq Nat /\ jtTurn.contexts \subseteq Nat BY <1>0 DEF JtTypeOK, Prompts
    <3> QED BY <1>0, <2>1, <3>1, <3>2 DEF JtTypeOK
  <2>4. TurnInOrder' BY <1>0, <2>1 DEF TurnInOrder
  <2>5. JevMayAnswer' BY <1>0, <2>1, NothingAnswered
  <2> QED BY <1>0, <2>1, <2>2, <2>3, <2>4, <2>5 DEF JevInv
<1>6. CASE PushUser
  <2>1. TurnInOrder' BY <1>0, <1>6 DEF TurnInOrder, PushUser
  <2> QED BY <1>0, <1>6, <1>q, <2>1 DEF PushUser, JtTypeOK
<1>7. CASE CtrlC
  <2>1. TurnInOrder' BY <1>0, <1>7 DEF TurnInOrder, CtrlC
  <2> QED BY <1>0, <1>7, <1>q, <2>1 DEF CtrlC, JtTypeOK
<1>8. CASE Answered
  <2>1. PICK by \in IF Direct THEN {"jev"} ELSE IF jtCtrlC THEN {"nobody"} ELSE {"model", "nobody"} :
          jtSent' = Append(jtSent, [turn |-> jtTurn, by |-> by, mode |-> jtMode, late |-> jtCtrlC])
    BY <1>8 DEF Answered
  <2>2. /\ jtAt' = "idle" /\ jtTurn' = NoPrompt /\ jtReply' = "none"
        /\ UNCHANGED <<jtMode, jtImages, jtContexts, jtMade, jtCtrlC, jtLost, jtCleared>>
    BY <1>8 DEF Answered
  <2> DEFINE one == [turn |-> jtTurn, by |-> by, mode |-> jtMode, late |-> jtCtrlC]
  <2>0. PICK n \in Nat : n = Len(jtSent) BY <1>a
  <2>3. by \in {"jev", "model", "nobody"} /\ (by = "jev" => Direct) BY <2>1
  <2>4. one \in SentRecords BY <1>0, <2>3 DEF SentRecords, JtTypeOK
  <2>5. one.turn = jtTurn /\ one.by = by /\ one.mode = jtMode /\ (one.late <=> jtCtrlC) OBVIOUS
  <2>6. jtSent' = Append(jtSent, one) BY <2>1
  <2> HIDE DEF one
  <2>7. /\ jtSent' \in Seq(SentRecords) /\ Len(jtSent') = n + 1 /\ jtSent'[n + 1] = one
        /\ \A i \in 1..n : jtSent'[i] = jtSent[i]
    <3>1. jtSent \in Seq(SentRecords) BY <1>0 DEF JtTypeOK
    <3> QED BY <2>0, <2>4, <2>6, <3>1, AppendProperties
  <2>8. StagedOnce'
    <3>1. Places' = Places \cup {5 + n} /\ 5 + n \notin Places BY <1>a, <2>0, <2>7 DEF Places
    <3>2. Place(2)' = {}
      <4>1. Place(2)' = InTurn(NoPrompt) BY <2>2 DEF Place
      <4> QED BY <4>1 DEF InTurn, NoPrompt
    <3>3. Place(5 + n)' = Place(2)
      <4>1. Place(5 + n)' = InTurn(jtSent'[n + 1].turn)
        <5>1. (5 + n) - 4 = n + 1 /\ 5 + n # 1 /\ 5 + n # 2 /\ 5 + n # 3 /\ 5 + n # 4 BY <2>0
        <5> QED BY <5>1 DEF Place, InTurn
      <4>2. Place(2) = InTurn(jtTurn) BY DEF Place
      <4> QED BY <2>5, <2>7, <4>1, <4>2
    <3>4. ASSUME NEW i \in Places \ {2} PROVE Place(i)' = Place(i)
      <4>1. CASE i \in {1, 3, 4} BY <2>2, <4>1 DEF Place
      <4>2. CASE i \notin {1, 3, 4}
        <5>1. i - 4 \in 1..n BY <2>0, <4>2 DEF Places
        <5> QED BY <2>7, <4>2, <5>1 DEF Place, InTurn
      <4> QED BY <4>1, <4>2
    <3>5. Place(2)' = Place(2) \ Place(2) BY <3>2
    <3> HIDE DEF Place
    <3>6. 2 # 5 + n BY <2>0
    <3> QED BY <1>0, <1>b, <2>2, <3>1, <3>3, <3>4, <3>5, <3>6, OneMoves
  <2>9. JtTypeOK'
    <3>1. NoPrompt \in Prompts BY DEF NoPrompt, Prompts
    <3> QED BY <1>0, <2>2, <2>7, <3>1 DEF JtTypeOK
  <2>10. TurnInOrder' BY <2>2 DEF TurnInOrder
  <2>11. JevMayAnswer'
    <3>1. one.by = "jev" => one.mode = "active" /\ one.turn.images = {} /\ ~one.late
      BY <1>0, <2>3, <2>5 DEF Direct, TurnInOrder
    <3>2. \A i \in DOMAIN jtSent' : (i \in DOMAIN jtSent /\ jtSent'[i] = jtSent[i]) \/ jtSent'[i] = one
      <4>1. DOMAIN jtSent' = 1..(n + 1) /\ DOMAIN jtSent = 1..n BY <1>0, <2>0, <2>7 DEF JtTypeOK
      <4>2. \A i \in 1..(n + 1) : i \in 1..n \/ i = n + 1 BY <2>0
      <4> QED BY <2>7, <4>1, <4>2
    <3> QED BY <1>0, <3>1, <3>2 DEF JevMayAnswer, SentTurns
  <2> QED BY <1>0, <2>2, <2>8, <2>9, <2>10, <2>11 DEF JevInv
<1>9. ASSUME NEW mode \in {"off", "shadow", "active"}, SetMode(mode) PROVE JevInv'
  <2>1. TurnInOrder' BY <1>0, <1>9 DEF TurnInOrder, SetMode
  <2> QED BY <1>0, <1>9, <1>q, <2>1 DEF SetMode, JtTypeOK, JtModes
<1>10. ASSUME NEW passes \in BOOLEAN, PromptHooks(passes) PROVE JevInv'
  <2>1. TurnInOrder' BY <1>0, <1>10 DEF TurnInOrder, PromptHooks
  <2> QED BY <1>0, <1>10, <1>q, <2>1 DEF PromptHooks, JtTypeOK
<1>11. ASSUME NEW reply \in Replies, Routed(reply) PROVE JevInv'
  <2>1. TurnInOrder' BY <1>0, <1>11 DEF TurnInOrder, Routed, Eligible
  <2> QED BY <1>0, <1>11, <1>q, <2>1 DEF Routed, JtTypeOK
<1>12. CASE UNCHANGED jtVars
  <2>1. TurnInOrder' BY <1>0, <1>12 DEF TurnInOrder, jtVars
  <2> QED BY <1>0, <1>12, <1>q, <2>1 DEF jtVars, jtQuiet, JtTypeOK
<1> QED BY <1>1, <1>2, <1>3, <1>4, <1>5, <1>6, <1>7, <1>8, <1>9, <1>10, <1>11, <1>12 DEF JtNext

\* Nothing that was staged for a turn is lost or sent twice, whatever hooks block, routers
\* answer and users clear or cancel; and the router answers only what it may: the drain of
\* run_user_turn and the route of jev.rs, for any number of turns and of things staged.
THEOREM StagingAlwaysHolds == JtSpec => []StagingHolds
<1>1. JevInv => StagingHolds BY DEF JevInv, StagingHolds
<1> QED BY <1>1, JevInitially, JevStep, PTL DEF JtSpec

-----------------------------------------------------------------------------
(* The configuration. *)

Whats == {"theme", "backend", "model"}

CfTypeOK ==
    /\ cfFile \in CfSettings \cup {Unset, Broken}
    /\ cfEnv \in [mode : CfModes \cup {Unset}, policy : CfPolicies \cup {Unset}]
    /\ cfLive \in [CfProcs -> CfSettings \cup {Unset}]
    /\ cfHeld \in [CfProcs -> {<<>>} \cup (CfSettings \X Whats)]

\* A model goes with the provider that it is of.
Agrees(c) == c.model # Unset => c.model[1] = c.backend

AllAgree ==
    /\ cfFile \in CfSettings => Agrees(cfFile)
    /\ \A p \in CfProcs : /\ cfLive[p] # Unset => Agrees(cfLive[p]) /\ cfLive[p].backend # Unset
                          /\ cfHeld[p] # <<>> => Agrees(cfHeld[p][1])

\* What is about to be saved for the next launch names a provider.
SavesProvider ==
    \A p \in CfProcs : cfHeld[p] # <<>> /\ cfHeld[p][2] # "theme" => cfHeld[p][1].backend # Unset

\* What was saved last is in the file, and a save of another key has that file in its hands.
PinIsInFile ==
    cfPin # Unset =>
       /\ cfFile \in CfSettings /\ cfFile.backend # Unset /\ Pinned(cfFile) = cfPin
       /\ \A p \in CfProcs : cfHeld[p] # <<>> /\ cfHeld[p][2] = "theme" => cfHeld[p][1] = cfFile

CfInv == CfTypeOK /\ AllAgree /\ SavesProvider /\ PinIsInFile

LEMMA ModeKeeps ==
    ASSUME NEW c \in CfSettings, NEW mode \in CfModes \cup {"edit", Unset}
    PROVE  /\ ApplyIfSet(c, mode) \in CfSettings /\ ApplyIfSet(c, mode).backend = c.backend
           /\ ApplyIfSet(c, mode).model = c.model /\ (mode = Unset => ApplyIfSet(c, mode) = c)
           /\ mode # Unset => ApplyIfSet(c, mode) = ApplyMode(c, mode)
BY DEF ApplyIfSet, ApplyMode, CfSettings

LEMMA LayerOfFile ==
    ASSUME NEW c \in CfSettings, NEW f \in CfSettings, c.backend # Unset, Agrees(f)
    PROVE  /\ FromFile(c, f) \in CfSettings /\ FromFile(c, f).backend # Unset /\ Agrees(FromFile(c, f))
           /\ f.backend # Unset => FromFile(c, f).backend = f.backend
           /\ FromFile(c, f).model = f.model /\ (f.policy # Unset => FromFile(c, f).policy = f.policy)
<1>1. f.mode \in CfModes \cup {"edit", Unset} BY DEF CfSettings
<1> DEFINE g == ApplyIfSet(c, f.mode)
<1>2. g \in CfSettings /\ g.backend = c.backend BY <1>1, ModeKeeps
<1>3. FromFile(c, f) = [g EXCEPT !.policy = Or(f.policy, @), !.backend = Or(f.backend, @), !.model = f.model]
  BY DEF FromFile, Named
<1> HIDE DEF g
<1>4. /\ FromFile(c, f).policy = Or(f.policy, g.policy) /\ FromFile(c, f).backend = Or(f.backend, g.backend)
      /\ FromFile(c, f).model = f.model /\ FromFile(c, f) \in CfSettings
  BY <1>2, <1>3 DEF CfSettings, Or
<1>5. f.model # Unset => f.model[1] \in CfBackends /\ f.model[1] = f.backend
  BY DEF CfSettings, CfModels, Agrees
<1> QED BY <1>2, <1>4, <1>5, ConfigAssumption DEF Or, Agrees

LEMMA BuiltInIsSound == BuiltIn \in CfSettings /\ BuiltIn.backend # Unset /\ Agrees(BuiltIn)
<1>1. PICK b \in CfBackends : TRUE BY ConfigAssumption
<1>2. (CHOOSE k \in CfBackends : TRUE) \in CfBackends BY <1>1
<1> QED BY <1>2, ConfigAssumption DEF BuiltIn, CfSettings, Agrees

\* What a launch makes of the layers.
LEMMA Launches ==
    ASSUME CfInv, NEW c, c = FromEnv(Layer(BuiltIn), cfEnv)
    PROVE  /\ c \in CfSettings /\ Agrees(c) /\ c.backend # Unset
           /\ cfPin # Unset => Pinned(c) = cfPin
           /\ cfEnv = [mode |-> Unset, policy |-> Unset] /\ cfFile \notin {Unset, Broken} /\ cfFile.policy # Unset
              => c.policy = cfFile.policy
<1> DEFINE l == Layer(BuiltIn)
<1>0. CfTypeOK /\ AllAgree /\ PinIsInFile BY DEF CfInv
<1>1. cfFile \notin {Unset, Broken} => cfFile \in CfSettings /\ Agrees(cfFile)
  BY <1>0 DEF CfTypeOK, AllAgree
<1>2. /\ l \in CfSettings /\ Agrees(l) /\ l.backend # Unset
      /\ cfPin # Unset => Pinned(l) = cfPin
      /\ cfFile \notin {Unset, Broken} /\ cfFile.policy # Unset => l.policy = cfFile.policy
  <2>1. CASE cfFile \in {Unset, Broken}
    <3>1. l = BuiltIn BY <2>1 DEF Layer
    <3>2. cfPin = Unset BY <1>0, <2>1, ConfigAssumption DEF PinIsInFile
    <3> QED BY <2>1, <3>1, <3>2, BuiltInIsSound
  <2>2. CASE cfFile \notin {Unset, Broken}
    <3>1. l = FromFile(BuiltIn, cfFile) BY <2>2 DEF Layer
    <3> HIDE DEF l
    <3>2. /\ l \in CfSettings /\ Agrees(l) /\ l.backend # Unset /\ l.model = cfFile.model
          /\ cfFile.backend # Unset => l.backend = cfFile.backend
          /\ cfFile.policy # Unset => l.policy = cfFile.policy
      BY <1>1, <2>2, <3>1, LayerOfFile, BuiltInIsSound
    <3>3. cfPin # Unset => Pinned(l) = cfPin BY <1>0, <3>2 DEF PinIsInFile, Pinned
    <3> QED BY <3>2, <3>3
  <2> QED BY <2>1, <2>2
<1> HIDE DEF l
<1> DEFINE n == [l EXCEPT !.policy = Or(cfEnv.policy, @)]
<1>3. cfEnv.mode \in CfModes \cup {"edit", Unset} /\ cfEnv.policy \in CfPolicies \cup {Unset}
  BY <1>0 DEF CfTypeOK
<1>4. /\ n \in CfSettings /\ n.backend = l.backend /\ n.model = l.model
      /\ cfEnv.policy = Unset => n.policy = l.policy
  BY <1>2, <1>3 DEF CfSettings, Or
<1>5. c = ApplyIfSet(n, cfEnv.mode) BY DEF FromEnv, l
<1> HIDE DEF n
<1>6. c \in CfSettings /\ c.backend = l.backend /\ c.model = l.model /\ (cfEnv.mode = Unset => c = n)
  BY <1>3, <1>4, <1>5, ModeKeeps
<1>7. cfEnv = [mode |-> Unset, policy |-> Unset] => cfEnv.mode = Unset /\ cfEnv.policy = Unset OBVIOUS
<1> QED BY <1>2, <1>4, <1>6, <1>7 DEF Agrees, Pinned

LEMMA ConfigInitially == CfInit => CfInv
<1> SUFFICES ASSUME CfInit PROVE CfInv OBVIOUS
<1>1. PICK m \in CfModes \cup {Unset}, a \in CfPolicies \cup {Unset} :
         cfFile \in {Unset, [EmptyFile EXCEPT !.mode = m, !.policy = a]}
  BY DEF CfInit
<1>2. [EmptyFile EXCEPT !.mode = m, !.policy = a] \in CfSettings
      /\ [EmptyFile EXCEPT !.mode = m, !.policy = a].model = Unset
  BY DEF EmptyFile, CfSettings
<1>3. CfTypeOK BY <1>1, <1>2 DEF CfInit, CfTypeOK
<1>4. cfFile \in CfSettings => Agrees(cfFile) BY <1>1, <1>2, ConfigAssumption DEF Agrees
<1>5. AllAgree BY <1>4 DEF CfInit, AllAgree
<1>6. SavesProvider /\ PinIsInFile BY DEF CfInit, SavesProvider, PinIsInFile
<1> QED BY <1>3, <1>5, <1>6 DEF CfInv

\* A command sets the settings of its process, and nothing else.
LEMMA SettlesKeeps ==
    ASSUME CfInv, NEW p \in CfProcs, NEW c \in CfSettings, Agrees(c), c.backend # Unset,
           cfLive' = [cfLive EXCEPT ![p] = c], UNCHANGED <<cfFile, cfEnv, cfHeld, cfPin>>
    PROVE  CfInv'
<1>0. CfTypeOK /\ AllAgree /\ SavesProvider /\ PinIsInFile BY DEF CfInv
<1>1. CfTypeOK' BY <1>0 DEF CfTypeOK
<1>2. AllAgree'
  <2>1. ASSUME NEW q \in CfProcs PROVE cfLive'[q] # Unset => Agrees(cfLive'[q]) /\ cfLive'[q].backend # Unset
    <3>1. CASE q = p
      <4>1. cfLive'[q] = c BY <1>0, <3>1 DEF CfTypeOK
      <4> QED BY <4>1
    <3>2. CASE q # p
      <4>1. cfLive'[q] = cfLive[q] BY <1>0, <3>2 DEF CfTypeOK
      <4> QED BY <1>0, <4>1 DEF AllAgree
    <3> QED BY <3>1, <3>2
  <2> QED BY <1>0, <2>1 DEF AllAgree
<1>3. SavesProvider' /\ PinIsInFile' BY <1>0 DEF SavesProvider, PinIsInFile
<1> QED BY <1>1, <1>2, <1>3 DEF CfInv

\* What a command may find of its process and in the file.
LEMMA OfProcess ==
    ASSUME CfInv, NEW p \in CfProcs, cfLive[p] # Unset
    PROVE  cfLive[p] \in CfSettings /\ Agrees(cfLive[p]) /\ cfLive[p].backend # Unset
           /\ cfLive[p].backend \in CfBackends
BY DEF CfInv, CfTypeOK, AllAgree, CfSettings

LEMMA SwitchSound ==
    ASSUME NEW c \in CfSettings, NEW b \in CfBackends
    PROVE  /\ SwitchBackend(c, b) \in CfSettings /\ Agrees(SwitchBackend(c, b))
           /\ SwitchBackend(c, b).backend # Unset
<1>1. SwitchBackend(c, b) = [c EXCEPT !.backend = b, !.model = Unset] BY DEF SwitchBackend
<1> QED BY <1>1, ConfigAssumption DEF CfSettings, Agrees

LEMMA SaveSound ==
    ASSUME NEW f \in CfSettings, Agrees(f), NEW c \in CfSettings, Agrees(c), c.backend \in CfBackends,
           NEW what \in Whats
    PROVE  /\ Merge(f, c, what) \in CfSettings /\ Agrees(Merge(f, c, what))
           /\ what # "theme" => Merge(f, c, what).backend # Unset
           /\ what = "theme" => Merge(f, c, what) = f
<1>1. CASE what = "theme" BY <1>1 DEF Merge
<1>2. CASE what = "backend"
  <2>1. Merge(f, c, what) = [f EXCEPT !.backend = c.backend, !.model = Unset] BY <1>2 DEF Merge
  <2> QED BY <1>2, <2>1, ConfigAssumption DEF CfSettings, Agrees
<1>3. CASE what = "model"
  <2> DEFINE m == Or(c.model, <<c.backend, 1>>)
  <2>1. Merge(f, c, what) = [f EXCEPT !.backend = c.backend, !.model = m] BY <1>3 DEF Merge
  <2>2. m \in CfModels /\ m[1] = c.backend
    <3>1. CASE c.model = Unset
      <4>1. m = <<c.backend, 1>> BY <3>1 DEF Or
      <4> QED BY <4>1 DEF CfModels
    <3>2. CASE c.model # Unset
      <4>1. m = c.model BY <3>2 DEF Or
      <4> QED BY <3>2, <4>1 DEF Agrees, CfSettings
    <3> QED BY <3>1, <3>2
  <2> HIDE DEF m
  <2> QED BY <1>3, <2>1, <2>2, ConfigAssumption DEF CfSettings, Agrees
<1> QED BY <1>1, <1>2, <1>3 DEF Whats

LEMMA ConfigStep == CfInv /\ [CfNext]_cfVars => CfInv'
<1> SUFFICES ASSUME CfInv, [CfNext]_cfVars PROVE CfInv' OBVIOUS
<1>0. CfTypeOK /\ AllAgree /\ SavesProvider /\ PinIsInFile BY DEF CfInv
<1>1. ASSUME NEW p \in CfProcs, StartProcess(p) PROVE CfInv'
  <2>1. PICK c : c = FromEnv(Layer(BuiltIn), cfEnv) OBVIOUS
  <2>2. c \in CfSettings /\ Agrees(c) /\ c.backend # Unset BY <2>1, Launches
  <2>3. cfLive' = [cfLive EXCEPT ![p] = c] /\ UNCHANGED <<cfFile, cfEnv, cfHeld, cfPin>>
    BY <1>1, <2>1 DEF StartProcess
  <2> QED BY <2>2, <2>3, SettlesKeeps
<1>2. ASSUME NEW p \in CfProcs, EndProcess(p) PROVE CfInv'
  <2>1. /\ cfLive' = [cfLive EXCEPT ![p] = Unset] /\ cfHeld' = [cfHeld EXCEPT ![p] = <<>>]
        /\ UNCHANGED <<cfFile, cfEnv, cfPin>>
    BY <1>2 DEF EndProcess
  <2>2. CfTypeOK' BY <1>0, <2>1 DEF CfTypeOK
  <2>3. /\ \A q \in CfProcs : cfLive'[q] = Unset \/ cfLive'[q] = cfLive[q]
        /\ \A q \in CfProcs : cfHeld'[q] = <<>> \/ cfHeld'[q] = cfHeld[q]
    BY <1>0, <2>1 DEF CfTypeOK
  <2>4. AllAgree' BY <1>0, <2>1, <2>3 DEF AllAgree
  <2>5. SavesProvider' BY <1>0, <2>3 DEF SavesProvider
  <2>6. PinIsInFile' BY <1>0, <2>1, <2>3 DEF PinIsInFile
  <2> QED BY <2>2, <2>4, <2>5, <2>6 DEF CfInv
<1>3. ASSUME NEW p \in CfProcs, NEW mode \in CfModes, ModeCommand(p, mode) PROVE CfInv'
  <2>1. /\ cfLive[p] # Unset /\ cfLive' = [cfLive EXCEPT ![p] = ApplyMode(cfLive[p], mode)]
        /\ UNCHANGED <<cfFile, cfEnv, cfHeld, cfPin>>
    BY <1>3 DEF ModeCommand, Awaits, Settles
  <2>2. PICK c : c = ApplyMode(cfLive[p], mode) OBVIOUS
  <2>3. c \in CfSettings /\ c.backend = cfLive[p].backend /\ c.model = cfLive[p].model
    <3>1. cfLive[p] \in CfSettings BY <2>1, OfProcess
    <3> QED BY <2>2, <3>1 DEF ApplyMode, CfSettings
  <2>4. Agrees(c) /\ c.backend # Unset BY <2>1, <2>3, OfProcess DEF Agrees
  <2> QED BY <2>1, <2>2, <2>3, <2>4, SettlesKeeps
<1>4. ASSUME NEW p \in CfProcs, NEW b \in CfBackends, BackendCommand(p, b) PROVE CfInv'
  <2>1. /\ cfLive[p] # Unset /\ cfLive' = [cfLive EXCEPT ![p] = SwitchBackend(cfLive[p], b)]
        /\ UNCHANGED <<cfFile, cfEnv, cfHeld, cfPin>>
    BY <1>4 DEF BackendCommand, Awaits, Settles
  <2>2. PICK c : c = SwitchBackend(cfLive[p], b) OBVIOUS
  <2>3. c \in CfSettings /\ Agrees(c) /\ c.backend # Unset BY <2>1, <2>2, OfProcess, SwitchSound
  <2> QED BY <2>1, <2>2, <2>3, SettlesKeeps
<1>5. ASSUME NEW p \in CfProcs, NEW m \in CfModels, ModelCommand(p, m) PROVE CfInv'
  <2>1. /\ cfLive[p] # Unset /\ m[1] = cfLive[p].backend
        /\ cfLive' = [cfLive EXCEPT ![p] = [cfLive[p] EXCEPT !.model = m]]
        /\ UNCHANGED <<cfFile, cfEnv, cfHeld, cfPin>>
    BY <1>5 DEF ModelCommand, Awaits, Settles
  <2>2. PICK c : c = [cfLive[p] EXCEPT !.model = m] OBVIOUS
  <2>3. c \in CfSettings /\ c.backend = cfLive[p].backend /\ c.model = m
    <3>1. cfLive[p] \in CfSettings BY <2>1, OfProcess
    <3> QED BY <2>2, <3>1 DEF CfSettings
  <2>4. Agrees(c) /\ c.backend # Unset BY <2>1, <2>3, OfProcess DEF Agrees
  <2> QED BY <2>1, <2>2, <2>3, <2>4, SettlesKeeps
<1>6. ASSUME NEW p \in CfProcs, NEW what \in Whats, PersistLoads(p, what) PROVE CfInv'
  <2>1. PICK f : f = IF cfFile = Unset THEN EmptyFile ELSE cfFile OBVIOUS
  <2>2. /\ cfLive[p] # Unset /\ cfHeld[p] = <<>> /\ cfFile # Broken
        /\ cfHeld' = [cfHeld EXCEPT ![p] = <<Merge(f, cfLive[p], what), what>>]
        /\ UNCHANGED <<cfFile, cfEnv, cfLive, cfPin>>
    BY <1>6, <2>1 DEF PersistLoads, Awaits
  <2>3. f \in CfSettings /\ Agrees(f)
    <3>1. CASE cfFile = Unset
      <4>1. EmptyFile \in CfSettings /\ Agrees(EmptyFile) BY DEF EmptyFile, CfSettings, Agrees
      <4> QED BY <2>1, <3>1, <4>1
    <3>2. CASE cfFile # Unset BY <1>0, <2>1, <2>2, <3>2 DEF CfTypeOK, AllAgree
    <3> QED BY <3>1, <3>2
  <2>4. PICK g : g = Merge(f, cfLive[p], what) OBVIOUS
  <2>5. /\ g \in CfSettings /\ Agrees(g) /\ (what # "theme" => g.backend # Unset)
        /\ what = "theme" => g = f
    <3>1. cfLive[p] \in CfSettings /\ Agrees(cfLive[p]) /\ cfLive[p].backend \in CfBackends
      BY <2>2, OfProcess
    <3> QED BY <2>3, <2>4, <3>1, SaveSound
  <2>6. cfHeld'[p] = <<g, what>> /\ \A q \in CfProcs : q # p => cfHeld'[q] = cfHeld[q]
    BY <1>0, <2>2, <2>4 DEF CfTypeOK
  <2>7. cfHeld'[p][1] = g /\ cfHeld'[p][2] = what BY <2>6
  <2>8. CfTypeOK' BY <1>0, <2>2, <2>4, <2>5 DEF CfTypeOK
  <2>9. AllAgree'
    <3>1. ASSUME NEW q \in CfProcs, cfHeld'[q] # <<>> PROVE Agrees(cfHeld'[q][1])
      <4>1. CASE q = p BY <2>5, <2>7, <4>1
      <4>2. CASE q # p BY <1>0, <2>6, <3>1, <4>2 DEF AllAgree
      <4> QED BY <4>1, <4>2
    <3> QED BY <1>0, <2>2, <3>1 DEF AllAgree
  <2>10. SavesProvider'
    <3>1. ASSUME NEW q \in CfProcs, cfHeld'[q] # <<>>, cfHeld'[q][2] # "theme" PROVE cfHeld'[q][1].backend # Unset
      <4>1. CASE q = p BY <2>5, <2>7, <3>1, <4>1
      <4>2. CASE q # p BY <1>0, <2>6, <3>1, <4>2 DEF SavesProvider
      <4> QED BY <4>1, <4>2
    <3> QED BY <3>1 DEF SavesProvider
  <2>11. PinIsInFile'
    <3>1. ASSUME cfPin # Unset, NEW q \in CfProcs, cfHeld'[q] # <<>>, cfHeld'[q][2] = "theme"
          PROVE  cfHeld'[q][1] = cfFile
      <4>1. CASE q = p
        <5>1. cfFile # Unset BY <1>0, <3>1, ConfigAssumption DEF PinIsInFile
        <5> QED BY <2>1, <2>5, <2>7, <3>1, <4>1, <5>1
      <4>2. CASE q # p BY <1>0, <2>6, <3>1, <4>2 DEF PinIsInFile
      <4> QED BY <4>1, <4>2
    <3> QED BY <1>0, <2>2, <3>1 DEF PinIsInFile
  <2> QED BY <2>8, <2>9, <2>10, <2>11 DEF CfInv
<1>7. ASSUME NEW p \in CfProcs, PersistWrites(p) PROVE CfInv'
  <2>1. PICK f, what : f = cfHeld[p][1] /\ what = cfHeld[p][2] OBVIOUS
  <2>2. /\ cfHeld[p] # <<>> /\ cfFile' = f
        /\ cfPin' = (IF Overlapped(p) THEN Unset ELSE IF what = "theme" THEN cfPin ELSE Pinned(f))
        /\ cfHeld' = [cfHeld EXCEPT ![p] = <<>>] /\ UNCHANGED <<cfEnv, cfLive>>
    BY <1>7, <2>1 DEF PersistWrites
  <2>3. f \in CfSettings /\ Agrees(f) /\ (what # "theme" => f.backend # Unset)
    BY <1>0, <2>1, <2>2 DEF CfTypeOK, AllAgree, SavesProvider
  <2>4. \A q \in CfProcs : cfHeld'[q] = <<>> \/ (q # p /\ cfHeld'[q] = cfHeld[q])
    BY <1>0, <2>2 DEF CfTypeOK
  <2>5. CfTypeOK' BY <1>0, <2>2, <2>3 DEF CfTypeOK
  <2>6. AllAgree' BY <1>0, <2>2, <2>3, <2>4 DEF AllAgree
  <2>7. SavesProvider' BY <1>0, <2>4 DEF SavesProvider
  <2>8. PinIsInFile'
    <3>1. CASE Overlapped(p) BY <2>2, <3>1 DEF PinIsInFile
    <3>2. CASE ~Overlapped(p)
      <4>1. \A q \in CfProcs : cfHeld'[q] = <<>> BY <2>4, <3>2 DEF Overlapped
      <4>2. cfPin' # Unset => Pinned(f) = cfPin' /\ f.backend # Unset
        <5>1. CASE what = "theme"
          <6>1. cfPin' = cfPin BY <2>2, <3>2, <5>1
          <6>2. cfPin # Unset => f = cfFile /\ Pinned(cfFile) = cfPin /\ cfFile.backend # Unset
            BY <1>0, <2>1, <2>2, <5>1 DEF PinIsInFile
          <6> QED BY <6>1, <6>2
        <5>2. CASE what # "theme" BY <2>2, <2>3, <3>2, <5>2
        <5> QED BY <5>1, <5>2
      <4> QED BY <2>2, <2>3, <4>1, <4>2 DEF PinIsInFile, Pinned
    <3> QED BY <3>1, <3>2
  <2> QED BY <2>5, <2>6, <2>7, <2>8 DEF CfInv
<1>8. ASSUME NEW p \in CfProcs, PersistIsKilled(p) PROVE CfInv'
  <2>1. /\ cfFile' = Broken /\ cfPin' = Unset /\ cfHeld' = [cfHeld EXCEPT ![p] = <<>>]
        /\ cfLive' = [cfLive EXCEPT ![p] = Unset] /\ UNCHANGED cfEnv
    BY <1>8 DEF PersistIsKilled
  <2>2. CfTypeOK' BY <1>0, <2>1 DEF CfTypeOK
  <2>3. /\ \A q \in CfProcs : cfLive'[q] = Unset \/ cfLive'[q] = cfLive[q]
        /\ \A q \in CfProcs : cfHeld'[q] = <<>> \/ cfHeld'[q] = cfHeld[q]
    BY <1>0, <2>1 DEF CfTypeOK
  <2>4. AllAgree' BY <1>0, <2>1, <2>3, ConfigAssumption DEF AllAgree
  <2>5. SavesProvider' BY <1>0, <2>3 DEF SavesProvider
  <2>6. PinIsInFile' BY <2>1 DEF PinIsInFile
  <2> QED BY <2>2, <2>4, <2>5, <2>6 DEF CfInv
<1>9. ASSUME NEW p \in CfProcs, NEW b \in CfBackends, NEW policy \in CfPolicies, Setup(p, b, policy) PROVE CfInv'
  <2>1. PICK c : c = [SwitchBackend(cfLive[p], b) EXCEPT !.policy = policy] OBVIOUS
  <2>2. /\ cfLive[p] # Unset /\ cfHeld[p] = <<>>
        /\ cfFile' = [mode |-> c.mode, policy |-> c.policy, backend |-> c.backend, model |-> c.model]
        /\ cfLive' = [cfLive EXCEPT ![p] = c]
        /\ cfPin' = (IF Overlapped(p) THEN Unset ELSE Pinned(cfFile'))
        /\ UNCHANGED <<cfEnv, cfHeld>>
    BY <1>9, <2>1 DEF Setup, Awaits
  <2>3. c \in CfSettings /\ Agrees(c) /\ c.backend # Unset
    <3>1. PICK s : s = SwitchBackend(cfLive[p], b) OBVIOUS
    <3>2. s \in CfSettings /\ Agrees(s) /\ s.backend # Unset BY <2>2, <3>1, OfProcess, SwitchSound
    <3>3. c = [s EXCEPT !.policy = policy] BY <2>1, <3>1
    <3> QED BY <3>2, <3>3 DEF CfSettings, Agrees
  <2>4. cfFile' \in CfSettings /\ Agrees(cfFile') /\ cfFile'.backend # Unset
    BY <2>2, <2>3 DEF CfSettings, Agrees
  <2>5. CfTypeOK' BY <1>0, <2>2, <2>3, <2>4 DEF CfTypeOK
  <2>6. AllAgree'
    <3>1. ASSUME NEW q \in CfProcs PROVE cfLive'[q] # Unset => Agrees(cfLive'[q]) /\ cfLive'[q].backend # Unset
      <4>1. cfLive'[q] = c \/ cfLive'[q] = cfLive[q] BY <1>0, <2>2 DEF CfTypeOK
      <4> QED BY <1>0, <2>3, <4>1 DEF AllAgree
    <3> QED BY <1>0, <2>2, <2>4, <3>1 DEF AllAgree
  <2>7. SavesProvider' BY <1>0, <2>2 DEF SavesProvider
  <2>8. PinIsInFile'
    <3>1. CASE Overlapped(p) BY <2>2, <3>1 DEF PinIsInFile
    <3>2. CASE ~Overlapped(p)
      <4>1. \A q \in CfProcs : cfHeld'[q] = <<>> BY <2>2, <3>2 DEF Overlapped
      <4>2. cfPin' = Pinned(cfFile') BY <2>2, <3>2
      <4> HIDE DEF Pinned
      <4> QED BY <2>4, <4>1, <4>2 DEF PinIsInFile, Pinned
    <3> QED BY <3>1, <3>2
  <2> QED BY <2>5, <2>6, <2>7, <2>8 DEF CfInv
<1>10. CASE UserEdits
  <2>1. cfFile' \in {Unset, Broken, EmptyFile} /\ cfPin' = Unset /\ UNCHANGED <<cfEnv, cfLive, cfHeld>>
    BY <1>10 DEF UserEdits
  <2>2. EmptyFile \in CfSettings /\ Agrees(EmptyFile) BY DEF EmptyFile, CfSettings, Agrees
  <2>3. CfTypeOK' BY <1>0, <2>1, <2>2 DEF CfTypeOK
  <2>4. AllAgree' BY <1>0, <2>1, <2>2, ConfigAssumption DEF AllAgree
  <2>5. SavesProvider' /\ PinIsInFile' BY <1>0, <2>1 DEF SavesProvider, PinIsInFile
  <2> QED BY <2>3, <2>4, <2>5 DEF CfInv
<1>11. CASE UNCHANGED cfVars
  BY <1>0, <1>11 DEF cfVars, CfInv, CfTypeOK, AllAgree, SavesProvider, PinIsInFile
<1> QED BY <1>1, <1>2, <1>3, <1>4, <1>5, <1>6, <1>7, <1>8, <1>9, <1>10, <1>11
        DEF CfNext, LaunchesAndModes, LaunchesAndSaves, Whats

\* Only StartProcess brings a process to life.
LEMMA OnlyLaunches ==
    ASSUME CfInv, [CfNext]_cfVars, NEW p \in CfProcs, Launched(p)
    PROVE  StartProcess(p)
<1>0. cfLive \in [CfProcs -> CfSettings \cup {Unset}] BY DEF CfInv, CfTypeOK
<1>1. cfLive[p] = Unset /\ cfLive'[p] # Unset BY DEF Launched
<1>2. ASSUME NEW q \in CfProcs, StartProcess(q) PROVE StartProcess(p)
  <2>1. CASE q = p BY <1>2, <2>1
  <2>2. CASE q # p
    <3>1. cfLive'[p] = cfLive[p] BY <1>0, <1>2, <2>2 DEF StartProcess
    <3> QED BY <1>1, <3>1
  <2> QED BY <2>1, <2>2
<1>3. ASSUME NEW q \in CfProcs, EndProcess(q) PROVE FALSE BY <1>0, <1>1, <1>3 DEF EndProcess
<1>4. ASSUME NEW q \in CfProcs, NEW c, cfLive[q] # Unset, cfLive' = [cfLive EXCEPT ![q] = c] PROVE FALSE
  <2>1. q # p BY <1>1, <1>4
  <2> QED BY <1>0, <1>1, <1>4, <2>1
<1>5. ASSUME NEW q \in CfProcs, NEW mode \in CfModes, ModeCommand(q, mode) PROVE FALSE
  BY <1>4, <1>5 DEF ModeCommand, Settles, Awaits
<1>6. ASSUME NEW q \in CfProcs, NEW b \in CfBackends, BackendCommand(q, b) PROVE FALSE
  BY <1>4, <1>6 DEF BackendCommand, Settles, Awaits
<1>7. ASSUME NEW q \in CfProcs, NEW m \in CfModels, ModelCommand(q, m) PROVE FALSE
  BY <1>4, <1>7 DEF ModelCommand, Settles, Awaits
<1>8. ASSUME NEW q \in CfProcs, NEW b \in CfBackends, NEW policy \in CfPolicies, Setup(q, b, policy) PROVE FALSE
  BY <1>4, <1>8 DEF Setup, Awaits
<1>9. ASSUME NEW q \in CfProcs, NEW what \in Whats, PersistLoads(q, what) PROVE FALSE
  BY <1>1, <1>9 DEF PersistLoads
<1>10. ASSUME NEW q \in CfProcs, PersistWrites(q) PROVE FALSE BY <1>1, <1>10 DEF PersistWrites
<1>11. ASSUME NEW q \in CfProcs, PersistIsKilled(q) PROVE FALSE BY <1>0, <1>1, <1>11 DEF PersistIsKilled
<1>12. CASE UserEdits BY <1>1, <1>12 DEF UserEdits
<1>13. CASE UNCHANGED cfVars BY <1>1, <1>13 DEF cfVars
<1> QED BY <1>2, <1>3, <1>5, <1>6, <1>7, <1>8, <1>9, <1>10, <1>11, <1>12, <1>13
        DEF CfNext, LaunchesAndModes, LaunchesAndSaves, Whats

LEMMA LaunchSound ==
    ASSUME CfInv, [CfNext]_cfVars, NEW p \in CfProcs, Launched(p)
    PROVE  /\ cfPin # Unset => Pinned(cfLive'[p]) = cfPin
           /\ cfEnv = [mode |-> Unset, policy |-> Unset] /\ cfFile \notin {Unset, Broken} /\ cfFile.policy # Unset
              => cfLive'[p].policy = cfFile.policy
<1>1. PICK c : c = FromEnv(Layer(BuiltIn), cfEnv) OBVIOUS
<1>2. cfLive' = [cfLive EXCEPT ![p] = c] BY <1>1, OnlyLaunches DEF StartProcess
<1>3. cfLive'[p] = c BY <1>2 DEF CfInv, CfTypeOK
<1> HIDE DEF Pinned
<1> QED BY <1>1, <1>3, Launches

\* Whatever commands, setups, launches, edits and overlapping saves of any number of processes
\* come in whatever order, a model is used only with its provider, the next launch uses what
\* was pinned, and a policy that the file names outlives the mode (load_config and the persist
\* functions of config.rs).
THEOREM LayersAlwaysHold == CfSpec => LayersHold
<1>1. CfInv => ModelOfBackend
  <2> SUFFICES ASSUME CfInv PROVE ModelOfBackend OBVIOUS
  <2>2. CfTypeOK /\ AllAgree BY DEF CfInv
  <2> QED BY <2>2 DEF CfTypeOK, AllAgree, Agrees, ModelOfBackend
<1>2. CfInv /\ [CfNext]_cfVars =>
        [\A p \in CfProcs : Launched(p) /\ cfPin # Unset => Pinned(cfLive'[p]) = cfPin]_cfVars
  BY LaunchSound
<1>3. CfInv /\ [CfNext]_cfVars =>
        [\A p \in CfProcs :
            /\ Launched(p) /\ cfEnv = [mode |-> Unset, policy |-> Unset]
            /\ cfFile \notin {Unset, Broken} /\ cfFile.policy # Unset
            => cfLive'[p].policy = cfFile.policy]_cfVars
  BY LaunchSound
<1> QED BY <1>1, <1>2, <1>3, ConfigInitially, ConfigStep, PTL DEF CfSpec, LayersHold, PinHolds, PolicyOfFile

-----------------------------------------------------------------------------
(* Conversation: what is said, and where it is kept. *)

\* The last message of a user in ms is that of the turn's prompt.
PromptAt(ms, k) ==
    /\ k \in 0..Len(ms)
    /\ k # 0 => ms[k].role = "user" /\ ms[k].id.word = prompt.word
    /\ \A j \in (k + 1)..Len(ms) : ms[j].role # "user"

\* What the agent's messages have beyond those the turn began with.
Gained == {work[i].id.word : i \in (Len(messages) + 1)..Len(work)}

\* What the conversation says is in the transcript of the session or in the
\* summary the turn began with, which holds whatever the files account for.
SummaryInv ==
    phase # "down" =>
      LET held == IF phase = "turn" THEN guard ELSE summary IN
      /\ told[current] \subseteq Words(messages) \cup held
      /\ Summary(files[current].system) \subseteq Summary(system)
      /\ Summary(system) \subseteq held

\* A turn starts from a transcript that ends with its prompt.
PrepareInv ==
    /\ phase # "turn" => ~rewritten
    /\ phase = "prepare" =>
          /\ prompt.word = words /\ messages # << >>
          /\ messages[Len(messages)].role = "user"
          /\ messages[Len(messages)].id.word = words

\* A turn forgets nothing; until it rewrites the transcript, what it gained is
\* behind the messages of the session, and so it knows where its prompt is.
TurnInv ==
    phase = "turn" =>
      /\ Said \subseteq Words(work) \cup shown
      /\ guard \subseteq shown /\ guard \subseteq summary
      /\ compactions = 0 => shown = guard /\ ~rewritten
      /\ ~rewritten => /\ Len(messages) <= Len(work)
                       /\ (prompt.word + 1)..words \subseteq Gained
      /\ "map" \in Contexts =>
            \E k \in 0..Len(work) : PromptAt(work, k) /\ (~rewritten => k <= Len(messages))

CvInv == CvTypeOK /\ Recoverable /\ SummaryInv /\ PrepareInv /\ TurnInv

\* So nothing is lost between what is kept and what is folded away.
LEMMA KeptAndOlder ==
  ASSUME NEW ms \in Texts
  PROVE  LET kept == Kept(ms, KeepMessages) IN
         /\ kept \in Texts /\ Len(kept) <= Len(ms)
         /\ \A i \in 1..Len(kept) : kept[i] = ms[i + Len(ms) - Len(kept)]
         /\ Words(ms) \subseteq Words(kept) \cup Words(Older(ms))
<1>1. PICK c \in 0..Len(ms) : Kept(ms, KeepMessages) = SubSeq(ms, c + 1, Len(ms))
  BY KeptIsEnd DEF Texts
<1> DEFINE kept == Kept(ms, KeepMessages)
<1>2. /\ kept \in Texts /\ Len(kept) = Len(ms) - c
      /\ \A i \in 1..Len(kept) : kept[i] = ms[i + c]
  BY <1>1 DEF Texts
<1>3. Len(ms) \in Nat /\ c \in Nat
  BY DEF Texts
<1>4. Older(ms) = SubSeq(ms, 1, c)
  <2>1. Len(ms) - (Len(ms) - c) = c
    BY <1>3
  <2> QED
    BY <1>2, <2>1 DEF Older
<1>5. Len(Older(ms)) = c /\ \A i \in 1..c : Older(ms)[i] = ms[i]
  BY <1>3, <1>4 DEF Texts
<1> HIDE DEF kept
<1>6. ASSUME NEW i \in 1..Len(ms)
      PROVE  ms[i].id.word \in Words(kept) \cup Words(Older(ms))
  <2>1. CASE i <= c
    <3>1. i \in 1..Len(Older(ms)) /\ Older(ms)[i] = ms[i]
      BY <1>3, <1>5, <2>1
    <3> QED
      BY <3>1 DEF Words
  <2>2. CASE ~(i <= c)
    <3>1. i - c \in 1..Len(kept) /\ (i - c) + c = i
      BY <1>2, <1>3, <2>2
    <3>2. kept[i - c] = ms[i]
      BY <1>2, <3>1
    <3> QED
      BY <3>1, <3>2 DEF Words
  <2> QED
    BY <2>1, <2>2
<1>7. Words(ms) \subseteq Words(kept) \cup Words(Older(ms))
  BY <1>6 DEF Words
<1>8. \A i \in 1..Len(kept) : i + Len(ms) - Len(kept) = i + c
  BY <1>2, <1>3
<1> QED
  BY <1>2, <1>3, <1>7, <1>8 DEF kept

LEMMA OlderIsSaid ==
  ASSUME NEW ms \in Texts
  PROVE  Words(Older(ms)) \subseteq Nat
<1> DEFINE older == Older(ms)
<1>1. PICK c \in 0..Len(ms) : Kept(ms, KeepMessages) = SubSeq(ms, c + 1, Len(ms))
  BY KeptIsEnd DEF Texts
<1>2. older = SubSeq(ms, 1, c)
  <2>1. Len(Kept(ms, KeepMessages)) = Len(ms) - c
    BY <1>1 DEF Texts
  <2>2. Len(ms) - (Len(ms) - c) = c
    BY DEF Texts
  <2> QED
    BY <2>1, <2>2 DEF Older
<1>3. older \in Seq(Message)
  BY <1>2 DEF Texts
<1>4. \A i \in 1..Len(older) : older[i].id.word \in Nat
  <2> HIDE DEF older
  <2>1. \A i \in 1..Len(older) : older[i] \in Message
    BY <1>3
  <2>2. \A m \in Message : m.id.word \in Nat
    BY DEF Message
  <2> QED
    BY <2>1, <2>2
<1> QED
  BY <1>4 DEF Words

\* A transcript with more messages has their words too.
LEMMA WordsOfBoth ==
  ASSUME NEW ms \in Seq(Message), NEW ns \in Seq(Message)
  PROVE  ms \o ns \in Seq(Message) /\ Words(ms \o ns) = Words(ms) \cup Words(ns)
<1>1. /\ ms \o ns \in Seq(Message) /\ Len(ms \o ns) = Len(ms) + Len(ns)
      /\ Len(ms) \in Nat /\ Len(ns) \in Nat
      /\ \A i \in 1..(Len(ms) + Len(ns)) :
            (ms \o ns)[i] = IF i <= Len(ms) THEN ms[i] ELSE ns[i - Len(ms)]
  OBVIOUS
<1>2. ASSUME NEW i \in 1..Len(ms) PROVE ms[i].id.word \in Words(ms \o ns)
  <2>1. i \in 1..Len(ms \o ns) /\ (ms \o ns)[i] = ms[i]
    BY <1>1
  <2> QED
    BY <2>1 DEF Words
<1>3. ASSUME NEW i \in 1..Len(ns) PROVE ns[i].id.word \in Words(ms \o ns)
  <2>1. i + Len(ms) \in 1..Len(ms \o ns) /\ (ms \o ns)[i + Len(ms)] = ns[i]
    BY <1>1
  <2> QED
    BY <2>1 DEF Words
<1>4. ASSUME NEW i \in 1..Len(ms \o ns) PROVE (ms \o ns)[i].id.word \in Words(ms) \cup Words(ns)
  <2>1. CASE i <= Len(ms)
    BY <1>1, <2>1 DEF Words
  <2>2. CASE ~(i <= Len(ms))
    <3>1. i - Len(ms) \in 1..Len(ns) /\ (ms \o ns)[i] = ns[i - Len(ms)]
      BY <1>1, <2>2
    <3> QED
      BY <3>1 DEF Words
  <2> QED
    BY <2>1, <2>2
<1> QED
  BY <1>1, <1>2, <1>3, <1>4 DEF Words

LEMMA SameWords ==
  ASSUME NEW ms, NEW ns, Len(ms) = Len(ns), \A i \in 1..Len(ms) : ms[i].id.word = ns[i].id.word
  PROVE  Words(ms) = Words(ns)
  BY DEF Words

LEMMA FewWords ==
  /\ Words(<< >>) = {} /\ << >> \in Seq(Message)
  /\ \A m \in Message : <<m>> \in Seq(Message) /\ Words(<<m>>) = {m.id.word}
<1>1. ASSUME NEW m \in Message PROVE <<m>> \in Seq(Message) /\ Words(<<m>>) = {m.id.word}
  <2>1. <<m>> \in Seq(Message) /\ Len(<<m>>) = 1 /\ <<m>>[1] = m
    OBVIOUS
  <2> QED
    BY <2>1 DEF Words
<1>2. Words(<< >>) = {}
  <2>1. Len(<< >>) = 0
    OBVIOUS
  <2> QED
    BY <2>1 DEF Words
<1> QED
  BY <1>1, <1>2

LEMMA WhatIsSaid ==
  /\ \A n \in Nat : User(Id("user", n)) \in Message
  /\ \A n \in Nat : User(Id("hook", n)) \in Message
  /\ \A n \in Nat : User(Id("test", n)) \in Message
  /\ \A n \in Nat : Assistant(Id("agent", n), {}) \in Message
  /\ \A n, m \in Nat : Assistant(Id("agent", n), {Id("tool", m)}) \in Message
  /\ \A n \in Nat : ToolResult(Id("tool", n)) \in Message
  BY DEF User, Assistant, ToolResult, Id, Message

-----------------------------------------------------------------------------
(* The repo map in the last message of the user. *)

LEMMA LastUserIs ==
  ASSUME NEW ms \in Seq(Message), NEW k \in 0..Len(ms), k # 0 => ms[k].role = "user",
         \A j \in (k + 1)..Len(ms) : ms[j].role # "user"
  PROVE  LastUser(ms) = k
<1> DEFINE S == {0} \cup {i \in 1..Len(ms) : ms[i].role = "user"}
<1>1. Len(ms) \in Nat
  OBVIOUS
<1>2. k \in S /\ S \subseteq Nat
  BY <1>1
<1>3. \A y \in S : k >= y
  BY <1>1
<1>4. ASSUME NEW x \in S, \A y \in S : x >= y PROVE x = k
  <2> HIDE DEF S
  <2>1. x >= k /\ k >= x /\ x \in Nat /\ k \in Nat
    BY <1>2, <1>3, <1>4
  <2> QED
    BY <2>1
<1>5. Most(S) = k
  <2> HIDE DEF S
  <2> QED
    BY <1>2, <1>3, <1>4 DEF Most
<1> QED
  BY <1>5 DEF LastUser

LEMMA MapFolded ==
  ASSUME NEW ms \in Seq(Message)
  PROVE  /\ FoldMap(ms) \in Seq(Message) /\ Len(FoldMap(ms)) = Len(ms)
         /\ \A i \in 1..Len(ms) : /\ FoldMap(ms)[i].role = ms[i].role
                                  /\ FoldMap(ms)[i].id.word = ms[i].id.word
<1> DEFINE k == LastUser(ms)
           m == [ms[k] EXCEPT !.id.map = TRUE]
           F == FoldMap(ms)
<1>1. F = [ms EXCEPT ![k] = m]
  BY DEF FoldMap
<1>2. k \in 1..Len(ms) => /\ m \in Message /\ m.role = ms[k].role
                          /\ m.id.word = ms[k].id.word
  <2> SUFFICES ASSUME k \in 1..Len(ms)
               PROVE  m \in Message /\ m.role = ms[k].role /\ m.id.word = ms[k].id.word
    OBVIOUS
  <2> HIDE DEF k
  <2>1. ms[k] \in Message
    OBVIOUS
  <2> QED
    BY <2>1 DEF Message
<1> HIDE DEF k, m, F
<1>3. F \in Seq(Message) /\ Len(F) = Len(ms)
      /\ \A i \in 1..Len(ms) : F[i] = IF i = k THEN m ELSE ms[i]
  <2>1. CASE k \in 1..Len(ms)
    BY <1>1, <1>2, <2>1
  <2>2. CASE k \notin 1..Len(ms)
    <3>1. F = ms
      BY <1>1, <2>2
    <3> QED
      BY <2>2, <3>1
  <2> QED
    BY <2>1, <2>2
<1> QED
  BY <1>2, <1>3 DEF F

LEMMA PromptRestored ==
  ASSUME NEW ms \in Seq(Message), NEW id \in [by : {"user"}, word : Nat, map : {FALSE}],
         LastUser(ms) \in 0..Len(ms),
         LastUser(ms) # 0 => ms[LastUser(ms)].id.word = id.word
  PROVE  /\ Restore(ms, id) \in Seq(Message) /\ Len(Restore(ms, id)) = Len(ms)
         /\ \A i \in 1..Len(ms) : Restore(ms, id)[i].id.word = ms[i].id.word
<1> DEFINE k == LastUser(ms)
           R == Restore(ms, id)
<1>1. CASE k = 0
  BY <1>1 DEF Restore
<1>2. CASE k # 0
  <2>1. R = [ms EXCEPT ![k] = [ms[k] EXCEPT !.id = id]] /\ k \in 1..Len(ms)
    BY <1>2 DEF Restore
  <2>2. ms[k] \in Message
    BY <2>1
  <2>3. [ms[k] EXCEPT !.id = id] \in Message /\ [ms[k] EXCEPT !.id = id].id = id
    BY <2>2 DEF Message
  <2> DEFINE m == [ms[k] EXCEPT !.id = id]
  <2> HIDE DEF m, R, k
  <2>4. R \in Seq(Message) /\ Len(R) = Len(ms)
        /\ \A i \in 1..Len(ms) : R[i] = IF i = k THEN m ELSE ms[i]
    BY <2>1, <2>3 DEF m
  <2>5. m.id.word = ms[k].id.word
    BY <1>2, <2>3 DEF m, k
  <2> QED
    BY <2>4, <2>5 DEF R
<1> QED
  BY <1>1, <1>2

-----------------------------------------------------------------------------
(* The session files. *)

LEMMA FileChanged ==
  ASSUME CvTypeOK, Recoverable, NEW F \in SessionFile, NEW T \in Summaries,
         T \subseteq Words(F.body) \cup Summary(F.system),
         files' = [files EXCEPT ![current] = F], told' = [told EXCEPT ![current] = T],
         current' = current
  PROVE  /\ Recoverable' /\ files' \in Seq(SessionFile) /\ told' \in Seq(Summaries)
         /\ Len(told') = Len(files') /\ current' \in 1..Len(files')
         /\ files'[current'] = F /\ told'[current'] = T
<1>1. /\ files \in Seq(SessionFile) /\ told \in Seq(Summaries)
      /\ Len(told) = Len(files) /\ current \in 1..Len(files)
  BY DEF CvTypeOK
<1>2. /\ files' \in Seq(SessionFile) /\ told' \in Seq(Summaries)
      /\ Len(files') = Len(files) /\ Len(told') = Len(files)
      /\ \A i \in 1..Len(files) : /\ files'[i] = IF i = current THEN F ELSE files[i]
                                  /\ told'[i] = IF i = current THEN T ELSE told[i]
  BY <1>1
<1>3. Recoverable'
  BY <1>2 DEF Recoverable
<1> QED
  BY <1>1, <1>2, <1>3

LEMMA FileAdded ==
  ASSUME CvTypeOK, Recoverable, NEW F \in SessionFile, NEW T \in Summaries,
         T \subseteq Words(F.body) \cup Summary(F.system),
         files' = Append(files, F), told' = Append(told, T), current' = Len(files) + 1
  PROVE  /\ Recoverable' /\ files' \in Seq(SessionFile) /\ told' \in Seq(Summaries)
         /\ Len(told') = Len(files') /\ current' \in 1..Len(files')
         /\ files'[current'] = F /\ told'[current'] = T
<1>1. /\ files \in Seq(SessionFile) /\ told \in Seq(Summaries)
      /\ Len(told) = Len(files) /\ Len(files) \in Nat
  BY DEF CvTypeOK
<1>2. /\ files' \in Seq(SessionFile) /\ told' \in Seq(Summaries)
      /\ Len(files') = Len(files) + 1 /\ Len(told') = Len(files) + 1
      /\ \A i \in 1..Len(files) : files'[i] = files[i] /\ told'[i] = told[i]
      /\ files'[Len(files) + 1] = F /\ told'[Len(files) + 1] = T
  BY <1>1
<1>3. Recoverable'
  <2>1. ASSUME NEW i \in 1..(Len(files) + 1)
        PROVE  told'[i] \subseteq Words(files'[i].body) \cup Summary(files'[i].system)
    <3>1. i \in 1..Len(files) \/ i = Len(files) + 1
      BY <1>1
    <3> QED
      BY <1>2, <3>1 DEF Recoverable
  <2> QED
    BY <1>2, <2>1 DEF Recoverable
<1> QED
  BY <1>1, <1>2, <1>3

-----------------------------------------------------------------------------
(* Between turns: a prompt, a stop. *)

LEMMA SummaryOfOne == \A s : Summary({s}) = s
  BY DEF Summary

\* The first system message of a session is saved with what it holds.
LEMMA PreparedFile ==
  ASSUME CvInv, phase = "idle"
  PROVE  LET F == Prepared(files[current]) IN
         /\ F \in SessionFile /\ F.body = files[current].body
         /\ Summary(files[current].system) \subseteq Summary(F.system)
         /\ Summary(F.system) \subseteq summary
<1>1. /\ files[current] \in SessionFile /\ summary \in Summaries
      /\ Summary(files[current].system) \subseteq Summary(system)
      /\ Summary(system) \subseteq summary
  BY DEF CvInv, CvTypeOK, SummaryInv
<1>2. CASE system = {}
  <2>1. Prepared(files[current]) = [files[current] EXCEPT !.system = {summary}]
    BY <1>2 DEF Prepared
  <2>2. Summary(files[current].system) = {}
    BY <1>1, <1>2 DEF Summary
  <2> QED
    BY <1>1, <2>1, <2>2, SummaryOfOne DEF SessionFile
<1>3. CASE system # {}
  BY <1>1, <1>3 DEF Prepared
<1> QED
  BY <1>2, <1>3

LEMMA RoutingCancelledKeeps == CvInv /\ CancelRouting => CvInv'
<1> SUFFICES ASSUME CvInv, CancelRouting PROVE CvInv'
  OBVIOUS
<1> DEFINE F == Prepared(files[current])
<1> USE DEF CvInv, CancelRouting
<1>1. /\ F \in SessionFile /\ F.body = files[current].body
      /\ Summary(files[current].system) \subseteq Summary(F.system)
      /\ Summary(F.system) \subseteq summary
  BY PreparedFile
<1> HIDE DEF F
<1>2. /\ told[current] \in Summaries /\ current \in 1..Len(files)
      /\ told[current] \subseteq Words(F.body) \cup Summary(F.system)
      /\ files' = [files EXCEPT ![current] = F] /\ told' = [told EXCEPT ![current] = told[current]]
  <2>1. /\ told \in Seq(Summaries) /\ current \in 1..Len(told) /\ told' = told
        /\ current \in 1..Len(files)
    BY DEF CvTypeOK
  <2>2. told[current] \in Summaries /\ told' = [told EXCEPT ![current] = told[current]]
    BY <2>1
  <2>3. told[current] \subseteq Words(F.body) \cup Summary(F.system)
    BY <1>1, <2>1 DEF Recoverable
  <2> QED
    BY <2>1, <2>2, <2>3 DEF F
<1>3. /\ Recoverable' /\ files' \in Seq(SessionFile) /\ told' \in Seq(Summaries)
      /\ Len(told') = Len(files') /\ current' \in 1..Len(files')
      /\ files'[current'] = F /\ told'[current'] = told[current]
  BY <1>1, <1>2, FileChanged
<1>4. CvTypeOK'
  BY <1>3 DEF CvTypeOK, turn
<1>5. SummaryInv'
  BY <1>1, <1>3, SummaryOfOne DEF SummaryInv, turn
<1> QED
  BY <1>3, <1>4, <1>5 DEF PrepareInv, TurnInv, turn

LEMMA SubmitKeeps == CvInv /\ Submit => CvInv'
<1> SUFFICES ASSUME CvInv, Submit PROVE CvInv'
  OBVIOUS
<1> DEFINE P    == Prepared(files[current])
           user == User(Id("user", words + 1))
           F    == WithSaved(P, <<user>>)
           T    == told[current] \cup {words + 1}
<1> USE DEF CvInv, Submit
<1>1. /\ P \in SessionFile /\ P.body = files[current].body
      /\ Summary(files[current].system) \subseteq Summary(P.system)
      /\ Summary(P.system) \subseteq summary
  BY PreparedFile
<1>2. /\ words \in Nat /\ words' = words + 1 /\ words' \in Nat
      /\ user \in Message /\ user.id = Id("user", words + 1) /\ user.id.word = words + 1
      /\ user.role = "user"
  BY WhatIsSaid DEF CvTypeOK, User, Id
<1>3. /\ <<user>> \in Seq(Message) /\ Words(<<user>>) = {words + 1}
      /\ Len(<<user>>) = 1 /\ <<user>>[1] = user
  BY <1>2, FewWords
<1>4. messages \in Seq(Message) /\ P.body \in Seq(Message) /\ P.system \in SUBSET Summaries
  BY <1>1 DEF CvTypeOK, Texts, SessionFile
<1>5. /\ F \in SessionFile /\ F.body = P.body \o <<user>> /\ F.system = P.system
      /\ F.body \in Seq(Message) /\ Words(F.body) = Words(P.body) \cup {words + 1}
  <2> HIDE DEF P, user
  <2>1. F = [P EXCEPT !.body = P.body \o <<user>>]
    BY DEF WithSaved
  <2>2. P.body \o <<user>> \in Seq(Message) /\ Words(P.body \o <<user>>) = Words(P.body) \cup {words + 1}
    <3> DEFINE one == <<user>>
    <3>1. one \in Seq(Message) /\ Words(one) = {words + 1}
      BY <1>3
    <3> HIDE DEF one, CvInv, Submit
    <3>2. P.body \o one \in Seq(Message) /\ Words(P.body \o one) = Words(P.body) \cup Words(one)
      BY <1>4, <3>1, WordsOfBoth
    <3> QED
      BY <3>1, <3>2 DEF one
  <2> HIDE DEF F
  <2> QED
    BY <1>1, <2>1, <2>2 DEF SessionFile, Texts
<1>6. /\ messages' = messages \o <<user>> /\ prompt' = Id("user", words + 1)
      /\ files' = [files EXCEPT ![current] = F] /\ told' = [told EXCEPT ![current] = T]
      /\ current' = current
  BY <1>2
<1>7. /\ T \in Summaries /\ T \subseteq Words(F.body) \cup Summary(F.system)
      /\ told[current] \in Summaries
  <2>1. told[current] \in Summaries /\ current \in 1..Len(files)
    BY DEF CvTypeOK
  <2>2. told[current] \subseteq Words(P.body) \cup Summary(P.system)
    BY <1>1, <2>1 DEF Recoverable
  <2>3. T \in Summaries
    BY <1>2, <2>1 DEF Summaries
  <2> HIDE DEF P, F
  <2> QED
    BY <1>2, <1>5, <2>1, <2>2, <2>3
<1> HIDE DEF P, F, T, user
<1>8. /\ Recoverable' /\ files' \in Seq(SessionFile) /\ told' \in Seq(Summaries)
      /\ Len(told') = Len(files') /\ current' \in 1..Len(files')
      /\ files'[current'] = F /\ told'[current'] = T
  BY <1>5, <1>6, <1>7, FileChanged
<1>9. /\ messages' \in Seq(Message) /\ Words(messages') = Words(messages) \cup {words + 1}
      /\ Len(messages') = Len(messages) + 1 /\ messages'[Len(messages) + 1] = user
      /\ Len(messages) \in Nat
  <2>1. messages' \in Seq(Message) /\ Words(messages') = Words(messages) \cup {words + 1}
    <3> DEFINE one == <<user>>
    <3>1. one \in Seq(Message) /\ Words(one) = {words + 1} /\ messages' = messages \o one
      BY <1>3, <1>6
    <3> HIDE DEF one, Submit
    <3> QED
      BY <1>4, <3>1, WordsOfBoth
  <2>2. /\ Len(messages') = Len(messages) + 1 /\ Len(messages) \in Nat
        /\ messages'[Len(messages) + 1] = <<user>>[1]
    BY <1>3, <1>4, <1>6
  <2> QED
    BY <1>3, <2>1, <2>2
<1>10. CvTypeOK'
  <2>1. prompt' \in [by : {"user"}, word : 0..words', map : {FALSE}]
    BY <1>2, <1>6 DEF Id
  <2> QED
    BY <1>2, <1>8, <1>9, <2>1 DEF CvTypeOK, Texts
<1>11. SummaryInv'
  BY <1>1, <1>5, <1>8, <1>9, SummaryOfOne DEF SummaryInv, T
<1>12. PrepareInv'
  <2>1. prompt'.word = words'
    BY <1>2, <1>6 DEF Id
  <2>2. messages' # << >>
    BY <1>9
  <2> QED
    BY <1>2, <1>9, <2>1, <2>2 DEF PrepareInv
<1>13. TurnInv'
  BY DEF TurnInv
<1> QED
  BY <1>8, <1>10, <1>11, <1>12, <1>13

\* A turn that ends without an answer leaves the session as it was.
LEMMA NoTurnKeeps ==
  ASSUME CvInv, NoTurn, UNCHANGED <<session, words>>, phase # "down", phase' \in {"idle", "down"}
  PROVE  CvInv'
<1> USE DEF CvInv, session, NoTurn
<1>1. CvTypeOK'
  <2>1. work' \in Texts /\ {shown', guard'} \subseteq Summaries
    BY DEF Texts, Summaries
  <2>2. prompt' \in [by : {"user"}, word : 0..words', map : {FALSE}]
    BY DEF CvTypeOK, Id
  <2>3. /\ phase' \in {"idle", "prepare", "turn", "down"} /\ rewritten' \in BOOLEAN
        /\ {words', rounds', compactions'} \subseteq Nat
    <3>1. words' = words /\ rounds' = 0 /\ compactions' = 0 /\ words \in Nat /\ rewritten' = FALSE
      BY DEF CvTypeOK
    <3> HIDE DEF CvInv, NoTurn, session
    <3>2. phase' \in {"idle", "prepare", "turn", "down"}
      OBVIOUS
    <3>3. rewritten' \in BOOLEAN
      BY <3>1
    <3>4. {words', rounds', compactions'} \subseteq Nat
      BY <3>1
    <3> QED
      BY <3>2, <3>3, <3>4
  <2>4. /\ messages' \in Texts /\ summary' \in Summaries /\ system' \in SUBSET Summaries
        /\ files' \in Seq(SessionFile) /\ told' \in Seq(Summaries)
        /\ Len(told') = Len(files') /\ current' \in 1..Len(files')
    BY DEF CvTypeOK
  <2> HIDE DEF NoTurn, session, CvInv
  <2> QED
    BY <2>1, <2>2, <2>3, <2>4 DEF CvTypeOK
<1>2. Recoverable'
  BY DEF Recoverable
<1>3. SummaryInv'
  BY DEF SummaryInv, TurnInv
<1> QED
  BY <1>1, <1>2, <1>3 DEF PrepareInv, TurnInv

-----------------------------------------------------------------------------
(* A turn begins. *)

\* The transcript of a turn that starts is the session's, with the repo map in
\* its prompt.
LEMMA AgentStarted ==
  ASSUME NEW ms \in Seq(Message), NEW n \in Nat,
         ms # << >> => ms[Len(ms)].role = "user" /\ ms[Len(ms)].id.word = n
  PROVE  LET ws == IF "map" \in Contexts THEN FoldMap(ms) ELSE ms IN
         /\ ws \in Seq(Message) /\ Len(ws) = Len(ms) /\ Words(ws) = Words(ms)
         /\ Len(ws) # 0 => ws[Len(ws)].role = "user" /\ ws[Len(ws)].id.word = n
<1> DEFINE ws == IF "map" \in Contexts THEN FoldMap(ms) ELSE ms
<1>1. /\ ws \in Seq(Message) /\ Len(ws) = Len(ms)
      /\ \A i \in 1..Len(ms) : ws[i].role = ms[i].role /\ ws[i].id.word = ms[i].id.word
  BY MapFolded
<1> HIDE DEF ws
<1>2. Words(ws) = Words(ms)
  BY <1>1, SameWords
<1>3. Len(ms) # 0 => Len(ms) \in 1..Len(ms) /\ ms # << >>
  OBVIOUS
<1> QED
  BY <1>1, <1>2, <1>3 DEF ws

LEMMA StartAgentKeeps ==
  ASSUME CvInv, phase = "prepare", StartAgent, Recoverable',
         messages' \in Texts, summary' \in Summaries, system' = {summary'},
         messages' # << >> => /\ messages'[Len(messages')].role = "user"
                              /\ messages'[Len(messages')].id.word = words,
         files' \in Seq(SessionFile), told' \in Seq(Summaries),
         Len(told') = Len(files'), current' \in 1..Len(files'),
         Summary(files'[current'].system) \subseteq summary',
         told'[current'] \subseteq Words(messages') \cup summary'
  PROVE  CvInv'
<1> USE DEF CvInv, StartAgent
<1>1. /\ words \in Nat /\ words' = words /\ prompt' = prompt /\ prompt.word = words
      /\ prompt \in [by : {"user"}, word : 0..words, map : {FALSE}]
      /\ rewritten' = FALSE /\ rounds' = rounds /\ compactions' = compactions
      /\ {words, rounds, compactions} \subseteq Nat
  BY DEF CvTypeOK, PrepareInv
<1>2. messages' \in Seq(Message)
  BY DEF Texts
<1>3. /\ work' \in Seq(Message) /\ Len(work') = Len(messages') /\ Words(work') = Words(messages')
      /\ Len(work') # 0 => /\ work'[Len(work')].role = "user"
                           /\ work'[Len(work')].id.word = words
      /\ shown' = summary' /\ guard' = summary' /\ phase' = "turn"
  <2>1. work' = IF "map" \in Contexts THEN FoldMap(messages') ELSE messages'
    OBVIOUS
  <2> QED
    BY <1>1, <1>2, <2>1, AgentStarted
<1> HIDE DEF StartAgent
<1>4. CvTypeOK'
  <2>1. work' \in Texts /\ {summary', shown', guard'} \subseteq Summaries
        /\ system' \in SUBSET Summaries
    BY <1>3 DEF Texts
  <2>2. phase' \in {"idle", "prepare", "turn", "down"} /\ rewritten' \in BOOLEAN
    BY <1>1, <1>3
  <2>3. {words', rounds', compactions'} \subseteq Nat
    BY <1>1
  <2> QED
    BY <1>1, <2>1, <2>2, <2>3 DEF CvTypeOK
<1>5. SummaryInv'
  BY <1>3, SummaryOfOne DEF SummaryInv
<1>6. PrepareInv'
  BY <1>3 DEF PrepareInv
<1>7. TurnInv'
  <2>1. (prompt'.word + 1)..words' = {}
    BY <1>1
  <2>2. Said' \subseteq Words(work') \cup shown'
    BY <1>3, <2>1 DEF Said
  <2>3. PICK k \in Nat : k = Len(work')
    BY <1>3
  <2>4. k \in 0..Len(work') /\ PromptAt(work, k)' /\ k <= Len(messages') /\ Len(messages') <= Len(work')
    <3>1. k \in 0..Len(work') /\ k <= Len(messages') /\ Len(messages') <= Len(work')
      BY <1>2, <1>3, <2>3
    <3>2. \A j \in (k + 1)..Len(work') : work'[j].role # "user"
      BY <2>3
    <3>3. k # 0 => work'[k].role = "user" /\ work'[k].id.word = prompt'.word
      BY <1>1, <1>3, <2>3
    <3> QED
      BY <3>1, <3>2, <3>3 DEF PromptAt
  <2>5. guard' \subseteq shown' /\ guard' \subseteq summary' /\ shown' = guard' /\ ~rewritten'
    BY <1>1, <1>3
  <2>6. \E h \in 0..Len(work') : PromptAt(work, h)' /\ (~rewritten' => h <= Len(messages'))
    BY <2>4
  <2>7. (prompt'.word + 1)..words' \subseteq Gained'
    BY <2>1
  <2> QED
    BY <2>2, <2>4, <2>5, <2>6, <2>7 DEF TurnInv
<1> QED
  BY <1>4, <1>5, <1>6, <1>7

LEMMA StartTurnKeeps == CvInv /\ StartTurn => CvInv'
<1> SUFFICES ASSUME CvInv, StartTurn PROVE CvInv'
  OBVIOUS
<1>1. /\ phase = "prepare" /\ StartAgent /\ messages' = messages /\ summary' = summary
      /\ system' = {summary'} /\ files' = files /\ current' = current /\ told' = told
  BY DEF StartTurn
<1>2. Recoverable'
  BY <1>1 DEF Recoverable, CvInv
<1>3. /\ messages \in Texts /\ summary \in Summaries /\ files \in Seq(SessionFile)
      /\ told \in Seq(Summaries) /\ Len(told) = Len(files) /\ current \in 1..Len(files)
      /\ messages[Len(messages)].role = "user" /\ messages[Len(messages)].id.word = words
      /\ Summary(files[current].system) \subseteq summary
      /\ told[current] \subseteq Words(messages) \cup summary
  BY <1>1 DEF CvInv, CvTypeOK, PrepareInv, SummaryInv
<1> QED
  BY <1>1, <1>2, <1>3, StartAgentKeeps

-----------------------------------------------------------------------------
(* Compaction of the session's own transcript. *)

LEMMA SessionCompacted ==
  ASSUME CvInv, phase \in {"idle", "prepare"}, CompactSession
  PROVE  /\ Recoverable'
         /\ messages' = Kept(messages, KeepMessages) /\ messages' \in Texts
         /\ summary' \in Summaries /\ system' = {summary'}
         /\ files' \in Seq(SessionFile) /\ told' \in Seq(Summaries)
         /\ Len(told') = Len(files') /\ current' \in 1..Len(files')
         /\ Summary(files'[current'].system) \subseteq summary'
         /\ told'[current'] \subseteq Words(messages') \cup summary'
<1> DEFINE F == [system |-> system', body |-> messages']
           T == told[current]
<1>1. messages' = Kept(messages, KeepMessages) /\ system' = {summary'}
      /\ summary' = summary \cup Words(Older(messages))
  BY DEF CompactSession, Folded
<1>2. /\ messages \in Texts /\ summary \in Summaries /\ T \in Summaries
      /\ T \subseteq Words(messages) \cup summary
  BY DEF CvInv, CvTypeOK, SummaryInv
<1>3. /\ messages' \in Texts
      /\ Words(messages) \subseteq Words(messages') \cup Words(Older(messages))
  BY <1>1, <1>2, KeptAndOlder
<1>4. summary' \in Summaries
  BY <1>1, <1>2, OlderIsSaid DEF Summaries
<1>5. /\ F \in SessionFile /\ F.body = messages' /\ F.system = {summary'}
      /\ T \subseteq Words(F.body) \cup Summary(F.system)
  <2>1. F \in SessionFile /\ F.body = messages' /\ F.system = {summary'}
    BY <1>1, <1>3, <1>4 DEF SessionFile
  <2>2. Summary(F.system) = summary'
    BY <2>1, SummaryOfOne
  <2> HIDE DEF F
  <2> QED
    BY <1>1, <1>2, <1>3, <2>1, <2>2
<1>6. files' = Append(files, F) /\ told' = Append(told, T) /\ current' = Len(files) + 1
  BY DEF CompactSession, Rewrite
<1> HIDE DEF F
<1>7. /\ Recoverable' /\ files' \in Seq(SessionFile) /\ told' \in Seq(Summaries)
      /\ Len(told') = Len(files') /\ current' \in 1..Len(files')
      /\ files'[current'] = F /\ told'[current'] = T
  BY <1>2, <1>5, <1>6, FileAdded DEF CvInv
<1> QED
  BY <1>1, <1>2, <1>3, <1>4, <1>5, <1>7, SummaryOfOne

LEMMA CompactAndStartKeeps == CvInv /\ CompactAndStart => CvInv'
<1> SUFFICES ASSUME CvInv, CompactAndStart PROVE CvInv'
  OBVIOUS
<1>1. phase = "prepare" /\ CompactSession /\ StartAgent
  BY DEF CompactAndStart
<1>2. messages' = Kept(messages, KeepMessages) /\ messages \in Texts
      /\ messages[Len(messages)].role = "user" /\ messages[Len(messages)].id.word = words
  BY <1>1 DEF CvInv, CvTypeOK, PrepareInv, CompactSession
<1>3. ASSUME messages' # << >>
      PROVE  /\ messages'[Len(messages')].role = "user"
             /\ messages'[Len(messages')].id.word = words
  <2>1. /\ messages' \in Texts
        /\ \A i \in 1..Len(messages') : messages'[i] = messages[i + Len(messages) - Len(messages')]
    BY <1>2, KeptAndOlder
  <2>2. /\ Len(messages') \in 1..Len(messages')
        /\ Len(messages') + Len(messages) - Len(messages') = Len(messages)
    BY <1>2, <1>3, <2>1 DEF Texts
  <2>3. messages'[Len(messages')] = messages[Len(messages)]
    BY <2>1, <2>2
  <2> QED
    BY <1>2, <2>3
<1> QED
  BY <1>1, <1>3, SessionCompacted, StartAgentKeeps

LEMMA CompactCommandKeeps == CvInv /\ CompactCommand => CvInv'
<1> SUFFICES ASSUME CvInv, CompactCommand PROVE CvInv'
  OBVIOUS
<1>1. phase = "idle" /\ CompactSession /\ UNCHANGED <<phase, turn, words>>
  BY DEF CompactCommand
<1>2. /\ Recoverable'
      /\ messages' \in Texts
      /\ summary' \in Summaries /\ system' = {summary'}
      /\ files' \in Seq(SessionFile) /\ told' \in Seq(Summaries)
      /\ Len(told') = Len(files') /\ current' \in 1..Len(files')
      /\ Summary(files'[current'].system) \subseteq summary'
      /\ told'[current'] \subseteq Words(messages') \cup summary'
  BY <1>1, SessionCompacted
<1>3. CvTypeOK'
  BY <1>1, <1>2 DEF CvInv, CvTypeOK, turn
<1>4. SummaryInv'
  BY <1>1, <1>2, SummaryOfOne DEF SummaryInv
<1> QED
  BY <1>1, <1>2, <1>3, <1>4 DEF CvInv, PrepareInv, TurnInv, turn

-----------------------------------------------------------------------------
(* Inside a turn. *)

\* What the loop appends is behind all there was, and is no prompt.
LEMMA GainedMore ==
  ASSUME NEW ms \in Seq(Message), NEW ns \in Seq(Message), NEW n \in Nat, n <= Len(ms)
  PROVE  {ms[i].id.word : i \in (n + 1)..Len(ms)} \cup Words(ns)
            \subseteq {(ms \o ns)[i].id.word : i \in (n + 1)..Len(ms \o ns)}
<1>1. /\ Len(ms \o ns) = Len(ms) + Len(ns) /\ Len(ms) \in Nat /\ Len(ns) \in Nat
      /\ \A i \in 1..(Len(ms) + Len(ns)) :
            (ms \o ns)[i] = IF i <= Len(ms) THEN ms[i] ELSE ns[i - Len(ms)]
  OBVIOUS
<1> DEFINE both == ms \o ns
           G == {both[i].id.word : i \in (n + 1)..Len(both)}
<1>2. ASSUME NEW i \in (n + 1)..Len(ms) PROVE ms[i].id.word \in G
  <2>1. i \in (n + 1)..Len(both) /\ both[i] = ms[i]
    BY <1>1
  <2> HIDE DEF both
  <2> QED
    BY <2>1
<1>3. ASSUME NEW i \in 1..Len(ns) PROVE ns[i].id.word \in G
  <2>1. i + Len(ms) \in (n + 1)..Len(both) /\ both[i + Len(ms)] = ns[i]
    BY <1>1
  <2> HIDE DEF both
  <2> QED
    BY <2>1
<1> HIDE DEF G
<1>4. {ms[i].id.word : i \in (n + 1)..Len(ms)} \subseteq G
  BY <1>2
<1>5. Words(ns) \subseteq G
  BY <1>3 DEF Words
<1> QED
  BY <1>4, <1>5 DEF G

\* The messages of a round, and the words given out for them.
LEMMA RoundIs ==
  ASSUME words \in Nat, NEW context \in BOOLEAN
  PROVE  LET call == Id("tool", words + 2)
             ms   == <<Assistant(Id("agent", words + 1), {call}), ToolResult(call)>>
                     \o IF context THEN <<User(Id("hook", words + 3))>> ELSE << >>
         IN  /\ ms \in Seq(Message) /\ Len(ms) \in Nat
             /\ (words + 1)..(words + Len(ms)) \subseteq Words(ms)
             /\ ~context => \A i \in 1..Len(ms) : ms[i].role # "user"
<1> DEFINE call == Id("tool", words + 2)
           a  == Assistant(Id("agent", words + 1), {call})
           t  == ToolResult(call)
           h  == User(Id("hook", words + 3))
           ns == <<a, t>> \o IF context THEN <<h>> ELSE << >>
<1> SUFFICES /\ ns \in Seq(Message) /\ Len(ns) \in Nat
             /\ (words + 1)..(words + Len(ns)) \subseteq Words(ns)
             /\ ~context => \A i \in 1..Len(ns) : ns[i].role # "user"
  OBVIOUS
<1>1. /\ a \in Message /\ t \in Message /\ h \in Message
      /\ a.id.word = words + 1 /\ t.id.word = words + 2 /\ h.id.word = words + 3
      /\ a.role # "user" /\ t.role # "user"
  <2>1. a \in Message /\ t \in Message /\ h \in Message
    BY WhatIsSaid
  <2> QED
    BY <2>1 DEF Id, Assistant, ToolResult, User
<1> HIDE DEF a, t, h, call
<1>2. CASE context
  <2>1. ns \in Seq(Message) /\ Len(ns) = 3 /\ ns[1] = a /\ ns[2] = t /\ ns[3] = h
    BY <1>1, <1>2
  <2> HIDE DEF ns
  <2>2. \A n \in (words + 1)..(words + 3) : n = words + 1 \/ n = words + 2 \/ n = words + 3
    OBVIOUS
  <2>3. ns[1].id.word \in Words(ns) /\ ns[2].id.word \in Words(ns) /\ ns[3].id.word \in Words(ns)
    BY <2>1 DEF Words
  <2>4. (words + 1)..(words + Len(ns)) \subseteq Words(ns)
    BY <1>1, <2>1, <2>2, <2>3
  <2> QED
    BY <1>2, <2>1, <2>4
<1>3. CASE ~context
  <2>1. ns \in Seq(Message) /\ Len(ns) = 2 /\ ns[1] = a /\ ns[2] = t
    BY <1>1, <1>3
  <2> HIDE DEF ns
  <2>2. \A n \in (words + 1)..(words + 2) : n = words + 1 \/ n = words + 2
    OBVIOUS
  <2>3. ns[1].id.word \in Words(ns) /\ ns[2].id.word \in Words(ns)
    BY <2>1 DEF Words
  <2>4. (words + 1)..(words + Len(ns)) \subseteq Words(ns)
    BY <1>1, <2>1, <2>2, <2>3
  <2>5. \A i \in 1..Len(ns) : ns[i].role # "user"
    BY <1>1, <2>1
  <2> QED
    BY <1>3, <2>1, <2>4, <2>5
<1> QED
  BY <1>2, <1>3

LEMMA RoundKeeps ==
  ASSUME CvInv, NEW context \in BOOLEAN, Round(context), context => "map" \notin Contexts
  PROVE  CvInv'
<1> DEFINE call == Id("tool", words + 2)
           ns == <<Assistant(Id("agent", words + 1), {call}), ToolResult(call)>>
                 \o IF context THEN <<User(Id("hook", words + 3))>> ELSE << >>
<1>1. /\ phase = "turn" /\ phase' = "turn" /\ rounds' = rounds + 1
      /\ work' = work \o ns /\ words' = words + Len(ns)
      /\ UNCHANGED <<phase, session, prompt, shown, guard, rewritten, compactions>>
  BY DEF Round, Working
<1>2. /\ words \in Nat /\ work \in Seq(Message) /\ rounds \in Nat /\ compactions \in Nat
      /\ messages \in Seq(Message) /\ prompt \in [by : {"user"}, word : 0..words, map : {FALSE}]
  BY DEF CvInv, CvTypeOK, Texts
<1>3. /\ ns \in Seq(Message) /\ Len(ns) \in Nat
      /\ (words + 1)..(words + Len(ns)) \subseteq Words(ns)
      /\ ~context => \A i \in 1..Len(ns) : ns[i].role # "user"
  BY <1>2, RoundIs
<1> HIDE DEF ns
<1>4. work' \in Seq(Message) /\ Words(work') = Words(work) \cup Words(ns)
      /\ Len(work') = Len(work) + Len(ns)
      /\ \A i \in 1..(Len(work) + Len(ns)) :
            work'[i] = IF i <= Len(work) THEN work[i] ELSE ns[i - Len(work)]
  <2>1. work' \in Seq(Message) /\ Words(work') = Words(work) \cup Words(ns)
    BY <1>1, <1>2, <1>3, WordsOfBoth
  <2> QED
    BY <1>1, <1>2, <1>3, <2>1
<1>5. CvTypeOK'
  <2>1. {words', rounds', compactions'} \subseteq Nat
    BY <1>1, <1>2, <1>3
  <2>2. prompt' \in [by : {"user"}, word : 0..words', map : {FALSE}]
    <3>1. 0..words \subseteq 0..words' /\ prompt' = prompt
      BY <1>1, <1>2, <1>3
    <3> QED
      BY <1>2, <3>1
  <2>3. work' \in Texts
    BY <1>4 DEF Texts
  <2> QED
    BY <1>1, <2>1, <2>2, <2>3 DEF CvInv, CvTypeOK, session
<1>6. Recoverable' /\ SummaryInv' /\ PrepareInv'
  BY <1>1 DEF CvInv, Recoverable, SummaryInv, PrepareInv, session
<1>7. (prompt.word + 1)..words' \subseteq ((prompt.word + 1)..words) \cup Words(ns)
  <2>1. \A n \in (prompt.word + 1)..words' : n \in (prompt.word + 1)..words \/ n \in (words + 1)..words'
    BY <1>1, <1>2, <1>3
  <2> QED
    BY <1>1, <1>3, <2>1
<1>8. TurnInv'
  <2>1. /\ Said \subseteq Words(work) \cup shown
        /\ guard \subseteq shown /\ guard \subseteq summary
        /\ compactions = 0 => shown = guard /\ ~rewritten
        /\ ~rewritten => /\ Len(messages) <= Len(work)
                         /\ (prompt.word + 1)..words \subseteq Gained
        /\ "map" \in Contexts =>
            \E k \in 0..Len(work) : PromptAt(work, k) /\ (~rewritten => k <= Len(messages))
    BY <1>1 DEF CvInv, TurnInv
  <2>2. /\ messages' = messages /\ told' = told /\ current' = current /\ summary' = summary
        /\ prompt' = prompt /\ shown' = shown /\ guard' = guard
        /\ rewritten' = rewritten /\ compactions' = compactions
    BY <1>1 DEF session
  <2>3. Said' \subseteq Words(work') \cup shown'
    BY <1>4, <1>7, <2>1, <2>2 DEF Said
  <2>4. ASSUME ~rewritten
        PROVE  Len(messages) <= Len(work') /\ (prompt.word + 1)..words' \subseteq Gained'
    <3>1. Len(messages) \in Nat /\ Len(messages) <= Len(work)
      BY <1>2, <2>1, <2>4
    <3>2. Gained \cup Words(ns) \subseteq Gained'
      <4>1. Gained' = {(work \o ns)[i].id.word : i \in (Len(messages) + 1)..Len(work \o ns)}
        BY <1>1, <2>2 DEF Gained
      <4> QED
        BY <1>2, <1>3, <3>1, <4>1, GainedMore DEF Gained
    <3>3. Len(messages) <= Len(work')
      BY <1>2, <1>3, <1>4, <3>1
    <3> QED
      BY <1>7, <2>1, <2>4, <3>2, <3>3
  <2>5. ASSUME "map" \in Contexts
        PROVE  \E k \in 0..Len(work') : PromptAt(work, k)' /\ (~rewritten => k <= Len(messages))
    <3>1. PICK k \in 0..Len(work) : PromptAt(work, k) /\ (~rewritten => k <= Len(messages))
      BY <2>1, <2>5
    <3>2. \A i \in 1..Len(ns) : ns[i].role # "user"
      BY <1>3, <2>5
    <3>3. /\ k \in 0..Len(work) /\ k # 0 => work[k].role = "user" /\ work[k].id.word = prompt.word
          /\ \A j \in (k + 1)..Len(work) : work[j].role # "user"
      BY <3>1 DEF PromptAt
    <3>4. k \in 0..Len(work') /\ k \in Nat /\ Len(work) \in Nat
      BY <1>2, <1>3, <1>4
    <3>5. k # 0 => work'[k] = work[k]
      BY <1>2, <1>3, <1>4, <3>4
    <3>6. ASSUME NEW j \in (k + 1)..Len(work') PROVE work'[j].role # "user"
      <4>1. CASE j <= Len(work)
        BY <1>3, <1>4, <3>3, <3>4, <4>1
      <4>2. CASE ~(j <= Len(work))
        <5>1. j - Len(work) \in 1..Len(ns) /\ work'[j] = ns[j - Len(work)]
          BY <1>3, <1>4, <3>4, <4>2
        <5> QED
          BY <3>2, <5>1
      <4> QED
        BY <4>1, <4>2
    <3>7. PromptAt(work, k)'
      BY <2>2, <3>3, <3>4, <3>5, <3>6 DEF PromptAt
    <3> QED
      BY <3>1, <3>4, <3>7
  <2> QED
    BY <2>1, <2>2, <2>3, <2>4, <2>5 DEF TurnInv
<1> QED
  BY <1>5, <1>6, <1>8 DEF CvInv

LEMMA CompactInTurnKeeps ==
  ASSUME CvInv, CompactInTurn, CompactLimit <= 1
  PROVE  CvInv'
<1> DEFINE kept == Kept(work, KeepMessages)
<1>1. /\ phase = "turn" /\ phase' = "turn" /\ compactions < CompactLimit
      /\ compactions' = compactions + 1 /\ work' = kept
      /\ shown' = guard \cup Words(Older(work)) /\ summary' = shown' /\ rewritten' = TRUE
      /\ UNCHANGED <<messages, system, files, current, told, prompt, guard, rounds, words>>
  BY DEF CompactInTurn, Folded
<1>2. /\ work \in Texts /\ compactions \in Nat /\ CompactLimit \in Nat /\ guard \in Summaries
  BY ConversationAssumption DEF CvInv, CvTypeOK
<1>3. compactions = 0
  BY <1>1, <1>2
<1>4. /\ Said \subseteq Words(work) \cup guard /\ shown = guard
      /\ "map" \in Contexts => \E k \in 0..Len(work) : PromptAt(work, k)
  BY <1>1, <1>3 DEF CvInv, TurnInv
<1>5. /\ kept \in Texts /\ Len(kept) <= Len(work)
      /\ \A i \in 1..Len(kept) : kept[i] = work[i + Len(work) - Len(kept)]
      /\ Words(work) \subseteq Words(kept) \cup Words(Older(work))
  BY <1>2, KeptAndOlder
<1>6. Words(Older(work)) \subseteq Nat
  BY <1>2, OlderIsSaid
<1> HIDE DEF kept
<1>7. CvTypeOK'
  <2>1. {summary', shown', guard'} \subseteq Summaries /\ work' \in Texts
    BY <1>1, <1>2, <1>5, <1>6 DEF Summaries
  <2>2. {words', rounds', compactions'} \subseteq Nat
    <3>1. {words, rounds, compactions} \subseteq Nat
      BY DEF CvInv, CvTypeOK
    <3> QED
      BY <1>1, <1>3, <3>1
  <2>3. rewritten' \in BOOLEAN
    BY <1>1
  <2> QED
    BY <1>1, <2>1, <2>2, <2>3 DEF CvInv, CvTypeOK
<1>8. Recoverable' /\ SummaryInv' /\ PrepareInv'
  BY <1>1 DEF CvInv, Recoverable, SummaryInv, PrepareInv
<1>9. TurnInv'
  <2>1. Said' \subseteq Words(work') \cup shown'
    <3>1. Said' = Said
      BY <1>1 DEF Said
    <3> QED
      BY <1>1, <1>4, <1>5, <3>1
  <2>2. guard' \subseteq shown' /\ guard' \subseteq summary'
    BY <1>1
  <2>3. compactions' # 0 /\ rewritten'
    BY <1>1, <1>3
  <2>4. ASSUME "map" \in Contexts
        PROVE  \E k \in 0..Len(work') : PromptAt(work, k)'
    <3>1. PICK k \in 0..Len(work) : PromptAt(work, k)
      BY <1>4, <2>4
    <3>2. /\ k # 0 => work[k].role = "user" /\ work[k].id.word = prompt.word
          /\ \A j \in (k + 1)..Len(work) : work[j].role # "user"
      BY <3>1 DEF PromptAt
    <3>0. Len(work) \in Nat /\ Len(kept) \in Nat /\ Len(kept) <= Len(work)
      BY <1>2, <1>5 DEF Texts
    <3>3. PICK c \in Nat : c = Len(work) - Len(kept)
      BY <3>0
    <3>4. /\ Len(work) \in Nat /\ Len(kept) \in Nat /\ k \in Nat /\ Len(work) = Len(kept) + c
          /\ \A i \in 1..Len(kept) : i + c \in 1..Len(work) /\ kept[i] = work[i + c]
      <4>1. Len(work) \in Nat /\ Len(kept) \in Nat
        BY <1>2, <1>5 DEF Texts
      <4>2. \A i \in 1..Len(kept) : i + Len(work) - Len(kept) = i + c
        BY <3>3, <4>1
      <4> QED
        BY <1>5, <3>3, <4>1, <4>2
    <3>5. CASE k > c
      <4>1. k - c \in 1..Len(kept) /\ kept[k - c] = work[k]
        BY <3>4, <3>5
      <4>2. \A j \in (k - c + 1)..Len(kept) : kept[j].role # "user"
        <5> SUFFICES ASSUME NEW j \in (k - c + 1)..Len(kept) PROVE kept[j].role # "user"
          OBVIOUS
        <5>1. j \in 1..Len(kept) /\ j + c \in (k + 1)..Len(work)
          BY <3>4, <3>5
        <5> QED
          BY <3>2, <3>4, <5>1
      <4>3. PromptAt(work, k - c)'
        BY <1>1, <3>2, <3>4, <3>5, <4>1, <4>2 DEF PromptAt
      <4>4. k - c \in 0..Len(work')
        BY <1>1, <3>4, <4>1
      <4> QED
        BY <4>3, <4>4
    <3>6. CASE ~(k > c)
      <4>1. \A j \in 1..Len(kept) : kept[j].role # "user"
        <5> SUFFICES ASSUME NEW j \in 1..Len(kept) PROVE kept[j].role # "user"
          OBVIOUS
        <5>1. j + c \in (k + 1)..Len(work)
          BY <3>4, <3>6
        <5> QED
          BY <3>2, <3>4, <5>1
      <4>2. PromptAt(work, 0)'
        BY <1>1, <3>4, <4>1 DEF PromptAt
      <4> QED
        BY <1>1, <3>4, <4>2
    <3> QED
      BY <3>5, <3>6
  <2> QED
    BY <2>1, <2>2, <2>3, <2>4 DEF TurnInv
<1> QED
  BY <1>7, <1>8, <1>9 DEF CvInv

\* What ends a turn: an answer and the failures of the tests, with their words.
LEMMA EndIs ==
  ASSUME words \in Nat, NEW answers \in BOOLEAN, NEW feedback \in BOOLEAN
  PROVE  LET final == IF answers THEN <<Assistant(Id("agent", words + 1), {})>> ELSE << >>
             last  == words + Len(final)
             tests == IF feedback THEN <<User(Id("test", last + 1))>> ELSE << >>
         IN  /\ final \in Seq(Message) /\ tests \in Seq(Message)
             /\ \A i \in 1..Len(final) : final[i].role # "user"
             /\ last + Len(tests) \in Nat /\ words <= last + Len(tests)
             /\ (words + 1)..(last + Len(tests)) \subseteq Words(final) \cup Words(tests)
<1> DEFINE final == IF answers THEN <<Assistant(Id("agent", words + 1), {})>> ELSE << >>
           last  == words + Len(final)
           tests == IF feedback THEN <<User(Id("test", last + 1))>> ELSE << >>
<1>1. /\ final \in Seq(Message) /\ Len(final) \in {0, 1} /\ last \in Nat
      /\ Len(final) = 1 => final[1].role # "user" /\ Words(final) = {words + 1}
  <2> DEFINE m == Assistant(Id("agent", words + 1), {})
  <2>1. m \in Message /\ m.id.word = words + 1 /\ m.role # "user"
    <3>1. m \in Message
      BY WhatIsSaid
    <3> QED
      BY <3>1 DEF Assistant, Id
  <2>2. /\ <<m>> \in Seq(Message) /\ Words(<<m>>) = {words + 1} /\ Len(<<m>>) = 1 /\ <<m>>[1] = m
        /\ << >> \in Seq(Message) /\ Len(<< >>) = 0
    <3> HIDE DEF m
    <3>1. <<m>> \in Seq(Message) /\ Words(<<m>>) = {words + 1} /\ << >> \in Seq(Message)
      BY <2>1, FewWords
    <3>2. Len(<<m>>) = 1 /\ <<m>>[1] = m /\ Len(<< >>) = 0
      OBVIOUS
    <3> QED
      BY <3>1, <3>2
  <2>3. final = IF answers THEN <<m>> ELSE << >>
    OBVIOUS
  <2> HIDE DEF m
  <2>4. CASE answers
    <3>1. final = <<m>>
      BY <2>3, <2>4
    <3> HIDE DEF final
    <3>2. final \in Seq(Message) /\ Len(final) = 1 /\ final[1] = m /\ Words(final) = {words + 1}
      BY <2>2, <3>1
    <3> QED
      BY <2>1, <3>2
  <2>5. CASE ~answers
    <3>1. final = << >>
      BY <2>3, <2>5
    <3> HIDE DEF final
    <3>2. final \in Seq(Message) /\ Len(final) = 0
      BY <2>2, <3>1
    <3> QED
      BY <3>2
  <2> QED
    BY <2>4, <2>5
<1> HIDE DEF final
<1>2. /\ tests \in Seq(Message) /\ Len(tests) \in {0, 1}
      /\ Len(tests) = 1 => Words(tests) = {last + 1}
  <2> HIDE DEF last
  <2> DEFINE m == User(Id("test", last + 1))
  <2>1. m \in Message /\ m.id.word = last + 1
    <3>1. m \in Message
      BY <1>1, WhatIsSaid
    <3> QED
      BY <3>1 DEF User, Id
  <2>2. tests = IF feedback THEN <<m>> ELSE << >>
    OBVIOUS
  <2> HIDE DEF m
  <2>3. <<m>> \in Seq(Message) /\ Words(<<m>>) = {last + 1} /\ << >> \in Seq(Message)
    BY <2>1, FewWords
  <2>4. Len(<<m>>) = 1 /\ Len(<< >>) = 0
    OBVIOUS
  <2>5. CASE feedback
    <3>1. tests = <<m>>
      BY <2>2, <2>5
    <3> HIDE DEF tests
    <3> QED
      BY <2>3, <2>4, <3>1
  <2>6. CASE ~feedback
    <3>1. tests = << >>
      BY <2>2, <2>6
    <3> HIDE DEF tests
    <3>2. tests \in Seq(Message) /\ Len(tests) = 0
      BY <2>3, <2>4, <3>1
    <3> QED
      BY <3>2
  <2> QED
    BY <2>5, <2>6
<1> HIDE DEF tests
<1>3. \A i \in 1..Len(final) : final[i].role # "user"
  BY <1>1
<1>4. last + Len(tests) \in Nat /\ words <= last + Len(tests) /\ last = words + Len(final)
  BY <1>1, <1>2
<1>5. (words + 1)..(last + Len(tests)) \subseteq Words(final) \cup Words(tests)
  <2> SUFFICES ASSUME NEW n \in (words + 1)..(last + Len(tests))
               PROVE  n \in Words(final) \cup Words(tests)
    OBVIOUS
  <2>1. \/ Len(final) = 1 /\ n = words + 1
        \/ Len(tests) = 1 /\ n = last + 1
    <3> DEFINE f == Len(final)
               t == Len(tests)
    <3>1. /\ f \in {0, 1} /\ t \in {0, 1} /\ last = words + f /\ n \in (words + 1)..(last + t)
          /\ words \in Nat
      BY <1>1, <1>2, <1>4
    <3> HIDE DEF last, f, t
    <3>2. n \in Int /\ words + 1 <= n /\ n <= (words + f) + t
      BY <3>1
    <3>3. (f = 1 /\ n = words + 1) \/ (t = 1 /\ n = (words + f) + 1)
      BY <3>1, <3>2
    <3> QED
      BY <3>1, <3>3 DEF f, t
  <2> QED
    BY <1>1, <1>2, <2>1
<1> QED
  BY <1>1, <1>2, <1>3, <1>4, <1>5 DEF final, tests

\* The prompt is given back in its place: no word is lost, and none moves.
LEMMA RestoredKeepsWords ==
  ASSUME CvInv, phase = "turn", NEW final \in Seq(Message),
         \A i \in 1..Len(final) : final[i].role # "user"
  PROVE  LET sent == work \o final
             done == IF "map" \in Contexts THEN Restore(sent, prompt) ELSE sent
         IN  /\ done \in Seq(Message) /\ Len(done) = Len(work) + Len(final)
             /\ \A i \in 1..Len(done) : done[i].id.word = sent[i].id.word
<1> DEFINE sent == work \o final
           done == IF "map" \in Contexts THEN Restore(sent, prompt) ELSE sent
<1>1. work \in Seq(Message) /\ Len(work) \in Nat /\ Len(final) \in Nat
  BY DEF CvInv, CvTypeOK, Texts
<1>2. /\ sent \in Seq(Message) /\ Len(sent) = Len(work) + Len(final)
      /\ \A i \in 1..Len(sent) : sent[i] = IF i <= Len(work) THEN work[i] ELSE final[i - Len(work)]
  BY <1>1
<1> HIDE DEF sent
<1>3. CASE "map" \notin Contexts
  BY <1>2, <1>3 DEF sent
<1>4. CASE "map" \in Contexts
  <2>1. PICK k \in 0..Len(work) : PromptAt(work, k)
    BY <1>4 DEF CvInv, TurnInv
  <2>2. /\ k # 0 => work[k].role = "user" /\ work[k].id.word = prompt.word
        /\ \A j \in (k + 1)..Len(work) : work[j].role # "user"
    BY <2>1 DEF PromptAt
  <2>3. k \in 0..Len(sent) /\ (k # 0 => sent[k] = work[k])
    BY <1>1, <1>2
  <2>4. \A j \in (k + 1)..Len(sent) : sent[j].role # "user"
    <3> SUFFICES ASSUME NEW j \in (k + 1)..Len(sent) PROVE sent[j].role # "user"
      OBVIOUS
    <3>1. CASE j <= Len(work)
      BY <1>1, <1>2, <2>2, <3>1
    <3>2. CASE ~(j <= Len(work))
      <4>1. j - Len(work) \in 1..Len(final) /\ sent[j] = final[j - Len(work)]
        BY <1>1, <1>2, <3>2
      <4> QED
        BY <4>1
    <3> QED
      BY <3>1, <3>2
  <2>5. LastUser(sent) = k
    BY <1>2, <2>2, <2>3, <2>4, LastUserIs
  <2>6. prompt \in [by : {"user"}, word : Nat, map : {FALSE}]
    <3>1. prompt \in [by : {"user"}, word : 0..words, map : {FALSE}] /\ words \in Nat
      BY DEF CvInv, CvTypeOK
    <3>2. 0..words \subseteq Nat
      BY <3>1
    <3> QED
      BY <3>1, <3>2
  <2>7. /\ Restore(sent, prompt) \in Seq(Message) /\ Len(Restore(sent, prompt)) = Len(sent)
        /\ \A i \in 1..Len(sent) : Restore(sent, prompt)[i].id.word = sent[i].id.word
    BY <1>2, <2>2, <2>3, <2>5, <2>6, PromptRestored
  <2> QED
    BY <1>2, <1>4, <2>7 DEF sent
<1> QED
  BY <1>3, <1>4

LEMMA EndTurnKeeps ==
  ASSUME CvInv, NEW answers \in BOOLEAN, NEW feedback \in BOOLEAN, EndTurn(answers, feedback)
  PROVE  CvInv'
<1> DEFINE final == IF answers THEN <<Assistant(Id("agent", words + 1), {})>> ELSE << >>
           last  == words + Len(final)
           tests == IF feedback THEN <<User(Id("test", last + 1))>> ELSE << >>
           sent  == work \o final
           done  == IF "map" \in Contexts THEN Restore(sent, prompt) ELSE sent
           new   == (words + 1)..(last + Len(tests))
           T     == Said \cup new
<1>1. /\ phase = "turn" /\ phase' = "idle" /\ NoTurn /\ system' = {shown}
      /\ messages' = done \o tests /\ words' = last + Len(tests)
      /\ summary' = IF shown = {} THEN summary ELSE shown
      /\ IF MustRewrite(done)
         THEN Rewrite({shown}, messages', T)
         ELSE /\ files' = [files EXCEPT ![current] = WithSaved(@, Appended(done) \o tests)]
              /\ told' = [told EXCEPT ![current] = T] /\ current' = current
  BY DEF EndTurn
<1>2. /\ words \in Nat /\ work \in Seq(Message) /\ messages \in Seq(Message)
      /\ {summary, shown, guard} \subseteq Summaries
      /\ files \in Seq(SessionFile) /\ told \in Seq(Summaries) /\ Len(told) = Len(files)
      /\ current \in 1..Len(files)
      /\ prompt \in [by : {"user"}, word : 0..words, map : {FALSE}]
  BY DEF CvInv, CvTypeOK, Texts
<1>3. /\ final \in Seq(Message) /\ tests \in Seq(Message)
      /\ \A i \in 1..Len(final) : final[i].role # "user"
      /\ last + Len(tests) \in Nat /\ words <= last + Len(tests)
      /\ new \subseteq Words(final) \cup Words(tests)
  BY <1>2, EndIs
<1> HIDE DEF final, tests, last
<1>4. /\ done \in Seq(Message) /\ Len(done) = Len(work) + Len(final)
      /\ \A i \in 1..Len(done) : done[i].id.word = sent[i].id.word
  BY <1>1, <1>3, RestoredKeepsWords
<1>5. sent \in Seq(Message) /\ Words(sent) = Words(work) \cup Words(final)
      /\ Len(sent) = Len(work) + Len(final)
  <2>1. sent \in Seq(Message) /\ Words(sent) = Words(work) \cup Words(final)
    BY <1>2, <1>3, WordsOfBoth
  <2>2. Len(sent) = Len(work) + Len(final)
    BY <1>2, <1>3
  <2> QED
    BY <2>1, <2>2
<1> HIDE DEF done
<1>6. Words(done) = Words(work) \cup Words(final)
  <2>1. Len(done) = Len(sent)
    BY <1>4, <1>5
  <2> HIDE DEF sent
  <2>2. Words(done) = Words(sent)
    BY <1>4, <2>1, SameWords
  <2> QED
    BY <1>5, <2>2
<1>7. /\ messages' \in Seq(Message)
      /\ Words(messages') = Words(work) \cup Words(final) \cup Words(tests)
  BY <1>1, <1>3, <1>4, <1>6, WordsOfBoth
<1>8. /\ Said \subseteq Words(work) \cup shown /\ guard \subseteq shown
      /\ ~rewritten => /\ Len(messages) <= Len(work)
                       /\ (prompt.word + 1)..words \subseteq Gained
  BY <1>1 DEF CvInv, TurnInv
<1>9. /\ Summary(files[current].system) \subseteq Summary(system) /\ Summary(system) \subseteq guard
      /\ told[current] \subseteq Words(files[current].body) \cup Summary(files[current].system)
      /\ files[current] \in SessionFile /\ told[current] \in Summaries
  BY <1>1, <1>2 DEF CvInv, SummaryInv, Recoverable
<1>10. T \in Summaries
  <2>1. prompt.word \in Nat
    BY <1>2
  <2>2. (prompt.word + 1)..words \subseteq Nat /\ new \subseteq Nat
    <3> HIDE DEF last, tests
    <3> QED
      BY <1>2, <1>3, <2>1
  <2> HIDE DEF new
  <2> QED
    BY <1>9, <2>2 DEF Summaries, Said
<1>11. T \subseteq Words(messages') \cup shown
  <2> HIDE DEF new
  <2> QED
    BY <1>3, <1>7, <1>8
<1> HIDE DEF T
<1>12. \E F \in SessionFile :
          /\ Recoverable' /\ files' \in Seq(SessionFile) /\ told' \in Seq(Summaries)
          /\ Len(told') = Len(files') /\ current' \in 1..Len(files')
          /\ files'[current'] = F /\ told'[current'] = T /\ Summary(F.system) \subseteq shown
  <2>1. CASE MustRewrite(done)
    <3> DEFINE F == [system |-> {shown}, body |-> messages']
    <3>1. files' = Append(files, F) /\ told' = Append(told, T) /\ current' = Len(files) + 1
      BY <1>1, <2>1 DEF Rewrite
    <3>2. F \in SessionFile /\ F.body = messages' /\ F.system = {shown}
      BY <1>2, <1>7 DEF SessionFile, Texts
    <3>3. Summary(F.system) = shown
      BY <3>2, SummaryOfOne
    <3>4. T \subseteq Words(F.body) \cup Summary(F.system)
      BY <1>11, <3>2, <3>3
    <3> HIDE DEF F
    <3>5. /\ Recoverable' /\ files' \in Seq(SessionFile) /\ told' \in Seq(Summaries)
          /\ Len(told') = Len(files') /\ current' \in 1..Len(files')
          /\ files'[current'] = F /\ told'[current'] = T
      BY <1>10, <3>1, <3>2, <3>4, FileAdded DEF CvInv
    <3> QED
      BY <3>2, <3>3, <3>5
  <2>2. CASE ~MustRewrite(done)
    <3> DEFINE more == Appended(done) \o tests
               F == WithSaved(files[current], more)
    <3>1. ~rewritten /\ Len(messages) <= Len(done) /\ Len(messages) \in Nat /\ Len(done) \in Nat
      BY <1>2, <1>4, <2>2 DEF MustRewrite
    <3>2. /\ Appended(done) \in Seq(Message) /\ Len(Appended(done)) = Len(done) - Len(messages)
          /\ \A i \in 1..Len(Appended(done)) : Appended(done)[i] = done[i + Len(messages)]
      <4>1. Appended(done) = SubSeq(done, Len(messages) + 1, Len(done))
        BY DEF Appended
      <4>2. ASSUME NEW ds \in Seq(Message), NEW n \in Nat, n <= Len(ds)
            PROVE  /\ SubSeq(ds, n + 1, Len(ds)) \in Seq(Message)
                   /\ Len(SubSeq(ds, n + 1, Len(ds))) = Len(ds) - n
                   /\ \A i \in 1..(Len(ds) - n) : SubSeq(ds, n + 1, Len(ds))[i] = ds[i + n]
        <5>1. SubSeq(ds, n + 1, Len(ds)) \in Seq(Message)
          BY <4>2
        <5>2. Len(SubSeq(ds, n + 1, Len(ds))) = Len(ds) - n
          BY <4>2
        <5>3. \A i \in 1..(Len(ds) - n) : SubSeq(ds, n + 1, Len(ds))[i] = ds[i + n]
          BY <4>2
        <5> QED
          BY <5>1, <5>2, <5>3
      <4> QED
        BY <1>4, <3>1, <4>1, <4>2
    <3>3. \A i \in (Len(messages) + 1)..Len(done) : done[i].id.word \in Words(Appended(done))
      <4> SUFFICES ASSUME NEW i \in (Len(messages) + 1)..Len(done)
                   PROVE  done[i].id.word \in Words(Appended(done))
        OBVIOUS
      <4>1. /\ i - Len(messages) \in 1..Len(Appended(done))
            /\ (i - Len(messages)) + Len(messages) = i
        BY <3>1, <3>2
      <4>2. Appended(done)[i - Len(messages)] = done[i]
        BY <3>2, <4>1
      <4> QED
        BY <4>1, <4>2 DEF Words
    <3>4. Gained \cup Words(final) \subseteq Words(Appended(done))
      <4>1. \A i \in (Len(messages) + 1)..Len(sent) : sent[i].id.word \in Words(Appended(done))
        <5>1. \A i \in (Len(messages) + 1)..Len(done) :
                 i \in 1..Len(done) /\ done[i].id.word \in Words(Appended(done))
          BY <3>1, <3>3
        <5> HIDE DEF sent
        <5>2. Len(sent) = Len(done)
          BY <1>4, <1>5
        <5> QED
          BY <1>4, <5>1, <5>2
      <4>2. Gained \cup Words(final) \subseteq {sent[i].id.word : i \in (Len(messages) + 1)..Len(sent)}
        BY <1>2, <1>3, <1>8, <3>1, GainedMore DEF Gained
      <4> HIDE DEF sent
      <4> QED
        BY <4>1, <4>2
    <3>5. more \in Seq(Message) /\ Words(more) = Words(Appended(done)) \cup Words(tests)
      BY <1>3, <3>2, WordsOfBoth
    <3> HIDE DEF more
    <3>6. /\ F \in SessionFile /\ F.system = files[current].system
          /\ Words(F.body) = Words(files[current].body) \cup Words(more)
      <4>1. F = [files[current] EXCEPT !.body = files[current].body \o more]
        BY DEF WithSaved
      <4>2. files[current].body \in Seq(Message)
        BY <1>9 DEF SessionFile, Texts
      <4>3. /\ files[current].body \o more \in Seq(Message)
            /\ Words(files[current].body \o more) = Words(files[current].body) \cup Words(more)
        BY <3>5, <4>2, WordsOfBoth
      <4> HIDE DEF F
      <4> QED
        BY <1>9, <4>1, <4>3 DEF SessionFile, Texts
    <3>7. T \subseteq Words(F.body) \cup Summary(F.system)
      <4>1. T \subseteq told[current] \cup Gained \cup new
        BY <1>8, <3>1 DEF T, Said
      <4> HIDE DEF F, new
      <4> QED
        BY <1>3, <1>9, <3>4, <3>5, <3>6, <4>1
    <3>8. /\ files' = [files EXCEPT ![current] = F] /\ told' = [told EXCEPT ![current] = T]
          /\ current' = current
      BY <1>1, <2>2 DEF more
    <3> HIDE DEF F
    <3>9. /\ Recoverable' /\ files' \in Seq(SessionFile) /\ told' \in Seq(Summaries)
          /\ Len(told') = Len(files') /\ current' \in 1..Len(files')
          /\ files'[current'] = F /\ told'[current'] = T
      BY <1>10, <3>6, <3>7, <3>8, FileChanged DEF CvInv
    <3> QED
      BY <1>8, <1>9, <3>6, <3>9
  <2> QED
    BY <2>1, <2>2
<1>13. CvTypeOK'
  <2>1. messages' \in Texts /\ work' \in Texts /\ {summary', shown', guard'} \subseteq Summaries
        /\ system' \in SUBSET Summaries
    <3>1. work' = << >> /\ shown' = {} /\ guard' = {}
      BY <1>1 DEF NoTurn
    <3> QED
      BY <1>1, <1>2, <1>7, <3>1 DEF Texts, Summaries
  <2>2. {words', rounds', compactions'} \subseteq Nat
    <3>1. rounds' = 0 /\ compactions' = 0 /\ words' \in Nat
      BY <1>1, <1>3 DEF NoTurn
    <3> QED
      BY <3>1
  <2>3. prompt' \in [by : {"user"}, word : 0..words', map : {FALSE}]
    <3>1. prompt' = Id("user", 0) /\ words' \in Nat
      BY <1>1, <1>3 DEF NoTurn
    <3> QED
      BY <3>1 DEF Id
  <2>4. rewritten' \in BOOLEAN
    BY <1>1 DEF NoTurn
  <2> QED
    BY <1>1, <1>12, <2>1, <2>2, <2>3, <2>4 DEF CvTypeOK
<1>14. SummaryInv'
  <2>1. shown \subseteq summary' /\ Summary(system') = shown
    BY <1>1, SummaryOfOne
  <2>2. told'[current'] \subseteq Words(messages') \cup summary'
    BY <1>11, <1>12, <2>1
  <2> QED
    BY <1>1, <1>12, <2>1, <2>2 DEF SummaryInv
<1>15. PrepareInv' /\ TurnInv'
  BY <1>1 DEF PrepareInv, TurnInv, NoTurn
<1> QED
  BY <1>12, <1>13, <1>14, <1>15 DEF CvInv

-----------------------------------------------------------------------------
(* Between turns. *)

LEMMA RunPromptKeeps ==
  ASSUME CvInv, NEW answers \in SUBSET {"agent"}, RunPrompt(answers)
  PROVE  CvInv'
<1> DEFINE one  == <<User(Id("user", words + 1))>>
           more == IF answers = {} THEN << >> ELSE <<Assistant(Id("agent", words'), {})>>
           said == one \o more
           F    == WithSaved([files[current] EXCEPT !.system = system'], said)
           T    == told[current] \cup (words + 1)..words'
<1>1. /\ phase = "idle" /\ words' = words + 1 + Cardinality(answers)
      /\ system' = IF system = {} THEN {{}} ELSE system
      /\ messages' = messages \o said
      /\ files' = [files EXCEPT ![current] = F] /\ told' = [told EXCEPT ![current] = T]
      /\ UNCHANGED <<phase, summary, current, turn>>
  BY DEF RunPrompt
<1>2. /\ words \in Nat /\ messages \in Seq(Message) /\ system \in SUBSET Summaries
      /\ files[current] \in SessionFile /\ told[current] \in Summaries /\ summary \in Summaries
  BY DEF CvInv, CvTypeOK, Texts
<1>3. /\ Summary(files[current].system) \subseteq Summary(system) /\ Summary(system) \subseteq summary
      /\ told[current] \subseteq Words(messages) \cup summary
      /\ told[current] \subseteq Words(files[current].body) \cup Summary(files[current].system)
  BY <1>1 DEF CvInv, CvTypeOK, SummaryInv, Recoverable
<1>4. /\ words' \in Nat /\ words <= words'
      /\ said \in Seq(Message) /\ (words + 1)..words' \subseteq Words(said)
  <2>1. one \in Seq(Message) /\ Words(one) = {words + 1}
    <3> DEFINE m == User(Id("user", words + 1))
    <3>1. m \in Message /\ m.id.word = words + 1
      <4>1. m \in Message
        BY <1>2, WhatIsSaid
      <4> QED
        BY <4>1 DEF User, Id
    <3> HIDE DEF m
    <3>2. <<m>> \in Seq(Message) /\ Words(<<m>>) = {words + 1}
      BY <3>1, FewWords
    <3> QED
      BY <3>2 DEF m
  <2>2. CASE answers = {}
    <3>1. Cardinality(answers) = 0
      BY <2>2, FS_EmptySet
    <3>2. words' = words + 1 /\ more = << >>
      BY <1>1, <1>2, <2>2, <3>1
    <3> HIDE DEF one
    <3>3. said = one
      BY <2>1, <3>2
    <3> HIDE DEF said, more
    <3> QED
      BY <1>2, <2>1, <3>2, <3>3
  <2>3. CASE answers # {}
    <3>1. answers = {"agent"}
      BY <2>3
    <3>2. Cardinality(answers) = 1
      BY <3>1, FS_Singleton
    <3>3. words' = words + 2
      BY <1>1, <1>2, <3>2
    <3> DEFINE m == Assistant(Id("agent", words'), {})
    <3>4. m \in Message /\ m.id.word = words + 2
      <4>1. m \in Message
        BY <1>2, <3>3, WhatIsSaid
      <4> QED
        BY <3>3, <4>1 DEF Assistant, Id
    <3>5. more = <<m>>
      BY <2>3
    <3> HIDE DEF m
    <3>6. <<m>> \in Seq(Message) /\ Words(<<m>>) = {words + 2}
      BY <3>4, FewWords
    <3> HIDE DEF more
    <3>7. more \in Seq(Message) /\ Words(more) = {words + 2}
      BY <3>5, <3>6
    <3> HIDE DEF one
    <3>8. said \in Seq(Message) /\ Words(said) = Words(one) \cup Words(more)
      BY <2>1, <3>7, WordsOfBoth
    <3> HIDE DEF said
    <3>9. \A n \in (words + 1)..(words + 2) : n = words + 1 \/ n = words + 2
      BY <1>2
    <3>10. words' \in Nat /\ words <= words'
      BY <1>2, <3>3
    <3> QED
      BY <2>1, <3>3, <3>7, <3>8, <3>9, <3>10
  <2> QED
    BY <2>2, <2>3
<1> HIDE DEF said
<1>5. /\ system' \in SUBSET Summaries /\ Summary(system') = Summary(system)
  BY <1>1, <1>2 DEF Summaries, Summary
<1>6. messages' \in Seq(Message) /\ Words(messages') = Words(messages) \cup Words(said)
  BY <1>1, <1>2, <1>4, WordsOfBoth
<1>7. /\ F \in SessionFile /\ F.system = system'
      /\ Words(F.body) = Words(files[current].body) \cup Words(said)
  <2> DEFINE G == [files[current] EXCEPT !.system = system']
  <2>1. G \in SessionFile /\ G.body = files[current].body /\ G.system = system'
    BY <1>2, <1>5 DEF SessionFile
  <2> HIDE DEF G
  <2>2. F = [G EXCEPT !.body = G.body \o said]
    BY DEF WithSaved, G
  <2>3. G.body \in Seq(Message)
    BY <2>1 DEF SessionFile, Texts
  <2>4. G.body \o said \in Seq(Message) /\ Words(G.body \o said) = Words(G.body) \cup Words(said)
    BY <1>4, <2>3, WordsOfBoth
  <2> HIDE DEF F
  <2> QED
    BY <2>1, <2>2, <2>4 DEF SessionFile, Texts
<1>8. T \in Summaries
  BY <1>2, <1>4 DEF Summaries
<1>9. T \subseteq Words(F.body) \cup Summary(F.system)
  <2> HIDE DEF F
  <2> QED
    BY <1>3, <1>4, <1>5, <1>7
<1>10. T \subseteq Words(messages') \cup summary
  BY <1>3, <1>4, <1>6
<1> HIDE DEF F, T
<1>11. /\ Recoverable' /\ files' \in Seq(SessionFile) /\ told' \in Seq(Summaries)
       /\ Len(told') = Len(files') /\ current' \in 1..Len(files')
       /\ files'[current'] = F /\ told'[current'] = T
  BY <1>1, <1>7, <1>8, <1>9, FileChanged DEF CvInv
<1>12. CvTypeOK'
  <2>1. UNCHANGED <<phase, summary, prompt, work, shown, guard, rewritten, rounds, compactions>>
    BY <1>1 DEF turn
  <2>2. prompt' \in [by : {"user"}, word : 0..words', map : {FALSE}]
    <3>1. prompt \in [by : {"user"}, word : 0..words, map : {FALSE}]
      BY DEF CvInv, CvTypeOK
    <3>2. 0..words \subseteq 0..words' /\ prompt' = prompt
      BY <1>2, <1>4, <2>1
    <3> QED
      BY <3>1, <3>2
  <2>3. {words', rounds', compactions'} \subseteq Nat
    <3>1. {words, rounds, compactions} \subseteq Nat
      BY DEF CvInv, CvTypeOK
    <3> QED
      BY <1>4, <2>1, <3>1
  <2>4. messages' \in Texts
    BY <1>6 DEF Texts
  <2> QED
    BY <1>5, <1>11, <2>1, <2>2, <2>3, <2>4 DEF CvInv, CvTypeOK
<1>13. SummaryInv'
  <2>1. phase' = "idle" /\ summary' = summary
    BY <1>1
  <2> QED
    BY <1>3, <1>5, <1>7, <1>10, <1>11, <2>1 DEF SummaryInv
<1>14. PrepareInv' /\ TurnInv'
  BY <1>1 DEF CvInv, PrepareInv, TurnInv, turn
<1> QED
  BY <1>11, <1>12, <1>13, <1>14 DEF CvInv

LEMMA NewFileKeeps ==
  ASSUME CvInv, NewFile, phase \in {"idle", "down"}, phase' = "idle", UNCHANGED <<turn, words>>
  PROVE  CvInv'
<1>1. /\ messages' = << >> /\ system' = {} /\ summary' = {}
      /\ files' = Append(files, Blank) /\ told' = Append(told, {})
      /\ current' = Len(files) + 1
  BY DEF NewFile
<1>2. Blank \in SessionFile /\ Blank.system = {} /\ {} \in Summaries
  <2>1. << >> \in Seq(Message)
    OBVIOUS
  <2> QED
    BY <2>1 DEF Blank, SessionFile, Texts, Summaries
<1>3. /\ Recoverable' /\ files' \in Seq(SessionFile) /\ told' \in Seq(Summaries)
      /\ Len(told') = Len(files') /\ current' \in 1..Len(files')
      /\ files'[current'] = Blank /\ told'[current'] = {}
  BY <1>1, <1>2, FileAdded DEF CvInv
<1>4. CvTypeOK'
  <2>1. messages' \in Texts /\ {summary', shown', guard'} \subseteq Summaries
        /\ system' \in SUBSET Summaries
    <3>1. {shown, guard} \subseteq Summaries /\ << >> \in Seq(Message)
      BY DEF CvInv, CvTypeOK
    <3> QED
      BY <1>1, <1>2, <3>1 DEF turn, Texts
  <2> QED
    BY <1>3, <2>1 DEF CvInv, CvTypeOK, turn
<1>5. SummaryInv'
  BY <1>1, <1>2, <1>3 DEF SummaryInv, Summary
<1> QED
  BY <1>3, <1>4, <1>5 DEF CvInv, PrepareInv, TurnInv, turn

LEMMA ResumeCommandKeeps ==
  ASSUME CvInv, NEW i \in 1..Len(files), ResumeCommand(i)
  PROVE  CvInv'
<1>1. /\ phase = "idle" /\ messages' = files[i].body /\ system' = files[i].system
      /\ current' = i /\ summary' = Summary(files[i].system)
      /\ UNCHANGED <<phase, files, told, turn, words>>
  BY DEF ResumeCommand, Load
<1>2. files[i] \in SessionFile /\ told[i] \subseteq Words(files[i].body) \cup Summary(files[i].system)
  BY DEF CvInv, CvTypeOK, Recoverable
<1>3. files[i].body \in Texts /\ files[i].system \in SUBSET Summaries
  BY <1>2 DEF SessionFile
<1>4. Summary(files[i].system) \in Summaries
  BY <1>3 DEF Summary, Summaries
<1>5. CvTypeOK'
  <2>1. {summary', shown', guard'} \subseteq Summaries
    <3>1. {shown, guard} \subseteq Summaries
      BY DEF CvInv, CvTypeOK
    <3> QED
      BY <1>1, <1>4, <3>1 DEF turn
  <2> QED
    BY <1>1, <1>3, <2>1 DEF CvInv, CvTypeOK, turn
<1>6. Recoverable'
  BY <1>1 DEF CvInv, Recoverable
<1>7. SummaryInv'
  BY <1>1, <1>2 DEF SummaryInv
<1> QED
  BY <1>1, <1>5, <1>6, <1>7 DEF CvInv, PrepareInv, TurnInv, turn

LEMMA CvInitially == CvInit => CvInv
<1> SUFFICES ASSUME CvInit PROVE CvInv
  OBVIOUS
<1>1. << >> \in Seq(Message) /\ Blank \in SessionFile /\ {} \in Summaries
  <2>1. << >> \in Seq(Message)
    OBVIOUS
  <2> QED
    BY <2>1 DEF Blank, SessionFile, Texts, Summaries
<1>2. /\ files \in Seq(SessionFile) /\ told \in Seq(Summaries) /\ Len(files) = 1 /\ Len(told) = 1
      /\ files[1] = Blank /\ told[1] = {} /\ current = 1
  BY <1>1 DEF CvInit
<1>3. CvTypeOK
  <2>1. messages \in Texts /\ work \in Texts /\ {summary, shown, guard} \subseteq Summaries
        /\ system \in SUBSET Summaries
    BY <1>1 DEF CvInit, Texts
  <2>2. prompt \in [by : {"user"}, word : 0..words, map : {FALSE}]
    BY DEF CvInit, Id
  <2>3. rewritten \in BOOLEAN /\ phase \in {"idle", "prepare", "turn", "down"}
    BY DEF CvInit
  <2>4. {words, rounds, compactions} \subseteq Nat
    BY DEF CvInit
  <2>5. /\ files \in Seq(SessionFile) /\ told \in Seq(Summaries)
        /\ Len(told) = Len(files) /\ current \in 1..Len(files)
    BY <1>2
  <2> QED
    BY <2>1, <2>2, <2>3, <2>4, <2>5 DEF CvTypeOK
<1>4. Recoverable
  BY <1>2 DEF Recoverable
<1>5. SummaryInv
  BY <1>2 DEF CvInit, SummaryInv, Blank, Summary
<1> QED
  BY <1>3, <1>4, <1>5 DEF CvInit, CvInv, PrepareInv, TurnInv

LEMMA CvStep ==
  ASSUME CompactLimit <= 1, "continue" \notin CvRestarts, ~({"map", "hook"} \subseteq Contexts),
         CvInv, [CvNext]_cvVars
  PROVE  CvInv'
<1>1. CASE CancelRouting
  BY <1>1, RoutingCancelledKeeps
<1>2. CASE Submit
  BY <1>2, SubmitKeeps
<1>3. CASE StopBeforeTurn \/ FailTurn \/ Quit
  <2>1. /\ NoTurn /\ UNCHANGED <<session, words>>
        /\ phase # "down" /\ phase' \in {"idle", "down"}
    BY <1>3 DEF StopBeforeTurn, FailTurn, Quit
  <2> QED
    BY <2>1, NoTurnKeeps
<1>4. CASE StartTurn
  BY <1>4, StartTurnKeeps
<1>5. CASE CompactAndStart
  BY <1>5, CompactAndStartKeeps
<1>6. CASE \E context \in {FALSE} \cup {TRUE : h \in {"hook"} \cap Contexts} : Round(context)
  <2>1. PICK context \in {FALSE} \cup {TRUE : h \in {"hook"} \cap Contexts} : Round(context)
    BY <1>6
  <2>2. context \in BOOLEAN /\ (context => "hook" \in Contexts)
    OBVIOUS
  <2>3. context => "map" \notin Contexts
    BY <2>2
  <2> QED
    BY <2>1, <2>2, <2>3, RoundKeeps
<1>7. CASE CompactInTurn
  BY <1>7, CompactInTurnKeeps
<1>8. CASE \E answers, feedback \in BOOLEAN : EndTurn(answers, feedback)
  BY <1>8, EndTurnKeeps
<1>9. CASE \E answers \in SUBSET {"agent"} : RunPrompt(answers)
  BY <1>9, RunPromptKeeps
<1>10. CASE CompactCommand
  BY <1>10, CompactCommandKeeps
<1>11. CASE NewSession \/ Launch
  <2>1. NewFile /\ phase \in {"idle", "down"} /\ phase' = "idle" /\ UNCHANGED <<turn, words>>
    BY <1>11 DEF NewSession, Launch
  <2> QED
    BY <2>1, NewFileKeeps
<1>12. CASE \E i \in 1..Len(files) : ResumeCommand(i) \/ Continue(i)
  <2>1. PICK i \in 1..Len(files) : ResumeCommand(i) \/ Continue(i)
    BY <1>12
  <2>2. ~Continue(i)
    BY DEF Continue
  <2> QED
    BY <2>1, <2>2, ResumeCommandKeeps
<1>13. CASE UNCHANGED cvVars
  <2>1. UNCHANGED <<phase, messages, system, summary, files, current, told, prompt, work, shown,
                    guard, rewritten, rounds, compactions, words>>
    BY <1>13 DEF cvVars, session, turn
  <2>2. CvTypeOK' /\ Recoverable'
    BY <2>1 DEF CvInv, CvTypeOK, Recoverable
  <2>3. SummaryInv' /\ PrepareInv'
    BY <2>1 DEF CvInv, SummaryInv, PrepareInv
  <2>4. TurnInv'
    <3>1. Said' = Said /\ Gained' = Gained
      BY <2>1 DEF Said, Gained
    <3>2. \A k : PromptAt(work, k)' <=> PromptAt(work, k)
      BY <2>1 DEF PromptAt
    <3> QED
      BY <2>1, <3>1, <3>2 DEF CvInv, TurnInv
  <2> QED
    BY <2>2, <2>3, <2>4 DEF CvInv
<1> QED
  BY <1>1, <1>2, <1>3, <1>4, <1>5, <1>6, <1>7, <1>8, <1>9, <1>10, <1>11, <1>12, <1>13 DEF CvNext

\* Nothing said in a session is forgotten, in memory or on disk, whatever is compacted, stopped,
\* killed and resumed (session_turn.rs, context_guard.rs), for any number of messages kept, rounds, prompts
\* and files.  The hypotheses are what the divergences of the code leave: a turn compacts at most
\* once, a session is not taken up by --continue, and hooks add no context where the repo
\* map is added.
THEOREM HistoryAlwaysKept ==
  ASSUME CompactLimit <= 1, "continue" \notin CvRestarts, ~({"map", "hook"} \subseteq Contexts)
  PROVE  CvSpec => []HistoryKept
<1>1. CvInit => CvInv
  BY CvInitially
<1>2. CvInv /\ [CvNext]_cvVars => CvInv'
  BY CvStep
<1>3. CvInv => HistoryKept
  BY DEF CvInv, CvTypeOK, SummaryInv, TurnInv, HistoryKept, NothingForgotten
<1> QED
  BY <1>1, <1>2, <1>3, PTL DEF CvSpec

-----------------------------------------------------------------------------
(* Conversation: one valid transcript, in memory and on disk. *)

\* What the agent's messages are once the repo map is taken out of them.
Own(ms, id) == IF "map" \in Contexts THEN Restore(ms, id) ELSE ms

\* A transcript as it may be saved: valid, without the repo map, no message twice, and
\* every word of it given out.
Sound(ms, n) ==
    /\ Valid(ms)
    /\ \A i \in 1..Len(ms) : ~ms[i].id.map /\ ms[i].id.word <= n
    /\ \A i, j \in 1..Len(ms) : ms[i].id.word = ms[j].id.word => i = j

\* The file of the session is its transcript, always.
FilesInv ==
    /\ \A i \in 1..Len(files) : Sound(files[i].body, words)
    /\ files[current].body = messages

\* A turn works on what may be saved, behind the session's transcript until it rewrites it.
WorkInv ==
    /\ Valid(work)
    /\ phase # "turn" => ~rewritten
    /\ phase = "prepare" => messages # << >> /\ messages[Len(messages)] = User(prompt)
    /\ phase = "turn" =>
          /\ Sound(Own(work, prompt), words)
          /\ ~rewritten => /\ Len(messages) <= Len(work)
                           /\ \A i \in 1..Len(messages) : Own(work, prompt)[i] = messages[i]

StoryInv == CvTypeOK /\ FilesInv /\ WorkInv

\* More words given out do no harm.
LEMMA SoundStill ==
  ASSUME NEW ms \in Seq(Message), NEW n \in Nat, NEW m \in Nat, n <= m, Sound(ms, n)
  PROVE  Sound(ms, m)
<1>1. \A x \in Message : x.id.word \in Nat
  BY DEF Message
<1>2. \A i \in 1..Len(ms) : ms[i].id.word \in Nat
  BY <1>1
<1> QED
  BY <1>2 DEF Sound

\* The file that is written is the transcript, and no other changes.
LEMMA FileWritten ==
  ASSUME CvTypeOK, FilesInv, NEW F \in SessionFile, NEW T \in Summaries,
         words <= words', words' \in Nat, Sound(F.body, words'), messages' = F.body,
         \/ /\ files' = [files EXCEPT ![current] = F] /\ told' = [told EXCEPT ![current] = T]
            /\ current' = current
         \/ /\ files' = Append(files, F) /\ told' = Append(told, T)
            /\ current' = Len(files) + 1
  PROVE  /\ FilesInv' /\ files' \in Seq(SessionFile) /\ told' \in Seq(Summaries)
         /\ Len(told') = Len(files') /\ current' \in 1..Len(files') /\ messages' \in Texts
<1>1. /\ files \in Seq(SessionFile) /\ told \in Seq(Summaries) /\ words \in Nat
      /\ Len(told) = Len(files) /\ current \in 1..Len(files) /\ Len(files) \in Nat
  BY DEF CvTypeOK
<1>2. /\ files' \in Seq(SessionFile) /\ told' \in Seq(Summaries)
      /\ Len(told') = Len(files') /\ current' \in 1..Len(files') /\ files'[current'] = F
      /\ \A i \in 1..Len(files') : files'[i] = F \/ (i \in 1..Len(files) /\ files'[i] = files[i])
  <2>1. CASE files' = [files EXCEPT ![current] = F]
    BY <1>1, <2>1
  <2>2. CASE files' # [files EXCEPT ![current] = F]
    <3>1. files' = Append(files, F) /\ told' = Append(told, T) /\ current' = Len(files) + 1
      BY <2>2
    <3>2. /\ files' \in Seq(SessionFile) /\ told' \in Seq(Summaries)
          /\ Len(files') = Len(files) + 1 /\ Len(told') = Len(files) + 1
          /\ \A i \in 1..Len(files) : files'[i] = files[i]
          /\ files'[Len(files) + 1] = F
      BY <1>1, <3>1
    <3>3. \A i \in 1..(Len(files) + 1) : i \in 1..Len(files) \/ i = Len(files) + 1
      <4>1. Len(files) \in Nat
        BY <1>1
      <4>2. \A n \in Nat : \A i \in 1..(n + 1) : i \in 1..n \/ i = n + 1
        OBVIOUS
      <4> QED
        BY <4>1, <4>2
    <3> QED
      BY <1>1, <3>1, <3>2, <3>3
  <2> QED
    BY <2>1, <2>2
<1>3. ASSUME NEW i \in 1..Len(files') PROVE Sound(files'[i].body, words')
  <2>1. CASE files'[i] = F
    BY <2>1
  <2>2. CASE i \in 1..Len(files) /\ files'[i] = files[i]
    <3>0. files[i] \in SessionFile
      BY <1>1, <2>2
    <3>1. Sound(files[i].body, words) /\ files[i].body \in Texts
      BY <2>2, <3>0 DEF FilesInv, SessionFile
    <3>2. words \in Nat /\ files[i].body \in Seq(Message)
      BY <1>1, <3>1 DEF Texts
    <3>3. Sound(files[i].body, words')
      BY <3>1, <3>2, SoundStill
    <3> QED
      BY <2>2, <3>3
  <2> QED
    BY <1>2, <2>1, <2>2
<1>4. FilesInv'
  BY <1>2, <1>3 DEF FilesInv
<1>5. messages' \in Texts
  BY DEF SessionFile
<1> QED
  BY <1>2, <1>4, <1>5

\* What is said next is behind a sound transcript, and makes it no less sound.
LEMMA SoundMore ==
  ASSUME NEW ms \in Seq(Message), NEW n \in Nat, NEW l \in Nat, Sound(ms, n),
         NEW m \in Message, ~m.id.map, m.id.word > n, m.id.word <= l,
         m.role = "user" \/ (m.role = "assistant" /\ m.calls = {})
  PROVE  Append(ms, m) \in Seq(Message) /\ Sound(Append(ms, m), l)
<1> DEFINE ns == Append(ms, m)
<1>1. /\ ns \in Seq(Message) /\ Len(ns) = Len(ms) + 1 /\ Len(ms) \in Nat
      /\ \A i \in 1..Len(ms) : ns[i] = ms[i]
      /\ ns[Len(ms) + 1] = m
  OBVIOUS
<1>2. \A x \in Message : x.id.word \in Nat
  BY DEF Message
<1>3. m.id.word \in Nat /\ \A i \in 1..Len(ms) : ms[i].id.word \in Nat
  BY <1>2
<1>4. Valid(ns)
  <2>1. Scan(ns) = Read(Unread, m)
    BY ScanOfMore DEF Sound, Valid
  <2>2. Read(Unread, m) = Unread
    BY DEF Read, Unread
  <2> QED
    BY <2>1, <2>2 DEF Valid
<1> HIDE DEF ns
<1>5. \A i \in 1..Len(ns) : i \in 1..Len(ms) \/ i = Len(ms) + 1
  BY <1>1
<1>6. ASSUME NEW i \in 1..Len(ns) PROVE ~ns[i].id.map /\ ns[i].id.word <= l
  BY <1>1, <1>3, <1>5 DEF Sound
<1>7. ASSUME NEW i \in 1..Len(ns), NEW j \in 1..Len(ns), ns[i].id.word = ns[j].id.word PROVE i = j
  BY <1>1, <1>3, <1>5, <1>7 DEF Sound
<1> QED
  BY <1>1, <1>4, <1>6, <1>7 DEF Sound, ns

LEMMA SoundOfNone == \A n : Sound(<< >>, n)
  BY ScanOfNone DEF Sound

\* Sequences with some more behind.
LEMMA TwoBehind ==
  ASSUME NEW M, NEW ms \in Seq(M), NEW a \in M, NEW b \in M
  PROVE  LET both == Append(Append(ms, a), b) IN
         /\ both \in Seq(M) /\ Len(both) = Len(ms) + 2
         /\ \A i \in 1..Len(ms) : both[i] = ms[i]
         /\ both[Len(ms) + 1] = a /\ both[Len(ms) + 2] = b
<1> DEFINE one == Append(ms, a)
           both == Append(one, b)
<1>1. /\ one \in Seq(M) /\ Len(one) = Len(ms) + 1 /\ Len(ms) \in Nat
      /\ \A i \in 1..Len(ms) : one[i] = ms[i]
      /\ one[Len(ms) + 1] = a
  OBVIOUS
<1> HIDE DEF one
<1>2. /\ both \in Seq(M) /\ Len(both) = Len(one) + 1
      /\ \A i \in 1..Len(one) : both[i] = one[i]
      /\ both[Len(one) + 1] = b
  BY <1>1
<1> HIDE DEF both
<1>3. both \in Seq(M) /\ Len(both) = Len(ms) + 2
         /\ (\A i \in 1..Len(ms) : both[i] = ms[i])
         /\ both[Len(ms) + 1] = a /\ both[Len(ms) + 2] = b
  BY <1>1, <1>2
<1> QED
  BY <1>3 DEF both, one

LEMMA PutBehind ==
  ASSUME NEW M, NEW ms \in Seq(M), NEW ns \in Seq(M), NEW both \in Seq(M),
         Len(both) = Len(ms) + Len(ns),
         \A i \in 1..Len(ms) : both[i] = ms[i],
         \A i \in 1..Len(ns) : both[Len(ms) + i] = ns[i]
  PROVE  ms \o ns = both
<1>1. /\ ms \o ns \in Seq(M) /\ Len(ms \o ns) = Len(ms) + Len(ns)
      /\ Len(ms) \in Nat /\ Len(ns) \in Nat
      /\ \A i \in 1..(Len(ms) + Len(ns)) : (ms \o ns)[i] = IF i <= Len(ms) THEN ms[i] ELSE ns[i - Len(ms)]
  OBVIOUS
<1>2. ASSUME NEW i \in 1..(Len(ms) + Len(ns)) PROVE (ms \o ns)[i] = both[i]
  <2>1. CASE i <= Len(ms)
    BY <1>1, <2>1
  <2>2. CASE ~(i <= Len(ms))
    <3>1. i - Len(ms) \in 1..Len(ns) /\ Len(ms) + (i - Len(ms)) = i
      BY <1>1, <2>2
    <3> QED
      BY <1>1, <2>2, <3>1
  <2> QED
    BY <2>1, <2>2
<1> QED
  BY <1>1, <1>2, SeqEqual

\* The first k of w are numbers up to n, and all different.
Counted(w, k, n) ==
    \A x \in 1..k : w[x] <= n /\ \A y \in 1..k : w[x] = w[y] => x = y

\* Numbers that are all different, and two more beyond them.
LEMMA TwoBeyond ==
  ASSUME NEW k \in Nat, NEW n \in Nat, NEW w \in [1..(k + 2) -> Nat], Counted(w, k, n),
         w[k + 1] = n + 1, w[k + 2] = n + 2
  PROVE  Counted(w, k + 2, n + 2)
<1>1. ASSUME NEW x \in 1..(k + 2) PROVE w[x] <= n + 2
  <2>1. x \in 1..k \/ x = k + 1 \/ x = k + 2
    OBVIOUS
  <2>2. x \in 1..k => w[x] <= n
    BY DEF Counted
  <2>3. w[x] \in Nat
    OBVIOUS
  <2> QED
    BY <2>1, <2>2, <2>3
<1>2. ASSUME NEW i \in 1..(k + 2), NEW j \in 1..(k + 2), w[i] = w[j] PROVE i = j
  <2>1. w[i] \in Nat /\ w[j] \in Nat
    OBVIOUS
  <2>2. CASE i \in 1..k
    <3>1. w[i] <= n
      BY <2>2 DEF Counted
    <3>2. j # k + 1 /\ j # k + 2
      BY <3>1, <2>1, <1>2
    <3>3. j \in 1..k
      BY <3>2
    <3> QED
      BY <1>2, <2>2, <3>3 DEF Counted
  <2>3. CASE j \in 1..k
    <3>1. w[j] <= n
      BY <2>3 DEF Counted
    <3>2. i # k + 1 /\ i # k + 2
      BY <3>1, <2>1, <1>2
    <3>3. i \in 1..k
      BY <3>2
    <3> QED
      BY <1>2, <2>3, <3>3 DEF Counted
  <2>4. CASE i \notin 1..k /\ j \notin 1..k
    <3>1. i \in {k + 1, k + 2} /\ j \in {k + 1, k + 2}
      BY <2>4
    <3>2. n + 1 # n + 2
      OBVIOUS
    <3> QED
      BY <1>2, <3>1, <3>2
  <2> QED
    BY <2>2, <2>3, <2>4
<1> QED
  BY <1>1, <1>2 DEF Counted

\* Messages with words of their own, and two more with words nobody had.
LEMMA TwoApart ==
  ASSUME NEW ms \in Seq(Message), NEW both \in Seq(Message), NEW n \in Nat,
         Len(both) = Len(ms) + 2, \A i \in 1..Len(ms) : both[i] = ms[i],
         Sound(ms, n), both[Len(ms) + 1].id.word = n + 1, both[Len(ms) + 2].id.word = n + 2
  PROVE  \A i, j \in 1..Len(both) : both[i].id.word = both[j].id.word => i = j
<1> DEFINE k == Len(ms)
           w == [x \in 1..(k + 2) |-> both[x].id.word]
<1>1. k \in Nat /\ Len(both) = k + 2
  OBVIOUS
<1>2. \A m \in Message : m.id.word \in Nat
  BY DEF Message
<1>3. w \in [1..(k + 2) -> Nat]
  BY <1>1, <1>2
<1>4. \A x \in 1..k : w[x] = ms[x].id.word
  BY <1>1
<1>5. /\ \A x \in 1..k : ms[x].id.word <= n
      /\ \A x, y \in 1..k : ms[x].id.word = ms[y].id.word => x = y
  BY DEF Sound
<1>6. w[k + 1] = n + 1 /\ w[k + 2] = n + 2
  BY <1>1
<1>7. \A x \in 1..(k + 2) : w[x] = both[x].id.word
  OBVIOUS
<1> HIDE DEF w, k
<1>8. Counted(w, k, n)
  BY <1>4, <1>5 DEF k, Counted
<1>9. Counted(w, k + 2, n + 2)
  BY <1>1, <1>3, <1>6, <1>8, TwoBeyond
<1> QED
  BY <1>1, <1>7, <1>9 DEF Counted

\* A call and its result, and perhaps a context, do not either.
LEMMA SoundPair ==
  ASSUME NEW ms \in Seq(Message), NEW n \in Nat, Sound(ms, n),
         NEW a \in Message, NEW t \in Message, NEW call,
         a.role = "assistant", a.calls = {call}, t.role = "tool", t.id = call,
         a.id.word = n + 1, t.id.word = n + 2, ~a.id.map, ~t.id.map
  PROVE  LET both == Append(Append(ms, a), t) IN both \in Seq(Message) /\ Sound(both, n + 2)
<1> DEFINE one == Append(ms, a)
           both == Append(one, t)
<1>1. /\ both \in Seq(Message) /\ Len(both) = Len(ms) + 2 /\ Len(ms) \in Nat
      /\ \A i \in 1..Len(ms) : both[i] = ms[i]
      /\ both[Len(ms) + 1] = a /\ both[Len(ms) + 2] = t
      /\ one \in Seq(Message)
  BY TwoBehind
<1>2. Scan(one) = [ok |-> TRUE, pending |-> {call}]
  <2>1. Scan(one) = Read(Unread, a)
    BY ScanOfMore DEF Sound, Valid
  <2>2. Read(Unread, a) = [ok |-> TRUE, pending |-> {call}]
    BY DEF Read, Unread
  <2> QED
    BY <2>1, <2>2
<1>3. Scan(both) = Unread
  <2>1. Scan(both) = Read(Scan(one), t)
    <3>1. one \in Seq(Message)
      BY <1>1
    <3> HIDE DEF one
    <3> QED
      BY <3>1, ScanOfMore
  <2>2. Read([ok |-> TRUE, pending |-> {call}], t) = [ok |-> TRUE, pending |-> {call} \ {call}]
    BY DEF Read
  <2>3. {call} \ {call} = {}
    OBVIOUS
  <2> QED
    BY <1>2, <2>1, <2>2, <2>3 DEF Unread
<1> HIDE DEF both, one
<1>4. \A x \in Message : x.id.word \in Nat
  BY DEF Message
<1>5. \A i \in 1..Len(ms) : ms[i].id.word \in Nat
  BY <1>4
<1>6. \A i \in 1..Len(both) : i \in 1..Len(ms) \/ i = Len(ms) + 1 \/ i = Len(ms) + 2
  BY <1>1
<1>7. /\ \A k \in 1..Len(ms) : both[k].id.word <= n /\ both[k].id.word \in Nat /\ ~both[k].id.map
      /\ \A k, l \in 1..Len(ms) : both[k].id.word = both[l].id.word => k = l
      /\ both[Len(ms) + 1].id.word = n + 1 /\ both[Len(ms) + 2].id.word = n + 2
      /\ ~both[Len(ms) + 1].id.map /\ ~both[Len(ms) + 2].id.map
  BY <1>1, <1>5 DEF Sound
<1>8. ASSUME NEW i \in 1..Len(both) PROVE ~both[i].id.map /\ both[i].id.word <= n + 2
  BY <1>6, <1>7
<1>9. ASSUME NEW i \in 1..Len(both), NEW j \in 1..Len(both), both[i].id.word = both[j].id.word
      PROVE  i = j
  <2>1. both \in Seq(Message) /\ Len(both) = Len(ms) + 2
    BY <1>1
  <2>2. \A k \in 1..Len(ms) : both[k] = ms[k]
    BY <1>1
  <2>3. both[Len(ms) + 1].id.word = n + 1 /\ both[Len(ms) + 2].id.word = n + 2
    BY <1>7
  <2> QED
    BY <1>9, <2>1, <2>2, <2>3, TwoApart, <1>1
<1> QED
  BY <1>1, <1>3, <1>8, <1>9 DEF Sound, Valid, both, one

LEMMA SoundRound ==
  ASSUME NEW ms \in Seq(Message), NEW n \in Nat, Sound(ms, n), NEW context \in BOOLEAN
  PROVE  LET call == Id("tool", n + 2)
             ns   == <<Assistant(Id("agent", n + 1), {call}), ToolResult(call)>>
                     \o IF context THEN <<User(Id("hook", n + 3))>> ELSE << >>
         IN  /\ ns \in Seq(Message) /\ Len(ns) \in Nat
             /\ \A i \in 1..Len(ns) : context \/ ns[i].role # "user"
             /\ ms \o ns \in Seq(Message) /\ Sound(ms \o ns, n + Len(ns))
<1> DEFINE call == Id("tool", n + 2)
           a    == Assistant(Id("agent", n + 1), {call})
           t    == ToolResult(call)
           h    == User(Id("hook", n + 3))
           ns   == <<a, t>> \o IF context THEN <<h>> ELSE << >>
           both == Append(Append(ms, a), t)
<1> SUFFICES /\ ns \in Seq(Message) /\ Len(ns) \in Nat
             /\ \A i \in 1..Len(ns) : context \/ ns[i].role # "user"
             /\ ms \o ns \in Seq(Message) /\ Sound(ms \o ns, n + Len(ns))
  OBVIOUS
<1>1. /\ a \in Message /\ t \in Message /\ h \in Message
      /\ a.id.word = n + 1 /\ t.id.word = n + 2 /\ h.id.word = n + 3
      /\ ~a.id.map /\ ~t.id.map /\ ~h.id.map
      /\ a.role = "assistant" /\ t.role = "tool" /\ h.role = "user"
      /\ a.calls = {call} /\ t.id = call
  <2>1. a \in Message /\ t \in Message /\ h \in Message
    BY WhatIsSaid
  <2> QED
    BY <2>1 DEF Id, Assistant, ToolResult, User
<1> HIDE DEF a, t, h, call
<1>2. /\ both \in Seq(Message) /\ Len(both) = Len(ms) + 2
      /\ \A i \in 1..Len(ms) : both[i] = ms[i]
      /\ both[Len(ms) + 1] = a /\ both[Len(ms) + 2] = t
  BY <1>1, TwoBehind
<1>3. Sound(both, n + 2)
  BY <1>1, SoundPair
<1> HIDE DEF both
<1>4. CASE ~context
  <2>1. ns \in Seq(Message) /\ Len(ns) = 2 /\ ns[1] = a /\ ns[2] = t
    BY <1>1, <1>4
  <2> HIDE DEF ns
  <2>2. \A i \in 1..Len(ns) : both[Len(ms) + i] = ns[i]
    <3>1. \A i \in 1..2 : i = 1 \/ i = 2
      OBVIOUS
    <3> QED
      BY <1>2, <2>1, <3>1
  <2>3. ms \o ns = both
    <3>1. Len(both) = Len(ms) + Len(ns) /\ both \in Seq(Message) /\ ns \in Seq(Message)
      BY <1>2, <2>1
    <3>2. \A i \in 1..Len(ms) : both[i] = ms[i]
      BY <1>2
    <3> QED
      BY <2>2, <3>1, <3>2, PutBehind
  <2>4. \A i \in 1..Len(ns) : ns[i].role # "user"
    BY <1>1, <2>1
  <2> QED
    BY <1>2, <1>3, <2>1, <2>3, <2>4
<1>5. CASE context
  <2>1. ns \in Seq(Message) /\ Len(ns) = 3 /\ ns[1] = a /\ ns[2] = t /\ ns[3] = h
    BY <1>1, <1>5
  <2> HIDE DEF ns
  <2> DEFINE all == Append(both, h)
  <2>2. all \in Seq(Message) /\ Sound(all, n + 3)
    BY <1>1, <1>2, <1>3, SoundMore
  <2>3. /\ Len(all) = Len(ms) + 3
        /\ \A i \in 1..Len(ms) : all[i] = ms[i]
        /\ all[Len(ms) + 1] = a /\ all[Len(ms) + 2] = t /\ all[Len(ms) + 3] = h
    BY <1>1, <1>2
  <2> HIDE DEF all
  <2>4. \A i \in 1..Len(ns) : all[Len(ms) + i] = ns[i]
    <3>1. \A i \in 1..3 : i = 1 \/ i = 2 \/ i = 3
      OBVIOUS
    <3> QED
      BY <2>1, <2>3, <3>1
  <2>5. ms \o ns = all
    <3>1. Len(all) = Len(ms) + Len(ns) /\ all \in Seq(Message) /\ ns \in Seq(Message)
      BY <2>1, <2>2, <2>3
    <3>2. \A i \in 1..Len(ms) : all[i] = ms[i]
      BY <2>3
    <3> QED
      BY <2>4, <3>1, <3>2, PutBehind
  <2> QED
    BY <1>5, <2>1, <2>2, <2>5
<1> QED
  BY <1>4, <1>5

-----------------------------------------------------------------------------
(* The agent's messages without the repo map. *)

PromptIds == [by : {"user"}, word : Nat, map : {FALSE}]

LEMMA LastUserWithin ==
  ASSUME NEW ms \in Seq(Message)
  PROVE  /\ LastUser(ms) \in 0..Len(ms)
         /\ LastUser(ms) # 0 => ms[LastUser(ms)].role = "user"
         /\ \A j \in (LastUser(ms) + 1)..Len(ms) : ms[j].role # "user"
<1> DEFINE S == {0} \cup {i \in 1..Len(ms) : ms[i].role = "user"}
<1>1. Len(ms) \in Nat
  OBVIOUS
<1>2. S \in SUBSET (0..Len(ms)) /\ S # {}
  BY <1>1
<1>3. Most(S) \in S /\ \A k \in S : k <= Most(S)
  <2> HIDE DEF S
  <2> QED
    BY <1>1, <1>2, GreatestNatural
<1>4. PICK k \in S : k = Most(S)
  BY <1>3
<1>5. k \in 0..Len(ms) /\ (k # 0 => ms[k].role = "user")
  BY <1>1
<1>6. ASSUME NEW j \in (k + 1)..Len(ms) PROVE ms[j].role # "user"
  <2>1. j \in 1..Len(ms) /\ ~(j <= k)
    BY <1>1, <1>5
  <2>2. j \notin S
    <3> HIDE DEF S
    <3> QED
      BY <1>3, <1>4, <2>1
  <2> QED
    BY <2>1, <2>2
<1>7. LastUser(ms) = k
  BY <1>4 DEF LastUser
<1> HIDE DEF S
<1> QED
  BY <1>5, <1>6, <1>7

LEMMA OwnIs ==
  ASSUME NEW ms \in Seq(Message), NEW id \in PromptIds
  PROVE  /\ Own(ms, id) \in Seq(Message) /\ Len(Own(ms, id)) = Len(ms)
         /\ \A i \in 1..Len(ms) :
               Own(ms, id)[i] = IF "map" \in Contexts /\ i = LastUser(ms)
                                THEN [ms[i] EXCEPT !.id = id] ELSE ms[i]
<1> DEFINE k == LastUser(ms)
<1>1. CASE "map" \notin Contexts
  BY <1>1 DEF Own
<1>2. CASE "map" \in Contexts /\ k = 0
  BY <1>2 DEF Own, Restore
<1>3. CASE "map" \in Contexts /\ k # 0
  <2> DEFINE m == [ms[k] EXCEPT !.id = id]
             R == Own(ms, id)
  <2>1. k \in 1..Len(ms)
    <3>1. k \in 0..Len(ms) /\ Len(ms) \in Nat
      BY LastUserWithin
    <3> HIDE DEF k
    <3> QED
      BY <1>3, <3>1
  <2>2. m \in Message
    <3>1. ms[k] \in Message
      BY <2>1
    <3> QED
      BY <3>1 DEF Message, PromptIds
  <2>3. R = [ms EXCEPT ![k] = m]
    BY <1>3 DEF Own, Restore
  <2>4. \A i \in 1..Len(ms) : i = k => [ms[i] EXCEPT !.id = id] = m
    OBVIOUS
  <2> HIDE DEF m, R, k
  <2>5. R \in Seq(Message) /\ Len(R) = Len(ms)
        /\ \A i \in 1..Len(ms) : R[i] = IF i = k THEN m ELSE ms[i]
    BY <2>1, <2>2, <2>3
  <2> QED
    BY <1>3, <2>4, <2>5 DEF R, k
<1> QED
  BY <1>1, <1>2, <1>3

\* What the agent adds is behind its own messages, if the prompt stays the last of the user.
LEMMA OwnMore ==
  ASSUME NEW ms \in Seq(Message), NEW ns \in Seq(Message), NEW id \in PromptIds,
         "map" \in Contexts => \A i \in 1..Len(ns) : ns[i].role # "user"
  PROVE  Own(ms \o ns, id) = Own(ms, id) \o ns
<1>1. CASE "map" \notin Contexts
  BY <1>1 DEF Own
<1>2. CASE "map" \in Contexts
  <2> DEFINE both == ms \o ns
             k    == LastUser(ms)
             own  == Own(ms, id)
             all  == Own(both, id)
  <2>1. /\ both \in Seq(Message) /\ Len(both) = Len(ms) + Len(ns)
        /\ Len(ms) \in Nat /\ Len(ns) \in Nat
        /\ \A i \in 1..Len(ms) : both[i] = ms[i]
        /\ \A i \in 1..Len(ns) : both[Len(ms) + i] = ns[i]
    OBVIOUS
  <2> HIDE DEF both
  <2>2. /\ k \in 0..Len(ms) /\ (k # 0 => ms[k].role = "user")
        /\ \A j \in (k + 1)..Len(ms) : ms[j].role # "user"
    BY LastUserWithin
  <2> HIDE DEF k
  <2>3. LastUser(both) = k
    <3>1. k \in 0..Len(both) /\ (k # 0 => both[k].role = "user")
      <4>1. k \in 0..Len(both) /\ (k # 0 => k \in 1..Len(ms))
        BY <2>1, <2>2
      <4> QED
        BY <2>1, <2>2, <4>1
    <3>2. \A j \in (k + 1)..Len(both) : both[j].role # "user"
      <4> SUFFICES ASSUME NEW j \in (k + 1)..Len(both) PROVE both[j].role # "user"
        OBVIOUS
      <4>1. CASE j <= Len(ms)
        BY <2>1, <2>2, <4>1
      <4>2. CASE ~(j <= Len(ms))
        <5>1. j - Len(ms) \in 1..Len(ns) /\ Len(ms) + (j - Len(ms)) = j
          BY <2>1, <2>2, <4>2
        <5>2. both[j] = ns[j - Len(ms)]
          BY <2>1, <5>1
        <5> QED
          BY <1>2, <5>1, <5>2
      <4> QED
        BY <4>1, <4>2
    <3> QED
      BY <2>1, <3>1, <3>2, LastUserIs
  <2>4. /\ own \in Seq(Message) /\ Len(own) = Len(ms)
        /\ \A i \in 1..Len(ms) : own[i] = IF i = k THEN [ms[i] EXCEPT !.id = id] ELSE ms[i]
    BY <1>2, OwnIs DEF k
  <2>5. /\ all \in Seq(Message) /\ Len(all) = Len(both)
        /\ \A i \in 1..Len(both) : all[i] = IF i = k THEN [both[i] EXCEPT !.id = id] ELSE both[i]
    BY <1>2, <2>1, <2>3, OwnIs
  <2> HIDE DEF own, all
  <2>6. \A i \in 1..Len(own) : all[i] = own[i]
    <3>1. \A i \in 1..Len(ms) : i \in 1..Len(both)
      BY <2>1
    <3> QED
      BY <2>1, <2>4, <2>5, <3>1
  <2>7. \A i \in 1..Len(ns) : all[Len(own) + i] = ns[i]
    <3>1. \A i \in 1..Len(ns) : Len(ms) + i \in 1..Len(both) /\ Len(ms) + i # k
      BY <2>1, <2>2
    <3> QED
      BY <2>1, <2>4, <2>5, <3>1
  <2>8. Len(all) = Len(own) + Len(ns)
    BY <2>1, <2>4, <2>5
  <2>9. own \o ns = all
    BY <2>4, <2>5, <2>6, <2>7, <2>8, PutBehind
  <2> QED
    BY <2>9 DEF own, all, both
<1> QED
  BY <1>1, <1>2

\* The end of a transcript has its own messages at its end.
LEMMA OwnOfEnd ==
  ASSUME NEW ms \in Seq(Message), NEW id \in PromptIds, NEW c \in 0..Len(ms)
  PROVE  Own(SubSeq(ms, c + 1, Len(ms)), id) = SubSeq(Own(ms, id), c + 1, Len(ms))
<1> DEFINE end == SubSeq(ms, c + 1, Len(ms))
           k   == LastUser(ms)
           own == Own(ms, id)
           all == Own(end, id)
           cut == SubSeq(own, c + 1, Len(ms))
<1>1. /\ end \in Seq(Message) /\ Len(end) = Len(ms) - c /\ Len(ms) \in Nat
      /\ \A i \in 1..(Len(ms) - c) : end[i] = ms[i + c]
  OBVIOUS
<1> HIDE DEF end
<1>2. CASE "map" \notin Contexts
  BY <1>2 DEF Own, end
<1>3. CASE "map" \in Contexts
  <2>1. /\ k \in 0..Len(ms) /\ (k # 0 => ms[k].role = "user")
        /\ \A j \in (k + 1)..Len(ms) : ms[j].role # "user"
    BY LastUserWithin
  <2>2. /\ own \in Seq(Message) /\ Len(own) = Len(ms)
        /\ \A i \in 1..Len(ms) : own[i] = IF i = k THEN [ms[i] EXCEPT !.id = id] ELSE ms[i]
    BY <1>3, OwnIs
  <2> HIDE DEF k, own
  <2>3. /\ cut \in Seq(Message) /\ Len(cut) = Len(ms) - c
        /\ \A i \in 1..(Len(ms) - c) : cut[i] = own[i + c]
    BY <1>1, <2>2
  <2> HIDE DEF cut
  <2>4. PICK l \in 0..Len(end) : (k <= c => l = 0) /\ (~(k <= c) => l = k - c)
    <3>1. CASE k <= c
      <4>1. 0 \in 0..Len(end)
        BY <1>1
      <4> QED
        BY <3>1, <4>1
    <3>2. CASE ~(k <= c)
      <4>1. k - c \in 0..Len(end)
        BY <1>1, <2>1, <3>2
      <4> QED
        BY <3>2, <4>1
    <3> QED
      BY <3>1, <3>2
  <2>5. LastUser(end) = l
    <3>1. l # 0 => end[l].role = "user"
      <4> SUFFICES ASSUME l # 0 PROVE end[l].role = "user"
        OBVIOUS
      <4>1. l = k - c /\ l \in Nat /\ k \in Nat /\ c \in Nat
        BY <1>1, <2>1, <2>4
      <4>2. l \in 1..(Len(ms) - c) /\ l + c = k /\ k # 0
        BY <1>1, <2>1, <4>1
      <4> QED
        BY <1>1, <2>1, <4>2
    <3>2. ASSUME NEW j \in (l + 1)..Len(end) PROVE end[j].role # "user"
      <4>1. j \in 1..(Len(ms) - c) /\ j + c \in (k + 1)..Len(ms)
        BY <1>1, <2>1, <2>4
      <4> QED
        BY <1>1, <2>1, <4>1
    <3> QED
      BY <1>1, <3>1, <3>2, LastUserIs
  <2>6. /\ all \in Seq(Message) /\ Len(all) = Len(end)
        /\ \A i \in 1..Len(end) : all[i] = IF i = l THEN [end[i] EXCEPT !.id = id] ELSE end[i]
    BY <1>1, <1>3, <2>5, OwnIs
  <2> HIDE DEF all
  <2>7. ASSUME NEW i \in 1..(Len(ms) - c) PROVE all[i] = cut[i]
    <3>1. i + c \in 1..Len(ms) /\ (i = l <=> i + c = k) /\ i \in 1..Len(end)
      BY <1>1, <2>1, <2>4
    <3>2. all[i] = IF i + c = k THEN [ms[i + c] EXCEPT !.id = id] ELSE ms[i + c]
      BY <1>1, <2>6, <3>1
    <3>3. cut[i] = IF i + c = k THEN [ms[i + c] EXCEPT !.id = id] ELSE ms[i + c]
      BY <2>2, <2>3, <3>1
    <3> QED
      BY <3>2, <3>3
  <2>8. all = cut
    BY <1>1, <2>3, <2>6, <2>7, SeqEqual
  <2> QED
    BY <2>8 DEF all, cut, own, end
<1> QED
  BY <1>2, <1>3

\* The repo map takes no part in the pairing of calls and results.
LEMMA OwnIsValid ==
  ASSUME NEW ms \in Seq(Message), NEW id \in PromptIds
  PROVE  Valid(Own(ms, id)) <=> Valid(ms)
<1> DEFINE k   == LastUser(ms)
           own == Own(ms, id)
<1>1. /\ own \in Seq(Message) /\ Len(own) = Len(ms)
      /\ \A i \in 1..Len(ms) :
            own[i] = IF "map" \in Contexts /\ i = k THEN [ms[i] EXCEPT !.id = id] ELSE ms[i]
  BY OwnIs
<1>2. k # 0 => ms[k].role = "user"
  BY LastUserWithin
<1> HIDE DEF k, own
<1>3. ASSUME NEW i \in 1..Len(own) PROVE \A state : Read(state, own[i]) = Read(state, ms[i])
  <2>1. CASE own[i] = ms[i]
    BY <2>1
  <2>2. CASE own[i] # ms[i]
    <3>1. i \in 1..Len(ms) /\ Len(ms) \in Nat
      BY <1>1
    <3>2. i = k /\ own[i] = [ms[i] EXCEPT !.id = id] /\ i # 0
      BY <1>1, <2>2, <3>1
    <3>3. ms[i].role = "user" /\ ms[i] \in Message
      BY <1>2, <3>1, <3>2
    <3>4. own[i].role = "user"
      BY <3>2, <3>3 DEF Message
    <3>5. \A state : \A m : m.role = "user" =>
             Read(state, m) = [state EXCEPT !.ok = @ /\ state.pending = {}]
      BY Zenon DEF Read
    <3> QED
      BY <3>3, <3>4, <3>5
  <2> QED
    BY <2>1, <2>2
<1>4. ReadAlike(own, ms, Len(own))
  BY <1>3 DEF ReadAlike
<1>5. Valid(own) <=> Valid(ms)
  BY <1>1, <1>4, ScanAlike
<1> QED
  BY <1>5 DEF own

LEMMA SameMessage ==
  ASSUME NEW x \in Message, NEW y \in Message,
         x.role = y.role, x.calls = y.calls, x.id = y.id
  PROVE  x = y
  BY DEF Message

\* A turn starts on a transcript that ends with its prompt, and with the repo map in it.
LEMMA OwnOfPrompt ==
  ASSUME NEW ms \in Seq(Message), NEW id \in PromptIds,
         ms # << >> => ms[Len(ms)] = User(id)
  PROVE  LET ws == IF "map" \in Contexts THEN FoldMap(ms) ELSE ms IN
         ws \in Seq(Message) /\ Own(ws, id) = ms
<1> DEFINE ws  == IF "map" \in Contexts THEN FoldMap(ms) ELSE ms
           own == Own(ws, id)
           n   == Len(ms)
<1>1. CASE "map" \notin Contexts
  BY <1>1 DEF Own
<1>2. CASE "map" \in Contexts
  <2>1. n \in Nat /\ (n # 0 => ms # << >>)
    OBVIOUS
  <2>2. n # 0 => /\ ms[n].role = "user" /\ ms[n] = [role |-> "user", id |-> id, calls |-> {}]
    BY <2>1 DEF User
  <2>3. LastUser(ms) = n
    BY <2>1, <2>2, LastUserIs
  <2>4. ws \in Seq(Message) /\ Len(ws) = n
        /\ \A i \in 1..n : /\ ws[i].role = ms[i].role /\ ws[i].calls = ms[i].calls
                           /\ i # n => ws[i] = ms[i]
    <3> DEFINE m == [ms[n] EXCEPT !.id.map = TRUE]
    <3>1. /\ FoldMap(ms) \in Seq(Message) /\ Len(FoldMap(ms)) = n
          /\ \A i \in 1..n : FoldMap(ms)[i].role = ms[i].role
      BY MapFolded
    <3>2. ws = [ms EXCEPT ![n] = m]
      BY <1>2, <2>3 DEF FoldMap
    <3>3. n \in 1..n => m.calls = ms[n].calls
      <4>1. n \in 1..n => ms[n] \in Message
        OBVIOUS
      <4> QED
        BY <4>1 DEF Message
    <3>4. ws = FoldMap(ms)
      BY <1>2
    <3> HIDE DEF ws, m
    <3>5. \A i \in 1..n : ws[i] = IF i = n THEN m ELSE ms[i]
      BY <3>2
    <3> QED
      BY <3>1, <3>3, <3>4, <3>5
  <2> HIDE DEF ws, n
  <2>5. LastUser(ws) = n
    <3>1. n \in 0..Len(ws) /\ (n # 0 => n \in 1..n)
      BY <2>1, <2>4
    <3>2. n # 0 => ws[n].role = "user"
      BY <2>2, <2>4, <3>1
    <3>3. \A j \in (n + 1)..Len(ws) : ws[j].role # "user"
      BY <2>1, <2>4
    <3> QED
      BY <2>4, <3>1, <3>2, <3>3, LastUserIs
  <2>6. /\ own \in Seq(Message) /\ Len(own) = Len(ws)
        /\ \A i \in 1..Len(ws) : own[i] = IF i = n THEN [ws[i] EXCEPT !.id = id] ELSE ws[i]
    <3>1. \A i \in 1..Len(ws) :
             own[i] = IF "map" \in Contexts /\ i = LastUser(ws) THEN [ws[i] EXCEPT !.id = id] ELSE ws[i]
      BY <2>4, OwnIs
    <3>2. own \in Seq(Message) /\ Len(own) = Len(ws)
      BY <2>4, OwnIs
    <3> HIDE DEF own
    <3> QED
      BY <1>2, <2>5, <3>1, <3>2
  <2> HIDE DEF own
  <2>7. ASSUME NEW i \in 1..n PROVE own[i] = ms[i]
    <3>1. CASE i # n
      BY <2>4, <2>6, <3>1
    <3>2. CASE i = n
      <4> DEFINE w == ws[i]
                 x == own[i]
                 y == ms[i]
      <4>1. w \in Message /\ w.role = "user" /\ w.calls = {}
        BY <2>1, <2>2, <2>4, <3>2
      <4>2. x = [w EXCEPT !.id = id]
        BY <2>4, <2>6, <3>2
      <4>3. y = [role |-> "user", id |-> id, calls |-> {}]
        BY <2>1, <2>2, <3>2
      <4>4. x \in Message /\ y \in Message
        BY <2>4, <2>6 DEF n
      <4> HIDE DEF w, x, y
      <4>5. x.role = "user" /\ x.calls = {} /\ x.id = id
        BY <4>1, <4>2 DEF Message
      <4>6. y.role = "user" /\ y.calls = {} /\ y.id = id
        BY <4>3
      <4>7. x = y
        BY <4>4, <4>5, <4>6, SameMessage
      <4> QED
        BY <4>7 DEF x, y
    <3> QED
      BY <3>1, <3>2
  <2>8. own = ms
    BY <2>4, <2>6, <2>7, SeqEqual DEF n
  <2> QED
    BY <2>4, <2>8 DEF own, ws
<1> QED
  BY <1>1, <1>2

\* The end of what may be saved, if it is valid, may be saved.
LEMMA SoundEnd ==
  ASSUME NEW ms \in Seq(Message), NEW n, Sound(ms, n), NEW c \in 0..Len(ms),
         Valid(SubSeq(ms, c + 1, Len(ms)))
  PROVE  Sound(SubSeq(ms, c + 1, Len(ms)), n)
<1> DEFINE end == SubSeq(ms, c + 1, Len(ms))
<1>1. /\ end \in Seq(Message) /\ Len(end) = Len(ms) - c /\ Len(ms) \in Nat
      /\ \A i \in 1..(Len(ms) - c) : end[i] = ms[i + c]
  OBVIOUS
<1> HIDE DEF end
<1>2. \A i \in 1..Len(end) : i + c \in 1..Len(ms) /\ end[i] = ms[i + c]
  BY <1>1
<1>3. \A i \in 1..Len(end) : ~end[i].id.map /\ end[i].id.word <= n
  BY <1>2 DEF Sound
<1>4. ASSUME NEW i \in 1..Len(end), NEW j \in 1..Len(end), end[i].id.word = end[j].id.word
      PROVE  i = j
  <2> DEFINE a == i + c
             b == j + c
  <2>1. a \in 1..Len(ms) /\ b \in 1..Len(ms) /\ ms[a].id.word = ms[b].id.word
    BY <1>2, <1>4
  <2> HIDE DEF a, b
  <2>2. a = b
    BY <2>1 DEF Sound
  <2>3. i + c = j + c
    BY <2>2 DEF a, b
  <2> QED
    BY <1>1, <2>3
<1>5. Valid(end)
  BY DEF end
<1> QED
  BY <1>3, <1>4, <1>5 DEF Sound, end

-----------------------------------------------------------------------------
(* Each step keeps the transcripts. *)

\* What the invariant says of the file and the transcript at hand.
LEMMA StoryNow ==
  ASSUME StoryInv
  PROVE  /\ files \in Seq(SessionFile) /\ told \in Seq(Summaries) /\ Len(told) = Len(files)
         /\ current \in 1..Len(files) /\ files[current] \in SessionFile
         /\ told[current] \in Summaries
         /\ files[current].body = messages /\ messages \in Seq(Message) /\ work \in Seq(Message)
         /\ words \in Nat /\ Sound(messages, words) /\ prompt \in PromptIds
         /\ summary \in Summaries /\ system \in SUBSET Summaries
<1>1. /\ files \in Seq(SessionFile) /\ told \in Seq(Summaries) /\ Len(told) = Len(files)
      /\ current \in 1..Len(files) /\ words \in Nat
      /\ messages \in Seq(Message) /\ work \in Seq(Message)
      /\ summary \in Summaries /\ system \in SUBSET Summaries
  BY DEF StoryInv, CvTypeOK, Texts
<1>2. files[current].body = messages /\ Sound(files[current].body, words)
  BY <1>1 DEF StoryInv, FilesInv
<1>3. prompt \in PromptIds
  <2>1. prompt \in [by : {"user"}, word : 0..words, map : {FALSE}]
    BY DEF StoryInv, CvTypeOK
  <2>2. 0..words \subseteq Nat
    BY <1>1
  <2> QED
    BY <2>1, <2>2 DEF PromptIds
<1>4. files[current] \in SessionFile /\ told[current] \in Summaries
  BY <1>1
<1> QED
  BY <1>1, <1>2, <1>3, <1>4

LEMMA StoryPrepared ==
  ASSUME StoryInv
  PROVE  /\ Prepared(files[current]) \in SessionFile
         /\ Prepared(files[current]).body = messages
<1>1. /\ files[current] \in SessionFile /\ files[current].body = messages
      /\ summary \in Summaries
  BY StoryNow
<1> QED
  BY <1>1 DEF Prepared, SessionFile

\* A turn that ends leaves nothing of itself.
LEMMA NoTurnLeft ==
  ASSUME NoTurn, words' \in Nat
  PROVE  /\ work' \in Texts /\ {shown', guard'} \subseteq Summaries /\ rewritten' = FALSE
         /\ prompt' \in [by : {"user"}, word : 0..words', map : {FALSE}]
         /\ {rounds', compactions'} \subseteq Nat /\ Valid(work')
<1>1. << >> \in Seq(Message)
  OBVIOUS
<1>2. /\ work' = << >> /\ shown' = {} /\ guard' = {} /\ rewritten' = FALSE
      /\ prompt' = Id("user", 0) /\ rounds' = 0 /\ compactions' = 0
  BY DEF NoTurn
<1>3. Id("user", 0) \in [by : {"user"}, word : 0..words', map : {FALSE}]
  BY DEF Id
<1>4. work' \in Texts /\ Valid(work')
  BY <1>1, <1>2, ScanOfNone DEF Texts
<1>5. {shown', guard'} \subseteq Summaries
  BY <1>2 DEF Summaries
<1>6. {rounds', compactions'} \subseteq Nat
  BY <1>2
<1>7. rewritten' = FALSE /\ prompt' \in [by : {"user"}, word : 0..words', map : {FALSE}]
  BY <1>2, <1>3
<1> QED
  BY <1>4, <1>5, <1>6, <1>7

LEMMA StoryRouting == StoryInv /\ CancelRouting => StoryInv'
<1> SUFFICES ASSUME StoryInv, CancelRouting PROVE StoryInv'
  OBVIOUS
<1> DEFINE F == Prepared(files[current])
           T == told[current]
<1>1. /\ told \in Seq(Summaries) /\ current \in 1..Len(told) /\ T \in Summaries
      /\ words \in Nat /\ Sound(messages, words) /\ summary \in Summaries
  BY StoryNow
<1>2. F \in SessionFile /\ F.body = messages
  BY StoryPrepared
<1>3. /\ files' = [files EXCEPT ![current] = F] /\ told' = told /\ current' = current
      /\ messages' = messages /\ words' = words /\ system' = {summary}
      /\ UNCHANGED <<phase, summary, turn>>
  BY DEF CancelRouting
<1>4. told' = [told EXCEPT ![current] = T]
  BY <1>1, <1>3
<1> HIDE DEF F, T
<1>5. /\ FilesInv' /\ files' \in Seq(SessionFile) /\ told' \in Seq(Summaries)
      /\ Len(told') = Len(files') /\ current' \in 1..Len(files') /\ messages' \in Texts
  <2>1. CvTypeOK /\ FilesInv
    BY DEF StoryInv
  <2>2. words <= words' /\ words' \in Nat /\ Sound(F.body, words') /\ messages' = F.body
    BY <1>1, <1>2, <1>3
  <2> QED
    BY <1>1, <1>2, <1>3, <1>4, <2>1, <2>2, FileWritten
<1>6. CvTypeOK'
  BY <1>1, <1>3, <1>5 DEF StoryInv, CvTypeOK, turn
<1>7. WorkInv'
  BY <1>3 DEF StoryInv, WorkInv, turn, CancelRouting
<1> QED
  BY <1>5, <1>6, <1>7 DEF StoryInv

LEMMA StorySubmit == StoryInv /\ Submit => StoryInv'
<1> SUFFICES ASSUME StoryInv, Submit PROVE StoryInv'
  OBVIOUS
<1> DEFINE u == User(prompt')
           F == WithSaved(Prepared(files[current]), <<u>>)
           T == told[current] \cup {words'}
<1>1. /\ told[current] \in Summaries /\ words \in Nat /\ Sound(messages, words)
      /\ summary \in Summaries /\ messages \in Seq(Message) /\ Len(messages) \in Nat
  BY StoryNow
<1>2. /\ phase' = "prepare" /\ words' = words + 1 /\ prompt' = Id("user", words')
      /\ messages' = messages \o <<u>> /\ files' = [files EXCEPT ![current] = F]
      /\ told' = [told EXCEPT ![current] = T] /\ system' = {summary} /\ phase = "idle"
      /\ UNCHANGED <<summary, current, work, shown, guard, rewritten, rounds, compactions>>
  BY DEF Submit
<1>3. u \in Message /\ u.id.word = words + 1 /\ ~u.id.map /\ u.role = "user"
  <2>1. u \in Message
    BY <1>1, <1>2, WhatIsSaid
  <2> QED
    BY <1>2, <2>1 DEF User, Id
<1> HIDE DEF u
<1>4. messages' = Append(messages, u) /\ messages \o <<u>> = Append(messages, u)
  BY <1>1, <1>2, <1>3, AppendIsConcat
<1>5. messages' \in Seq(Message) /\ Sound(messages', words')
  <2>1. words' \in Nat /\ u.id.word > words /\ u.id.word <= words'
    BY <1>1, <1>2, <1>3
  <2> QED
    BY <1>1, <1>3, <1>4, <2>1, SoundMore
<1>6. F \in SessionFile /\ F.body = messages'
  <2> DEFINE P == Prepared(files[current])
  <2>1. P \in SessionFile /\ P.body = messages
    BY StoryPrepared
  <2> HIDE DEF P
  <2>2. F = [P EXCEPT !.body = messages']
    BY <1>2, <2>1 DEF WithSaved, P
  <2> QED
    BY <1>5, <2>1, <2>2 DEF SessionFile, Texts
<1>7. T \in Summaries
  BY <1>1, <1>2 DEF Summaries
<1> HIDE DEF F, T
<1>8. /\ FilesInv' /\ files' \in Seq(SessionFile) /\ told' \in Seq(Summaries)
      /\ Len(told') = Len(files') /\ current' \in 1..Len(files') /\ messages' \in Texts
  <2>1. CvTypeOK /\ FilesInv
    BY DEF StoryInv
  <2>2. words <= words' /\ words' \in Nat /\ Sound(F.body, words') /\ messages' = F.body
    BY <1>1, <1>2, <1>5, <1>6
  <2> QED
    BY <1>2, <1>6, <1>7, <2>1, <2>2, FileWritten
<1>9. CvTypeOK'
  <2>1. prompt' \in [by : {"user"}, word : 0..words', map : {FALSE}] /\ words' \in Nat
    BY <1>1, <1>2 DEF Id
  <2>2. /\ work' \in Texts /\ {summary', shown', guard'} \subseteq Summaries
        /\ rewritten' \in BOOLEAN /\ {words', rounds', compactions'} \subseteq Nat
    BY <1>2, <2>1 DEF StoryInv, CvTypeOK
  <2> QED
    BY <1>1, <1>2, <1>8, <2>1, <2>2 DEF CvTypeOK
<1>10. WorkInv'
  <2>1. messages' # << >> /\ messages'[Len(messages')] = User(prompt')
    BY <1>1, <1>3, <1>4 DEF u
  <2> QED
    BY <1>2, <2>1 DEF StoryInv, WorkInv
<1> QED
  BY <1>8, <1>9, <1>10 DEF StoryInv

LEMMA StoryNoTurn ==
  ASSUME StoryInv, NoTurn, UNCHANGED <<session, words>>, phase' \in {"idle", "down"}
  PROVE  StoryInv'
<1>1. /\ messages' = messages /\ system' = system /\ summary' = summary /\ files' = files
      /\ current' = current /\ told' = told /\ words' = words
  BY DEF session
<1>2. words' \in Nat
  BY <1>1, StoryNow
<1>3. /\ work' \in Texts /\ {shown', guard'} \subseteq Summaries /\ rewritten' = FALSE
      /\ prompt' \in [by : {"user"}, word : 0..words', map : {FALSE}]
      /\ {rounds', compactions'} \subseteq Nat /\ Valid(work')
  BY <1>2, NoTurnLeft
<1>4. CvTypeOK'
  <2>1. /\ messages' \in Texts /\ summary' \in Summaries /\ system' \in SUBSET Summaries
        /\ files' \in Seq(SessionFile) /\ told' \in Seq(Summaries)
        /\ Len(told') = Len(files') /\ current' \in 1..Len(files')
    BY <1>1 DEF StoryInv, CvTypeOK
  <2> QED
    BY <1>2, <1>3, <2>1 DEF CvTypeOK
<1>5. FilesInv'
  BY <1>1 DEF StoryInv, FilesInv
<1>6. WorkInv'
  BY <1>3 DEF WorkInv
<1> QED
  BY <1>4, <1>5, <1>6 DEF StoryInv

\* A turn starts on a transcript that ends with its prompt, if there is one.
LEMMA StoryStart ==
  ASSUME StoryInv, StartAgent, FilesInv',
         messages' \in Seq(Message), messages' # << >> => messages'[Len(messages')] = User(prompt),
         phase = "prepare",
         summary' \in Summaries, system' \in SUBSET Summaries,
         files' \in Seq(SessionFile), told' \in Seq(Summaries),
         Len(told') = Len(files'), current' \in 1..Len(files')
  PROVE  StoryInv'
<1>1. words \in Nat /\ prompt \in PromptIds
  BY StoryNow
<1>2. /\ phase' = "turn" /\ shown' = summary' /\ guard' = summary'
      /\ work' = (IF "map" \in Contexts THEN FoldMap(messages') ELSE messages')
      /\ UNCHANGED <<prompt, rewritten, rounds, compactions, words>>
  BY DEF StartAgent
<1>3. work' \in Seq(Message) /\ Own(work', prompt) = messages'
  BY <1>1, <1>2, OwnOfPrompt
<1>4. Sound(messages', words')
  BY DEF FilesInv
<1>5. Valid(work')
  BY <1>1, <1>3, <1>4, OwnIsValid DEF Sound
<1>6. CvTypeOK'
  <2>1. /\ work' \in Texts /\ messages' \in Texts /\ {summary', shown', guard'} \subseteq Summaries
        /\ prompt' \in [by : {"user"}, word : 0..words', map : {FALSE}]
    BY <1>2, <1>3 DEF StoryInv, CvTypeOK, Texts
  <2>2. rewritten' \in BOOLEAN /\ {words', rounds', compactions'} \subseteq Nat
    BY <1>2 DEF StoryInv, CvTypeOK
  <2> QED
    BY <1>2, <2>1, <2>2 DEF CvTypeOK
<1>7. WorkInv'
  <2>1. Len(messages') <= Len(work')
    <3>1. Len(Own(work', prompt)) = Len(work') /\ Len(work') \in Nat
      BY <1>1, <1>3, OwnIs
    <3> QED
      BY <1>3, <3>1
  <2>2. /\ Sound(Own(work', prompt'), words')
        /\ \A i \in 1..Len(messages') : Own(work', prompt')[i] = messages'[i]
    BY <1>2, <1>3, <1>4
  <2> QED
    BY <1>2, <1>5, <2>1, <2>2 DEF WorkInv
<1> QED
  BY <1>6, <1>7 DEF StoryInv

LEMMA StoryStartTurn == StoryInv /\ StartTurn => StoryInv'
<1> SUFFICES ASSUME StoryInv, StartTurn PROVE StoryInv'
  OBVIOUS
<1>1. /\ files \in Seq(SessionFile) /\ told \in Seq(Summaries) /\ Len(told) = Len(files)
      /\ current \in 1..Len(files) /\ messages \in Seq(Message) /\ summary \in Summaries
  BY StoryNow
<1>2. /\ phase = "prepare" /\ StartAgent /\ system' = {summary}
      /\ UNCHANGED <<messages, summary, files, current, told>>
  BY DEF StartTurn
<1>3. messages # << >> => messages[Len(messages)] = User(prompt)
  BY <1>2 DEF StoryInv, WorkInv
<1>4. words' = words
  BY <1>2 DEF StartAgent
<1>5. FilesInv'
  BY <1>2, <1>4 DEF StoryInv, FilesInv
<1> QED
  BY <1>1, <1>2, <1>3, <1>5, StoryStart

\* Compaction of the session's transcript writes a file of its own.
LEMMA StoryCompacted ==
  ASSUME StoryInv, CompactSession, words' = words
  PROVE  /\ FilesInv' /\ files' \in Seq(SessionFile) /\ told' \in Seq(Summaries)
         /\ Len(told') = Len(files') /\ current' \in 1..Len(files')
         /\ messages' \in Seq(Message) /\ messages' \in Texts
         /\ summary' \in Summaries /\ system' \in SUBSET Summaries
         /\ messages' # << >> => messages'[Len(messages')] = messages[Len(messages)]
<1> DEFINE F == [system |-> system', body |-> messages']
           T == told[current]
<1>1. /\ T \in Summaries /\ messages \in Seq(Message) /\ words \in Nat /\ Len(messages) \in Nat
      /\ Sound(messages, words) /\ summary \in Summaries
  BY StoryNow
<1>2. /\ messages' = Kept(messages, KeepMessages) /\ system' = {summary'}
      /\ summary' = summary \cup Words(Older(messages))
      /\ files' = Append(files, F) /\ told' = Append(told, T) /\ current' = Len(files) + 1
  BY DEF CompactSession, Folded, Rewrite
<1>3. PICK c \in 0..Len(messages) : /\ messages' = SubSeq(messages, c + 1, Len(messages))
                                    /\ Valid(messages) => Valid(messages')
  BY <1>1, <1>2, KeptIsEnd
<1>4. /\ messages' \in Seq(Message) /\ Len(messages') = Len(messages) - c
      /\ \A i \in 1..Len(messages') : messages'[i] = messages[i + c]
  BY <1>1, <1>3
<1>5. Sound(messages', words')
  BY <1>1, <1>3, SoundEnd DEF Sound
<1>6. summary' \in Summaries
  <2>1. Words(Older(messages)) \subseteq Nat
    BY <1>1, OlderIsSaid DEF Texts
  <2> QED
    BY <1>1, <1>2, <2>1 DEF Summaries
<1>7. F \in SessionFile /\ F.body = messages'
  BY <1>2, <1>4, <1>6 DEF SessionFile, Texts
<1> HIDE DEF F, T
<1>8. /\ FilesInv' /\ files' \in Seq(SessionFile) /\ told' \in Seq(Summaries)
      /\ Len(told') = Len(files') /\ current' \in 1..Len(files') /\ messages' \in Texts
  <2>1. CvTypeOK /\ FilesInv
    BY DEF StoryInv
  <2>2. words <= words' /\ words' \in Nat /\ Sound(F.body, words') /\ messages' = F.body
    BY <1>1, <1>5, <1>7
  <2> QED
    BY <1>1, <1>2, <1>7, <2>1, <2>2, FileWritten
<1>9. messages' # << >> => messages'[Len(messages')] = messages[Len(messages)]
  <2> SUFFICES ASSUME messages' # << >> PROVE messages'[Len(messages')] = messages[Len(messages)]
    OBVIOUS
  <2>1. Len(messages') \in 1..Len(messages') /\ Len(messages') + c = Len(messages)
    BY <1>1, <1>4
  <2> QED
    BY <1>4, <2>1
<1> QED
  BY <1>2, <1>4, <1>6, <1>8, <1>9

LEMMA StoryCompactAndStart == StoryInv /\ CompactAndStart => StoryInv'
<1> SUFFICES ASSUME StoryInv, CompactAndStart PROVE StoryInv'
  OBVIOUS
<1>1. phase = "prepare" /\ CompactSession /\ StartAgent /\ words' = words
  BY DEF CompactAndStart, StartAgent
<1>2. messages[Len(messages)] = User(prompt)
  BY <1>1 DEF StoryInv, WorkInv
<1> QED
  BY <1>1, <1>2, StoryCompacted, StoryStart

LEMMA StoryCompactCommand == StoryInv /\ CompactCommand => StoryInv'
<1> SUFFICES ASSUME StoryInv, CompactCommand PROVE StoryInv'
  OBVIOUS
<1>1. /\ phase = "idle" /\ CompactSession /\ phase' = "idle" /\ words' = words
      /\ UNCHANGED <<prompt, work, shown, guard, rewritten, rounds, compactions>>
  BY DEF CompactCommand, turn
<1>2. /\ FilesInv' /\ files' \in Seq(SessionFile) /\ told' \in Seq(Summaries)
      /\ Len(told') = Len(files') /\ current' \in 1..Len(files')
      /\ messages' \in Texts /\ summary' \in Summaries /\ system' \in SUBSET Summaries
  BY <1>1, StoryCompacted
<1>3. CvTypeOK'
  <2>1. /\ work' \in Texts /\ {summary', shown', guard'} \subseteq Summaries
        /\ prompt' \in [by : {"user"}, word : 0..words', map : {FALSE}]
        /\ rewritten' \in BOOLEAN /\ {words', rounds', compactions'} \subseteq Nat
    BY <1>1, <1>2 DEF StoryInv, CvTypeOK
  <2> QED
    BY <1>1, <1>2, <2>1 DEF CvTypeOK
<1>4. WorkInv'
  BY <1>1 DEF StoryInv, WorkInv
<1> QED
  BY <1>2, <1>3, <1>4 DEF StoryInv

LEMMA StoryRound ==
  ASSUME StoryInv, NEW context \in BOOLEAN, context => "map" \notin Contexts, Round(context)
  PROVE  StoryInv'
<1> DEFINE call == Id("tool", words + 2)
           ns   == <<Assistant(Id("agent", words + 1), {call}), ToolResult(call)>>
                   \o IF context THEN <<User(Id("hook", words + 3))>> ELSE << >>
           own  == Own(work, prompt)
<1>1. /\ words \in Nat /\ work \in Seq(Message) /\ prompt \in PromptIds
      /\ messages \in Seq(Message) /\ Len(messages) \in Nat
  BY StoryNow
<1>2. /\ phase = "turn" /\ work' = work \o ns /\ words' = words + Len(ns)
      /\ rounds' = rounds + 1
      /\ UNCHANGED <<phase, messages, system, summary, files, current, told, prompt, shown, guard,
                     rewritten, compactions>>
  BY DEF Round, Working, session
<1>3. own \in Seq(Message) /\ Len(own) = Len(work) /\ Sound(own, words)
  <2>1. own \in Seq(Message) /\ Len(own) = Len(work)
    BY <1>1, OwnIs
  <2> QED
    BY <1>2, <2>1 DEF StoryInv, WorkInv
<1> HIDE DEF own
<1>4. /\ ns \in Seq(Message) /\ Len(ns) \in Nat
      /\ \A i \in 1..Len(ns) : context \/ ns[i].role # "user"
      /\ own \o ns \in Seq(Message) /\ Sound(own \o ns, words + Len(ns))
  BY <1>1, <1>3, SoundRound
<1> HIDE DEF ns
<1>5. Own(work', prompt) = own \o ns
  <2>1. "map" \in Contexts => \A i \in 1..Len(ns) : ns[i].role # "user"
    BY <1>4
  <2> QED
    BY <1>1, <1>2, <1>4, <2>1, OwnMore DEF own
<1>6. work' \in Seq(Message) /\ Len(work') = Len(work) + Len(ns) /\ Len(work) \in Nat
  BY <1>1, <1>2, <1>4
<1>7. Valid(work')
  BY <1>1, <1>4, <1>5, <1>6, OwnIsValid DEF Sound
<1>8. words' \in Nat /\ words <= words'
  BY <1>1, <1>2, <1>4
<1>9. CvTypeOK'
  <2>1. prompt' \in [by : {"user"}, word : 0..words', map : {FALSE}]
    <3>1. prompt \in [by : {"user"}, word : 0..words, map : {FALSE}] /\ prompt' = prompt
      BY <1>2 DEF StoryInv, CvTypeOK
    <3>2. 0..words \subseteq 0..words'
      BY <1>1, <1>8
    <3> QED
      BY <3>1, <3>2
  <2>2. {words', rounds', compactions'} \subseteq Nat
    <3>1. rounds \in Nat /\ compactions \in Nat
      BY DEF StoryInv, CvTypeOK
    <3> QED
      BY <1>2, <1>8, <3>1
  <2>3. /\ messages' \in Texts /\ {summary', shown', guard'} \subseteq Summaries
        /\ system' \in SUBSET Summaries /\ files' \in Seq(SessionFile)
        /\ told' \in Seq(Summaries) /\ Len(told') = Len(files') /\ current' \in 1..Len(files')
        /\ rewritten' \in BOOLEAN
    BY <1>2 DEF StoryInv, CvTypeOK
  <2> QED
    BY <1>2, <1>6, <2>1, <2>2, <2>3 DEF CvTypeOK, Texts
<1>10. FilesInv'
  <2> SUFFICES ASSUME NEW i \in 1..Len(files) PROVE Sound(files[i].body, words')
    BY <1>2 DEF StoryInv, FilesInv
  <2>1. files[i] \in SessionFile
    BY StoryNow
  <2>2. files[i].body \in Seq(Message) /\ Sound(files[i].body, words)
    BY <2>1 DEF StoryInv, FilesInv, SessionFile, Texts
  <2> QED
    BY <1>1, <1>8, <2>2, SoundStill
<1>11. ASSUME ~rewritten
       PROVE  /\ Len(messages') <= Len(work')
              /\ \A i \in 1..Len(messages') : Own(work', prompt')[i] = messages'[i]
  <2>1. Len(messages) <= Len(work) /\ \A i \in 1..Len(messages) : own[i] = messages[i]
    BY <1>2, <1>11 DEF StoryInv, WorkInv, own
  <2>2. \A i \in 1..Len(messages) : (own \o ns)[i] = own[i]
    BY <1>1, <1>3, <1>4, <1>6, <2>1
  <2>3. Len(messages) <= Len(work')
    BY <1>1, <1>4, <1>6, <2>1
  <2> QED
    BY <1>2, <1>5, <2>1, <2>2, <2>3
<1>12. WorkInv'
  <2>1. Sound(Own(work', prompt'), words')
    BY <1>2, <1>4, <1>5
  <2> QED
    BY <1>2, <1>7, <1>11, <2>1 DEF WorkInv
<1> QED
  BY <1>9, <1>10, <1>12 DEF StoryInv

LEMMA StoryCompactInTurn == StoryInv /\ CompactInTurn => StoryInv'
<1> SUFFICES ASSUME StoryInv, CompactInTurn PROVE StoryInv'
  OBVIOUS
<1>1. /\ words \in Nat /\ work \in Seq(Message) /\ prompt \in PromptIds /\ summary \in Summaries
  BY StoryNow
<1>2. /\ phase = "turn" /\ compactions' = compactions + 1 /\ work' = Kept(work, KeepMessages)
      /\ shown' = guard \cup Words(Older(work)) /\ summary' = shown' /\ rewritten' = TRUE
      /\ UNCHANGED <<phase, messages, system, files, current, told, prompt, guard, rounds, words>>
  BY DEF CompactInTurn, Folded
<1>3. PICK c \in 0..Len(work) : /\ work' = SubSeq(work, c + 1, Len(work))
                                /\ Valid(work) => Valid(work')
  BY <1>1, <1>2, KeptIsEnd
<1>4. work' \in Seq(Message) /\ Valid(work')
  BY <1>1, <1>3 DEF StoryInv, WorkInv
<1> DEFINE own == Own(work, prompt)
<1>5. own \in Seq(Message) /\ Len(own) = Len(work) /\ Sound(own, words)
  <2>1. own \in Seq(Message) /\ Len(own) = Len(work)
    BY <1>1, OwnIs
  <2> QED
    BY <1>2, <2>1 DEF StoryInv, WorkInv
<1>6. Own(work', prompt) = SubSeq(own, c + 1, Len(own))
  BY <1>1, <1>3, <1>5, OwnOfEnd
<1> HIDE DEF own
<1>7. Sound(Own(work', prompt), words)
  <2>1. Valid(SubSeq(own, c + 1, Len(own)))
    BY <1>1, <1>4, <1>6, OwnIsValid
  <2>2. c \in 0..Len(own)
    BY <1>5
  <2> QED
    BY <1>5, <1>6, <2>1, <2>2, SoundEnd
<1>8. CvTypeOK'
  <2>1. shown' \in Summaries /\ summary' \in Summaries
    <3>1. Words(Older(work)) \subseteq Nat /\ guard \in Summaries
      BY <1>1, OlderIsSaid DEF Texts, StoryInv, CvTypeOK
    <3> QED
      BY <1>2, <3>1 DEF Summaries
  <2>2. {words', rounds', compactions'} \subseteq Nat
    <3>1. words \in Nat /\ rounds \in Nat /\ compactions \in Nat
      BY DEF StoryInv, CvTypeOK
    <3> QED
      BY <1>2, <3>1
  <2>3. /\ messages' \in Texts /\ guard' \in Summaries
        /\ system' \in SUBSET Summaries /\ files' \in Seq(SessionFile)
        /\ told' \in Seq(Summaries) /\ Len(told') = Len(files') /\ current' \in 1..Len(files')
        /\ prompt' \in [by : {"user"}, word : 0..words', map : {FALSE}]
    BY <1>2 DEF StoryInv, CvTypeOK
  <2> QED
    BY <1>2, <1>4, <2>1, <2>2, <2>3 DEF CvTypeOK, Texts
<1>9. FilesInv'
  BY <1>2 DEF StoryInv, FilesInv
<1>10. WorkInv'
  BY <1>2, <1>4, <1>7 DEF WorkInv
<1> QED
  BY <1>8, <1>9, <1>10 DEF StoryInv

\* One message more, or none.
LEMMA SoundOne ==
  ASSUME NEW ms \in Seq(Message), NEW n \in Nat, Sound(ms, n), NEW said \in BOOLEAN,
         NEW m \in Message, ~m.id.map, m.id.word = n + 1,
         m.role = "user" \/ (m.role = "assistant" /\ m.calls = {})
  PROVE  LET ns == IF said THEN <<m>> ELSE << >> IN
         /\ ns \in Seq(Message) /\ Len(ns) = (IF said THEN 1 ELSE 0)
         /\ \A i \in 1..Len(ns) : ns[i] = m
         /\ ms \o ns \in Seq(Message) /\ Sound(ms \o ns, n + Len(ns))
<1> DEFINE ns  == IF said THEN <<m>> ELSE << >>
           len == IF said THEN 1 ELSE 0
<1> SUFFICES /\ ns \in Seq(Message) /\ Len(ns) = len /\ \A i \in 1..Len(ns) : ns[i] = m
             /\ ms \o ns \in Seq(Message) /\ Sound(ms \o ns, n + Len(ns))
  OBVIOUS
<1>1. CASE said
  <2> DEFINE one == <<m>>
  <2>1. one \in Seq(Message) /\ Len(one) = 1 /\ \A i \in 1..1 : one[i] = m
    OBVIOUS
  <2>2. ms \o one = Append(ms, m) /\ Append(ms, m) \in Seq(Message)
    BY AppendIsConcat
  <2>3. Sound(Append(ms, m), n + 1)
    BY SoundMore
  <2>4. ns = one /\ len = 1
    BY <1>1
  <2> HIDE DEF one, ns, len
  <2> QED
    BY <2>1, <2>2, <2>3, <2>4
<1>2. CASE ~said
  <2> DEFINE none == << >>
  <2>1. none \in Seq(Message) /\ Len(none) = 0 /\ ms \o none = ms /\ n + 0 = n
    OBVIOUS
  <2>2. ns = none /\ len = 0
    BY <1>2
  <2> HIDE DEF none, ns, len
  <2> QED
    BY <2>1, <2>2
<1> QED
  BY <1>1, <1>2

\* ns begins with the messages of ms.
Begins(ms, ns) == Len(ms) <= Len(ns) /\ \A i \in 1..Len(ms) : ns[i] = ms[i]

\* The messages of a file and those a turn appends are the transcript after the turn.
LEMMA BehindTheFile ==
  ASSUME NEW ms \in Seq(Message), NEW ns \in Seq(Message), NEW ts \in Seq(Message),
         Begins(ms, ns)
  PROVE  ms \o (SubSeq(ns, Len(ms) + 1, Len(ns)) \o ts) = ns \o ts
<1> DEFINE new == SubSeq(ns, Len(ms) + 1, Len(ns))
<1>1. /\ new \in Seq(Message) /\ Len(new) = Len(ns) - Len(ms) /\ Len(ms) \in Nat /\ Len(ns) \in Nat
      /\ \A i \in 1..(Len(ns) - Len(ms)) : new[i] = ns[Len(ms) + i]
  BY DEF Begins
<1> HIDE DEF new
<1>2. ms \o new = ns
  <2>0. \A i \in 1..Len(ms) : ns[i] = ms[i]
    BY DEF Begins
  <2>1. Len(ns) = Len(ms) + Len(new)
    BY <1>1
  <2>2. \A i \in 1..Len(new) : ns[Len(ms) + i] = new[i]
    BY <1>1
  <2> QED
    BY <1>1, <2>0, <2>1, <2>2, PutBehind
<1>3. (ms \o new) \o ts = ms \o (new \o ts)
  BY <1>1, ConcatAssociative
<1> QED
  BY <1>2, <1>3 DEF new

LEMMA StoryEndTurn ==
  ASSUME StoryInv, NEW answers \in BOOLEAN, NEW feedback \in BOOLEAN, EndTurn(answers, feedback)
  PROVE  StoryInv'
<1> DEFINE a     == Assistant(Id("agent", words + 1), {})
           final == IF answers THEN <<a>> ELSE << >>
           last  == words + Len(final)
           t     == User(Id("test", last + 1))
           tests == IF feedback THEN <<t>> ELSE << >>
           sent  == work \o final
           done  == IF "map" \in Contexts THEN Restore(sent, prompt) ELSE sent
           own   == Own(work, prompt)
           new   == (words + 1)..(last + Len(tests))
           T     == Said \cup new
<1>1. /\ phase = "turn" /\ phase' = "idle" /\ messages' = done \o tests
      /\ words' = last + Len(tests)
      /\ IF MustRewrite(done)
         THEN Rewrite({shown}, messages', T)
         ELSE /\ files' = [files EXCEPT ![current] = WithSaved(@, Appended(done) \o tests)]
              /\ told'  = [told EXCEPT ![current] = T]
              /\ UNCHANGED current
      /\ system' = {shown} /\ summary' = (IF shown = {} THEN summary ELSE shown) /\ NoTurn
  BY DEF EndTurn
<1>2. /\ words \in Nat /\ work \in Seq(Message) /\ prompt \in PromptIds /\ summary \in Summaries
      /\ messages \in Seq(Message) /\ Len(messages) \in Nat /\ told[current] \in Summaries
      /\ files[current] \in SessionFile /\ files[current].body = messages
      /\ shown \in Summaries
  <2>1. shown \in Summaries
    BY DEF StoryInv, CvTypeOK
  <2> QED
    BY <2>1, StoryNow
<1>3. own \in Seq(Message) /\ Len(own) = Len(work) /\ Sound(own, words)
  <2>1. own \in Seq(Message) /\ Len(own) = Len(work)
    BY <1>2, OwnIs
  <2> QED
    BY <1>1, <2>1 DEF StoryInv, WorkInv
<1>4. done = Own(sent, prompt)
  BY DEF Own
<1>5. a \in Message /\ ~a.id.map /\ a.id.word = words + 1 /\ a.role = "assistant" /\ a.calls = {}
  <2>1. a \in Message
    BY <1>2, WhatIsSaid
  <2> QED
    BY <2>1 DEF Assistant, Id
<1> HIDE DEF own, a
<1>6. /\ final \in Seq(Message) /\ Len(final) \in {0, 1}
      /\ \A i \in 1..Len(final) : final[i] = a
      /\ own \o final \in Seq(Message) /\ Sound(own \o final, last)
  BY <1>2, <1>3, <1>5, SoundOne
<1> HIDE DEF final
<1>7. last \in Nat
  BY <1>2, <1>6
<1> HIDE DEF last, done
<1>8. done = own \o final
  <2>1. "map" \in Contexts => \A i \in 1..Len(final) : final[i].role # "user"
    BY <1>5, <1>6
  <2> QED
    BY <1>2, <1>4, <1>6, <2>1, OwnMore DEF own
<1>9. t \in Message /\ ~t.id.map /\ t.id.word = last + 1 /\ t.role = "user"
  <2>1. t \in Message
    BY <1>7, WhatIsSaid
  <2> QED
    BY <2>1 DEF User, Id
<1> HIDE DEF t
<1>10. /\ done \in Seq(Message) /\ tests \in Seq(Message) /\ Len(tests) \in {0, 1}
       /\ messages' \in Seq(Message) /\ Sound(messages', words')
  <2>1. done \in Seq(Message) /\ Sound(done, last)
    BY <1>6, <1>8
  <2>2. /\ tests \in Seq(Message) /\ Len(tests) \in {0, 1}
        /\ done \o tests \in Seq(Message) /\ Sound(done \o tests, last + Len(tests))
    BY <1>7, <1>9, <2>1, SoundOne
  <2> HIDE DEF tests
  <2> QED
    BY <1>1, <2>1, <2>2
<1> HIDE DEF tests
<1>11. words' \in Nat /\ words <= words'
  <2>1. last = words + Len(final)
    BY DEF last
  <2> QED
    BY <1>1, <1>2, <1>6, <1>7, <1>10, <2>1
<1>12. T \in Summaries
  <2>1. new \subseteq Nat /\ (prompt.word + 1)..words \subseteq Nat
    BY <1>2 DEF PromptIds
  <2> HIDE DEF new
  <2> QED
    BY <1>2, <2>1 DEF Said, Summaries
<1> HIDE DEF T
<1>13. /\ FilesInv' /\ files' \in Seq(SessionFile) /\ told' \in Seq(Summaries)
       /\ Len(told') = Len(files') /\ current' \in 1..Len(files') /\ messages' \in Texts
  <2>1. CvTypeOK /\ FilesInv
    BY DEF StoryInv
  <2>2. CASE MustRewrite(done)
    <3> DEFINE F == [system |-> {shown}, body |-> messages']
    <3>1. F \in SessionFile /\ F.body = messages'
      BY <1>2, <1>10 DEF SessionFile, Texts
    <3>2. files' = Append(files, F) /\ told' = Append(told, T) /\ current' = Len(files) + 1
      BY <1>1, <2>2 DEF Rewrite
    <3> HIDE DEF F
    <3>3. Sound(F.body, words') /\ messages' = F.body
      BY <1>10, <3>1
    <3> QED
      BY <1>11, <1>12, <2>1, <3>1, <3>2, <3>3, FileWritten
  <2>3. CASE ~MustRewrite(done)
    <3> DEFINE F == WithSaved(files[current], Appended(done) \o tests)
    <3>1. /\ files' = [files EXCEPT ![current] = F] /\ told' = [told EXCEPT ![current] = T]
          /\ current' = current
      BY <1>1, <2>3
    <3>2. ~rewritten /\ Len(messages) <= Len(done)
      <4>1. ~rewritten /\ ~(Len(done) < Len(messages))
        BY <2>3 DEF MustRewrite
      <4> QED
        BY <1>2, <1>10, <4>1
    <3>3. \A i \in 1..Len(messages) : done[i] = messages[i]
      <4>1. Len(messages) <= Len(work) /\ \A i \in 1..Len(messages) : own[i] = messages[i]
        BY <1>1, <3>2 DEF StoryInv, WorkInv, own
      <4>2. \A i \in 1..Len(messages) : (own \o final)[i] = own[i]
        BY <1>2, <1>3, <1>6, <4>1
      <4> QED
        BY <1>8, <4>1, <4>2
    <3>4. messages \o (Appended(done) \o tests) = messages'
      <4>1. messages \in Seq(Message) /\ done \in Seq(Message) /\ tests \in Seq(Message)
        BY <1>2, <1>10
      <4>2. Begins(messages, done)
        BY <3>2, <3>3 DEF Begins
      <4>3. messages \o (SubSeq(done, Len(messages) + 1, Len(done)) \o tests) = done \o tests
        BY <4>1, <4>2, BehindTheFile
      <4> QED
        BY <1>1, <4>3 DEF Appended
    <3>5. F = [files[current] EXCEPT !.body = messages']
      BY <1>2, <3>4 DEF WithSaved
    <3> HIDE DEF F
    <3>6. F \in SessionFile /\ F.body = messages'
      BY <1>2, <1>10, <3>5 DEF SessionFile, Texts
    <3>7. Sound(F.body, words') /\ messages' = F.body
      BY <1>10, <3>6
    <3> QED
      BY <1>11, <1>12, <2>1, <3>1, <3>6, <3>7, FileWritten
  <2> QED
    BY <2>2, <2>3
<1>14. /\ work' \in Texts /\ {shown', guard'} \subseteq Summaries /\ rewritten' = FALSE
       /\ prompt' \in [by : {"user"}, word : 0..words', map : {FALSE}]
       /\ {rounds', compactions'} \subseteq Nat /\ Valid(work')
  BY <1>1, <1>11, NoTurnLeft
<1>15. CvTypeOK'
  <2>1. summary' \in Summaries /\ system' \in SUBSET Summaries
    BY <1>1, <1>2
  <2> QED
    BY <1>1, <1>11, <1>13, <1>14, <2>1 DEF CvTypeOK
<1>16. WorkInv'
  BY <1>1, <1>14 DEF WorkInv
<1> QED
  BY <1>13, <1>15, <1>16 DEF StoryInv

LEMMA StoryRunPrompt ==
  ASSUME StoryInv, NEW answers \in SUBSET {"agent"}, RunPrompt(answers)
  PROVE  StoryInv'
<1> DEFINE u    == User(Id("user", words + 1))
           one  == <<u>>
           b    == Assistant(Id("agent", words'), {})
           more == IF answers = {} THEN << >> ELSE <<b>>
           said == one \o more
           F    == WithSaved([files[current] EXCEPT !.system = system'], said)
           T    == told[current] \cup (words + 1)..words'
<1>1. /\ phase = "idle" /\ words' = words + 1 + Cardinality(answers)
      /\ system' = (IF system = {} THEN {{}} ELSE system)
      /\ messages' = messages \o said
      /\ files' = [files EXCEPT ![current] = F] /\ told' = [told EXCEPT ![current] = T]
      /\ UNCHANGED <<phase, summary, current, turn>>
  BY DEF RunPrompt
<1>2. /\ words \in Nat /\ messages \in Seq(Message) /\ Sound(messages, words)
      /\ told[current] \in Summaries /\ files[current] \in SessionFile
      /\ files[current].body = messages /\ system \in SUBSET Summaries
  BY StoryNow
<1>3. u \in Message /\ ~u.id.map /\ u.id.word = words + 1 /\ u.role = "user"
  <2>1. u \in Message
    BY <1>2, WhatIsSaid
  <2> QED
    BY <2>1 DEF User, Id
<1>4. /\ one \in Seq(Message) /\ messages \o one \in Seq(Message)
      /\ Sound(messages \o one, words + 1)
  <2> HIDE DEF u
  <2>1. one \in Seq(Message)
    BY <1>3
  <2>2. messages \o one = Append(messages, u)
    BY <1>2, <1>3, AppendIsConcat
  <2>3. words + 1 \in Nat /\ u.id.word > words /\ u.id.word <= words + 1
    BY <1>2, <1>3
  <2>4. Append(messages, u) \in Seq(Message) /\ Sound(Append(messages, u), words + 1)
    BY <1>2, <1>3, <2>3, SoundMore
  <2> HIDE DEF one
  <2> QED
    BY <2>1, <2>2, <2>4
<1> HIDE DEF u, one
<1>5. /\ more \in Seq(Message) /\ (messages \o one) \o more \in Seq(Message)
      /\ Sound((messages \o one) \o more, words') /\ words' \in Nat /\ words <= words'
  <2>1. CASE answers = {}
    <3> DEFINE none == << >>
    <3>1. Cardinality(answers) = 0
      BY <2>1, FS_EmptySet
    <3>2. words' = words + 1 /\ more = none
      BY <1>1, <1>2, <2>1, <3>1
    <3>3. none \in Seq(Message) /\ (messages \o one) \o none = messages \o one
      BY <1>4
    <3> HIDE DEF more, none
    <3> QED
      BY <1>2, <1>4, <3>2, <3>3
  <2>2. CASE answers # {}
    <3>1. Cardinality(answers) = 1
      <4>1. answers = {"agent"}
        BY <2>2
      <4> QED
        BY <4>1, FS_Singleton
    <3>2. words' = words + 2 /\ more = <<b>>
      BY <1>1, <1>2, <2>2, <3>1
    <3>3. b \in Message /\ ~b.id.map /\ b.id.word = words + 2 /\ b.role = "assistant" /\ b.calls = {}
      <4>1. b \in Message
        BY <1>2, <3>2, WhatIsSaid
      <4> QED
        BY <3>2, <4>1 DEF Assistant, Id
    <3> HIDE DEF b
    <3> DEFINE two  == <<b>>
               both == messages \o one
    <3>4. two \in Seq(Message) /\ more = two
      BY <3>2, <3>3
    <3>5. both \in Seq(Message) /\ Sound(both, words + 1)
      BY <1>4
    <3> HIDE DEF both
    <3>6. both \o two = Append(both, b)
      BY <3>3, <3>5, AppendIsConcat
    <3>7. words + 1 \in Nat /\ words + 2 \in Nat /\ b.id.word > words + 1 /\ b.id.word <= words + 2
      BY <1>2, <3>3
    <3>8. Append(both, b) \in Seq(Message) /\ Sound(Append(both, b), words + 2)
      BY <3>3, <3>5, <3>7, SoundMore
    <3> HIDE DEF more, two
    <3>9. both \o more \in Seq(Message) /\ Sound(both \o more, words')
      BY <3>2, <3>4, <3>6, <3>8
    <3> QED
      BY <1>2, <3>2, <3>4, <3>9 DEF both
  <2> QED
    BY <2>1, <2>2
<1> HIDE DEF more
<1>6. messages' = (messages \o one) \o more
  <2>1. messages \in Seq(Message) /\ one \in Seq(Message) /\ more \in Seq(Message)
    BY <1>2, <1>4, <1>5
  <2>2. (messages \o one) \o more = messages \o (one \o more)
    BY <2>1, ConcatAssociative
  <2> QED
    BY <1>1, <2>2
<1>7. messages' \in Seq(Message) /\ Sound(messages', words')
  BY <1>5, <1>6
<1>8. system' \in SUBSET Summaries
  <2>1. {} \in Summaries
    BY DEF Summaries
  <2> QED
    BY <1>1, <1>2, <2>1
<1>9. F \in SessionFile /\ F.body = messages'
  <2> HIDE DEF said
  <2>1. F = [[files[current] EXCEPT !.system = system'] EXCEPT !.body = messages']
    BY <1>1, <1>2 DEF WithSaved, SessionFile
  <2> QED
    BY <1>2, <1>7, <1>8, <2>1 DEF SessionFile, Texts
<1>10. T \in Summaries
  <2>1. (words + 1)..words' \subseteq Nat
    BY <1>2, <1>5
  <2> QED
    BY <1>2, <2>1 DEF Summaries
<1> HIDE DEF F, T
<1>11. /\ FilesInv' /\ files' \in Seq(SessionFile) /\ told' \in Seq(Summaries)
       /\ Len(told') = Len(files') /\ current' \in 1..Len(files') /\ messages' \in Texts
  <2>1. CvTypeOK /\ FilesInv
    BY DEF StoryInv
  <2>2. words <= words' /\ words' \in Nat /\ Sound(F.body, words') /\ messages' = F.body
    BY <1>5, <1>7, <1>9
  <2> QED
    BY <1>1, <1>9, <1>10, <2>1, <2>2, FileWritten
<1>12. UNCHANGED <<phase, summary, current, prompt, work, shown, guard, rewritten, rounds, compactions>>
  BY <1>1 DEF turn
<1>13. CvTypeOK'
  <2>1. prompt' \in [by : {"user"}, word : 0..words', map : {FALSE}]
    <3>1. prompt \in [by : {"user"}, word : 0..words, map : {FALSE}] /\ prompt' = prompt
      BY <1>12 DEF StoryInv, CvTypeOK
    <3>2. 0..words \subseteq 0..words'
      BY <1>2, <1>5
    <3> QED
      BY <3>1, <3>2
  <2>2. {words', rounds', compactions'} \subseteq Nat
    <3>1. rounds \in Nat /\ compactions \in Nat
      BY DEF StoryInv, CvTypeOK
    <3> QED
      BY <1>5, <1>12, <3>1
  <2>3. /\ work' \in Texts /\ {summary', shown', guard'} \subseteq Summaries
        /\ rewritten' \in BOOLEAN /\ phase' \in {"idle", "prepare", "turn", "down"}
    BY <1>12 DEF StoryInv, CvTypeOK
  <2> QED
    BY <1>8, <1>11, <2>1, <2>2, <2>3 DEF CvTypeOK
<1>14. WorkInv'
  BY <1>1, <1>12 DEF StoryInv, WorkInv
<1> QED
  BY <1>11, <1>13, <1>14 DEF StoryInv

LEMMA StoryNewFile ==
  ASSUME StoryInv, NewFile, phase \in {"idle", "down"}, phase' = "idle", UNCHANGED <<turn, words>>
  PROVE  StoryInv'
<1>1. /\ messages' = << >> /\ system' = {} /\ summary' = {}
      /\ files' = Append(files, Blank) /\ told' = Append(told, {}) /\ current' = Len(files) + 1
  BY DEF NewFile
<1>2. Blank \in SessionFile /\ Blank.body = << >> /\ {} \in Summaries
  <2>1. << >> \in Seq(Message)
    OBVIOUS
  <2> QED
    BY <2>1 DEF Blank, SessionFile, Texts, Summaries
<1>3. UNCHANGED <<prompt, work, shown, guard, rewritten, rounds, compactions, words>>
  BY DEF turn
<1>4. /\ FilesInv' /\ files' \in Seq(SessionFile) /\ told' \in Seq(Summaries)
      /\ Len(told') = Len(files') /\ current' \in 1..Len(files') /\ messages' \in Texts
  <2>1. CvTypeOK /\ FilesInv /\ words \in Nat
    BY StoryNow DEF StoryInv
  <2>2. words <= words' /\ words' \in Nat /\ Sound(Blank.body, words') /\ messages' = Blank.body
    BY <1>1, <1>2, <1>3, <2>1, SoundOfNone
  <2> QED
    BY <1>1, <1>2, <2>1, <2>2, FileWritten
<1>5. CvTypeOK'
  <2>1. /\ work' \in Texts /\ {summary', shown', guard'} \subseteq Summaries
        /\ system' \in SUBSET Summaries
        /\ prompt' \in [by : {"user"}, word : 0..words', map : {FALSE}]
        /\ rewritten' \in BOOLEAN /\ {words', rounds', compactions'} \subseteq Nat
    BY <1>1, <1>2, <1>3 DEF StoryInv, CvTypeOK
  <2> QED
    BY <1>4, <2>1 DEF CvTypeOK
<1>6. WorkInv'
  BY <1>3 DEF StoryInv, WorkInv
<1> QED
  BY <1>4, <1>5, <1>6 DEF StoryInv

\* A session is taken up from any of its files.
LEMMA StoryLoad ==
  ASSUME StoryInv, NEW i \in 1..Len(files), Load(i), phase \in {"idle", "down"}, phase' = "idle",
         summary' \in {Summary(files[i].system), {}}
  PROVE  StoryInv'
<1>1. /\ messages' = files[i].body /\ system' = files[i].system /\ current' = i
      /\ UNCHANGED <<files, told, prompt, work, shown, guard, rewritten, rounds, compactions, words>>
  BY DEF Load, turn
<1>2. files[i] \in SessionFile
  BY StoryNow
<1>3. files[i].body \in Texts /\ files[i].system \in SUBSET Summaries
  BY <1>2 DEF SessionFile
<1>4. summary' \in Summaries
  BY <1>3 DEF Summary, Summaries
<1>5. CvTypeOK'
  <2>1. /\ work' \in Texts /\ {shown', guard'} \subseteq Summaries
        /\ files' \in Seq(SessionFile) /\ told' \in Seq(Summaries)
        /\ Len(told') = Len(files') /\ current' \in 1..Len(files')
        /\ prompt' \in [by : {"user"}, word : 0..words', map : {FALSE}]
        /\ rewritten' \in BOOLEAN /\ {words', rounds', compactions'} \subseteq Nat
    BY <1>1 DEF StoryInv, CvTypeOK
  <2> QED
    BY <1>1, <1>3, <1>4, <2>1 DEF CvTypeOK
<1>6. FilesInv'
  BY <1>1 DEF StoryInv, FilesInv
<1>7. WorkInv'
  BY <1>1 DEF StoryInv, WorkInv
<1> QED
  BY <1>5, <1>6, <1>7 DEF StoryInv

LEMMA StoryInitially == CvInit => StoryInv
<1> SUFFICES ASSUME CvInit PROVE StoryInv
  OBVIOUS
<1>1. CvTypeOK
  BY CvInitially DEF CvInv
<1>2. FilesInv
  <2>1. Len(files) = 1 /\ files[1] = Blank /\ current = 1 /\ messages = << >>
    BY DEF CvInit
  <2>2. Blank.body = << >>
    BY DEF Blank
  <2> QED
    BY <2>1, <2>2, SoundOfNone DEF FilesInv
<1>3. WorkInv
  BY ScanOfNone DEF CvInit, WorkInv
<1> QED
  BY <1>1, <1>2, <1>3 DEF StoryInv

LEMMA StoryStep ==
  ASSUME ~({"map", "hook"} \subseteq Contexts), StoryInv, [CvNext]_cvVars
  PROVE  StoryInv'
<1>1. CASE CancelRouting
  BY <1>1, StoryRouting
<1>2. CASE Submit
  BY <1>2, StorySubmit
<1>3. CASE StopBeforeTurn \/ FailTurn \/ Quit
  <2>1. NoTurn /\ UNCHANGED <<session, words>> /\ phase' \in {"idle", "down"}
    BY <1>3 DEF StopBeforeTurn, FailTurn, Quit
  <2> QED
    BY <2>1, StoryNoTurn
<1>4. CASE StartTurn
  BY <1>4, StoryStartTurn
<1>5. CASE CompactAndStart
  BY <1>5, StoryCompactAndStart
<1>6. CASE \E context \in {FALSE} \cup {TRUE : h \in {"hook"} \cap Contexts} : Round(context)
  <2>1. PICK context \in {FALSE} \cup {TRUE : h \in {"hook"} \cap Contexts} : Round(context)
    BY <1>6
  <2>2. context \in BOOLEAN /\ (context => "hook" \in Contexts)
    OBVIOUS
  <2>3. context => "map" \notin Contexts
    BY <2>2
  <2> QED
    BY <2>1, <2>2, <2>3, StoryRound
<1>7. CASE CompactInTurn
  BY <1>7, StoryCompactInTurn
<1>8. CASE \E answers, feedback \in BOOLEAN : EndTurn(answers, feedback)
  BY <1>8, StoryEndTurn
<1>9. CASE \E answers \in SUBSET {"agent"} : RunPrompt(answers)
  BY <1>9, StoryRunPrompt
<1>10. CASE CompactCommand
  BY <1>10, StoryCompactCommand
<1>11. CASE NewSession \/ Launch
  <2>1. NewFile /\ phase \in {"idle", "down"} /\ phase' = "idle" /\ UNCHANGED <<turn, words>>
    BY <1>11 DEF NewSession, Launch
  <2> QED
    BY <2>1, StoryNewFile
<1>12. CASE \E i \in 1..Len(files) : ResumeCommand(i) \/ Continue(i)
  <2>1. PICK i \in 1..Len(files) : ResumeCommand(i) \/ Continue(i)
    BY <1>12
  <2>2. /\ Load(i) /\ phase \in {"idle", "down"} /\ phase' = "idle"
        /\ summary' \in {Summary(files[i].system), {}}
    BY <2>1 DEF ResumeCommand, Continue
  <2> QED
    BY <2>2, StoryLoad
<1>13. CASE UNCHANGED cvVars
  <2>1. UNCHANGED <<phase, messages, system, summary, files, current, told, prompt, work, shown,
                    guard, rewritten, rounds, compactions, words>>
    BY <1>13 DEF cvVars, session, turn
  <2> QED
    BY <2>1 DEF StoryInv, CvTypeOK, FilesInv, WorkInv
<1> QED
  BY <1>1, <1>2, <1>3, <1>4, <1>5, <1>6, <1>7, <1>8, <1>9, <1>10, <1>11, <1>12, <1>13 DEF CvNext

\* What may be saved has no message twice, and no repo map.
LEMMA SoundIsRaw == ASSUME NEW ms, NEW n, Sound(ms, n) PROVE RawPrompts(ms) /\ Valid(ms)
  BY DEF Sound, RawPrompts

LEMMA StoryIsKept == StoryInv => TranscriptKept
<1> SUFFICES ASSUME StoryInv PROVE TranscriptKept
  OBVIOUS
<1>1. CvTypeOK /\ Sound(messages, words) /\ files[current].body = messages
  BY StoryNow DEF StoryInv
<1>2. \A i \in 1..Len(files) : RawPrompts(files[i].body) /\ Valid(files[i].body)
  BY SoundIsRaw DEF StoryInv, FilesInv
<1>3. RawPrompts(messages) /\ Valid(messages) /\ Valid(work)
  BY <1>1, SoundIsRaw DEF StoryInv, WorkInv
<1> QED
  BY <1>1, <1>2, <1>3 DEF TranscriptKept, FileIsTranscript, SubmittedTextKept, TranscriptsValid

\* Whatever is compacted, stopped, killed, resumed and continued, the transcript in memory, the
\* agent's messages and every session file pair each call with its result, the file is the
\* transcript, no message is in it twice and the repo map of a request is in none of them
\* (session_turn.rs, context_guard.rs), for any number of messages kept, rounds, compactions,
\* prompts and files.  The hypothesis is what a divergence of the code leaves: hooks
\* add no context where the repo map is added.
THEOREM TranscriptAlwaysKept ==
  ASSUME ~({"map", "hook"} \subseteq Contexts)
  PROVE  CvSpec => []TranscriptKept
<1>1. CvInit => StoryInv
  BY StoryInitially
<1>2. StoryInv /\ [CvNext]_cvVars => StoryInv'
  BY StoryStep
<1>3. StoryInv => TranscriptKept
  BY StoryIsKept
<1> QED
  BY <1>1, <1>2, <1>3, PTL DEF CvSpec

=============================================================================
