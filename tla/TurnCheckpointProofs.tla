------------------------ MODULE TurnCheckpointProofs ------------------------
(***************************************************************************)
(* Proofs about TurnCheckpoint: what a checkpoint holds is what the turn   *)
(* found, whatever a file tool changed is in it, and the stack takes every *)
(* file that did not leak back to where each of its turns began.           *)
(***************************************************************************)
EXTENDS TurnCheckpoint, SequenceTheorems, TLAPS

-----------------------------------------------------------------------------
(* The operators. *)

\* The checkpoint a turn starts with (TurnCapturer::new) has its type.
LEMMA NewCheckpointType == NewCheckpoint \in Checkpoint
BY DEF NewCheckpoint, Checkpoint, Baseline

\* Storing a baseline changes the entry of that file and nothing else.
LEMMA RecordedProperties ==
  ASSUME NEW cp \in Checkpoint, NEW f \in Files, NEW b \in Baseline
  PROVE  /\ Recorded(cp, f, b) \in Checkpoint
         /\ Recorded(cp, f, b).files = [cp.files EXCEPT ![f] = b]
         /\ Recorded(cp, f, b).skipped = cp.skipped
         /\ Recorded(cp, f, b).bytes = cp.bytes
BY DEF Recorded, Checkpoint

\* Reporting a skipped file keeps the baselines and the bytes used.
LEMMA ReportedProperties ==
  ASSUME NEW cp \in Checkpoint, NEW f \in Files
  PROVE  /\ Reported(cp, f) \in Checkpoint
         /\ Reported(cp, f).files = cp.files
         /\ Reported(cp, f).skipped = cp.skipped \cup {f}
         /\ Reported(cp, f).bytes = cp.bytes
BY DEF Reported, Checkpoint

\* Charging bytes to the budget keeps the baselines and the report.
LEMMA CountedProperties ==
  ASSUME NEW cp \in Checkpoint, NEW n \in Nat
  PROVE  LET c == [cp EXCEPT !.bytes = @ + n] IN
         c \in Checkpoint /\ c.files = cp.files /\ c.skipped = cp.skipped
         /\ c.bytes = cp.bytes + n
BY DEF Checkpoint

\* A snapshot yields a checkpoint, in the budget if the old one was, that
\* differs at f only and, unless it reports f, has v there.
LEMMA SnapshotProperties ==
  ASSUME NEW cp \in Checkpoint, NEW f \in Files, NEW v \in OnDisk
  PROVE  LET c == Snapshot(cp, f, v) IN
         /\ c \in Checkpoint
         /\ \A g \in Files : g # f => c.files[g] = cp.files[g]
         /\ cp.files[f] # NotTaken => c = cp
         /\ cp.skipped \subseteq c.skipped
         /\ c.files[f] # NotTaken \/ f \in c.skipped
         /\ cp.files[f] = NotTaken /\ f \notin c.skipped => c.files[f] = v
         /\ cp.bytes <= MaxBytes => c.bytes <= MaxBytes
<1> DEFINE c == Snapshot(cp, f, v)
<1> USE ContentsAssumption, LimitsAssumption DEF Markers
<1>0. cp.files \in [Files -> Baseline] /\ cp.bytes \in Nat
  BY DEF Checkpoint
<1>1. CASE cp.files[f] # NotTaken
  BY <1>1 DEF Snapshot
<1>2. CASE cp.files[f] = NotTaken /\ v = Absent
  <2>1. c = Recorded(cp, f, Absent)
    BY <1>2 DEF Snapshot, Baselined
  <2>2. Absent \in Baseline /\ Absent # NotTaken
    BY DEF Baseline
  <2>3. /\ c \in Checkpoint /\ c.files = [cp.files EXCEPT ![f] = Absent]
        /\ c.skipped = cp.skipped /\ c.bytes = cp.bytes
    BY <2>1, <2>2, RecordedProperties
  <2>4. QED BY <1>0, <1>2, <2>2, <2>3
<1>3. CASE cp.files[f] = NotTaken /\ v = Folder
  <2>1. c = Reported(cp, f)
    BY <1>3 DEF Snapshot, Baselined
  <2>2. QED BY <1>0, <1>3, <2>1, ReportedProperties
<1>4. CASE cp.files[f] = NotTaken /\ v \in Contents
  <2>1. c = Ingest(cp, f, v)
    BY <1>4 DEF Snapshot, Baselined
  <2>2. Size[v] \in Nat /\ v # NotTaken /\ v \in Baseline
    BY <1>4 DEF Baseline
  <2>3. CASE v \in Binary \/ Size[v] > MaxFileBytes
    <3>1. c = Reported(Recorded(cp, f, Opaque), f)
      BY <2>1, <2>3 DEF Ingest
    <3>2. Opaque \in Baseline /\ Opaque # NotTaken
      BY DEF Baseline
    <3>3. /\ c \in Checkpoint /\ c.files = [cp.files EXCEPT ![f] = Opaque]
          /\ c.skipped = cp.skipped \cup {f} /\ c.bytes = cp.bytes
      <4> DEFINE r == Recorded(cp, f, Opaque)
      <4>1. /\ r \in Checkpoint /\ r.files = [cp.files EXCEPT ![f] = Opaque]
            /\ r.skipped = cp.skipped /\ r.bytes = cp.bytes
        BY <3>2, RecordedProperties
      <4>2. c = Reported(r, f)
        BY <3>1
      <4> HIDE DEF r
      <4>3. QED BY <4>1, <4>2, ReportedProperties
    <3>4. QED BY <1>0, <1>4, <3>2, <3>3
  <2>4. CASE ~(v \in Binary \/ Size[v] > MaxFileBytes) /\ cp.bytes + Size[v] > MaxBytes
    <3>1. c = Reported(cp, f)
      BY <2>1, <2>4 DEF Ingest
    <3>2. QED BY <1>0, <1>4, <3>1, ReportedProperties
  <2>5. CASE ~(v \in Binary \/ Size[v] > MaxFileBytes) /\ ~(cp.bytes + Size[v] > MaxBytes)
    <3>1. c = [Recorded(cp, f, v) EXCEPT !.bytes = @ + Size[v]]
      BY <2>1, <2>5 DEF Ingest
    <3>2. /\ c \in Checkpoint /\ c.files = [cp.files EXCEPT ![f] = v]
          /\ c.skipped = cp.skipped /\ c.bytes = cp.bytes + Size[v]
      BY <2>2, <3>1, RecordedProperties, CountedProperties
    <3>3. QED BY <1>0, <1>4, <2>2, <2>5, <3>2
  <2>6. QED BY <2>3, <2>4, <2>5
<1>5. QED BY <1>1, <1>2, <1>3, <1>4 DEF OnDisk

\* What remains of a full stack is its suffix.
LEMMA TrimProperties ==
  ASSUME NEW S, NEW s \in Seq(S)
  PROVE  /\ Trim(s) \in Seq(S)
         /\ Len(Trim(s)) = IF Len(s) > MaxTurns THEN MaxTurns ELSE Len(s)
         /\ \A i \in 1..Len(Trim(s)) : Trim(s)[i] = s[i + (Len(s) - Len(Trim(s)))]
<1> DEFINE n == Len(s)
<1>1. n \in Nat /\ MaxTurns \in Nat
  BY LimitsAssumption
<1>2. CASE n > MaxTurns
  <2>1. Trim(s) = SubSeq(s, n - MaxTurns + 1, n)
    BY <1>2 DEF Trim
  <2>2. \A i \in (n - MaxTurns + 1)..n : s[i] \in S
    BY <1>1, <1>2
  <2>3. /\ Trim(s) \in Seq(S)
        /\ Len(Trim(s)) = IF n - MaxTurns + 1 <= n THEN n - (n - MaxTurns + 1) + 1 ELSE 0
        /\ \A i \in 1..(n - (n - MaxTurns + 1) + 1) :
              Trim(s)[i] = s[(n - MaxTurns + 1) + i - 1]
    BY <1>1, <2>1, <2>2, SubSeqProperties
  <2>4. QED BY <1>1, <1>2, <2>3, SMTT(30)
<1>3. CASE ~(n > MaxTurns)
  BY <1>1, <1>3 DEF Trim
<1>4. QED BY <1>2, <1>3

\* A pushed stack: the new element is last, the others keep their order.
IsPush(s, e, t) ==
    /\ Len(t) = IF Len(s) + 1 > MaxTurns THEN MaxTurns ELSE Len(s) + 1
    /\ \A d \in Nat : Len(t) + d = Len(s) + 1 =>
         \A i \in 1..Len(t) : t[i] = IF i + d = Len(s) + 1 THEN e ELSE s[i + d]

\* Appending and trimming is a push in that sense.
LEMMA PushProperties ==
  ASSUME NEW S, NEW s \in Seq(S), NEW e \in S
  PROVE  Trim(Append(s, e)) \in Seq(S) /\ IsPush(s, e, Trim(Append(s, e)))
<1> DEFINE u == Append(s, e)
           t == Trim(u)
<1>1. u \in Seq(S) /\ Len(u) = Len(s) + 1
  OBVIOUS
<1>2. \A i \in 1..(Len(s) + 1) : u[i] = IF i = Len(s) + 1 THEN e ELSE s[i]
  <2>1. (\A i \in 1..Len(s) : u[i] = s[i]) /\ u[Len(s) + 1] = e
    BY AppendProperties
  <2>2. QED BY <2>1
<1>3. MaxTurns \in Nat /\ Len(s) \in Nat
  BY LimitsAssumption
<1> HIDE DEF u
<1>4. /\ t \in Seq(S)
      /\ Len(t) = IF Len(u) > MaxTurns THEN MaxTurns ELSE Len(u)
      /\ \A i \in 1..Len(t) : t[i] = u[i + (Len(u) - Len(t))]
  BY <1>1, TrimProperties
<1> HIDE DEF t
<1>5. SUFFICES ASSUME NEW d \in Nat, Len(t) + d = Len(s) + 1, NEW i \in 1..Len(t)
                PROVE  t[i] = IF i + d = Len(s) + 1 THEN e ELSE s[i + d]
  BY <1>1, <1>4 DEF t, u, IsPush
<1>6. d = Len(u) - Len(t) /\ i + d \in 1..(Len(s) + 1)
  BY <1>1, <1>3, <1>4, <1>5
<1>7. t[i] = u[i + d]
  BY <1>4, <1>6
<1>8. QED BY <1>2, <1>6, <1>7

\* A popped stack.
LEMMA PopProperties ==
  ASSUME NEW S, NEW s \in Seq(S), s # << >>
  PROVE  /\ Len(s) \in Nat \ {0}
         /\ SubSeq(s, 1, Len(s) - 1) \in Seq(S)
         /\ Len(SubSeq(s, 1, Len(s) - 1)) = Len(s) - 1
         /\ \A i \in 1..(Len(s) - 1) : SubSeq(s, 1, Len(s) - 1)[i] = s[i]
<1> DEFINE n == Len(s) - 1
<1>1. Len(s) \in Nat \ {0} /\ n \in Nat
  BY EmptySeq
<1>2. \A i \in 1..n : s[i] \in S
  BY <1>1
<1>3. /\ SubSeq(s, 1, n) \in Seq(S)
      /\ Len(SubSeq(s, 1, n)) = IF 1 <= n THEN n - 1 + 1 ELSE 0
      /\ \A i \in 1..(n - 1 + 1) : SubSeq(s, 1, n)[i] = s[1 + i - 1]
  BY <1>1, <1>2, SubSeqProperties
<1> HIDE DEF n
<1>4. n - 1 + 1 = n /\ \A i \in 1..n : 1 + i - 1 = i
  BY <1>1
<1>5. Len(SubSeq(s, 1, n)) = n /\ \A i \in 1..n : SubSeq(s, 1, n)[i] = s[i]
  BY <1>1, <1>3, <1>4
<1>6. QED BY <1>1, <1>3, <1>5 DEF n

-----------------------------------------------------------------------------
(* The checkpoint of the running turn. *)

\* Between turns, with an empty checkpoint, the invariant of the running
\* turn holds.
LEMMA InitCheckpoint == Init => CheckpointInv
<1> SUFFICES ASSUME Init PROVE CheckpointInv
  OBVIOUS
<1> USE DEF Init
<1>1. << >> \in Seq(ToolCall) /\ << >> \in Seq(Checkpoint) /\ << >> \in Seq(Disk)
      /\ Len(<< >>) = 0
  OBVIOUS
<1>2. TypeOK
  BY <1>1, NewCheckpointType DEF TypeOK
<1>3. PhaseInv /\ PendingCovered
  BY DEF PhaseInv, PendingCovered
<1>4. BaselineFaithful /\ MutationsCovered
  BY DEF BaselineFaithful, MutationsCovered, Taken, NewCheckpoint
<1>5. QED BY <1>2, <1>3, <1>4 DEF CheckpointInv

\* A call that ran touched no file the checkpoint neither holds nor reports.
LEMMA FinishStep ==
  ASSUME CheckpointInv, phase = "execute", Finish,
         disk' \in Disk, mutated' \in BOOLEAN, missed' \in SUBSET Files,
         missed \subseteq missed',
         \A f \in Files : disk'[f] # disk[f] =>
                             f \in Head(pending).paths \/ Taken(f) \/ f \in missed'
  PROVE  CheckpointInv'
<1> USE DEF CheckpointInv, Finish
<1>1. /\ pending # << >> /\ pending \in Seq(ToolCall) /\ todo = {}
      /\ Head(pending) = pending[1] /\ 1 \in 1..Len(pending)
  BY DEF PhaseInv, TypeOK
<1>2. /\ pending' \in Seq(ToolCall) /\ Len(pending') = Len(pending) - 1
      /\ \A i \in 1..Len(pending') : pending'[i] = pending[i + 1] /\ i + 1 \in 1..Len(pending)
  BY <1>1, HeadTailProperties
<1>3. TypeOK'
  BY <1>1, <1>2 DEF TypeOK
<1>4. Len(pending) # 1 => pending' # << >>
  <2>1. Len(pending') = Len(pending) - 1 /\ Len(pending) \in Nat
    BY <1>1, <1>2, LenProperties
  <2>2. pending' = << >> => Len(pending') = 0
    OBVIOUS
  <2>3. QED BY ONLY <2>1, <2>2
<1>5. PhaseInv'
  BY <1>1, <1>4 DEF PhaseInv
<1>6. PendingCovered'
  BY <1>1, <1>2 DEF PendingCovered, Taken
<1>7. BaselineFaithful'
  BY DEF BaselineFaithful, Taken
<1>8. MutationsCovered'
  BY <1>1 DEF MutationsCovered, PendingCovered, Taken, Changed
<1>9. QED BY <1>3, <1>5, <1>6, <1>7, <1>8

\* Every step of the agent loop, the tools and /undo keeps the invariant of
\* the running turn: baselines are faithful and cover what was changed.
LEMMA NextCheckpoint == CheckpointInv /\ [Next]_vars => CheckpointInv'
<1> SUFFICES ASSUME CheckpointInv, [Next]_vars PROVE CheckpointInv'
  OBVIOUS
<1> DEFINE Parts == TypeOK /\ PhaseInv /\ PendingCovered /\ BaselineFaithful /\ MutationsCovered
<1>0. Parts /\ (Parts' => CheckpointInv')
  BY DEF CheckpointInv
<1>1. CASE BeginTurn
  <2> USE <1>0, <1>1 DEF BeginTurn, history
  <2>1. TypeOK'
    <3>0. capturing' \in BOOLEAN
      BY Zenon
    <3>1. turns' \in Nat /\ phase' = "resolve"
      BY SMT DEF TypeOK
    <3>2. UNCHANGED <<disk, checkpoint, todo, pending, mutated, stack, start, missed,
                      before, leaked>>
      OBVIOUS
    <3>3. QED BY ONLY <1>0, <3>0, <3>1, <3>2 DEF TypeOK
  <2>2. PhaseInv'
    BY DEF PhaseInv
  <2>3. PendingCovered'
    BY DEF PhaseInv, PendingCovered
  <2>4. BaselineFaithful'
    BY DEF BaselineFaithful, Taken
  <2>5. MutationsCovered'
    BY DEF MutationsCovered, PhaseInv, TypeOK, Changed
  <2>6. QED BY <2>1, <2>2, <2>3, <2>4, <2>5
<1>2. CASE StartExecution
  BY <1>0, <1>2 DEF StartExecution, history, TypeOK, PhaseInv, PendingCovered,
     BaselineFaithful, MutationsCovered, Taken, Changed
<1>3. CASE StopBatch
  BY <1>0, <1>3 DEF StopBatch, history, TypeOK, PhaseInv, PendingCovered,
     BaselineFaithful, MutationsCovered, Taken, Changed
<1>4. ASSUME NEW call \in ToolCall, Resolve(call) PROVE Parts'
  <2> USE <1>0, <1>4 DEF Resolve, history
  <2>1. /\ pending' \in Seq(ToolCall) /\ Len(pending') = Len(pending) + 1
        /\ \A i \in 1..Len(pending) : pending'[i] = pending[i]
        /\ pending'[Len(pending) + 1] = call
        /\ Len(pending) \in Nat
    BY AppendProperties DEF TypeOK
  <2>2. call.paths \in SUBSET Files
    BY DEF ToolCall
  <2>3. TypeOK'
    BY <2>1, <2>2 DEF TypeOK
  <2>4. PhaseInv'
    BY DEF PhaseInv, TypeOK
  <2>5. PendingCovered'
    <3>1. SUFFICES ASSUME capturing, NEW i \in 1..Len(pending'), NEW f \in pending'[i].paths
                   PROVE  f \in todo' \/ Taken(f) \/ f \in missed \cup checkpoint.skipped
      BY DEF PendingCovered, Taken
    <3>2. CASE i = Len(pending) + 1
      BY <2>1, <3>1, <3>2
    <3>3. CASE i # Len(pending) + 1
      <4>1. i \in 1..Len(pending)
        BY <2>1, <3>3
      <4>2. QED BY <2>1, <3>1, <4>1 DEF PendingCovered
    <3>4. QED BY <3>2, <3>3
  <2>6. BaselineFaithful' /\ MutationsCovered'
    BY DEF BaselineFaithful, MutationsCovered, Taken, Changed
  <2>7. QED BY <2>3, <2>4, <2>5, <2>6
<1>5. CASE FileWrite \/ EditFiles \/ ApplyPatch
  <2>1. PICK new \in [Head(pending).paths -> OnDisk] : Overwrite(new)
    BY <1>5 DEF FileWrite, EditFiles, ApplyPatch, OnDisk
  <2>2. /\ phase = "execute" /\ Finish /\ Report /\ UNCHANGED missed
    BY <1>5 DEF FileWrite, EditFiles, ApplyPatch, Running
  <2>3. /\ disk' \in Disk
        /\ \A f \in Files : disk'[f] # disk[f] => f \in Head(pending).paths
    BY <1>0, <2>1 DEF Overwrite, TypeOK, Disk
  <2>4. mutated' \in BOOLEAN
    BY <1>0, <2>2 DEF Report, TypeOK
  <2>5. missed' \in SUBSET Files
    BY <1>0, <2>2 DEF TypeOK
  <2>6. QED BY <2>2, <2>3, <2>4, <2>5, FinishStep
<1>6. CASE ToolFails
  BY <1>0, <1>6, FinishStep DEF ToolFails, TypeOK
<1>7. ASSUME NEW f \in Files, SnapshotPath(f) PROVE Parts'
  <2> USE <1>0, <1>7 DEF SnapshotPath, history
  <2>1. checkpoint \in Checkpoint /\ disk[f] \in OnDisk
    BY DEF TypeOK, Disk
  <2>2. /\ checkpoint' \in Checkpoint
        /\ \A g \in Files : g # f => checkpoint'.files[g] = checkpoint.files[g]
        /\ Taken(f) => checkpoint' = checkpoint
        /\ checkpoint.skipped \subseteq checkpoint'.skipped
        /\ checkpoint'.files[f] # NotTaken \/ f \in checkpoint'.skipped
        /\ ~Taken(f) /\ f \notin checkpoint'.skipped
              => checkpoint'.files[f] = disk[f]
    BY <2>1, SnapshotProperties DEF Taken
  <2>3. \A g \in Files : Taken(g) => Taken(g)'
    BY <2>2 DEF Taken
  <2>4. TypeOK'
    BY <2>2 DEF TypeOK
  <2>5. PhaseInv'
    BY DEF PhaseInv
  <2>6. PendingCovered'
    <3>1. SUFFICES ASSUME capturing, NEW i \in 1..Len(pending), NEW g \in pending[i].paths
                   PROVE  g \in todo' \/ Taken(g)' \/ g \in missed \cup checkpoint'.skipped
      BY DEF PendingCovered
    <3>2. g \in Files
      <4>1. pending \in Seq(ToolCall)
        BY DEF TypeOK
      <4>2. pending[i] \in ToolCall
        BY <4>1, ElementOfSeq
      <4>3. QED BY <3>1, <4>2 DEF ToolCall
    <3>3. g \in todo \/ Taken(g) \/ g \in missed \cup checkpoint.skipped
      BY <3>1 DEF PendingCovered
    <3>4. QED BY <2>2, <2>3, <3>2, <3>3 DEF Taken
  <2>7. BaselineFaithful'
    <3>1. SUFFICES ASSUME NEW g \in Files, g \notin missed, g \notin checkpoint'.skipped,
                          Taken(g)'
                   PROVE  checkpoint'.files[g] = start[g]
      BY DEF BaselineFaithful
    <3>2. CASE Taken(g)
      BY <2>2, <3>1, <3>2 DEF BaselineFaithful, Taken
    <3>3. CASE ~Taken(g)
      <4>1. g = f /\ checkpoint'.files[g] = disk[g]
        BY <2>2, <3>1, <3>3 DEF Taken
      <4>2. disk[g] = start[g]
        BY <2>2, <3>1, <3>3, <4>1 DEF MutationsCovered, Changed, PhaseInv
      <4>3. QED BY <4>1, <4>2
    <3>4. QED BY <3>2, <3>3
  <2>8. MutationsCovered'
    BY <2>2, <2>3 DEF MutationsCovered, Changed
  <2>9. QED BY <2>4, <2>5, <2>6, <2>7, <2>8
<1>8. ASSUME NEW f \in Files, SnapshotFails(f) PROVE Parts'
  BY <1>0, <1>8 DEF SnapshotFails, TypeOK, PhaseInv, PendingCovered,
     BaselineFaithful, MutationsCovered, Taken, Changed
<1>9. ASSUME NEW f \in Files, ToolTears(f) PROVE CheckpointInv'
  <2>1. /\ disk' \in Disk
        /\ \A g \in Files : disk'[g] # disk[g] => g \in Head(pending).paths
    BY <1>0, <1>9 DEF ToolTears, TypeOK, Disk, OnDisk
  <2>2. QED BY <1>0, <1>9, <2>1, FinishStep DEF ToolTears, TypeOK
<1>10. ASSUME NEW f \in Files, ShellWrite(f) PROVE CheckpointInv'
  <2>1. /\ disk' \in Disk
        /\ \A g \in Files : disk'[g] # disk[g] => Taken(g) \/ g \in missed'
    BY <1>0, <1>10 DEF ShellWrite, TypeOK, Disk
  <2>2. missed' \in SUBSET Files /\ missed \subseteq missed'
    BY <1>0, <1>10 DEF ShellWrite, TypeOK
  <2>3. QED BY <1>0, <1>10, <2>1, <2>2, FinishStep DEF ShellWrite, Running, TypeOK
<1>11. ASSUME NEW f \in Files, ExternalEdit(f) PROVE Parts'
  <2> USE <1>0, <1>11 DEF ExternalEdit
  <2>1. /\ disk' \in Disk /\ \A g \in Files : g # f => disk'[g] = disk[g]
    BY DEF TypeOK, Disk
  <2>2. TypeOK' /\ PhaseInv' /\ PendingCovered'
    BY <2>1 DEF TypeOK, PhaseInv, PendingCovered, Taken, Leak
  <2>3. BaselineFaithful' /\ MutationsCovered'
    <3>1. CASE phase = "idle"
      BY <2>1, <3>1 DEF BaselineFaithful, MutationsCovered, Taken, Changed, PhaseInv,
         NewCheckpoint
    <3>2. CASE phase # "idle"
      BY <2>1, <3>2 DEF BaselineFaithful, MutationsCovered, Taken, Changed
    <3>3. QED BY <3>1, <3>2
  <2>4. QED BY <2>2, <2>3
<1>12. ASSUME NEW from \in Files, NEW to \in Files, RenameByPatch(from, to)
       PROVE  CheckpointInv'
  <2>1. /\ disk' \in Disk
        /\ \A g \in Files : disk'[g] # disk[g] => Taken(g) \/ g \in missed'
    BY <1>0, <1>12 DEF RenameByPatch, TypeOK, Disk, OnDisk
  <2>2. missed' \in SUBSET Files /\ missed \subseteq missed' /\ mutated' \in BOOLEAN
    BY <1>0, <1>12 DEF RenameByPatch, TypeOK, Report
  <2>3. QED BY <1>0, <1>12, <2>1, <2>2, FinishStep DEF RenameByPatch, Running
<1>13. CASE EndTurn \/ FailTurn
  <2>1. LeaveTurn /\ pending = << >> /\ phase # "execute"
    BY <1>13 DEF EndTurn, FailTurn
  <2>2. /\ stack' \in Seq(Checkpoint) /\ before' \in Seq(Disk) /\ Len(before') = Len(stack')
    <3>1. CASE EndTurn /\ Keeps
      <4>1. stack' = Trim(Append(stack, checkpoint)) /\ before' = Trim(Append(before, start))
        BY <3>1 DEF EndTurn
      <4>2. /\ stack \in Seq(Checkpoint) /\ checkpoint \in Checkpoint
            /\ before \in Seq(Disk) /\ start \in Disk /\ Len(before) = Len(stack)
        BY <1>0 DEF TypeOK
      <4>3. /\ stack' \in Seq(Checkpoint)
            /\ Len(stack') = IF Len(stack) + 1 > MaxTurns THEN MaxTurns ELSE Len(stack) + 1
        <5>1. stack' \in Seq(Checkpoint) /\ IsPush(stack, checkpoint, stack')
          BY <4>1, <4>2, PushProperties
        <5>2. QED BY <5>1 DEF IsPush
      <4>4. /\ before' \in Seq(Disk)
            /\ Len(before') = IF Len(before) + 1 > MaxTurns THEN MaxTurns ELSE Len(before) + 1
        <5>1. before' \in Seq(Disk) /\ IsPush(before, start, before')
          BY <4>1, <4>2, PushProperties
        <5>2. QED BY <5>1 DEF IsPush
      <4>5. QED BY <4>2, <4>3, <4>4
    <3>2. CASE ~(EndTurn /\ Keeps)
      BY <1>0, <1>13, <3>2 DEF EndTurn, FailTurn, TypeOK
    <3>3. QED BY <3>1, <3>2
  <2>3. leaked' \in SUBSET Files
    BY <1>0, <1>13 DEF EndTurn, FailTurn, TypeOK, Leak, Changed, Checkpoint
  <2>4. TypeOK'
    BY <1>0, <2>1, <2>2, <2>3, NewCheckpointType DEF LeaveTurn, TypeOK
  <2>5. PhaseInv'
    BY <1>0, <2>1 DEF LeaveTurn, PhaseInv
  <2>6. PendingCovered' /\ MutationsCovered'
    BY <2>1 DEF LeaveTurn, PendingCovered, MutationsCovered
  <2>7. BaselineFaithful'
    BY <2>1 DEF LeaveTurn, BaselineFaithful, Taken, NewCheckpoint
  <2>8. QED BY <1>0, <2>4, <2>5, <2>6, <2>7
<1>14. CASE Undo
  <2> USE <1>0, <1>14 DEF Undo
  <2>1. Len(stack) \in Nat \ {0} /\ stack[Len(stack)] \in Checkpoint
    BY EmptySeq, ElementOfSeq DEF TypeOK
  <2>2. disk' \in Disk
    BY <2>1 DEF TypeOK, Disk, Restored, Holds, OnDisk
  <2>3. stack' \in Seq(Checkpoint) /\ Len(stack') = Len(stack) - 1
    BY PopProperties DEF TypeOK
  <2>4. before' \in Seq(Disk) /\ Len(before') = Len(before) - 1
    BY <2>1, PopProperties DEF TypeOK
  <2>5. leaked' \in SUBSET Files
    BY DEF TypeOK
  <2>6. TypeOK'
    BY <2>2, <2>3, <2>4, <2>5 DEF TypeOK
  <2>7. PhaseInv' /\ PendingCovered'
    BY DEF PhaseInv, PendingCovered
  <2>8. BaselineFaithful' /\ MutationsCovered'
    BY DEF PhaseInv, BaselineFaithful, MutationsCovered, Taken, NewCheckpoint
  <2>9. QED BY <2>6, <2>7, <2>8
<1>15. CASE NewSession
  BY <1>0, <1>15 DEF NewSession, TypeOK, PhaseInv, PendingCovered,
     BaselineFaithful, MutationsCovered, Taken, Changed
<1>16. CASE UNCHANGED vars
  BY <1>0, <1>16 DEF vars, TypeOK, PhaseInv, PendingCovered,
     BaselineFaithful, MutationsCovered, Taken, Changed
<1>17. QED
  BY <1>0, <1>1, <1>2, <1>3, <1>4, <1>5, <1>6, <1>7, <1>8, <1>9, <1>10, <1>11, <1>12,
     <1>13, <1>14, <1>15, <1>16 DEF Next

-----------------------------------------------------------------------------
(* The stack. *)

\* A turn that ends well and pushes its checkpoint (CheckpointStack::push)
\* keeps the stack a way back to the start of every turn on it.
LEMMA RewindsAfterPush ==
  ASSUME StackInv, EndTurn, Keeps
  PROVE  StackRewinds'
<1> DEFINE n == Len(stack)
           Clear(f, lo, hi) == \A i \in lo..hi : stack'[i].files[f] = NotTaken
           t == Len(stack')
<1> USE DEF StackInv, CheckpointInv
<1>1. /\ stack' = Trim(Append(stack, checkpoint)) /\ before' = Trim(Append(before, start))
      /\ start' = disk /\ capturing
      /\ leaked' = IF stack' = << >> THEN {} ELSE leaked \cup missed \cup checkpoint.skipped
  BY DEF EndTurn, LeaveTurn, Keeps
<1>2. /\ stack \in Seq(Checkpoint) /\ checkpoint \in Checkpoint
      /\ before \in Seq(Disk) /\ start \in Disk /\ Len(before) = n /\ n \in Nat
  BY DEF TypeOK
<1>3. /\ stack' \in Seq(Checkpoint) /\ t = IF n + 1 > MaxTurns THEN MaxTurns ELSE n + 1
      /\ \A d \in Nat : t + d = n + 1 =>
            \A i \in 1..t : stack'[i] = IF i + d = n + 1 THEN checkpoint ELSE stack[i + d]
  <2>1. stack' \in Seq(Checkpoint) /\ IsPush(stack, checkpoint, stack')
    BY <1>1, <1>2, PushProperties
  <2>2. QED BY <2>1 DEF IsPush
<1>4. /\ Len(before') = t
      /\ \A d \in Nat : t + d = n + 1 =>
            \A i \in 1..t : before'[i] = IF i + d = n + 1 THEN start ELSE before[i + d]
  <2>1. IsPush(before, start, before') /\ Len(before) = n
    BY <1>1, <1>2, PushProperties
  <2>2. Len(before') = t
    BY <1>3, <2>1 DEF IsPush
  <2> HIDE DEF n, t
  <2>3. QED BY <2>1, <2>2 DEF IsPush
<1>5. PICK d \in Nat : t + d = n + 1
  <2>1. MaxTurns \in Nat /\ t \in Nat /\ n + 1 - t \in Nat
    BY <1>2, <1>3, LimitsAssumption
  <2>2. t + (n + 1 - t) = n + 1
    BY <1>2, <2>1
  <2>3. QED BY <2>1, <2>2
<1>6. /\ t \in Nat
      /\ \A i \in 1..t : stack'[i] = IF i + d = n + 1 THEN checkpoint ELSE stack[i + d]
      /\ \A i \in 1..t : before'[i] = IF i + d = n + 1 THEN start ELSE before[i + d]
  BY <1>3, <1>4, <1>5, LimitsAssumption
<1>7. SUFFICES ASSUME NEW j \in 1..t, NEW f \in Files, f \notin leaked'
               PROVE  /\ Clear(f, j, t) => start'[f] = before'[j][f]
                      /\ \A i \in j..t :
                           stack'[i].files[f] # NotTaken /\ Clear(f, j, i - 1)
                              => stack'[i].files[f] = before'[j][f]
  BY DEF StackRewinds, Untouched
<1>8. f \notin leaked /\ f \notin missed \cup checkpoint.skipped
  BY <1>1, <1>6, <1>7
<1>9. /\ Taken(f) => checkpoint.files[f] = start[f]
      /\ ~Taken(f) => disk[f] = start[f]
  BY <1>1, <1>8 DEF BaselineFaithful, MutationsCovered, Changed
<1>10. CASE j + d = n + 1
  <2>1. j = t
    BY <1>5, <1>6, <1>10
  <2>2. stack'[j] = checkpoint /\ before'[j] = start
    BY <1>6, <1>10
  <2>3. QED BY <1>1, <1>6, <1>9, <2>1, <2>2 DEF Untouched, Taken
<1>11. CASE j + d # n + 1
  <2>1. j + d \in 1..n /\ before'[j] = before[j + d]
    BY <1>2, <1>5, <1>6, <1>11
  <2>2. \A i \in j..t : i + d # n + 1 => i + d \in (j + d)..n /\ stack'[i] = stack[i + d]
    BY <1>2, <1>5, <1>6
  <2>3. /\ Untouched(f, j + d, n) => start[f] = before[j + d][f]
        /\ \A i \in (j + d)..n : stack[i].files[f] # NotTaken /\ Untouched(f, j + d, i - 1)
                                    => stack[i].files[f] = before[j + d][f]
    BY <1>8, <2>1 DEF StackRewinds
  <2>4. \A m \in j..t : Clear(f, j, m - 1) => Untouched(f, j + d, m + d - 1)
    <3>1. SUFFICES ASSUME NEW m \in j..t, Clear(f, j, m - 1),
                          NEW k \in (j + d)..(m + d - 1)
                   PROVE  stack[k].files[f] = NotTaken
      BY DEF Untouched
    <3>2. k - d \in j..(m - 1) /\ k - d \in 1..t /\ (k - d) + d = k /\ k # n + 1
      BY <1>2, <1>5, <1>6, <3>1
    <3>3. stack'[k - d] = stack[k] /\ stack'[k - d].files[f] = NotTaken
      BY <1>6, <3>1, <3>2 DEF Untouched
    <3>4. QED BY <3>3
  <2>5. t \in j..t /\ stack'[t] = checkpoint /\ t + d - 1 = n
    BY <1>2, <1>5, <1>6
  <2>6. ASSUME Clear(f, j, t) PROVE start'[f] = before'[j][f]
    <3>1. stack'[t].files[f] = NotTaken /\ Clear(f, j, t - 1)
      BY <1>6, <2>5, <2>6 DEF Untouched
    <3>2. Untouched(f, j + d, n) /\ ~Taken(f)
      BY <2>4, <2>5, <3>1 DEF Taken
    <3>3. QED BY <1>1, <1>9, <2>1, <2>3, <3>2
  <2>7. ASSUME NEW i \in j..t, stack'[i].files[f] # NotTaken, Clear(f, j, i - 1)
        PROVE  stack'[i].files[f] = before'[j][f]
    <3>1. Untouched(f, j + d, i + d - 1)
      BY <2>4, <2>7
    <3>2. CASE i + d = n + 1
      <4>1. stack'[i] = checkpoint /\ i + d - 1 = n
        BY <1>2, <1>5, <1>6, <3>2
      <4>2. QED BY <1>9, <2>1, <2>3, <2>7, <3>1, <4>1 DEF Taken
    <3>3. CASE i + d # n + 1
      BY <2>1, <2>2, <2>3, <2>7, <3>1, <3>3
    <3>4. QED BY <3>2, <3>3
  <2>8. QED BY <2>6, <2>7
<1>12. QED BY <1>10, <1>11

\* So does an /undo, which pops the newest checkpoint and restores it.
LEMMA RewindsAfterUndo ==
  ASSUME StackInv, Undo
  PROVE  StackRewinds'
<1> DEFINE n == Len(stack)
           Clear(f, lo, hi) == \A i \in lo..hi : stack'[i].files[f] = NotTaken
<1> USE DEF StackInv, CheckpointInv
<1>1. /\ n \in Nat \ {0} /\ Len(stack) = n /\ Len(before) = n
      /\ stack \in Seq(Checkpoint) /\ before \in Seq(Disk)
  BY EmptySeq DEF TypeOK, Undo
<1>2. PICK failed \in SUBSET Files :
        /\ disk' = Restored(stack[n], failed)
        /\ leaked' = IF n = 1 THEN {} ELSE leaked \cup failed
  BY DEF Undo
<1>3. start' = disk' /\ start = disk
  BY DEF Undo, PhaseInv
<1>4. /\ Len(stack') = n - 1 /\ \A i \in 1..(n - 1) : stack'[i] = stack[i]
      /\ \A i \in 1..(n - 1) : before'[i] = before[i]
  <2>1. stack' = SubSeq(stack, 1, n - 1) /\ before' = SubSeq(before, 1, n - 1)
    BY <1>1 DEF Undo
  <2>2. stack # << >> /\ before # << >>
    BY <1>1
  <2>3. QED BY <1>1, <2>1, <2>2, PopProperties
<1> HIDE DEF n
<1>5. SUFFICES ASSUME NEW j \in 1..(n - 1), NEW f \in Files, f \notin leaked'
               PROVE  /\ Clear(f, j, n - 1) => start'[f] = before'[j][f]
                      /\ \A i \in j..(n - 1) :
                           stack'[i].files[f] # NotTaken /\ Clear(f, j, i - 1)
                              => stack'[i].files[f] = before'[j][f]
  BY <1>4 DEF StackRewinds, Untouched
<1>6. f \notin leaked /\ f \notin failed /\ j \in 1..n /\ before'[j] = before[j]
  BY <1>1, <1>2, <1>4, <1>5
<1>7. /\ Untouched(f, j, n) => start[f] = before[j][f]
      /\ \A i \in j..n : stack[i].files[f] # NotTaken /\ Untouched(f, j, i - 1)
                            => stack[i].files[f] = before[j][f]
  BY <1>1, <1>6 DEF StackRewinds
<1>8. \A m \in 1..n : Clear(f, j, m - 1) => Untouched(f, j, m - 1)
  BY <1>1, <1>4, <1>6 DEF Untouched
<1>9. ASSUME Clear(f, j, n - 1) PROVE start'[f] = before'[j][f]
  <2>1. Untouched(f, j, n - 1)
    BY <1>1, <1>8, <1>9
  <2>2. CASE stack[n].files[f] = NotTaken
    <3>1. Untouched(f, j, n)
      BY <1>1, <2>1, <2>2 DEF Untouched
    <3>2. disk'[f] = disk[f]
      BY <1>2, <2>2, ContentsAssumption DEF Restored, Holds, Markers
    <3>3. QED BY <1>3, <1>6, <1>7, <3>1, <3>2
  <2>3. CASE stack[n].files[f] # NotTaken
    <3>1. stack[n].files[f] = before[j][f] /\ n \in 1..n
      BY <1>1, <1>7, <2>1, <2>3
    <3>2. stack[n].files[f] \in Baseline /\ before[j][f] \in OnDisk
      <4>1. n \in 1..Len(stack) /\ j \in 1..Len(before)
        BY <1>1, <1>6
      <4>2. stack[n] \in Checkpoint /\ before[j] \in Disk
        BY <1>1, <4>1, ElementOfSeq
      <4>3. QED BY <4>2 DEF Checkpoint, Disk
    <3>3. Holds(stack[n].files[f])
      BY <3>1, <3>2, ContentsAssumption DEF Holds, Baseline, OnDisk, Markers
    <3>4. disk'[f] = stack[n].files[f]
      BY <1>2, <1>6, <3>3 DEF Restored
    <3>5. QED BY <1>3, <1>6, <3>1, <3>4
  <2>4. QED BY <2>2, <2>3
<1>10. ASSUME NEW i \in j..(n - 1), stack'[i].files[f] # NotTaken, Clear(f, j, i - 1)
       PROVE  stack'[i].files[f] = before'[j][f]
  <2>1. i \in 1..n /\ i \in 1..(n - 1) /\ i \in j..n
    BY <1>1, <1>10
  <2>2. Untouched(f, j, i - 1) /\ stack'[i] = stack[i]
    BY <1>4, <1>8, <1>10, <2>1
  <2>3. QED BY <1>6, <1>7, <1>10, <2>1, <2>2
<1>11. QED BY <1>9, <1>10

\* An empty stack is a way back and within its limits.
LEMMA InitStack == Init => StackInv /\ WithinLimits
<1> SUFFICES ASSUME Init PROVE StackInv /\ WithinLimits
  OBVIOUS
<1>1. CheckpointInv
  BY InitCheckpoint
<1>2. Len(stack) = 0 /\ checkpoint.bytes = 0
  BY DEF Init, NewCheckpoint
<1>3. StackRewinds /\ WithinLimits
  BY <1>2, LimitsAssumption DEF StackRewinds, WithinLimits
<1>4. QED BY <1>1, <1>3 DEF StackInv, Init

\* Every step keeps the stack a way back to the start of every turn on it.
LEMMA NextStack == StackInv /\ [Next]_vars => StackInv'
<1> SUFFICES ASSUME StackInv, [Next]_vars PROVE StackInv'
  OBVIOUS
<1>1. CheckpointInv'
  BY NextCheckpoint DEF StackInv
<1>2. TypeOK /\ TypeOK'
  BY <1>1 DEF StackInv, CheckpointInv
<1>3. CASE EndTurn /\ Keeps
  <2>1. stack' = << >> => leaked' = {}
    BY <1>3 DEF EndTurn
  <2>2. QED BY <1>1, <1>3, <2>1, RewindsAfterPush DEF StackInv
<1>4. CASE Undo
  <2>1. stack' = << >> => Len(stack) = 1
    <3>1. Len(stack) \in Nat \ {0} /\ stack' = SubSeq(stack, 1, Len(stack) - 1)
      BY <1>2, <1>4, EmptySeq DEF TypeOK, Undo
    <3>2. Len(stack') = Len(stack) - 1
      BY <1>2, <1>4, <3>1, PopProperties DEF TypeOK, Undo
    <3>3. stack' = << >> => Len(stack') = 0
      BY EmptySeq
    <3>4. Len(stack) \in Nat
      BY <3>1
    <3>5. QED BY ONLY <3>2, <3>3, <3>4
  <2>2. Len(stack) = 1 => leaked' = {}
    BY <1>4 DEF Undo
  <2>3. QED BY <1>1, <1>4, <2>1, <2>2, RewindsAfterUndo DEF StackInv
<1>5. CASE NewSession
  BY <1>1, <1>5 DEF StackInv, NewSession, StackRewinds
<1>6. CASE (EndTurn /\ ~Keeps) \/ FailTurn
  <2>1. /\ UNCHANGED <<stack, before>> /\ leaked' = Leak(Changed) /\ start' = disk
    BY <1>6 DEF EndTurn, FailTurn, LeaveTurn
  <2>2. CASE stack = << >>
    BY <1>1, <2>1, <2>2 DEF StackInv, Leak, StackRewinds
  <2>3. CASE stack # << >>
    <3>1. /\ leaked \subseteq leaked'
          /\ \A f \in Files \ leaked' : start'[f] = start[f]
      BY <1>2, <2>1, <2>3 DEF Leak, Changed, TypeOK
    <3>2. StackRewinds'
      BY <2>1, <3>1 DEF StackInv, StackRewinds, Untouched
    <3>3. QED BY <1>1, <2>1, <2>3, <3>2 DEF StackInv
  <2>4. QED BY <2>2, <2>3
<1>7. ASSUME NEW f \in Files, ExternalEdit(f) PROVE StackInv'
  <2>1. CASE phase # "idle" \/ stack = << >>
    BY <1>1, <1>7, <2>1 DEF ExternalEdit, StackInv, StackRewinds, Untouched, Leak
  <2>2. CASE phase = "idle" /\ stack # << >>
    <3>1. /\ UNCHANGED <<stack, before>> /\ leaked' = leaked \cup {f}
          /\ \A g \in Files : g # f => start'[g] = start[g]
      <4>1. disk = start
        BY <2>2 DEF StackInv, CheckpointInv, PhaseInv
      <4>2. QED BY <1>2, <1>7, <2>2, <4>1 DEF ExternalEdit, Leak, TypeOK, Disk
    <3>2. StackRewinds'
      BY <3>1 DEF StackInv, StackRewinds, Untouched
    <3>3. QED BY <1>1, <2>2, <3>1, <3>2 DEF StackInv
  <2>3. QED BY <2>1, <2>2
<1>8. CASE UNCHANGED <<stack, before, start, leaked>>
  BY <1>1, <1>8 DEF StackInv, StackRewinds, Untouched
<1>9. QED
  BY <1>3, <1>4, <1>5, <1>6, <1>7, <1>8
     DEF Next, vars, history, BeginTurn, StartExecution, StopBatch, Resolve, FileWrite,
         EditFiles, ApplyPatch, ToolFails, SnapshotPath, SnapshotFails, ToolTears,
         ShellWrite, RenameByPatch, Finish

\* Every step keeps the stack and each checkpoint within CheckpointLimits.
LEMMA NextLimits == StackInv /\ WithinLimits /\ [Next]_vars => WithinLimits'
<1> SUFFICES ASSUME StackInv, WithinLimits, [Next]_vars PROVE WithinLimits'
  OBVIOUS
<1>1. TypeOK /\ PhaseInv
  BY DEF StackInv, CheckpointInv
<1> USE DEF WithinLimits
<1>2. CASE EndTurn /\ Keeps
  <2>1. /\ stack' = Trim(Append(stack, checkpoint)) /\ checkpoint'.bytes = 0
    BY <1>2 DEF EndTurn, LeaveTurn, NewCheckpoint
  <2>2. stack \in Seq(Checkpoint) /\ checkpoint \in Checkpoint /\ Len(stack) \in Nat
    BY <1>1 DEF TypeOK
  <2>3. IsPush(stack, checkpoint, stack')
    BY <2>1, <2>2, PushProperties
  <2>4. Len(stack') <= MaxTurns /\ Len(stack') \in Nat /\ Len(stack) + 1 - Len(stack') \in Nat
    BY <2>2, <2>3, LimitsAssumption DEF IsPush
  <2>5. PICK d \in Nat : Len(stack') + d = Len(stack) + 1
    <3>1. Len(stack') + (Len(stack) + 1 - Len(stack')) = Len(stack) + 1
      BY <2>2, <2>4
    <3>2. QED BY <2>4, <3>1
  <2>6. \A i \in 1..Len(stack') :
           stack'[i] = IF i + d = Len(stack) + 1 THEN checkpoint ELSE stack[i + d]
    BY <2>3, <2>5 DEF IsPush
  <2>7. \A i \in 1..Len(stack') : stack'[i].bytes <= MaxBytes
    <3>1. TAKE i \in 1..Len(stack')
    <3>2. i + d = Len(stack) + 1 \/ i + d \in 1..Len(stack)
      BY <2>2, <2>4, <2>5
    <3>3. QED BY <2>6, <3>2
  <2>8. QED BY <2>1, <2>4, <2>7, LimitsAssumption
<1>3. CASE (EndTurn /\ ~Keeps) \/ FailTurn
  BY <1>3, LimitsAssumption DEF EndTurn, FailTurn, LeaveTurn, NewCheckpoint
<1>4. CASE Undo
  <2>1. Len(stack) \in Nat \ {0} /\ stack' = SubSeq(stack, 1, Len(stack) - 1)
    BY <1>1, <1>4, EmptySeq DEF TypeOK, Undo
  <2>2. /\ Len(stack') = Len(stack) - 1
        /\ \A i \in 1..(Len(stack) - 1) : stack'[i] = stack[i]
    BY <1>1, <1>4, <2>1, PopProperties DEF TypeOK, Undo
  <2>3. Len(stack) - 1 <= MaxTurns /\ \A i \in 1..(Len(stack) - 1) : i \in 1..Len(stack)
    BY <2>1, LimitsAssumption
  <2>4. checkpoint' = checkpoint
    BY <1>4 DEF Undo
  <2>5. QED BY <2>2, <2>3, <2>4
<1>5. CASE NewSession
  BY <1>5, LimitsAssumption DEF NewSession
<1>6. ASSUME NEW f \in Files, SnapshotPath(f) PROVE WithinLimits'
  <2>1. checkpoint \in Checkpoint /\ disk[f] \in OnDisk
    BY <1>1 DEF TypeOK, Disk
  <2>2. checkpoint'.bytes <= MaxBytes
    BY <1>6, <2>1, SnapshotProperties DEF SnapshotPath
  <2>3. QED BY <1>6, <2>2 DEF SnapshotPath
<1>7. CASE UNCHANGED <<stack, checkpoint>>
  BY <1>7
<1>8. QED
  BY <1>2, <1>3, <1>4, <1>5, <1>6, <1>7
     DEF Next, vars, BeginTurn, StartExecution, StopBatch, Resolve, FileWrite,
         EditFiles, ApplyPatch, ToolFails, SnapshotFails, ToolTears,
         ShellWrite, RenameByPatch, ExternalEdit, Finish

-----------------------------------------------------------------------------

\* Every variable of the checkpoint model keeps its type.
THEOREM TypeCorrect == Spec => []TypeOK
<1>1. CheckpointInv => TypeOK
  BY DEF CheckpointInv
<1>2. QED BY <1>1, InitCheckpoint, NextCheckpoint, PTL DEF Spec

\* turn_checkpoint.rs keeps, for every file a turn names, what the file held
\* when the turn began, in whatever order and however often the calls name it.
THEOREM BaselinesAreFaithful == Spec => []BaselineFaithful
<1>1. CheckpointInv => BaselineFaithful
  BY DEF CheckpointInv
<1>2. QED BY <1>1, InitCheckpoint, NextCheckpoint, PTL DEF Spec

\* The agent loop snapshots before it executes: no file tool changes a file
\* that the checkpoint of the turn neither holds nor reports as skipped.
THEOREM FileToolsAreCovered == Spec => []MutationsCovered
<1>1. CheckpointInv => MutationsCovered
  BY DEF CheckpointInv
<1>2. QED BY <1>1, InitCheckpoint, NextCheckpoint, PTL DEF Spec

\* The checkpoint of a turn is true and complete, whatever its calls were.
THEOREM CheckpointsAreSound == Spec => []CheckpointSound
<1>1. BaselineFaithful /\ MutationsCovered => CheckpointSound
  BY DEF CheckpointSound
<1>2. QED BY <1>1, BaselinesAreFaithful, FileToolsAreCovered, PTL

\* CheckpointStack::push and ingest_snapshot_bytes respect their limits.
THEOREM LimitsRespected == Spec => []WithinLimits
<1>1. Init => StackInv /\ WithinLimits
  BY InitStack
<1>2. StackInv /\ WithinLimits /\ [Next]_vars => StackInv' /\ WithinLimits'
  BY NextStack, NextLimits
<1>3. QED BY <1>1, <1>2, PTL DEF Spec

\* What is kept for /undo is well formed and within its limits.
THEOREM StaysWithinBounds == Spec => []WithinBounds
<1>1. TypeOK /\ WithinLimits => WithinBounds
  BY DEF WithinBounds
<1>2. QED BY <1>1, TypeCorrect, LimitsRespected, PTL

\* Repeated /undo walks back through the turns on the stack, for any number
\* of files, turns and checkpoints.
THEOREM UndoRewinds == Spec => []StackRewinds
<1>1. Init => StackInv
  BY InitStack
<1>2. StackInv => StackRewinds
  BY DEF StackInv
<1>3. QED BY <1>1, <1>2, NextStack, PTL DEF Spec

============================================================================
