--------------------------- MODULE AgentLoopProofs ---------------------------
(***************************************************************************)
(* AgentLoop for any number of steps and calls: the types, consent, stops, *)
(* the order of execution, that the batches keep the promise of ToolGate,  *)
(* and that every request holds a valid transcript.  Playground: what a    *)
(* play session leaves of the user's settings and project, and what a file *)
(* of results stands for.  ProjectMemory: what the index says of the       *)
(* files, and the notes.  LineEditor: the prompt and the lists.            *)
(***************************************************************************)
EXTENDS AgentLoop, Playground, ProjectMemory, LineEditor, SequenceTheorems, FiniteSetTheorems, TLAPS

\* Where the loop is determines how far the batch has come.
LoopInv ==
    /\ phase = "resolve" => output = {} /\ answered = 0 /\ ran = << >>
    /\ phase # "resolve" => Len(entry) = Len(batch)
    /\ phase = "run" => /\ \A i \in Indices : entry[i] = "done" => i \in output
                        /\ answered > 0 => output = Indices
    /\ phase \notin {"resolve", "run"} => output = Indices /\ answered = Len(batch)
    /\ phase = "ended" => natural
    /\ phase \notin {"ended", "returned"} => ~natural
    /\ phase \notin {"returned", "failed"} => result = "none"

\* Only a granted call runs; a granted call has consent and its snapshot.
GrantInv ==
    /\ \A i \in 1..Len(entry) :
         entry[i] = "run" => /\ batch[i].asks => consent[i]
                             /\ Capturing /\ batch[i].tool \in Mutation => i \in snapped
    /\ \A k \in 1..Len(ran) : ran[k] \in Granted /\ ran[k] \in output

\* A stop is remembered until the turn ends.
StopInv ==
    /\ phase = "resolve" => (halt # "no" => halt = "before" /\ stopBatch)
    /\ phase = "run" => (halt # "no" => stopAfter)
    /\ phase = "run" /\ halt = "before" => \A i \in Indices : entry[i] = "done"
    /\ phase = "start" => halt = "no"
    /\ StopHolds

\* When a call other than a read has run, so have the reads and the earlier ones.
OrderInv ==
    /\ \A k \in 1..Len(ran) : ran[k] \in Serial =>
         Reads \subseteq output /\ \A j \in Serial : j < ran[k] => j \in output
    /\ ExecutionOrder

IInv == TypeOK /\ LoopInv /\ GrantInv /\ StopInv /\ OrderInv

-----------------------------------------------------------------------------

\* A turn starts in the invariant.
LEMMA InitIInv == Init => IInv
<1> SUFFICES ASSUME Init PROVE IInv
  OBVIOUS
<1>1. Flags
  BY DEF Init, Flags
<1>2. Len(batch) = 0 /\ Len(entry) = 0 /\ Len(consent) = 0 /\ Len(ran) = 0
  BY DEF Init
<1>3. batch \in Seq(Call) /\ entry \in Seq({"run", "done"}) /\ consent \in Seq(BOOLEAN)
      /\ ran \in Seq(Indices)
  BY DEF Init
<1>4. TypeOK
  BY <1>1, <1>2, <1>3, ParametersAssumption DEF Init, TypeOK
<1>5. LoopInv /\ GrantInv /\ StopInv /\ OrderInv
  BY <1>2 DEF Init, LoopInv, GrantInv, StopInv, OrderInv, StopHolds, ExecutionOrder, Indices
<1>6. QED BY <1>4, <1>5 DEF IInv

\* Every action assigns a truth value to the flags.
LEMMA NextFlags == Flags /\ [Next]_vars => Flags'
<1> SUFFICES ASSUME Flags, [Next]_vars PROVE Flags'
  OBVIOUS
<1> USE DEF Flags
<1>1. CASE UNCHANGED vars
  BY <1>1 DEF vars, loop, calls
<1>2. CASE DirectAnswer \/ Start \/ BeginStep \/ RequestFails \/ Cancel \/ Return
  BY <1>2 DEF DirectAnswer, Start, BeginStep, RequestFails, Cancel, Return, loop, calls
<1>3. CASE ModelAnswers
  BY <1>3 DEF ModelAnswers, NewBatch
<1>4. ASSUME NEW n \in 1..MaxCalls, NEW b \in [1..n -> Call], ModelCalls(b) PROVE Flags'
  BY <1>4 DEF ModelCalls, NewBatch, loop
<1>5. CASE Resolve
  <2> USE DEF Settle, StopIf, MayAddContext, loop
  <2>1. CASE SkipAfterStop
    BY <2>1 DEF SkipAfterStop
  <2>2. ASSUME NEW pre, PreToolUseRefuses(pre) PROVE Flags'
    BY <2>2 DEF PreToolUseRefuses
  <2>3. ASSUME NEW pre, NEW asks, UnknownTool(pre, asks) PROVE Flags'
    BY <2>3 DEF UnknownTool
  <2>4. ASSUME NEW pre, NEW asks, NEW permission, NEW yes, Deny(pre, asks, permission, yes)
        PROVE Flags'
    BY <2>4 DEF Deny
  <2>5. ASSUME NEW pre, NEW asks, NEW permission, NEW yes, NEW start,
               SubagentRefused(pre, asks, permission, yes, start)
        PROVE Flags'
    BY <2>5 DEF SubagentRefused
  <2>6. ASSUME NEW pre, NEW asks, NEW permission, NEW yes, NEW start,
               Grant(pre, asks, permission, yes, start)
        PROVE Flags'
    BY <2>6 DEF Grant
  <2>7. QED BY <1>5, <2>1, <2>2, <2>3, <2>4, <2>5, <2>6 DEF Resolve
<1>6. CASE FinishResolve \/ EndStep
  BY <1>6 DEF FinishResolve, EndStep, loop, calls
<1>7. CASE Answer
  BY <1>7 DEF Answer, AnswerCall, MayAddContext, loop, calls
<1>8. ASSUME NEW i, RunCall(i) PROVE Flags'
  BY <1>8 DEF RunCall, loop, calls
<1>9. ASSUME NEW pre, NEW given, Compact(pre, given)
      PROVE Flags'
  BY <1>9 DEF Compact, calls
<1>10. QED
  BY <1>1, <1>2, <1>3, <1>4, <1>5, <1>6, <1>7, <1>8, <1>9 DEF Next, Proceed

\* What the sequences of a batch are after one more call was resolved.
LEMMA SettleProperties ==
  ASSUME TypeOK, Resolving, NEW how \in {"run", "done"}, NEW asks \in BOOLEAN,
         NEW approved \in BOOLEAN, Settle(how, asks, approved)
  PROVE  /\ Newest \in Indices /\ Indices' = Indices
         /\ batch' \in Seq(Call) /\ Len(batch') = Len(batch)
         /\ \A j \in 1..Len(entry) : batch'[j] = batch[j]
         /\ batch'[Newest].asks = asks /\ batch'[Newest].tool = Tool
         /\ entry' \in Seq({"run", "done"}) /\ Len(entry') = Newest
         /\ \A j \in 1..Len(entry) : entry'[j] = entry[j]
         /\ entry'[Newest] = how
         /\ consent' \in Seq(BOOLEAN) /\ Len(consent') = Newest
         /\ \A j \in 1..Len(entry) : consent'[j] = consent[j]
         /\ consent'[Newest] = approved
<1> DEFINE n == Newest
<1>1. /\ batch \in Seq(Call) /\ entry \in Seq({"run", "done"}) /\ consent \in Seq(BOOLEAN)
      /\ Len(batch) \in Nat /\ Len(entry) \in Nat /\ Len(consent) = Len(entry)
      /\ Len(entry) < Len(batch)
  BY DEF TypeOK, Resolving
<1>2. n \in 1..Len(batch) /\ n = Len(entry) + 1
  BY <1>1 DEF Newest
<1>3. batch[n] \in Call
  BY <1>1, <1>2
<1>4. [tool |-> Tool, asks |-> asks] \in Call
  BY <1>3 DEF Tool, Call
<1>5. /\ batch' \in Seq(Call) /\ Len(batch') = Len(batch)
      /\ batch'[n] = [tool |-> Tool, asks |-> asks]
      /\ \A j \in 1..Len(batch) : j # n => batch'[j] = batch[j]
  BY <1>1, <1>2, <1>4, ExceptSeq DEF Settle
<1>6. /\ entry' = Append(entry, how) /\ consent' = Append(consent, approved)
  BY DEF Settle
<1>7. /\ entry' \in Seq({"run", "done"}) /\ Len(entry') = n /\ entry'[n] = how
      /\ \A j \in 1..Len(entry) : entry'[j] = entry[j]
  BY <1>1, <1>2, <1>6, AppendProperties
<1>8. /\ consent' \in Seq(BOOLEAN) /\ Len(consent') = n /\ consent'[n] = approved
      /\ \A j \in 1..Len(entry) : consent'[j] = consent[j]
  BY <1>1, <1>2, <1>6, AppendProperties
<1>9. Newest \in Indices /\ Indices' = Indices
  BY <1>2, <1>5 DEF Indices
<1>10. batch'[n].asks = asks /\ batch'[n].tool = Tool
  BY <1>5
<1>11. \A j \in 1..Len(entry) : batch'[j] = batch[j]
  BY <1>1, <1>2, <1>5
<1>12. QED BY <1>2, <1>5, <1>7, <1>8, <1>9, <1>10, <1>11

\* Resolving one more call keeps the invariant, whatever became of the call.
LEMMA SettleStep ==
  ASSUME IInv, Resolving, NEW how \in {"run", "done"}, NEW asks \in BOOLEAN,
         NEW approved \in BOOLEAN, Settle(how, asks, approved), Flags',
         how = "run" /\ asks => approved,
         snapped \subseteq snapped', snapped' \subseteq snapped \cup {Newest},
         how = "run" /\ Capturing /\ Tool \in Mutation => Newest \in snapped',
         \/ halt' = halt /\ stopBatch' = stopBatch
         \/ halt' = "before" /\ stopBatch'
  PROVE  IInv'
<1> USE DEF IInv
<1>1. /\ Newest \in Indices /\ Indices' = Indices
      /\ batch' \in Seq(Call) /\ Len(batch') = Len(batch)
      /\ \A j \in 1..Len(entry) : batch'[j] = batch[j]
      /\ batch'[Newest].asks = asks /\ batch'[Newest].tool = Tool
      /\ entry' \in Seq({"run", "done"}) /\ Len(entry') = Newest
      /\ \A j \in 1..Len(entry) : entry'[j] = entry[j]
      /\ entry'[Newest] = how
      /\ consent' \in Seq(BOOLEAN) /\ Len(consent') = Newest
      /\ \A j \in 1..Len(entry) : consent'[j] = consent[j]
      /\ consent'[Newest] = approved
  BY SettleProperties
<1>2. /\ phase = "resolve" /\ phase' = phase /\ stopAfter' = stopAfter /\ output' = output
      /\ answered' = answered /\ UNCHANGED loop /\ ran' = ran
  BY DEF Settle, Resolving
<1>3. output = {} /\ answered = 0 /\ ran = << >> /\ Len(ran) = 0
  BY <1>2 DEF LoopInv
<1>4. TypeOK'
  BY <1>1, <1>2 DEF TypeOK, Indices, loop
<1>5. LoopInv'
  BY <1>2, <1>3 DEF LoopInv, loop
<1>6. \A i \in 1..Len(entry') : i \in 1..Len(entry) \/ i = Newest
  BY <1>1 DEF Newest, TypeOK
<1>7. GrantInv'
  BY <1>1, <1>2, <1>3, <1>6 DEF GrantInv
<1>8. StopInv'
  <2>1. phase' = "resolve" /\ ran' = << >> /\ result' = "none"
    BY <1>2, <1>3 DEF LoopInv, loop
  <2>2. halt' # "no" => halt' = "before" /\ stopBatch'
    BY <1>2 DEF StopInv
  <2>3. QED BY <2>1, <2>2 DEF StopInv, StopHolds
<1>9. OrderInv'
  BY <1>2, <1>3 DEF OrderInv, ExecutionOrder
<1>10. QED BY <1>4, <1>5, <1>7, <1>8, <1>9

\* Phase 1 keeps the invariant.
LEMMA ResolveStep == IInv /\ Resolve /\ Flags' => IInv'
<1> SUFFICES ASSUME IInv, Resolve, Flags' PROVE IInv'
  OBVIOUS
<1>1. Resolving => batch[Newest].asks \in BOOLEAN
  <2>1. Resolving => batch[Newest] \in Call
    BY DEF IInv, TypeOK, Resolving, Newest
  <2>2. QED BY <2>1, Zenon DEF Call
<1>2. CASE SkipAfterStop
  <2>1. Resolving /\ Settle("done", batch[Newest].asks, FALSE) /\ snapped' = snapped
        /\ halt' = halt /\ stopBatch' = stopBatch
    BY <1>2 DEF SkipAfterStop
  <2>2. QED BY <1>1, <2>1, SettleStep
<1>3. ASSUME NEW pre, PreToolUseRefuses(pre) PROVE IInv'
  <2>1. Resolving /\ Settle("done", batch[Newest].asks, FALSE) /\ snapped' = snapped
        /\ (\/ halt' = halt /\ stopBatch' = stopBatch
            \/ halt' = "before" /\ stopBatch')
    BY <1>3 DEF PreToolUseRefuses, StopIf, IInv, TypeOK, Flags
  <2>2. QED BY <1>1, <2>1, SettleStep
<1>4. ASSUME NEW pre, NEW asks \in BOOLEAN, UnknownTool(pre, asks) PROVE IInv'
  <2>1. Resolving /\ Settle("done", asks, FALSE) /\ snapped' = snapped
        /\ halt' = halt /\ stopBatch' = stopBatch
    BY <1>4 DEF UnknownTool, Passes
  <2>2. QED BY <2>1, SettleStep
<1>5. ASSUME NEW pre, NEW asks \in BOOLEAN, NEW permission, NEW yes,
             Deny(pre, asks, permission, yes)
      PROVE  IInv'
  <2>1. Resolving /\ Settle("done", asks, FALSE) /\ snapped' = snapped
        /\ (\/ halt' = halt /\ stopBatch' = stopBatch
            \/ halt' = "before" /\ stopBatch')
    BY <1>5 DEF Deny, Passes, StopIf, IInv, TypeOK, Flags
  <2>2. QED BY <2>1, SettleStep
<1>6. ASSUME NEW pre, NEW asks \in BOOLEAN, NEW permission, NEW yes, NEW start,
             SubagentRefused(pre, asks, permission, yes, start)
      PROVE  IInv'
  <2>1. Resolving /\ Settle("done", asks, asks) /\ snapped' = snapped
        /\ (\/ halt' = halt /\ stopBatch' = stopBatch
            \/ halt' = "before" /\ stopBatch')
    BY <1>6 DEF SubagentRefused, Passes, StopIf, IInv, TypeOK, Flags
  <2>2. QED BY <2>1, SettleStep
<1>7. ASSUME NEW pre, NEW asks \in BOOLEAN, NEW permission, NEW yes, NEW start,
             Grant(pre, asks, permission, yes, start)
      PROVE  IInv'
  <2>1. /\ Resolving /\ Settle("run", asks, asks /\ Approved(permission, yes))
        /\ halt' = halt /\ stopBatch' = stopBatch
        /\ Clear(asks, permission, yes)
        /\ snapped' = IF Capturing /\ Tool \in Mutation
                      THEN snapped \cup {Newest} ELSE snapped
    BY <1>7 DEF Grant, Passes
  <2>2. asks => (asks /\ Approved(permission, yes))
    BY <2>1 DEF Clear
  <2>3. (asks /\ Approved(permission, yes)) \in BOOLEAN
    OBVIOUS
  <2>4. QED BY <2>1, <2>2, <2>3, SettleStep
<1>8. ASSUME NEW pre, Resolving, NEW asks \in Rewrites(pre, batch[Newest].asks)
      PROVE  asks \in BOOLEAN
  BY <1>1, <1>8 DEF Rewrites
<1>9. QED BY <1>2, <1>3, <1>4, <1>5, <1>6, <1>7, <1>8 DEF Resolve

\* A new batch, or none, keeps the invariant.
LEMMA NewBatchStep ==
  ASSUME IInv, phase = "stream", NEW b \in Seq(Call), Len(b) <= MaxCalls, NewBatch(b),
         Flags', halt' = halt, step' = step, result' = result,
         \/ phase' = "resolve" /\ natural' = natural
         \/ phase' = "ended" /\ natural' /\ Len(b) = 0
  PROVE  IInv'
<1> USE DEF IInv, NewBatch
<1>1. Len(entry') = 0 /\ Len(consent') = 0 /\ Len(ran') = 0 /\ Len(batch') = Len(b)
      /\ Len(b) \in Nat
  OBVIOUS
<1>2. entry' \in Seq({"run", "done"}) /\ consent' \in Seq(BOOLEAN) /\ ran' \in Seq(Indices)'
  OBVIOUS
<1>3. halt = "no" /\ result = "none"
  BY DEF StopInv, StopHolds, LoopInv, TypeOK
<1>4. TypeOK'
  BY <1>1, <1>2 DEF TypeOK
<1>5. LoopInv'
  BY <1>1, <1>3 DEF LoopInv, Indices
<1>6. GrantInv'
  BY <1>1 DEF GrantInv
<1>7. StopInv'
  BY <1>1, <1>3 DEF StopInv, StopHolds
<1>8. OrderInv'
  BY <1>1 DEF OrderInv, ExecutionOrder
<1>9. QED BY <1>4, <1>5, <1>6, <1>7, <1>8

\* A step outside the batch, to another phase.
LEMMA PhaseStep ==
  ASSUME IInv, Flags', UNCHANGED <<calls, output, answered, ran>>,
         step' \in 0..MaxSteps, phase \notin {"resolve"},
         phase' \in {"model", "stream", "compact", "ended", "returned", "failed"},
         output = Indices, answered = Len(batch),
         result' \in {"none", "ended", "cancelled", "limit", "error"},
         halt' \in {halt, "after"},
         phase' = "ended" => natural',
         phase' \notin {"ended", "returned"} => ~natural',
         phase' \notin {"returned", "failed"} => result' = "none",
         halt' # "no" => phase' \notin {"model", "stream", "compact"} /\ result' # "limit"
  PROVE  IInv'
<1> USE DEF IInv, calls
<1>1. Indices' = Indices
  BY DEF Indices
<1>2. TypeOK'
  BY <1>1 DEF TypeOK
<1>3. LoopInv'
  BY <1>1 DEF LoopInv
<1>4. Granted' = Granted /\ Reads' = Reads /\ Serial' = Serial
  BY <1>1 DEF Granted, Reads, Serial
<1>5. GrantInv'
  BY <1>4 DEF GrantInv
<1>6. StopInv'
  BY DEF StopInv, StopHolds
<1>7. OrderInv'
  BY <1>4 DEF OrderInv, ExecutionOrder
<1>8. QED BY <1>2, <1>3, <1>5, <1>6, <1>7

\* Leaving phase 1: a stop has taken back every grant of the batch.
LEMMA FinishResolveStep == IInv /\ FinishResolve /\ Flags' => IInv'
<1> SUFFICES ASSUME IInv, FinishResolve, Flags' PROVE IInv'
  OBVIOUS
<1> USE DEF IInv, FinishResolve
<1>1. Indices' = Indices /\ ran' = ran /\ ran = << >> /\ Len(ran) = 0 /\ output = {}
  BY DEF LoopInv, Indices
<1>2. entry' \in Seq({"run", "done"}) /\ Len(entry') = Len(entry)
      /\ \A i \in Indices : entry'[i] = "done" \/ (~stopBatch /\ entry'[i] = entry[i])
  <2>1. entry \in Seq({"run", "done"}) /\ Len(entry) \in Nat /\ DOMAIN entry = 1..Len(entry)
    BY DEF TypeOK
  <2>2. CASE stopBatch
    <3>1. entry' = [i \in 1..Len(entry) |-> "done"]
      BY <2>1, <2>2 DEF Withdrawn
    <3>2. QED BY <2>1, <3>1 DEF Indices
  <2>3. CASE ~stopBatch
    BY <2>1, <2>3 DEF Withdrawn
  <2>4. QED BY <2>2, <2>3
<1>3. TypeOK'
  BY <1>1, <1>2 DEF TypeOK, loop
<1>4. LoopInv'
  BY <1>1, <1>2 DEF LoopInv, loop
<1>5. GrantInv'
  BY <1>1, <1>2 DEF GrantInv, Indices
<1>6. StopInv'
  <2>1. halt' = halt /\ phase' = "run" /\ stopAfter' = stopBatch /\ result' = "none"
    BY DEF LoopInv, loop
  <2>2. halt # "no" => halt = "before" /\ stopBatch
    BY DEF StopInv
  <2>3. stopBatch => \A i \in Indices' : entry'[i] = "done"
    BY <1>1, <1>2
  <2>4. QED BY <1>1, <2>1, <2>2, <2>3 DEF StopInv, StopHolds
<1>7. OrderInv'
  BY <1>1 DEF OrderInv, ExecutionOrder
<1>8. QED BY <1>3, <1>4, <1>5, <1>6, <1>7

\* Phase 2: a call runs behind everything it has to wait for.
LEMMA RunCallStep ==
  ASSUME IInv, NEW i, RunCall(i), Flags'
  PROVE  IInv'
<1> USE DEF IInv, RunCall
<1>1. /\ phase = "run" /\ phase' = "run" /\ UNCHANGED <<calls, halt, answered, stopAfter, loop>>
      /\ Indices' = Indices /\ Granted' = Granted /\ Reads' = Reads /\ Serial' = Serial
      /\ output' = output \cup {i} /\ i \in Granted /\ i \notin output
  BY DEF calls, Indices, Granted, Reads, Serial
<1>2. i \in Indices /\ entry[i] = "run" /\ i \in Int
  BY <1>1 DEF Granted, Indices
<1>3. /\ ran \in Seq(Indices) /\ ran' = Append(ran, i) /\ ran' \in Seq(Indices)
      /\ Len(ran) \in Nat /\ Len(ran') = Len(ran) + 1 /\ ran'[Len(ran) + 1] = i
      /\ \A k \in 1..Len(ran) : ran'[k] = ran[k]
  BY <1>2, AppendProperties DEF TypeOK
<1>4. \A k \in 1..Len(ran') : k \in 1..Len(ran) \/ k = Len(ran) + 1
  BY <1>3
<1>5. TypeOK'
  BY <1>1, <1>2, <1>3 DEF TypeOK, loop, calls
<1>6. LoopInv'
  <2>1. answered = 0
    BY <1>1, <1>2 DEF LoopInv, TypeOK
  <2>2. QED BY <1>1, <2>1 DEF LoopInv, loop, calls
<1>7. GrantInv'
  BY <1>1, <1>3, <1>4 DEF GrantInv, calls
<1>8. StopInv'
  <2>1. halt # "before"
    BY <1>1, <1>2 DEF StopInv
  <2>2. QED BY <1>1, <2>1 DEF StopInv, StopHolds, loop, calls
<1>9. \A k \in 1..Len(ran) : ran[k] \in Serial => i \in Serial /\ ran[k] < i
  <2> SUFFICES ASSUME NEW k \in 1..Len(ran), ran[k] \in Serial
               PROVE  i \in Serial /\ ran[k] < i
    OBVIOUS
  <2>1. Reads \subseteq output /\ \A j \in Serial : j < ran[k] => j \in output
    BY DEF OrderInv
  <2>2. i \in Serial
    BY <1>1, <2>1 DEF Serial
  <2>3. ran[k] \in output /\ ran[k] \in Int
    BY DEF GrantInv, Granted, Indices
  <2>4. ~(i < ran[k]) /\ i # ran[k]
    BY <1>1, <2>1, <2>2, <2>3
  <2>5. QED BY <1>2, <2>2, <2>3, <2>4
<1>10. i \in Serial => Reads \subseteq output /\ \A j \in Serial : j < i => j \in output
  BY DEF Ready, Serial
<1>11. ASSUME NEW k \in 1..Len(ran'), ran'[k] \in Serial
       PROVE  Reads \subseteq output' /\ \A j \in Serial : j < ran'[k] => j \in output'
  BY <1>1, <1>3, <1>4, <1>10, <1>11 DEF OrderInv
<1>12. ASSUME NEW k \in 1..Len(ran'), NEW l \in 1..Len(ran'), k < l, ran'[k] \in Serial
       PROVE  ran'[l] \in Serial /\ ran'[k] < ran'[l]
  BY <1>3, <1>4, <1>9, <1>12 DEF OrderInv, ExecutionOrder
<1>13. ASSUME NEW k \in 1..Len(ran'), Capturing, batch[ran'[k]].tool \in Mutation
       PROVE  ran'[k] \in snapped
  <2>1. \A j \in Indices : entry[j] = "run" /\ batch[j].tool \in Mutation => j \in snapped
    BY <1>1, <1>13 DEF GrantInv, LoopInv, Indices
  <2>2. ran'[k] \in Granted
    BY <1>1, <1>3, <1>4 DEF GrantInv
  <2>3. QED BY <1>13, <2>1, <2>2 DEF Granted
<1>14. OrderInv'
  BY <1>1, <1>11, <1>12, <1>13 DEF OrderInv, ExecutionOrder, calls
<1>15. QED BY <1>5, <1>6, <1>7, <1>8, <1>14

\* Phase 3: answering keeps the invariant; a stop of a hook is remembered.
LEMMA AnswerStep == IInv /\ Answer /\ Flags' => IInv'
<1> SUFFICES ASSUME IInv, Answer, Flags' PROVE IInv'
  OBVIOUS
<1> USE DEF IInv
<1>1. PICK plan, post : AnswerCall(plan, post)
  BY DEF Answer
<1>2. /\ phase = "run" /\ phase' = "run" /\ output = Indices /\ output' = output
      /\ UNCHANGED <<calls, loop, ran>> /\ answered' = answered + 1 /\ answered < Len(batch)
      /\ stopAfter' = (stopAfter \/ plan.stop \/ post.stop)
      /\ halt' = IF halt = "no" /\ (plan.stop \/ post.stop) THEN "after" ELSE halt
  BY <1>1 DEF Answer, AnswerCall
<1>3. Indices' = Indices /\ Granted' = Granted /\ Reads' = Reads /\ Serial' = Serial
  BY <1>2 DEF Indices, Granted, Reads, Serial, calls
<1>4. TypeOK'
  BY <1>2, <1>3 DEF TypeOK, calls, loop
<1>5. LoopInv'
  BY <1>2, <1>3 DEF LoopInv, calls, loop
<1>6. GrantInv'
  BY <1>2, <1>3 DEF GrantInv, calls
<1>7. StopInv'
  <2>1. halt' # "no" => stopAfter'
    BY <1>2 DEF StopInv
  <2>2. halt' = "before" => halt = "before"
    BY <1>2
  <2>3. result' = "none" /\ ran' = ran /\ entry' = entry
    BY <1>2 DEF LoopInv, calls, loop
  <2>4. QED BY <1>2, <1>3, <2>1, <2>2, <2>3 DEF StopInv, StopHolds
<1>8. OrderInv'
  BY <1>2, <1>3 DEF OrderInv, ExecutionOrder, calls
<1>9. QED BY <1>4, <1>5, <1>6, <1>7, <1>8

\* Ctrl-C, at any time, and a step that changes nothing keep the invariant.
LEMMA CancelStep ==
  ASSUME IInv, Flags', UNCHANGED <<phase, calls, stopAfter, output, answered, step, natural,
                                   result, ran, halt>>
  PROVE  IInv'
<1> USE DEF IInv, calls
<1>1. Indices' = Indices /\ Granted' = Granted /\ Reads' = Reads /\ Serial' = Serial
  BY DEF Indices, Granted, Reads, Serial
<1>2. TypeOK' /\ LoopInv'
  BY <1>1 DEF TypeOK, LoopInv
<1>3. GrantInv' /\ StopInv'
  BY <1>1 DEF GrantInv, StopInv, StopHolds
<1>4. OrderInv'
  BY <1>1 DEF OrderInv, ExecutionOrder
<1>5. QED BY <1>2, <1>3, <1>4

\* Every step of run_agent keeps the invariant.
LEMMA NextIInv == IInv /\ [Next]_vars => IInv'
<1> SUFFICES ASSUME IInv, [Next]_vars PROVE IInv'
  OBVIOUS
<1>1. Flags'
  BY NextFlags DEF IInv, TypeOK
<1>2. CASE UNCHANGED vars \/ Cancel
  BY <1>1, <1>2, CancelStep DEF vars, loop, Cancel
<1>3. CASE DirectAnswer \/ Start \/ BeginStep \/ RequestFails
  <2>1. phase \in {"start", "model", "stream"} /\ output = Indices /\ answered = Len(batch)
        /\ halt = "no" /\ step \in Nat /\ MaxSteps \in Nat /\ step <= MaxSteps
        /\ ~natural /\ result = "none"
    BY <1>3, ParametersAssumption
       DEF DirectAnswer, Start, BeginStep, RequestFails, IInv, LoopInv, StopInv, StopHolds, TypeOK
  <2>2. QED
    BY <1>1, <1>3, <2>1, PhaseStep DEF DirectAnswer, Start, BeginStep, RequestFails, loop
<1>4. CASE ModelAnswers
  <2>1. NewBatch(<< >>) /\ << >> \in Seq(Call) /\ Len(<< >>) = 0 /\ 0 <= MaxCalls
    BY <1>4, ParametersAssumption DEF ModelAnswers
  <2>2. QED BY <1>1, <1>4, <2>1, NewBatchStep DEF ModelAnswers
<1>5. ASSUME NEW n \in 1..MaxCalls, NEW b \in [1..n -> Call], ModelCalls(b) PROVE IInv'
  <2>1. b \in Seq(Call) /\ Len(b) = n /\ Len(b) <= MaxCalls
    BY <1>5, ParametersAssumption
  <2>2. QED BY <1>1, <1>5, <2>1, NewBatchStep DEF ModelCalls, loop
<1>6. CASE Resolve
  BY <1>1, <1>6, ResolveStep
<1>7. CASE FinishResolve
  BY <1>1, <1>7, FinishResolveStep
<1>8. CASE Answer
  BY <1>1, <1>8, AnswerStep
<1>9. ASSUME NEW i \in Indices, RunCall(i) PROVE IInv'
  BY <1>1, <1>9, RunCallStep
<1>10. CASE EndStep
  <2>1. phase = "run" /\ output = Indices /\ answered = Len(batch) /\ result = "none"
        /\ step \in 0..MaxSteps /\ (halt # "no" => stopAfter) /\ ~natural
    BY <1>10 DEF EndStep, IInv, LoopInv, StopInv, TypeOK
  <2>2. \/ phase' = "ended" /\ natural'
        \/ ~stopAfter /\ phase' \in {"model", "compact"} /\ natural' = natural
    BY <1>10 DEF EndStep
  <2>3. UNCHANGED <<calls, output, answered, ran, step, result, halt>>
    BY <1>10 DEF EndStep
  <2>4. QED BY <1>1, <2>1, <2>2, <2>3, PhaseStep
<1>11. ASSUME NEW pre, NEW given, Compact(pre, given)
       PROVE  IInv'
  <2>1. phase = "compact" /\ output = Indices /\ answered = Len(batch) /\ result = "none"
        /\ step \in 0..MaxSteps /\ halt = "no"
    BY <1>11 DEF Compact, IInv, LoopInv, StopInv, StopHolds, TypeOK
  <2>2. \/ phase' = "ended" /\ natural' /\ halt' = "after"
        \/ phase' = "model" /\ ~natural' /\ halt' = halt
    BY <1>11 DEF Compact
  <2>3. UNCHANGED <<calls, output, answered, ran, step, result>>
    BY <1>11 DEF Compact
  <2>4. QED BY <1>1, <2>1, <2>2, <2>3, PhaseStep
<1>12. CASE Return
  <2>1. /\ output = Indices /\ answered = Len(batch) /\ step \in 0..MaxSteps
        /\ phase \in {"ended", "model"} /\ (phase = "ended" => natural)
        /\ (phase = "model" => halt = "no")
    BY <1>12 DEF Return, IInv, LoopInv, StopInv, StopHolds, TypeOK
  <2>2. UNCHANGED <<calls, output, answered, ran, step, halt>> /\ phase' = "returned"
    BY <1>12 DEF Return
  <2>3. result' \in {"ended", "cancelled", "limit"} /\ (halt # "no" => result' # "limit")
    BY <1>12, <2>1 DEF Return, Outcome
  <2>4. QED BY <1>1, <2>1, <2>2, <2>3, PhaseStep
<1>13. QED
  BY <1>2, <1>3, <1>4, <1>5, <1>6, <1>7, <1>8, <1>9, <1>10, <1>11, <1>12 DEF Next, Proceed

-----------------------------------------------------------------------------
(* The end of a turn. *)

\* A batch that is there was asked for in a step, and what is left of a stop is its note.
EndInv ==
    /\ phase = "start" => step = 0
    /\ phase = "stream" => step # 0
    /\ step = 0 => batch = << >>
    /\ phase = "model" /\ step # 0 => batch # << >>
    /\ phase \in {"resolve", "run", "compact"} => batch # << >>
    /\ phase = "resolve" /\ stopBatch => halt # "no"
    /\ phase = "run" /\ stopAfter => halt # "no"
    /\ phase = "ended" => batch = << >> \/ halt # "no"
    /\ LimitMeansCutOff

\* The hooks' outcomes are the steps' only part in it: a batch keeps its length, and a
\* stop of the batch is noted.
LEMMA ResolveNotesStop ==
  ASSUME IInv, Resolve
  PROVE  /\ phase = "resolve" /\ batch' # << >> /\ UNCHANGED <<phase, stopAfter, messages, loop>>
         /\ (stopBatch' => stopBatch \/ halt' # "no")
         /\ (halt' = halt \/ halt' = "before")
<1>1. TypeOK /\ Resolving
  BY DEF IInv, Resolve, SkipAfterStop, PreToolUseRefuses
<1>2. batch \in Seq(Call) /\ Len(batch) # 0 /\ phase = "resolve"
  BY <1>1 DEF TypeOK, Resolving
<1> DEFINE Held == batch' # << >> /\ UNCHANGED <<phase, stopAfter, messages, loop>>
           Noted == (stopBatch' => stopBatch \/ halt' # "no") /\ (halt' = halt \/ halt' = "before")
<1>3. ASSUME NEW how, NEW asks, NEW approved, Settle(how, asks, approved) PROVE Held
  BY <1>2, <1>3 DEF Settle
<1>4. ASSUME NEW stop, StopIf(stop) PROVE Noted
  BY <1>4 DEF StopIf
<1> HIDE DEF Held
<1>5. ASSUME SkipAfterStop PROVE Held /\ Noted
  BY <1>3, <1>5 DEF SkipAfterStop
<1>6. ASSUME NEW pre, PreToolUseRefuses(pre) PROVE Held /\ Noted
  BY <1>3, <1>4, <1>6 DEF PreToolUseRefuses
<1>7. ASSUME NEW pre, NEW asks, UnknownTool(pre, asks) PROVE Held /\ Noted
  BY <1>3, <1>7 DEF UnknownTool
<1>8. ASSUME NEW pre, NEW asks, NEW permission, NEW yes, Deny(pre, asks, permission, yes)
      PROVE  Held /\ Noted
  BY <1>3, <1>4, <1>8 DEF Deny
<1>9. ASSUME NEW pre, NEW asks, NEW permission, NEW yes, NEW start,
             SubagentRefused(pre, asks, permission, yes, start)
      PROVE  Held /\ Noted
  BY <1>3, <1>4, <1>9 DEF SubagentRefused
<1>10. ASSUME NEW pre, NEW asks, NEW permission, NEW yes, NEW start,
              Grant(pre, asks, permission, yes, start)
       PROVE  Held /\ Noted
  BY <1>3, <1>10 DEF Grant
<1>11. Held /\ Noted
  BY <1>5, <1>6, <1>7, <1>8, <1>9, <1>10 DEF Resolve
<1> QED
  BY <1>2, <1>11 DEF Held

\* A turn's end says what it was, step by step.
LEMMA NextEndInv == IInv /\ EndInv /\ [Next]_vars => EndInv'
<1> SUFFICES ASSUME IInv, EndInv, [Next]_vars PROVE EndInv'
  OBVIOUS
<1> USE DEF EndInv, LimitMeansCutOff, loop, calls
<1>1. step \in Nat /\ MaxSteps \in Nat /\ step <= MaxSteps
  BY ParametersAssumption DEF IInv, TypeOK
<1>2. phase \notin {"returned", "failed"} => result = "none"
  BY DEF IInv, LoopInv
<1>3. CASE UNCHANGED vars
  BY <1>3 DEF vars
<1>4. CASE DirectAnswer \/ Start \/ RequestFails \/ Cancel
  BY <1>2, <1>4 DEF DirectAnswer, Start, RequestFails, Cancel
<1>5. CASE BeginStep
  BY <1>1, <1>2, <1>5 DEF BeginStep
<1>6. CASE ModelAnswers
  BY <1>2, <1>6 DEF ModelAnswers, NewBatch
<1>7. ASSUME NEW n \in 1..MaxCalls, NEW b \in [1..n -> Call], ModelCalls(b) PROVE EndInv'
  <2>1. b # << >>
    BY ParametersAssumption
  <2>2. step # 0
    BY <1>7 DEF ModelCalls
  <2> QED
    BY <1>2, <1>7, <2>1, <2>2 DEF ModelCalls, NewBatch
<1>8. CASE Resolve
  BY <1>2, <1>8, ResolveNotesStop
<1>9. CASE FinishResolve
  BY <1>2, <1>9 DEF FinishResolve
<1>10. CASE Answer
  <2>1. PICK plan, post : AnswerCall(plan, post)
    BY <1>10 DEF Answer
  <2>2. /\ stopAfter' <=> (stopAfter \/ plan.stop \/ post.stop)
        /\ halt' = IF halt = "no" /\ (plan.stop \/ post.stop) THEN "after" ELSE halt
    BY <2>1 DEF AnswerCall
  <2>3. phase = "run" /\ UNCHANGED <<phase, calls, loop>>
    BY <1>10, <2>1 DEF Answer, AnswerCall
  <2>4. stopAfter' => halt' # "no"
    BY <2>2, <2>3
  <2> QED
    BY <1>2, <2>3, <2>4
<1>11. ASSUME NEW i, RunCall(i) PROVE EndInv'
  BY <1>2, <1>11 DEF RunCall
<1>12. CASE EndStep
  BY <1>2, <1>12 DEF EndStep
<1>13. ASSUME NEW pre, NEW given, Compact(pre, given) PROVE EndInv'
  <2>1. /\ phase = "compact" /\ (phase' = "model" \/ (phase' = "ended" /\ halt' # "no"))
        /\ UNCHANGED <<calls, stopAfter, step, result>>
    BY <1>13 DEF Compact
  <2> QED
    BY <1>2, <2>1
<1>14. CASE Return
  <2>1. /\ phase = "ended" \/ (phase = "model" /\ (cancelled \/ step = MaxSteps))
        /\ phase' = "returned" /\ result' = Outcome(~natural)
        /\ UNCHANGED <<batch, halt, step, cancelled, stopBatch, stopAfter>>
    BY <1>14 DEF Return
  <2>2. (phase = "ended" => natural) /\ (phase = "model" => ~natural /\ halt = "no")
    BY DEF IInv, LoopInv, StopInv, StopHolds
  <2>3. CASE phase = "ended"
    BY <2>1, <2>2, <2>3 DEF Outcome
  <2>4. CASE phase = "model"
    BY <1>1, <2>1, <2>2, <2>4 DEF Outcome
  <2> QED
    BY <2>1, <2>3, <2>4
<1> QED
  BY <1>3, <1>4, <1>5, <1>6, <1>7, <1>8, <1>9, <1>10, <1>11, <1>12, <1>13, <1>14 DEF Next, Proceed

-----------------------------------------------------------------------------

\* Every variable of the loop keeps its type.
THEOREM TypeCorrect == Spec => []TypeOK
<1>1. IInv => TypeOK
  BY DEF IInv
<1>2. QED BY <1>1, InitIInv, NextIInv, PTL DEF Spec

\* No call runs without the approval its arguments need, for any hooks, any
\* rewriting of the arguments and any number of calls.
THEOREM ConsentGiven == Spec => []RanWithConsent
<1>1. IInv => RanWithConsent
  <2> SUFFICES ASSUME IInv, NEW k \in 1..Len(ran), batch[ran[k]].asks PROVE consent[ran[k]]
    BY DEF RanWithConsent
  <2>1. phase # "resolve"
    BY DEF IInv, LoopInv
  <2>2. ran[k] \in 1..Len(entry) /\ entry[ran[k]] = "run"
    BY <2>1 DEF IInv, LoopInv, GrantInv, Granted, Indices
  <2>3. QED BY <2>2 DEF IInv, GrantInv
<1>2. QED BY <1>1, InitIInv, NextIInv, PTL DEF Spec

\* A stop that is taken note of keeps the batch from running and ends the turn.
THEOREM StopsHold == Spec => []StopHolds
<1>1. IInv => StopHolds
  BY DEF IInv, StopInv
<1>2. QED BY <1>1, InitIInv, NextIInv, PTL DEF Spec

\* Reads run first, the rest in call order, mutations behind their snapshots.
THEOREM RunsInOrder == Spec => []ExecutionOrder
<1>1. IInv => ExecutionOrder
  BY DEF IInv, OrderInv
<1>2. QED BY <1>1, InitIInv, NextIInv, PTL DEF Spec

\* hit_step_limit is true of the turns that were cut off, and of no other.
THEOREM LimitIsCutOff == Spec => []LimitMeansCutOff
<1>1. Init => IInv /\ EndInv
  BY InitIInv DEF Init, EndInv, LimitMeansCutOff
<1>2. IInv /\ EndInv /\ [Next]_vars => IInv' /\ EndInv'
  BY NextIInv, NextEndInv
<1>3. EndInv => LimitMeansCutOff
  BY DEF EndInv
<1>4. QED BY <1>1, <1>2, <1>3, PTL DEF Spec

\* Consent, stops and order, of every batch of every turn, and an end that says what it was.
THEOREM LoopAlwaysSound == Spec => []LoopSound
<1>1. TypeOK /\ RanWithConsent /\ StopHolds /\ ExecutionOrder /\ LimitMeansCutOff => LoopSound
  BY DEF LoopSound
<1>2. QED BY <1>1, TypeCorrect, ConsentGiven, StopsHold, RunsInOrder, LimitIsCutOff, PTL

-----------------------------------------------------------------------------
(* What is sent to the provider. *)

\* Every message is one the turn started with or one of the loop's own.
Sendable == {Earlier[i] : i \in DOMAIN Earlier}
            \cup [role : {"user", "assistant", "tool"}, id : Nat \X Nat, calls : SUBSET (Nat \X Nat)]

\* Outside of phase 3 the transcript is valid; in it, the calls that wait for a
\* result are those that are not answered yet.
SentInv ==
    /\ messages \in Seq(Sendable)
    /\ phase # "run" => Valid(messages)
    /\ phase = "run" => Scan(messages) = [ok |-> TRUE, pending |-> {Id(i) : i \in (answered + 1)..Len(batch)}]

LEMMA OwnMessages ==
  ASSUME IInv
  PROVE  /\ \A i \in Nat : /\ Id(i) \in Nat \X Nat /\ User(Id(i)) \in Sendable
                           /\ ToolResult(Id(i)) \in Sendable
         /\ Assistant(Id(0), {}) \in Sendable
         /\ Assistant(Id(0), Ids(Len(batch))) \in Sendable
<1>1. step \in Nat /\ Len(batch) \in Nat
  BY ParametersAssumption DEF IInv, TypeOK
<1>2. \A i \in Nat : Id(i) \in Nat \X Nat
  BY <1>1 DEF Id
<1>3. Ids(Len(batch)) \in SUBSET (Nat \X Nat)
  BY <1>1, <1>2 DEF Ids
<1> QED
  BY <1>2, <1>3 DEF User, ToolResult, Assistant, Sendable

\* A message of the user, or an answer, behind a valid transcript.
LEMMA MessageJoins ==
  ASSUME NEW ms \in Seq(Sendable), Valid(ms), NEW m \in Sendable,
         \/ m.role = "user"
         \/ m.role = "assistant" /\ m.calls = {}
  PROVE  Append(ms, m) \in Seq(Sendable) /\ Valid(Append(ms, m))
<1>1. Scan(Append(ms, m)) = Read(Unread, m)
  BY ScanOfMore DEF Valid
<1>2. Read(Unread, m) = Unread
  BY DEF Read, Unread
<1> QED
  BY <1>1, <1>2 DEF Valid

LEMMA ContextJoins ==
  ASSUME IInv, NEW ms \in Seq(Sendable), Valid(ms), NEW given, NEW k \in {1, 2, 3}
  PROVE  WithContext(ms, given, k) \in Seq(Sendable) /\ Valid(WithContext(ms, given, k))
<1> DEFINE m == User(Id(MaxCalls + k))
<1>1. m \in Sendable /\ m.role = "user"
  <2>1. MaxCalls + k \in Nat
    BY ParametersAssumption
  <2>2. m \in Sendable
    BY <2>1, OwnMessages
  <2> QED
    BY <2>2 DEF User
<1> HIDE DEF m
<1>2. Append(ms, m) \in Seq(Sendable) /\ Valid(Append(ms, m))
  BY <1>1, MessageJoins
<1> QED
  BY <1>2 DEF WithContext, m

LEMMA AnswerKeepsPairs ==
  ASSUME IInv, SentInv, Answer
  PROVE  SentInv'
<1>1. /\ phase = "run" /\ phase' = "run" /\ answered < Len(batch) /\ answered' = answered + 1
      /\ batch' = batch /\ step' = step /\ messages' = Append(messages, ToolResult(Id(answered + 1)))
  BY DEF Answer, AnswerCall, calls, loop
<1> DEFINE n == Len(batch)
           a == answered
           waiting == {Id(i) : i \in (a + 1)..n}
           left == {Id(i) : i \in (a + 2)..n}
           m == ToolResult(Id(a + 1))
<1>2. a \in Nat /\ n \in Nat /\ a < n
  BY <1>1 DEF IInv, TypeOK
<1>3. messages \in Seq(Sendable) /\ Scan(messages) = [ok |-> TRUE, pending |-> waiting]
  BY <1>1 DEF SentInv
<1>4. m \in Sendable
  BY <1>2, OwnMessages
<1>5. m.role = "tool" /\ m.id = Id(a + 1)
  BY DEF ToolResult
<1>6. Id(a + 1) \in waiting /\ waiting \ {Id(a + 1)} = left
  <2>1. \A i, j \in Nat : Id(i) = Id(j) => i = j
    BY DEF Id
  <2>2. a + 1 \in (a + 1)..n
    BY <1>2
  <2>3. ASSUME NEW i \in (a + 1)..n, Id(i) # Id(a + 1) PROVE i \in (a + 2)..n
    <3>1. i # a + 1 /\ i \in Nat
      BY <1>2, <2>3
    <3> QED
      BY <1>2, <3>1
  <2>4. ASSUME NEW i \in (a + 2)..n PROVE i \in (a + 1)..n /\ Id(i) # Id(a + 1)
    <3>1. i # a + 1 /\ i \in Nat /\ a + 1 \in Nat /\ i \in (a + 1)..n
      BY <1>2
    <3> QED
      BY <2>1, <3>1
  <2> QED
    BY <2>2, <2>3, <2>4
<1> HIDE DEF m, waiting, left
<1>7. Scan(Append(messages, m)) = Read([ok |-> TRUE, pending |-> waiting], m)
  BY <1>3, <1>4, ScanOfMore
<1>8. Read([ok |-> TRUE, pending |-> waiting], m) = [ok |-> TRUE, pending |-> left]
  BY <1>5, <1>6 DEF Read
<1>9. messages' = Append(messages, m) /\ messages' \in Seq(Sendable)
  BY <1>1, <1>3, <1>4 DEF m
<1>10. left = {Id(i) : i \in (answered + 1)..Len(batch)}'
  <2>1. answered' + 1 = a + 2
    BY <1>1, <1>2
  <2> QED
    BY <1>1, <2>1 DEF left, Id
<1> QED
  BY <1>1, <1>7, <1>8, <1>9, <1>10 DEF SentInv

LEMMA NextSentInv ==
  ASSUME IInv, SentInv, [Next]_vars
  PROVE  SentInv'
<1>1. messages \in Seq(Sendable) /\ (phase # "run" => Valid(messages))
  BY DEF SentInv
<1>2. ASSUME phase # "run", phase' # "run", messages' = messages PROVE SentInv'
  BY <1>1, <1>2 DEF SentInv
<1>3. ASSUME UNCHANGED <<phase, batch, answered, step, messages>> PROVE SentInv'
  BY <1>1, <1>3 DEF SentInv, Id
<1>4. CASE DirectAnswer \/ ModelAnswers
  <2>1. phase # "run" /\ phase' # "run" /\ messages' = Append(messages, Assistant(Id(0), {}))
    BY <1>4 DEF DirectAnswer, ModelAnswers
  <2> DEFINE m == Assistant(Id(0), {})
  <2>2. m \in Sendable /\ m.role = "assistant" /\ m.calls = {}
    <3>1. m \in Sendable
      BY OwnMessages
    <3> QED
      BY <3>1 DEF Assistant
  <2> HIDE DEF m
  <2>3. Append(messages, m) \in Seq(Sendable) /\ Valid(Append(messages, m))
    BY <1>1, <2>1, <2>2, MessageJoins
  <2> QED
    BY <2>1, <2>3 DEF SentInv, m
<1>5. CASE Start \/ BeginStep \/ RequestFails \/ Return
  <2>1. phase # "run" /\ phase' # "run" /\ messages' = messages
    BY <1>5 DEF Start, BeginStep, RequestFails, Return
  <2> QED
    BY <1>2, <2>1
<1>6. ASSUME NEW n \in 1..MaxCalls, NEW b \in [1..n -> Call], ModelCalls(b) PROVE SentInv'
  BY <1>2, <1>6 DEF ModelCalls
<1>7. CASE Resolve
  BY <1>2, <1>7, ResolveNotesStop
<1>8. CASE FinishResolve
  <2> DEFINE m == Assistant(Id(0), Ids(Len(batch)))
  <2>1. /\ phase = "resolve" /\ phase' = "run" /\ messages' = Append(messages, m)
        /\ batch' = batch /\ answered' = answered /\ step' = step /\ answered = 0
    BY <1>8 DEF FinishResolve, loop, IInv, LoopInv
  <2>2. m \in Sendable /\ m.role = "assistant" /\ m.calls = Ids(Len(batch))
    <3>1. m \in Sendable
      BY OwnMessages
    <3> QED
      BY <3>1 DEF Assistant
  <2> HIDE DEF m
  <2>3. Scan(messages') = Read(Unread, m) /\ messages' \in Seq(Sendable)
    BY <1>1, <2>1, <2>2, ScanOfMore DEF Valid
  <2>4. Read(Unread, m) = [ok |-> TRUE, pending |-> Ids(Len(batch))]
    BY <2>2 DEF Read, Unread
  <2>5. Ids(Len(batch)) = {Id(i) : i \in (answered + 1)..Len(batch)}'
    BY <2>1 DEF Ids, Id
  <2> QED
    BY <2>1, <2>3, <2>4, <2>5 DEF SentInv
<1>9. CASE Answer
  BY <1>9, AnswerKeepsPairs
<1>10. ASSUME NEW i \in Indices, RunCall(i) PROVE SentInv'
  BY <1>3, <1>10 DEF RunCall, calls, loop
<1>11. CASE EndStep
  <2>1. /\ phase = "run" /\ phase' # "run" /\ answered = Len(batch) /\ Len(batch) \in Nat
        /\ messages' = WithContext(messages, contexts, 1)
    BY <1>11 DEF EndStep, IInv, TypeOK
  <2>2. Valid(messages)
    <3>1. {Id(i) : i \in (answered + 1)..Len(batch)} = {}
      BY <2>1
    <3> QED
      BY <2>1, <3>1 DEF SentInv, Valid, Unread
  <2> QED
    BY <1>1, <2>1, <2>2, ContextJoins DEF SentInv
<1>12. ASSUME NEW pre, NEW given, Compact(pre, given) PROVE SentInv'
  <2> DEFINE full == WithContext(messages, given, 2)
             cut  == IF pre.block THEN full ELSE Kept(full, KeepMessages)
  <2>1. /\ phase = "compact" /\ phase' # "run"
        /\ \E after : messages' = WithContext(cut, after, 3)
    BY <1>12 DEF Compact
  <2>2. full \in Seq(Sendable) /\ Valid(full)
    BY <1>1, <2>1, ContextJoins
  <2>3. cut \in Seq(Sendable) /\ Valid(cut)
    <3> HIDE DEF full
    <3>1. PICK c \in 0..Len(full) : /\ Kept(full, KeepMessages) = SubSeq(full, c + 1, Len(full))
                                    /\ Valid(full) => Valid(Kept(full, KeepMessages))
      BY <2>2, KeptIsEnd
    <3>2. SubSeq(full, c + 1, Len(full)) \in Seq(Sendable)
      BY <2>2
    <3> QED
      BY <2>2, <3>1, <3>2
  <2>4. PICK after : messages' = WithContext(cut, after, 3)
    BY <2>1
  <2> HIDE DEF cut
  <2>5. messages' \in Seq(Sendable) /\ Valid(messages')
    BY <2>3, <2>4, ContextJoins
  <2> QED
    BY <2>1, <2>5 DEF SentInv
<1>13. CASE Cancel \/ UNCHANGED vars
  BY <1>3, <1>13 DEF Cancel, vars, calls, loop
<1> QED
  BY <1>4, <1>5, <1>6, <1>7, <1>8, <1>9, <1>10, <1>11, <1>12, <1>13 DEF Next, Proceed

\* Every request, and the transcript a turn returns, pairs each call with one result: for any
\* calls, hooks, refusals, stops and compactions, and any transcript the turn began with.
THEOREM RequestsAlwaysValid == Spec => []RequestsValid
<1>1. Init => IInv /\ SentInv
  <2> SUFFICES ASSUME Init PROVE SentInv
    BY InitIInv
  <2>1. Earlier \in Seq(Sendable)
    <3>1. Earlier \in Seq({Earlier[i] : i \in DOMAIN Earlier})
      BY EarlierAssumption
    <3> QED
      BY <3>1, SeqMonotonic DEF Sendable
  <2> QED
    BY <2>1, EarlierAssumption DEF Init, SentInv
<1>2. IInv /\ SentInv /\ [Next]_vars => IInv' /\ SentInv'
  BY NextIInv, NextSentInv
<1>3. SentInv => RequestsValid
  BY DEF SentInv, RequestsValid
<1> QED
  BY <1>1, <1>2, <1>3, PTL DEF Spec

-----------------------------------------------------------------------------
(* The batches keep the promise of ToolGate. *)

Fates == [i \in Indices |-> FateOf(i)]

\* The abstract batch has the calls of the concrete one.
LEMMA FatesOfBatch ==
  ASSUME TypeOK
  PROVE  /\ Gate!Indices = Indices /\ Len(Fates) = Len(batch) /\ DOMAIN Fates = Indices
         /\ \A i \in Indices : Fates[i] = FateOf(i)
         /\ Len(batch) \in Nat /\ Len(entry) \in Nat /\ Indices = 1..Len(batch)
<1>1. Len(batch) \in Nat /\ Len(entry) \in Nat /\ Indices = 1..Len(batch)
  BY DEF TypeOK, Indices
<1>2. Fates \in Seq({FateOf(i) : i \in Indices}) /\ DOMAIN Fates = 1..Len(batch)
  BY <1>1 DEF Fates
<1>3. Len(Fates) = Len(batch)
  BY <1>1, <1>2
<1>4. Gate!Indices = 1..Len(Fates)
  BY DEF Gate!Indices, Fates
<1>5. QED BY <1>1, <1>2, <1>3, <1>4 DEF Fates

\* A step that keeps batch, entries and answers, and output but for calls that
\* stay as they are, is a stutter.
LEMMA SameFates ==
  ASSUME TypeOK, batch' = batch, \A i \in Indices : FateOf(i)' = FateOf(i)
  PROVE  Fates' = Fates
<1>1. Indices' = Indices
  BY DEF Indices
<1>2. QED BY <1>1 DEF Fates

\* A message of the model, with calls or without, proposes a batch.
LEMMA BatchIsProposed ==
  ASSUME IInv, IInv', phase = "stream", NEW b \in Seq(Call), Len(b) <= MaxCalls, NewBatch(b)
  PROVE  Gate!Propose
<1>1. Gate!Indices = Indices /\ \A i \in Indices : Fates[i] = FateOf(i)
  BY FatesOfBatch DEF IInv
<1>2. answered = Len(batch) /\ Len(batch) \in Nat
  BY DEF IInv, LoopInv, TypeOK
<1>3. \A i \in Indices : FateOf(i) = "answered"
  BY <1>2 DEF FateOf, Indices
<1>4. batch' = b /\ Indices' = 1..Len(b) /\ Len(b) \in 0..MaxCalls
  BY ParametersAssumption DEF NewBatch, Indices
<1>5. answered' = 0 /\ Len(entry') = 0
  BY DEF NewBatch
<1>6. \A i \in 1..Len(b) : FateOf(i)' = "proposed"
  BY <1>5 DEF FateOf
<1>7. Fates' = [i \in 1..Len(b) |-> "proposed"]
  BY <1>4, <1>6 DEF Fates
<1>8. QED BY <1>1, <1>3, <1>4, <1>7 DEF Gate!Propose, Fates

Settles ==
    \E how \in {"run", "done"}, asks \in BOOLEAN, approved \in BOOLEAN :
      Resolving /\ Settle(how, asks, approved)

\* Each way to resolve a call settles it.
LEMMA ResolveSettles ==
  ASSUME TypeOK, Resolve
  PROVE  Settles
<1>1. Resolving => batch[Newest].asks \in BOOLEAN
  <2>1. Resolving => batch[Newest] \in Call
    BY DEF TypeOK, Resolving, Newest
  <2>2. QED BY <2>1, Zenon DEF Call
<1>2. CASE SkipAfterStop
  BY <1>1, <1>2 DEF SkipAfterStop, Settles
<1>3. ASSUME NEW pre, PreToolUseRefuses(pre) PROVE Settles
  BY <1>1, <1>3 DEF PreToolUseRefuses, Settles
<1>4. ASSUME NEW pre, NEW asks \in BOOLEAN, UnknownTool(pre, asks) PROVE Settles
  BY <1>4 DEF UnknownTool, Passes, Settles
<1>5. ASSUME NEW pre, NEW asks \in BOOLEAN, NEW permission, NEW yes,
             Deny(pre, asks, permission, yes)
      PROVE  Settles
  BY <1>5 DEF Deny, Passes, Settles
<1>6. ASSUME NEW pre, NEW asks \in BOOLEAN, NEW permission, NEW yes, NEW start,
             SubagentRefused(pre, asks, permission, yes, start)
      PROVE  Settles
  BY <1>6 DEF SubagentRefused, Passes, Settles
<1>7. ASSUME NEW pre, NEW asks \in BOOLEAN, NEW permission, NEW yes, NEW start,
             Grant(pre, asks, permission, yes, start)
      PROVE  Settles
  <2>1. Resolving /\ Settle("run", asks, asks /\ Approved(permission, yes))
    BY <1>7 DEF Grant, Passes
  <2>2. PICK approved \in BOOLEAN : approved = (asks /\ Approved(permission, yes))
    OBVIOUS
  <2>3. QED BY <2>1, <2>2 DEF Settles
<1>8. ASSUME NEW pre, Resolving, NEW asks \in Rewrites(pre, batch[Newest].asks)
      PROVE  asks \in BOOLEAN
  BY <1>1, <1>8 DEF Rewrites
<1>9. QED BY <1>2, <1>3, <1>4, <1>5, <1>6, <1>7, <1>8 DEF Resolve

\* Resolving a call decides it.
LEMMA CallIsDecided ==
  ASSUME IInv, Resolving, NEW how \in {"run", "done"}, NEW asks \in BOOLEAN,
         NEW approved \in BOOLEAN, Settle(how, asks, approved)
  PROVE  \E i \in Gate!Indices : Gate!Decide(i)
<1>1. /\ Gate!Indices = Indices /\ DOMAIN Fates = Indices
      /\ \A i \in Indices : Fates[i] = FateOf(i)
  BY FatesOfBatch DEF IInv
<1>2. /\ Newest \in Indices /\ Indices' = Indices
      /\ Len(entry') = Newest /\ entry'[Newest] = how
      /\ \A j \in 1..Len(entry) : entry'[j] = entry[j]
  BY SettleProperties DEF IInv
<1>3. /\ answered = 0 /\ answered' = 0 /\ output = {} /\ output' = {}
      /\ Len(entry) \in Nat /\ Newest = Len(entry) + 1
      /\ \A j \in 1..Len(entry) : entry[j] \in {"run", "done"}
  BY DEF IInv, LoopInv, TypeOK, Resolving, Settle, Newest
<1> PICK n \in Indices : n = Newest
  BY <1>2
<1>4. FateOf(n) = "proposed" /\ \A j \in 1..(n - 1) : FateOf(j) # "proposed"
  BY <1>3 DEF FateOf
<1>5. FateOf(n)' = IF how = "run" THEN "granted" ELSE "refused"
  BY <1>2, <1>3 DEF FateOf
<1>6. \A j \in Indices : j # n => FateOf(j)' = FateOf(j)
  BY <1>2, <1>3 DEF FateOf, Indices
<1>7. Fates' = [j \in Indices |-> FateOf(j)']
  BY <1>2 DEF Fates
<1>8. Fates' = [Fates EXCEPT ![n] = IF how = "run" THEN "granted" ELSE "refused"]
  BY <1>1, <1>2, <1>5, <1>6, <1>7
<1>9. \A j \in 1..(n - 1) : Fates[j] # "proposed"
  BY <1>1, <1>2, <1>3, <1>4 DEF Indices
<1>10. Gate!Decide(n)
  BY <1>1, <1>2, <1>4, <1>8, <1>9 DEF Gate!Decide, Fates
<1>11. QED BY <1>1, <1>2, <1>10

\* The end of phase 1 takes every grant back, or changes nothing.
LEMMA GrantsAreWithdrawn ==
  ASSUME IInv, FinishResolve
  PROVE  Gate!Withdraw \/ Fates' = Fates
<1>1. /\ Gate!Indices = Indices /\ \A i \in Indices : Fates[i] = FateOf(i)
      /\ Indices' = Indices /\ Indices = 1..Len(batch) /\ Len(batch) \in Nat
  BY FatesOfBatch DEF IInv, FinishResolve, Indices
<1>2. /\ answered = 0 /\ answered' = 0 /\ output = {} /\ Len(entry) = Len(batch)
      /\ entry \in Seq({"run", "done"}) /\ DOMAIN entry = 1..Len(entry)
      /\ output' = {i \in Indices : entry'[i] = "done"}
  BY DEF IInv, LoopInv, TypeOK, FinishResolve
<1>3. CASE stopBatch
  <2>1. entry' = [i \in 1..Len(entry) |-> "done"] /\ Len(entry') = Len(entry)
    BY <1>2, <1>3 DEF FinishResolve, Withdrawn
  <2>2. \A i \in Indices : FateOf(i)' = "refused"
    BY <1>1, <1>2, <2>1 DEF FateOf
  <2>3. Fates' = [i \in Gate!Indices |-> "refused"]
    BY <1>1, <2>2 DEF Fates
  <2>4. \A i \in Indices : FateOf(i) \notin {"proposed", "executed", "answered"}
    BY <1>1, <1>2 DEF FateOf
  <2>5. Gate!None({"proposed", "executed", "answered"})
    BY <1>1, <2>4 DEF Gate!None, Fates
  <2>6. QED BY <2>3, <2>5 DEF Gate!Withdraw, Fates
<1>4. CASE ~stopBatch
  <2>1. entry' = entry
    BY <1>4 DEF FinishResolve, Withdrawn
  <2>2. \A i \in Indices : FateOf(i)' = FateOf(i)
    BY <1>1, <1>2, <2>1 DEF FateOf
  <2>3. QED BY <2>2, SameFates DEF IInv, FinishResolve
<1>5. QED BY <1>3, <1>4

\* Only a granted call runs, when all are decided and none is answered.
LEMMA CallIsExecuted ==
  ASSUME IInv, NEW i \in Indices, RunCall(i)
  PROVE  \E j \in Gate!Indices : Gate!Execute(j)
<1>1. /\ Gate!Indices = Indices /\ \A j \in Indices : Fates[j] = FateOf(j)
      /\ DOMAIN Fates = Indices /\ Indices = 1..Len(batch) /\ Len(batch) \in Nat
  BY FatesOfBatch DEF IInv
<1>2. /\ batch' = batch /\ entry' = entry /\ answered' = answered /\ Indices' = Indices
      /\ output' = output \cup {i} /\ i \in Granted /\ i \notin output
      /\ phase = "run" /\ entry[i] = "run"
  BY DEF RunCall, calls, Indices, Granted
<1>3. answered = 0 /\ Len(entry) = Len(batch)
  BY <1>2 DEF IInv, LoopInv, TypeOK
<1>4. FateOf(i) = "granted" /\ FateOf(i)' = "executed"
  BY <1>1, <1>2, <1>3 DEF FateOf
<1>5. \A j \in Indices : /\ FateOf(j) \notin {"proposed", "answered"}
                         /\ j # i => FateOf(j)' = FateOf(j)
  BY <1>1, <1>2, <1>3 DEF FateOf
<1>6. Fates' = [j \in Indices |-> FateOf(j)']
  BY <1>2 DEF Fates
<1>7. Fates' = [Fates EXCEPT ![i] = "executed"]
  BY <1>1, <1>4, <1>5, <1>6
<1>8. Gate!None({"proposed", "answered"})
  BY <1>1, <1>5 DEF Gate!None, Fates
<1>9. QED BY <1>1, <1>4, <1>7, <1>8 DEF Gate!Execute, Fates

\* Answers come in call order, when everything granted has run.
LEMMA CallIsAnswered ==
  ASSUME IInv, Answer
  PROVE  \E j \in Gate!Indices : Gate!Answer(j)
<1>1. /\ Gate!Indices = Indices /\ \A j \in Indices : Fates[j] = FateOf(j)
      /\ DOMAIN Fates = Indices /\ Indices = 1..Len(batch) /\ Len(batch) \in Nat
  BY FatesOfBatch DEF IInv
<1>2. /\ batch' = batch /\ entry' = entry /\ output' = output /\ Indices' = Indices
      /\ output = Indices /\ phase = "run"
      /\ answered' = answered + 1 /\ answered < Len(batch)
  BY DEF Answer, AnswerCall, calls, Indices
<1>3. answered \in Nat /\ Len(entry) = Len(batch) /\ entry \in Seq({"run", "done"})
  BY <1>2 DEF IInv, LoopInv, TypeOK
<1>4. PICK i \in Indices : i = answered + 1
  BY <1>1, <1>2, <1>3
<1>5. /\ FateOf(i) \in {"refused", "executed"} /\ FateOf(i)' = "answered"
      /\ \A j \in 1..(i - 1) : FateOf(j) = "answered"
  BY <1>1, <1>2, <1>3, <1>4 DEF FateOf
<1>6. \A j \in Indices : /\ FateOf(j) \notin {"proposed", "granted"}
                         /\ j # i => FateOf(j)' = FateOf(j)
  BY <1>1, <1>2, <1>3, <1>4 DEF FateOf
<1>7. Fates' = [j \in Indices |-> FateOf(j)']
  BY <1>2 DEF Fates
<1>8. Fates' = [Fates EXCEPT ![i] = "answered"]
  BY <1>1, <1>4, <1>5, <1>6, <1>7
<1>9. Gate!None({"proposed", "granted"})
  BY <1>1, <1>6 DEF Gate!None, Fates
<1>10. \A j \in 1..(i - 1) : Fates[j] = "answered"
  BY <1>1, <1>3, <1>4, <1>5
<1>11. Gate!Answer(i)
  BY <1>1, <1>4, <1>5, <1>8, <1>9, <1>10 DEF Gate!Answer, Fates
<1>12. QED BY <1>1, <1>4, <1>11

\* Every step of the loop is a step of ToolGate or leaves the batch alone.
LEMMA StepKeepsGate ==
  ASSUME IInv, IInv', [Next]_vars
  PROVE  Gate!Next \/ Fates' = Fates
<1> USE DEF Gate!Next
<1>1. ASSUME UNCHANGED <<batch, entry, output, answered>> PROVE Fates' = Fates
  BY <1>1, SameFates DEF IInv, FateOf
<1>2. CASE UNCHANGED vars \/ DirectAnswer \/ Start \/ BeginStep \/ RequestFails \/ Cancel
           \/ EndStep \/ Return
  BY <1>1, <1>2 DEF vars, calls, DirectAnswer, Start, BeginStep, RequestFails, Cancel,
                    EndStep, Return
<1>3. ASSUME NEW pre, NEW given, Compact(pre, given)
      PROVE  Fates' = Fates
  BY <1>1, <1>3 DEF Compact, calls
<1>4. CASE ModelAnswers
  <2>1. NewBatch(<< >>) /\ << >> \in Seq(Call) /\ Len(<< >>) = 0 /\ 0 <= MaxCalls
        /\ phase = "stream"
    BY <1>4, ParametersAssumption DEF ModelAnswers
  <2>2. QED BY <2>1, BatchIsProposed
<1>5. ASSUME NEW n \in 1..MaxCalls, NEW b \in [1..n -> Call], ModelCalls(b)
      PROVE  Gate!Next
  <2>1. b \in Seq(Call) /\ Len(b) = n /\ Len(b) <= MaxCalls
    BY <1>5, ParametersAssumption
  <2>2. QED BY <1>5, <2>1, BatchIsProposed DEF ModelCalls
<1>6. CASE Resolve
  <2>1. PICK how \in {"run", "done"}, asks \in BOOLEAN, approved \in BOOLEAN :
          Resolving /\ Settle(how, asks, approved)
    BY <1>6, ResolveSettles DEF IInv, Settles
  <2>2. QED BY <2>1, CallIsDecided
<1>7. CASE FinishResolve
  BY <1>7, GrantsAreWithdrawn
<1>8. CASE Answer
  BY <1>8, CallIsAnswered
<1>9. ASSUME NEW i \in Indices, RunCall(i) PROVE Gate!Next
  BY <1>9, CallIsExecuted
<1>10. QED
  BY <1>2, <1>3, <1>4, <1>5, <1>6, <1>7, <1>8, <1>9 DEF Next, Proceed

\* run_agent implements ToolGate: a call is decided before any call runs, a
\* refused one never runs, and the answers come in order behind all of them.
THEOREM ImplementsGate == Spec => KeepsGate
<1>1. Init => Gate!Init
  BY DEF Init, Gate!Init, Indices
<1>2. IInv /\ IInv' /\ [Next]_vars => [Gate!Next]_Fates
  BY StepKeepsGate
<1>3. QED
  BY <1>1, <1>2, InitIInv, NextIInv, PTL DEF Spec, KeepsGate, Gate!Spec, Fates

-----------------------------------------------------------------------------
(* Playground: the user's settings and project behind a play session, and  *)
(* what a file of results stands for.                                      *)

\* The settings of a play session are set aside, and its workspace is a sandbox.
SetAside ==
    /\ pgOwn = [config |-> pgOwn.config, checkpoints |-> pgOwn.checkpoints]
    /\ pgOwn.config.root = Own
    /\ pgPlay = NoPlay => pgConfig = pgOwn.config /\ pgCheckpoints = pgOwn.checkpoints
    /\ pgPlay # NoPlay => pgPlay = pgOwn /\ pgConfig.root # Own

\* The types the argument needs: a configuration has a workspace, and every
\* workspace a file.
PlayTypes ==
    /\ "root" \in DOMAIN pgConfig /\ "root" \in DOMAIN pgOwn.config
    /\ pgTree = [w \in 0..MaxSandboxes |-> pgTree[w]]
    /\ pgMade \in 0..MaxSandboxes /\ pgEdits \in Nat

PlayInv == SetAside /\ PlayTypes

\* A play session is told from none.
LEMMA PlayIsSome ==
  ASSUME NEW c, NEW d
  PROVE  [config |-> c, checkpoints |-> d] # NoPlay
<1>1. "config" \in DOMAIN [config |-> c, checkpoints |-> d]
  OBVIOUS
<1>2. "config" \notin DOMAIN << >>
  OBVIOUS
<1>3. QED BY <1>1, <1>2 DEF NoPlay

LEMMA InitPlay == PgInit => PlayInv
<1> SUFFICES ASSUME PgInit PROVE PlayInv
  OBVIOUS
<1>1. "root" \in DOMAIN pgConfig /\ pgConfig.root = Own
  BY DEF PgInit
<1>2. pgOwn.config = pgConfig /\ pgOwn.checkpoints = FALSE
      /\ pgOwn = [config |-> pgOwn.config, checkpoints |-> pgOwn.checkpoints]
  BY DEF PgInit
<1>3. pgPlay = NoPlay /\ pgCheckpoints = FALSE
      /\ pgTree = [w \in 0..MaxSandboxes |-> "first"] /\ pgMade = 0 /\ pgEdits = 0
  BY DEF PgInit
<1>4. pgTree = [w \in 0..MaxSandboxes |-> pgTree[w]] /\ 0 \in 0..MaxSandboxes
  BY <1>3, PlaygroundAssumption
<1>5. QED BY <1>1, <1>2, <1>3, <1>4 DEF PlayInv, SetAside, PlayTypes

LEMMA NextPlay == PlayInv /\ [PgNext]_pgVars => PlayInv'
<1> SUFFICES ASSUME PlayInv, [PgNext]_pgVars PROVE PlayInv'
  OBVIOUS
<1> USE DEF PlayInv, SetAside, PlayTypes
<1>0. ASSUME NEW mode
      PROVE  WithMode(pgConfig, mode).root = pgConfig.root
             /\ DOMAIN WithMode(pgConfig, mode) = DOMAIN pgConfig
  <2>1. DEFINE first == [pgConfig EXCEPT !.mode = mode]
  <2>2. first.root = pgConfig.root /\ DOMAIN first = DOMAIN pgConfig
    OBVIOUS
  <2>3. WithMode(pgConfig, mode) = [first EXCEPT !.checkpoints = mode = "ship"]
    BY DEF WithMode
  <2>4. QED BY <2>2, <2>3
<1>1. CASE UNCHANGED pgVars
  BY <1>1 DEF pgVars
<1>2. ASSUME NEW mode \in {"explore", "ship"}, PgMode(mode) PROVE PlayInv'
  <2>1. WithMode(pgConfig, mode).root = pgConfig.root
        /\ "root" \in DOMAIN WithMode(pgConfig, mode)
    BY <1>0
  <2>2. pgConfig' = WithMode(pgConfig, mode) /\ OwnSetting
        /\ UNCHANGED <<pgPlay, pgTree, pgMade, pgEdits>>
    BY <1>2 DEF PgMode
  <2>3. pgConfig'.root = pgConfig.root /\ "root" \in DOMAIN pgConfig'
    BY <2>1, <2>2
  <2>4. CASE pgPlay = NoPlay
    BY <2>2, <2>3, <2>4 DEF OwnSetting
  <2>5. CASE pgPlay # NoPlay
    BY <2>2, <2>3, <2>5 DEF OwnSetting
  <2>6. QED BY <2>4, <2>5
<1>3. CASE PgToggle
  <2>1. OwnSetting /\ UNCHANGED <<pgConfig, pgPlay, pgTree, pgMade, pgEdits>>
    BY <1>3 DEF PgToggle
  <2>2. QED BY <2>1 DEF OwnSetting
<1>4. ASSUME NEW w, NEW tree, pgTree' = [pgTree EXCEPT ![w] = tree]
      PROVE  pgTree' = [v \in 0..MaxSandboxes |-> pgTree'[v]]
  BY <1>4
<1>5. CASE PgUndo
  BY <1>4, <1>5 DEF PgUndo
<1>6. CASE PgExit
  BY <1>6 DEF PgExit, LeaveSandbox
<1>7. CASE PgNew
  BY <1>7 DEF PgNew, LeaveSandbox
<1>8. ASSUME NEW tree \in Trees, PgPrompt(tree) \/ PlayTurn(tree) \/ OwnEdit(tree)
      PROVE  PlayInv'
  <2>1. UNCHANGED <<pgConfig, pgPlay, pgCheckpoints, pgOwn, pgMade>> /\ pgEdits' \in Nat
    BY <1>8 DEF PgPrompt, PlayTurn, OwnEdit
  <2>2. \/ pgTree' = [pgTree EXCEPT ![pgConfig.root] = tree]
        \/ pgTree' = [pgTree EXCEPT ![Own] = tree]
    BY <1>8 DEF PgPrompt, PlayTurn, OwnEdit, TurnEndsWell, TurnBreaks
  <2>3. pgTree' = [v \in 0..MaxSandboxes |-> pgTree'[v]]
    BY <1>4, <2>2
  <2>4. QED BY <2>1, <2>3
<1>9. ASSUME NEW fixture \in Bundled, PlayStarts(fixture) PROVE PlayInv'
  <2>1. /\ pgPlay = NoPlay /\ pgMade < MaxSandboxes /\ pgMade' = pgMade + 1
        /\ pgConfig' = [WithMode(pgConfig, "ship") EXCEPT !.root = pgMade']
        /\ pgPlay' = [config |-> pgConfig, checkpoints |-> pgCheckpoints]
        /\ UNCHANGED <<pgTree, pgOwn, pgEdits>>
    BY <1>9 DEF PlayStarts, EnterSandbox
  <2>2. pgConfig'.root = pgMade' /\ "root" \in DOMAIN pgConfig'
    BY <1>0, <2>1
  <2>3. pgMade' \in 0..MaxSandboxes /\ pgMade' # Own
    BY <2>1, PlaygroundAssumption DEF Own
  <2>4. pgPlay' # NoPlay
    BY <2>1, PlayIsSome
  <2>5. pgPlay' = pgOwn'
    BY <2>1
  <2>6. QED BY <2>1, <2>2, <2>3, <2>4, <2>5
<1>10. QED
  BY <1>1, <1>2, <1>3, <1>5, <1>6, <1>7, <1>8, <1>9 DEF PgNext

\* Only the user's editor changes the user's own workspace in a play session.
LEMMA PlaySpares ==
  ASSUME PlayInv, [PgNext]_pgVars, pgPlay # NoPlay, pgEdits' = pgEdits
  PROVE  pgTree'[Own] = pgTree[Own]
<1> USE DEF PlayInv, SetAside, PlayTypes
<1>1. Own \in 0..MaxSandboxes
  BY PlaygroundAssumption DEF Own
<1>2. ASSUME NEW tree, pgTree' = [pgTree EXCEPT ![pgConfig.root] = tree]
      PROVE  pgTree'[Own] = pgTree[Own]
  BY <1>1, <1>2
<1>3. ASSUME NEW tree \in Trees, PgPrompt(tree) \/ PlayTurn(tree)
      PROVE  pgTree'[Own] = pgTree[Own]
  BY <1>2, <1>3 DEF PgPrompt, PlayTurn, TurnEndsWell, TurnBreaks
<1>4. CASE PgUndo
  BY <1>2, <1>4 DEF PgUndo
<1>5. ASSUME NEW tree \in Trees, OwnEdit(tree) PROVE FALSE
  BY <1>5 DEF OwnEdit
<1>6. CASE UNCHANGED pgTree
  BY <1>6
<1>7. CASE UNCHANGED pgVars
  BY <1>6, <1>7 DEF pgVars
<1>8. QED
  BY <1>3, <1>4, <1>5, <1>6, <1>7 DEF PgNext, PgMode, PgToggle, PgExit, PgNew, PlayStarts

Contest == [model : Models, fixture : Fixtures]
Result  == [pair : Contest, passed : BOOLEAN, earned : BOOLEAN]

\* The results of a run are those of its pairs so far, in their order, and one
\* that passed has earned it.
RunSound(run) ==
    /\ run.pairs \in Seq(Contest) /\ run.results \in Seq(Result)
    /\ Len(run.results) <= Len(run.pairs)
    /\ \A i \in 1..Len(run.results) : /\ run.results[i].pair = run.pairs[i]
                                      /\ run.results[i].passed => run.results[i].earned

EvalsInv ==
    /\ RunSound(evRun) /\ RunSound(evSaved)
    /\ evRun = [pairs |-> evRun.pairs, results |-> evRun.results]
    /\ Len(evSaved.results) = Len(evSaved.pairs)

LEMMA NothingRun ==
  RunSound(NoEval) /\ Len(NoEval.results) = Len(NoEval.pairs)
  /\ NoEval = [pairs |-> NoEval.pairs, results |-> NoEval.results]
  BY DEF NoEval, RunSound

\* Models are paired with fixtures of the two kinds of commands.
LEMMA PairsTypes ==
  ASSUME NEW model \in Models, NEW other \in Models, NEW fixture \in Fixtures, NEW next \in Fixtures
  PROVE  /\ Pairs(<<model>>, <<fixture>>) \in Seq(Contest)
         /\ Pairs(<<model, other>>, <<fixture, next>>) \in Seq(Contest)
<1>1. Pairs(<<model>>, <<fixture>>) = [i \in 1..1 |-> [model |-> model, fixture |-> fixture]]
  <2>1. \A i \in 1..1 : (i - 1) \div 1 + 1 = 1 /\ ((i - 1) % 1) + 1 = 1
    OBVIOUS
  <2>2. QED BY <2>1 DEF Pairs
<1>2. \A i \in 1..4 : (i - 1) \div 2 + 1 \in 1..2 /\ ((i - 1) % 2) + 1 \in 1..2
  OBVIOUS
<1>3. Pairs(<<model, other>>, <<fixture, next>>) \in [1..4 -> Contest]
  <2>1. \A k \in 1..2 : <<model, other>>[k] \in Models /\ <<fixture, next>>[k] \in Fixtures
    OBVIOUS
  <2>2. QED BY <1>2, <2>1 DEF Pairs, Contest
<1>4. Pairs(<<model>>, <<fixture>>) \in [1..1 -> Contest]
  BY <1>1 DEF Contest
<1>5. \A n \in Nat : [1..n -> Contest] \subseteq Seq(Contest)
  OBVIOUS
<1>6. QED BY <1>3, <1>4, <1>5

LEMMA NextEvals == EvalsInv /\ [EvNext]_evVars => EvalsInv'
<1> SUFFICES ASSUME EvalsInv, [EvNext]_evVars PROVE EvalsInv'
  OBVIOUS
<1>1. CASE UNCHANGED evVars
  BY <1>1 DEF evVars, EvalsInv, RunSound
<1>2. ASSUME NEW models, NEW fixtures, Pairs(models, fixtures) \in Seq(Contest),
             EvalStarts(models, fixtures)
      PROVE  EvalsInv'
  <2>1. evSaved' = NoEval /\ evRun' = [pairs |-> Pairs(models, fixtures), results |-> << >>]
    BY <1>2 DEF EvalStarts
  <2>2. RunSound(evRun')
    BY <1>2, <2>1 DEF RunSound
  <2>3. QED BY <2>1, <2>2, NothingRun DEF EvalsInv, RunSound
<1>3. ASSUME NEW tree \in Trees, NEW head \in Baseline, NEW did \in Deeds, NEW ended \in BOOLEAN,
             EvalRun(tree, head, did, ended)
      PROVE  EvalsInv'
  <2> DEFINE n == Len(evRun.results) + 1
             passed == Judged(ended, Pair.fixture, tree, head, did)
             earned == ended /\ \A c \in Checks[Pair.fixture] : Holds(c, tree, head, did)
             outcome == [pair |-> Pair, passed |-> passed, earned |-> earned]
  <2>1. n \in 1..Len(evRun.pairs) /\ Pair = evRun.pairs[n] /\ Pair \in Contest
    BY <1>3 DEF EvalRun, Running, Pair, EvalsInv, RunSound
  <2>2. passed <=> earned
    BY DEF Judged, AllHold
  <2>3. passed \in BOOLEAN /\ earned \in BOOLEAN
    BY DEF Judged
  <2>4. outcome \in Result
    BY <2>1, <2>3 DEF Result
  <2>5. evRun' = [evRun EXCEPT !.results = Append(@, outcome)] /\ UNCHANGED evSaved
    BY <1>3 DEF EvalRun
  <2> HIDE DEF outcome
  <2>6. evRun' = [pairs |-> evRun.pairs, results |-> Append(evRun.results, outcome)]
    BY <2>5 DEF EvalsInv
  <2>7. outcome.pair = evRun.pairs[n] /\ (outcome.passed => outcome.earned)
    BY <2>1, <2>2 DEF outcome
  <2> HIDE DEF passed, earned
  <2>8. RunSound(evRun')
    BY <2>1, <2>4, <2>6, <2>7 DEF EvalsInv, RunSound
  <2>9. QED BY <2>5, <2>6, <2>8 DEF EvalsInv, RunSound
<1>4. CASE EvalBreaks
  BY <1>4, NothingRun DEF EvalBreaks, LoseRest, EvalsInv, RunSound
<1>5. CASE EvalSaves
  BY <1>5, NothingRun DEF EvalSaves, Running, EvalsInv, RunSound
<1>6. QED
  BY <1>1, <1>2, <1>3, <1>4, <1>5, PairsTypes DEF EvNext

\* The parts of PlaySound that speak of a state.
LEMMA PlayHolds == PlayInv /\ EvalsInv => SettingsBack /\ PassIsEarned /\ SavedIsWhole
<1> SUFFICES ASSUME PlayInv, EvalsInv PROVE SettingsBack /\ PassIsEarned /\ SavedIsWhole
  OBVIOUS
<1>1. SettingsBack
  BY DEF PlayInv, SetAside, SettingsBack
<1>2. PassIsEarned
  BY DEF EvalsInv, RunSound, PassIsEarned
<1>3. SavedIsWhole
  <2>1. \A s \in Seq(Contest) : s = [i \in 1..Len(s) |-> s[i]]
    OBVIOUS
  <2>2. evSaved.pairs = [i \in 1..Len(evSaved.pairs) |-> evSaved.pairs[i]]
    BY <2>1 DEF EvalsInv, RunSound
  <2>3. QED BY <2>2 DEF EvalsInv, RunSound, SavedIsWhole
<1>4. QED BY <1>1, <1>2, <1>3

\* However play sessions begin and end, settings change and turns fail, for any
\* number of sandboxes, turns and edits: outside a play session the settings are
\* the user's, and in one the user's workspace is left alone.  Whatever models an
\* evaluation runs, a saved result has an entry for every pair, and one that passed
\* has kept all its checks.
THEOREM PlayAlwaysSound == (PlaySpec => PlaySound) /\ (EvalsSpec => PlaySound)
<1>1. PgInit /\ EvInit => PlayInv /\ EvalsInv
  BY InitPlay, NothingRun DEF EvInit, EvalsInv
<1>2. PlayInv /\ EvalsInv /\ [PgNext /\ UNCHANGED evVars]_<<pgVars, evVars>>
        => /\ PlayInv' /\ EvalsInv'
           /\ [pgPlay # NoPlay /\ pgEdits' = pgEdits => pgTree'[Own] = pgTree[Own]]_pgVars
  <2> SUFFICES ASSUME PlayInv, EvalsInv, [PgNext /\ UNCHANGED evVars]_<<pgVars, evVars>>
               PROVE  /\ PlayInv' /\ EvalsInv'
                      /\ pgPlay # NoPlay /\ pgEdits' = pgEdits => pgTree'[Own] = pgTree[Own]
    OBVIOUS
  <2>1. [PgNext]_pgVars /\ [EvNext]_evVars
    OBVIOUS
  <2>2. QED BY <2>1, NextPlay, NextEvals, PlaySpares
<1>3. PlayInv /\ EvalsInv /\ [EvNext /\ UNCHANGED pgVars]_<<pgVars, evVars>>
        => /\ PlayInv' /\ EvalsInv'
           /\ [pgPlay # NoPlay /\ pgEdits' = pgEdits => pgTree'[Own] = pgTree[Own]]_pgVars
  <2> SUFFICES ASSUME PlayInv, EvalsInv, [EvNext /\ UNCHANGED pgVars]_<<pgVars, evVars>>
               PROVE  /\ PlayInv' /\ EvalsInv'
                      /\ UNCHANGED pgVars
    OBVIOUS
  <2>1. UNCHANGED pgVars
    OBVIOUS
  <2>2. [PgNext]_pgVars /\ [EvNext]_evVars
    OBVIOUS
  <2>3. QED BY <2>1, <2>2, NextPlay, NextEvals
<1>4. PlayInv /\ EvalsInv /\ PlayInv' /\ EvalsInv' =>
        [SettingsBack' /\ PassIsEarned' /\ SavedIsWhole']_<<pgVars, evVars>>
  <2>1. PlayInv' /\ EvalsInv' => SettingsBack' /\ PassIsEarned' /\ SavedIsWhole'
    BY PlayHolds, PTL
  <2>2. QED BY <2>1
<1>5. QED
  BY <1>1, <1>2, <1>3, <1>4, PlayHolds, PTL
     DEF PlaySpec, EvalsSpec, PlaySound, StaysTrue, RepoUntouched

-----------------------------------------------------------------------------
(* ProjectMemory: what the index says of the files, and the notes.          *)

\* The time of a file that was looked up is past, or the file still has it, unless
\* the file changed twice in that second.
SeenAt(t, f, files, now, twice) ==
    /\ t \in Nat /\ t <= now
    /\ t = now /\ f \notin twice => files[f] # Gone /\ files[f].since = now

\* Where size and time are the file's, so is the text.
EntriesTrue(index, files, now, twice) ==
    \A f \in DOMAIN index :
       /\ f \in PmNames /\ SeenAt(index[f].since, f, files, now, twice)
       /\ f \notin twice /\ files[f] # Gone /\ index[f].since = files[f].since
             /\ index[f].size = files[f].text.size
          => index[f].text = files[f].text

Fitting(f, files) == files[f] # Gone /\ files[f].text.size <= MaxIndexed

\* The entries are those of the files as they are, and only binary files and those
\* that are left have none.
EntriesExact(index, left, files) ==
    /\ \A f \in DOMAIN index : /\ f \in PmNames /\ Fitting(f, files)
                               /\ index[f].size = files[f].text.size
                               /\ index[f].since = files[f].since
    /\ \A f \in PmNames \ left : Fitting(f, files) => f \in DOMAIN index \/ files[f].text.binary

FilesInv ==
    /\ pmNow \in Nat /\ pmFiles = [f \in PmNames |-> pmFiles[f]]
    /\ \A f \in PmNames : pmFiles[f] # Gone => pmFiles[f].since \in Nat /\ pmFiles[f].since <= pmNow

Looked == IF pmBuild.at = Idle THEN {} ELSE {pmBuild.at.name}

BuildInv ==
    pmBuild # Idle =>
       /\ pmBuild = [prev |-> pmBuild.prev, todo |-> pmBuild.todo, acc |-> pmBuild.acc,
                     at |-> pmBuild.at]
       /\ EntriesTrue(pmBuild.prev, pmFiles, pmNow, pmTwice)
       /\ EntriesTrue(pmBuild.acc, pmFiles, pmNow, pmTwice)
       /\ pmBuild.at # Idle => /\ pmBuild.at.name \in PmNames
                               /\ SeenAt(pmBuild.at.since, pmBuild.at.name, pmFiles, pmNow, pmTwice)
       /\ pmCalm => /\ EntriesExact(pmBuild.acc, pmBuild.todo \cup Looked, pmFiles)
                    /\ pmBuild.at # Idle => LET f == pmBuild.at.name IN
                         /\ Fitting(f, pmFiles) /\ pmBuild.at.since = pmFiles[f].since
                         /\ pmBuild.at.size = pmFiles[f].text.size

IndexInv ==
    /\ FilesInv /\ BuildInv
    /\ Built => EntriesTrue(pmIndex, pmFiles, pmNow, pmTwice)
    /\ Built /\ pmBuild = Idle /\ pmCalm => EntriesExact(pmIndex, {}, pmFiles)

LEMMA InitIndex == IndexInit => IndexInv
<1> SUFFICES ASSUME IndexInit PROVE IndexInv
  OBVIOUS
<1>1. ASSUME NEW f \in PmNames PROVE pmFiles[f] # Gone => pmFiles[f].since = 0
  BY DEF IndexInit
<1>2. pmNow = 0 /\ pmFiles = [f \in PmNames |-> pmFiles[f]] /\ pmBuild = Idle /\ pmIndex = NoIndex
  BY DEF IndexInit
<1>3. QED BY <1>1, <1>2 DEF IndexInv, FilesInv, BuildInv, Built

\* The clock goes on.
LEMMA TimePasses ==
  ASSUME NEW index, NEW files, NEW now \in Nat, NEW twice, EntriesTrue(index, files, now, twice)
  PROVE  EntriesTrue(index, files, now + 1, twice)
  BY DEF EntriesTrue, SeenAt

\* A file changes.
LEMMA LookStaysTrue ==
  ASSUME NEW t, NEW g \in PmNames, NEW f \in PmNames, NEW files, NEW now \in Nat, NEW twice, NEW file,
         NEW files2, NEW twice2, DOMAIN files = PmNames, SeenAt(t, g, files, now, twice),
         files2 = [files EXCEPT ![f] = file], file # Gone => file.since = now,
         twice2 = IF files[f] # Gone /\ files[f].since = now THEN twice \cup {f} ELSE twice
  PROVE  SeenAt(t, g, files2, now, twice2)
<1>1. CASE g # f
  BY <1>1 DEF SeenAt
<1>2. CASE g = f
  BY <1>2 DEF SeenAt
<1>3. QED BY <1>1, <1>2

LEMMA EntriesStayTrue ==
  ASSUME NEW index, NEW f \in PmNames, NEW files, NEW now \in Nat, NEW twice, NEW file,
         NEW files2, NEW twice2, DOMAIN files = PmNames, EntriesTrue(index, files, now, twice),
         files2 = [files EXCEPT ![f] = file], file # Gone => file.since = now,
         twice2 = IF files[f] # Gone /\ files[f].since = now THEN twice \cup {f} ELSE twice
  PROVE  EntriesTrue(index, files2, now, twice2)
<1> SUFFICES ASSUME NEW g \in DOMAIN index
             PROVE  /\ g \in PmNames /\ SeenAt(index[g].since, g, files2, now, twice2)
                    /\ g \notin twice2 /\ files2[g] # Gone /\ index[g].since = files2[g].since
                          /\ index[g].size = files2[g].text.size
                       => index[g].text = files2[g].text
  BY DEF EntriesTrue
<1>1. g \in PmNames /\ SeenAt(index[g].since, g, files, now, twice)
  BY DEF EntriesTrue
<1>2. SeenAt(index[g].since, g, files2, now, twice2)
  BY <1>1, LookStaysTrue
<1>3. CASE g # f
  BY <1>1, <1>2, <1>3 DEF EntriesTrue
<1>4. CASE g = f
  <2>1. files2[g] = file
    BY <1>4
  <2>2. file # Gone /\ index[g].since = file.since => g \in twice2
    BY <1>1, <1>4 DEF SeenAt
  <2>3. QED BY <1>1, <1>2, <2>1, <2>2
<1>5. QED BY <1>3, <1>4

\* An entry is added.
LEMMA EntryIsTrue ==
  ASSUME NEW index, NEW f \in PmNames, NEW e, NEW files, NEW now, NEW twice,
         EntriesTrue(index, files, now, twice), SeenAt(e.since, f, files, now, twice),
         f \notin twice /\ files[f] # Gone /\ e.since = files[f].since /\ e.size = files[f].text.size
           => e.text = files[f].text
  PROVE  EntriesTrue(WithEntry(index, f, e), files, now, twice)
<1> DEFINE new == WithEntry(index, f, e)
<1>1. DOMAIN new = DOMAIN index \cup {f} /\ new[f] = e /\ \A g \in DOMAIN index : g # f => new[g] = index[g]
  BY DEF WithEntry
<1> HIDE DEF new
<1>2. ASSUME NEW g \in DOMAIN new
      PROVE  /\ g \in PmNames /\ SeenAt(new[g].since, g, files, now, twice)
             /\ g \notin twice /\ files[g] # Gone /\ new[g].since = files[g].since
                   /\ new[g].size = files[g].text.size
                => new[g].text = files[g].text
  <2>1. CASE g = f
    BY <1>1, <2>1
  <2>2. CASE g # f
    BY <1>1, <2>2 DEF EntriesTrue
  <2>3. QED BY <2>1, <2>2
<1>3. EntriesTrue(new, files, now, twice)
  BY <1>2 DEF EntriesTrue
<1>4. QED BY <1>3 DEF new

LEMMA EntryIsExact ==
  ASSUME NEW index, NEW f \in PmNames, NEW e, NEW files, NEW left, NEW left2, left \subseteq left2 \cup {f},
         EntriesExact(index, left, files), Fitting(f, files), e.size = files[f].text.size,
         e.since = files[f].since
  PROVE  EntriesExact(WithEntry(index, f, e), left2, files)
<1> DEFINE new == WithEntry(index, f, e)
<1>1. DOMAIN new = DOMAIN index \cup {f} /\ new[f] = e /\ \A g \in DOMAIN index : g # f => new[g] = index[g]
  BY DEF WithEntry
<1> HIDE DEF new
<1>2. ASSUME NEW g \in DOMAIN new
      PROVE  /\ g \in PmNames /\ Fitting(g, files)
             /\ new[g].size = files[g].text.size /\ new[g].since = files[g].since
  <2>1. CASE g = f
    BY <1>1, <2>1
  <2>2. CASE g # f
    BY <1>1, <2>2 DEF EntriesExact
  <2>3. QED BY <2>1, <2>2
<1>3. \A g \in PmNames \ left2 : Fitting(g, files) => g \in DOMAIN new \/ files[g].text.binary
  BY <1>1 DEF EntriesExact
<1>4. EntriesExact(new, left2, files)
  BY <1>2, <1>3 DEF EntriesExact
<1>5. QED BY <1>4 DEF new

LEMMA NextIndex == IndexInv /\ [IndexNext]_pmIndexVars => IndexInv'
<1> SUFFICES ASSUME IndexInv, [IndexNext]_pmIndexVars PROVE IndexInv'
  OBVIOUS
<1> USE DEF IndexInv, FilesInv, BuildInv
<1>1. CASE UNCHANGED pmIndexVars
  BY <1>1 DEF pmIndexVars, Built, Looked
<1>2. CASE SecondPasses
  <2>1. pmNow' = pmNow + 1 /\ UNCHANGED <<pmFiles, pmIndex, pmBuild, pmTwice, pmCalm>>
    BY <1>2 DEF SecondPasses
  <2>2. ASSUME NEW index, EntriesTrue(index, pmFiles, pmNow, pmTwice)
        PROVE  EntriesTrue(index, pmFiles', pmNow', pmTwice')
    BY <2>1, <2>2, TimePasses
  <2>3. FilesInv'
    BY <2>1
  <2>4. BuildInv'
    <3>1. SUFFICES ASSUME pmBuild # Idle PROVE BuildInv'
      BY <2>1
    <3>2. EntriesTrue(pmBuild.prev, pmFiles', pmNow', pmTwice')
          /\ EntriesTrue(pmBuild.acc, pmFiles', pmNow', pmTwice')
      BY <2>2, <3>1
    <3>3. pmBuild.at # Idle => SeenAt(pmBuild.at.since, pmBuild.at.name, pmFiles', pmNow', pmTwice')
      BY <2>1, <3>1 DEF SeenAt
    <3>4. QED BY <2>1, <3>1, <3>2, <3>3 DEF Looked
  <2>5. Built' => EntriesTrue(pmIndex', pmFiles', pmNow', pmTwice')
    BY <2>1, <2>2 DEF Built
  <2>6. QED BY <2>1, <2>3, <2>4, <2>5 DEF Built
<1>3. ASSUME NEW f \in PmNames, FileChanges(f) PROVE IndexInv'
  <2>1. PICK file \in {Gone} \cup [text : PmTexts, since : {pmNow}] :
          pmFiles' = [pmFiles EXCEPT ![f] = file]
    BY <1>3 DEF FileChanges
  <2>2. /\ pmTwice' = IF pmFiles[f] # Gone /\ pmFiles[f].since = pmNow
                      THEN pmTwice \cup {f} ELSE pmTwice
        /\ pmCalm' = FALSE /\ UNCHANGED <<pmNow, pmIndex, pmBuild>>
    BY <1>3 DEF FileChanges
  <2>3. file # Gone => file.since = pmNow
    OBVIOUS
  <2>4. DOMAIN pmFiles = PmNames /\ pmNow \in Nat
    OBVIOUS
  <2>5. ASSUME NEW index, EntriesTrue(index, pmFiles, pmNow, pmTwice)
        PROVE  EntriesTrue(index, pmFiles', pmNow', pmTwice')
    BY <2>1, <2>2, <2>3, <2>4, <2>5, EntriesStayTrue
  <2>6. FilesInv'
    BY <2>1, <2>2, <2>3, <2>4
  <2>7. BuildInv'
    <3>1. SUFFICES ASSUME pmBuild # Idle PROVE BuildInv'
      BY <2>2
    <3>2. EntriesTrue(pmBuild.prev, pmFiles', pmNow', pmTwice')
          /\ EntriesTrue(pmBuild.acc, pmFiles', pmNow', pmTwice')
      BY <2>5, <3>1
    <3>3. pmBuild.at # Idle => SeenAt(pmBuild.at.since, pmBuild.at.name, pmFiles', pmNow', pmTwice')
      BY <2>1, <2>2, <2>3, <2>4, <3>1, LookStaysTrue
    <3>4. QED BY <2>2, <3>1, <3>2, <3>3
  <2>8. QED BY <2>2, <2>5, <2>6, <2>7 DEF Built
<1>4. CASE BuildBegins
  <2>1. /\ pmBuild' = [prev |-> Entries, todo |-> PmNames, acc |-> << >>, at |-> Idle]
        /\ pmCalm' = TRUE /\ UNCHANGED <<pmFiles, pmNow, pmIndex, pmTwice>> /\ Readable
    BY <1>4 DEF BuildBegins
  <2>2. \A files, now, twice : EntriesTrue(<< >>, files, now, twice)
    BY DEF EntriesTrue
  <2>3. EntriesTrue(Entries, pmFiles, pmNow, pmTwice)
    BY <2>1, <2>2 DEF Entries, Readable, Built
  <2>4. EntriesExact(<< >>, PmNames, pmFiles)
    BY DEF EntriesExact
  <2>5. pmBuild'.prev = Entries /\ pmBuild'.todo = PmNames /\ pmBuild'.acc = << >>
        /\ pmBuild'.at = Idle /\ pmBuild' # Idle
    <3>1. "at" \in DOMAIN pmBuild' /\ "at" \notin DOMAIN << >>
      BY <2>1
    <3>2. QED BY <2>1, <3>1 DEF Idle
  <2>6. Looked' = {}
    BY <2>5 DEF Looked
  <2>7. PmNames \cup {} = PmNames
    OBVIOUS
  <2>8. QED BY <2>1, <2>2, <2>3, <2>4, <2>5, <2>6, <2>7 DEF Built
<1>5. CASE TurnChangedFiles
  BY <1>4, <1>5 DEF TurnChangedFiles
<1>10. CASE BuildIsKilled
  BY <1>10 DEF BuildIsKilled, Built
<1>11. CASE ClearIndex
  BY <1>11 DEF ClearIndex, Built
<1>12. CASE SaveIndex
  <2>1. /\ pmBuild # Idle /\ pmBuild.todo = {} /\ pmBuild.at = Idle
        /\ pmIndex' \in {pmBuild.acc, TornIndex} /\ pmBuild' = Idle
        /\ UNCHANGED <<pmFiles, pmNow, pmTwice, pmCalm>>
    BY <1>12 DEF SaveIndex
  <2>2. pmBuild.todo \cup Looked = {}
    BY <2>1 DEF Looked
  <2>3. QED BY <2>1, <2>2 DEF Built
<1>13. ASSUME NEW f \in PmNames, Visit(f) PROVE IndexInv'
  <2> DEFINE left == pmBuild.todo \ {f}
             seen == [name |-> f, size |-> pmFiles[f].text.size, since |-> pmFiles[f].since]
  <2>1. pmBuild # Idle /\ pmBuild.at = Idle /\ UNCHANGED <<pmFiles, pmNow, pmIndex, pmTwice, pmCalm>>
    BY <1>13 DEF Visit
  <2>2. [pmBuild EXCEPT !.todo = @ \ {f}]
          = [prev |-> pmBuild.prev, todo |-> left, acc |-> pmBuild.acc, at |-> Idle]
    BY <2>1
  <2>3. Looked = {} /\ pmBuild.todo \cup {} = pmBuild.todo
    BY <2>1 DEF Looked
  <2>4. ASSUME NEW acc, NEW at,
               pmBuild' = [prev |-> pmBuild.prev, todo |-> left, acc |-> acc, at |-> at],
               EntriesTrue(acc, pmFiles, pmNow, pmTwice),
               at \in {Idle, seen}, at = seen => Fitting(f, pmFiles),
               pmCalm => EntriesExact(acc, left \cup (IF at = Idle THEN {} ELSE {f}), pmFiles)
        PROVE  IndexInv'
    <3>1. /\ pmBuild'.prev = pmBuild.prev /\ pmBuild'.todo = left
          /\ pmBuild'.acc = acc /\ pmBuild'.at = at
      BY <2>4
    <3>2. pmBuild' # Idle
      <4>1. "at" \in DOMAIN pmBuild' /\ "at" \notin DOMAIN << >>
        BY <2>4
      <4>2. QED BY <4>1 DEF Idle
    <3>4. at # Idle => /\ at.name = f /\ at.size = pmFiles[f].text.size /\ at.since = pmFiles[f].since
                       /\ Fitting(f, pmFiles)
      BY <2>4
    <3>8. Looked' = IF pmBuild'.at = Idle THEN {} ELSE {pmBuild'.at.name}
      BY DEF Looked, Idle
    <3>3. Looked' = IF at = Idle THEN {} ELSE {f}
      BY <3>1, <3>4, <3>8
    <3>5. at # Idle => SeenAt(at.since, at.name, pmFiles, pmNow, pmTwice)
      BY <3>4 DEF SeenAt, Fitting
    <3>6. BuildInv'
      BY <2>1, <2>4, <3>1, <3>2, <3>3, <3>4, <3>5
    <3>7. QED BY <2>1, <3>2, <3>6 DEF Built
  <2>5. CASE f \notin Indexable
    <3>1. pmBuild' = [prev |-> pmBuild.prev, todo |-> left, acc |-> pmBuild.acc, at |-> Idle]
      BY <1>13, <2>2, <2>5 DEF Visit
    <3>2. pmCalm => EntriesExact(pmBuild.acc, left \cup {}, pmFiles)
      BY <2>1, <2>3, <2>5 DEF EntriesExact, Indexable, Fitting
    <3>3. EntriesTrue(pmBuild.acc, pmFiles, pmNow, pmTwice)
      BY <2>1
    <3>4. Idle # seen
      <4>1. "name" \in DOMAIN seen /\ "name" \notin DOMAIN << >>
        OBVIOUS
      <4>2. QED BY <4>1 DEF Idle
    <3> HIDE DEF left, seen
    <3>5. QED BY <2>4, <3>1, <3>2, <3>3, <3>4
  <2>6. CASE f \in Indexable /\ Matches(pmBuild.prev, f)
    <3> DEFINE acc == WithEntry(pmBuild.acc, f, pmBuild.prev[f])
    <3>1. pmBuild' = [[pmBuild EXCEPT !.todo = @ \ {f}] EXCEPT !.acc = WithEntry(@, f, pmBuild.prev[f])]
      BY <1>13, <2>6 DEF Visit
    <3>2. pmBuild' = [prev |-> pmBuild.prev, todo |-> left, acc |-> acc, at |-> Idle]
      BY <2>2, <3>1
    <3>3. Fitting(f, pmFiles)
      BY <2>6 DEF Indexable, Fitting
    <3>4. /\ f \in DOMAIN pmBuild.prev /\ pmBuild.prev[f].size = pmFiles[f].text.size
          /\ pmBuild.prev[f].since = pmFiles[f].since
      BY <2>6 DEF Matches
    <3>5. EntriesTrue(pmBuild.acc, pmFiles, pmNow, pmTwice) /\ EntriesTrue(pmBuild.prev, pmFiles, pmNow, pmTwice)
      BY <2>1
    <3>6. EntriesTrue(acc, pmFiles, pmNow, pmTwice)
      <4>1. SeenAt(pmBuild.prev[f].since, f, pmFiles, pmNow, pmTwice)
            /\ (f \notin pmTwice /\ pmFiles[f] # Gone => pmBuild.prev[f].text = pmFiles[f].text)
        BY <3>4, <3>5 DEF EntriesTrue
      <4>2. QED BY <3>5, <4>1, EntryIsTrue
    <3>7. pmCalm => EntriesExact(acc, left \cup {}, pmFiles)
      <4>1. SUFFICES ASSUME pmCalm PROVE EntriesExact(acc, left \cup {}, pmFiles)
        OBVIOUS
      <4>2. EntriesExact(pmBuild.acc, pmBuild.todo, pmFiles)
        BY <2>1, <2>3, <4>1
      <4>3. pmBuild.todo \subseteq (left \cup {}) \cup {f}
        OBVIOUS
      <4> HIDE DEF left
      <4>4. QED BY <3>3, <3>4, <4>2, <4>3, EntryIsExact
    <3>8. Idle # seen
      <4>1. "name" \in DOMAIN seen /\ "name" \notin DOMAIN << >>
        OBVIOUS
      <4>2. QED BY <4>1 DEF Idle
    <3> HIDE DEF acc, left, seen
    <3>9. QED BY <2>4, <3>2, <3>6, <3>7, <3>8
  <2>7. CASE f \in Indexable /\ ~Matches(pmBuild.prev, f)
    <3>1. pmBuild' = [[pmBuild EXCEPT !.todo = @ \ {f}] EXCEPT !.at = seen]
      BY <1>13, <2>7 DEF Visit
    <3>2. pmBuild' = [prev |-> pmBuild.prev, todo |-> left, acc |-> pmBuild.acc, at |-> seen]
      BY <2>2, <3>1
    <3>3. Fitting(f, pmFiles)
      BY <2>7 DEF Indexable, Fitting
    <3>4. EntriesTrue(pmBuild.acc, pmFiles, pmNow, pmTwice)
      BY <2>1
    <3>5. pmCalm => EntriesExact(pmBuild.acc, left \cup {f}, pmFiles)
      BY <2>1, <2>3 DEF EntriesExact
    <3>6. Idle # seen
      <4>1. "name" \in DOMAIN seen /\ "name" \notin DOMAIN << >>
        OBVIOUS
      <4>2. QED BY <4>1 DEF Idle
    <3> HIDE DEF left, seen
    <3>7. QED BY <2>4, <3>2, <3>3, <3>4, <3>5, <3>6
  <2>8. QED BY <2>5, <2>6, <2>7
<1>14. CASE ReadFile
  <2> DEFINE at == pmBuild.at
             f == at.name
             e == [text |-> pmFiles[f].text, size |-> at.size, since |-> at.since]
             skipped == pmFiles[f] = Gone \/ pmFiles[f].text.binary
             acc == IF skipped THEN pmBuild.acc ELSE WithEntry(pmBuild.acc, f, e)
  <2>1. pmBuild # Idle /\ at # Idle /\ UNCHANGED <<pmFiles, pmNow, pmIndex, pmTwice, pmCalm>>
    BY <1>14 DEF ReadFile
  <2>2. pmBuild' = [pmBuild EXCEPT !.at = Idle, !.acc = IF skipped THEN @ ELSE WithEntry(@, f, e)]
    BY <1>14 DEF ReadFile, StampOf
  <2>3. pmBuild' = [prev |-> pmBuild.prev, todo |-> pmBuild.todo, acc |-> acc, at |-> Idle]
    BY <2>1, <2>2
  <2>4. /\ f \in PmNames /\ SeenAt(at.since, f, pmFiles, pmNow, pmTwice)
        /\ EntriesTrue(pmBuild.acc, pmFiles, pmNow, pmTwice)
        /\ pmCalm => /\ EntriesExact(pmBuild.acc, pmBuild.todo \cup {f}, pmFiles)
                     /\ Fitting(f, pmFiles) /\ at.since = pmFiles[f].since /\ at.size = pmFiles[f].text.size
    BY <2>1 DEF Looked
  <2>5. e.since = at.since /\ e.size = at.size /\ e.text = pmFiles[f].text
    OBVIOUS
  <2> HIDE DEF e
  <2>6. EntriesTrue(acc, pmFiles, pmNow, pmTwice)
    <3>1. EntriesTrue(WithEntry(pmBuild.acc, f, e), pmFiles, pmNow, pmTwice)
      BY <2>4, <2>5, EntryIsTrue
    <3>2. QED BY <2>4, <3>1
  <2>7. pmCalm => EntriesExact(acc, pmBuild.todo \cup {}, pmFiles)
    <3>1. SUFFICES ASSUME pmCalm PROVE EntriesExact(acc, pmBuild.todo \cup {}, pmFiles)
      OBVIOUS
    <3>2. CASE skipped
      BY <2>4, <3>1, <3>2 DEF EntriesExact, Fitting
    <3>3. CASE ~skipped
      <4>1. pmBuild.todo \cup {f} \subseteq (pmBuild.todo \cup {}) \cup {f}
        OBVIOUS
      <4>2. EntriesExact(WithEntry(pmBuild.acc, f, e), pmBuild.todo \cup {}, pmFiles)
        BY <2>4, <2>5, <3>1, <4>1, EntryIsExact
      <4>3. QED BY <3>3, <4>2
    <3>4. QED BY <3>2, <3>3
  <2>8. /\ pmBuild'.prev = pmBuild.prev /\ pmBuild'.todo = pmBuild.todo
        /\ pmBuild'.acc = acc /\ pmBuild'.at = Idle
    BY <2>3
  <2>9. pmBuild' # Idle
    <3>1. "at" \in DOMAIN pmBuild' /\ "at" \notin DOMAIN << >>
      BY <2>3
    <3>2. QED BY <3>1 DEF Idle
  <2>10. Looked' = {}
    BY <2>8 DEF Looked
  <2> HIDE DEF acc
  <2>11. EntriesTrue(pmBuild.prev, pmFiles, pmNow, pmTwice)
    BY <2>1
  <2>12. BuildInv'
    BY <2>1, <2>3, <2>6, <2>7, <2>8, <2>9, <2>10, <2>11
  <2>13. QED BY <2>1, <2>9, <2>12 DEF Built
<1>15. QED
  BY <1>1, <1>2, <1>3, <1>4, <1>5, <1>10, <1>11, <1>12, <1>13, <1>14 DEF IndexNext

LEMMA IndexHolds == IndexInv => FreshIsTrue /\ BuiltIsFresh
<1> SUFFICES ASSUME IndexInv PROVE FreshIsTrue /\ BuiltIsFresh
  OBVIOUS
<1> USE DEF IndexInv, FilesInv
<1>1. Built => Entries = pmIndex
  BY DEF Built, Entries
<1>2. FreshIsTrue
  <2> SUFFICES ASSUME Built, IsFresh, NEW f \in Indexable \ pmTwice
               PROVE  f \in DOMAIN pmIndex /\ pmIndex[f].text = pmFiles[f].text
    BY DEF FreshIsTrue
  <2>1. Indexable \ DOMAIN pmIndex = {}
        /\ {g \in Indexable \cap DOMAIN pmIndex :
              ~Matches(pmIndex, g) /\ pmFiles[g].text # pmIndex[g].text} = {}
    BY <1>1 DEF IsFresh, Freshness
  <2>2. f \in DOMAIN pmIndex /\ (Matches(pmIndex, f) \/ pmFiles[f].text = pmIndex[f].text)
    BY <2>1
  <2>3. EntriesTrue(pmIndex, pmFiles, pmNow, pmTwice) /\ pmFiles[f] # Gone
    BY DEF Indexable
  <2>4. QED BY <2>2, <2>3 DEF EntriesTrue, Matches
<1>3. BuiltIsFresh
  <2> SUFFICES ASSUME Built, pmBuild = Idle, pmCalm, \A f \in Indexable : ~pmFiles[f].text.binary
               PROVE  IsFresh
    BY DEF BuiltIsFresh
  <2>1. EntriesExact(pmIndex, {}, pmFiles)
    OBVIOUS
  <2>2. Indexable \ DOMAIN pmIndex = {} /\ DOMAIN pmIndex \ Indexable = {}
    BY <2>1 DEF EntriesExact, Indexable, Fitting
  <2>3. {g \in Indexable \cap DOMAIN pmIndex :
              ~Matches(pmIndex, g) /\ pmFiles[g].text # pmIndex[g].text} = {}
    BY <2>1 DEF EntriesExact, Matches
  <2>4. QED BY <1>1, <2>2, <2>3 DEF IsFresh, Freshness
<1>4. QED BY <1>2, <1>3

\* A function defined by recursion over 0..n exists.
Recurs(f, k, base, rule) ==
    f[0] = base /\ \A i \in 1..k : f[i] = rule[<<i, f[i - 1]>>]

LEMMA RecursionExists ==
  ASSUME NEW S, NEW base \in S, NEW n \in Nat, NEW rule \in [(1..n) \X S -> S]
  PROVE  \E f \in [0..n -> S] : Recurs(f, n, base, rule)
<1> DEFINE Missing == {k \in 0..n : ~\E f \in [0..k -> S] : Recurs(f, k, base, rule)}
<1> SUFFICES ASSUME Missing # {} PROVE FALSE
  OBVIOUS
<1>1. PICK k \in Missing : \A j \in Missing : k <= j
  <2>1. Missing \subseteq Nat
    OBVIOUS
  <2> HIDE DEF Missing
  <2>2. QED BY <2>1, LeastNatural
<1>2. k \in 0..n /\ ~\E f \in [0..k -> S] : Recurs(f, k, base, rule)
  OBVIOUS
<1>3. CASE k = 0
  <2> DEFINE f == [i \in 0..0 |-> base]
  <2>1. f \in [0..k -> S] /\ Recurs(f, k, base, rule)
    BY <1>3 DEF Recurs
  <2>2. QED BY <1>2, <2>1
<1>4. CASE k # 0
  <2>1. k - 1 \in 0..n /\ k - 1 \notin Missing
    BY <1>1, <1>2, <1>4
  <2>2. PICK f \in [0..(k - 1) -> S] : Recurs(f, k - 1, base, rule)
    BY <2>1
  <2> DEFINE g == [i \in 0..k |-> IF i = k THEN rule[<<k, f[k - 1]>>] ELSE f[i]]
  <2>3. f[k - 1] \in S /\ rule[<<k, f[k - 1]>>] \in S
    <3>1. k - 1 \in 0..(k - 1) /\ k \in 1..n
      BY <1>2, <1>4
    <3>2. QED BY <3>1
  <2>4. g \in [0..k -> S]
    <3>1. ASSUME NEW i \in 0..k PROVE g[i] \in S
      BY <1>2, <2>3
    <3>2. QED BY <3>1
  <2>5. g[0] = base
    BY <1>2, <1>4, <2>2 DEF Recurs
  <2>6. ASSUME NEW i \in 1..k PROVE g[i] = rule[<<i, g[i - 1]>>]
    <3>1. g[i - 1] = f[i - 1]
      BY <1>2
    <3>2. CASE i = k
      <4>1. k \in 0..k /\ g[k] = rule[<<k, f[k - 1]>>]
        BY <1>2
      <4> HIDE DEF g
      <4>2. QED BY <3>1, <3>2, <4>1
    <3>3. CASE i # k
      <4>1. i \in 1..(k - 1) /\ g[i] = f[i]
        BY <3>3, <1>2
      <4>2. QED BY <2>2, <3>1, <4>1 DEF Recurs
    <3>4. QED BY <3>2, <3>3
  <2> HIDE DEF g
  <2>7. Recurs(g, k, base, rule)
    BY <2>5, <2>6 DEF Recurs
  <2>8. QED BY <1>2, <2>4, <2>7
<1>5. QED BY <1>3, <1>4

\* The notes file is a sequence of notes and line ends.
Lines == 1..MaxNotes \cup {PmEnd}

LEMMA ParsedAt ==
  ASSUME NEW file \in Seq(Lines), NEW m
  PROVE  m \in Parsed(file) <=> \E j \in 1..Len(file) :
            /\ file[j] = m /\ m # PmEnd
            /\ j = 1 \/ file[j - 1] = PmEnd
            /\ j = Len(file) \/ file[j + 1] = PmEnd
  BY DEF Parsed

\* What a line that ends keeps, and what a line that begins keeps.
LEMMA EndKeeps ==
  ASSUME NEW file \in Seq(Lines)
  PROVE  /\ Append(file, PmEnd) \in Seq(Lines)
         /\ Parsed(file) \subseteq Parsed(Append(file, PmEnd))
<1> DEFINE more == Append(file, PmEnd)
<1>1. /\ more \in Seq(Lines) /\ Len(more) = Len(file) + 1 /\ Len(file) \in Nat
      /\ \A j \in 1..Len(file) : more[j] = file[j]
      /\ more[Len(file) + 1] = PmEnd
  BY DEF Lines
<1> HIDE DEF more
<1>2. ASSUME NEW m \in Parsed(file) PROVE m \in Parsed(more)
  <2>1. PICK j \in 1..Len(file) : /\ file[j] = m /\ m # PmEnd
                                  /\ j = 1 \/ file[j - 1] = PmEnd
                                  /\ j = Len(file) \/ file[j + 1] = PmEnd
    BY ParsedAt
  <2>2. j \in 1..Len(more) /\ more[j] = m
    BY <1>1, <2>1
  <2>3. j = 1 \/ more[j - 1] = PmEnd
    BY <1>1, <2>1
  <2>4. j = Len(more) \/ more[j + 1] = PmEnd
    BY <1>1, <2>1
  <2>5. QED BY <1>1, <2>1, <2>2, <2>3, <2>4, ParsedAt
<1>3. QED BY <1>1, <1>2 DEF more

Closed(file) == file = << >> \/ Last(file) = PmEnd

LEMMA NoteKeeps ==
  ASSUME NEW file \in Seq(Lines), NEW n \in 1..MaxNotes, PmEnd \notin 1..MaxNotes
  PROVE  /\ Append(file, n) \in Seq(Lines)
         /\ Closed(file) => Parsed(file) \cup {n} \subseteq Parsed(Append(file, n))
         /\ ~Closed(file) => Parsed(file) \ {Last(file)} \subseteq Parsed(Append(file, n))
<1> DEFINE more == Append(file, n)
<1>1. /\ more \in Seq(Lines) /\ Len(more) = Len(file) + 1 /\ Len(file) \in Nat
      /\ \A j \in 1..Len(file) : more[j] = file[j]
      /\ more[Len(file) + 1] = n
  BY DEF Lines
<1>4. file # << >> => Len(file) # 0 /\ Last(file) = file[Len(file)]
  BY DEF Last
<1>5. file = << >> => Len(file) = 0
  OBVIOUS
<1> HIDE DEF more
<1>2. ASSUME NEW m \in Parsed(file), Closed(file) \/ m # Last(file) PROVE m \in Parsed(more)
  <2>1. PICK j \in 1..Len(file) : /\ file[j] = m /\ m # PmEnd
                                  /\ j = 1 \/ file[j - 1] = PmEnd
                                  /\ j = Len(file) \/ file[j + 1] = PmEnd
    BY ParsedAt
  <2>2. j \in 1..Len(more) /\ more[j] = m
    BY <1>1, <2>1
  <2>3. j = 1 \/ more[j - 1] = PmEnd
    BY <1>1, <2>1
  <2>6. j # Len(file)
    BY <1>2, <1>4, <1>5, <2>1 DEF Closed
  <2>4. more[j + 1] = PmEnd
    BY <1>1, <2>1, <2>6
  <2>5. QED BY <1>1, <2>1, <2>2, <2>3, <2>4, ParsedAt
<1>3. ASSUME Closed(file) PROVE n \in Parsed(more)
  <2> DEFINE j == Len(file) + 1
  <2>1. j \in 1..Len(more) /\ more[j] = n /\ n # PmEnd /\ j = Len(more)
    BY <1>1
  <2>2. j = 1 \/ more[j - 1] = PmEnd
    BY <1>1, <1>3, <1>4, <1>5 DEF Closed
  <2> HIDE DEF j
  <2>3. QED BY <1>1, <2>1, <2>2, ParsedAt
<1>6. QED BY <1>1, <1>2, <1>3 DEF more

\* A whole line more.
LEMMA LineKeeps ==
  ASSUME NEW file \in Seq(Lines), NEW n \in 1..MaxNotes, PmEnd \notin 1..MaxNotes, Closed(file)
  PROVE  LET more == file \o <<n, PmEnd>> IN
         /\ more \in Seq(Lines) /\ Closed(more) /\ Parsed(file) \cup {n} \subseteq Parsed(more)
<1>1. file \o <<n, PmEnd>> = Append(Append(file, n), PmEnd)
  BY DEF Lines
<1> DEFINE line == Append(file, n)
           more == Append(line, PmEnd)
<1>2. line \in Seq(Lines) /\ Parsed(file) \cup {n} \subseteq Parsed(line)
  BY NoteKeeps
<1> HIDE DEF line
<1>3. more \in Seq(Lines) /\ Parsed(line) \subseteq Parsed(more)
  BY <1>2, EndKeeps
<1>4. Len(more) # 0 /\ more[Len(more)] = PmEnd /\ more # << >>
  BY <1>2 DEF Lines
<1> HIDE DEF more
<1>5. Closed(more)
  BY <1>4 DEF Closed, Last
<1>6. QED BY <1>1, <1>2, <1>3, <1>5 DEF more, line


\* What a forgotten note leaves of the file: every other line that parses.
Keeps(file, n, kept, i) ==
    /\ Closed(kept)
    /\ \A j \in 1..i : file[j] \in Parsed(file) \ {n} => file[j] \in Parsed(kept)

LEMMA ForgetKeeps ==
  ASSUME NEW file \in Seq(Lines), NEW n, PmEnd \notin 1..MaxNotes
  PROVE  /\ KeptLines(file, n) \in Seq(Lines)
         /\ Parsed(file) \ {n} \subseteq Parsed(KeptLines(file, n))
<1> DEFINE stays(i) == file[i] \in Parsed(file) \ {n}
           rule == [p \in (1..Len(file)) \X Seq(Lines) |->
                      IF stays(p[1]) THEN p[2] \o <<file[p[1]], PmEnd>> ELSE p[2]]
           Is(f) == f = [i \in 0..Len(file) |->
                           IF i = 0 THEN << >>
                           ELSE IF stays(i) THEN f[i - 1] \o <<file[i], PmEnd>> ELSE f[i - 1]]
<1>1. Len(file) \in Nat /\ << >> \in Seq(Lines) /\ \A i \in 1..Len(file) : file[i] \in Lines
  OBVIOUS
<1>2. \A m \in Parsed(file) : m \in Lines /\ m # PmEnd
  BY <1>1, ParsedAt
<1>3. rule \in [(1..Len(file)) \X Seq(Lines) -> Seq(Lines)]
  <2>1. ASSUME NEW i \in 1..Len(file), NEW kept \in Seq(Lines)
        PROVE  (IF stays(i) THEN kept \o <<file[i], PmEnd>> ELSE kept) \in Seq(Lines)
    <3>1. file[i] \in Lines /\ PmEnd \in Lines
      BY <1>1 DEF Lines
    <3>2. QED BY <3>1
  <2> HIDE DEF stays
  <2>2. QED BY <2>1
<1>4. PICK f \in [0..Len(file) -> Seq(Lines)] : Recurs(f, Len(file), << >>, rule)
  <2> HIDE DEF rule
  <2>1. QED BY <1>1, <1>3, RecursionExists
<1>5. \E h : Is(h)
  <2>1. ASSUME NEW i \in 1..Len(file)
        PROVE  f[i] = IF stays(i) THEN f[i - 1] \o <<file[i], PmEnd>> ELSE f[i - 1]
    <3>1. f[i] = rule[<<i, f[i - 1]>>]
      BY <1>4 DEF Recurs
    <3>2. f[i - 1] \in Seq(Lines)
      BY <1>1
    <3> HIDE DEF stays
    <3>3. QED BY <3>1, <3>2
  <2>2. f[0] = << >>
    BY <1>4 DEF Recurs
  <2> HIDE DEF stays
  <2>3. f = [i \in 0..Len(file) |->
               IF i = 0 THEN << >>
               ELSE IF stays(i) THEN f[i - 1] \o <<file[i], PmEnd>> ELSE f[i - 1]]
    <3>1. f = [i \in 0..Len(file) |-> f[i]]
      OBVIOUS
    <3>2. ASSUME NEW i \in 0..Len(file)
          PROVE  f[i] = IF i = 0 THEN << >>
                        ELSE IF stays(i) THEN f[i - 1] \o <<file[i], PmEnd>> ELSE f[i - 1]
      <4>1. CASE i = 0
        BY <2>2, <4>1
      <4>2. CASE i # 0
        <5>1. i \in 1..Len(file)
          BY <1>1, <4>2
        <5>2. QED BY <2>1, <4>2, <5>1
      <4>3. QED BY <4>1, <4>2
    <3>3. QED BY ONLY <3>1, <3>2
  <2>4. QED BY <2>3
<1> DEFINE g == CHOOSE h : Is(h)
<1>6. Is(g)
  <2> HIDE DEF Is
  <2>1. QED BY <1>5
<1>7. KeptLines(file, n) = g[Len(file)]
  BY DEF KeptLines
<1>8. /\ g[0] = << >>
      /\ \A i \in 1..Len(file) :
            g[i] = IF stays(i) THEN g[i - 1] \o <<file[i], PmEnd>> ELSE g[i - 1]
  <2> HIDE DEF stays, g
  <2>1. ASSUME NEW i \in 0..Len(file)
        PROVE  g[i] = IF i = 0 THEN << >>
                      ELSE IF stays(i) THEN g[i - 1] \o <<file[i], PmEnd>> ELSE g[i - 1]
    BY <1>6
  <2>2. 0 \in 0..Len(file) /\ \A i \in 1..Len(file) : i \in 0..Len(file) /\ i # 0
    BY <1>1
  <2>3. g[0] = << >>
    BY <2>1, <2>2
  <2>4. ASSUME NEW i \in 1..Len(file)
        PROVE  g[i] = IF stays(i) THEN g[i - 1] \o <<file[i], PmEnd>> ELSE g[i - 1]
    BY ONLY <2>1, <2>2
  <2>5. QED BY <2>3, <2>4
<1> HIDE DEF g, Is, rule
<1> DEFINE Wrong == {k \in 0..Len(file) : ~(g[k] \in Seq(Lines) /\ Keeps(file, n, g[k], k))}
<1>9. Wrong = {}
  <2> SUFFICES ASSUME Wrong # {} PROVE FALSE
    OBVIOUS
  <2>1. PICK k \in Wrong : \A j \in Wrong : k <= j
    <3>1. Wrong \subseteq Nat
      OBVIOUS
    <3> HIDE DEF Wrong
    <3>2. QED BY <3>1, LeastNatural
  <2>2. k \in 0..Len(file) /\ ~(g[k] \in Seq(Lines) /\ Keeps(file, n, g[k], k))
    OBVIOUS
  <2>3. k # 0
    <3>1. Keeps(file, n, << >>, 0)
      BY DEF Keeps, Closed
    <3>2. QED BY <1>1, <1>8, <2>2, <3>1
  <2>4. k \in 1..Len(file) /\ k - 1 \in 0..Len(file) /\ k - 1 \notin Wrong
    BY <1>1, <2>1, <2>2, <2>3
  <2>5. g[k - 1] \in Seq(Lines) /\ Keeps(file, n, g[k - 1], k - 1)
    BY <2>4
  <2> HIDE DEF Wrong
  <2>6. CASE ~stays(k)
    <3>1. g[k] = g[k - 1]
      BY <1>8, <2>4, <2>6
    <3>2. \A j \in 1..k : j \in 1..(k - 1) \/ j = k
      BY <2>4
    <3>3. QED BY <2>2, <2>5, <2>6, <3>1, <3>2 DEF Keeps
  <2>7. CASE stays(k)
    <3>1. g[k] = g[k - 1] \o <<file[k], PmEnd>>
      BY <1>8, <2>4, <2>7
    <3>2. file[k] \in 1..MaxNotes
      BY <1>2, <2>7 DEF Lines
    <3>3. /\ g[k] \in Seq(Lines) /\ Closed(g[k])
          /\ Parsed(g[k - 1]) \cup {file[k]} \subseteq Parsed(g[k])
      BY <2>5, <3>1, <3>2, LineKeeps DEF Keeps
    <3>4. \A j \in 1..k : j \in 1..(k - 1) \/ j = k
      BY <2>4
    <3>5. QED BY <2>2, <2>5, <3>3, <3>4 DEF Keeps
  <2>8. QED BY <2>6, <2>7
<1>10. g[Len(file)] \in Seq(Lines) /\ Keeps(file, n, g[Len(file)], Len(file))
  BY <1>1, <1>9
<1>11. ASSUME NEW m \in Parsed(file) \ {n} PROVE m \in Parsed(g[Len(file)])
  <2>1. PICK j \in 1..Len(file) : file[j] = m
    BY ParsedAt
  <2>2. QED BY <1>10, <2>1 DEF Keeps
<1>12. QED BY <1>7, <1>10, <1>11

-----------------------------------------------------------------------------
\* What a process is doing: a line it has begun is read back or was crossed.
DoingInv(doing, notes, crossed) ==
    doing # Idle =>
       /\ doing.note \in 1..MaxNotes
       /\ doing.what \in {"append", "forget"}
       /\ doing.what = "append" /\ doing.note \notin crossed => doing.note \in Parsed(notes)
       /\ doing.what = "forget" => doing.held \in Seq(Lines)

NotesInv ==
    /\ pmNotes \in Seq(Lines) /\ NotesKept
    /\ pmDoing = [u \in PmUsers |-> pmDoing[u]]
    /\ \A u \in PmUsers : DoingInv(pmDoing[u], pmNotes, pmCrossed)

LEMMA InitNotes == NotesInit => NotesInv
<1> SUFFICES ASSUME NotesInit PROVE NotesInv
  OBVIOUS
<1>1. pmNotes = << >> /\ pmSaid = {} /\ pmDoing = [u \in PmUsers |-> Idle]
  BY DEF NotesInit
<1>2. QED BY <1>1 DEF NotesInv, DoingInv, NotesKept

\* Notes that are kept keep what the processes are doing.
LEMMA DoingStays ==
  ASSUME NEW doing, NEW notes, NEW crossed, NEW notes2, NEW crossed2,
         DoingInv(doing, notes, crossed), crossed \subseteq crossed2,
         Parsed(notes) \ crossed2 \subseteq Parsed(notes2)
  PROVE  DoingInv(doing, notes2, crossed2)
  BY DEF DoingInv

LEMMA NextNotes == NotesInv /\ [NotesNext]_pmNoteVars => NotesInv'
<1> SUFFICES ASSUME NotesInv, [NotesNext]_pmNoteVars PROVE NotesInv'
  OBVIOUS
<1>0. /\ pmNotes \in Seq(Lines) /\ pmSaid \ pmCrossed \subseteq Parsed(pmNotes)
      /\ pmDoing = [u \in PmUsers |-> pmDoing[u]]
      /\ \A u \in PmUsers : DoingInv(pmDoing[u], pmNotes, pmCrossed)
  BY DEF NotesInv, NotesKept
<1>e. PmEnd \notin 1..MaxNotes
  BY MemoryAssumption
\* One process does something, and what the notes said they still say.
<1>s. ASSUME NEW u \in PmUsers, NEW doing, pmDoing' = [pmDoing EXCEPT ![u] = doing],
             pmNotes' \in Seq(Lines), pmCrossed \subseteq pmCrossed',
             Parsed(pmNotes) \ pmCrossed' \subseteq Parsed(pmNotes'),
             DoingInv(doing, pmNotes', pmCrossed'),
             pmSaid' \ pmCrossed' \subseteq Parsed(pmNotes) \cup Parsed(pmNotes')
      PROVE  NotesInv'
  <2>1. pmSaid' \ pmCrossed' \subseteq Parsed(pmNotes')
    BY <1>s
  <2>2. pmDoing' = [v \in PmUsers |-> pmDoing'[v]]
    BY <1>0, <1>s
  <2>3. ASSUME NEW v \in PmUsers PROVE DoingInv(pmDoing'[v], pmNotes', pmCrossed')
    <3>1. CASE v = u
      BY <1>0, <1>s, <3>1
    <3>2. CASE v # u
      <4>1. pmDoing'[v] = pmDoing[v] /\ DoingInv(pmDoing[v], pmNotes, pmCrossed)
        BY <1>0, <1>s, <3>2
      <4>2. DoingInv(pmDoing[v], pmNotes', pmCrossed')
        BY <1>s, <4>1, DoingStays
      <4>3. QED BY <4>1, <4>2
    <3>3. QED BY <3>1, <3>2
  <2>4. QED BY <1>s, <2>1, <2>2, <2>3 DEF NotesInv, NotesKept
<1>1. CASE UNCHANGED pmNoteVars
  BY <1>1, <1>0 DEF pmNoteVars, NotesInv, NotesKept
<1>i. \A notes, crossed : DoingInv(Idle, notes, crossed)
  BY DEF DoingInv
<1>2. ASSUME NEW u \in PmUsers, NoteBegins(u) PROVE NotesInv'
  <2> DEFINE n == Cardinality(NotesMade) + 1
             doing == [what |-> "append", note |-> n]
  <2>1. /\ n <= MaxNotes /\ pmNotes' = Append(pmNotes, n)
        /\ pmDoing' = [pmDoing EXCEPT ![u] = doing]
        /\ pmCrossed' = IF LineOpen THEN pmCrossed \cup {n, Last(pmNotes)} ELSE pmCrossed
        /\ pmSaid' = pmSaid
    BY <1>2 DEF NoteBegins
  <2>2. n \in 1..MaxNotes
    <3>1. NotesMade \in SUBSET (1..MaxNotes) /\ 1 \in Int /\ MaxNotes \in Int
      BY MemoryAssumption DEF NotesMade
    <3>2. IsFiniteSet(NotesMade)
      BY <3>1, FS_Interval, FS_Subset
    <3>3. Cardinality(NotesMade) \in Nat
      BY <3>2, FS_CardinalityType
    <3>4. QED BY <2>1, <3>3, MemoryAssumption
  <2>3. LineOpen <=> ~Closed(pmNotes)
    BY DEF LineOpen, Closed
  <2> HIDE DEF n
  <2>4. /\ pmNotes' \in Seq(Lines)
        /\ Closed(pmNotes) => Parsed(pmNotes) \cup {n} \subseteq Parsed(pmNotes')
        /\ ~Closed(pmNotes) => Parsed(pmNotes) \ {Last(pmNotes)} \subseteq Parsed(pmNotes')
    BY <1>0, <1>e, <2>1, <2>2, NoteKeeps
  <2>5. Parsed(pmNotes) \ pmCrossed' \subseteq Parsed(pmNotes') /\ pmCrossed \subseteq pmCrossed'
    BY <2>1, <2>3, <2>4
  <2>6. n \notin pmCrossed' => n \in Parsed(pmNotes')
    BY <2>1, <2>3, <2>4
  <2>7. DoingInv(doing, pmNotes', pmCrossed')
    <3>1. doing.note = n /\ doing.what = "append"
      OBVIOUS
    <3> HIDE DEF doing
    <3>2. QED BY <2>2, <2>6, <3>1 DEF DoingInv
  <2> HIDE DEF doing
  <2>8. QED BY <1>0, <1>s, <2>1, <2>4, <2>5, <2>7
<1>3. ASSUME NEW u \in PmUsers, NoteEnds(u) PROVE NotesInv'
  <2>1. /\ pmDoing[u] # Idle /\ pmDoing[u].what = "append" /\ pmNotes' = Append(pmNotes, PmEnd)
        /\ pmSaid' = pmSaid \cup {pmDoing[u].note} /\ pmCrossed' = pmCrossed
        /\ pmDoing' = [pmDoing EXCEPT ![u] = Idle]
    BY <1>3 DEF NoteEnds
  <2>2. pmNotes' \in Seq(Lines) /\ Parsed(pmNotes) \subseteq Parsed(pmNotes')
    BY <1>0, <2>1, EndKeeps
  <2>3. pmDoing[u].note \in pmCrossed \cup Parsed(pmNotes)
    BY <1>0, <2>1 DEF DoingInv
  <2>4. QED BY <1>0, <1>i, <1>s, <2>1, <2>2, <2>3
<1>4. ASSUME NEW u \in PmUsers, NEW n \in 1..MaxNotes, ForgetLoads(u, n) PROVE NotesInv'
  <2> DEFINE doing == [what |-> "forget", note |-> n, held |-> pmNotes]
  <2>1. pmDoing' = [pmDoing EXCEPT ![u] = doing] /\ UNCHANGED <<pmNotes, pmSaid, pmCrossed>>
    BY <1>4 DEF ForgetLoads
  <2>2. doing.note = n /\ doing.what = "forget" /\ doing.held = pmNotes
    OBVIOUS
  <2> HIDE DEF doing
  <2>3. DoingInv(doing, pmNotes', pmCrossed')
    BY <1>0, <2>1, <2>2 DEF DoingInv
  <2>4. QED BY <1>0, <1>s, <2>1, <2>3
<1>5. ASSUME NEW u \in PmUsers, ForgetWrites(u) PROVE NotesInv'
  <2> DEFINE doing == pmDoing[u]
  <2>1. /\ doing # Idle /\ doing.what = "forget"
        /\ pmNotes' = KeptLines(doing.held, doing.note)
        /\ pmCrossed' = pmCrossed \cup {doing.note} \cup
             {m \in Range(pmNotes) : m # PmEnd /\ m \notin Parsed(doing.held)}
        /\ pmDoing' = [pmDoing EXCEPT ![u] = Idle] /\ pmSaid' = pmSaid
    BY <1>5 DEF ForgetWrites
  <2>2. doing.held \in Seq(Lines)
    BY <1>0, <2>1 DEF DoingInv
  <2>3. pmNotes' \in Seq(Lines) /\ Parsed(doing.held) \ {doing.note} \subseteq Parsed(pmNotes')
    BY <1>e, <2>1, <2>2, ForgetKeeps
  <2>4. \A m \in Parsed(pmNotes) : m \in Range(pmNotes) /\ m # PmEnd
    BY DEF Parsed, Range
  <2>5. Parsed(pmNotes) \ pmCrossed' \subseteq Parsed(pmNotes')
    BY <2>1, <2>3, <2>4
  <2>6. QED BY <1>0, <1>i, <1>s, <2>1, <2>3, <2>5
<1>6. ASSUME NEW u \in PmUsers, ForgetAll(u) PROVE NotesInv'
  <2>1. /\ pmDoing[u] = Idle /\ pmNotes' = << >> /\ UNCHANGED <<pmDoing, pmSaid>>
        /\ pmCrossed' = pmCrossed \cup {m \in Range(pmNotes) : m # PmEnd}
    BY <1>6 DEF ForgetAll
  <2>2. \A m \in Parsed(pmNotes) : m \in Range(pmNotes) /\ m # PmEnd
    BY DEF Parsed, Range
  <2>3. pmDoing' = [pmDoing EXCEPT ![u] = Idle]
    BY <1>0, <2>1
  <2>4. QED BY <1>0, <1>i, <1>s, <2>1, <2>2, <2>3
<1>7. ASSUME NEW u \in PmUsers, UserIsKilled(u) PROVE NotesInv'
  <2>1. pmDoing' = [pmDoing EXCEPT ![u] = Idle] /\ UNCHANGED <<pmNotes, pmSaid, pmCrossed>>
    BY <1>7 DEF UserIsKilled
  <2>2. QED BY <1>0, <1>i, <1>s, <2>1
<1>8. QED BY <1>1, <1>2, <1>3, <1>4, <1>5, <1>6, <1>7 DEF NotesNext

\* However files change around and during builds, builds are killed and indexes
\* cleared, and however many processes append, forget and are killed: an index that
\* is called fresh holds the files as they are, one built in peace is fresh, and a
\* remembered note is read back until it is forgotten.
THEOREM MemoryAlwaysTrue == PmSpec => []MemoryTrue
<1>1. PmInit => IndexInv /\ NotesInv
  BY InitIndex, InitNotes DEF PmInit
<1>2. IndexInv /\ NotesInv /\ [PmNext]_pmVars => IndexInv' /\ NotesInv'
  <2> SUFFICES ASSUME IndexInv, NotesInv, [PmNext]_pmVars PROVE IndexInv' /\ NotesInv'
    OBVIOUS
  <2>1. IndexNext => UNCHANGED pmNoteVars
    BY DEF IndexNext, SecondPasses, BuildBegins, TurnChangedFiles, ReadFile, SaveIndex,
           BuildIsKilled, ClearIndex, FileChanges, Visit
  <2>2. NotesNext => UNCHANGED pmIndexVars
    BY DEF NotesNext, NoteBegins, NoteEnds, ForgetLoads, ForgetWrites, ForgetAll, UserIsKilled
  <2>3. [IndexNext]_pmIndexVars /\ [NotesNext]_pmNoteVars
    BY <2>1, <2>2 DEF PmNext, pmVars
  <2>4. QED BY <2>3, NextIndex, NextNotes
<1>3. IndexInv /\ NotesInv => MemoryTrue
  BY IndexHolds DEF MemoryTrue, NotesInv
<1>4. QED BY <1>1, <1>2, <1>3, PTL DEF PmSpec

-----------------------------------------------------------------------------
(* LineEditor: the prompt and the lists, whatever keys are pressed.         *)

\* What holds at the beginning and from one step to the next holds up to n.
LEMMA StaysWithin ==
  ASSUME NEW S, NEW g, NEW n \in Nat, g[0] \in S,
         \A i \in 1..n : g[i - 1] \in S => g[i] \in S
  PROVE  g[n] \in S
<1> DEFINE Outside == {k \in 0..n : g[k] \notin S}
<1>1. Outside = {}
  <2> SUFFICES ASSUME Outside # {} PROVE FALSE
    OBVIOUS
  <2>1. PICK k \in Outside : \A j \in Outside : k <= j
    <3>1. Outside \subseteq Nat
      OBVIOUS
    <3> HIDE DEF Outside
    <3>2. QED BY <3>1, LeastNatural
  <2>2. k \in 1..n /\ k - 1 \in 0..n /\ k - 1 \notin Outside
    BY <2>1
  <2>3. QED BY <2>2
<1>2. QED BY <1>1

Begun(line, name) == IsPrefix(line, name) /\ \E j \in 1..Len(LeCommands) : name = LeCommands[j]

LEMMA FoundIsBegun ==
  ASSUME NEW line
  PROVE  /\ Matching(line) \in Seq(Seq(Chars))
         /\ \A i \in 1..Len(Matching(line)) : Begun(line, Matching(line)[i])
<1> DEFINE S == {t \in Seq(Seq(Chars)) : \A i \in 1..Len(t) : Begun(line, t[i])}
           grown(t, i) == IF IsPrefix(line, LeCommands[i]) THEN Append(t, LeCommands[i]) ELSE t
           rule == [p \in (1..Len(LeCommands)) \X S |-> grown(p[2], p[1])]
           Is(f) == f = [i \in 0..Len(LeCommands) |->
                           IF i = 0 THEN << >>
                           ELSE IF IsPrefix(line, LeCommands[i]) THEN Append(f[i - 1], LeCommands[i])
                           ELSE f[i - 1]]
<1>1. /\ Len(LeCommands) \in Nat /\ << >> \in S
      /\ \A i \in 1..Len(LeCommands) : LeCommands[i] \in Seq(Chars)
  BY LineAssumption
<1>2. ASSUME NEW t \in S, NEW i \in 1..Len(LeCommands) PROVE grown(t, i) \in S
  <2>1. CASE IsPrefix(line, LeCommands[i])
    <3> DEFINE more == Append(t, LeCommands[i])
    <3>1. /\ more \in Seq(Seq(Chars)) /\ Len(more) = Len(t) + 1 /\ Len(t) \in Nat
          /\ \A j \in 1..Len(t) : more[j] = t[j]
          /\ more[Len(t) + 1] = LeCommands[i]
      BY <1>1
    <3>2. Begun(line, LeCommands[i])
      BY <2>1 DEF Begun
    <3> HIDE DEF more
    <3>3. \A j \in 1..Len(more) : Begun(line, more[j])
      <4>1. ASSUME NEW j \in 1..Len(more) PROVE j \in 1..Len(t) \/ j = Len(t) + 1
        BY <3>1
      <4>2. QED BY <3>1, <3>2, <4>1
    <3>4. more \in S
      BY <3>1, <3>3
    <3>5. QED BY <2>1, <3>4 DEF more
  <2>2. CASE ~IsPrefix(line, LeCommands[i])
    BY <2>2
  <2>3. QED BY <2>1, <2>2
<1> HIDE DEF S, grown
<1>3. rule \in [(1..Len(LeCommands)) \X S -> S]
  BY <1>2
<1>4. PICK f \in [0..Len(LeCommands) -> S] : Recurs(f, Len(LeCommands), << >>, rule)
  <2> HIDE DEF rule
  <2>1. QED BY <1>1, <1>3, RecursionExists
<1>5. \E h : Is(h)
  <2>1. ASSUME NEW i \in 0..Len(LeCommands)
        PROVE  f[i] = IF i = 0 THEN << >>
                      ELSE IF IsPrefix(line, LeCommands[i]) THEN Append(f[i - 1], LeCommands[i])
                      ELSE f[i - 1]
    <3>1. CASE i = 0
      BY <1>4, <3>1 DEF Recurs
    <3>2. CASE i # 0
      <4>1. i \in 1..Len(LeCommands) /\ i - 1 \in 0..Len(LeCommands)
        BY <1>1, <3>2
      <4>2. f[i] = rule[<<i, f[i - 1]>>] /\ f[i - 1] \in S
        BY <1>4, <4>1 DEF Recurs
      <4>3. f[i] = grown(f[i - 1], i)
        BY <4>1, <4>2
      <4>4. QED BY <3>2, <4>3 DEF grown
    <3>3. QED BY <3>1, <3>2
  <2>2. f = [i \in 0..Len(LeCommands) |-> f[i]]
    OBVIOUS
  <2>3. f = [i \in 0..Len(LeCommands) |->
               IF i = 0 THEN << >>
               ELSE IF IsPrefix(line, LeCommands[i]) THEN Append(f[i - 1], LeCommands[i])
               ELSE f[i - 1]]
    BY ONLY <2>1, <2>2
  <2>4. QED BY <2>3
<1> DEFINE g == CHOOSE h : Is(h)
<1>6. Is(g)
  <2> HIDE DEF Is
  <2>1. QED BY <1>5
<1>7. Matching(line) = g[Len(LeCommands)]
  BY DEF Matching
<1>8. g[0] \in S /\ \A i \in 1..Len(LeCommands) : g[i - 1] \in S => g[i] \in S
  <2> HIDE DEF g
  <2>1. ASSUME NEW i \in 0..Len(LeCommands)
        PROVE  g[i] = IF i = 0 THEN << >>
                      ELSE IF IsPrefix(line, LeCommands[i]) THEN Append(g[i - 1], LeCommands[i])
                      ELSE g[i - 1]
    BY <1>6
  <2>2. 0 \in 0..Len(LeCommands) /\ \A i \in 1..Len(LeCommands) : i \in 0..Len(LeCommands) /\ i # 0
    BY <1>1
  <2>3. g[0] = << >>
    BY <2>1, <2>2
  <2>4. ASSUME NEW i \in 1..Len(LeCommands) PROVE g[i] = grown(g[i - 1], i)
    BY ONLY <2>1, <2>2 DEF grown
  <2>5. QED BY <1>1, <1>2, <2>3, <2>4
<1> HIDE DEF g, Is, rule
<1>9. g[Len(LeCommands)] \in S
  BY <1>1, <1>8, StaysWithin
<1>10. QED BY <1>7, <1>9 DEF S

\* The menu holds names that the line begins; an accepted name closes it.
LEMMA MenuHolds ==
  ASSUME NEW line, NEW cursor, NEW shut
  PROVE  /\ Completions(line, cursor, shut) \in Seq(Seq(Chars))
         /\ Completions(line, cursor, shut) # << >> =>
               cursor = Len(line) /\ Completions(line, cursor, shut) = Completions(line, Len(line), FALSE)
<1>1. Matching(line) \in Seq(Seq(Chars)) /\ << >> \in Seq(Seq(Chars))
  BY FoundIsBegun
<1>2. QED BY <1>1 DEF Completions

LEMMA SpaceCloses ==
  ASSUME NEW name \in Seq(Chars), NEW cursor, NEW shut
  PROVE  Completions(Append(name, Space), cursor, shut) = << >>
<1> DEFINE line == Append(name, Space)
<1>1. line \in Seq(Chars) /\ Len(line) = Len(name) + 1 /\ Len(name) \in Nat /\ line[Len(line)] = Space
  BY DEF Chars
<1> HIDE DEF line
<1>2. Matching(line) = << >>
  <2> SUFFICES ASSUME Matching(line) # << >> PROVE FALSE
    OBVIOUS
  <2>1. Len(Matching(line)) \in Nat /\ Len(Matching(line)) # 0
    BY FoundIsBegun
  <2>2. 1 \in 1..Len(Matching(line))
    BY <2>1
  <2>3. Begun(line, Matching(line)[1])
    BY <2>2, FoundIsBegun
  <2>4. PICK j \in 1..Len(LeCommands) : IsPrefix(line, LeCommands[j])
    BY <2>3 DEF Begun
  <2>5. LeCommands[j] \in Seq(Chars) /\ Space \notin Range(LeCommands[j])
    BY LineAssumption
  <2>6. Len(line) <= Len(LeCommands[j])
        /\ SubSeq(line, 1, Len(line)) = SubSeq(LeCommands[j], 1, Len(line))
    BY <2>4 DEF IsPrefix
  <2>7. Len(line) \in 1..Len(line) /\ Len(line) \in 1..Len(LeCommands[j])
    BY <1>1, <2>5, <2>6
  <2>8. /\ SubSeq(line, 1, Len(line))[Len(line)] = line[Len(line)]
        /\ SubSeq(LeCommands[j], 1, Len(line))[Len(line)] = LeCommands[j][Len(line)]
    BY <1>1, <2>5, <2>7
  <2>9. LeCommands[j][Len(line)] = Space
    BY <1>1, <2>6, <2>8
  <2>10. QED BY <2>5, <2>7, <2>9 DEF Range
<1>3. Completions(line, cursor, shut) = << >>
  BY <1>2 DEF Completions
<1>4. QED BY <1>3 DEF line

\* Lines that are edited are lines.
LEMMA LineEdits ==
  ASSUME NEW line \in Seq(Chars)
  PROVE  /\ \A c \in Chars, i \in 0..Len(line) :
               InsertAt(line, i + 1, c) \in Seq(Chars) /\ Len(InsertAt(line, i + 1, c)) = Len(line) + 1
         /\ \A i \in 1..Len(line) :
               RemoveAt(line, i) \in Seq(Chars) /\ Len(RemoveAt(line, i)) = Len(line) - 1
<1>1. ASSUME NEW c \in Chars, NEW i \in 0..Len(line)
      PROVE  InsertAt(line, i + 1, c) \in Seq(Chars) /\ Len(InsertAt(line, i + 1, c)) = Len(line) + 1
  <2>1. /\ SubSeq(line, 1, i) \in Seq(Chars) /\ Len(SubSeq(line, 1, i)) = i
        /\ SubSeq(line, i + 1, Len(line)) \in Seq(Chars)
        /\ Len(SubSeq(line, i + 1, Len(line))) = Len(line) - i
    OBVIOUS
  <2>2. <<c>> \in Seq(Chars) /\ Len(<<c>>) = 1 /\ (i + 1) - 1 = i
    OBVIOUS
  <2> DEFINE a == SubSeq(line, 1, i)
             b == SubSeq(line, i + 1, Len(line))
  <2> HIDE DEF a, b
  <2>3. a \in Seq(Chars) /\ b \in Seq(Chars) /\ Len(a) = i /\ Len(b) = Len(line) - i
    BY <2>1 DEF a, b
  <2>4. a \o <<c>> \o b \in Seq(Chars) /\ Len(a \o <<c>> \o b) = Len(line) + 1
    BY <2>2, <2>3
  <2>5. QED BY <2>2, <2>4 DEF InsertAt, a, b
<1>2. ASSUME NEW i \in 1..Len(line)
      PROVE  RemoveAt(line, i) \in Seq(Chars) /\ Len(RemoveAt(line, i)) = Len(line) - 1
  <2> DEFINE a == SubSeq(line, 1, i - 1)
             b == SubSeq(line, i + 1, Len(line))
  <2>1. /\ a \in Seq(Chars) /\ Len(a) = i - 1
        /\ b \in Seq(Chars) /\ Len(b) = Len(line) - i
    OBVIOUS
  <2> HIDE DEF a, b
  <2>2. a \o b \in Seq(Chars) /\ Len(a \o b) = Len(line) - 1
    BY <2>1
  <2>3. QED BY <2>2 DEF RemoveAt, a, b
<1>3. QED BY <1>1, <1>2

LEMMA WordsWithin ==
  ASSUME NEW line \in Seq(Chars), NEW cursor \in 0..Len(line)
  PROVE  PrevWord(line, cursor) \in 0..Len(line) /\ NextWord(line, cursor) \in 0..Len(line)
<1>1. PrevWord(line, cursor) \in 0..Len(line)
  <2> DEFINE starts == {i \in 1..cursor : line[i] # Space /\ (i = 1 \/ line[i - 1] = Space)}
  <2>1. CASE starts = {}
    BY <2>1 DEF PrevWord
  <2>2. CASE starts # {}
    <3> DEFINE last == CHOOSE i \in starts : \A j \in starts : j <= i
    <3>1. \E i \in starts : \A j \in starts : j <= i
      <4>1. starts \in SUBSET (0..cursor) /\ cursor \in Nat
        OBVIOUS
      <4> HIDE DEF starts
      <4>2. Max(starts) \in starts /\ \A j \in starts : j <= Max(starts)
        BY <2>2, <4>1, GreatestNatural
      <4>3. QED BY <4>2
    <3>2. last \in starts
      <4> HIDE DEF starts
      <4>1. QED BY <3>1
    <3>3. last \in 1..cursor
      BY <3>2
    <3>4. PrevWord(line, cursor) = last - 1
      BY <2>2 DEF PrevWord
    <3> HIDE DEF last
    <3>5. QED BY <3>3, <3>4
  <2>3. QED BY <2>1, <2>2
<1>2. NextWord(line, cursor) \in 0..Len(line)
  <2> DEFINE starts == {i \in (cursor + 2)..Len(line) : line[i] # Space /\ line[i - 1] = Space}
  <2>1. CASE starts = {}
    BY <2>1 DEF NextWord
  <2>2. CASE starts # {}
    <3> DEFINE next == CHOOSE i \in starts : \A j \in starts : i <= j
    <3>1. \E i \in starts : \A j \in starts : i <= j
      <4>1. starts \subseteq Nat
        OBVIOUS
      <4> HIDE DEF starts
      <4>2. QED BY <2>2, <4>1, LeastNatural
    <3>2. next \in starts
      <4> HIDE DEF starts
      <4>1. QED BY <3>1
    <3>3. next \in (cursor + 2)..Len(line)
      BY <3>2
    <3>4. NextWord(line, cursor) = next - 1
      BY <2>2 DEF NextWord
    <3> HIDE DEF next
    <3>5. QED BY <3>3, <3>4
  <2>3. QED BY <2>1, <2>2
<1>3. QED BY <1>1, <1>2

\* The history: no line twice in a row, and no more than its limit.
Tidy(history) ==
    /\ history \in Seq(Seq(Chars)) /\ Len(history) <= MaxKept
    /\ \A i \in 1..(Len(history) - 1) : history[i] # history[i + 1]

LEMMA PushedIsTidy ==
  ASSUME NEW history, NEW line \in Seq(Chars), Tidy(history)
  PROVE  Tidy(Pushed(history, line))
<1> DEFINE all == Append(history, line)
           start == Len(all) - Smaller(Len(all), MaxKept) + 1
           kept == SubSeq(all, start, Len(all))
<1>1. history \in Seq(Seq(Chars)) /\ Len(history) \in Nat /\ MaxKept \in Nat
  BY LineAssumption DEF Tidy
<1>2. CASE Range(line) \subseteq {Space} \/ (history # << >> /\ Last(history) = line)
  BY <1>2 DEF Pushed
<1>3. CASE ~(Range(line) \subseteq {Space} \/ (history # << >> /\ Last(history) = line))
  <2>1. Pushed(history, line) = kept
    BY <1>3 DEF Pushed
  <2>2. /\ all \in Seq(Seq(Chars)) /\ Len(all) = Len(history) + 1
        /\ \A i \in 1..Len(history) : all[i] = history[i]
        /\ all[Len(history) + 1] = line
    BY <1>1
  <2>3. Len(history) # 0 => history[Len(history)] # line
    BY <1>1, <1>3 DEF Last
  <2> HIDE DEF all
  <2>4. ASSUME NEW i \in 1..(Len(all) - 1) PROVE all[i] # all[i + 1]
    <3>1. CASE i = Len(history)
      BY <2>2, <2>3, <3>1
    <3>2. CASE i # Len(history)
      <4>1. i \in 1..(Len(history) - 1) /\ i \in 1..Len(history) /\ i + 1 \in 1..Len(history)
        BY <1>1, <2>2, <3>2
      <4>2. all[i] = history[i] /\ all[i + 1] = history[i + 1]
        BY <2>2, <4>1
      <4>3. QED BY <4>1, <4>2 DEF Tidy
    <3>3. QED BY <3>1, <3>2
  <2>5. start \in 1..(Len(all) + 1) /\ Len(all) - start + 1 <= MaxKept
    <3>1. Len(all) \in Nat
      BY <1>1, <2>2
    <3>2. Smaller(Len(all), MaxKept) \in 0..Len(all) /\ Smaller(Len(all), MaxKept) <= MaxKept
      BY <1>1, <3>1 DEF Smaller
    <3>3. QED BY <1>1, <3>1, <3>2
  <2> HIDE DEF start
  <2>6. /\ kept \in Seq(Seq(Chars)) /\ Len(kept) = Len(all) - start + 1
        /\ \A i \in 1..Len(kept) : kept[i] = all[start + i - 1]
    BY <2>2, <2>5
  <2> HIDE DEF kept
  <2>7. ASSUME NEW i \in 1..(Len(kept) - 1) PROVE kept[i] # kept[i + 1]
    <3>1. i \in 1..Len(kept) /\ i + 1 \in 1..Len(kept)
      BY <2>6
    <3>2. kept[i] = all[start + i - 1] /\ kept[i + 1] = all[start + (i + 1) - 1]
      BY <2>6, <3>1
    <3>3. start + i - 1 \in 1..(Len(all) - 1) /\ start + (i + 1) - 1 = (start + i - 1) + 1
      BY <2>2, <2>5, <2>6
    <3>4. QED BY <2>4, <3>2, <3>3
  <2>8. QED BY <2>1, <2>5, <2>6, <2>7 DEF Tidy
<1>4. QED BY <1>2, <1>3


Open == Completions(leLine, Len(leLine), FALSE)

PromptInv ==
    /\ leLine \in Seq(Chars) /\ leCursor \in 0..Len(leLine)
    /\ Tidy(leHistory) /\ leIndex \in 0..Len(leHistory)
    /\ leSel \in Nat /\ (leSel # 0 => leSel < Len(Open))
    /\ leEnters \in 0..1 /\ (leEnters = 1 => Menu = << >>)

LEMMA OpenMenu ==
  Menu \in Seq(Seq(Chars)) /\ (Menu # << >> => Menu = Open /\ Len(Menu) \in Nat \ {0})
<1>1. Menu \in Seq(Seq(Chars)) /\ (Menu # << >> => Menu = Open)
  BY MenuHolds DEF Menu, Open
<1>2. \A m \in Seq(Seq(Chars)) : m # << >> => Len(m) \in Nat \ {0}
  OBVIOUS
<1>3. QED BY ONLY <1>1, <1>2

LEMMA InitPrompt == LeInit => PromptInv
  BY LineAssumption DEF LeInit, PromptInv, Tidy

LEMMA NextPrompt == PromptInv /\ [LeNext]_leVars => PromptInv'
<1> SUFFICES ASSUME PromptInv, [LeNext]_leVars PROVE PromptInv'
  OBVIOUS
<1>0. /\ leLine \in Seq(Chars) /\ leCursor \in 0..Len(leLine) /\ Len(leLine) \in Nat
      /\ Tidy(leHistory) /\ leIndex \in 0..Len(leHistory) /\ Len(leHistory) \in Nat
      /\ leSel \in Nat /\ (leSel # 0 => leSel < Len(Open))
  BY DEF PromptInv, Tidy
<1>m. Menu \in Seq(Seq(Chars)) /\ (Menu # << >> => Menu = Open /\ Len(Menu) \in Nat \ {0})
  BY OpenMenu
<1>k. Key => leEnters' = 0
  BY DEF Key
\* The line is edited, or the cursor, the selected row or the menu moves.
<1>e. ASSUME NEW line \in Seq(Chars), NEW cursor \in 0..Len(line), Edited(line, cursor),
             Tidy(leHistory'), leIndex' \in 0..Len(leHistory'),
             leEnters' = 0 \/ (leEnters' = 1 /\ Menu' = << >>)
      PROVE  PromptInv'
  BY <1>e DEF Edited, PromptInv
<1>n. ASSUME leCursor' \in 0..Len(leLine), leSel' \in Nat, leSel' # 0 => leSel' < Len(Open),
             Key, UNCHANGED <<leLine, leIndex, leHistory>>
      PROVE  PromptInv'
  <2>1. Open' = Open
    BY <1>n DEF Open
  <2>2. QED BY <1>0, <1>k, <1>n, <2>1 DEF PromptInv
<1>s. Menu # << >> => /\ Selected \in Seq(Chars) /\ Len(Selected) \in Nat
                      /\ Accepted \in Seq(Chars) /\ Len(Accepted) \in 0..Len(Accepted)
  <2> SUFFICES ASSUME Menu # << >>
               PROVE  Selected \in Seq(Chars) /\ Accepted \in Seq(Chars)
    OBVIOUS
  <2>1. Smaller(leSel, Len(Menu) - 1) + 1 \in 1..Len(Menu)
    BY <1>0, <1>m DEF Smaller
  <2>2. Selected \in Seq(Chars)
    BY <1>m, <2>1 DEF Selected
  <2>3. QED BY <2>2 DEF Accepted, Chars
<1>h. \A i \in 1..Len(leHistory) : leHistory[i] \in Seq(Chars) /\ Len(leHistory[i]) \in 0..Len(leHistory[i])
  BY <1>0 DEF Tidy
<1>1. CASE UNCHANGED leVars
  <2>1. UNCHANGED <<leLine, leCursor, leIndex, leSel, leShut, leHistory, leEnters>>
    BY <1>1 DEF leVars
  <2>2. Open' = Open /\ Menu' = Menu
    BY <2>1 DEF Open, Menu
  <2>3. QED BY <2>1, <2>2 DEF PromptInv
<1>2. ASSUME NEW c \in Chars, Type(c) PROVE PromptInv'
  <2>1. /\ Key /\ Edited(InsertAt(leLine, leCursor + 1, c), leCursor + 1)
        /\ UNCHANGED <<leIndex, leHistory>>
    BY <1>2 DEF Type
  <2>2. /\ InsertAt(leLine, leCursor + 1, c) \in Seq(Chars)
        /\ Len(InsertAt(leLine, leCursor + 1, c)) = Len(leLine) + 1
    BY <1>0, LineEdits
  <2>3. leCursor + 1 \in 0..(Len(leLine) + 1)
    BY <1>0
  <2>4. QED BY <1>0, <1>e, <1>k, <2>1, <2>2, <2>3
<1>3. CASE Backspace
  <2>1. /\ leCursor > 0 /\ Key /\ Edited(RemoveAt(leLine, leCursor), leCursor - 1)
        /\ UNCHANGED <<leIndex, leHistory>>
    BY <1>3 DEF Backspace
  <2>2. leCursor \in 1..Len(leLine) /\ leCursor - 1 \in 0..(Len(leLine) - 1)
    BY <1>0, <2>1
  <2>3. /\ RemoveAt(leLine, leCursor) \in Seq(Chars)
        /\ Len(RemoveAt(leLine, leCursor)) = Len(leLine) - 1
    BY <1>0, <2>2, LineEdits
  <2>4. QED BY <1>0, <1>e, <1>k, <2>1, <2>2, <2>3
<1>4. CASE Escape
  BY <1>0, <1>4, <1>n DEF Escape
<1>5. ASSUME NEW cursor \in 0..Len(leLine), Moved(cursor) PROVE PromptInv'
  BY <1>0, <1>5, <1>n DEF Moved
<1>6. CASE LeftKey
  <2>1. Moved(leCursor - 1) /\ leCursor - 1 \in 0..Len(leLine)
    BY <1>0, <1>6 DEF LeftKey
  <2>2. QED BY <1>5, <2>1
<1>7. CASE RightKey
  <2>1. CASE leCursor < Len(leLine) /\ Moved(leCursor + 1)
    <3>1. leCursor + 1 \in 0..Len(leLine)
      BY <1>0, <2>1
    <3>2. QED BY <1>5, <2>1, <3>1
  <2>2. CASE Menu # << >> /\ Key /\ Edited(Selected, Len(Selected)) /\ UNCHANGED <<leIndex, leHistory>>
    <3>1. Selected \in Seq(Chars) /\ Len(Selected) \in 0..Len(Selected)
      BY <1>s, <2>2
    <3>2. QED BY <1>0, <1>e, <1>k, <2>2, <3>1
  <2>3. QED BY <1>7, <2>1, <2>2 DEF RightKey
<1>8. CASE WordLeft \/ WordRight
  BY <1>0, <1>5, <1>8, WordsWithin DEF WordLeft, WordRight
<1>9. CASE TabKey
  <2>1. Menu # << >> /\ Key /\ Edited(Accepted, Len(Accepted)) /\ UNCHANGED <<leIndex, leHistory>>
    BY <1>9 DEF TabKey
  <2>2. QED BY <1>0, <1>e, <1>k, <1>s, <2>1
<1>10. CASE UpInMenu
  <2>1. /\ Key /\ leSel' = (IF leSel = 0 THEN 0 ELSE leSel - 1)
        /\ UNCHANGED <<leLine, leCursor, leIndex, leHistory>> /\ Menu # << >>
    BY <1>10 DEF UpInMenu
  <2>2. leSel' \in Nat /\ (leSel' # 0 => leSel' < Len(Open))
    BY <1>0, <1>m, <2>1
  <2>3. QED BY <1>0, <1>n, <2>1, <2>2
<1>11. CASE DownInMenu
  <2>1. /\ Key /\ leSel' = Smaller(leSel + 1, Len(Menu) - 1)
        /\ UNCHANGED <<leLine, leCursor, leIndex, leHistory>> /\ Menu # << >>
    BY <1>11 DEF DownInMenu, RowBelow
  <2>2. leSel' \in Nat /\ (leSel' # 0 => leSel' < Len(Open))
    BY <1>0, <1>m, <2>1 DEF Smaller
  <2>3. QED BY <1>0, <1>n, <2>1, <2>2
<1>12. CASE UpInHistory
  <2> DEFINE older == IF leIndex = 0 THEN 0 ELSE leIndex - 1
  <2>1. /\ leHistory # << >> /\ Key /\ leIndex' = older /\ leHistory' = leHistory
        /\ Edited(leHistory[older + 1], Len(leHistory[older + 1]))
    BY <1>12 DEF UpInHistory
  <2>2. leHistory \in Seq(Seq(Chars)) /\ Len(leHistory) # 0
    BY <1>0, <2>1 DEF Tidy
  <2>3. older \in 0..Len(leHistory) /\ older + 1 \in 1..Len(leHistory)
    BY <1>0, <2>2
  <2> HIDE DEF older
  <2>4. QED BY <1>0, <1>e, <1>h, <1>k, <2>1, <2>3
<1>13. CASE DownInHistory
  <2>1. Key /\ leHistory' = leHistory
    BY <1>13 DEF DownInHistory
  <2>2. CASE leIndex + 1 < Len(leHistory)
    <3>1. leIndex' = leIndex + 1 /\ Edited(leHistory[leIndex + 2], Len(leHistory[leIndex + 2]))
      BY <1>13, <2>2 DEF DownInHistory
    <3>2. leIndex + 2 \in 1..Len(leHistory) /\ leIndex + 1 \in 0..Len(leHistory)
      BY <1>0, <2>2
    <3>3. QED BY <1>0, <1>e, <1>h, <1>k, <2>1, <3>1, <3>2
  <2>3. CASE ~(leIndex + 1 < Len(leHistory))
    <3>1. leIndex' = Len(leHistory) /\ Edited(<< >>, 0)
      BY <1>13, <2>3 DEF DownInHistory
    <3>2. << >> \in Seq(Chars) /\ 0 \in 0..Len(<< >>) /\ Len(leHistory) \in 0..Len(leHistory)
      BY <1>0
    <3>3. QED BY <1>0, <1>e, <1>k, <2>1, <3>1, <3>2
  <2>4. QED BY <2>2, <2>3
<1>14. CASE EnterKey
  <2>1. CASE Menu # << >>
    <3>1. /\ Edited(Accepted, Len(Accepted)) /\ leEnters' = leEnters + 1
          /\ UNCHANGED <<leIndex, leHistory>>
      BY <1>14, <2>1 DEF EnterKey
    <3>2. leEnters' = 1
      BY <2>1, <3>1 DEF PromptInv
    <3>3. Menu' = << >>
      <4>1. Menu' = Completions(Append(Selected, Space), leCursor', leShut')
        BY <3>1 DEF Menu, Edited, Accepted
      <4>2. QED BY <1>s, <2>1, <4>1, SpaceCloses
    <3>4. QED BY <1>0, <1>e, <1>s, <2>1, <3>1, <3>2, <3>3
  <2>2. CASE Menu = << >>
    <3>1. /\ leEnters' = 0 /\ leHistory' = Pushed(leHistory, leLine)
          /\ leIndex' = Len(leHistory') /\ Edited(<< >>, 0)
      BY <1>14, <2>2 DEF EnterKey
    <3>2. Tidy(leHistory')
      BY <1>0, <3>1, PushedIsTidy
    <3>3. leIndex' \in 0..Len(leHistory')
      BY <3>1, <3>2 DEF Tidy
    <3>4. << >> \in Seq(Chars) /\ 0 \in 0..Len(<< >>)
      OBVIOUS
    <3>5. QED BY <1>e, <3>1, <3>2, <3>3, <3>4
  <2>3. QED BY <2>1, <2>2
<1>15. QED
  BY <1>1, <1>2, <1>3, <1>4, <1>6, <1>7, <1>8, <1>9, <1>10, <1>11, <1>12, <1>13, <1>14 DEF LeNext

LEMMA PromptHolds == PromptInv => InBounds /\ EnterGetsThrough /\ HistoryTidy
<1> SUFFICES ASSUME PromptInv PROVE InBounds /\ EnterGetsThrough /\ HistoryTidy
  OBVIOUS
<1>1. Menu # << >> => Menu = Open /\ Len(Menu) \in Nat \ {0}
  BY OpenMenu
<1>2. QED BY <1>1 DEF PromptInv, Tidy, InBounds, EnterGetsThrough, HistoryTidy

-----------------------------------------------------------------------------
Row == [line : {"title", "above", "marked", "option", "more", "hint"}, n : Nat]

\* Only the first line is a title; the row is on the screen.
TitleFirst(frame) ==
    /\ frame \in Seq(Row) /\ Len(frame) \in Nat \ {0}
    /\ \A i \in 1..Len(frame) : frame[i].line = "title" <=> i = 1
NoTitle(lines) == lines \in Seq(Row) /\ \A i \in 1..Len(lines) : lines[i].line # "title"
Shows(frame, row) == \E i \in 1..Len(frame) : frame[i] = row

LEMMA MoreLines ==
  ASSUME NEW frame, NEW lines, TitleFirst(frame), NoTitle(lines)
  PROVE  /\ TitleFirst(frame \o lines)
         /\ \A row : Shows(frame, row) \/ Shows(lines, row) => Shows(frame \o lines, row)
<1> DEFINE both == frame \o lines
<1>1. /\ both \in Seq(Row) /\ Len(both) = Len(frame) + Len(lines)
      /\ Len(frame) \in Nat \ {0} /\ Len(lines) \in Nat
      /\ \A i \in 1..Len(frame) : both[i] = frame[i]
      /\ \A i \in 1..Len(lines) : both[Len(frame) + i] = lines[i]
  BY DEF TitleFirst, NoTitle
<1> HIDE DEF both
<1>2. ASSUME NEW i \in 1..Len(both) PROVE both[i].line = "title" <=> i = 1
  <2>1. CASE i <= Len(frame)
    <3>1. i \in 1..Len(frame) /\ both[i] = frame[i]
      BY <1>1, <2>1
    <3>2. QED BY <3>1 DEF TitleFirst
  <2>2. CASE ~(i <= Len(frame))
    <3>1. PICK k \in 1..Len(lines) : i = Len(frame) + k
      <4>1. i - Len(frame) \in 1..Len(lines) /\ i = Len(frame) + (i - Len(frame))
        BY <1>1, <2>2
      <4>2. QED BY <4>1
    <3>2. both[i] = lines[k] /\ lines[k].line # "title"
      BY <1>1, <3>1 DEF NoTitle
    <3>3. i # 1
      BY <1>1, <2>2
    <3>4. QED BY <3>2, <3>3
  <2>3. QED BY <2>1, <2>2
<1>3. ASSUME NEW row, Shows(frame, row) \/ Shows(lines, row) PROVE Shows(both, row)
  <2>1. CASE Shows(frame, row)
    BY <1>1, <2>1 DEF Shows
  <2>2. CASE Shows(lines, row)
    <3>1. PICK i \in 1..Len(lines) : lines[i] = row
      BY <2>2 DEF Shows
    <3>2. Len(frame) + i \in 1..Len(both) /\ both[Len(frame) + i] = row
      BY <1>1, <3>1
    <3>3. QED BY <3>2 DEF Shows
  <2>3. QED BY <1>3, <2>1, <2>2
<1>4. QED BY <1>1, <1>2, <1>3 DEF both, TitleFirst

LEMMA FrameHolds ==
  ASSUME NEW n \in Nat, NEW sel \in 1..n
  PROVE  TitleFirst(Frame(n, sel)) /\ Shows(Frame(n, sel), [line |-> "marked", n |-> sel])
<1> DEFINE start == WindowStart(n, sel)
           shown == Smaller(n - start, MaxRows)
           marked == [line |-> "marked", n |-> sel]
           title == <<[line |-> "title", n |-> 0]>>
           above == IF start > 0 THEN <<[line |-> "above", n |-> start]>> ELSE << >>
           rows == [i \in 1..shown |-> [line |-> IF start + i = sel THEN "marked" ELSE "option", n |-> start + i]]
           more == IF start + shown < n THEN <<[line |-> "more", n |-> n - start - shown]>> ELSE << >>
           hint == <<[line |-> "hint", n |-> 0]>>
<1>1. start \in 0..n /\ shown \in 0..(n - start) /\ sel - start \in 1..shown
  BY LineAssumption DEF WindowStart, Smaller
<1>2. Frame(n, sel) = title \o above \o rows \o more \o hint
  BY DEF Frame
<1> HIDE DEF start, shown
<1>3. \A row \in Row : row.line # "title" => NoTitle(<<row>>)
  BY DEF NoTitle
<1>4. NoTitle(<< >>)
  BY DEF NoTitle
<1>5. TitleFirst(title)
  BY DEF TitleFirst, Row
<1>6. NoTitle(above)
  <2>1. [line |-> "above", n |-> start] \in Row
    BY <1>1 DEF Row
  <2>2. QED BY <1>3, <1>4, <2>1
<1>7. NoTitle(rows) /\ Shows(rows, marked)
  <2>1. ASSUME NEW i \in 1..shown PROVE rows[i] \in Row /\ rows[i].line # "title"
    <3>1. start + i \in Nat
      BY <1>1
    <3>2. QED BY <3>1 DEF Row
  <2>2. shown \in Nat /\ \A k \in Nat : [1..k -> Row] \subseteq Seq(Row)
    BY <1>1
  <2>3. rows \in [1..shown -> Row]
    BY <2>1
  <2>4. rows \in Seq(Row) /\ Len(rows) = shown
    BY <2>2, <2>3
  <2>5. rows[sel - start] = marked
    BY <1>1
  <2> HIDE DEF rows, marked
  <2>6. QED BY <1>1, <2>1, <2>4, <2>5 DEF NoTitle, Shows
<1>8. NoTitle(more)
  <2>1. start + shown < n => [line |-> "more", n |-> n - start - shown] \in Row
    BY <1>1 DEF Row
  <2>2. QED BY <1>3, <1>4, <2>1
<1>9. NoTitle(hint)
  <2>1. [line |-> "hint", n |-> 0] \in Row
    BY DEF Row
  <2>2. QED BY <1>3, <2>1
<1> HIDE DEF title, above, rows, more, hint, marked
<1>10. TitleFirst(title \o above)
  BY <1>5, <1>6, MoreLines
<1>11. TitleFirst(title \o above \o rows) /\ Shows(title \o above \o rows, marked)
  BY <1>7, <1>10, MoreLines
<1>12. TitleFirst(title \o above \o rows \o more) /\ Shows(title \o above \o rows \o more, marked)
  BY <1>8, <1>11, MoreLines
<1>13. TitleFirst(title \o above \o rows \o more \o hint)
       /\ Shows(title \o above \o rows \o more \o hint, marked)
  BY <1>9, <1>12, MoreLines
<1>14. QED BY <1>2, <1>13 DEF marked

\* The screen holds one frame, that of the row that is highlighted.
ListInv ==
    /\ lmOptions \in 1..MaxOptions /\ lmSel \in 1..lmOptions
    /\ lmScreen = Frame(lmOptions, lmSel) /\ lmPrev = Len(lmScreen)

LEMMA InitList == ListInit => ListInv
<1> SUFFICES ASSUME ListInit PROVE ListInv
  OBVIOUS
<1>1. PICK default \in 1..(MaxOptions + 1) :
        /\ lmSel = Smaller(default, lmOptions)
        /\ lmScreen = Frame(lmOptions, Smaller(default, lmOptions)) /\ lmPrev = Len(lmScreen)
  BY DEF ListInit
<1>2. lmOptions \in 1..MaxOptions /\ Smaller(default, lmOptions) \in 1..lmOptions
  BY LineAssumption DEF ListInit, Smaller
<1>3. QED BY <1>1, <1>2 DEF ListInv

LEMMA NextList == ListInv /\ [ListNext]_lmVars => ListInv'
<1> SUFFICES ASSUME ListInv, [ListNext]_lmVars PROVE ListInv'
  OBVIOUS
<1>0. lmOptions \in Nat /\ lmSel \in 1..lmOptions /\ lmScreen = Frame(lmOptions, lmSel) /\ lmPrev = Len(lmScreen)
  BY LineAssumption DEF ListInv
<1>1. ASSUME NEW sel \in 1..lmOptions, Drawn(sel), lmOptions' = lmOptions PROVE ListInv'
  <2> DEFINE frame == Frame(lmOptions, sel)
             kept == Len(lmScreen) - LinesUp(lmPrev, Len(frame)) - 1
  <2>1. lmScreen' = SubSeq(lmScreen, 1, kept) \o frame /\ lmPrev' = Len(frame) /\ lmSel' = sel
    BY <1>1 DEF Drawn
  <2>2. lmScreen \in Seq(Row) /\ Len(lmScreen) \in Nat \ {0} /\ frame \in Seq(Row)
    BY <1>0, FrameHolds DEF TitleFirst
  <2>3. kept = 0
    BY <1>0, <2>2 DEF LinesUp
  <2> HIDE DEF frame, kept
  <2>4. SubSeq(lmScreen, 1, kept) = << >>
    BY <2>2, <2>3
  <2>5. lmScreen' = frame
    <3>1. << >> \o frame = frame
      BY <2>2, ConcatEmptySeq
    <3>2. QED BY <2>1, <2>4, <3>1
  <2>6. QED BY <1>1, <2>1, <2>5 DEF ListInv, frame
<1>2. CASE UNCHANGED lmVars
  BY <1>2 DEF lmVars, ListInv
<1>3. ASSUME NEW sel \in 1..lmOptions, MoveInList(sel) \/ Chosen(sel) PROVE ListInv'
  BY <1>1, <1>3 DEF MoveInList, Chosen
<1>4. ASSUME NEW d \in DigitRows(lmOptions) PROVE d \in 1..lmOptions
  BY <1>0, <1>4, LineAssumption DEF DigitRows, Smaller
<1>5. /\ (IF lmSel = 1 THEN 1 ELSE lmSel - 1) \in 1..lmOptions /\ Smaller(lmSel + 1, lmOptions) \in 1..lmOptions
      /\ 1 \in 1..lmOptions /\ lmOptions \in 1..lmOptions
  BY <1>0 DEF Smaller
<1>6. CASE LeaveList
  BY <1>6 DEF LeaveList, ListInv
<1>7. CASE EnterInList
  BY <1>0, <1>3, <1>7 DEF EnterInList
<1>8. CASE DigitInList
  BY <1>3, <1>4, <1>8 DEF DigitInList
<1>9. QED BY <1>2, <1>3, <1>5, <1>6, <1>7, <1>8 DEF ListNext

LEMMA ListHolds == ListInv => OneFrame /\ MarkedIsTaken
<1> SUFFICES ASSUME ListInv PROVE OneFrame /\ MarkedIsTaken
  OBVIOUS
<1>1. lmOptions \in Nat /\ lmSel \in 1..lmOptions
  BY LineAssumption DEF ListInv
<1>2. TitleFirst(lmScreen) /\ Shows(lmScreen, [line |-> "marked", n |-> lmSel])
  BY <1>1, FrameHolds DEF ListInv
<1>3. QED BY <1>1, <1>2 DEF ListInv, OneFrame, MarkedIsTaken, TitleFirst, Shows

\* Whatever keys are pressed, in whatever order, for any commands, limits and lists:
\* the cursor, the history's index and the selected row stay within what they point
\* into, Enter gets through, the history is tidy, a list shows one frame and the row
\* that is marked is the one that is taken.
THEOREM EditorAlwaysSound == EditorSpec => []EditorSound
<1>1. LeInit /\ ListInit => PromptInv /\ ListInv
  BY InitPrompt, InitList
<1>2. PromptInv /\ ListInv
        /\ [(LeNext /\ UNCHANGED lmVars) \/ (ListNext /\ UNCHANGED leVars)]_<<leVars, lmVars>>
      => PromptInv' /\ ListInv'
  <2> SUFFICES ASSUME PromptInv, ListInv,
                      [(LeNext /\ UNCHANGED lmVars) \/ (ListNext /\ UNCHANGED leVars)]_<<leVars, lmVars>>
               PROVE  PromptInv' /\ ListInv'
    OBVIOUS
  <2>1. [LeNext]_leVars /\ [ListNext]_lmVars
    OBVIOUS
  <2>2. QED BY <2>1, NextPrompt, NextList
<1>3. PromptInv /\ ListInv => EditorSound
  BY PromptHolds, ListHolds DEF EditorSound
<1>4. QED BY <1>1, <1>2, <1>3, PTL DEF EditorSpec

=============================================================================
