---------------------------- MODULE RuntimeProofs ----------------------------
(***************************************************************************)
(* Proofs about what runs beside a turn and what runs turns: the token of  *)
(* Ctrl-C (CancelToken), the clients of MCP servers and extensions         *)
(* (RpcClient), the dispatch of hooks (HookDispatch), the shell tool       *)
(* (ShellRun), the executor of a plan (RoutedPlan), /fix, /iterate and     *)
(* /auto (TaskLoops), the model of a session (ActiveModel), and the        *)
(* streams of the providers (StreamAssembly).                              *)
(*                                                                         *)
(* Each section has the inductive invariant of one component, the lemmas   *)
(* that its initial states have it and that every action keeps it, and the *)
(* theorem that its specification implies what a run checks of it.         *)
(***************************************************************************)
EXTENDS CancelToken, RpcClient, HookDispatch, ShellRun, RoutedPlan, TaskLoops, ActiveModel,
        StreamAssembly, SequenceTheorems, WellFoundedInduction, TLAPS

-----------------------------------------------------------------------------
(* Least and greatest elements of sets of numbers. *)

LEMMA LeastNatural ==
  ASSUME NEW S, S \subseteq Nat, S # {}
  PROVE  \E m \in S : \A k \in S : m <= k
<1> DEFINE R == {ss \in Nat \X Nat : ss[1] < ss[2]}
<1>1. IsWellFoundedOn(R, Nat)
  BY NatLessThanWellFounded DEF OpToRel
<1>2. \E m \in S : \A k \in S : <<k, m>> \notin R
  <2> HIDE DEF R
  <2> QED
    BY <1>1, WFMin
<1>3. PICK m \in S : \A k \in S : <<k, m>> \notin R
  BY <1>2
<1>4. ASSUME NEW k \in S PROVE m <= k
  <2>1. k \in Nat /\ m \in Nat
    OBVIOUS
  <2>2. ~(k < m)
    BY <1>3, <2>1
  <2> QED
    BY <2>1, <2>2
<1> QED
  BY <1>4

LEMMA GreatestNatural ==
  ASSUME NEW N \in Nat, NEW S, S \subseteq 1..N, S # {}
  PROVE  \E m \in S : \A k \in S : k <= m
<1> DEFINE T == {n \in Nat : \E h \in S : n = N - h}
<1>1. T \subseteq Nat /\ T # {}
  <2>1. PICK h \in S : h \in 1..N
    OBVIOUS
  <2>2. N - h \in T
    BY <2>1
  <2> QED
    BY <2>2
<1>2. PICK t \in T : \A k \in T : t <= k
  <2> HIDE DEF T
  <2> QED
    BY <1>1, LeastNatural
<1>3. PICK m \in S : t = N - m
  OBVIOUS
<1>4. ASSUME NEW k \in S PROVE k <= m
  <2>1. k \in 1..N /\ m \in 1..N
    OBVIOUS
  <2>2. N - k \in T
    BY <2>1
  <2> QED
    BY <1>2, <1>3, <2>1, <2>2
<1> QED
  BY <1>4

-----------------------------------------------------------------------------
(* CancelToken *)

\* Nobody is woken before the flag is up, whoever waits.
THEOREM TokenTypeCorrect == CancelSpec => []CancelTypeOK
<1>1. CancelInit => CancelTypeOK
  BY DEF CancelInit, CancelTypeOK, Waiters
<1>2. CancelTypeOK /\ [CancelNext]_cancelVars => CancelTypeOK'
  <2> SUFFICES ASSUME CancelTypeOK, [CancelNext]_cancelVars PROVE CancelTypeOK'
    OBVIOUS
  <2> USE DEF CancelTypeOK, Move, Over
  <2>1. CASE Swap \/ NotifyWaiters
    <3>1. UNCHANGED <<pc, late>> /\ ctrlC' \in {"ready", "swapped", "done"}
      BY <2>1 DEF Swap, NotifyWaiters
    <3>2. flag' = TRUE /\ (notified' = TRUE \/ UNCHANGED notified)
      BY <2>1 DEF Swap, NotifyWaiters
    <3>3. flag' \in BOOLEAN /\ notified' \in BOOLEAN
      BY <3>2, Zenon
    <3>4. ctrlC' # "ready" /\ (notified' <=> ctrlC' = "done")
      BY <2>1 DEF Swap, NotifyWaiters
    <3> QED
      BY <3>1, <3>2, <3>3, <3>4
  <2>2. ASSUME NEW w \in Waiters, Headers(w) \/ Check(w) \/ Wake(w) PROVE CancelTypeOK'
    BY <2>2 DEF Headers, Check, Wake
  <2>3. ASSUME NEW w \in Waiters, Create(w) PROVE CancelTypeOK'
    BY <2>3 DEF Create
  <2>4. ASSUME NEW w \in Waiters, Chunk(w) \/ ShellExits(w) \/ ShellDeadline(w) PROVE CancelTypeOK'
    BY <2>4 DEF Chunk, ShellExits, ShellDeadline
  <2>5. CASE UNCHANGED cancelVars
    BY <2>5 DEF cancelVars
  <2> QED
    BY <2>1, <2>2, <2>3, <2>4, <2>5 DEF CancelNext
<1> QED
  BY <1>1, <1>2, PTL DEF CancelSpec

-----------------------------------------------------------------------------
(* RpcClient *)

\* A request that was not made has left no trace; a channel that holds something
\* has no entry any more; only what the server read has an answer on its way.
ChannelInv ==
    /\ \A c \in Requests :
        /\ rpcPc[c] = "idle" => c \notin rpcPending /\ rpcSlot[c] = "empty"
        /\ rpcPc[c] # "done" => rpcEnd[c] = "none"
        /\ rpcSlot[c] # "empty" => c \notin rpcPending
        /\ rpcSlot[c] \in Answers => c \in rpcSeen
    /\ \A line \in rpcLines : line[1] \in rpcSeen

RpcInv == RpcSound /\ ChannelInv

LEMMA RpcInvInitially == RpcInit => RpcInv
<1> SUFFICES ASSUME RpcInit PROVE RpcInv
  OBVIOUS
<1> USE RpcAssumption DEF RpcInit
<1>1. RpcTypeOK
  BY DEF RpcTypeOK, Answers
<1>2. WaitersReachable /\ PendingDrains /\ AnsweredByServer
  BY DEF WaitersReachable, PendingDrains, AnsweredByServer, Answers
<1>3. ChannelInv
  BY DEF ChannelInv, Answers
<1> QED
  BY <1>1, <1>2, <1>3 DEF RpcInv, RpcSound

LEMMA RegisterKeeps ==
  ASSUME RpcInv, NEW c \in Requests, Register(c)
  PROVE  RpcInv'
<1> USE RpcAssumption DEF RpcInv, RpcSound, Register, CallerAt, CallerGoto, rpcFixed, rpcServerVars
<1>1. RpcTypeOK'
  BY DEF RpcTypeOK
<1>2. WaitersReachable'
  BY DEF WaitersReachable, RpcTypeOK, ChannelInv
<1>3. PendingDrains' /\ AnsweredByServer'
  BY DEF PendingDrains, AnsweredByServer, RpcTypeOK
<1>4. ChannelInv'
  BY DEF ChannelInv, RpcTypeOK
<1> QED
  BY <1>1, <1>2, <1>3, <1>4

\* What a caller does at stdin.
LEMMA WritingKeeps ==
  ASSUME RpcInv, NEW c \in Requests, LockStdin(c) \/ Write(c) \/ WriteFails(c)
  PROVE  RpcInv'
<1> USE RpcAssumption
        DEF RpcInv, RpcSound, LockStdin, Write, WriteFails, CallerAt, CallerGoto, CallerEnds,
            rpcFixed, rpcServerVars
<1>1. RpcTypeOK'
  BY DEF RpcTypeOK
<1>2. WaitersReachable'
  BY DEF WaitersReachable, RpcTypeOK
<1>3. PendingDrains'
  BY DEF PendingDrains, RpcTypeOK
<1>4. AnsweredByServer'
  BY DEF AnsweredByServer, RpcTypeOK, Answers
<1>5. ChannelInv'
  BY DEF ChannelInv, RpcTypeOK
<1> QED
  BY <1>1, <1>2, <1>3, <1>4, <1>5

\* What it does with its channel.
LEMMA WaitingKeeps ==
  ASSUME RpcInv, NEW c \in Requests, RequestExpires(c) \/ Unregister(c) \/ Receive(c)
  PROVE  RpcInv'
<1> USE RpcAssumption
        DEF RpcInv, RpcSound, RequestExpires, Unregister, Receive, CallerAt, CallerGoto, CallerEnds,
            rpcFixed, rpcServerVars
<1>1. RpcTypeOK'
  BY DEF RpcTypeOK, Answers
<1>2. WaitersReachable'
  BY DEF WaitersReachable, RpcTypeOK
<1>3. PendingDrains'
  BY DEF PendingDrains, RpcTypeOK, ChannelInv
<1>4. AnsweredByServer'
  BY DEF AnsweredByServer, RpcTypeOK, ChannelInv, Answers
<1>5. ChannelInv'
  BY DEF ChannelInv, RpcTypeOK
<1> QED
  BY <1>1, <1>2, <1>3, <1>4, <1>5

LEMMA OpeningKeeps ==
  ASSUME RpcInv, Opening
  PROVE  RpcInv'
<1> USE DEF RpcInv, RpcSound, Opening, Opened, Notified, OpenFails, OpenAs
<1>1. RpcTypeOK'
  BY DEF RpcTypeOK
<1>2. WaitersReachable' /\ PendingDrains' /\ AnsweredByServer'
  BY DEF WaitersReachable, PendingDrains, AnsweredByServer
<1>3. ChannelInv'
  BY DEF ChannelInv
<1> QED
  BY <1>1, <1>2, <1>3

LEMMA DeliverKeeps ==
  ASSUME RpcInv, NEW c \in Requests, NEW answer \in Answers, Deliver(c, answer)
  PROVE  RpcInv'
<1> USE RpcAssumption DEF RpcInv, RpcSound, Deliver, rpcFixed
<1>1. RpcTypeOK'
  BY DEF RpcTypeOK
<1>2. c \in rpcSeen
  BY DEF ChannelInv
<1>3. answer # "empty"
  BY DEF Answers
<1>4. WaitersReachable'
  BY <1>3 DEF WaitersReachable, RpcTypeOK
<1>5. PendingDrains' /\ AnsweredByServer'
  BY DEF PendingDrains, AnsweredByServer
<1>6. ChannelInv'
  BY <1>2, <1>3 DEF ChannelInv, RpcTypeOK
<1> QED
  BY <1>1, <1>4, <1>5, <1>6

LEMMA ReaderEndsKeeps ==
  ASSUME RpcInv, ReaderEnds
  PROVE  RpcInv'
<1> USE RpcAssumption DEF RpcInv, RpcSound, ReaderEnds, rpcFixed
<1>1. RpcTypeOK'
  BY DEF RpcTypeOK
<1>2. WaitersReachable'
  BY DEF WaitersReachable, RpcTypeOK
<1>3. PendingDrains' /\ AnsweredByServer'
  BY DEF PendingDrains, AnsweredByServer
<1>4. ChannelInv'
  BY DEF ChannelInv, RpcTypeOK, Answers
<1> QED
  BY <1>1, <1>2, <1>3, <1>4

LEMMA ServerKeeps ==
  ASSUME RpcInv,
         \/ \E c \in Requests : ServerReads(c)
         \/ \E c \in Requests, a \in Answers : ServerAnswers(c, a)
         \/ \E how \in {"deaf", "mute", "dead"} : ServerStops(how)
         \/ UNCHANGED rpcVars
  PROVE  RpcInv'
<1> USE DEF RpcInv, RpcSound, ServerReads, ServerAnswers, ServerStops, ServerStep, rpcFixed, rpcVars
<1>1. RpcTypeOK'
  BY DEF RpcTypeOK
<1>2. WaitersReachable' /\ PendingDrains'
  BY DEF WaitersReachable, PendingDrains
<1>3. rpcSeen \subseteq rpcSeen' /\ AnsweredByServer'
  BY DEF AnsweredByServer
<1>4. ChannelInv'
  BY <1>3 DEF ChannelInv
<1> QED
  BY <1>1, <1>2, <1>3, <1>4

\* What holds of the table of pending requests, for any number of callers, any
\* room in the pipe and whatever the server does.
THEOREM RpcAlwaysSound == RpcSpec => []RpcSound
<1>1. RpcInit => RpcInv
  BY RpcInvInitially
<1>2. RpcInv /\ [RpcNext]_rpcVars => RpcInv'
  BY RegisterKeeps, WritingKeeps, WaitingKeeps, OpeningKeeps, DeliverKeeps, ReaderEndsKeeps, ServerKeeps
  DEF RpcNext, Caller, Reader
<1>3. RpcInv => RpcSound
  BY DEF RpcInv
<1> QED
  BY <1>1, <1>2, <1>3, PTL DEF RpcSpec
-----------------------------------------------------------------------------
(* HookDispatch *)

HookTypeOK ==
    /\ hkStage \in [Hooks -> {"queued", "stdin", "stdout", "stderr", "wait", "ended"}]
    /\ hkChild \in [Hooks -> {"none", "running", "killed"} \cup ExitCodes]
    /\ hkStray \in [Hooks -> {"none", "group", "escaped"}]
    /\ hkMute \in [Hooks -> BOOLEAN]
    /\ hkSaid \in [Hooks -> {"nothing"} \cup Printed]
    /\ hkRead \in [Hooks -> {"nothing"} \cup Printed]
    /\ hkFailure \in [Hooks -> {"none", "spawn", "timeout"}]

\* A child is there from the spawn on; what failed is over; who has no child, or a
\* killed one, failed.
RunInv ==
    \A h \in Hooks :
        /\ hkStage[h] \in {"stdin", "stdout", "stderr", "wait"} => hkChild[h] # "none"
        /\ hkStage[h] = "queued" => hkChild[h] = "none"
        /\ hkStage[h] = "ended" /\ hkChild[h] = "none" => hkFailure[h] = "spawn"
        /\ hkFailure[h] # "none" => hkStage[h] = "ended"
        /\ hkChild[h] = "killed" => hkFailure[h] = "timeout"

\* An outcome is that of all the runs, and nothing it is made of changes any more.
OutcomeInv ==
    hkOutcome # {} => hkOutcome = {Outcome} /\ \A h \in Hooks : hkStage[h] = "ended"

HookInv == HookTypeOK /\ RunInv /\ NoStrays /\ OutcomeInv

LEMMA HookInvInitially == HookInit => HookInv
<1> SUFFICES ASSUME HookInit PROVE HookInv
  OBVIOUS
<1>1. HookTypeOK
  BY DEF HookInit, HookTypeOK
<1> QED
  BY <1>1 DEF HookInit, HookInv, RunInv, NoStrays, OutcomeInv

\* An outcome depends on what was read, how the children ended and what failed.
LEMMA OutcomeStays ==
  ASSUME UNCHANGED <<hkEvent, hkRead, hkChild, hkFailure>>
  PROVE  Outcome' = Outcome
  BY DEF Outcome, Effective, FailClosed, Gating, Effect, Rewrites, LastOf

\* While a run is not over there is no outcome.
LEMMA NoOutcomeYet ==
  ASSUME OutcomeInv, NEW h \in Hooks, hkStage[h] # "ended", UNCHANGED hkOutcome
  PROVE  OutcomeInv'
  BY DEF OutcomeInv

LEMMA RunnerKeeps ==
  ASSUME HookInv, NEW h \in Hooks, Runner(h) \/ StdinWritten(h)
  PROVE  HookInv'
<1> USE HookAssumption DEF HookInv, Stage, hkProcess
<1>1. CASE Spawn(h)
  <2> USE <1>1 DEF Spawn
  <2>1. HookTypeOK' /\ hkStage[h] = "queued"
    BY DEF HookTypeOK
  <2>2. RunInv' /\ NoStrays'
    BY DEF RunInv, NoStrays, HookTypeOK
  <2> QED
    BY <2>1, <2>2, NoOutcomeYet
<1>2. CASE StdinWritten(h) \/ StdoutEnds(h) \/ StderrEnds(h)
  <2> USE <1>2 DEF StdinWritten, StdoutEnds, StderrEnds
  <2>1. HookTypeOK' /\ hkStage[h] # "ended"
    BY DEF HookTypeOK
  <2>2. RunInv' /\ NoStrays'
    BY DEF RunInv, NoStrays, HookTypeOK
  <2> QED
    BY <2>1, <2>2, NoOutcomeYet
<1>3. CASE Waited(h)
  <2> USE <1>3 DEF Waited
  <2>1. HookTypeOK' /\ hkStage[h] # "ended"
    BY DEF HookTypeOK
  <2>2. RunInv' /\ NoStrays'
    BY DEF RunInv, NoStrays, HookTypeOK
  <2> QED
    BY <2>1, <2>2, NoOutcomeYet
<1>4. CASE TimesOut(h)
  <2> USE <1>4 DEF TimesOut, Killed
  <2>1. hkStage[h] \in {"stdin", "stdout", "stderr", "wait"}
    BY DEF Blocked
  <2>2. HookTypeOK'
    BY DEF HookTypeOK
  <2>3. RunInv'
    BY <2>1 DEF RunInv, HookTypeOK
  <2>4. NoStrays'
    BY <2>1 DEF NoStrays, HookTypeOK
  <2> QED
    BY <2>1, <2>2, <2>3, <2>4, NoOutcomeYet
<1>5. CASE ReadOutput(h)
  <2> USE <1>5 DEF ReadOutput
  <2>1. HookTypeOK' /\ hkStage[h] # "ended"
    BY DEF HookTypeOK
  <2>2. RunInv' /\ NoStrays'
    BY DEF RunInv, NoStrays, HookTypeOK
  <2> QED
    BY <2>1, <2>2, NoOutcomeYet
<1> QED
  BY <1>1, <1>2, <1>3, <1>4, <1>5 DEF Runner

LEMMA CommandStepKeeps ==
  ASSUME HookInv, NEW h \in Hooks, CommandStep(h)
  PROVE  HookInv'
<1> USE HookAssumption DEF HookInv, CommandOnly
<1>1. CASE Closes(h)
  <2> USE <1>1 DEF Closes
  <2>1. hkStage[h] # "ended"
    BY DEF NoStrays
  <2>2. HookTypeOK'
    <3>1. hkMute' \in [Hooks -> BOOLEAN]
      BY DEF HookTypeOK
    <3> QED
      BY <3>1 DEF HookTypeOK
  <2>3. RunInv' /\ NoStrays'
    BY DEF RunInv, NoStrays
  <2> QED
    BY <2>1, <2>2, <2>3, NoOutcomeYet
<1>4. ASSUME NEW d \in Printed, Says(h, d) PROVE HookInv'
  <2> USE <1>4 DEF Says
  <2>1. hkStage[h] # "ended"
    BY DEF NoStrays
  <2>2. HookTypeOK'
    BY DEF HookTypeOK
  <2>3. RunInv' /\ NoStrays'
    BY DEF RunInv, NoStrays
  <2> QED
    BY <2>1, <2>2, <2>3, NoOutcomeYet
<1>2. ASSUME StrayEnds(h) \/ \E where \in {"group", "escaped"} : Leaves(h, where) PROVE HookInv'
  <2> USE <1>2 DEF StrayEnds, Leaves
  <2>1. hkStage[h] # "ended"
    BY DEF NoStrays
  <2>2. HookTypeOK' /\ RunInv' /\ NoStrays'
    BY <2>1 DEF HookTypeOK, RunInv, NoStrays
  <2> QED
    BY <2>1, <2>2, NoOutcomeYet
<1>3. ASSUME NEW code \in ExitCodes, CommandExits(h, code) PROVE HookInv'
  <2> USE <1>3 DEF CommandExits
  <2>1. hkStage[h] # "ended" /\ code \notin {"none", "running", "killed"}
    BY DEF NoStrays
  <2>2. HookTypeOK'
    BY DEF HookTypeOK
  <2>3. RunInv' /\ NoStrays'
    BY <2>1 DEF HookTypeOK, RunInv, NoStrays
  <2> QED
    BY <2>1, <2>2, <2>3, NoOutcomeYet
<1> QED
  BY <1>1, <1>2, <1>3, <1>4 DEF CommandStep

LEMMA SummarizeKeeps == ASSUME HookInv, Summarize PROVE HookInv'
<1> USE DEF HookInv, Summarize, hkProcess
<1>1. HookTypeOK' /\ RunInv' /\ NoStrays'
  BY DEF HookTypeOK, RunInv, NoStrays
<1>2. OutcomeInv'
  BY OutcomeStays DEF OutcomeInv
<1> QED
  BY <1>1, <1>2

\* A refusal among the hooks is one of the outcome.
LEMMA RefusalCounts ==
  ASSUME HookTypeOK, NEW h \in Hooks, Effective(h) \in Refusals
  PROVE  (Outcome.blocked \/ Outcome.stopped) /\ ~Outcome.allowed /\ Outcome.input = 0
  BY DEF Outcome, Refusals

LEMMA OutcomeRefuses ==
  ASSUME HookInv, \A h \in Hooks : hkStage[h] = "ended", NEW h \in Hooks,
         \/ hkRead[h] \in Refusals
         \/ hkChild[h] = "two" /\ hkRead[h] = "nothing"
         \/ Gating /\ (hkChild[h] \in {"none", "killed", "infra"} \/ hkFailure[h] = "timeout")
  PROVE  (Outcome.blocked \/ Outcome.stopped) /\ ~Outcome.allowed /\ Outcome.input = 0
<1>1. Effective(h) \in Refusals
  <2>1. CASE hkRead[h] \in Refusals
    BY <2>1 DEF Effective, Effect, Refusals
  <2>2. CASE hkChild[h] = "two" /\ hkRead[h] = "nothing"
    BY <2>2 DEF Effective, Effect, Refusals
  <2>3. CASE Gating /\ (hkChild[h] \in {"none", "killed", "infra"} \/ hkFailure[h] = "timeout")
    <3>1. FailClosed(h)
      BY <2>3 DEF FailClosed, HookInv, RunInv
    <3> QED
      BY <3>1 DEF Effective, Refusals
  <2> QED
    BY <2>1, <2>2, <2>3
<1> QED
  BY <1>1, RefusalCounts DEF HookInv

LEMMA OutcomeRewrites ==
  ASSUME Outcome.input # 0
  PROVE  /\ hkRead[Outcome.input] = "rewrite"
         /\ \A h \in Outcome.input + 1 .. HookCount : hkRead[h] # "rewrite"
<1> DEFINE rewriters == {h \in Hooks : Rewrites(h)}
<1>1. rewriters # {} /\ Outcome.input = LastOf(rewriters)
  BY DEF Outcome
<1>2. rewriters \subseteq 1..HookCount /\ HookCount \in Nat
  BY HookAssumption DEF Hooks
<1>3. \E h \in rewriters : \A g \in rewriters : g <= h
  <2> HIDE DEF rewriters
  <2> QED
    BY <1>1, <1>2, GreatestNatural
<1>4. Outcome.input \in rewriters /\ \A g \in rewriters : g <= Outcome.input
  BY <1>1, <1>3 DEF LastOf
<1>5. Rewrites(Outcome.input)
  BY <1>4
<1>6. ASSUME NEW h \in Outcome.input + 1 .. HookCount, hkRead[h] = "rewrite" PROVE FALSE
  <2>1. h \in Hooks /\ Outcome.input \in 1..HookCount
    BY <1>2, <1>4 DEF Hooks
  <2>2. Rewrites(h)
    BY <1>5, <1>6 DEF Rewrites, Effect
  <2>3. h <= Outcome.input
    BY <1>4, <2>1, <2>2
  <2> QED
    BY <1>2, <2>1, <2>3
<1> QED
  BY <1>5, <1>6 DEF Rewrites

\* What a dispatch comes to, for any number of hooks, any limit on those that run
\* at once, and whatever their commands print, leave behind or exit with.
THEOREM HooksAlwaysSound == HookSpec => []HooksSound
<1>1. HookInv /\ [HookNext]_hkVars => HookInv'
  <2>1. HookInv /\ UNCHANGED hkVars => HookInv'
    BY OutcomeStays DEF HookInv, HookTypeOK, RunInv, NoStrays, OutcomeInv, hkVars
  <2> QED
    BY <2>1, RunnerKeeps, CommandStepKeeps, SummarizeKeeps DEF HookNext
<1>2. HookInv => HooksSound
  <2> SUFFICES ASSUME HookInv PROVE HooksSound
    OBVIOUS
  <2>1. RefusalsHold
    BY OutcomeRefuses DEF HookInv, OutcomeInv, RefusalsHold
  <2>2. RewriteIsLast
    BY OutcomeRewrites DEF HookInv, OutcomeInv, RewriteIsLast
  <2> QED
    BY <2>1, <2>2 DEF HookInv, HooksSound
<1> QED
  BY <1>1, <1>2, HookInvInitially, PTL DEF HookSpec

-----------------------------------------------------------------------------
(* ShellRun *)

ShellTypeOK ==
    /\ shStep \in {"wait", "stdout", "stderr", "done"} /\ shUp \in SUBSET Processes
    /\ shHolds \in [Pipes -> SUBSET Processes] /\ shWrote \in [Pipes -> Nat]
    /\ shCode \in {"none", "zero", "other"} /\ shCancel \in BOOLEAN /\ shLate \in BOOLEAN
    /\ shOut \in [code : {"none", "zero", "other"}, timedOut : BOOLEAN, cancelled : BOOLEAN,
                  got : [Pipes -> Nat]]

CutOff == shOut.timedOut \/ shOut.cancelled

\* A command that has ended starts nothing; one that was cut off is killed with its
\* group; otherwise, once the wait is over, its code is known, and a pipe that was read
\* to its end is held by nobody.
ShellInv ==
    /\ ShellTypeOK
    /\ shCode # "none" => "command" \notin shUp
    /\ CutOff => shUp \cap Group = {}
    /\ shStep # "wait" /\ ~CutOff => shOut.code = shCode /\ shCode # "none"
    /\ shStep \in {"stderr", "done"} /\ ~CutOff =>
           shHolds["out"] = {} /\ shOut.got["out"] = shWrote["out"]
    /\ shStep = "done" /\ ~CutOff =>
           shHolds["err"] = {} /\ shOut.got["err"] = shWrote["err"]

LEMMA ShellInvInitially == ShInit => ShellInv
<1> SUFFICES ASSUME ShInit PROVE ShellInv
  OBVIOUS
<1>1. ShellTypeOK
  <2>1. shCancel \in BOOLEAN /\ shLate \in BOOLEAN
    BY Zenon DEF ShInit
  <2>2. shOut \in [code : {"none", "zero", "other"}, timedOut : BOOLEAN, cancelled : BOOLEAN,
                   got : [Pipes -> Nat]]
    BY DEF ShInit
  <2> QED
    BY <2>1, <2>2 DEF ShInit, ShellTypeOK, Processes, Group
<1> QED
  BY <1>1 DEF ShInit, ShellInv, CutOff

LEMMA ProcessesKeep ==
  ASSUME ShellInv,
         \/ \E q \in Processes, pipes \in SUBSET Pipes : ShStarts(q, pipes)
         \/ \E p \in Pipes : ShWrites(p)
         \/ \E q \in Processes, code \in {"zero", "other"} : ShEnds(q, code)
         \/ ShCtrlC \/ ShTimeGoes \/ UNCHANGED shVars
  PROVE  ShellInv'
<1> USE DEF ShellInv, CutOff
<1>1. ASSUME NEW q \in Processes, NEW pipes \in SUBSET Pipes, ShStarts(q, pipes) PROVE ShellInv'
  <2> USE <1>1 DEF ShStarts
  <2>1. shCode = "none" /\ ~CutOff /\ shStep = "wait"
    BY DEF Group
  <2>2. ShellTypeOK'
    BY DEF ShellTypeOK
  <2> QED
    BY <2>1, <2>2
<1>2. ASSUME NEW p \in Pipes, ShWrites(p) PROVE ShellInv'
  <2> USE <1>2 DEF ShWrites
  <2>1. ShellTypeOK'
    BY DEF ShellTypeOK
  <2>2. \A r \in Pipes : shHolds[r] = {} => shWrote'[r] = shWrote[r]
    BY DEF ShellTypeOK
  <2> QED
    BY <2>1, <2>2 DEF Pipes
<1>3. ASSUME NEW q \in Processes, NEW code \in {"zero", "other"}, ShEnds(q, code) PROVE ShellInv'
  <2> USE <1>3 DEF ShEnds, Drop
  <2>1. ShellTypeOK'
    BY DEF ShellTypeOK
  <2>2. shCode # "none" => shCode' = shCode
    OBVIOUS
  <2>3. \A r \in Pipes : shHolds[r] = {} => shHolds'[r] = {}
    OBVIOUS
  <2> QED
    BY <2>1, <2>2, <2>3 DEF Pipes
<1>4. CASE ShCtrlC \/ ShTimeGoes
  BY <1>4 DEF ShCtrlC, ShTimeGoes, ShellTypeOK
<1>5. CASE UNCHANGED shVars
  BY <1>5 DEF shVars, ShellTypeOK
<1> QED
  BY <1>1, <1>2, <1>3, <1>4, <1>5

LEMMA WaitEndsKeeps ==
  ASSUME ShellInv, ShExited \/ ShDeadline \/ ShCancelled
  PROVE  ShellInv'
<1> USE DEF ShellInv, CutOff
<1>1. CASE ShExited
  BY <1>1 DEF ShExited, ShellTypeOK
<1>2. CASE ShDeadline \/ ShCancelled
  <2> USE <1>2 DEF ShDeadline, ShCancelled, KillGroup, Drop
  <2>1. /\ shOut' = [shOut EXCEPT !.timedOut = TRUE] \/ shOut' = [shOut EXCEPT !.cancelled = TRUE]
        /\ shUp' = shUp \ Group /\ shHolds' = [p \in Pipes |-> shHolds[p] \ Group]
        /\ shStep' = "stdout" /\ UNCHANGED <<shWrote, shCode, shCancel, shLate>>
    OBVIOUS
  <2> HIDE <1>2 DEF ShDeadline, ShCancelled, KillGroup, Drop
  <2>2. /\ shOut' \in [code : {"none", "zero", "other"}, timedOut : BOOLEAN,
                        cancelled : BOOLEAN, got : [Pipes -> Nat]]
        /\ CutOff'
    BY <2>1 DEF ShellTypeOK
  <2>3. shHolds' \in [Pipes -> SUBSET Processes] /\ shUp' \in SUBSET Processes
    BY <2>1 DEF ShellTypeOK
  <2>4. ShellTypeOK'
    BY <2>1, <2>2, <2>3 DEF ShellTypeOK
  <2>5. shUp' \cap Group = {}
    BY <2>1
  <2> QED
    BY <2>1, <2>2, <2>4, <2>5
<1> QED
  BY <1>1, <1>2

LEMMA ReadersKeep ==
  ASSUME ShellInv, NEW step \in {"stdout", "stderr"}, ShRead(step) \/ ShReaderLate(step)
  PROVE  ShellInv'
<1> USE DEF ShellInv, CutOff, After, PipeOf
<1>1. CASE ShRead(step)
  <2> USE <1>1 DEF ShRead
  <2>1. ShellTypeOK'
    BY DEF ShellTypeOK, Pipes
  <2>2. /\ shOut'.code = shOut.code /\ shOut'.timedOut = shOut.timedOut
        /\ shOut'.cancelled = shOut.cancelled
    BY DEF ShellTypeOK
  <2>3. CASE step = "stdout"
    <3>1. shOut'.got["out"] = shWrote["out"]
      BY <2>3 DEF ShellTypeOK, Pipes
    <3> QED
      BY <2>1, <2>2, <2>3, <3>1
  <2>4. CASE step = "stderr"
    <3>1. shOut'.got["err"] = shWrote["err"] /\ shOut'.got["out"] = shOut.got["out"]
      BY <2>4 DEF ShellTypeOK, Pipes
    <3> QED
      BY <2>1, <2>2, <2>4, <3>1
  <2> QED
    BY <2>3, <2>4
<1>2. CASE ShReaderLate(step)
  <2> USE <1>2 DEF ShReaderLate, KillGroup, Drop
  <2>1. ShellTypeOK'
    BY DEF ShellTypeOK
  <2>2. CutOff' /\ shUp' \cap Group = {}
    BY DEF ShellTypeOK
  <2>3. shCode # "none" => "command" \notin shUp'
    OBVIOUS
  <2> QED
    BY <2>1, <2>2, <2>3
<1> QED
  BY <1>1, <1>2

\* What a command's result says, however much it writes, whatever it leaves behind and
\* whenever the deadline and Ctrl-C come.
THEOREM ShellAlwaysSound == ShSpec => []ShellSound
<1>1. ShellInv /\ [ShNext]_shVars => ShellInv'
  BY ProcessesKeep, WaitEndsKeeps, ReadersKeep DEF ShNext, ShTool
<1>2. ShellInv => ShellSound
  <2> SUFFICES ASSUME ShellInv PROVE ShellSound
    OBVIOUS
  <2>1. GroupEnds
    BY DEF ShellInv, CutOff, GroupEnds
  <2>2. ResultIsCommands
    <3> SUFFICES ASSUME shStep = "done", ~CutOff
                 PROVE  shOut.code = shCode /\ shCode # "none" /\ shOut.got = shWrote
      BY DEF ResultIsCommands, CutOff
    <3>1. \A p \in Pipes : shOut.got[p] = shWrote[p]
      BY DEF ShellInv, Pipes
    <3>2. shOut.got = shWrote
      BY <3>1 DEF ShellInv, ShellTypeOK
    <3> QED
      BY <3>2 DEF ShellInv
  <2> QED
    BY <2>1, <2>2 DEF ShellSound
<1> QED
  BY <1>1, <1>2, ShellInvInitially, PTL DEF ShSpec

-----------------------------------------------------------------------------
(* RoutedPlan *)

Statuses == {"pending", "running", "done", "failed"}
PlanOf   == [Tasks -> Statuses]

PlTypeOK ==
    /\ plAt \in {"idle", "next", "apply", "turn", "ended", "erred", "stop", "unsaved"}
    /\ plDeps \in [Tasks -> SUBSET Tasks]
    /\ plFile \in {<<>>} \cup PlanOf /\ plHeld \in {<<>>} \cup PlanOf
    /\ plTask \in Tasks \cup {0} /\ plModel \in Tasks \cup {0}
    /\ plTurns \in [Tasks -> Nat] /\ plFaults \in Nat

\* A plan was accepted, and the command holds what is in the file.
HoldsPlan ==
    /\ ~Cyclic(plDeps)
    /\ plHeld # <<>> => plAt # "idle"
    /\ plAt # "idle" => plHeld \in PlanOf /\ plFile \in PlanOf
    /\ plAt \notin {"idle", "unsaved"} => plHeld = plFile

\* The task at hand is marked, and what it waits for is done.
HasTask ==
    /\ plAt \in {"apply", "turn", "ended", "erred"} => plTask \in Tasks /\ plHeld[plTask] = "running"
    /\ plAt \in {"apply", "turn"} => \A d \in plDeps[plTask] : plHeld[d] = "done"
    /\ plAt = "ended" => plTurns[plTask] > 0

\* What is done had its turn, and no more turns than executors went wrong, but for
\* the one that is recorded, or just about to be.
Recorded(t) ==
    \/ plFile # <<>> /\ plFile[t] = "done"
    \/ plAt = "ended" /\ plTask = t
TurnsInv ==
    /\ \A t \in Tasks : plFile # <<>> /\ plFile[t] = "done" => plTurns[t] > 0
    /\ \A t \in Tasks : plHeld # <<>> /\ plHeld[t] = "done" => plTurns[t] > 0
    /\ \A t \in Tasks : \/ plTurns[t] <= plFaults
                        \/ plTurns[t] <= 1 + plFaults /\ Recorded(t)

ModelBack == (plAt = "unsaved" => plUnsaved) /\ OwnModelBack

PlanInv == PlTypeOK /\ HoldsPlan /\ HasTask /\ TurnsInv /\ ModelBack

LEMMA PlansAreNotEmpty ==
  ASSUME NEW f \in PlanOf, NEW t \in Tasks
  PROVE  f # <<>>
<1>1. DOMAIN f = Tasks
  BY DEF PlanOf
<1>2. DOMAIN <<>> = {}
  OBVIOUS
<1> QED
  BY <1>1, <1>2

LEMMA PlanInvInitially == PlanInit => PlanInv
<1> SUFFICES ASSUME PlanInit PROVE PlanInv
  OBVIOUS
<1> USE PlanAssumption DEF PlanInit
<1>1. PlTypeOK
  BY DEF PlTypeOK
<1>2. HoldsPlan
  BY DEF HoldsPlan, Cyclic
<1>3. HasTask /\ TurnsInv /\ ModelBack
  BY DEF HasTask, TurnsInv, Recorded, ModelBack, OwnModelBack
<1> QED
  BY <1>1, <1>2, <1>3 DEF PlanInv

\* The task a step takes up is one that is ready.
LEMMA FirstIsReady ==
  ASSUME ReadyTasks # {}
  PROVE  First(ReadyTasks) \in ReadyTasks
<1>1. ReadyTasks \subseteq Nat
  BY PlanAssumption DEF ReadyTasks, Tasks
<1>2. \E t \in ReadyTasks : \A u \in ReadyTasks : t <= u
  BY <1>1, LeastNatural
<1> QED
  BY <1>2 DEF First

\* What marking a task does, saved or not.
LEMMA MarkKeeps ==
  ASSUME PlanInv, plAt \notin {"idle", "unsaved"}, NEW t \in Tasks, NEW status \in Statuses,
         NEW next \in {"next", "apply", "stop"}, Mark(t, status, next),
         status = "done" => plAt = "ended" /\ plTask = t,
         plAt = "ended" => plTask = t /\ status = "done",
         plTask' \in Tasks, UNCHANGED <<plDeps, plModel, plTurns>>,
         next = "apply" => /\ status = "running" /\ plTask' = t
                           /\ plHeld[t] # "done" /\ \A d \in plDeps[t] : plHeld[d] = "done",
         plHeld[t] = "done" => status = "done"
  PROVE  PlanInv'
<1> USE DEF PlanInv
<1>1. plHeld \in PlanOf /\ plFile = plHeld
  BY DEF HoldsPlan
<1>2. plHeld' \in PlanOf /\ plHeld'[t] = status /\ \A u \in Tasks \ {t} : plHeld'[u] = plHeld[u]
  BY <1>1 DEF Mark, PlanOf
<1>3. /\ plFile' = plHeld' /\ plAt' = next /\ UNCHANGED <<plFaults, plUnsaved>>
      \/ /\ plFaults' = plFaults + 1 /\ plUnsaved' = TRUE /\ plAt' = "unsaved"
         /\ UNCHANGED plFile
  BY DEF Mark
<1>4. plHeld # <<>> /\ plHeld' # <<>> /\ plFile' \in PlanOf /\ plFile' # <<>>
  BY <1>1, <1>2, <1>3, PlansAreNotEmpty
<1>5. PlTypeOK'
  BY <1>2, <1>3, <1>4 DEF PlTypeOK
<1>6. HoldsPlan'
  <2>1. ~Cyclic(plDeps)'
    BY DEF HoldsPlan, Cyclic
  <2>2. plAt' # "idle" /\ plHeld' \in PlanOf /\ plFile' \in PlanOf
    BY <1>2, <1>3, <1>4
  <2>3. plAt' \notin {"idle", "unsaved"} => plHeld' = plFile'
    BY <1>3
  <2> QED
    BY <2>1, <2>2, <2>3 DEF HoldsPlan
<1>7. HasTask'
  <2>1. CASE plAt' = "apply"
    <3>1. next = "apply" /\ plTask' = t /\ plHeld'[t] = "running"
      BY <1>2, <1>3, <2>1
    <3>2. ASSUME NEW d \in plDeps[t] PROVE plHeld'[d] = "done"
      <4>1. d # t /\ plHeld[d] = "done"
        BY <3>1
      <4>2. d \in Tasks
        BY DEF PlTypeOK
      <4> QED
        BY <1>2, <4>1, <4>2
    <3> QED
      BY <2>1, <3>1, <3>2 DEF HasTask
  <2>2. CASE plAt' # "apply"
    <3>1. plAt' \notin {"apply", "turn", "ended", "erred"}
      BY <1>3, <2>2
    <3> QED
      BY <3>1 DEF HasTask
  <2> QED
    BY <2>1, <2>2
<1>8. TurnsInv'
  <2>1. ASSUME NEW u \in Tasks, plHeld'[u] = "done" PROVE plTurns'[u] > 0
    <3>1. CASE u = t
      BY <1>2, <2>1, <3>1 DEF HasTask
    <3>2. CASE u # t
      BY <1>2, <1>4, <2>1, <3>2 DEF TurnsInv
    <3> QED
      BY <3>1, <3>2
  <2>2. ASSUME NEW u \in Tasks, plFile'[u] = "done" PROVE plTurns'[u] > 0
    BY <1>1, <1>3, <1>4, <2>1, <2>2 DEF TurnsInv
  <2>3. ASSUME NEW u \in Tasks
        PROVE  \/ plTurns'[u] <= plFaults'
               \/ plTurns'[u] <= 1 + plFaults' /\ Recorded(u)'
    <3>1. \/ plTurns[u] <= plFaults
          \/ plTurns[u] <= 1 + plFaults /\ Recorded(u)
      BY DEF TurnsInv
    <3>2. plTurns[u] \in Nat /\ plFaults \in Nat /\ plTurns' = plTurns
      BY DEF PlTypeOK
    <3>3. CASE plFaults' = plFaults + 1
      BY <3>1, <3>2, <3>3
    <3>4. CASE plFile' = plHeld' /\ UNCHANGED plFaults
      <4>1. Recorded(u) => plHeld'[u] = "done"
        BY <1>1, <1>2, <3>4 DEF Recorded
      <4>2. Recorded(u) => Recorded(u)'
        BY <1>4, <3>4, <4>1 DEF Recorded
      <4> QED
        BY <3>1, <3>2, <3>4, <4>2
    <3> QED
      BY <1>3, <3>3, <3>4
  <2> QED
    BY <2>1, <2>2, <2>3 DEF TurnsInv
<1>9. ModelBack'
  BY <1>3 DEF ModelBack, OwnModelBack
<1> QED
  BY <1>5, <1>6, <1>7, <1>8, <1>9

\* What the end of the command does, and that of its process.
LEMMA LeavingKeeps ==
  ASSUME PlanInv, plAt' = "idle", plTask' = 0, plHeld' = <<>>,
         UNCHANGED <<plDeps, plFile, plTurns>>,
         (plAt # "ended" /\ UNCHANGED plFaults) \/ plFaults' = plFaults + 1,
         (plModel' = 0 /\ UNCHANGED plUnsaved) \/ (plAt = "unsaved" /\ UNCHANGED <<plModel, plUnsaved>>)
  PROVE  PlanInv'
<1> USE DEF PlanInv
<1>1. PlTypeOK'
  BY DEF PlTypeOK
<1>2. HoldsPlan' /\ HasTask'
  BY DEF HoldsPlan, HasTask, Cyclic
<1>3. TurnsInv'
  <2>1. ASSUME NEW t \in Tasks
        PROVE  \/ plTurns'[t] <= plFaults'
               \/ plTurns'[t] <= 1 + plFaults' /\ Recorded(t)'
    <3>1. plTurns[t] \in Nat /\ plFaults \in Nat
      BY DEF PlTypeOK
    <3>2. \/ plTurns[t] <= plFaults
          \/ plTurns[t] <= 1 + plFaults /\ Recorded(t)
      BY DEF TurnsInv
    <3>3. plAt # "ended" => (Recorded(t) => Recorded(t)')
      BY DEF Recorded
    <3> QED
      BY <3>1, <3>2, <3>3
  <2> QED
    BY <2>1 DEF TurnsInv
<1>4. ModelBack'
  BY DEF ModelBack, OwnModelBack
<1> QED
  BY <1>1, <1>2, <1>3, <1>4

LEMMA RouteKeeps ==
  ASSUME PlanInv, NEW deps \in [Tasks -> SUBSET Tasks], Route(deps)
  PROVE  PlanInv'
<1> USE DEF PlanInv, Route
<1>1. PlTypeOK'
  BY DEF PlTypeOK, PlanOf, Statuses
<1>2. HoldsPlan' /\ HasTask'
  BY DEF HoldsPlan, HasTask, Accepted
<1>3. TurnsInv'
  BY DEF TurnsInv, Recorded, PlTypeOK, HoldsPlan
<1>4. ModelBack'
  BY DEF ModelBack, OwnModelBack
<1> QED
  BY <1>1, <1>2, <1>3, <1>4

LEMMA ExecuteKeeps ==
  ASSUME PlanInv, NEW max, Execute(max)
  PROVE  PlanInv'
<1> USE DEF PlanInv, Execute
<1>1. PlTypeOK'
  BY DEF PlTypeOK
<1>2. HoldsPlan' /\ HasTask'
  BY DEF HoldsPlan, HasTask, PlTypeOK, Cyclic
<1>3. TurnsInv'
  BY DEF TurnsInv, Recorded
<1>4. ModelBack'
  BY DEF ModelBack, OwnModelBack
<1> QED
  BY <1>1, <1>2, <1>3, <1>4

LEMMA BeginTaskKeeps == ASSUME PlanInv, BeginTask PROVE PlanInv'
<1> DEFINE t == First(ReadyTasks)
<1>1. t \in ReadyTasks
  BY FirstIsReady DEF BeginTask
<1>2. t \in Tasks /\ plHeld[t] \in {"pending", "running"} /\ \A d \in plDeps[t] : plHeld[d] = "done"
  BY <1>1 DEF ReadyTasks
<1>3. plAt = "next" /\ plTask' = t /\ UNCHANGED <<plDeps, plModel, plTurns>>
  BY DEF BeginTask
<1>4. Mark(t, "running", "apply") \/ Mark(t, "failed", "stop")
  BY DEF BeginTask
<1> HIDE DEF t
<1> QED
  BY <1>2, <1>3, <1>4, MarkKeeps DEF Statuses

LEMMA ApplyKeeps == ASSUME PlanInv, Apply PROVE PlanInv'
<1>1. plAt = "apply" /\ plTask \in Tasks /\ plHeld[plTask] = "running"
  BY DEF Apply, PlanInv, HasTask
<1>2. CASE /\ plModel' = plTask /\ plAt' = "turn"
           /\ UNCHANGED <<plHeld, plFile, plUnsaved, plFaults, plDeps, plTask, plTurns>>
  <2> USE <1>1, <1>2 DEF PlanInv
  <2>1. PlTypeOK' /\ HoldsPlan' /\ HasTask'
    BY DEF PlTypeOK, HoldsPlan, HasTask, Cyclic
  <2>2. TurnsInv'
    BY DEF TurnsInv, Recorded
  <2>3. ModelBack'
    BY DEF ModelBack, OwnModelBack
  <2> QED
    BY <2>1, <2>2, <2>3
<1>3. CASE Mark(plTask, "failed", "stop") /\ UNCHANGED <<plModel, plDeps, plTask, plTurns>>
  BY <1>1, <1>3, MarkKeeps DEF Statuses
<1> QED
  BY <1>2, <1>3 DEF Apply

LEMMA TaskTurnKeeps ==
  ASSUME PlanInv, NEW ok \in BOOLEAN, TaskTurn(ok)
  PROVE  PlanInv'
<1> USE DEF PlanInv, TaskTurn
<1>1. plTask \in Tasks /\ plHeld[plTask] = "running" /\ plFile = plHeld /\ plFile \in PlanOf
  BY DEF HasTask, HoldsPlan
<1>2. /\ plTurns' \in [Tasks -> Nat] /\ \A t \in Tasks : plTurns'[t] >= plTurns[t]
      /\ ok => plTurns'[plTask] = plTurns[plTask] + 1
      /\ \A t \in Tasks : t # plTask \/ ~ok => plTurns'[t] = plTurns[t]
  BY <1>1 DEF PlTypeOK
<1>3. PlTypeOK'
  BY <1>2 DEF PlTypeOK
<1>4. HoldsPlan'
  BY DEF HoldsPlan, Cyclic
<1>5. HasTask'
  BY <1>1, <1>2 DEF HasTask, PlTypeOK
<1>6. TurnsInv'
  <2>1. \A t \in Tasks : plTurns[t] \in Nat /\ plTurns'[t] \in Nat
    BY <1>2 DEF PlTypeOK
  <2>2. \A t \in Tasks : plTurns[t] > 0 => plTurns'[t] > 0
    BY <1>2, <2>1
  <2>3. plFaults \in Nat
    BY DEF PlTypeOK
  <2>4. ASSUME NEW t \in Tasks
        PROVE  \/ plTurns'[t] <= plFaults
               \/ plTurns'[t] <= 1 + plFaults /\ Recorded(t)'
    <3>1. CASE ok /\ t = plTask
      <4>1. plTurns[t] <= plFaults
        BY <1>1, <3>1 DEF TurnsInv, Recorded
      <4> QED
        BY <1>2, <2>1, <2>3, <3>1, <4>1 DEF Recorded
    <3>2. CASE t # plTask \/ ~ok
      BY <1>2, <3>2 DEF TurnsInv, Recorded
    <3> QED
      BY <3>1, <3>2
  <2> QED
    BY <2>2, <2>4 DEF TurnsInv
<1>7. ModelBack'
  BY DEF ModelBack, OwnModelBack
<1> QED
  BY <1>3, <1>4, <1>5, <1>6, <1>7

LEMMA RecordKeeps == ASSUME PlanInv, Record PROVE PlanInv'
<1>1. plTask \in Tasks /\ plHeld[plTask] = "running"
  BY DEF Record, PlanInv, HasTask
<1> QED
  BY <1>1, MarkKeeps DEF Record, Statuses

\* A plan that was accepted cannot get stuck by itself: the tasks that are not over
\* would wait for each other.
LEMMA PlansEnd == PlanInv => NoDeadEnds
<1> SUFFICES ASSUME PlanInv, plHeld # <<>>, ReadyTasks = {},
                    NEW t \in Tasks, plHeld[t] \in {"pending", "running"},
                    \A u \in Tasks : plHeld[u] # "failed"
             PROVE  FALSE
  BY DEF NoDeadEnds
<1> DEFINE open == {u \in Tasks : plHeld[u] \in {"pending", "running"}}
<1>1. plHeld \in PlanOf /\ plDeps \in [Tasks -> SUBSET Tasks]
  BY DEF PlanInv, HoldsPlan, PlTypeOK
<1>2. ASSUME NEW u \in open PROVE plDeps[u] \cap open # {}
  <2>1. PICK d \in plDeps[u] : plHeld[d] # "done"
    BY DEF ReadyTasks
  <2>2. d \in Tasks /\ plHeld[d] \in Statuses
    BY <1>1, <2>1 DEF PlanOf
  <2> QED
    BY <2>1, <2>2 DEF Statuses
<1>3. open \in SUBSET Tasks /\ open # {}
  OBVIOUS
<1>4. Cyclic(plDeps)
  <2> HIDE DEF open
  <2> QED
    BY <1>2, <1>3 DEF Cyclic
<1> QED
  BY <1>4 DEF PlanInv, HoldsPlan

\* PlanSound, of plans of any size and with any number of executors killed or not
\* able to save: an accepted plan cannot get stuck by itself, tasks run after what they
\* wait for and again only after a fault, and the user's model comes back.
THEOREM PlanAlwaysSound == PlanSpec => []PlanSound
<1>1. PlanInv /\ [PlanNext]_plVars => PlanInv'
  <2> SUFFICES ASSUME PlanInv, [PlanNext]_plVars PROVE PlanInv'
    OBVIOUS
  <2>1. CASE PlanEnds \/ Stop \/ Unsaved \/ Kill
    <3>1. /\ plAt' = "idle" /\ plTask' = 0 /\ plHeld' = <<>> /\ UNCHANGED <<plDeps, plFile, plTurns>>
          /\ (plAt # "ended" /\ UNCHANGED plFaults) \/ plFaults' = plFaults + 1
      BY <2>1 DEF PlanEnds, Stop, Unsaved, Kill
    <3>2. \/ plModel' = 0 /\ UNCHANGED plUnsaved
          \/ plAt = "unsaved" /\ UNCHANGED <<plModel, plUnsaved>>
      BY <2>1 DEF PlanEnds, Stop, Unsaved, Kill
    <3> QED
      BY <3>1, <3>2, LeavingKeeps
  <2>2. CASE UNCHANGED plVars
    <3> USE <2>2 DEF plVars, PlanInv
    <3>1. PlTypeOK' /\ HoldsPlan' /\ HasTask'
      BY DEF PlTypeOK, HoldsPlan, HasTask, Cyclic
    <3>2. TurnsInv' /\ ModelBack'
      BY DEF TurnsInv, Recorded, ModelBack, OwnModelBack
    <3> QED
      BY <3>1, <3>2
  <2> QED
    BY <2>1, <2>2, RouteKeeps, ExecuteKeeps, BeginTaskKeeps, ApplyKeeps, TaskTurnKeeps, RecordKeeps
       DEF PlanNext, PlanStep
<1>2. PlanInv => PlanSound
  <2> SUFFICES ASSUME PlanInv PROVE PlanSound
    OBVIOUS
  <2> USE DEF PlanInv
  <2>1. DependenciesFirst
    <3> SUFFICES ASSUME plAt = "turn", NEW d \in plDeps[plTask] PROVE plTurns[d] > 0
      BY DEF DependenciesFirst
    <3>1. d \in Tasks /\ plHeld[d] = "done" /\ plHeld # <<>>
      BY PlansAreNotEmpty DEF HasTask, HoldsPlan, PlTypeOK
    <3> QED
      BY <3>1 DEF TurnsInv
  <2>2. OncePerTask
    <3>1. \A t \in Tasks : plTurns[t] \in Nat /\ plFaults \in Nat
      BY DEF PlTypeOK
    <3>2. \A t \in Tasks : plTurns[t] <= 1 + plFaults
      BY <3>1 DEF TurnsInv
    <3> QED
      BY <3>2 DEF OncePerTask, TurnsInv, HasTask, HoldsPlan
  <2> QED
    BY <2>1, <2>2, PlansEnd DEF PlanSound, ModelBack
<1> QED
  BY <1>1, <1>2, PlanInvInitially, PTL DEF PlanSpec

-----------------------------------------------------------------------------
(* TaskLoops *)

Trees   == Diffs \cup {1}
Verdict == [score : 0..Pass, passed : BOOLEAN, diff : Trees]
Running == {"round", "turn", "judge", "criteria", "missed", "reset"}

LoopTypeOK ==
    /\ lpKind \in Kinds /\ lpAt \in Running \cup {"idle", "final", "restore"} /\ lpCriteria \in BOOLEAN
    /\ lpRounds \in Seq(Verdict) /\ lpDiff \in Trees
    /\ lpTurn \in Nat /\ lpFeedback \in Nat /\ lpStall \in Nat
    /\ lpSession \in Nat /\ lpBefore \in Nat /\ lpSpent \in Int /\ lpCost \in Int

\* A loop has its reason to stop from its beginning, and another one only at its end.
StopInv ==
    /\ lpAt \in Running => lpStop = "MaxRounds"
    /\ lpStop = "none" => lpAt = "idle" /\ lpTurn = 0 /\ lpRounds = <<>> /\ lpFeedback = 0
                          /\ lpStall = 0 /\ lpSpent = 0

\* Each turn is judged, and the verdict on it goes with the next prompt.
RoundInv ==
    /\ lpAt \in {"round", "reset"} => Len(lpRounds) = lpTurn /\ lpFeedback = lpTurn
    /\ lpAt \in {"turn", "judge"} => Len(lpRounds) = lpTurn - 1 /\ lpFeedback = lpTurn - 1
    /\ lpAt \in {"criteria", "missed"} => Len(lpRounds) = lpTurn /\ lpTurn > 0
    /\ lpAt = "criteria" => lpCriteria /\ LastRound.passed /\ LastRound.diff = lpDiff

MoneyInv ==
    lpAt = "turn" => lpBefore = lpSession /\ (lpKind = "auto" => lpSpent < Budget)

\* The rounds before this one that were as good as the one before them.
Stalled(n) == n >= 2 /\ SamePlace(lpRounds[n], lpRounds[n - 1])
Behind == IF lpAt \in {"criteria", "missed"} THEN Len(lpRounds) - 1 ELSE Len(lpRounds)
StallInv ==
    lpAt \in Running =>
        lpStall < StallLimit /\ \A n \in Behind - lpStall + 1 .. Behind : Stalled(n)

ModeInv ==
    /\ lpPlay \in {"none", "own"}
    /\ lpAt # "idle" => lpPlay = "none" /\ lpBorrowed = "own"

\* Done and stalled as they are of a loop that has judged a round, and enough of them.
EndInv ==
    /\ lpStop = "GoalMet" => Len(lpRounds) > 0
    /\ lpStop = "Stalled" => Len(lpRounds) > 3

LoopInv ==
    /\ LoopTypeOK /\ StopInv /\ RoundInv /\ MoneyInv /\ StallInv /\ ModeInv /\ EndInv
    /\ LoopsSound

LEMMA LoopInvInitially == LoopInit => LoopInv
<1> SUFFICES ASSUME LoopInit PROVE LoopInv
  OBVIOUS
<1> USE LoopAssumption DEF LoopInit
<1>1. lpRounds \in Seq(Verdict)
  OBVIOUS
<1>2. LoopTypeOK
  <2>1. lpKind \in Kinds /\ lpAt \in Running \cup {"idle", "final", "restore"} /\ lpDiff \in Trees
    BY DEF Kinds, Running, Trees
  <2>2. lpCriteria \in BOOLEAN
    BY Zenon
  <2>3. /\ lpTurn = 0 /\ lpFeedback = 0 /\ lpStall = 0
        /\ lpSession = 0 /\ lpBefore = 0 /\ lpSpent = 0 /\ lpCost = 0
    BY Zenon
  <2>4. 0 \in Nat /\ 0 \in Int
    OBVIOUS
  <2> HIDE DEF LoopInit
  <2> QED
    BY <1>1, <2>1, <2>2, <2>3, <2>4 DEF LoopTypeOK
<1>3. StopInv /\ RoundInv /\ MoneyInv /\ ModeInv /\ EndInv
  BY DEF StopInv, RoundInv, MoneyInv, ModeInv, EndInv, Running
<1>4. StallInv
  BY DEF StallInv, Running
<1>5. LoopsSound
  BY DEF LoopsSound, DoneIsDone, StallIsStall, BudgetHolds, FeedbackIsLatest, GivenBack
<1> QED
  BY <1>2, <1>3, <1>4, <1>5 DEF LoopInv

LEMMA StartLoopKeeps ==
  ASSUME LoopInv, NEW kind \in Kinds, NEW criteria \in BOOLEAN, StartLoop(kind, criteria)
  PROVE  LoopInv'
<1> USE LoopAssumption DEF LoopInv, LoopsSound, StartLoop, lpJudged, lpMoney, lpOuter
<1>1. LoopTypeOK'
  BY DEF LoopTypeOK, Running
<1>2. StopInv' /\ RoundInv' /\ MoneyInv' /\ EndInv'
  BY DEF LoopTypeOK, StopInv, RoundInv, MoneyInv, EndInv, Running
<1>3. StallInv'
  BY DEF LoopTypeOK, StopInv, StallInv, Behind, Running, StallLimit
<1>4. ModeInv' /\ GivenBack'
  BY DEF ModeInv, GivenBack
<1>5. DoneIsDone' /\ StallIsStall' /\ BudgetHolds' /\ FeedbackIsLatest'
  BY DEF LoopTypeOK, StopInv, DoneIsDone, StallIsStall, BudgetHolds, FeedbackIsLatest
<1> QED
  BY <1>1, <1>2, <1>3, <1>4, <1>5

LEMMA PlayKeeps ==
  ASSUME LoopInv, Play \/ PlayExit
  PROVE  LoopInv'
<1> USE LoopAssumption DEF LoopInv, LoopsSound, Play, PlayExit, lpJudged, lpMoney, lpOuter
<1>1. LoopTypeOK' /\ StopInv' /\ EndInv'
  BY DEF LoopTypeOK, StopInv, EndInv
<1>2. RoundInv' /\ MoneyInv' /\ StallInv'
  BY DEF RoundInv, MoneyInv, StallInv, Running
<1>3. ModeInv' /\ GivenBack'
  BY DEF ModeInv, GivenBack, LoopTypeOK
<1>4. DoneIsDone' /\ StallIsStall'
  BY DEF DoneIsDone, StallIsStall, LastRound
<1>5. BudgetHolds' /\ FeedbackIsLatest'
  BY DEF BudgetHolds, FeedbackIsLatest
<1> QED
  BY <1>1, <1>2, <1>3, <1>4, <1>5

LEMMA BeginRoundKeeps ==
  ASSUME LoopInv, BeginRound
  PROVE  LoopInv'
<1> USE LoopAssumption DEF LoopInv, LoopsSound, BeginRound, lpModes, lpJudged, lpOuter
<1>1. LoopTypeOK' /\ StopInv' /\ RoundInv' /\ EndInv'
  BY DEF LoopTypeOK, StopInv, RoundInv, EndInv, Running
<1>2. lpKind = "auto" => lpSpent < Budget
  BY DEF Bound, LoopTypeOK
<1>3. MoneyInv'
  BY <1>2 DEF MoneyInv
<1>4. StallInv'
  BY DEF StallInv, Behind, Stalled, Running
<1>5. ModeInv' /\ GivenBack' /\ FeedbackIsLatest'
  BY DEF ModeInv, GivenBack, FeedbackIsLatest, RoundInv, LoopTypeOK
<1>6. DoneIsDone' /\ StallIsStall'
  BY DEF DoneIsDone, StallIsStall, StopInv, Running
<1>7. BudgetHolds'
  <2>1. PICK last \in TurnCosts : last \in Nat
    OBVIOUS
  <2>2. lpKind = "auto" => lpSpent - last < Budget
    BY <1>2, <2>1 DEF LoopTypeOK
  <2> QED
    BY <2>2 DEF BudgetHolds
<1> QED
  BY <1>1, <1>3, <1>4, <1>5, <1>6, <1>7

\* A loop that goes to its end with a reason that is neither of those it has to
\* have earned.
LEMMA EndsOtherwise ==
  ASSUME LoopInv, lpAt \in Running, lpAt' = "final",
         lpStop' \in {"MaxRounds", "TurnError", "Interrupted", "DeadlineReached", "BudgetExhausted"},
         lpDiff' \in Trees,
         UNCHANGED <<lpKind, lpCriteria, lpModes, lpTurn, lpJudged, lpMoney, lpOuter, lpReport>>
  PROVE  LoopInv'
<1> USE LoopAssumption DEF LoopInv, LoopsSound, lpModes, lpJudged, lpMoney, lpOuter
<1>1. LoopTypeOK' /\ StopInv' /\ RoundInv' /\ MoneyInv' /\ EndInv'
  BY DEF LoopTypeOK, StopInv, RoundInv, MoneyInv, EndInv, Running
<1>2. StallInv' /\ ModeInv' /\ GivenBack' /\ FeedbackIsLatest'
  BY DEF StallInv, ModeInv, GivenBack, FeedbackIsLatest, Running
<1>3. DoneIsDone' /\ StallIsStall' /\ BudgetHolds'
  BY DEF DoneIsDone, StallIsStall, BudgetHolds
<1> QED
  BY <1>1, <1>2, <1>3

LEMMA NoMoreRoundsKeeps ==
  ASSUME LoopInv, NoMoreRounds
  PROVE  LoopInv'
<1>1. lpAt \in Running /\ lpAt' = "final" /\ lpStop = "MaxRounds"
  BY DEF LoopInv, StopInv, NoMoreRounds, Running
<1>2. lpStop' \in {"MaxRounds", "TurnError", "Interrupted", "DeadlineReached", "BudgetExhausted"}
  <2>1. CASE lpTurn < MaxRounds
    <3>1. lpTurn # MaxRounds
      BY <2>1, LoopAssumption DEF LoopInv, LoopTypeOK
    <3> QED
      BY <2>1, <3>1 DEF NoMoreRounds, Bound
  <2>2. CASE ~(lpTurn < MaxRounds)
    BY <1>1, <2>2 DEF NoMoreRounds
  <2> QED
    BY <2>1, <2>2
<1> QED
  BY <1>1, <1>2, EndsOtherwise DEF NoMoreRounds, LoopInv, LoopTypeOK

LEMMA FailureKeeps ==
  ASSUME LoopInv, TestsFail \/ \E diff \in Diffs : TurnFails(diff)
  PROVE  LoopInv'
  BY EndsOtherwise DEF TestsFail, TurnFails, LoopInv, LoopTypeOK, Running, Trees

LEMMA LoopTurnKeeps ==
  ASSUME LoopInv, NEW diff \in Diffs, NEW cost \in TurnCosts, LoopTurn(diff, cost)
  PROVE  LoopInv'
<1> USE LoopAssumption
        DEF LoopInv, LoopsSound, LoopTurn, SpentAfter, lpModes, lpJudged, lpOuter
<1>1. cost \in Nat
  OBVIOUS
<1>2. LoopTypeOK' /\ lpSpent' = lpSpent + cost
  BY <1>1 DEF LoopTypeOK, MoneyInv, Running, Trees
<1>3. StopInv' /\ RoundInv' /\ MoneyInv' /\ EndInv'
  BY DEF StopInv, RoundInv, MoneyInv, EndInv, Running
<1>4. StallInv' /\ ModeInv' /\ GivenBack' /\ FeedbackIsLatest'
  BY DEF StallInv, Behind, Stalled, ModeInv, GivenBack, FeedbackIsLatest, Running
<1>5. DoneIsDone' /\ StallIsStall'
  BY DEF DoneIsDone, StallIsStall, StopInv, Running
<1>6. BudgetHolds'
  <2>1. lpSpent' = lpCost'
    BY <1>2 DEF BudgetHolds
  <2>2. lpKind = "auto" => lpSpent' - cost < Budget
    BY <1>1, <1>2 DEF MoneyInv, LoopTypeOK
  <2> QED
    BY <2>1, <2>2 DEF BudgetHolds
<1> QED
  BY <1>2, <1>3, <1>4, <1>5, <1>6

LEMMA JudgeKeeps ==
  ASSUME LoopInv, NEW score \in 0..Pass, NEW parsed \in BOOLEAN, Judge(score, parsed)
  PROVE  LoopInv'
<1> DEFINE verdict == [score |-> score, passed |-> (parsed /\ score >= Pass), diff |-> lpDiff]
<1> USE LoopAssumption DEF LoopInv, LoopsSound, Judge, lpModes, lpMoney, lpOuter
<1>1. verdict \in Verdict /\ lpRounds' = Append(lpRounds, verdict)
  BY DEF Verdict, LoopTypeOK
<1>2. /\ lpRounds' \in Seq(Verdict) /\ Len(lpRounds') = Len(lpRounds) + 1
      /\ \A n \in 1..Len(lpRounds) : lpRounds'[n] = lpRounds[n]
      /\ lpRounds'[Len(lpRounds')] = verdict
      /\ Len(lpRounds) \in Nat
  BY <1>1 DEF LoopTypeOK
<1>3. LoopTypeOK'
  BY <1>2 DEF LoopTypeOK, Running
<1>4. /\ Len(lpRounds) = lpTurn - 1 /\ lpStop = "MaxRounds" /\ lpAt = "judge"
      /\ lpTurn \in Nat /\ lpFeedback \in Nat
  BY DEF RoundInv, StopInv, Running, LoopTypeOK
<1>5. StopInv' /\ MoneyInv' /\ EndInv'
  BY <1>2, <1>4 DEF StopInv, MoneyInv, EndInv, Running
<1>6. RoundInv'
  BY <1>2, <1>4 DEF RoundInv, LastRound, LoopTypeOK
<1>7. StallInv'
  <2>1. SUFFICES ASSUME lpAt' \in Running PROVE StallInv'
    BY DEF StallInv
  <2>2. lpAt' \in {"criteria", "missed"}
    BY <2>1 DEF Running
  <2>3. Behind' = Len(lpRounds) /\ Behind = Len(lpRounds)
    BY <1>2, <1>4, <2>2 DEF Behind
  <2>4. /\ lpStall < StallLimit /\ lpStall \in Nat
        /\ \A n \in Len(lpRounds) - lpStall + 1 .. Len(lpRounds) : Stalled(n)
    BY <1>4, <2>3 DEF StallInv, Running, LoopTypeOK
  <2>5. ASSUME NEW n \in Len(lpRounds) - lpStall + 1 .. Len(lpRounds) PROVE Stalled(n)'
    <3>1. Stalled(n) /\ n >= 2
      BY <2>4, <2>5 DEF Stalled
    <3>2. n \in 1..Len(lpRounds) /\ n - 1 \in 1..Len(lpRounds)
      BY <1>2, <2>4, <2>5, <3>1
    <3>3. lpRounds'[n] = lpRounds[n] /\ lpRounds'[n - 1] = lpRounds[n - 1]
      BY <1>2, <3>2
    <3> QED
      BY <3>1, <3>3 DEF Stalled
  <2> QED
    BY <2>3, <2>4, <2>5 DEF StallInv
<1>8. ModeInv' /\ GivenBack' /\ FeedbackIsLatest' /\ BudgetHolds'
  BY DEF ModeInv, GivenBack, FeedbackIsLatest, BudgetHolds
<1>9. DoneIsDone'
  BY <1>2, <1>4 DEF DoneIsDone, LastRound
<1>10. StallIsStall'
  BY <1>4 DEF StallIsStall
<1> QED
  BY <1>3, <1>5, <1>6, <1>7, <1>8, <1>9, <1>10

LEMMA CriteriaKeeps ==
  ASSUME LoopInv, NEW met \in BOOLEAN, Criteria(met)
  PROVE  LoopInv'
<1> USE LoopAssumption DEF LoopInv, LoopsSound, Criteria, lpModes, lpMoney, lpOuter
<1>1. LoopTypeOK' /\ Len(lpRounds) \in Nat
  BY DEF LoopTypeOK, Running
<1>2. StopInv' /\ RoundInv' /\ MoneyInv'
  BY DEF StopInv, RoundInv, MoneyInv, Running
<1>3. EndInv'
  BY DEF EndInv, RoundInv, StopInv, Running, LoopTypeOK
<1>4. StallInv'
  BY DEF StallInv, Behind, Stalled, Running
<1>5. ModeInv' /\ GivenBack' /\ FeedbackIsLatest' /\ BudgetHolds'
  BY DEF ModeInv, GivenBack, FeedbackIsLatest, BudgetHolds
<1>6. DoneIsDone'
  BY DEF DoneIsDone, RoundInv, LastRound, StopInv, Running
<1>7. StallIsStall'
  BY DEF StallIsStall, StopInv, Running
<1> QED
  BY <1>1, <1>2, <1>3, <1>4, <1>5, <1>6, <1>7

LEMMA MissedKeeps ==
  ASSUME LoopInv, Missed
  PROVE  LoopInv'
<1> DEFINE stalled == Len(lpRounds) > 1 /\ SamePlace(LastRound, lpRounds[Len(lpRounds) - 1])
           stall   == IF lpKind = "auto" /\ stalled THEN lpStall + 1 ELSE 0
<1> USE LoopAssumption DEF LoopInv, LoopsSound, Missed, lpModes, lpMoney, lpOuter
<1>1. /\ lpAt = "missed" /\ lpStop = "MaxRounds" /\ lpTurn > 0 /\ Len(lpRounds) = lpTurn
      /\ lpStall \in Nat /\ lpTurn \in Nat /\ lpStall < 3 /\ Len(lpRounds) \in Nat
      /\ Behind = Len(lpRounds) - 1
  BY DEF LoopTypeOK, StopInv, RoundInv, StallInv, StallLimit, Running, Behind
<1>2. /\ lpStall' = stall /\ stall \in Nat /\ lpFeedback' = Len(lpRounds)
      /\ lpAt' \in {"final", "round", "reset"} /\ lpStop' \in {"Stalled", "MaxRounds"}
      /\ lpStop' = "Stalled" <=> stall = 3
      /\ lpAt' = "final" <=> stall = 3
  BY <1>1 DEF StallLimit
<1>3. LoopTypeOK'
  BY <1>1, <1>2 DEF LoopTypeOK, Running
<1>4. \A n \in Len(lpRounds) - stall + 1 .. Len(lpRounds) : Stalled(n)
  <2>1. CASE ~(lpKind = "auto" /\ stalled)
    BY <1>1, <2>1
  <2>2. CASE lpKind = "auto" /\ stalled
    <3>1. Stalled(Len(lpRounds))
      BY <1>1, <2>2 DEF Stalled, LastRound
    <3>2. \A n \in Len(lpRounds) - 1 - lpStall + 1 .. Len(lpRounds) - 1 : Stalled(n)
      BY <1>1 DEF StallInv, Running
    <3>3. ASSUME NEW n \in Len(lpRounds) - stall + 1 .. Len(lpRounds) PROVE Stalled(n)
      <4>1. CASE n = Len(lpRounds)
        BY <3>1, <4>1
      <4>2. CASE n # Len(lpRounds)
        BY <1>1, <2>2, <3>2, <3>3, <4>2
      <4> QED
        BY <4>1, <4>2
    <3> QED
      BY <3>3
  <2> QED
    BY <2>1, <2>2
<1>5. stall <= 3
  BY <1>1
<1>6. stall = 3 => Len(lpRounds) > 3
  <2>1. SUFFICES ASSUME stall = 3 PROVE Len(lpRounds) > 3
    OBVIOUS
  <2>2. Len(lpRounds) - 2 \in Len(lpRounds) - stall + 1 .. Len(lpRounds)
    BY <1>1, <2>1
  <2>3. Stalled(Len(lpRounds) - 2)
    BY <1>4, <2>2
  <2> QED
    BY <1>1, <2>3 DEF Stalled
<1>7. StopInv' /\ RoundInv' /\ MoneyInv' /\ EndInv'
  BY <1>1, <1>2, <1>6 DEF StopInv, RoundInv, MoneyInv, EndInv, Running
<1>8. StallInv'
  <2>1. SUFFICES ASSUME lpAt' \in Running PROVE StallInv'
    BY DEF StallInv
  <2>2. Behind' = Len(lpRounds) /\ stall < 3
    BY <1>1, <1>2, <1>5, <2>1 DEF Behind, Running
  <2>3. \A n \in Len(lpRounds) - stall + 1 .. Len(lpRounds) : Stalled(n)'
    BY <1>4 DEF Stalled
  <2> QED
    BY <1>2, <2>2, <2>3 DEF StallInv, StallLimit
<1>9. ModeInv' /\ GivenBack' /\ FeedbackIsLatest' /\ BudgetHolds'
  BY <1>1, <1>2 DEF ModeInv, GivenBack, FeedbackIsLatest, BudgetHolds
<1>10. DoneIsDone'
  BY <1>2 DEF DoneIsDone
<1>11. StallIsStall'
  <2>1. SUFFICES ASSUME lpStop' = "Stalled",
                        NEW n \in Len(lpRounds) - 2 .. Len(lpRounds)
                 PROVE  Stalled(n)
    BY DEF StallIsStall, Stalled, SamePlace
  <2>2. n \in Len(lpRounds) - stall + 1 .. Len(lpRounds)
    BY <1>1, <1>2, <2>1
  <2> QED
    BY <1>4, <2>2
<1> QED
  BY <1>3, <1>7, <1>8, <1>9, <1>10, <1>11

LEMMA ResetKeeps ==
  ASSUME LoopInv, Reset
  PROVE  LoopInv'
<1> USE LoopAssumption DEF LoopInv, LoopsSound, Reset, lpModes, lpJudged, lpOuter
<1>1. LoopTypeOK' /\ StopInv' /\ RoundInv' /\ MoneyInv' /\ EndInv'
  BY DEF LoopTypeOK, StopInv, RoundInv, MoneyInv, EndInv, Running
<1>2. StallInv'
  BY DEF StallInv, Behind, Stalled, Running
<1>3. ModeInv' /\ GivenBack' /\ FeedbackIsLatest' /\ BudgetHolds'
  BY DEF ModeInv, GivenBack, FeedbackIsLatest, BudgetHolds
<1>4. DoneIsDone' /\ StallIsStall'
  BY DEF DoneIsDone, StallIsStall, LastRound
<1> QED
  BY <1>1, <1>2, <1>3, <1>4

LEMMA CheckFinallyKeeps ==
  ASSUME LoopInv, NEW met \in BOOLEAN, CheckFinally(met)
  PROVE  LoopInv'
<1> USE LoopAssumption DEF LoopInv, LoopsSound, CheckFinally, lpModes, lpMoney, lpOuter
<1>1. LoopTypeOK' /\ StopInv' /\ RoundInv' /\ MoneyInv' /\ EndInv'
  BY DEF LoopTypeOK, StopInv, RoundInv, MoneyInv, EndInv, Running
<1>2. StallInv' /\ ModeInv' /\ GivenBack' /\ FeedbackIsLatest' /\ BudgetHolds'
  BY DEF StallInv, ModeInv, GivenBack, FeedbackIsLatest, BudgetHolds, Running
<1>3. lpStop # "GoalMet"
  BY DEF FinalCheck, DoneIsDone, NotChecked
<1>4. DoneIsDone' /\ StallIsStall'
  BY <1>3 DEF DoneIsDone, StallIsStall
<1> QED
  BY <1>1, <1>2, <1>4

LEMMA RestoreKeeps ==
  ASSUME LoopInv, Restore
  PROVE  LoopInv'
<1> USE LoopAssumption DEF LoopInv, LoopsSound, Restore, lpJudged, lpMoney, lpOuter
<1>1. LoopTypeOK' /\ StopInv' /\ RoundInv' /\ MoneyInv' /\ EndInv'
  BY DEF LoopTypeOK, StopInv, RoundInv, MoneyInv, EndInv, Running
<1>2. StallInv' /\ FeedbackIsLatest' /\ BudgetHolds'
  BY DEF StallInv, FeedbackIsLatest, BudgetHolds, Running
<1>3. ModeInv' /\ GivenBack'
  BY DEF ModeInv, GivenBack
<1>4. DoneIsDone' /\ StallIsStall'
  BY DEF DoneIsDone, StallIsStall, LastRound
<1> QED
  BY <1>1, <1>2, <1>3, <1>4

LEMMA OutsideKeeps ==
  ASSUME LoopInv, CtrlC \/ LoopDeadline \/ UNCHANGED lpVars
  PROVE  LoopInv'
<1> USE DEF LoopInv, LoopsSound, CtrlC, LoopDeadline, World, lpVars, lpModes, lpJudged, lpMoney
<1>1. LoopTypeOK' /\ StopInv' /\ RoundInv' /\ MoneyInv' /\ EndInv'
  BY SMTT(30) DEF LoopTypeOK, StopInv, RoundInv, LastRound, MoneyInv, EndInv
<1>2. StallInv'
  BY DEF StallInv, Behind, Stalled
<1>3. ModeInv' /\ GivenBack' /\ FeedbackIsLatest' /\ BudgetHolds'
  BY DEF ModeInv, GivenBack, FeedbackIsLatest, BudgetHolds
<1>4. DoneIsDone' /\ StallIsStall'
  BY DEF DoneIsDone, StallIsStall, LastRound
<1> QED
  BY <1>1, <1>2, <1>3, <1>4

\* What the loops promise, for any number of rounds, any budget, costs and scores.
THEOREM LoopsAlwaysSound == LoopSpec => []LoopsSound
<1>1. LoopInit => LoopInv
  BY LoopInvInitially
<1>2. LoopInv /\ [LoopNext]_lpVars => LoopInv'
  <2> SUFFICES ASSUME LoopInv, [LoopNext]_lpVars PROVE LoopInv'
    OBVIOUS
  <2>1. ASSUME NEW kind \in Kinds, NEW criteria \in BOOLEAN, StartLoop(kind, criteria) PROVE LoopInv'
    BY <2>1, StartLoopKeeps
  <2>2. CASE Play \/ PlayExit
    BY <2>2, PlayKeeps
  <2>3. CASE BeginRound
    BY <2>3, BeginRoundKeeps
  <2>4. CASE NoMoreRounds
    BY <2>4, NoMoreRoundsKeeps
  <2>5. CASE TestsFail \/ \E diff \in Diffs : TurnFails(diff)
    BY <2>5, FailureKeeps
  <2>6. ASSUME NEW diff \in Diffs, NEW cost \in TurnCosts, LoopTurn(diff, cost) PROVE LoopInv'
    BY <2>6, LoopTurnKeeps
  <2>7. ASSUME NEW score \in 0..Pass, NEW parsed \in BOOLEAN, Judge(score, parsed) PROVE LoopInv'
    BY <2>7, JudgeKeeps
  <2>8. ASSUME NEW met \in BOOLEAN, Criteria(met) PROVE LoopInv'
    BY <2>8, CriteriaKeeps
  <2>9. CASE Missed
    BY <2>9, MissedKeeps
  <2>10. CASE Reset
    BY <2>10, ResetKeeps
  <2>11. ASSUME NEW met \in BOOLEAN, CheckFinally(met) PROVE LoopInv'
    BY <2>11, CheckFinallyKeeps
  <2>12. CASE Restore
    BY <2>12, RestoreKeeps
  <2>13. CASE CtrlC \/ LoopDeadline \/ UNCHANGED lpVars
    BY <2>13, OutsideKeeps
  <2> QED
    BY <2>1, <2>2, <2>3, <2>4, <2>5, <2>6, <2>7, <2>8, <2>9, <2>10, <2>11, <2>12, <2>13
    DEF LoopNext, LoopStep
<1>3. LoopInv => LoopsSound
  BY DEF LoopInv
<1> QED
  BY <1>1, <1>2, <1>3, PTL DEF LoopSpec

-----------------------------------------------------------------------------
(* ActiveModel *)

ModelNames == Backends \cup Names \cup {FusionName}
Configs    == [backend : Backends, override : ModelNames \cup {Default}]
Coders     == [backend : Backends, model : Names]

AmTypeOK ==
    /\ amConfig \in Configs /\ amClient \in Backends /\ amModel \in ModelNames
    /\ amRoutes \in Seq(Coders) /\ amRoute \in 0..Len(amRoutes)
    /\ amPlay # <<>> => amPlay[1] \in Configs

\* The client and the model are those of the configuration, unless a play session or
\* a failed /doctor left them apart, ...
Together ==
    ~amLeft => /\ amClient = amConfig.backend
               /\ amModel = NameOf(amConfig.backend, amConfig.override)

\* ... and the active route's, unless the model changed under it.
OnRoute ==
    /\ amLeft => amTuned \/ amRoute = 0
    /\ ~amLeft /\ ~amTuned /\ amRoute # 0 =>
         amRoutes[amRoute] = [backend |-> amClient, model |-> amModel]

AmInv == AmTypeOK /\ Together /\ OnRoute

LEMMA NamesOfModels ==
  ASSUME NEW b \in Backends, NEW override \in ModelNames \cup {Default}
  PROVE  /\ NameOf(b, override) \in ModelNames
         /\ NameOf(b, NameOf(b, override)) = NameOf(b, override)
  BY ModelAssumption DEF NameOf, ModelNames

LEMMA AmInvInitially == AmInit => AmInv
<1> SUFFICES ASSUME NEW b \in OpenBackends,
                    amConfig = [backend |-> b, override |-> Default],
                    amClient = b, amModel = NameOf(b, Default),
                    amRoute = 0, amRoutes = <<>>, amPlay = <<>>, amLeft = FALSE
             PROVE  AmInv
  BY DEF AmInit
<1>1. b \in Backends
  BY ModelAssumption
<1> QED
  BY <1>1, NamesOfModels DEF AmInv, AmTypeOK, Together, OnRoute, Configs

\* A command that changes everything together, and ends the active route.
LEMMA ActiveKeeps ==
  ASSUME AmInv, NEW b \in Backends, NEW override \in ModelNames \cup {Default},
         Active(b, override), amRoute' = 0, UNCHANGED <<amRoutes, amPlay>>
  PROVE  AmInv'
<1>1. amConfig' \in Configs /\ amModel' \in ModelNames
  BY NamesOfModels DEF Active, Configs
<1> QED
  BY <1>1 DEF Active, AmInv, AmTypeOK, Together, OnRoute

\* One that changes the name of the model.
LEMMA RenameKeeps ==
  ASSUME AmInv, NEW override \in ModelNames \cup {Default},
         amConfig' = [amConfig EXCEPT !.override = override],
         amModel' = NameOf(amClient, override), amRoute' = 0,
         UNCHANGED <<amClient, amRoutes, amPlay, amLeft>>
  PROVE  AmInv'
<1>1. amConfig' \in Configs /\ amModel' \in ModelNames
  BY NamesOfModels DEF AmInv, AmTypeOK, Configs
<1>2. amConfig'.backend = amConfig.backend /\ amConfig'.override = override
  BY DEF AmInv, AmTypeOK, Configs
<1> QED
  BY <1>1, <1>2 DEF AmInv, AmTypeOK, Together, OnRoute

LEMMA PinModelKeeps == ASSUME AmInv, PinModel PROVE AmInv'
<1> USE DEF AmInv, PinModel
<1>1. /\ amConfig' \in Configs
      /\ amConfig'.backend = amConfig.backend /\ amConfig'.override = amModel
  BY DEF AmTypeOK, Configs
<1>2. AmTypeOK' /\ OnRoute'
  BY <1>1 DEF AmTypeOK, OnRoute
<1>3. Together'
  <2> SUFFICES ASSUME ~amLeft PROVE amClient = amConfig'.backend
                                    /\ amModel = NameOf(amConfig'.backend, amConfig'.override)
    BY DEF Together
  <2>1. amConfig.backend \in Backends /\ amConfig.override \in ModelNames \cup {Default}
    BY DEF AmTypeOK, Configs
  <2> QED
    BY <1>1, <2>1, NamesOfModels DEF Together
<1> QED
  BY <1>2, <1>3

LEMMA FusionOffKeeps == ASSUME AmInv, FusionOff PROVE AmInv'
<1> DEFINE override == IF amConfig = [backend |-> Router, override |-> FusionName]
                       THEN Default ELSE amConfig.override
<1>1. override \in ModelNames \cup {Default}
  BY DEF AmInv, AmTypeOK, Configs
<1>2. /\ amConfig' = [amConfig EXCEPT !.override = override]
      /\ amModel' = NameOf(amClient, override) /\ amRoute' = 0
      /\ UNCHANGED <<amClient, amRoutes, amPlay, amLeft>>
  BY DEF FusionOff
<1> HIDE DEF override
<1> QED
  BY <1>1, <1>2, RenameKeeps

\* A decision goes to the end of the ledger, whether its coder can be used or not.
LEMMA RouteSelectKeeps ==
  ASSUME AmInv, NEW b \in Backends, NEW m \in Names, RouteSelect(b, m)
  PROVE  AmInv'
<1> DEFINE coder == [backend |-> b, model |-> m]
           route == Len(amRoutes) + 1
<1> USE DEF AmInv
<1>1. /\ amRoutes' = Append(amRoutes, coder) /\ ApplyModelRef(b, m, route)
      /\ UNCHANGED amPlay
  BY DEF RouteSelect
<1>2. /\ amRoutes' \in Seq(Coders) /\ Len(amRoutes') = Len(amRoutes) + 1
      /\ amRoutes'[route] = coder
      /\ \A r \in 1..Len(amRoutes) : amRoutes'[r] = amRoutes[r]
  BY <1>1 DEF AmTypeOK, Coders
<1>3. Len(amRoutes) \in Nat
  BY DEF AmTypeOK
<1>4. CASE Usable(b)
  <2>1. Active(b, m) /\ amRoute' = route
    BY <1>1, <1>4 DEF ApplyModelRef
  <2>2. m \in ModelNames /\ NameOf(b, m) = m
    BY ModelAssumption DEF ModelNames, NameOf
  <2>3. amConfig' \in Configs /\ amConfig' = [backend |-> b, override |-> m]
        /\ amClient' = b /\ amModel' = m /\ amTuned' = FALSE /\ amLeft' = FALSE
    BY <2>1, <2>2 DEF Active, Configs
  <2>4. AmTypeOK'
    BY <1>1, <1>2, <1>3, <2>1, <2>2, <2>3 DEF AmTypeOK
  <2>5. Together' /\ OnRoute'
    BY <1>2, <2>1, <2>2, <2>3 DEF Together, OnRoute
  <2> QED
    BY <2>4, <2>5
<1>5. CASE ~Usable(b)
  <2>1. UNCHANGED <<amConfig, amClient, amModel, amRoute, amTuned, amLeft>>
    BY <1>1, <1>5 DEF ApplyModelRef
  <2>2. AmTypeOK'
    BY <1>1, <1>2, <1>3, <2>1 DEF AmTypeOK
  <2>3. Together'
    BY <2>1 DEF Together
  <2>4. OnRoute'
    <3> HIDE DEF coder, route
    <3>1. amRoute # 0 => amRoutes'[amRoute] = amRoutes[amRoute]
      BY <1>2, <1>3 DEF AmTypeOK
    <3> QED
      BY <2>1, <3>1 DEF OnRoute
  <2> QED
    BY <2>2, <2>3, <2>4
<1> QED
  BY <1>4, <1>5

LEMMA DoctorKeeps ==
  ASSUME AmInv, NEW b \in Backends, NEW m \in Names, Doctor(b, m)
  PROVE  AmInv'
<1> USE DEF AmInv, Doctor
<1>1. m \in ModelNames /\ amConfig' \in Configs /\ NameOf(b, m) \in ModelNames
  BY NamesOfModels DEF ModelNames, Configs
<1>2. AmTypeOK'
  BY <1>1 DEF AmTypeOK
<1>3. Together' /\ OnRoute'
  BY <1>1 DEF Together, OnRoute
<1> QED
  BY <1>2, <1>3

LEMMA LoginKeeps ==
  ASSUME AmInv, NEW b \in Backends, LoginTo(b)
  PROVE  AmInv'
<1> USE DEF AmInv
<1>1. /\ UNCHANGED <<amConfig, amRoute, amRoutes, amPlay, amTuned>>
      /\ \/ /\ amClient' = amConfig.backend /\ amLeft' = FALSE
            /\ amModel' = NameOf(amConfig.backend, amConfig.override)
         \/ UNCHANGED <<amClient, amModel, amLeft>>
  BY DEF LoginTo
<1>2. amConfig.backend \in Backends /\ NameOf(amConfig.backend, amConfig.override) \in ModelNames
  BY NamesOfModels DEF AmTypeOK, Configs
<1>3. AmTypeOK'
  BY <1>1, <1>2 DEF AmTypeOK
<1>4. Together' /\ OnRoute'
  BY <1>1 DEF Together, OnRoute
<1> QED
  BY <1>3, <1>4

LEMMA PlayEndsKeeps ==
  ASSUME AmInv, PlayEnds, amRoute' \in {0, amRoute}
  PROVE  AmInv'
<1> USE DEF AmInv
<1>1. AmTypeOK'
  BY DEF AmTypeOK, PlayEnds
<1>2. /\ amLeft' <=> amLeft \/ amPlay[1] # amConfig
      /\ amTuned' <=> amTuned \/ amPlay[1] # amConfig
      /\ amConfig' = amPlay[1] /\ UNCHANGED <<amClient, amModel, amRoutes>>
  BY Zenon DEF PlayEnds
<1>3. Together'
  BY <1>2 DEF Together
<1>4. OnRoute'
  BY <1>2 DEF OnRoute
<1> QED
  BY <1>1, <1>3, <1>4

LEMMA SameModelKeeps ==
  ASSUME AmInv, amRoute' \in {0, amRoute}, amPlay' \in {amPlay, <<amConfig>>},
         UNCHANGED <<amConfig, amClient, amModel, amRoutes, amTuned, amLeft>>
  PROVE  AmInv'
<1> USE DEF AmInv
<1>1. amPlay' # <<>> => amPlay'[1] \in Configs
  <2>1. <<amConfig>>[1] = amConfig /\ amConfig \in Configs
    BY DEF AmTypeOK
  <2>2. CASE amPlay' = amPlay
    BY <2>2 DEF AmTypeOK
  <2>3. CASE amPlay' = <<amConfig>>
    BY <2>1, <2>3
  <2> QED
    BY <2>2, <2>3
<1>2. amRoute' \in 0..Len(amRoutes')
  BY DEF AmTypeOK
<1>3. AmTypeOK'
  BY <1>1, <1>2 DEF AmTypeOK
<1>4. Together'
  BY DEF Together
<1>5. OnRoute'
  BY DEF OnRoute
<1> QED
  BY <1>3, <1>4, <1>5

LEMMA CommandKeeps == ASSUME AmInv, Command PROVE AmInv'
<1>1. ASSUME NEW b \in Backends, LoginTo(b) \/ Logout(b) PROVE AmInv'
  BY <1>1, LoginKeeps, SameModelKeeps DEF Logout
<1>2. ASSUME NEW b \in Backends,
             NEW o \in {Default, FusionName} \cup (IF b = Router THEN Names ELSE {}),
             Provider(b, o)
      PROVE  AmInv'
  <2>1. o \in ModelNames \cup {Default}
    BY DEF ModelNames
  <2> QED
    BY <1>2, <2>1, ActiveKeeps DEF Provider
<1>3. ASSUME NEW b \in Backends, NEW o \in Names \cup {Default}, Setup(b, o) PROVE AmInv'
  <2>1. o \in ModelNames \cup {Default}
    BY DEF ModelNames
  <2> QED
    BY <1>3, <2>1, ActiveKeeps DEF Setup
<1>4. ASSUME NEW b \in Backends, NEW m \in Names, RouteApply(b, m) PROVE AmInv'
  <2>1. m \in ModelNames \cup {Default} /\ UNCHANGED <<amRoutes, amPlay>>
    BY <1>4 DEF ModelNames, RouteApply
  <2>2. CASE Usable(b)
    BY <1>4, <2>1, <2>2, ActiveKeeps DEF RouteApply, ApplyModelRef
  <2>3. CASE ~Usable(b)
    BY <1>4, <2>1, <2>3, SameModelKeeps DEF RouteApply, ApplyModelRef
  <2> QED
    BY <2>2, <2>3
<1>5. ASSUME NEW m \in Names, Model(m) PROVE AmInv'
  <2>1. m \in ModelNames \cup {Default}
    BY DEF ModelNames
  <2> QED
    BY <1>5, <2>1, RenameKeeps DEF Model
<1>6. CASE PlayBegins \/ PlayExits
  BY <1>6, SameModelKeeps, PlayEndsKeeps DEF PlayBegins, PlayExits
<1>7. CASE New
  BY <1>7, SameModelKeeps, PlayEndsKeeps DEF New
<1> QED
  BY <1>1, <1>2, <1>3, <1>4, <1>5, <1>6, <1>7, RouteSelectKeeps, DoctorKeeps, PinModelKeeps,
     FusionOffKeeps DEF Command

\* ModelSound, of any backends and models, and however many commands come before:
\* a turn is priced as the backend it asked, and put down to a routing decision only if
\* that decision's coder answered.
THEOREM ModelAlwaysSound == AmSpec => ModelSound
<1>1. AmInv /\ [AmNext]_amVars => AmInv'
  <2> SUFFICES ASSUME AmInv, [AmNext]_amVars PROVE AmInv'
    OBVIOUS
  <2>1. CASE UNCHANGED amVars \/ \E tested \in BOOLEAN : UserTurn(tested)
    BY <2>1, SameModelKeeps DEF amVars, UserTurn
  <2> QED
    BY <2>1, CommandKeeps DEF AmNext
<1>2. ASSUME AmInv, NEW tested \in BOOLEAN, UserTurn(tested), ~amLeft
      PROVE  /\ amTurn'.priced = amTurn'.client
             /\ ~amTuned => \A r \in {amTurn'.call, amTurn'.outcome} \ {0} :
                  amRoutes[r] = [backend |-> amTurn'.client, model |-> amTurn'.model]
  <2>1. /\ amTurn'.client = amClient /\ amTurn'.model = amModel
        /\ amTurn'.priced = amConfig.backend /\ amTurn'.call = RouteOfCall
        /\ amTurn'.outcome \in {0, amRoute}
    BY <1>2 DEF UserTurn
  <2>2. RouteOfCall \in {0, amRoute}
    BY DEF RouteOfCall
  <2> QED
    BY <1>2, <2>1, <2>2 DEF AmInv, Together, OnRoute
<1>3. AmInv /\ [AmNext]_amVars =>
        [amTurn' # <<>> /\ ~amLeft => amTurn'.priced = amTurn'.client]_amVars
  BY <1>2 DEF AmNext, amVars
<1>4. AmInv /\ [AmNext]_amVars =>
        [amTurn' # <<>> /\ ~amLeft /\ ~amTuned =>
           \A r \in {amTurn'.call, amTurn'.outcome} \ {0} :
             amRoutes[r] = [backend |-> amTurn'.client, model |-> amTurn'.model]]_amVars
  BY <1>2 DEF AmNext, amVars
<1> QED
  BY <1>1, <1>3, <1>4, AmInvInitially, PTL DEF AmSpec, ModelSound, PricedAsAsked, RouteAnswered

-----------------------------------------------------------------------------
(* StreamAssembly *)

\* The index of call c in tool_calls, whether it has an entry, and what is on its way.
Ix(c) == IF smForm = "bare" THEN c - 1 ELSE c
Heard(c) == Ix(c) \in DOMAIN smCalls
About(kind, c) == smSent # <<>> /\ smSent[1].kind = kind /\ smSent[1].call = c

\* Its end has been read; the parts of it that were; and the events are still counted.
Handled(c) == c \in smOver /\ ~About("end", c)
Taken(c) == IF About("part", c) THEN smParts[c] - 1 ELSE smParts[c]
Live == smEnd \in {"open", "done"} \/ smSent # <<>>

CallOf(id, k) == [id |-> id, name |-> IF id = 0 THEN <<>> ELSE <<id>>, args |-> Parts(k)]

\* What a provider has sent before it says that it is done.
AllSent ==
    /\ DOMAIN smMeant \subseteq IF smForm = "chat" THEN smBegun ELSE smOver
    /\ smForm = "chat" => smParts = smMeant

SentTypes ==
    /\ smForm \in {"chat", "anthropic", "codex", "bare"}
    /\ Len(smMeant) \in Nat /\ smMeant \in [1..Len(smMeant) -> Nat]
    /\ smKnown \in BOOLEAN /\ smLine \in BOOLEAN /\ smHeld \in BOOLEAN /\ smInline \in BOOLEAN
    /\ smEnd \in {"open", "closed", "done", "eof", "failed"}
    /\ smParts \in [DOMAIN smMeant -> Nat]
    /\ smBegun \subseteq DOMAIN smMeant /\ smOver \subseteq smBegun
    /\ smTokens \in Nat /\ smText \in Nat /\ smShown \in Nat /\ smNext \in Nat

\* The provider keeps its order.
Orderly ==
    /\ smSays = "json" => smMeant = <<>>
    /\ \A c \in DOMAIN smMeant : smParts[c] <= smMeant[c] /\ (c \notin smBegun => smParts[c] = 0)
    /\ \A c \in smBegun : 1..c-1 \subseteq smBegun /\ (smForm = "anthropic" => 1..c-1 \subseteq smOver)
    /\ smForm = "anthropic" => \A c \in smOver : smParts[c] = smMeant[c]
    /\ smForm = "chat" => smOver = {}
    /\ smEnd = "done" => AllSent

\* An event on its way is the last thing that was sent.
EventSound(e) ==
    \/ \E n \in 1..CallTokens : e = Event("text", 0, n)
    \/ e = Event("done", 0, 0) /\ AllSent
    \/ \E c \in smBegun \ smOver :
          \/ e = Event("begin", c, 0) /\ ~Heard(c) /\ smParts[c] = 0
          \/ /\ e = Event("part", c, smParts[c]) /\ smParts[c] >= 1
             /\ ~Heard(c) => smForm = "bare" /\ smParts[c] = 1
    \/ \E c \in smOver : e = Event("end", c, smMeant[c]) /\ Heard(c)

SentSound ==
    /\ smSent # <<>> => \E e \in {smSent[1]} : smSent = <<e>> /\ EventSound(e)
    /\ smEnd \in {"done", "eof", "failed"} => smSent = <<>>
    /\ smLine => smSent # <<>>

\* Every entry is of one call that was begun, and has its first parts.
CallsSound ==
    /\ smCalls = [i \in DOMAIN smCalls |-> smCalls[i]]
    /\ DOMAIN smCalls \subseteq {Ix(c) : c \in smBegun}
    /\ \A c \in smBegun : Heard(c) =>
          \E k \in 0..smMeant[c], id \in {0, c} :
             smCalls[Ix(c)] = CallOf(id, k) /\ (id = 0 => smForm = "bare")

\* All that was sent has been read, but for the event on its way.
Progress ==
    Live => \A c \in smBegun :
       IF Heard(c) THEN /\ smCalls[Ix(c)].args = Parts(IF Handled(c) THEN smMeant[c] ELSE Taken(c))
                        /\ Handled(c) => smCalls[Ix(c)].id = c
       ELSE About("begin", c) \/ About("part", c)

\* codex: the items are the calls, and a bare stream's index counts them.
HeardCalls == {c \in smBegun : Heard(c)}
ItemFor(c) ==
    LET call == smCalls[Ix(c)]
    IN  [index |-> Ix(c), id |-> call.id, name |-> call.id, args |-> call.args]

ItemsSound ==
    /\ Codex => smItems = [c \in HeardCalls |-> ItemFor(c)]
    /\ smForm = "bare" => HeardCalls = 1..smNext

\* anthropic: the open blocks are the calls that were not ended, and the others are
\* kept in their order.
BlocksSound ==
    smForm = "anthropic" /\ Live =>
       /\ smJson = [c \in {c \in HeardCalls : ~Handled(c)} |-> smCalls[c].args]
       /\ \E n \in 0..Len(smMeant) : /\ smBlocks = [i \in 1..n |-> <<i, Whole(i)>>]
                                       /\ {c \in smOver : Handled(c)} = 1..n

\* Text that is held has not been shown.
TextSound ==
    /\ smHeld => smSays = "json"
    /\ smEnd \in {"open", "closed"} => smShown = IF smHeld THEN 0 ELSE smText
    /\ smEnd \in {"done", "eof"} => smShown = IF smInline THEN 0 ELSE smText

\* The inductive invariant.
SmInv == SentTypes /\ Orderly /\ SentSound /\ CallsSound /\ Progress /\ ItemsSound /\ BlocksSound /\ TextSound

\* The first k parts are a sequence of k parts, and the next one makes it k + 1.
LEMMA PartsType == \A k \in Nat : Parts(k) \in Seq(Nat) /\ Len(Parts(k)) = k /\ DOMAIN Parts(k) = 1..k
<1> TAKE k \in Nat
<1>1. Parts(k) \in [1..k -> Nat] BY DEF Parts
<1> QED BY <1>1

LEMMA PartsNone == Parts(0) = <<>> /\ \A k \in Nat : (Parts(k) = <<>> => k = 0) /\ Parts(k) \o <<>> = Parts(k)
<1>1. Parts(0) = <<>> BY PartsType
<1> QED BY <1>1, PartsType

LEMMA PartsGrow ==
    \A k \in Nat : Append(Parts(k), k + 1) = Parts(k + 1) /\ Parts(k) \o <<k + 1>> = Parts(k + 1)
<1> TAKE k \in Nat
<1> k + 1 \in Nat OBVIOUS
<1> DEFINE s == Parts(k)  t == Parts(k + 1)
<1>1. s \in Seq(Nat) /\ Len(s) = k /\ t \in Seq(Nat) /\ Len(t) = k + 1 BY PartsType
<1>2. (\A i \in 1..k : s[i] = i) /\ \A i \in 1..k + 1 : t[i] = i BY DEF Parts
<1> HIDE DEF s, t
<1>3. Append(s, k + 1) = t
  <2>1. Append(s, k + 1) \in Seq(Nat) /\ Len(Append(s, k + 1)) = k + 1 BY <1>1
  <2>2. \A i \in 1..k + 1 : Append(s, k + 1)[i] = t[i] BY <1>1, <1>2
  <2> QED BY <1>1, <2>1, <2>2, SeqEqual
<1>4. s \o <<k + 1>> = t
  <2>1. s \o <<k + 1>> = Append(s, k + 1) BY <1>1, AppendIsConcat
  <2> QED BY <1>3, <2>1
<1> QED BY <1>3, <1>4 DEF s, t

LEMMA PartsPrefix == \A n \in Nat : \A k \in 0..n : IsPrefix(Parts(k), Parts(n))
<1> TAKE n \in Nat
<1> TAKE k \in 0..n
<1> DEFINE s == Parts(k)  t == Parts(n)
<1>1. s \in Seq(Nat) /\ Len(s) = k /\ t \in Seq(Nat) /\ Len(t) = n BY PartsType
<1>2. (\A i \in 1..k : s[i] = i) /\ \A i \in 1..n : t[i] = i BY DEF Parts
<1> HIDE DEF s, t
<1>3. SubSeq(s, 1, Len(s)) = SubSeq(t, 1, Len(s))
  <2>1. SubSeq(s, 1, k) \in Seq(Nat) /\ SubSeq(t, 1, k) \in Seq(Nat)
        /\ Len(SubSeq(s, 1, k)) = k /\ Len(SubSeq(t, 1, k)) = k BY <1>1
  <2>2. \A i \in 1..k : SubSeq(s, 1, k)[i] = SubSeq(t, 1, k)[i] BY <1>1, <1>2
  <2> QED BY <1>1, <2>1, <2>2, SeqEqual
<1> QED BY <1>1, <1>3 DEF IsPrefix, s, t

\* What "end" has beyond what was heard, is the rest of the parts.
LEMMA PartsRest ==
    \A n \in Nat : \A k \in 0..n :
       /\ Parts(k) \o Remainder(Parts(n), Parts(k)) = Parts(n)
       /\ Remainder(Parts(n), Parts(k)) = <<>> <=> k = n
<1> TAKE n \in Nat
<1> TAKE k \in 0..n
<1> DEFINE s == Parts(k)  t == Parts(n)  r == SubSeq(t, k + 1, n)
<1>1. s \in Seq(Nat) /\ Len(s) = k /\ t \in Seq(Nat) /\ Len(t) = n BY PartsType
<1>2. (\A i \in 1..k : s[i] = i) /\ \A i \in 1..n : t[i] = i BY DEF Parts
<1> HIDE DEF s, t
<1>3. IsPrefix(s, t) BY PartsPrefix DEF s, t
<1>4. Remainder(t, s) = r BY <1>1, <1>3 DEF Remainder, r
<1>5. r \in Seq(Nat) /\ Len(r) = n - k /\ \A i \in 1..n - k : r[i] = k + i BY <1>1, <1>2 DEF r
<1> HIDE DEF r
<1>6. s \o r = t
  <2>0. n - k \in Nat /\ k + (n - k) = n OBVIOUS
  <2>1. s \o r \in Seq(Nat) /\ Len(s \o r) = Len(s) + Len(r) BY <1>1, <1>5, ConcatProperties
  <2>2. \A i \in 1..n : (s \o r)[i] = t[i] BY <1>1, <1>2, <1>5, <2>0
  <2> QED BY <1>1, <1>5, <2>0, <2>1, <2>2, SeqEqual
<1>7. r = <<>> <=> k = n BY <1>5
<1> QED BY <1>4, <1>6, <1>7 DEF s, t

\* What an event about call c leaves in the calls and in the items.
Entered(c, id, k) ==
    /\ smCalls' = Put(smCalls, Ix(c), CallOf(id, k))
    /\ smItems' = IF Codex
                  THEN Put(smItems, c, [index |-> Ix(c), id |-> id, name |-> id, args |-> Parts(k)])
                  ELSE smItems
    /\ smNext' = IF smForm = "bare" /\ ~Heard(c) THEN smNext + 1 ELSE smNext
    /\ UNCHANGED <<smText, smHeld, smShown>>

\* A call that is heard has the parts that were sent.
LEMMA HeardSoFar ==
    ASSUME SmInv, Live, NEW c \in smBegun, Heard(c)
    PROVE  \E id \in {0, c} :
              /\ smCalls[Ix(c)] = CallOf(id, IF Handled(c) THEN smMeant[c] ELSE Taken(c))
              /\ id = 0 => smForm = "bare" /\ ~Handled(c)
<1>1. PICK k \in 0..smMeant[c], id \in {0, c} : smCalls[Ix(c)] = CallOf(id, k) /\ (id = 0 => smForm = "bare")
  BY DEF SmInv, CallsSound
<1>2. smCalls[Ix(c)].args = Parts(k) /\ smCalls[Ix(c)].id = id BY <1>1 DEF CallOf
<1>3. Parts(k) = Parts(IF Handled(c) THEN smMeant[c] ELSE Taken(c)) /\ (Handled(c) => id = c)
  BY <1>2 DEF SmInv, Progress
<1>4. smCalls[Ix(c)] = CallOf(id, IF Handled(c) THEN smMeant[c] ELSE Taken(c)) BY <1>1, <1>3 DEF CallOf
<1>5. c # 0 BY DEF SmInv, SentTypes
<1> QED BY <1>1, <1>3, <1>4, <1>5

\* A bare stream's calls are heard in the order of their numbers.
LEMMA NextInOrder ==
    ASSUME SmInv, Live, NEW c \in smBegun, ~Heard(c), smForm = "bare"
    PROVE  smNext = c - 1 /\ c \notin HeardCalls
<1>1. c \in Nat \ {0} /\ smNext \in Nat /\ 1..c - 1 \subseteq smBegun BY DEF SmInv, SentTypes, Orderly
<1>2. \A d \in 1..c - 1 : Heard(d) BY <1>1 DEF SmInv, Progress, About
<1>3. HeardCalls = 1..smNext BY DEF SmInv, ItemsSound
<1>4. 1..c - 1 \subseteq 1..smNext /\ c \notin 1..smNext BY <1>1, <1>2, <1>3 DEF HeardCalls
<1> QED BY <1>1, <1>3, <1>4

\* codex has an item for every call that is heard.
LEMMA ItemsHeard ==
    ASSUME SmInv, Codex, NEW c \in smBegun
    PROVE  /\ c \in DOMAIN smItems <=> Heard(c)
           /\ Heard(c) => smItems[c] = ItemFor(c)
BY DEF SmInv, ItemsSound, HeardCalls

\* Each kind of event enters what was sent into the call it is about.
LEMMA BeginEnters ==
    ASSUME SmInv, NEW c \in smBegun, smSent = <<Event("begin", c, 0)>>, ~Heard(c),
           Take(Event("begin", c, 0))
    PROVE  Entered(c, c, 0)
<1> DEFINE e == Event("begin", c, 0)
<1>1. Live /\ c \in Nat \ {0} /\ smForm \in {"chat", "anthropic", "codex", "bare"}
  BY DEF SmInv, SentTypes, Live
<1>2. e.kind = "begin" /\ e.call = c /\ e.n = 0 BY DEF Event
<1> HIDE DEF e
<1>3. ASSUME Delta(Ix(c), c, c, <<>>) PROVE smCalls' = Put(smCalls, Ix(c), CallOf(c, 0))
  <2>1. Append(<<>>, c) = <<c>> /\ <<>> \o <<>> = <<>> /\ Parts(0) = <<>> BY PartsNone
  <2> QED BY <1>1, <1>3, <2>1 DEF Delta, Heard, NoCall, CallOf
<1>4. UNCHANGED <<smText, smHeld, smShown>> BY <1>2 DEF Take, e
<1>5. CASE smForm = "chat"
  <2>1. ChatEvent(e) BY <1>2, <1>5 DEF Take, e, Codex
  <2>2. Delta(c, c, c, <<>>) /\ UNCHANGED smParser BY <1>2, <2>1 DEF ChatEvent
  <2> QED BY <1>3, <1>4, <1>5, <2>2 DEF Ix, Entered, Codex, smParser
<1>6. CASE smForm = "anthropic"
  <2>1. AnthropicEvent(e) BY <1>2, <1>6 DEF Take, e, Codex
  <2>2. Delta(c, c, c, <<>>) /\ UNCHANGED <<smItems, smNext>> BY <1>2, <2>1 DEF AnthropicEvent
  <2> QED BY <1>3, <1>4, <1>6, <2>2 DEF Ix, Entered, Codex
<1>7. CASE Codex
  <2>1. CodexEvent(e) BY <1>2, <1>7 DEF Take, e, Codex
  <2>2. NewIndex(e) = Ix(c) BY <1>1, <1>2, <1>7, NextInOrder DEF NewIndex, Ix, Codex
  <2> DEFINE item == [index |-> Ix(c), id |-> c, name |-> c, args |-> <<>>]
  <2>3. Keep(e, item) /\ Delta(Ix(c), c, c, <<>>) BY <1>2, <2>1, <2>2 DEF CodexEvent
  <2>4. c \notin DOMAIN smItems BY <1>7, ItemsHeard
  <2>5. item.args = Parts(0) BY PartsNone
  <2> QED BY <1>2, <1>3, <1>4, <1>7, <2>3, <2>4, <2>5 DEF Entered, Keep
<1> QED BY <1>1, <1>5, <1>6, <1>7 DEF Codex

\* An item with one more piece of its arguments.
LEMMA ItemGrows ==
    ASSUME NEW index, NEW id, NEW name, NEW args, NEW n
    PROVE  [[index |-> index, id |-> id, name |-> name, args |-> args] EXCEPT !.args = Append(@, n)]
              = [index |-> index, id |-> id, name |-> name, args |-> Append(args, n)]
OBVIOUS

LEMMA PartEnters ==
    ASSUME SmInv, NEW c \in smBegun \ smOver, smParts[c] >= 1, ~Heard(c) => smForm = "bare" /\ smParts[c] = 1,
           smSent = <<Event("part", c, smParts[c])>>, Take(Event("part", c, smParts[c]))
    PROVE  \E id \in {0, c} : (id = 0 => smForm = "bare") /\ Entered(c, id, smParts[c])
<1> DEFINE n == smParts[c]  e == Event("part", c, n)
<1>1. Live /\ c \in Nat \ {0} /\ n \in Nat \ {0} /\ smForm \in {"chat", "anthropic", "codex", "bare"}
  BY DEF SmInv, SentTypes, Live
<1>2. e.kind = "part" /\ e.call = c /\ e.n = n /\ smSent[1] = e BY DEF Event
<1>3. Taken(c) = n - 1 /\ ~Handled(c) BY <1>2 DEF Taken, About, Handled
<1> HIDE DEF e, n
<1>4. PICK id \in {0, c} :
        /\ id = 0 => smForm = "bare"
        /\ IF Heard(c) THEN smCalls[Ix(c)] = CallOf(id, n - 1) ELSE id = 0 /\ n = 1
  <2>1. CASE Heard(c) BY <1>1, <1>3, <2>1, HeardSoFar
  <2>2. CASE ~Heard(c) BY <2>2 DEF n
  <2> QED BY <2>1, <2>2
<1>5. Parts(n - 1) \o <<n>> = Parts(n) /\ Append(Parts(n - 1), n) = Parts(n)
      /\ <<>> \o <<1>> = Parts(1) /\ Append(<<>>, 1) = Parts(1)
  <2>1. n - 1 \in Nat /\ (n - 1) + 1 = n /\ 0 + 1 = 1 BY <1>1
  <2>2. Parts(n - 1) \o <<n>> = Parts(n) /\ Append(Parts(n - 1), n) = Parts(n) BY <2>1, PartsGrow
  <2>3. Parts(0) = <<>> BY PartsNone
  <2>4. Parts(0) \o <<1>> = Parts(1) /\ Append(Parts(0), 1) = Parts(1) BY <2>1, PartsGrow
  <2> QED BY <2>2, <2>3, <2>4
<1>6. ASSUME Delta(Ix(c), 0, 0, <<n>>) PROVE smCalls' = Put(smCalls, Ix(c), CallOf(id, n))
  <2>1. CASE Heard(c)
    <3>1. /\ smCalls[Ix(c)].id = id /\ smCalls[Ix(c)].args = Parts(n - 1)
          /\ smCalls[Ix(c)].name = IF id = 0 THEN <<>> ELSE <<id>>
      BY <1>4, <2>1 DEF CallOf
    <3>2. Put(smCalls, Ix(c), [id |-> id, name |-> smCalls[Ix(c)].name, args |-> Parts(n - 1) \o <<n>>]) = smCalls'
      BY <1>6, <2>1, <3>1 DEF Delta, Heard
    <3> QED BY <1>5, <3>1, <3>2 DEF CallOf
  <2>2. CASE ~Heard(c)
    <3>1. id = 0 /\ n = 1 BY <1>4, <2>2
    <3>2. Put(smCalls, Ix(c), [id |-> 0, name |-> <<>>, args |-> <<>> \o <<n>>]) = smCalls'
      BY <1>6, <2>2 DEF Delta, Heard, NoCall
    <3> QED BY <1>5, <3>1, <3>2 DEF CallOf
  <2> QED BY <2>1, <2>2
<1>7. UNCHANGED <<smText, smHeld, smShown>> BY <1>2 DEF Take, e, n
<1>8. CASE smForm = "chat"
  <2>1. ChatEvent(e) BY <1>2, <1>8 DEF Take, e, n, Codex
  <2>2. Delta(c, 0, 0, <<n>>) /\ UNCHANGED smParser BY <1>2, <2>1 DEF ChatEvent
  <2> QED BY <1>4, <1>6, <1>7, <1>8, <2>2 DEF Ix, Entered, Codex, smParser, n
<1>9. CASE smForm = "anthropic"
  <2>1. AnthropicEvent(e) BY <1>2, <1>9 DEF Take, e, n, Codex
  <2>2. Delta(c, 0, 0, <<n>>) /\ UNCHANGED <<smItems, smNext>> BY <1>2, <2>1 DEF AnthropicEvent
  <2> QED BY <1>4, <1>6, <1>7, <1>9, <2>2 DEF Ix, Entered, Codex, n
<1>10. CASE Codex
  <2>1. CodexEvent(e) BY <1>2, <1>10 DEF Take, e, n, Codex
  <2> DEFINE had == IF Heard(c) THEN Parts(n - 1) ELSE <<>>
             old == [index |-> Ix(c), id |-> id, name |-> id, args |-> had]
             new == [index |-> Ix(c), id |-> id, name |-> id, args |-> Parts(n)]
  <2>2. ItemOf(e, 0) = old
    <3>1. CASE Heard(c) BY <1>2, <1>4, <1>10, <3>1, ItemsHeard DEF ItemOf, ItemFor, CallOf
    <3>2. CASE ~Heard(c)
      <4>1. c \notin DOMAIN smItems BY <1>10, <3>2, ItemsHeard
      <4>2. NewIndex(e) = Ix(c) BY <1>1, <1>2, <1>10, <3>2, NextInOrder DEF NewIndex, Ix, Codex
      <4> QED BY <1>2, <1>4, <3>2, <4>1, <4>2 DEF ItemOf
    <3> QED BY <3>1, <3>2
  <2>3. [old EXCEPT !.args = Append(@, n)] = new
    <3>1. Append(had, n) = Parts(n) BY <1>4, <1>5
    <3> HIDE DEF had
    <3>2. [old EXCEPT !.args = Append(@, n)] = [index |-> Ix(c), id |-> id, name |-> id, args |-> Append(had, n)]
      BY ItemGrows
    <3> QED BY <3>1, <3>2
  <2>4. Keep(e, new) /\ Delta(Ix(c), 0, 0, <<n>>)
    <3> HIDE DEF new
    <3>1. ItemOf(e, 0).index = Ix(c) BY <2>2
    <3> QED BY <1>2, <2>1, <2>2, <2>3, <3>1 DEF CodexEvent
  <2>5. c \in DOMAIN smItems <=> Heard(c) BY <1>10, ItemsHeard
  <2> QED BY <1>2, <1>4, <1>6, <1>7, <1>10, <2>4, <2>5 DEF Entered, Keep, n
<1> QED BY <1>1, <1>8, <1>9, <1>10 DEF Codex

LEMMA EndEnters ==
    ASSUME SmInv, NEW c \in smOver, Heard(c),
           smSent = <<Event("end", c, smMeant[c])>>, Take(Event("end", c, smMeant[c]))
    PROVE  Entered(c, c, smMeant[c])
<1> DEFINE n == smMeant[c]  e == Event("end", c, n)
<1>1. /\ Live /\ c \in smBegun /\ c \in Nat \ {0} /\ n \in Nat /\ smParts[c] \in 0..n
      /\ smForm \in {"anthropic", "codex", "bare"}
  BY DEF SmInv, SentTypes, Orderly, Live
<1>2. e.kind = "end" /\ e.call = c /\ e.n = n /\ smSent[1] = e BY DEF Event
<1>3. Taken(c) = smParts[c] /\ ~Handled(c) BY <1>2 DEF Taken, About, Handled
<1> HIDE DEF e, n
<1>4. PICK id \in {0, c}, k \in 0..n :
         k = smParts[c] /\ smCalls[Ix(c)] = CallOf(id, k) /\ (id = 0 => smForm = "bare")
  BY <1>1, <1>3, HeardSoFar
<1>5. UNCHANGED <<smText, smHeld, smShown>> BY <1>2 DEF Take, e, n
<1>6. k \in Nat /\ smCalls[Ix(c)].id = id /\ smCalls[Ix(c)].args = Parts(k)
      /\ smCalls[Ix(c)].name = IF id = 0 THEN <<>> ELSE <<id>>
  BY <1>1, <1>4 DEF CallOf
<1>7. ASSUME id = c, k = n, UNCHANGED smCalls PROVE smCalls' = Put(smCalls, Ix(c), CallOf(c, n))
  <2>1. Put(smCalls, Ix(c), smCalls[Ix(c)]) = [i \in DOMAIN smCalls |-> smCalls[i]] BY DEF Put, Heard
  <2> QED BY <1>4, <1>7, <2>1 DEF SmInv, CallsSound
<1>8. CASE smForm = "anthropic"
  <2>1. AnthropicEvent(e) BY <1>2, <1>8 DEF Take, e, n, Codex
  <2>2. UNCHANGED smCalls /\ UNCHANGED <<smItems, smNext>> BY <1>2, <2>1 DEF AnthropicEvent
  <2>3. smParts[c] = n BY <1>8 DEF SmInv, Orderly, SentTypes, n
  <2> QED BY <1>4, <1>5, <1>7, <1>8, <2>2, <2>3 DEF Entered, Codex, n
<1>9. CASE Codex
  <2>1. CodexEvent(e) BY <1>2, <1>9 DEF Take, e, n, Codex
  <2> DEFINE old == [index |-> Ix(c), id |-> id, name |-> id, args |-> Parts(k)]
             new == [index |-> Ix(c), id |-> c, name |-> c, args |-> Parts(n)]
             named == IF id = 0 THEN c ELSE 0
             rest == IF Parts(n) \in {<<>>, Parts(k)} THEN <<>> ELSE Remainder(Parts(n), Parts(k))
  <2>2. ItemOf(e, c) = old BY <1>1, <1>2, <1>6, <1>9, ItemsHeard DEF ItemOf, ItemFor
  <2>3. Parts(k) \o rest = Parts(n) /\ (rest = <<>> <=> k = n)
    <3>1. CASE k = n BY <1>6, <3>1, PartsNone
    <3>2. CASE k # n
      <4>1. Parts(n) # <<>> /\ Parts(n) # Parts(k) BY <1>1, <3>2, PartsNone, PartsType
      <4> QED BY <1>1, <3>2, <4>1, PartsRest
    <3> QED BY <3>1, <3>2
  <2> HIDE DEF rest
  <2>4. Keep(e, new) /\ IF named = 0 /\ rest = <<>> THEN UNCHANGED smCalls ELSE Delta(Ix(c), named, named, rest)
    <3> DEFINE item == ItemOf(e, c)
    <3>1. item.index = Ix(c) /\ item.id = id /\ item.name = id /\ item.args = Parts(k) BY <2>2
    <3>2. /\ Keep(e, [index |-> Ix(c), id |-> c, name |-> c, args |-> IF rest = <<>> THEN Parts(k) ELSE Parts(n)])
          /\ IF named = 0 /\ rest = <<>> THEN UNCHANGED smCalls ELSE Delta(item.index, named, named, rest)
      <4> HIDE DEF item
      <4> QED BY <1>2, <2>1, <3>1 DEF CodexEvent, rest, item
    <3>3. (IF rest = <<>> THEN Parts(k) ELSE Parts(n)) = Parts(n) BY <2>3
    <3> QED BY <3>1, <3>2, <3>3
  <2>5. smCalls' = Put(smCalls, Ix(c), CallOf(c, n))
    <3>1. CASE named = 0 /\ rest = <<>> BY <1>1, <1>7, <2>3, <2>4, <3>1
    <3>2. CASE ~(named = 0 /\ rest = <<>>)
      <4>1. Delta(Ix(c), named, named, rest) BY <2>4, <3>2
      <4>2. Append(<<>>, c) = <<c>> OBVIOUS
      <4>3. CallOf(c, n) = [id |-> c, name |-> <<c>>, args |-> Parts(n)] BY <1>1 DEF CallOf
      <4>4. [id   |-> IF named = 0 THEN id ELSE named,
             name |-> IF named = 0 THEN smCalls[Ix(c)].name ELSE Append(smCalls[Ix(c)].name, named),
             args |-> smCalls[Ix(c)].args \o rest] = CallOf(c, n)
        BY <1>1, <1>6, <2>3, <4>2, <4>3
      <4> QED BY <1>6, <4>1, <4>4 DEF Delta, Heard
    <3> QED BY <3>1, <3>2
  <2>6. c \in DOMAIN smItems BY <1>1, <1>9, ItemsHeard
  <2> QED BY <1>2, <1>5, <1>9, <2>4, <2>5, <2>6 DEF Entered, Keep, n
<1> QED BY <1>1, <1>8, <1>9 DEF Codex

\* No two calls have one index.
LEMMA OneIndex ==
    ASSUME SentTypes, NEW c \in DOMAIN smMeant, NEW d \in DOMAIN smMeant, Ix(c) = Ix(d)
    PROVE  c = d
BY DEF SentTypes, Ix

\* An event about a call of an answer.
LEMMA EventEnters ==
    ASSUME SmInv, smSent # <<>>, smSent[1].kind \notin {"text", "done"}, Take(smSent[1]),
           NEW c, c = smSent[1].call
    PROVE  /\ c \in smBegun
           /\ \E id \in {0, c}, k \in 0..smMeant[c] :
                 /\ Entered(c, id, k) /\ (id = 0 => smForm = "bare" /\ c \notin smOver)
                 /\ k = IF c \in smOver THEN smMeant[c] ELSE smParts[c]
<1>1. smSent = <<smSent[1]>> /\ EventSound(smSent[1]) BY DEF SmInv, SentSound
<1>2. \A d \in DOMAIN smMeant : d # 0 /\ smMeant[d] \in Nat /\ smParts[d] \in 0..smMeant[d]
  BY DEF SmInv, SentTypes, Orderly
<1>3. smBegun \subseteq DOMAIN smMeant /\ smOver \subseteq smBegun BY DEF SmInv, SentTypes
<1>4. CASE \E d \in smBegun \ smOver : smSent[1] = Event("begin", d, 0) /\ ~Heard(d) /\ smParts[d] = 0
  <2>1. PICK d \in smBegun \ smOver : smSent[1] = Event("begin", d, 0) /\ ~Heard(d) /\ smParts[d] = 0 BY <1>4
  <2>2. d = c BY <2>1 DEF Event
  <2>3. Entered(c, c, 0) BY <1>1, <2>1, <2>2, BeginEnters
  <2>4. 0 \in 0..smMeant[c] /\ c # 0 BY <1>2, <1>3, <2>1, <2>2
  <2> QED BY <2>1, <2>2, <2>3, <2>4
<1>5. CASE \E d \in smBegun \ smOver : /\ smSent[1] = Event("part", d, smParts[d]) /\ smParts[d] >= 1
                                       /\ ~Heard(d) => smForm = "bare" /\ smParts[d] = 1
  <2>1. PICK d \in smBegun \ smOver : /\ smSent[1] = Event("part", d, smParts[d]) /\ smParts[d] >= 1
                                      /\ ~Heard(d) => smForm = "bare" /\ smParts[d] = 1 BY <1>5
  <2>2. d = c BY <2>1 DEF Event
  <2>3. \E id \in {0, c} : (id = 0 => smForm = "bare") /\ Entered(c, id, smParts[c])
    BY <1>1, <2>1, <2>2, PartEnters
  <2>4. smParts[c] \in 0..smMeant[c] BY <1>2, <1>3, <2>1, <2>2
  <2> QED BY <2>1, <2>2, <2>3, <2>4
<1>6. CASE \E d \in smOver : smSent[1] = Event("end", d, smMeant[d]) /\ Heard(d)
  <2>1. PICK d \in smOver : smSent[1] = Event("end", d, smMeant[d]) /\ Heard(d) BY <1>6
  <2>2. d = c BY <2>1 DEF Event
  <2>3. Entered(c, c, smMeant[c]) BY <1>1, <2>1, <2>2, EndEnters
  <2>4. smMeant[c] \in 0..smMeant[c] /\ c # 0 BY <1>2, <1>3, <2>1, <2>2
  <2> QED BY <1>3, <2>1, <2>2, <2>3, <2>4
<1> QED BY <1>1, <1>4, <1>5, <1>6 DEF EventSound, Event

\* What is true of the calls and the items after it.
LEMMA EnteredKeeps ==
    ASSUME SmInv, smSent # <<>>, smSent' = <<>>, UNCHANGED <<smPlan, smRemote>>,
           NEW c \in smBegun, c = smSent[1].call, NEW id \in {0, c}, NEW k \in 0..smMeant[c],
           Entered(c, id, k), id = 0 => smForm = "bare" /\ c \notin smOver,
           k = IF c \in smOver THEN smMeant[c] ELSE smParts[c]
    PROVE  CallsSound' /\ Progress' /\ ItemsSound' /\ \A d \in smBegun \ {c} : Heard(d)
<1>1. smBegun \subseteq DOMAIN smMeant /\ c # 0 /\ Live BY DEF SmInv, SentTypes, Live
<1>2. smForm' = smForm /\ smMeant' = smMeant /\ smBegun' = smBegun /\ smOver' = smOver /\ smParts' = smParts
  BY DEF smPlan, smRemote
<1>3. \A d : Ix(d)' = Ix(d) BY <1>2 DEF Ix
<1>4. \A d \in smBegun \ {c} : Ix(d) # Ix(c) BY <1>1, OneIndex DEF SmInv
<1>5. smCalls' = Put(smCalls, Ix(c), CallOf(id, k)) BY DEF Entered
<1>6. /\ DOMAIN smCalls' = DOMAIN smCalls \cup {Ix(c)} /\ smCalls'[Ix(c)] = CallOf(id, k)
      /\ \A d \in smBegun \ {c} : Ix(d) \in DOMAIN smCalls => smCalls'[Ix(d)] = smCalls[Ix(d)]
  BY <1>4, <1>5 DEF Put
<1>7. Heard(c)' /\ \A d \in smBegun \ {c} : Heard(d)' <=> Heard(d) BY <1>3, <1>4, <1>6 DEF Heard
<1>8. \A d \in smBegun \ {c} : ~About("begin", d) /\ ~About("part", d) /\ ~About("end", d) BY DEF About
<1>9. \A d \in smBegun \ {c} : Heard(d) BY <1>1, <1>8 DEF SmInv, Progress
<1>10. CallsSound'
  <2>1. smCalls' = [i \in DOMAIN smCalls' |-> smCalls'[i]] BY <1>5 DEF Put
  <2>2. DOMAIN smCalls' \subseteq {Ix(d)' : d \in smBegun'} BY <1>2, <1>3, <1>6 DEF SmInv, CallsSound
  <2>3. ASSUME NEW d \in smBegun
        PROVE  \E j \in 0..smMeant[d], i \in {0, d} :
                  smCalls'[Ix(d)] = CallOf(i, j) /\ (i = 0 => smForm = "bare")
    <3>1. CASE d = c BY <1>6, <3>1
    <3>2. CASE d # c BY <1>6, <1>9, <3>2 DEF SmInv, CallsSound, Heard
    <3> QED BY <3>1, <3>2
  <2>4. \A j, i : CallOf(i, j)' = CallOf(i, j) BY DEF CallOf, Parts
  <2> QED BY <1>2, <1>3, <2>1, <2>2, <2>3, <2>4 DEF CallsSound
<1>11. \A d : (Handled(d)' <=> d \in smOver) /\ Taken(d)' = smParts[d] /\ (\A kind \in {"begin", "part"} : ~About(kind, d)')
  BY <1>2 DEF Handled, Taken, About
<1>12. Progress'
  <2>1. smCalls'[Ix(c)].args = Parts(k) /\ smCalls'[Ix(c)].id = id BY <1>6 DEF CallOf
  <2>2. \A d \in smBegun \ {c} : Handled(d) <=> d \in smOver BY <1>8 DEF Handled
  <2>3. \A d \in smBegun \ {c} : Taken(d) = smParts[d] BY <1>8 DEF Taken
  <2>4. ASSUME NEW d \in smBegun
        PROVE  /\ Heard(d)'
               /\ smCalls'[Ix(d)].args = Parts(IF d \in smOver THEN smMeant[d] ELSE smParts[d])
               /\ d \in smOver => smCalls'[Ix(d)].id = d
    <3>1. CASE d = c BY <1>7, <2>1, <3>1
    <3>2. CASE d # c BY <1>1, <1>6, <1>7, <1>9, <2>2, <2>3, <3>2 DEF SmInv, Progress, Heard
    <3> QED BY <3>1, <3>2
  <2>5. \A n : Parts(n)' = Parts(n) BY DEF Parts
  <2> QED BY <1>2, <1>3, <1>11, <2>4, <2>5 DEF Progress
<1>13. ItemsSound'
  <2>1. HeardCalls' = HeardCalls \cup {c} BY <1>2, <1>7 DEF HeardCalls
  <2>2. Codex' <=> Codex BY <1>2 DEF Codex
  <2>3. ASSUME Codex PROVE smItems' = [d \in HeardCalls' |-> ItemFor(d)']
    <3>1. smItems = [d \in HeardCalls |-> ItemFor(d)] BY <2>3 DEF SmInv, ItemsSound
    <3>2. smItems' = Put(smItems, c, [index |-> Ix(c), id |-> id, name |-> id, args |-> Parts(k)])
      BY <2>3 DEF Entered
    <3>3. ItemFor(c)' = [index |-> Ix(c), id |-> id, name |-> id, args |-> Parts(k)]
      BY <1>3, <1>6 DEF ItemFor, CallOf
    <3>4. \A d \in HeardCalls \ {c} : ItemFor(d)' = ItemFor(d)
      BY <1>3, <1>6 DEF ItemFor, HeardCalls, Heard
    <3> QED BY <2>1, <3>1, <3>2, <3>3, <3>4 DEF Put
  <2>4. ASSUME smForm = "bare" PROVE HeardCalls' = 1..smNext'
    <3>1. HeardCalls = 1..smNext BY <2>4 DEF SmInv, ItemsSound
    <3>2. CASE Heard(c) BY <2>1, <2>4, <3>1, <3>2 DEF Entered, HeardCalls
    <3>3. CASE ~Heard(c)
      <4>1. smNext = c - 1 /\ c \in Nat /\ smNext \in Nat BY <1>1, <2>4, <3>3, NextInOrder DEF SmInv, SentTypes
      <4>2. smNext' = smNext + 1 BY <2>4, <3>3 DEF Entered
      <4> QED BY <2>1, <3>1, <4>1, <4>2
    <3> QED BY <3>2, <3>3
  <2> QED BY <1>2, <2>2, <2>3, <2>4 DEF ItemsSound
<1> QED BY <1>9, <1>10, <1>12, <1>13

\* One more block in order.
LEMMA BlockAppended ==
    ASSUME NEW n \in Nat
    PROVE  Append([i \in 1..n |-> <<i, Whole(i)>>], <<n + 1, Whole(n + 1)>>) = [i \in 1..n + 1 |-> <<i, Whole(i)>>]
<1> DEFINE S == {<<i, Whole(i)>> : i \in Nat}
           s == [i \in 1..n |-> <<i, Whole(i)>>]
           t == [i \in 1..n + 1 |-> <<i, Whole(i)>>]
           a == Append(s, <<n + 1, Whole(n + 1)>>)
<1>0. n + 1 \in Nat OBVIOUS
<1>1. s \in Seq(S) /\ Len(s) = n
  <2>1. s \in [1..n -> S] OBVIOUS
  <2> QED BY <2>1
<1>2. t \in Seq(S) /\ Len(t) = n + 1
  <2>1. t \in [1..n + 1 -> S] OBVIOUS
  <2> QED BY <1>0, <2>1
<1>3. <<n + 1, Whole(n + 1)>> \in S BY <1>0
<1>4. (\A i \in 1..n : s[i] = <<i, Whole(i)>>) /\ \A i \in 1..n + 1 : t[i] = <<i, Whole(i)>> OBVIOUS
<1> HIDE DEF S, s, t
<1>5. a \in Seq(S) /\ Len(a) = n + 1 BY <1>1, <1>3
<1>6. \A i \in 1..n + 1 : a[i] = t[i] BY <1>1, <1>3, <1>4
<1>7. a = t BY <1>2, <1>5, <1>6, SeqEqual
<1> QED BY <1>7 DEF s, t

\* The blocks that are to be sent back.
LEMMA BlocksKept ==
    ASSUME SmInv, smSent # <<>>, smSent' = <<>>, UNCHANGED <<smPlan, smRemote>>,
           smSent[1].kind \notin {"text", "done"}, Take(smSent[1]),
           NEW c, c = smSent[1].call, NEW id, NEW k,
           Entered(c, id, k), c \in smBegun, k = IF c \in smOver THEN smMeant[c] ELSE smParts[c],
           \A d \in smBegun \ {c} : Heard(d)
    PROVE  BlocksSound'
<1> SUFFICES ASSUME smForm = "anthropic" PROVE BlocksSound' BY DEF BlocksSound, smPlan
<1>1. /\ smBegun \subseteq DOMAIN smMeant /\ smOver \subseteq smBegun /\ c \in Nat \ {0}
      /\ DOMAIN smMeant = 1..Len(smMeant) /\ Len(smMeant) \in Nat /\ Live
      /\ \A d \in DOMAIN smMeant : smMeant[d] \in Nat /\ smParts[d] \in 0..smMeant[d]
  BY DEF SmInv, SentTypes, Orderly, Live
<1>2. smForm' = smForm /\ smMeant' = smMeant /\ smBegun' = smBegun /\ smOver' = smOver /\ smParts' = smParts
  BY DEF smPlan, smRemote
<1>3. \A d : Ix(d) = d /\ Ix(d)' = d BY <1>2 DEF Ix
<1>4. smSent = <<smSent[1]>> /\ EventSound(smSent[1]) BY DEF SmInv, SentSound
<1>5. smCalls' = Put(smCalls, c, CallOf(id, k)) BY <1>3 DEF Entered
<1>6. Heard(c)' /\ (\A d \in smBegun : Heard(d)') BY <1>3, <1>5 DEF Heard, Put
<1>7. (\A d \in smBegun \ {c} : smCalls'[d] = smCalls[d]) /\ smCalls'[c].args = Parts(k)
  BY <1>5, <1>3 DEF Put, CallOf, Heard
<1>8. \A d : Handled(d)' <=> d \in smOver BY <1>2 DEF Handled, About
<1>9. {d \in HeardCalls' : ~Handled(d)'} = smBegun \ smOver /\ {d \in smOver' : Handled(d)'} = smOver
  BY <1>2, <1>6, <1>8 DEF HeardCalls
<1>10. \A i : Whole(i)' = Whole(i) BY <1>2 DEF Whole, Parts
<1>11. PICK n \in 0..Len(smMeant) : smBlocks = [i \in 1..n |-> <<i, Whole(i)>>] /\ {d \in smOver : Handled(d)} = 1..n
  BY <1>1 DEF SmInv, BlocksSound
<1>12. smJson = [d \in {d \in HeardCalls : ~Handled(d)} |-> smCalls[d].args] BY <1>1 DEF SmInv, BlocksSound
<1>13. AnthropicEvent(smSent[1]) BY DEF Take, Codex
<1> SUFFICES /\ smJson' = [d \in smBegun \ smOver |-> smCalls'[d].args]
             /\ \E m \in 0..Len(smMeant) : smBlocks' = [i \in 1..m |-> <<i, Whole(i)>>] /\ smOver = 1..m
  BY <1>2, <1>9, <1>10 DEF BlocksSound
<1>14. CASE \E d \in smBegun \ smOver : smSent[1] = Event("begin", d, 0) /\ ~Heard(d) /\ smParts[d] = 0
  <2>1. c \notin smOver /\ ~Heard(c) /\ smParts[c] = 0 /\ smSent[1].kind = "begin" BY <1>14 DEF Event
  <2>2. smJson' = Put(smJson, c, <<>>) /\ smBlocks' = smBlocks BY <1>13, <2>1 DEF AnthropicEvent
  <2>3. \A d \in smBegun : Handled(d) <=> d \in smOver BY <2>1 DEF Handled, About
  <2>4. {d \in HeardCalls : ~Handled(d)} = (smBegun \ smOver) \ {c} /\ {d \in smOver : Handled(d)} = smOver
    BY <1>1, <2>1, <2>3 DEF HeardCalls
  <2>5. smCalls'[c].args = <<>> BY <1>7, <2>1, PartsNone
  <2>6. smJson' = [d \in smBegun \ smOver |-> smCalls'[d].args]
    <3>1. DOMAIN smJson = (smBegun \ smOver) \ {c} BY <1>12, <2>4
    <3>2. \A d \in (smBegun \ smOver) \ {c} : smJson[d] = smCalls'[d].args BY <1>7, <1>12, <2>4
    <3>3. (DOMAIN smJson) \cup {c} = smBegun \ smOver BY <2>1, <3>1
    <3> QED BY <2>2, <2>5, <3>1, <3>2, <3>3 DEF Put
  <2> QED BY <1>11, <2>2, <2>4, <2>6
<1>15. CASE \E d \in smBegun \ smOver : /\ smSent[1] = Event("part", d, smParts[d]) /\ smParts[d] >= 1
                                        /\ ~Heard(d) => smForm = "bare" /\ smParts[d] = 1
  <2>1. c \notin smOver /\ Heard(c) /\ smParts[c] >= 1 /\ smSent[1].kind = "part" /\ smSent[1].n = smParts[c]
    BY <1>15 DEF Event
  <2>2. smJson' = [smJson EXCEPT ![c] = Append(@, smParts[c])] /\ smBlocks' = smBlocks
    BY <1>13, <2>1 DEF AnthropicEvent
  <2>3. \A d \in smBegun : Handled(d) <=> d \in smOver BY <2>1 DEF Handled, About
  <2>4. {d \in HeardCalls : ~Handled(d)} = smBegun \ smOver /\ {d \in smOver : Handled(d)} = smOver
    BY <1>1, <2>1, <2>3 DEF HeardCalls
  <2>5. smCalls[c].args = Parts(smParts[c] - 1)
    BY <1>1, <1>3, <2>1, <2>3 DEF SmInv, Progress, Taken, About
  <2>6. Append(Parts(smParts[c] - 1), smParts[c]) = Parts(smParts[c])
    <3>1. smParts[c] - 1 \in Nat /\ (smParts[c] - 1) + 1 = smParts[c] BY <1>1, <2>1
    <3> QED BY <3>1, PartsGrow
  <2>7. smJson' = [d \in smBegun \ smOver |-> smCalls'[d].args]
    <3>1. DOMAIN smJson = smBegun \ smOver BY <1>12, <2>4
    <3>2. \A d \in smBegun \ smOver : smJson[d] = smCalls[d].args BY <1>12, <2>4
    <3>3. Append(smJson[c], smParts[c]) = smCalls'[c].args BY <1>7, <2>1, <2>5, <2>6, <3>2
    <3>4. \A d \in (smBegun \ smOver) \ {c} : smJson[d] = smCalls'[d].args BY <1>7, <3>2
    <3>5. smJson' = [d \in DOMAIN smJson |-> IF d = c THEN Append(smJson[c], smParts[c]) ELSE smJson[d]]
      BY <2>2
    <3> QED BY <3>1, <3>3, <3>4, <3>5
  <2> QED BY <1>11, <2>2, <2>4, <2>7
<1>16. CASE \E d \in smOver : smSent[1] = Event("end", d, smMeant[d]) /\ Heard(d)
  <2>1. c \in smOver /\ Heard(c) /\ smSent[1].kind = "end" BY <1>16 DEF Event
  <2>2. smBlocks' = Append(smBlocks, <<c, smJson[c]>>) /\ smJson' = [b \in DOMAIN smJson \ {c} |-> smJson[b]]
    BY <1>13, <2>1 DEF AnthropicEvent
  <2>3. ~Handled(c) /\ \A d \in smBegun \ {c} : Handled(d) <=> d \in smOver BY <2>1 DEF Handled, About
  <2>4. {d \in HeardCalls : ~Handled(d)} = (smBegun \ smOver) \cup {c} /\ {d \in smOver : Handled(d)} = smOver \ {c}
    BY <1>1, <2>1, <2>3 DEF HeardCalls
  <2>5. smJson[c] = Whole(c)
    <3>1. smCalls[c].args = Parts(Taken(c)) BY <1>1, <1>3, <2>1, <2>3 DEF SmInv, Progress
    <3>2. Taken(c) = smParts[c] BY <2>1 DEF Taken, About
    <3>3. smParts[c] = smMeant[c] BY <2>1 DEF SmInv, Orderly
    <3> QED BY <1>12, <2>4, <3>1, <3>2, <3>3 DEF Whole
  <2>6. c = n + 1 /\ n \in Nat
    <3>1. 1..c - 1 \subseteq smOver BY <1>1 DEF SmInv, Orderly
    <3>2. c - 1 \notin 1..c - 1 => c = 1 BY <1>1
    <3>3. c \notin 1..n /\ 1..c - 1 \subseteq 1..n BY <1>1, <1>11, <2>4, <3>1
    <3> QED BY <1>1, <3>2, <3>3
  <2>7. smOver = 1..n + 1
    <3>1. smOver = (1..n) \cup {n + 1} BY <1>11, <2>1, <2>4, <2>6
    <3>2. (1..n) \cup {n + 1} = 1..n + 1 BY <2>6
    <3> QED BY <3>1, <3>2
  <2>8. smBlocks' = [i \in 1..n + 1 |-> <<i, Whole(i)>>] BY <1>11, <2>2, <2>5, <2>6, BlockAppended
  <2>9. n + 1 \in 0..Len(smMeant) BY <1>1, <2>1, <2>6
  <2>10. smJson' = [d \in smBegun \ smOver |-> smCalls'[d].args]
    <3>1. DOMAIN smJson \ {c} = smBegun \ smOver BY <1>12, <2>1, <2>4
    <3>2. \A d \in smBegun \ smOver : smJson[d] = smCalls'[d].args BY <1>7, <1>12, <2>1, <2>4
    <3> QED BY <2>2, <3>1, <3>2
  <2> QED BY <2>7, <2>8, <2>9, <2>10
<1> QED BY <1>4, <1>14, <1>15, <1>16 DEF EventSound, Event

\* What the session has of an answer does not change, and no event about a call is on
\* its way, or nobody reads it any more.
LEMMA NothingEntered ==
    ASSUME SmInv, UNCHANGED <<smPlan, smParts, smBegun, smOver, smParser, smCalls>>,
           \/ ~Live'
           \/ Live /\ \A kind \in {"begin", "part", "end"}, c \in smBegun : About(kind, c)' <=> About(kind, c)
    PROVE  CallsSound' /\ Progress' /\ ItemsSound' /\ BlocksSound'
<1>1. /\ smForm' = smForm /\ smMeant' = smMeant /\ smBegun' = smBegun /\ smOver' = smOver /\ smParts' = smParts
      /\ smItems' = smItems /\ smNext' = smNext /\ smJson' = smJson /\ smBlocks' = smBlocks /\ smCalls' = smCalls
  BY DEF smPlan, smParser
<1>2. (\A c : Ix(c)' = Ix(c)) /\ (\A c : Heard(c)' <=> Heard(c)) BY <1>1 DEF Ix, Heard
<1>3. (\A n : Parts(n)' = Parts(n)) /\ (\A i : Whole(i)' = Whole(i)) BY <1>1 DEF Parts, Whole
<1>4. \A id, k : CallOf(id, k)' = CallOf(id, k) BY DEF CallOf, Parts
<1>5. CallsSound' BY <1>1, <1>2, <1>4 DEF SmInv, CallsSound
<1>6. HeardCalls' = HeardCalls BY <1>1, <1>2 DEF HeardCalls
<1>7. ItemsSound'
  <2>1. \A c : ItemFor(c)' = ItemFor(c) BY <1>1, <1>2 DEF ItemFor
  <2> QED BY <1>1, <1>6, <2>1 DEF SmInv, ItemsSound, Codex
<1>8. CASE ~Live' BY <1>5, <1>7, <1>8 DEF Progress, BlocksSound
<1>9. CASE Live /\ \A kind \in {"begin", "part", "end"}, c \in smBegun : About(kind, c)' <=> About(kind, c)
  <2>1. \A c \in smBegun : (Handled(c)' <=> Handled(c)) /\ Taken(c)' = Taken(c)
    BY <1>1, <1>9 DEF Handled, Taken
  <2>2. Progress' BY <1>1, <1>2, <1>3, <1>9, <2>1 DEF SmInv, Progress
  <2>3. {c \in HeardCalls' : ~Handled(c)'} = {c \in HeardCalls : ~Handled(c)}
    BY <1>6, <2>1 DEF HeardCalls
  <2>4. {c \in smOver' : Handled(c)'} = {c \in smOver : Handled(c)} BY <1>1, <2>1 DEF SmInv, SentTypes
  <2>5. BlocksSound' BY <1>1, <1>3, <1>9, <2>3, <2>4 DEF SmInv, BlocksSound
  <2> QED BY <1>5, <1>7, <2>2, <2>5
<1> QED BY <1>8, <1>9

\* An event about a call is put on its way.
LEMMA SentKeeps ==
    ASSUME SmInv, NEW c \in DOMAIN smMeant, NEW kind \in {"begin", "part", "end"}, NEW n,
           Sends(Event(kind, c, n)), c \notin smOver,
           smBegun' = smBegun \cup {c}, smOver' = IF kind = "end" THEN smOver \cup {c} ELSE smOver,
           smParts' = IF kind = "part" THEN [smParts EXCEPT ![c] = @ + 1] ELSE smParts,
           kind = "begin" => c \notin smBegun, kind = "end" => c \in smBegun
    PROVE  CallsSound' /\ Progress' /\ ItemsSound' /\ BlocksSound'
<1>1. /\ smForm' = smForm /\ smMeant' = smMeant /\ smSays' = smSays /\ smKnown' = smKnown
      /\ smItems' = smItems /\ smNext' = smNext /\ smJson' = smJson /\ smBlocks' = smBlocks /\ smCalls' = smCalls
      /\ smSent' = <<Event(kind, c, n)>> /\ smSent = <<>> /\ Live
  BY DEF Sends, smPlan, smParser, smAgent, Live
<1>2. /\ smBegun \subseteq DOMAIN smMeant /\ smOver \subseteq smBegun
      /\ \A d \in DOMAIN smMeant : smParts[d] \in Nat
      /\ smParts \in [DOMAIN smMeant -> Nat]
  BY DEF SmInv, SentTypes
<1>3. (\A d : Ix(d)' = Ix(d)) /\ (\A d : Heard(d)' <=> Heard(d)) BY <1>1 DEF Ix, Heard
<1>4. c \notin smBegun => ~Heard(c)
  <2> SUFFICES ASSUME Heard(c) PROVE c \in smBegun OBVIOUS
  <2>1. PICK d \in smBegun : Ix(d) = Ix(c) BY DEF SmInv, CallsSound, Heard
  <2> QED BY <1>2, <2>1, OneIndex DEF SmInv
<1>5. HeardCalls' = HeardCalls BY <1>3, <1>4 DEF HeardCalls
<1>6. (\A j : Parts(j)' = Parts(j)) /\ (\A i : Whole(i)' = Whole(i)) BY <1>1 DEF Parts, Whole
<1>7. \A id, j : CallOf(id, j)' = CallOf(id, j) BY DEF CallOf, Parts
<1>8. CallsSound' BY <1>1, <1>3, <1>4, <1>7 DEF SmInv, CallsSound
<1>9. ItemsSound'
  <2>1. \A d : ItemFor(d)' = ItemFor(d) BY <1>1, <1>3 DEF ItemFor
  <2> QED BY <1>1, <1>5, <2>1 DEF SmInv, ItemsSound, Codex
<1>10. \A d, what : ~About(what, d) /\ (About(what, d)' <=> d = c /\ what = kind)
  BY <1>1 DEF About, Event
<1>11. \A d : (Handled(d) <=> d \in smOver) /\ (Handled(d)' <=> d \in smOver)
  BY <1>10 DEF Handled
<1>12. \A d \in DOMAIN smMeant : Taken(d) = smParts[d] /\ Taken(d)' = smParts[d]
  <2> TAKE d \in DOMAIN smMeant
  <2>1. Taken(d) = smParts[d] BY <1>10 DEF Taken
  <2>2. CASE d = c /\ kind = "part"
    <3>1. smParts'[d] = smParts[d] + 1 BY <1>2, <2>2
    <3>2. Taken(d)' = smParts'[d] - 1 BY <1>10, <2>2 DEF Taken
    <3> QED BY <1>2, <2>1, <3>1, <3>2
  <2>3. CASE ~(d = c /\ kind = "part")
    <3>1. smParts'[d] = smParts[d] BY <1>2, <2>3
    <3>2. Taken(d)' = smParts'[d] BY <1>10, <2>3 DEF Taken
    <3> QED BY <2>1, <3>1, <3>2
  <2> QED BY <2>2, <2>3
<1>13. \A d \in smBegun : /\ Heard(d) /\ smCalls[Ix(d)].args = Parts(IF Handled(d) THEN smMeant[d] ELSE Taken(d))
                          /\ Handled(d) => smCalls[Ix(d)].id = d
  BY <1>1, <1>10 DEF SmInv, Progress
<1>14. Progress'
  <2>1. ASSUME NEW d \in smBegun', Heard(d)
        PROVE  /\ smCalls'[Ix(d)].args = Parts(IF Handled(d)' THEN smMeant'[d] ELSE Taken(d)')
               /\ Handled(d)' => smCalls'[Ix(d)].id = d
    <3>1. d \in smBegun BY <1>4, <2>1
    <3> QED BY <1>1, <1>2, <1>11, <1>12, <1>13, <3>1
  <2>2. ASSUME NEW d \in smBegun', ~Heard(d) PROVE About("begin", d)' \/ About("part", d)'
    <3>1. d = c /\ c \notin smBegun BY <1>13, <2>2
    <3> QED BY <1>10, <3>1
  <2> QED BY <1>3, <1>6, <2>1, <2>2 DEF Progress
<1>15. BlocksSound'
  <2>1. {d \in HeardCalls' : ~Handled(d)'} = {d \in HeardCalls : ~Handled(d)} BY <1>5, <1>11
  <2>2. {d \in smOver' : Handled(d)'} = {d \in smOver : Handled(d)} BY <1>11
  <2> QED BY <1>1, <1>6, <2>1, <2>2 DEF SmInv, BlocksSound
<1> QED BY <1>8, <1>9, <1>14, <1>15

\* The invariant holds at first, and every step keeps it.
LEMMA StreamBegins == SmInit => SmInv
<1> SUFFICES ASSUME SmInit PROVE SmInv OBVIOUS
<1>1. PICK n \in 0..MaxCalls : smMeant \in [1..n -> 0..MaxParts] BY DEF SmInit
<1>2. n \in Nat /\ Len(smMeant) = n /\ smMeant \in [1..n -> Nat] /\ DOMAIN smMeant = 1..n
  BY <1>1, SmAssumption
<1>3. SentTypes
  <2>1. smForm \in {"chat", "anthropic", "codex", "bare"} BY SmAssumption DEF SmInit
  <2>2. smParts \in [DOMAIN smMeant -> Nat] BY DEF SmInit
  <2> QED BY <1>2, <2>1, <2>2 DEF SmInit, SentTypes
<1>4. Orderly BY <1>2 DEF SmInit, Orderly
<1>5. SentSound BY DEF SmInit, SentSound
<1>6. CallsSound BY DEF SmInit, CallsSound
<1>7. Progress BY DEF SmInit, Progress
<1>8. ItemsSound BY DEF SmInit, ItemsSound, HeardCalls
<1>9. BlocksSound
  <2>1. HeardCalls = {} /\ {c \in smOver : Handled(c)} = {} BY DEF SmInit, HeardCalls
  <2>2. smJson = [c \in {c \in HeardCalls : ~Handled(c)} |-> smCalls[c].args] BY <2>1 DEF SmInit
  <2>3. smBlocks = [i \in 1..0 |-> <<i, Whole(i)>>] /\ 1..0 = {} BY DEF SmInit
  <2>4. 0 \in 0..Len(smMeant) BY <1>2
  <2> QED BY <2>1, <2>2, <2>3, <2>4 DEF BlocksSound
<1>10. TextSound BY DEF SmInit, TextSound
<1> QED BY <1>3, <1>4, <1>5, <1>6, <1>7, <1>8, <1>9, <1>10 DEF SmInv

LEMMA BeginSent == ASSUME SmInv, NEW c \in DOMAIN smMeant, SendBegin(c) PROVE SmInv'
<1>1. /\ smForm' = smForm /\ smMeant' = smMeant /\ smSays' = smSays /\ smKnown' = smKnown
      /\ smSent' = <<Event("begin", c, 0)>> /\ smSent = <<>> /\ smEnd = "open" /\ smEnd' = smEnd /\ smLine' = smLine
      /\ smCalls' = smCalls /\ smNext' = smNext
      /\ smText' = smText /\ smHeld' = smHeld /\ smShown' = smShown /\ smInline' = smInline
      /\ smBegun' = smBegun \cup {c} /\ smParts' = smParts /\ smOver' = smOver /\ smTokens' = smTokens
      /\ Startable(c)
  BY DEF SendBegin, Sends, smPlan, smParser, smAgent
<1>2. CallsSound' /\ Progress' /\ ItemsSound' /\ BlocksSound' BY <1>1, SentKeeps DEF SendBegin, Startable
<1>3. SentTypes' BY <1>1 DEF SmInv, SentTypes
<1>4. Orderly' BY <1>1 DEF SmInv, SentTypes, Orderly, Startable
<1>5. SentSound'
  <2>1. ~Heard(c)'
    <3>1. ~Heard(c)
      <4> SUFFICES ASSUME Heard(c) PROVE c \in smBegun BY <1>1 DEF Startable
      <4>1. PICK d \in smBegun : Ix(d) = Ix(c) BY DEF SmInv, CallsSound, Heard
      <4> QED BY <4>1, OneIndex DEF SmInv, SentTypes
    <3> QED BY <1>1, <3>1 DEF Heard, Ix
  <2>2. smParts[c] = 0 /\ c \in smBegun' \ smOver' BY <1>1 DEF SmInv, Orderly, Startable
  <2>3. EventSound(Event("begin", c, 0))'
    <3>1. Event("begin", c, 0)' = Event("begin", c, 0) BY DEF Event
    <3> QED BY <1>1, <2>1, <2>2, <3>1 DEF EventSound
  <2>4. smSent'[1] = Event("begin", c, 0) BY <1>1
  <2> QED BY <1>1, <2>3, <2>4 DEF SmInv, SentSound, EventSound
<1>6. TextSound' BY <1>1 DEF SmInv, TextSound
<1> QED BY <1>2, <1>3, <1>4, <1>5, <1>6 DEF SmInv

LEMMA PartSent == ASSUME SmInv, NEW c \in DOMAIN smMeant, SendPart(c) PROVE SmInv'
<1>1. /\ smForm' = smForm /\ smMeant' = smMeant /\ smSays' = smSays /\ smKnown' = smKnown
      /\ smSent' = <<Event("part", c, smParts[c] + 1)>> /\ smSent = <<>>
      /\ smEnd = "open" /\ smEnd' = smEnd /\ smLine' = smLine
      /\ smCalls' = smCalls /\ smNext' = smNext
      /\ smText' = smText /\ smHeld' = smHeld /\ smShown' = smShown /\ smInline' = smInline
      /\ smBegun' = smBegun \cup {c} /\ smOver' = smOver /\ smTokens' = smTokens
      /\ smParts' = [smParts EXCEPT ![c] = @ + 1] /\ smParts[c] < smMeant[c]
      /\ c \in smBegun \ smOver \/ (smForm = "bare" /\ Startable(c))
  BY DEF SendPart, Sends, smPlan, smParser, smAgent
<1>2. /\ smParts \in [DOMAIN smMeant -> Nat] /\ c \in Nat \ {0} /\ smOver \subseteq smBegun /\ smBegun \subseteq DOMAIN smMeant
      /\ DOMAIN smMeant = 1..Len(smMeant) /\ \A d \in DOMAIN smMeant : smMeant[d] \in Nat
  BY DEF SmInv, SentTypes
<1>3. c \notin smOver BY <1>1 DEF Startable
<1>4. CallsSound' /\ Progress' /\ ItemsSound' /\ BlocksSound' BY <1>1, <1>3, SentKeeps DEF SendPart
<1>5. SentTypes' BY <1>1, <1>2 DEF SmInv, SentTypes
<1>6. \A d \in DOMAIN smMeant : smParts'[d] = IF d = c THEN smParts[c] + 1 ELSE smParts[d] BY <1>1, <1>2
<1>7. Orderly'
  <2>1. \A d \in DOMAIN smMeant : smParts'[d] <= smMeant[d] /\ (d \notin smBegun' => smParts'[d] = 0)
    BY <1>1, <1>2, <1>6 DEF SmInv, Orderly
  <2>2. \A d \in smBegun' : 1..d - 1 \subseteq smBegun' /\ (smForm = "anthropic" => 1..d - 1 \subseteq smOver)
    BY <1>1 DEF SmInv, Orderly, Startable
  <2>3. smForm = "anthropic" => \A d \in smOver : smParts'[d] = smMeant[d]
    BY <1>2, <1>3, <1>6 DEF SmInv, Orderly
  <2> QED BY <1>1, <2>1, <2>2, <2>3 DEF SmInv, Orderly
<1>8. SentSound'
  <2>1. smParts'[c] = smParts[c] + 1 /\ smParts'[c] >= 1 /\ c \in smBegun' \ smOver' BY <1>1, <1>2, <1>3, <1>6
  <2>2. ~Heard(c)' => smForm = "bare" /\ smParts[c] = 0
    <3>1. Heard(c)' <=> Heard(c) BY <1>1 DEF Heard, Ix
    <3>2. CASE c \in smBegun
      <4>1. Live /\ ~About("begin", c) /\ ~About("part", c) BY <1>1 DEF Live, About
      <4> QED BY <3>1, <3>2, <4>1 DEF SmInv, Progress
    <3>3. CASE c \notin smBegun BY <1>1, <3>3 DEF SmInv, Orderly
    <3> QED BY <3>2, <3>3
  <2>3. smParts[c] = 0 => smParts'[c] = 1 BY <2>1
  <2>4. smSent'[1] = Event("part", c, smParts'[c]) /\ smSent' = <<smSent'[1]>> BY <1>1, <2>1
  <2>5. EventSound(smSent[1])'
    <3> QED BY <1>1, <2>1, <2>2, <2>3, <2>4 DEF EventSound
  <2> QED BY <1>1, <2>4, <2>5 DEF SmInv, SentSound
<1>9. TextSound' BY <1>1 DEF SmInv, TextSound
<1> QED BY <1>4, <1>5, <1>7, <1>8, <1>9 DEF SmInv

LEMMA EndSent == ASSUME SmInv, NEW c \in DOMAIN smMeant, SendEnd(c) PROVE SmInv'
<1>1. /\ smForm' = smForm /\ smMeant' = smMeant /\ smSays' = smSays /\ smKnown' = smKnown
      /\ smSent' = <<Event("end", c, smMeant[c])>> /\ smSent = <<>>
      /\ smEnd = "open" /\ smEnd' = smEnd /\ smLine' = smLine
      /\ smCalls' = smCalls /\ smNext' = smNext
      /\ smText' = smText /\ smHeld' = smHeld /\ smShown' = smShown /\ smInline' = smInline
      /\ smBegun' = smBegun /\ smOver' = smOver \cup {c} /\ smTokens' = smTokens /\ smParts' = smParts
      /\ c \in smBegun \ smOver /\ smForm # "chat" /\ (smForm = "anthropic" => smParts[c] = smMeant[c])
  BY DEF SendEnd, Sends, smPlan, smParser, smAgent
<1>2. smBegun' = smBegun \cup {c} BY <1>1
<1>3. CallsSound' /\ Progress' /\ ItemsSound' /\ BlocksSound'
  <2> DEFINE kind == "end"
             n == smMeant[c]
  <2>1. Sends(Event(kind, c, n)) BY DEF SendEnd
  <2>2. c \notin smOver /\ c \in smBegun BY <1>1
  <2>3. smOver' = (IF kind = "end" THEN smOver \cup {c} ELSE smOver)
        /\ smParts' = (IF kind = "part" THEN [smParts EXCEPT ![c] = @ + 1] ELSE smParts)
    BY <1>1
  <2>4. kind \in {"begin", "part", "end"} /\ (kind = "begin" => c \notin smBegun) /\ (kind = "end" => c \in smBegun)
    BY <2>2
  <2> HIDE DEF kind, n
  <2>5. SmInv /\ c \in DOMAIN smMeant /\ c \notin smOver BY <2>2
  <2> QED BY ONLY <1>2, <2>1, <2>3, <2>4, <2>5, SentKeeps
<1>4. SentTypes' BY <1>1 DEF SmInv, SentTypes
<1>5. Orderly' BY <1>1 DEF SmInv, SentTypes, Orderly
<1>6. SentSound'
  <2>1. Heard(c)
    <3>1. Live /\ ~About("begin", c) /\ ~About("part", c) BY <1>1 DEF Live, About
    <3> QED BY <1>1, <3>1 DEF SmInv, Progress
  <2>2. Heard(c)' BY <1>1, <2>1 DEF Heard, Ix
  <2>3. smSent'[1] = Event("end", c, smMeant'[c]) /\ smSent' = <<smSent'[1]>> /\ c \in smOver' BY <1>1
  <2>4. EventSound(smSent[1])' BY <2>2, <2>3 DEF EventSound, Event
  <2> QED BY <1>1, <2>3, <2>4 DEF SmInv, SentSound
<1>7. TextSound' BY <1>1 DEF SmInv, TextSound
<1> QED BY <1>3, <1>4, <1>5, <1>6, <1>7 DEF SmInv

LEMMA TextSent == ASSUME SmInv, NEW n \in 1..CallTokens, SendText(n) PROVE SmInv'
<1>1. /\ smForm' = smForm /\ smMeant' = smMeant /\ smSays' = smSays /\ smKnown' = smKnown
      /\ smSent' = <<Event("text", 0, n)>> /\ smSent = <<>>
      /\ smEnd = "open" /\ smEnd' = smEnd /\ smLine' = smLine
      /\ smCalls' = smCalls /\ smNext' = smNext
      /\ smText' = smText /\ smHeld' = smHeld /\ smShown' = smShown /\ smInline' = smInline
      /\ smBegun' = smBegun /\ smOver' = smOver /\ smTokens' = smTokens + n /\ smParts' = smParts
      /\ UNCHANGED <<smPlan, smParser>> /\ n \in Nat
  BY DEF SendText, Sends, smPlan, smParser, smAgent, CallTokens
<1>2. CallsSound' /\ Progress' /\ ItemsSound' /\ BlocksSound'
  <2>1. Live /\ \A kind \in {"begin", "part", "end"}, c \in smBegun : About(kind, c)' <=> About(kind, c)
    BY <1>1 DEF Live, About, Event
  <2>2. UNCHANGED <<smPlan, smParts, smBegun, smOver, smParser, smCalls>> BY <1>1
  <2> QED BY <2>1, <2>2, NothingEntered
<1>3. SentTypes' BY <1>1 DEF SmInv, SentTypes
<1>4. Orderly' BY <1>1 DEF SmInv, Orderly, AllSent
<1>5. SentSound'
  <2>1. smSent'[1] = Event("text", 0, n) /\ smSent' = <<smSent'[1]>> BY <1>1
  <2>2. EventSound(smSent[1])' BY <2>1 DEF EventSound, Event, CallTokens
  <2> QED BY <1>1, <2>1, <2>2 DEF SmInv, SentSound
<1>6. TextSound' BY <1>1 DEF SmInv, TextSound
<1> QED BY <1>2, <1>3, <1>4, <1>5, <1>6 DEF SmInv

LEMMA DoneSent == ASSUME SmInv, SendDone PROVE SmInv'
<1>1. /\ smForm' = smForm /\ smMeant' = smMeant /\ smSays' = smSays /\ smKnown' = smKnown
      /\ smSent' = <<Event("done", 0, 0)>> /\ smSent = <<>>
      /\ smEnd = "open" /\ smEnd' = smEnd /\ smLine' = smLine
      /\ smCalls' = smCalls /\ smNext' = smNext
      /\ smText' = smText /\ smHeld' = smHeld /\ smShown' = smShown /\ smInline' = smInline
      /\ smBegun' = smBegun /\ smOver' = smOver /\ smTokens' = smTokens /\ smParts' = smParts
      /\ UNCHANGED <<smPlan, smParser>> /\ AllSent
  BY DEF SendDone, Sends, smPlan, smParser, smAgent, smRemote, AllSent
<1>2. CallsSound' /\ Progress' /\ ItemsSound' /\ BlocksSound'
  <2>1. Live /\ \A kind \in {"begin", "part", "end"}, c \in smBegun : About(kind, c)' <=> About(kind, c)
    BY <1>1 DEF Live, About, Event
  <2>2. UNCHANGED <<smPlan, smParts, smBegun, smOver, smParser, smCalls>> BY <1>1
  <2> QED BY <2>1, <2>2, NothingEntered
<1>3. SentTypes' BY <1>1 DEF SmInv, SentTypes
<1>4. Orderly' BY <1>1 DEF SmInv, Orderly, AllSent
<1>5. SentSound'
  <2>1. smSent'[1] = Event("done", 0, 0) /\ smSent' = <<smSent'[1]>> BY <1>1
  <2>2. AllSent' BY <1>1 DEF AllSent
  <2>3. EventSound(smSent[1])' BY <2>1, <2>2 DEF EventSound, Event
  <2> QED BY <1>1, <2>1, <2>3 DEF SmInv, SentSound
<1>6. TextSound' BY <1>1 DEF SmInv, TextSound
<1> QED BY <1>2, <1>3, <1>4, <1>5, <1>6 DEF SmInv

\* An event is read: one about a call, or a text.
LEMMA EventTaken ==
    ASSUME SmInv, smEnd \in {"open", "closed"}, smSent # <<>>, smSent[1].kind # "done", Take(smSent[1]),
           smSent' = <<>>, smLine' = FALSE, UNCHANGED <<smPlan, smRemote, smEnd, smInline>>
    PROVE  SmInv'
<1>1. /\ smForm' = smForm /\ smMeant' = smMeant /\ smSays' = smSays /\ smKnown' = smKnown
      /\ smBegun' = smBegun /\ smOver' = smOver /\ smTokens' = smTokens /\ smParts' = smParts
      /\ smEnd' = smEnd /\ smInline' = smInline
  BY DEF smPlan, smRemote
<1>2. Orderly' BY <1>1 DEF SmInv, Orderly, AllSent
<1>3. SentSound' BY <1>1 DEF SmInv, SentSound
<1>4. smSent = <<smSent[1]>> /\ EventSound(smSent[1]) BY DEF SmInv, SentSound
<1>5. CASE smSent[1].kind = "text"
  <2>1. PICK n \in 1..CallTokens : smSent[1] = Event("text", 0, n) BY <1>4, <1>5 DEF EventSound, Event
  <2>2. smSent[1].n = n /\ n \in Nat BY <2>1 DEF Event, CallTokens
  <2>3. Content(n) /\ UNCHANGED <<smParser, smCalls>> BY <1>5, <2>2 DEF Take
  <2>4. CallsSound' /\ Progress' /\ ItemsSound' /\ BlocksSound'
    <3>1. Live /\ \A kind \in {"begin", "part", "end"}, c \in smBegun : About(kind, c)' <=> About(kind, c)
      BY <1>5 DEF Live, About
    <3>2. UNCHANGED <<smPlan, smParts, smBegun, smOver, smParser, smCalls>> BY <1>1, <2>3
    <3> QED BY <3>1, <3>2, NothingEntered
  <2>5. TextSound' BY <1>1, <2>2, <2>3 DEF SmInv, SentTypes, TextSound, Content, LooksLikeCall
  <2>6. smNext' = smNext /\ smText' \in Nat /\ smShown' \in Nat /\ smHeld' \in BOOLEAN
    BY <2>2, <2>3 DEF SmInv, SentTypes, Content, LooksLikeCall, smParser
  <2>7. SentTypes' BY <1>1, <2>6 DEF SmInv, SentTypes
  <2> QED BY <1>2, <1>3, <2>4, <2>5, <2>7 DEF SmInv
<1>6. CASE smSent[1].kind # "text"
  <2> DEFINE c == smSent[1].call
  <2>1. c \in smBegun BY <1>6, EventEnters
  <2>2. PICK id \in {0, c}, k \in 0..smMeant[c] :
           /\ Entered(c, id, k) /\ (id = 0 => smForm = "bare" /\ c \notin smOver)
           /\ k = IF c \in smOver THEN smMeant[c] ELSE smParts[c]
    BY <1>6, EventEnters
  <2> HIDE DEF c
  <2>3. CallsSound' /\ Progress' /\ ItemsSound' /\ \A d \in smBegun \ {c} : Heard(d)
    BY <2>1, <2>2, EnteredKeeps DEF c
  <2>4. BlocksSound' BY <1>6, <2>1, <2>2, <2>3, BlocksKept DEF c
  <2>5. smText' = smText /\ smHeld' = smHeld /\ smShown' = smShown /\ smNext' \in {smNext, smNext + 1}
    BY <2>2 DEF Entered
  <2>6. SentTypes'
    <3>1. smNext' \in Nat BY <2>5 DEF SmInv, SentTypes
    <3> QED BY <1>1, <2>5, <3>1 DEF SmInv, SentTypes
  <2>7. TextSound' BY <1>1, <2>5 DEF SmInv, TextSound
  <2> QED BY <1>2, <1>3, <2>3, <2>4, <2>6, <2>7 DEF SmInv
<1> QED BY <1>5, <1>6

\* The stream has come to its end.
LEMMA StreamSettled ==
    ASSUME SmInv, smEnd \in {"open", "closed"}, Settle, smSent' = <<>>, smLine' = FALSE,
           smEnd' = "eof" \/ (smEnd' = "done" /\ smEnd = "open" /\ smSent # <<>> /\ smSent[1].kind = "done"),
           UNCHANGED <<smPlan, smRemote, smParser>>
    PROVE  SmInv'
<1>1. /\ smForm' = smForm /\ smMeant' = smMeant /\ smSays' = smSays /\ smKnown' = smKnown
      /\ smBegun' = smBegun /\ smOver' = smOver /\ smTokens' = smTokens /\ smParts' = smParts
      /\ smNext' = smNext /\ smCalls' = smCalls /\ smText' = smText /\ smHeld' = smHeld
  BY DEF smPlan, smRemote, smParser, Settle
<1>2. smEnd' = "done" => AllSent BY DEF SmInv, SentSound, EventSound, Event
<1>3. Orderly' BY <1>1, <1>2 DEF SmInv, Orderly, AllSent
<1>4. SentSound' BY DEF SmInv, SentSound
<1>5. CallsSound' /\ Progress' /\ ItemsSound' /\ BlocksSound'
  <2>1. UNCHANGED <<smPlan, smParts, smBegun, smOver, smParser, smCalls>> BY <1>1
  <2>2. smEnd' = "eof" => ~Live' BY DEF Live
  <2>3. smEnd' = "done" =>
          Live /\ \A kind \in {"begin", "part", "end"}, c \in smBegun : About(kind, c)' <=> About(kind, c)
    BY DEF Live, About
  <2> QED BY <2>1, <2>2, <2>3, NothingEntered
<1>6. smInline' \in BOOLEAN /\ smShown' \in Nat BY DEF SmInv, SentTypes, Settle
<1>7. SentTypes' BY <1>1, <1>6 DEF SmInv, SentTypes
<1>8. TextSound'
  <2>1. smHeld => FinalCalls(smCalls) = {}
    <3> SUFFICES ASSUME smHeld PROVE FinalCalls(smCalls) = {} OBVIOUS
    <3>1. smMeant = <<>> BY DEF SmInv, TextSound, Orderly
    <3>2. smBegun = {} BY <3>1 DEF SmInv, SentTypes
    <3>3. DOMAIN smCalls = {} BY <3>2 DEF SmInv, CallsSound
    <3> QED BY <3>3 DEF FinalCalls
  <2>2. smShown = IF smHeld THEN 0 ELSE smText BY DEF SmInv, TextSound
  <2>3. smShown' = IF smInline' THEN 0 ELSE smText BY <2>1, <2>2 DEF Settle
  <2> QED BY <1>1, <2>3 DEF SmInv, TextSound
<1> QED BY <1>3, <1>4, <1>5, <1>7, <1>8 DEF SmInv

\* A line arrives, the connection is closed, or the answer is dropped.
LEMMA NothingRead ==
    ASSUME SmInv, smEnd \in {"open", "closed"}, UNCHANGED <<smPlan, smRemote, smParser, smAgent>>,
           \/ smSent' = smSent /\ smSent # <<>> /\ smEnd' \in {"open", "closed"} /\ smLine' \in BOOLEAN
           \/ smSent' = <<>> /\ smEnd' \in {"closed", "failed"} /\ smLine' = FALSE
    PROVE  SmInv'
<1>1. /\ smForm' = smForm /\ smMeant' = smMeant /\ smSays' = smSays /\ smKnown' = smKnown
      /\ smBegun' = smBegun /\ smOver' = smOver /\ smTokens' = smTokens /\ smParts' = smParts
      /\ smNext' = smNext /\ smCalls' = smCalls /\ smText' = smText /\ smHeld' = smHeld
      /\ smShown' = smShown /\ smInline' = smInline
  BY DEF smPlan, smRemote, smParser, smAgent
<1>2. SentTypes' BY <1>1 DEF SmInv, SentTypes
<1>3. Orderly' BY <1>1 DEF SmInv, Orderly
<1>4. SentSound'
  <2>2. CASE smSent' = smSent
    <3>1. ASSUME smSent # <<>> PROVE EventSound(smSent[1])'
      <4>1. EventSound(smSent[1]) BY <3>1 DEF SmInv, SentSound
      <4>2. (\A c : Heard(c)' <=> Heard(c)) /\ (AllSent' <=> AllSent) BY <1>1 DEF Heard, Ix, AllSent
      <4> QED BY <1>1, <2>2, <4>1, <4>2 DEF EventSound, Event
    <3> QED BY <2>2, <3>1 DEF SmInv, SentSound
  <2>3. CASE smSent' = <<>> /\ smLine' = FALSE BY <2>3 DEF SentSound
  <2> QED BY <2>2, <2>3
<1>5. CallsSound' /\ Progress' /\ ItemsSound' /\ BlocksSound'
  <2>1. UNCHANGED <<smPlan, smParts, smBegun, smOver, smParser, smCalls>> BY <1>1
  <2>2. CASE smSent' = <<>> /\ smEnd' \in {"closed", "failed"}
    <3>1. ~Live' BY <2>2 DEF Live
    <3> QED BY <2>1, <3>1, NothingEntered
  <2>3. CASE smSent' = smSent /\ smSent # <<>>
    <3>1. Live /\ \A kind \in {"begin", "part", "end"}, c \in smBegun : About(kind, c)' <=> About(kind, c)
      BY <2>3 DEF Live, About
    <3> QED BY <2>1, <3>1, NothingEntered
  <2> QED BY <2>2, <2>3
<1>6. TextSound' BY <1>1 DEF SmInv, TextSound
<1> QED BY <1>2, <1>3, <1>4, <1>5, <1>6 DEF SmInv

LEMMA StreamKept == SmInv /\ [SmNext]_smVars => SmInv'
<1> SUFFICES ASSUME SmInv, [SmNext]_smVars PROVE SmInv' OBVIOUS
<1>1. CASE \E c \in DOMAIN smMeant : SendBegin(c) \/ SendPart(c) \/ SendEnd(c)
  BY <1>1, BeginSent, PartSent, EndSent
<1>2. CASE \E n \in 1..CallTokens : SendText(n) BY <1>2, TextSent
<1>3. CASE SendDone BY <1>3, DoneSent
<1>4. CASE FeedLine
  <2>1. UNCHANGED <<smPlan, smRemote, smParser, smAgent>> /\ smSent' = smSent /\ smSent # <<>>
        /\ smEnd = "open" /\ smEnd' = "open" /\ smLine' = TRUE
    BY <1>4 DEF FeedLine
  <2> QED BY <2>1, NothingRead
<1>5. CASE FeedBlank
  <2>1. smSent # <<>> /\ smEnd = "open" /\ smSent' = <<>> /\ smLine' = FALSE /\ UNCHANGED <<smPlan, smRemote>>
    BY <1>5 DEF FeedBlank, SmInv, SentSound
  <2>2. CASE smSent[1].kind = "done"
    <3>1. smEnd' = "done" /\ Settle /\ UNCHANGED <<smPlan, smRemote, smParser>> BY <1>5, <2>1, <2>2 DEF FeedBlank
    <3> QED BY <2>1, <2>2, <3>1, StreamSettled
  <2>3. CASE smSent[1].kind # "done"
    <3>1. Take(smSent[1]) /\ UNCHANGED <<smPlan, smRemote, smEnd, smInline>> BY <1>5, <2>1, <2>3 DEF FeedBlank
    <3> QED BY <2>1, <2>3, <3>1, EventTaken
  <2> QED BY <2>2, <2>3
<1>6. CASE Close
  <2>1. /\ UNCHANGED <<smPlan, smRemote, smParser, smAgent>> /\ smEnd = "open" /\ smEnd' = "closed"
        /\ smLine' = smLine /\ smLine \in BOOLEAN /\ (smLine => smSent # <<>>)
        /\ smSent' = IF smLine THEN smSent ELSE <<>>
    BY <1>6 DEF Close, SmInv, SentTypes, SentSound
  <2> QED BY <2>1, NothingRead
<1>7. CASE Finalize
  <2>1. smEnd = "closed" /\ smSent' = <<>> /\ smLine' = FALSE /\ UNCHANGED <<smPlan, smRemote>>
    BY <1>7 DEF Finalize
  <2>2. CASE smSent # <<>> /\ smSent[1].kind # "done"
    <3>1. Take(smSent[1]) /\ UNCHANGED <<smPlan, smRemote, smEnd, smInline>> BY <1>7, <2>1, <2>2 DEF Finalize
    <3> QED BY <2>1, <2>2, <3>1, EventTaken
  <2>3. CASE ~(smSent # <<>> /\ smSent[1].kind # "done")
    <3>1. smEnd' = "eof" /\ Settle /\ UNCHANGED smParser BY <1>7, <2>3 DEF Finalize
    <3>2. /\ smEnd \in {"open", "closed"} /\ UNCHANGED <<smPlan, smRemote, smParser>>
          /\ smEnd' = "eof" \/ (smEnd' = "done" /\ smEnd = "open" /\ smSent # <<>> /\ smSent[1].kind = "done")
      BY <2>1, <3>1
    <3> QED BY ONLY SmInv, <2>1, <3>1, <3>2, StreamSettled
  <2> QED BY <2>2, <2>3
<1>8. CASE StreamFails
  <2>1. UNCHANGED <<smPlan, smRemote, smParser, smAgent>> /\ smEnd \in {"open", "closed"} /\ smEnd' = "failed"
        /\ smSent' = <<>> /\ smLine' = FALSE
    BY <1>8 DEF StreamFails
  <2> QED BY <2>1, NothingRead
<1>9. CASE UNCHANGED smVars
  <2>1. /\ UNCHANGED <<smPlan, smRemote, smParser, smAgent>> /\ smSent' = smSent /\ smEnd' = smEnd /\ smLine' = smLine
    BY <1>9 DEF smVars
  <2>2. /\ smForm' = smForm /\ smMeant' = smMeant /\ smSays' = smSays /\ smKnown' = smKnown
        /\ smBegun' = smBegun /\ smOver' = smOver /\ smTokens' = smTokens /\ smParts' = smParts
        /\ smNext' = smNext /\ smCalls' = smCalls /\ smText' = smText /\ smHeld' = smHeld
        /\ smShown' = smShown /\ smInline' = smInline /\ smItems' = smItems /\ smJson' = smJson /\ smBlocks' = smBlocks
    BY <2>1 DEF smPlan, smRemote, smParser, smAgent
  <2>3. (\A c : Ix(c)' = Ix(c)) /\ (\A c : Heard(c)' <=> Heard(c)) /\ (AllSent' <=> AllSent)
    BY <2>2 DEF Ix, Heard, AllSent
  <2>4. SentTypes' /\ Orderly' /\ TextSound' BY <2>1, <2>2, <2>3 DEF SmInv, SentTypes, Orderly, TextSound
  <2>5. SentSound' BY <2>1, <2>2, <2>3 DEF SmInv, SentSound, EventSound, Event
  <2>6. CallsSound' /\ Progress' /\ ItemsSound' /\ BlocksSound'
    <3>1. (\A kind, c : About(kind, c)' <=> About(kind, c)) /\ (Live' <=> Live) BY <2>1 DEF About, Live
    <3>2. UNCHANGED <<smPlan, smParts, smBegun, smOver, smParser, smCalls>> BY <2>1, <2>2
    <3> QED BY <3>1, <3>2, NothingEntered
  <2> QED BY <2>4, <2>5, <2>6 DEF SmInv
<1> QED BY <1>1, <1>2, <1>3, <1>4, <1>5, <1>6, <1>7, <1>8, <1>9 DEF SmNext

\* What the invariant says of the stream's end.
LEMMA InvAssembles == SmInv => StreamSound
<1> SUFFICES ASSUME SmInv PROVE StreamSound OBVIOUS
<1>1. NothingMixed
  <2> SUFFICES ASSUME NEW i \in DOMAIN smCalls
               PROVE  /\ smCalls[i].id # 0 => smCalls[i].name = <<smCalls[i].id>>
                      /\ \E c \in DOMAIN smMeant : smCalls[i].id \in {0, c} /\ IsPrefix(smCalls[i].args, Whole(c))
    BY DEF NothingMixed
  <2>1. PICK c \in smBegun : i = Ix(c) BY DEF SmInv, CallsSound
  <2>2. PICK k \in 0..smMeant[c], id \in {0, c} : smCalls[i] = CallOf(id, k)
    BY <2>1 DEF SmInv, CallsSound, Heard
  <2>3. c \in DOMAIN smMeant /\ smMeant[c] \in Nat BY DEF SmInv, SentTypes
  <2>4. IsPrefix(Parts(k), Whole(c)) BY <2>3, PartsPrefix DEF Whole
  <2> QED BY <2>2, <2>3, <2>4 DEF CallOf
<1>2. TextShownOnce BY DEF SmInv, TextSound, TextShownOnce
<1>3. AssembledAsMeant
  <2> SUFFICES ASSUME smEnd = "done" PROVE AssembledAsMeant BY DEF AssembledAsMeant
  <2> DEFINE Call(c) == [id |-> c, name |-> <<c>>, args |-> Whole(c)]
  <2>1. /\ smBegun \subseteq DOMAIN smMeant /\ smOver \subseteq smBegun /\ DOMAIN smMeant \subseteq Nat \ {0}
        /\ DOMAIN smMeant = 1..Len(smMeant) /\ Len(smMeant) \in Nat /\ smForm \in {"chat", "anthropic", "codex", "bare"}
    BY DEF SmInv, SentTypes
  <2>2. smSent = <<>> /\ AllSent /\ Live BY DEF SmInv, SentSound, Orderly, Live
  <2>3. \A c : (\A kind : ~About(kind, c)) /\ (Handled(c) <=> c \in smOver) /\ Taken(c) = smParts[c]
    BY <2>2 DEF About, Handled, Taken
  <2>4. smBegun = DOMAIN smMeant BY <2>1, <2>2 DEF AllSent
  <2>5. \A c \in smBegun : Heard(c) BY <2>2, <2>3 DEF SmInv, Progress
  <2>6. ASSUME NEW c \in smBegun 
        PROVE  /\ smCalls[Ix(c)] = Call(c)
               /\ smCalls[Ix(c)].id = c /\ smCalls[Ix(c)].id # 0 /\ smCalls[Ix(c)].name # <<>>
    <3>1. PICK id \in {0, c} :
             /\ smCalls[Ix(c)] = CallOf(id, IF Handled(c) THEN smMeant[c] ELSE Taken(c))
             /\ id = 0 => smForm = "bare" /\ ~Handled(c)
      BY <2>2, <2>5, HeardSoFar
    <3>2. id = c /\ c # 0 BY <2>1, <2>2, <2>3, <2>4, <3>1 DEF AllSent
    <3>3. smCalls[Ix(c)] = CallOf(c, smMeant[c]) BY <2>2, <2>3, <2>4, <3>1, <3>2 DEF AllSent
    <3>4. smCalls[Ix(c)] = [id |-> c, name |-> <<c>>, args |-> Whole(c)] BY <3>2, <3>3 DEF CallOf, Whole
    <3>5. <<c>> # <<>> OBVIOUS
    <3> QED BY <3>2, <3>4, <3>5
  <2>7. DOMAIN smCalls = {Ix(c) : c \in smBegun} BY <2>5 DEF SmInv, CallsSound, Heard
  <2>8. FinalCalls(smCalls) = {Ix(c) : c \in smBegun}
    <3> HIDE DEF Call
    <3>1. \A c \in smBegun : smCalls[Ix(c)].id # 0 /\ smCalls[Ix(c)].name # <<>> BY <2>6
    <3> QED BY <2>7, <3>1 DEF FinalCalls
  <2>9. {smCalls[i] : i \in FinalCalls(smCalls)} = {Call(c) : c \in DOMAIN smMeant}
    <3>1. {smCalls[i] : i \in {Ix(c) : c \in smBegun}} = {smCalls[Ix(c)] : c \in smBegun} OBVIOUS
    <3> HIDE DEF Call
    <3> QED BY <2>4, <2>6, <2>8, <3>1
  <2>10. \A i, j \in FinalCalls(smCalls) : i < j => smCalls[i].id < smCalls[j].id
    <3> SUFFICES ASSUME NEW c \in smBegun, NEW d \in smBegun, Ix(c) < Ix(d) PROVE smCalls[Ix(c)].id < smCalls[Ix(d)].id
      BY <2>8
    <3> HIDE DEF Call
    <3>1. smCalls[Ix(c)].id = c /\ smCalls[Ix(d)].id = d BY <2>6
    <3> QED BY <2>1, <3>1 DEF Ix
  <2>11. smForm = "anthropic" => smBlocks = [c \in DOMAIN smMeant |-> <<c, Whole(c)>>]
    <3> SUFFICES ASSUME smForm = "anthropic" PROVE smBlocks = [c \in DOMAIN smMeant |-> <<c, Whole(c)>>] OBVIOUS
    <3>1. PICK n \in 0..Len(smMeant) : smBlocks = [i \in 1..n |-> <<i, Whole(i)>>] /\ {c \in smOver : Handled(c)} = 1..n
      BY <2>2 DEF SmInv, BlocksSound
    <3>2. smOver = DOMAIN smMeant /\ 1..n = smOver BY <2>1, <2>2, <2>3, <3>1 DEF AllSent
    <3> QED BY <3>1, <3>2
  <2> QED BY <2>9, <2>10, <2>11 DEF AssembledAsMeant
<1> QED BY <1>1, <1>2, <1>3 DEF StreamSound

\* However the parts of the calls are mixed and cut, the calls made of a stream that
\* came to its end are those that were meant, and its text is shown once.
THEOREM StreamAlwaysSound == SmSpec => []StreamSound
<1>1. SmInit => SmInv BY StreamBegins
<1>2. SmInv /\ [SmNext]_smVars => SmInv' BY StreamKept
<1>3. SmInv => StreamSound BY InvAssembles
<1> QED BY <1>1, <1>2, <1>3, PTL DEF SmSpec

=============================================================================
