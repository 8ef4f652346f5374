------------------------------ MODULE ToolGate ------------------------------
(***************************************************************************)
(* What the agent loop promises of the tool calls of one assistant message *)
(* (a batch): every call is decided before any of them runs, a call that   *)
(* was refused never runs, nothing is answered before everything granted   *)
(* has run, the answers come in call order, and the model is not asked     *)
(* again before every call has its answer.                                 *)
(***************************************************************************)
EXTENDS Integers, Sequences

CONSTANT MaxCalls   \* bound: calls in one batch

\* fate[i], what became of the i-th call of the batch: it is proposed, refused, granted,
\* executed or answered.
VARIABLE fate

Init == fate = << >>

Indices == 1..Len(fate)
None(S) == \A i \in Indices : fate[i] \notin S

\* The model proposes a batch, or makes no call, once every call of the last
\* batch is answered.
Propose ==
    /\ \A i \in Indices : fate[i] = "answered"
    /\ \E n \in 0..MaxCalls : fate' = [i \in 1..n |-> "proposed"]

\* Calls are decided one after the other.
Decide(i) ==
    /\ fate[i] = "proposed" /\ \A j \in 1..(i - 1) : fate[j] # "proposed"
    /\ \E v \in {"granted", "refused"} : fate' = [fate EXCEPT ![i] = v]

\* A hook stopped the batch: what was granted is taken back, if none of it ran.
Withdraw ==
    /\ None({"proposed", "executed", "answered"})
    /\ fate' = [i \in Indices |-> "refused"]

Execute(i) ==
    /\ fate[i] = "granted" /\ None({"proposed", "answered"})
    /\ fate' = [fate EXCEPT ![i] = "executed"]

Answer(i) ==
    /\ fate[i] \in {"refused", "executed"} /\ None({"proposed", "granted"})
    /\ \A j \in 1..(i - 1) : fate[j] = "answered"
    /\ fate' = [fate EXCEPT ![i] = "answered"]

Next ==
    \/ Propose \/ Withdraw
    \/ \E i \in Indices : Decide(i) \/ Execute(i) \/ Answer(i)

Spec == Init /\ [][Next]_fate

=============================================================================
