---------------------------- MODULE RoutePolicy ----------------------------
(***************************************************************************)
(* Which coder /route select takes (src/src/commands/route.rs,             *)
(* model_system.rs).  A selector model names a complexity, and the routing *)
(* policy of the configuration has the last word: it excludes candidates,  *)
(* and replaces a choice it excludes, or is not sure enough of, by what    *)
(* its objective prefers.                                                  *)
(*                                                                         *)
(* A run picks a stack of coders and a policy, and then any decision.      *)
(***************************************************************************)
EXTENDS Naturals

CONSTANTS
    CoderKinds,    \* candidates: [local, cost, effort, supports]; see rpStack
    Caps,          \* values of maxTurnUsd
    Unlimited,     \* no maxTurnUsd, no minConfidence, no confidence
    Minimums,      \* values of minConfidence
    Confidences    \* what a selector may report, in percent

ASSUME PolicyAssumption ==
    /\ CoderKinds \subseteq [local : BOOLEAN, cost : Nat, effort : BOOLEAN, supports : BOOLEAN]
    /\ Caps \subseteq Nat /\ Minimums \subseteq 0..100 /\ Confidences \subseteq 0..100
    /\ Unlimited \notin Nat

Tiers == 1..3    \* complexity_rank: low, medium, high
NoCoder == [local |-> FALSE, cost |-> 0, effort |-> FALSE, supports |-> FALSE]
Unpriced == 1000    \* the catalog has no price

VARIABLES
    rpStack,     \* the coder of each tier, NoCoder if there is none: is its
                 \* backend local, what does a turn cost, is an effort configured
                 \* for it, does its provider apply one
    rpPolicy,    \* modelSystem.policy
    rpDecision,  \* what the selector said
    rpChosen     \* the tier taken; 0: refused

rpVars == <<rpStack, rpPolicy, rpDecision, rpChosen>>

Policies == [objective : {"quality", "cost", "balanced"}, localOnly : BOOLEAN,
             cap : Caps \cup {Unlimited}, denyUnknown : BOOLEAN,
             minimum : Minimums \cup {Unlimited}, requireEffort : BOOLEAN]
Decisions == [tier : Tiers, confidence : Confidences \cup {Unlimited}, effort : BOOLEAN]
Undecided == [tier |-> 1, confidence |-> Unlimited, effort |-> FALSE]

RpInit ==
    /\ rpStack \in [Tiers -> CoderKinds \cup {NoCoder}] /\ rpPolicy \in Policies
    /\ rpDecision = Undecided /\ rpChosen = 0

Candidates == {t \in Tiers : rpStack[t] # NoCoder}

\* evaluate_coder_candidates
Eligible(t) ==
    LET c == rpStack[t] IN
    /\ t \in Candidates
    /\ rpPolicy.localOnly => c.local
    /\ rpPolicy.requireEffort /\ c.effort => c.supports
    /\ IF c.cost = Unpriced THEN ~rpPolicy.denyUnknown
       ELSE rpPolicy.cap # Unlimited => c.cost <= rpPolicy.cap

\* Mutant: the effort the selector asks for is not compared with its coder.
AllowedAsConfigured(d) == {t \in Tiers : Eligible(t)}

\* The first half of enforce_routing_policy: an effort the selector asks for
\* excludes the coders that cannot apply one.
Allowed(d) ==
    {t \in Tiers : Eligible(t) /\ (rpPolicy.requireEffort /\ d.effort => rpStack[t].supports)}

Cheaper(s, t) ==
    rpStack[s].cost < rpStack[t].cost \/ (rpStack[s].cost = rpStack[t].cost /\ s <= t)

\* policy_fallback
Fallback(tiers) ==
    CASE rpPolicy.objective = "quality" -> CHOOSE t \in tiers : \A u \in tiers : u <= t
      [] rpPolicy.objective = "cost"    -> CHOOSE t \in tiers : \A u \in tiers : Cheaper(t, u)
      [] OTHER -> IF 2 \in tiers THEN 2 ELSE CHOOSE t \in tiers : \A u \in tiers : u <= t

\* A selector that does not say how sure it is, is not.
Unsure(d) ==
    /\ rpPolicy.minimum # Unlimited
    /\ d.confidence = Unlimited \/ d.confidence < rpPolicy.minimum

\* enforce_routing_policy and resolve_route
Enforced(d) ==
    LET allowed == Allowed(d) IN
    IF d.tier \in allowed /\ ~Unsure(d) THEN d.tier
    ELSE IF allowed = {} THEN 0 ELSE Fallback(allowed)

\* select_route: no selector is asked when there is nothing to choose from.
Select(d) ==
    /\ rpDecision = Undecided /\ rpChosen = 0 /\ \E t \in Tiers : Eligible(t)
    /\ rpDecision' = d /\ rpChosen' = Enforced(d)
    /\ UNCHANGED <<rpStack, rpPolicy>>

RpNext == \E d \in Decisions : Select(d)
RpSpec == RpInit /\ [][RpNext]_rpVars

-----------------------------------------------------------------------------
(* Properties. *)

\* README.md, "maxTurnUsd, localOnly, and unknownCost can exclude candidates": the
\* coder that is taken, chosen or fallen back to, obeys every rule of the policy,
\* also for the effort it is going to be asked for, be it configured or the
\* selector's.
PolicyObeyed ==
    rpChosen # 0 =>
        LET c == rpStack[rpChosen] IN
        /\ c # NoCoder /\ (rpPolicy.localOnly => c.local)
        /\ rpPolicy.denyUnknown => c.cost # Unpriced
        /\ rpPolicy.cap # Unlimited => c.cost <= rpPolicy.cap \/ c.cost = Unpriced
        /\ rpPolicy.requireEffort => c.supports \/ ~(c.effort \/ rpDecision.effort)

\* A sure choice that the policy allows stands.  Any other gives way to what the
\* objective prefers: no allowed coder is stronger for "quality" or cheaper for
\* "cost", where one without a price is dearer than any other.
ObjectiveDecides ==
    LET d == rpDecision
        others == Allowed(d)
        free   == d.tier \in others /\
                  (rpPolicy.minimum = Unlimited \/ d.confidence \in rpPolicy.minimum..100)
    IN  rpChosen # 0 =>
        IF free THEN rpChosen = d.tier
        ELSE CASE rpPolicy.objective = "quality" -> \A t \in others : t <= rpChosen
               [] rpPolicy.objective = "cost" ->
                    \A t \in others : rpStack[rpChosen].cost <= rpStack[t].cost
               [] OTHER -> rpChosen = 2 \/ (2 \notin others /\ (rpChosen = 3 \/ 3 \notin others))

\* The coder that is chosen is one the policy allows, and the objective chose it.
RoutesSound == PolicyObeyed /\ ObjectiveDecides

=============================================================================
