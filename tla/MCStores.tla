------------------------------ MODULE MCStores ------------------------------
(* Files that processes of the user share, and the policy of the routes,   *)
(* each part by itself, for TLC: a behaviour is that of one part, and the  *)
(* others stay as they began.                                              *)
EXTENDS TrustStore, Credentials, Packages, RoutePolicy, Ship, Scorecard, TLC

VARIABLE part

storesVars == <<part, trVars, auVars, pkVars, rpVars, shVars, scVars>>

Begun(p) == part = p /\ UNCHANGED part

StoresInit ==
    /\ part \in {"trust", "auth", "packages", "routes", "ship", "scorecard"}
    /\ AuthInit /\ PkInit /\ ScInit
    /\ TrustInit /\ (part # "trust" => /\ trKind = "hook"
                                       /\ trConfig = [i \in Items |-> CHOOSE v \in Versions : TRUE])
    /\ RpInit /\ (part # "routes" => /\ rpStack = [t \in Tiers |-> NoCoder]
                                     /\ rpPolicy = CHOOSE p \in Policies : TRUE)
    /\ ShInit /\ (part # "ship" => ~shUpstream /\ ~shSuite)

StoresNext ==
    \/ Begun("trust") /\ TrustNext /\ UNCHANGED <<auVars, pkVars, rpVars, shVars, scVars>>
    \/ Begun("auth") /\ AuthNext /\ UNCHANGED <<trVars, pkVars, rpVars, shVars, scVars>>
    \/ Begun("packages") /\ PkNext /\ UNCHANGED <<trVars, auVars, rpVars, shVars, scVars>>
    \/ Begun("routes") /\ RpNext /\ UNCHANGED <<trVars, auVars, pkVars, shVars, scVars>>
    \/ Begun("ship") /\ ShNext /\ UNCHANGED <<trVars, auVars, pkVars, rpVars, scVars>>
    \/ Begun("scorecard") /\ ScNext /\ UNCHANGED <<trVars, auVars, pkVars, rpVars, shVars>>

StoresSpec == StoresInit /\ [][StoresNext]_storesVars

CoderKindsOfStack ==
    {[local |-> TRUE, cost |-> 0, effort |-> FALSE, supports |-> FALSE],
     [local |-> FALSE, cost |-> 1, effort |-> TRUE, supports |-> TRUE],
     [local |-> FALSE, cost |-> 3, effort |-> TRUE, supports |-> FALSE],
     [local |-> FALSE, cost |-> Unpriced, effort |-> FALSE, supports |-> TRUE]}

Interchangeable == Permutations(Procs) \cup Permutations(Users) \cup Permutations(Items)
                   \cup Permutations(Versions) \cup Permutations(Writers)

\* What may lose a credential ends the search in that direction.
Undisturbed == ~auDisturbed

=============================================================================
