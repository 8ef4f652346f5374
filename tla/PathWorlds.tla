----------------------------- MODULE PathWorlds -----------------------------
(***************************************************************************)
(* What session paths promise: every path is a world of its own, its       *)
(* conversation and its workspace.  Work changes the world of the active   *)
(* path only, a fork starts as a copy of it, and switching brings another  *)
(* world back as it was left.                                              *)
(***************************************************************************)
CONSTANTS Paths,   \* names of paths
          Main,    \* the path every session has
          Worlds   \* states of a conversation and its workspace

VARIABLES worlds,  \* the world of every path there is
          active   \* the path worked on

Init == active = Main /\ worlds \in [{Main} -> Worlds]

Existing == DOMAIN worlds

Work ==
    /\ worlds'[active] \in Worlds
    /\ worlds' = [worlds EXCEPT ![active] = worlds'[active]]
    /\ UNCHANGED active

Fork(p) ==
    /\ p \notin Existing /\ active' = p
    /\ worlds' = [q \in Existing \cup {p} |-> IF q = p THEN worlds[active] ELSE worlds[q]]

Switch(p) == p \in Existing /\ active' = p /\ UNCHANGED worlds

Drop(p) ==
    /\ p \in Existing \ {Main, active}
    /\ worlds' = [q \in Existing \ {p} |-> worlds[q]]
    /\ UNCHANGED active

Next == Work \/ \E p \in Paths : Fork(p) \/ Switch(p) \/ Drop(p)

Step == Next \/ UNCHANGED <<worlds, active>>

Spec == Init /\ [][Next]_<<worlds, active>>

=============================================================================
