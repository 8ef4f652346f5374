-------------------------- MODULE MCTurnCheckpoint --------------------------
(* Instances of TurnCheckpoint for TLC: two interchangeable files; a content *)
(* of two bytes, and one of three that is binary and over the file limit.    *)
EXTENDS TurnCheckpoint, TLC

CONSTANTS f1, f2, text, blob

MCFiles  == {f1, f2}
MCText   == {text}
MCAll    == {text, blob}
MCBinary == {blob}
MCSize   == [c \in Contents |-> IF c = text THEN 2 ELSE 3]

Symmetry == Permutations(MCFiles)
=============================================================================
