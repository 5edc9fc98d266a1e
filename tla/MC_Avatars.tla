------------------------------- MODULE MC_Avatars -------------------------------
(* Constants to check Avatars with TLC. *)
EXTENDS Avatars, TLC

CONSTANTS p1, p2

\* Nothing tells one photo from another but its name.
Symmetry == Permutations(Photo)
================================================================================
