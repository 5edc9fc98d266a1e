---------------------------- MODULE MC_SxeSession ----------------------------
(* Small drawings for TLC.                                                   *)
EXTENDS SxeSession

CONSTANTS a, b

\* Shapes 1 to 4, groups 5 and 6: odd ones are given by a, even ones by b.
OddAndEven == [p \in {a, b} |-> {r \in 1 .. 6 : r % 2 = IF p = a THEN 1 ELSE 0}]

At(q, w) == [parent |-> q, weight |-> w * Unit]

TwoShapes == 1 :> At(0, 0) @@ 2 :> At(0, 1)
=============================================================================
