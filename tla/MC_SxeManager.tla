--------------------------- MODULE MC_SxeManager ---------------------------
(* Small instances of SxeManager: two clients, their sessions alike.       *)
EXTENDS SxeManager, TLC

Symmetry == Permutations(Session)
=============================================================================
