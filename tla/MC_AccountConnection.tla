------------------------- MODULE MC_AccountConnection -------------------------
(* Constants and bounds to check AccountConnection with TLC. *)
EXTENDS AccountConnection

MC_Failure == {"lost", "stream", "negotiation"}
================================================================================
