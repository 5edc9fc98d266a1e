----------------------------- MODULE MC_EventQueue -----------------------------
(* Constants and bounds to check EventQueue with TLC. *)
EXTENDS EventQueue

CONSTANTS ann, bob

MC_Kind == {"headline", "chat", "auth"}
================================================================================
