------------------------------ MODULE MC_EventDb ------------------------------
(* Constants and bounds to check EventDb with TLC. *)
EXTENDS EventDb, TLC

CONSTANTS ann, w1, w2

\* Two windows, of two accounts, show the history of one contact.
MC_ContactOf == w1 :> ann @@ w2 :> ann
================================================================================
