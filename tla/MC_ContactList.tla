---------------------------- MODULE MC_ContactList -----------------------------
(* Constants to check ContactList with TLC. *)
EXTENDS ContactList

CONSTANTS home, office, ann, gateway, friends, work

MC_AccountOf == [c \in Contact |-> home]

\* The first start of the program, and one with a contact in two groups.
InList(groups) == [inList |-> TRUE, groups |-> groups]
MC_Saved == {[c \in Contact |-> Absent],
             [c \in Contact |-> InList(IF c = ann THEN {friends, work} ELSE {friends})]}
================================================================================
