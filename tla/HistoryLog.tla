------------------------------ MODULE HistoryLog ------------------------------
(***************************************************************************)
(* What the history promises its users: each contact has a log, which grows *)
(* by one event at a time at its end and is erased as a whole.  Writing and *)
(* erasing take effect in the order they are asked for, at once.            *)
(***************************************************************************)
EXTENDS Sequences, Naturals

CONSTANTS Contact, MaxEvents

VARIABLE log

Init == log = [c \in Contact |-> <<>>]

\* Every event is written once, to one contact's log.
Write(c) ==
    \E e \in 1 .. MaxEvents :
        /\ \A d \in Contact : \A i \in DOMAIN log[d] : log[d][i] < e
        /\ log' = [log EXCEPT ![c] = Append(@, e)]

Erase(c) == log' = [log EXCEPT ![c] = <<>>]

Next == \E c \in Contact : Write(c) \/ Erase(c)

Spec == Init /\ [][Next]_log
================================================================================
