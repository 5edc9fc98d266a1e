---------------------------- MODULE MC_SxeRecord ----------------------------
(* Small instances of SxeRecord.                                           *)
EXTENDS SxeRecord

MC_NewData == <<"a">>

\* Moving away and back.
Moves == {[key |-> "position", pos |-> x] : x \in Position}

\* Clearing the data, typing a character in front of it, replacing the first
\* character: on data of one character a concurrent clearing makes the range of
\* the last invalid.
Clearing  == [key |-> "chdata", text |-> <<>>]
Typing    == [key |-> "replace", from |-> 0, n |-> 0, text |-> <<"b">>]
Replacing == [key |-> "replace", from |-> 0, n |-> 1, text |-> <<"c">>]

MC_Wanted == Moves \cup {Clearing, Typing, Replacing}
=============================================================================
