------------------------------ MODULE SxeEdits ------------------------------
(***************************************************************************)
(* The edits of one record of a shared XML document and what each does to  *)
(* the fields of the record (sxe/sxerecordedit, and processInOrderRecord-  *)
(* Edit of sxe/sxerecord).                                                 *)
(*                                                                         *)
(* The record is one text or attribute node that every participant has at  *)
(* the start.  A position stands for the pair of a parent and a primary    *)
(* weight; the code puts only the changed half of the pair in an edit,     *)
(* which comes to the same because an edit takes effect only on the record *)
(* its author saw (AppliedAsWritten of SxeRecord).                         *)
(***************************************************************************)
EXTENDS Integers, Sequences, FiniteSets

CONSTANTS
    Peer,        \* the participants of the session
    Position,    \* the <parent, primary-weight> pairs a node may be given
    Char,        \* the characters of character data
    NewPosition, \* the position in the New edit
    NewData      \* the character data in the New edit

ASSUME PositionAssumption == NewPosition \in Position
ASSUME DataAssumption     == NewData \in Seq(Char)

Text   == Seq(Char)
Record == [pos : Position, data : Text]

\* A change is what the keys of a SxeRecordEdit ask for.  A nullified edit
\* keeps its version and asks for nothing.
NoChange == [key |-> "none"]
Change   ==      [key : {"position"}, pos : Position]
            \cup [key : {"chdata"}, text : Text]
            \cup [key : {"replace"}, from : Nat, n : Nat, text : Text]
            \cup {NoChange}

\* base is a history field: the record as the author saw it when making the
\* edit.  No action reads it.
Edit    == [by : Peer, kind : {"set"}, version : Nat, change : Change, base : Record]
Removal == [by : Peer, kind : {"remove"}]

\* revertToZero(): the fields of the New edit.
Zero == [pos |-> NewPosition, data |-> NewData]

Splice(s, from, n, t) == SubSeq(s, 1, from) \o t \o SubSeq(s, from + n + 1, Len(s))

\* A replacement whose range is outside the data is dropped.
ApplyChange(r, c) ==
    CASE c.key = "position" -> [r EXCEPT !.pos = c.pos]
      [] c.key = "chdata"   -> [r EXCEPT !.data = c.text]
      [] c.key = "replace"  -> IF c.from + c.n <= Len(r.data)
                               THEN [r EXCEPT !.data = Splice(@, c.from, c.n, c.text)]
                               ELSE r
      [] OTHER              -> r
=============================================================================
