--------------------------- MODULE ResolvedRecord ---------------------------
(***************************************************************************)
(* What SXE promises of one shared record, without lists, queues, sorting  *)
(* or replay: a participant knows a set of edits, in no order, and its     *)
(* record is a function of that set.  Two participants who know the same   *)
(* edits therefore show the same record, and one who edits the record sees *)
(* the edit take effect at once.  SxeRecord implements this specification. *)
(***************************************************************************)
EXTENDS SxeEdits

VARIABLES
    present, \* present[p]: p still has the record
    known,   \* known[p]: the set of the edits p has made or received
    rec      \* rec[p]: p's fields of the record

vars == <<present, known, rec>>

Below(K, v) == {e \in K : e.version < v}
At(K, v)    == {e \in K : e.version = v}

\* An edit takes effect when nobody else made one of the same version and every
\* smaller version number is accounted for by one edit.
Undisputed(K, v) ==
    /\ Cardinality(At(K, v)) = 1
    /\ Cardinality(Below(K, v)) = v - 1

Resolve(K) ==
    LET after[v \in 0 .. Cardinality(K)] ==
            IF v = 0 THEN Zero
            ELSE IF Undisputed(K, v)
                 THEN ApplyChange(after[v - 1], (CHOOSE e \in At(K, v) : TRUE).change)
                 ELSE after[v - 1]
    IN  after[Cardinality(K)]

Init ==
    /\ present = [p \in Peer |-> TRUE]
    /\ known   = [p \in Peer |-> {}]
    /\ rec     = [p \in Peer |-> Zero]

\* p's record is that of one more edit.
Adopt(p, e) ==
    /\ present[p]
    /\ e \notin known[p]
    /\ known' = [known EXCEPT ![p] = @ \cup {e}]
    /\ rec'   = [rec EXCEPT ![p] = Resolve(known'[p])]
    /\ UNCHANGED present

\* A local edit is numbered after all that p knows and takes effect.
Write(p, e) ==
    /\ e.by = p
    /\ e.version = Cardinality(known[p]) + 1
    /\ e.base = rec[p]
    /\ Adopt(p, e)
    /\ rec'[p] = ApplyChange(rec[p], e.change)

\* p learns an edit from somebody who knows it.
Learn(p, e) ==
    /\ \E q \in Peer : e \in known[q]
    /\ e.by # p
    /\ Adopt(p, e)

Drop(p) ==
    /\ present[p]
    /\ present' = [present EXCEPT ![p] = FALSE]
    /\ UNCHANGED <<known, rec>>

\* The new edit is named by the set it is added to: a user may write anything.
Next ==
    \E p \in Peer :
        \/ \E e \in known'[p] \ known[p] : Write(p, e) \/ Learn(p, e)
        \/ Drop(p)

Spec == Init /\ [][Next]_vars
=============================================================================
