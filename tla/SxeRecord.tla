------------------------------ MODULE SxeRecord ------------------------------
(***************************************************************************)
(* Version control of one record of a shared XML document (sxe/sxerecord,  *)
(* sxe/sxeedit and the sending half of sxe/sxesession).                    *)
(*                                                                         *)
(* Every participant of an SXE session keeps, for each node of the shared  *)
(* document, an SxeRecord: the list of all the edits it knows of, kept     *)
(* sorted by version, and the fields that result from them.  A participant *)
(* applies its own edits at once and sends them later (flush); the server  *)
(* relays everybody's edits to everybody in one order.  Nothing is ever    *)
(* acknowledged or retried: the participants agree only because each of    *)
(* them resolves concurrent edits the same way, whatever the order in      *)
(* which they reached it.                                                  *)
(*                                                                         *)
(* The New edit that created the record is entry 0 of edits_ in the code   *)
(* and is not in edits here, so that an index of this list is an index of  *)
(* edits_ and Len(edits[p]) is version().                                  *)
(***************************************************************************)
EXTENDS SxeEdits, SxeEditList

CONSTANTS
    Wanted,     \* bound: the changes users ask for
    MaxEdits,   \* bound: set edits made in all
    MaxRemovals \* bound: removals on their way or received

ASSUME WantedAssumption == Wanted \subseteq Change \ {NoChange}
ASSUME BoundsAssumption == MaxEdits \in Nat /\ MaxRemovals \in Nat

VARIABLES
    present, \* present[p]: p's recordByNodeId_ holds the record
    edits,   \* edits[p]: the Record edits of p's edits_, in list order
    rec,     \* rec[p]: parent_, primaryWeight_ and data_ of p's record
    dom,     \* dom[p]: where p's DOM tree holds the node, and its value
    outbox,  \* outbox[p]: p's queuedOutgoingEdits_
    log,     \* the edits the server has relayed, in relay order
    rd       \* rd[p]: how much of log p has received

vars == <<present, edits, rec, dom, outbox, log, rd>>

TypeOK ==
    /\ present \in [Peer -> BOOLEAN]
    /\ edits   \in [Peer -> Seq(Edit)]
    /\ rec     \in [Peer -> Record]
    /\ dom     \in [Peer -> Record]
    /\ outbox  \in [Peer -> Seq(Edit)]
    /\ log     \in Seq(Edit \cup Removal)
    /\ rd      \in [Peer -> 0 .. Len(log)]

Init ==
    /\ present = [p \in Peer |-> TRUE]
    /\ edits   = [p \in Peer |-> <<>>]
    /\ rec     = [p \in Peer |-> Zero]
    /\ dom     = [p \in Peer |-> Zero]
    /\ outbox  = [p \in Peer |-> <<>>]
    /\ log     = <<>>
    /\ rd      = [p \in Peer |-> 0]

-----------------------------------------------------------------------------
(* The list of edits (see SxeEditList).                                    *)

\* The record after the first k edits of a sorted list, from version 0.
ReplayTo(s, k) ==
    LET val[i \in 0 .. Len(s)] ==
            IF i = 0 THEN Zero
            ELSE IF Effective(s, i) THEN ApplyChange(val[i - 1], s[i].change)
            ELSE val[i - 1]
    IN  val[k]

\* An edit that was passed over can never be applied any more: nullify().
NullifyPassed(s) ==
    [i \in 1 .. Len(s) |->
        IF ~Effective(s, i) /\ s[i].version <= i
        THEN [s[i] EXCEPT !.change = NoChange]
        ELSE s[i]]

-----------------------------------------------------------------------------
(* The DOM node.  lastParent_ and lastPrimaryWeight_ are assigned once, when *)
(* the New edit is applied; lastData_ is never assigned and stays empty.     *)

lastPosition == NewPosition
lastData     == <<>>

\* updateNode(): moves the node and sets its value when the field differs from
\* its last* variant.
UpdateNode(node, r) ==
    [pos  |-> IF r.pos  # lastPosition THEN r.pos  ELSE node.pos,
     data |-> IF r.data # lastData     THEN r.data ELSE node.data]

\* applySxeRecordEdit(): an edit that continues the list is applied on top of
\* the fields; any other makes the list sorted again and replayed.
ApplyRecordEdit(p, e) ==
    /\ \/ /\ InOrder(edits[p], e)
          /\ edits' = [edits EXCEPT ![p] = Append(@, e)]
          /\ rec'   = [rec EXCEPT ![p] = ApplyChange(@, e.change)]
       \/ /\ ~InOrder(edits[p], e)
          /\ LET all == Append(edits[p], e)
             IN  \E f \in Orders(all) :
                    LET s == Shuffle(all, f)
                    IN  /\ edits' = [edits EXCEPT ![p] = NullifyPassed(s)]
                        /\ rec'   = [rec EXCEPT ![p] = ReplayTo(s, Len(s))]
    /\ dom' = [dom EXCEPT ![p] = UpdateNode(@, rec'[p])]

-----------------------------------------------------------------------------
(* Local editing.                                                          *)

Made == UNION {{<<p, i>> : i \in {j \in 1 .. Len(edits[p]) : edits[p][j].by = p}} :
                   p \in Peer}

\* The version a local edit gets: version() + 1.
NextVersionStale(p) == Len(edits[p])
NextVersionSkipping(p) == Len(edits[p]) + 2
NextVersion(p) == Len(edits[p]) + 1

EditLocally(p, c) ==
    LET e == [by |-> p, kind |-> "set", version |-> NextVersion(p),
              change |-> c, base |-> rec[p]]
    IN  /\ present[p]
        /\ Cardinality(Made) < MaxEdits
        /\ ApplyRecordEdit(p, e)
        /\ outbox' = [outbox EXCEPT ![p] = Append(@, e)]
        /\ UNCHANGED <<present, log, rd>>

\* insertNode() on a node that has a record.
MoveNode(p, c) ==
    /\ c.key = "position"
    /\ c.pos # rec[p].pos
    /\ EditLocally(p, c)

\* setNodeValue(): both forms compare with the value the DOM node shows.
SetNodeValue(p, c) ==
    /\ c.key = "chdata"
    /\ c.text # dom[p].data
    /\ EditLocally(p, c)

ReplaceNodeValue(p, c) ==
    /\ c.key = "replace"
    /\ c.from + c.n <= Len(dom[p].data)
    /\ Splice(dom[p].data, c.from, c.n, c.text) # dom[p].data
    /\ EditLocally(p, c)

\* removeNode(): the removal is queued behind the unsent edits, applied (which
\* drops the record) and flushed.
RemoveNode(p) ==
    /\ present[p]
    /\ Cardinality({i \in 1 .. Len(log) : log[i].kind = "remove"}) < MaxRemovals
    /\ present' = [present EXCEPT ![p] = FALSE]
    /\ log'     = log \o outbox[p] \o <<[by |-> p, kind |-> "remove"]>>
    /\ outbox'  = [outbox EXCEPT ![p] = <<>>]
    /\ UNCHANGED <<edits, rec, dom, rd>>

\* flush(): the queued edits leave as one <sxe/> element.
FlushLosing(p) ==
    /\ outbox[p] # <<>>
    /\ outbox' = [outbox EXCEPT ![p] = <<>>]
    /\ UNCHANGED <<present, edits, rec, dom, log, rd>>
Flush(p) ==
    /\ outbox[p] # <<>>
    /\ log'    = log \o outbox[p]
    /\ outbox' = [outbox EXCEPT ![p] = <<>>]
    /\ UNCHANGED <<present, edits, rec, dom, rd>>

-----------------------------------------------------------------------------
(* Receiving.                                                              *)

\* Messages from oneself are skipped, and so are edits to a record that is
\* gone.
Skip(p) ==
    /\ rd[p] < Len(log)
    /\ log[rd[p] + 1].by = p \/ ~present[p]
    /\ rd' = [rd EXCEPT ![p] = @ + 1]
    /\ UNCHANGED <<present, edits, rec, dom, outbox, log>>

ReceiveEdit(p) ==
    /\ rd[p] < Len(log)
    /\ present[p]
    /\ log[rd[p] + 1].by # p
    /\ log[rd[p] + 1].kind = "set"
    /\ ApplyRecordEdit(p, log[rd[p] + 1])
    /\ rd' = [rd EXCEPT ![p] = @ + 1]
    /\ UNCHANGED <<present, outbox, log>>

\* applySxeRemoveEdit(): the node leaves the tree, the record is deleted.
ReceiveRemoval(p) ==
    /\ rd[p] < Len(log)
    /\ present[p]
    /\ log[rd[p] + 1].by # p
    /\ log[rd[p] + 1].kind = "remove"
    /\ present' = [present EXCEPT ![p] = FALSE]
    /\ rd' = [rd EXCEPT ![p] = @ + 1]
    /\ UNCHANGED <<edits, rec, dom, outbox, log>>

Receive(p) == Skip(p) \/ ReceiveEdit(p) \/ ReceiveRemoval(p)

LocalEdit(p) ==
    \E c \in Wanted : MoveNode(p, c) \/ SetNodeValue(p, c) \/ ReplaceNodeValue(p, c)

Next ==
    \E p \in Peer :
        \/ LocalEdit(p)
        \/ RemoveNode(p)
        \/ Flush(p)
        \/ Receive(p)

Spec == Init /\ [][Next]_vars

\* Every user action of the whiteboard ends by flushing the session, and the
\* server delivers what it relays; nobody has to edit.
Fairness == \A p \in Peer : WF_vars(Flush(p)) /\ WF_vars(Receive(p))
FairSpec == Spec /\ Fairness

-----------------------------------------------------------------------------
(* Properties.                                                             *)

\* What p knows of the history: edits by their author and version.
Known(p) == {<<edits[p][i].by, edits[p][i].version>> : i \in 1 .. Len(edits[p])}

\* Participants that received the same edits show the same record, whatever the
\* order in which the edits reached them and whichever of them they made
\* themselves (reorderEdits against the in-order path of applySxeRecordEdit).
StrongConvergence ==
    \A p, q \in Peer :
        present[p] /\ present[q] /\ Known(p) = Known(q) => rec[p] = rec[q]

\* An edit is never listed before its version: nobody hears of version v of a
\* record before v edits of it.  This is why reorderEdits may nullify an edit
\* it passed over ("There's no way the edit could be applied anymore").
Gapless(s) == \A i \in 1 .. Len(s) : s[i].version <= i
NoGap == \A p \in Peer : Gapless(edits[p])

\* The inductive strengthening of NoGap.  OwnAhead(p): the edits of p the server
\* has relayed and p has not yet skipped.  A participant that has the record has
\* listed all that it received and all that it made (Listed); so an edit's
\* version is at most the number of edits relayed before it, plus one.
OwnAhead(p) == {i \in rd[p] + 1 .. Len(log) : log[i].by = p}

Listed == \A p \in Peer :
    present[p] => Len(edits[p]) = rd[p] + Cardinality(OwnAhead(p)) + Len(outbox[p])
OutboxOwn == \A p \in Peer : \A k \in 1 .. Len(outbox[p]) :
    outbox[p][k].by = p /\ outbox[p][k].version <= Len(log) + k
LogBound == \A i \in 1 .. Len(log) : log[i].kind = "set" => log[i].version <= i
ListsSorted == \A p \in Peer : Sorted(edits[p])

VersionInvariant ==
    TypeOK /\ Listed /\ OutboxOwn /\ LogBound /\ ListsSorted /\ NoGap

\* An edit takes effect only on the very record its author saw, so that a
\* partial replacement hits the characters it was meant for; one made on
\* another state of the record is dropped.
AppliedAsWritten ==
    \A p \in Peer : present[p] =>
        \A i \in 1 .. Len(edits[p]) :
            Effective(edits[p], i) => edits[p][i].base = ReplayTo(edits[p], i - 1)

\* What a user does to a record shows at once in the user's own fields, whatever
\* conflicting edits the record has been through (version() + 1 is always in
\* order, insertNode and setNodeValue).
LocalEditTakesEffect ==
    [][\A p \in Peer :
          Len(outbox'[p]) > Len(outbox[p]) =>
              rec'[p] = ApplyChange(rec[p], outbox'[p][Len(outbox'[p])].change)]_vars

\* When editing stops, every participant ends up with the same record, or all
\* without it, although nothing is acknowledged or sent again.
Agree == \A p, q \in Peer : /\ present[p] = present[q]
                            /\ present[p] => rec[p] = rec[q]
Converges == <>[]Agree

\* The edits p knows, as their authors wrote them (p's copy may be nullified).
InFlight  == UNION {{outbox[q][k] : k \in 1 .. Len(outbox[q])} : q \in Peer}
Relayed   == {e \in {log[k] : k \in 1 .. Len(log)} : e.kind = "set"}
Written(p) == {e \in InFlight \cup Relayed : <<e.by, e.version>> \in Known(p)}

\* The lists, their sorting and replay, and the queues implement a record that
\* is a function of the set of known edits.
Resolved == INSTANCE ResolvedRecord WITH known <- [p \in Peer |-> Written(p)]
ImplementsResolvedRecord == Resolved!Spec

\* sxerecord.h:117 "Synchronize the state of the DOM node with the fields of the
\* record" (updateNode): the node is in the tree where the record says.
PositionSynchronized == \A p \in Peer : present[p] => dom[p].pos = rec[p].pos

\* The same for the value of the node.
ValueSynchronized == \A p \in Peer : present[p] => dom[p].data = rec[p].data
=============================================================================
