------------------------------ MODULE SxeSession ------------------------------
(***************************************************************************)
(* The shared drawing of an SXE session: the document tree of both         *)
(* participants, what the whiteboard does to it, and the edits that carry  *)
(* it across (sxe/sxesession, with the parts of sxe/sxerecord, whiteboard- *)
(* ing/wbscene and whiteboarding/wbwidget that drive it).                  *)
(*                                                                         *)
(* Each participant keeps a record per node (recordByNodeId_) and a DOM    *)
(* tree.  The record says where the node belongs; the tree is rearranged   *)
(* when the record changes.  Drawing, grouping, ungrouping, reordering and *)
(* erasing make several edits that leave in one message; a message is      *)
(* processed in one go, and processing may itself remove nodes and say so. *)
(*                                                                         *)
(* The nodes are the elements of the drawing: shapes, and groups, which    *)
(* hold shapes and groups.  Attributes and texts are left out (SxeRecord   *)
(* has their values), and nodes are numbers ordered as their rids are.  A  *)
(* list of edits keeps edits of one version in the order of their arrival: *)
(* they are without effect, whatever order qSort gives them (SxeRecord).   *)
(***************************************************************************)
EXTENDS SxeEditList, FiniteSets, SequencesExt, TLC

CONSTANTS
    Peer,      \* the two participants
    Shapes,    \* rids of shapes
    Groups,    \* rids of <g/> elements
    Own,       \* Own[p]: the rids that p gives to the nodes it creates
    Initial,   \* the nodes of the document at the start, with their positions
    Unit,      \* a weight of 1; averages are taken in fractions of it
    MaxActions \* bound: user actions in all

Root == 0
Node == Shapes \cup Groups

ASSUME PeerAssumption    == Cardinality(Peer) = 2
ASSUME NodeAssumption    == Node \subseteq Nat \ {Root} /\ Shapes \cap Groups = {}
ASSUME OwnAssumption     == \A p, q \in Peer : p # q => Own[p] \cap Own[q] = {}
ASSUME InitialAssumption == \A r \in DOMAIN Initial :
    r \in Node /\ Initial[r].parent \in (DOMAIN Initial \cap Groups) \cup {Root}

ASSUME UnitAssumption    == Unit \in Nat \ {0} /\ MaxActions \in Nat

VARIABLES
    session, \* session[p]: the SxeSession of p and the items of its WbWidget
    queue,   \* queue[p]: the messages on their way to p
    actions, \* the number of user actions
    erased   \* history: the nodes a user erased, with all they held

vars == <<session, queue, actions, erased>>

Position == [parent : Node \cup {Root}, weight : Int]

-----------------------------------------------------------------------------
(* A session s has the fields                                              *)
(*   record  recordByNodeId_: rid -> New position, Record edits, position  *)
(*   child   the DOM tree: each node's children, in order; a node that has *)
(*           been taken out of the document keeps its own                  *)
(*   item    the nodes that have a WbItem on the canvas                    *)
(*   moved   recentlyRelocatedNodes_                                       *)
(*   unsent  queuedOutgoingEdits_                                          *)
(*   sent    the messages sent by the handler that runs                    *)

Has(s, r) == r \in DOMAIN s.record
Weight(s, r) == s.record[r].pos.weight

\* SxeRecord::operator<: by primary weight, then by rid.
Less(s, a, b) == Weight(s, a) < Weight(s, b) \/ (Weight(s, a) = Weight(s, b) /\ a < b)

Flush(s) ==
    IF s.unsent = <<>> THEN s
    ELSE [s EXCEPT !.sent = Append(@, s.unsent), !.unsent = <<>>]

TakenOut(child, r) == [q \in DOMAIN child |-> Remove(child[q], r)]

\* What is dropped with a node: the record, the place in the tree and the item.
Dropped(s, r) ==
    [s EXCEPT !.record = Restrict(@, DOMAIN @ \ {r}),
              !.child  = TakenOut(@, r),
              !.item   = @ \ {r}]

\* generateRemoves(): children first.  The list of children is live: when child
\* i is gone, i + 1 is the one after the next.
Doomed(child, r) ==
    LET order[d \in 0 .. Cardinality(DOMAIN child), n \in DOMAIN child] ==
            IF d = 0 THEN <<n>>
            ELSE FlattenSeq([i \in 1 .. (Len(child[n]) + 1) \div 2 |->
                                order[d - 1, child[n][2 * i - 1]]]) \o <<n>>
    IN  order[Cardinality(DOMAIN child), r]

Removal(r) == [kind |-> "remove", rid |-> r]

RemoveQuietly(s, r) == FoldLeft(Dropped, s, Doomed(s.child, r))
RemoveNode(s, r) ==
    LET gone == Doomed(s.child, r)
        t    == FoldLeft(Dropped, s, gone)
    IN  Flush([t EXCEPT !.unsent = @ \o [i \in DOMAIN gone |-> Removal(gone[i])]])

\* reposition(): before the first sibling that is greater.  A node whose parent
\* has no record is removed, for everybody.
Reposition(s, r) ==
    LET q      == s.record[r].pos.parent
        out    == TakenOut(s.child, r)
        beyond == {i \in DOMAIN out[q] : Less(s, r, out[q][i])}
        at     == IF beyond = {} THEN Len(out[q]) + 1 ELSE Min(beyond)
    IN  IF q # Root /\ ~Has(s, q)
        THEN RemoveNode(s, r)
        ELSE [s EXCEPT !.child = [out EXCEPT ![q] = InsertAt(@, at, r)]]

-----------------------------------------------------------------------------
(* Applying edits.                                                         *)

\* nodeAdded and nodeMoved queue the node for the canvas.
RelocatedUnseen(s, r) == Reposition(s, r)
Relocated(s, r) == Reposition([s EXCEPT !.moved = @ \cup {r}], r)

ApplyNew(s, r, pos) ==
    Relocated([s EXCEPT !.record = (r :> [new |-> pos, edits |-> <<>>, pos |-> pos]) @@ @,
                        !.child  = (r :> <<>>) @@ @], r)

\* A change has the keys Parent, PrimaryWeight or both.
Changed(pos, change) == change @@ pos

Replay(new, s) ==
    LET val[i \in 0 .. Len(s)] ==
            IF i = 0 THEN new
            ELSE IF Effective(s, i) THEN Changed(val[i - 1], s[i].change)
            ELSE val[i - 1]
    IN  val[Len(s)]

Merge(s, e) ==
    InsertAt(s, Cardinality({i \in DOMAIN s : s[i].version <= e.version}) + 1, e)

\* updateNode() compares with the New position, whatever moves came later.
NodeMoved(pos, new) == pos.parent # new.parent /\ pos.weight # new.weight
UpdateNode(pos, new) == pos # new

\* applySxeRecordEdit().
ApplySet(s, r, e) ==
    LET m == s.record[r]
        l == IF InOrder(m.edits, e) THEN Append(m.edits, e) ELSE Merge(m.edits, e)
        t == [s EXCEPT !.record[r] =
                 [@ EXCEPT !.edits = l,
                           !.pos   = IF InOrder(m.edits, e) THEN Changed(@, e.change)
                                     ELSE Replay(m.new, l)]]
    IN  IF UpdateNode(t.record[r].pos, m.new) THEN Relocated(t, r) ELSE t

\* processSxe(): a New edit of a known node and edits of unknown nodes are
\* dropped.
Process(s, e) ==
    CASE e.kind = "new" /\ ~Has(s, e.rid)   -> ApplyNew(s, e.rid, e.pos)
      [] e.kind = "set" /\ Has(s, e.rid)    -> ApplySet(s, e.rid, e.edit)
      [] e.kind = "remove" /\ Has(s, e.rid) -> Dropped(s, e.rid)
      [] OTHER                              -> s

-----------------------------------------------------------------------------
(* Local editing of the document.                                          *)

CreateNode(s, r, pos) ==
    LET t == ApplyNew(s, r, pos)
    IN  [t EXCEPT !.unsent = Append(@, [kind |-> "new", rid |-> r, pos |-> pos])]

\* insertNode() of a node that has a record: an edit of what is different.
MoveNode(s, r, pos) ==
    LET old  == s.record[r].pos
        keys == {k \in {"parent", "weight"} : old[k] # pos[k]}
        e    == [version |-> Len(s.record[r].edits) + 1, change |-> Restrict(pos, keys)]
        t    == ApplySet(s, r, e)
    IN  IF keys = {} THEN s
        ELSE [t EXCEPT !.unsent = Append(@, [kind |-> "set", rid |-> r, edit |-> e])]

\* insertNodeAfter(): between the reference and its next sibling; as the last
\* child when the reference is none of the children but the last.
After(s, q, ref) ==
    LET c     == s.child[q]
        inner == {i \in 1 .. Len(c) - 1 : c[i] = ref}
    IN  IF c = <<>> THEN [parent |-> q, weight |-> 0]
        ELSE IF inner = {} THEN [parent |-> q, weight |-> Weight(s, Last(c)) + Unit]
        ELSE LET i == Min(inner)
             IN  [parent |-> q, weight |-> (Weight(s, c[i]) + Weight(s, c[i + 1])) \div 2]

\* insertNodeBefore(): after the previous sibling, or first.
Before(s, q, ref) ==
    LET c == s.child[q]
        i == CHOOSE j \in DOMAIN c : c[j] = ref
    IN  IF i = 1 THEN [parent |-> q, weight |-> Weight(s, c[1]) - Unit]
        ELSE After(s, q, c[i - 1])

-----------------------------------------------------------------------------
(* What users do on the whiteboard.                                        *)

\* inspectNodes(): an item for each child of the root, and for no other node.
InspectNodes(s) ==
    [s EXCEPT !.item  = (@ \ s.moved) \cup (s.moved \cap ToSet(s.child[Root])),
              !.moved = {}]

\* The end of a handler: its messages leave, the canvas is brought up to date.
Finish(p, s, received) ==
    LET t == Flush(s)
    IN  /\ session' = [session EXCEPT ![p] = [InspectNodes(t) EXCEPT !.sent = <<>>]]
        /\ queue'   = [q \in Peer |-> IF q = p THEN received ELSE queue[q] \o t.sent]

UserAction(p, s) ==
    /\ actions < MaxActions
    /\ actions' = actions + 1
    /\ Finish(p, s, queue[p])

Below(child, r) ==
    LET upTo[d \in 0 .. Cardinality(DOMAIN child)] ==
            IF d = 0 THEN {r}
            ELSE upTo[d - 1] \cup UNION {ToSet(child[n]) : n \in upTo[d - 1]}
    IN  upTo[Cardinality(DOMAIN child)]

Unused(p, kind) == (Own[p] \cap kind) \ DOMAIN session[p].child

\* mouseReleaseEvent() after drawing: a new last child of the root.
Draw(p) ==
    /\ Unused(p, Shapes) # {}
    /\ UserAction(p, CreateNode(session[p], Min(Unused(p, Shapes)),
                                After(session[p], Root, Root)))
    /\ UNCHANGED erased

\* WbScene::group(): a new group, then each selected item in drawing order.
Group(p, selected) ==
    /\ Unused(p, Groups) # {}
    /\ selected \subseteq session[p].item /\ Cardinality(selected) > 1
    /\ LET s     == session[p]
           g     == Min(Unused(p, Groups))
           order == SelectSeq(s.child[Root], LAMBDA r : r \in selected)
           Take(t, r) == MoveNode(t, r, After(t, g, g))
       IN  UserAction(p, FoldLeft(Take, CreateNode(s, g, After(s, Root, Root)), order))
    /\ UNCHANGED erased

\* WbScene::ungroup(): the children, last first, go after the group, which is
\* then removed.
Ungroup(p, g) ==
    /\ g \in session[p].item \cap Groups
    /\ LET s == session[p]
           Free(t, r) == MoveNode(t, r, After(t, Root, g))
       IN  UserAction(p, RemoveNode(FoldLeft(Free, s, Reverse(s.child[g])), g))
    /\ UNCHANGED erased

\* WbScene::bring(): next to another item that it covers or is covered by.
Bring(p, r, ref) ==
    /\ r \in session[p].item /\ ref \in session[p].item \ {r}
    /\ LET s == session[p]
       IN  \E pos \in {After(s, Root, ref), Before(s, Root, ref)} :
               UserAction(p, MoveNode(s, r, pos))
    /\ UNCHANGED erased

\* The eraser and WbWidget::clear().
Erase(p, r) ==
    /\ r \in session[p].item
    /\ erased' = erased \cup Below(session[p].child, r)
    /\ UserAction(p, RemoveNode(session[p], r))

\* processIncomingSxeElement().
Receive(p) ==
    /\ queue[p] # <<>>
    /\ Finish(p, FoldLeft(Process, session[p], Head(queue[p])), Tail(queue[p]))
    /\ UNCHANGED <<actions, erased>>

-----------------------------------------------------------------------------
\* The document both have after the negotiation.
InitialChildren(q) ==
    SetToSortSeq({r \in DOMAIN Initial : Initial[r].parent = q},
                 LAMBDA a, b : Initial[a].weight < Initial[b].weight)

InitialSession ==
    [record |-> [r \in DOMAIN Initial |-> [new |-> Initial[r], edits |-> <<>>, pos |-> Initial[r]]],
     child  |-> [q \in DOMAIN Initial \cup {Root} |-> InitialChildren(q)],
     item   |-> ToSet(InitialChildren(Root)),
     moved  |-> {}, unsent |-> <<>>, sent |-> <<>>]

Init ==
    /\ session = [p \in Peer |-> InitialSession]
    /\ queue   = [p \in Peer |-> <<>>]
    /\ actions = 0
    /\ erased  = {}

Next ==
    \E p \in Peer :
        \/ Draw(p)
        \/ \E selected \in SUBSET session[p].item : Group(p, selected)
        \/ \E g \in session[p].item : Ungroup(p, g)
        \/ \E r, ref \in session[p].item : Bring(p, r, ref)
        \/ \E r \in session[p].item : Erase(p, r)
        \/ Receive(p)

Spec == Init /\ [][Next]_vars

-----------------------------------------------------------------------------
(* Properties.                                                             *)

IsEdit(e) == /\ e.version \in Nat \ {0}
             /\ DOMAIN e.change \subseteq {"parent", "weight"}
             /\ \A k \in DOMAIN e.change : e.change[k] \in Int

TypeOK ==
    \A p \in Peer : LET s == session[p] IN
        /\ DOMAIN s.record \subseteq Node
        /\ \A r \in DOMAIN s.record : /\ s.record[r].new \in Position
                                      /\ s.record[r].pos \in Position
                                      /\ \A i \in DOMAIN s.record[r].edits : IsEdit(s.record[r].edits[i])
        /\ DOMAIN s.record \cup {Root} \subseteq DOMAIN s.child
        /\ s.moved = {} /\ s.unsent = <<>> /\ s.sent = <<>>

Settled == \A p \in Peer : queue[p] = <<>>

\* When all messages have arrived the participants have the same nodes, in the
\* same places by their records, although each removes nodes of its own accord
\* while it processes the other's edits (reposition).
RecordsAgree ==
    Settled => \A p, q \in Peer :
        /\ DOMAIN session[p].record = DOMAIN session[q].record
        /\ \A r \in DOMAIN session[p].record :
               session[p].record[r].pos = session[q].record[r].pos

\* The DOM stays a tree: no node is in it twice or inside itself, and no node
\* that has lost its record is left in the document.
DocumentIsATree ==
    \A p \in Peer : LET s == session[p] IN
        /\ \A q1, q2 \in DOMAIN s.child : \A i \in DOMAIN s.child[q1], j \in DOMAIN s.child[q2] :
               s.child[q1][i] = s.child[q2][j] => q1 = q2 /\ i = j
        /\ \A r \in Node \cap DOMAIN s.child :
               r \notin UNION {Below(s.child, c) : c \in ToSet(s.child[r])}
        /\ Below(s.child, Root) \ {Root} \subseteq DOMAIN s.record

\* The canvas shows the children of the root and nothing else, each once
\* (inspectNodes, removeWbItem).
CanvasShowsDrawing ==
    \A p \in Peer : session[p].item = ToSet(session[p].child[Root])

\* A node that its record does not put where it was created is in the tree where
\* the record says, with the parent of the record.
MovedNodesInPlace ==
    \A p \in Peer : LET s == session[p] IN \A r \in DOMAIN s.record :
        s.record[r].pos # s.record[r].new => r \in ToSet(s.child[s.record[r].pos.parent])

\* The document is one that its records describe.
DocumentInvariant == TypeOK /\ DocumentIsATree /\ MovedNodesInPlace

\* sxesession.h:201 "Generates SxeRemoveEdits for \a node and its children": no
\* record is left behind whose parent was removed.
RemovalIsComplete ==
    \A p \in Peer : \A r \in DOMAIN session[p].record :
        LET q == session[p].record[r].pos.parent IN q = Root \/ Has(session[p], q)

\* wbscene.cpp:124 "move the child from the group to the root <svg/>": a shape
\* that nobody erased is not removed, whatever is grouped and ungrouped.
ShapesSurvive ==
    \A p \in Peer :
        (DOMAIN session[p].child \cap Shapes) \ erased \subseteq DOMAIN session[p].record
=============================================================================
