------------------------- MODULE SxeManager_proofs -------------------------
(***************************************************************************)
(* Proofs about SxeManager, for any number of clients and sessions:        *)
(* OpeningInvariant is inductive, and from it follow TimerCovers,          *)
(* JoinerBacked and AbandonedStaysClosed.  With it Departures is inductive *)
(* too, and from that follows DepartureAnnounced; with both, Drawings, and *)
(* from that EditsInOrder.                                                 *)
(*                                                                         *)
(* The argument: an invitation is made by one client (OneInviter); what    *)
(* that client does about it is pending, given up or opened and never two  *)
(* of these (PendingInvitation, GivenUp); another client opens it only on  *)
(* receiving its document, and only the inviter that has opened sends one  *)
(* (DocumentsBacked).  A session has two sides, its inviter and the client *)
(* whose acceptance opened it (OnePartner); the document of an inviter     *)
(* that has left again is followed on its way by that news (Followed), so  *)
(* that who opens late hears of it too.                                    *)
(*                                                                         *)
(* Only the two sides of a session draw in it (OneGuest, EditsBacked), and *)
(* nobody does before opening it (Unopened).  Until the invited client has *)
(* opened it, the way to it holds the document and behind that every edit  *)
(* made since (Unheard); from then on what it has drawn and what is on its *)
(* way are the edits of the other from the first to the last (Heard).      *)
(***************************************************************************)
EXTENDS SxeManager, Recursion, SequenceTheorems, FiniteSetTheorems, TLAPS

-----------------------------------------------------------------------------
(* Queues of messages.                                                     *)

LEMMA SetToSeqsType ==
    ASSUME NEW S, IsFiniteSet(S), NEW f \in SetToSeqs(S)
    PROVE  f \in Seq(S)
<1>1. Cardinality(S) \in Nat
    BY FS_CardinalityType
<1>2. QED
    BY <1>1 DEF SetToSeqs

LEMMA DocumentsConcat ==
    ASSUME NEW S, NEW q \in Seq(Message), NEW r \in Seq(Message),
           Documents(q, S), Documents(r, S)
    PROVE  q \o r \in Seq(Message) /\ Documents(q \o r, S)
<1>1. q \o r \in Seq(Message) /\ Len(q \o r) = Len(q) + Len(r)
    OBVIOUS
<1>2. ASSUME NEW i \in 1 .. Len(q \o r), (q \o r)[i].kind = "document"
      PROVE  (q \o r)[i].session \in S
  <2>1. CASE i <= Len(q)
    <3>1. (q \o r)[i] = q[i] /\ i \in 1 .. Len(q)
        BY <2>1
    <3>2. QED
        BY <1>2, <3>1 DEF Documents
  <2>2. CASE i > Len(q)
    <3>1. (q \o r)[i] = r[i - Len(q)] /\ i - Len(q) \in 1 .. Len(r)
        BY <1>1, <2>2
    <3>2. QED
        BY <1>2, <3>1 DEF Documents
  <2>3. QED
      BY <2>1, <2>2
<1>3. QED
    BY <1>1, <1>2 DEF Documents

LEMMA DocumentsTail ==
    ASSUME NEW S, NEW q \in Seq(Message), q # <<>>, Documents(q, S)
    PROVE  Tail(q) \in Seq(Message) /\ Documents(Tail(q), S)
<1>1. Tail(q) \in Seq(Message) /\ Len(Tail(q)) = Len(q) - 1
    OBVIOUS
<1>2. \A i \in 1 .. Len(Tail(q)) : Tail(q)[i] = q[i + 1] /\ i + 1 \in 1 .. Len(q)
    BY <1>1
<1>3. QED
    BY <1>1, <1>2 DEF Documents

LEMMA DocumentsMono ==
    ASSUME NEW S, NEW T, S \subseteq T, NEW q, Documents(q, S)
    PROVE  Documents(q, T)
    BY DEF Documents

\* Wires holds of a function from channels to queues whose documents are in B.
Wires(w, B) == /\ w \in [Channel -> Seq(Message)]
               /\ \A c \in Channel : Documents(w[c], B[c[1]])

LEMMA SendWires ==
    ASSUME NEW w, NEW B, NEW n \in Node, NEW out \in [Node -> Seq(Message)],
           Wires(w, B), Wires(queued, B), \A p \in Node : Documents(out[p], B[n]),
           Send(w, n, out)
    PROVE  Wires(wire', B) /\ Wires(queued', B)
<1>1. \A c \in Channel : c[1] \in Node /\ c[2] \in Node
    BY DEF Channel
<1>2. Documents(<<>>, B[n]) /\ <<>> \in Seq(Message)
    BY DEF Documents
<1>3. ASSUME NEW c \in Channel, c[1] = n
      PROVE  /\ queued[c] \o out[c[2]] \in Seq(Message)
             /\ Documents(queued[c] \o out[c[2]], B[n])
             /\ w[c] \o queued[c] \in Seq(Message)
             /\ Documents(w[c] \o queued[c], B[n])
    BY <1>1, <1>3, DocumentsConcat DEF Wires
<1>4. ASSUME NEW c \in Channel, c[1] = n
      PROVE  /\ (w[c] \o queued[c]) \o out[c[2]] \in Seq(Message)
             /\ Documents((w[c] \o queued[c]) \o out[c[2]], B[n])
    BY <1>1, <1>3, <1>4, DocumentsConcat
<1>5. CASE active[n]
  <2>1. /\ wire' = [c \in Channel |->
                      IF c[1] = n THEN w[c] \o queued[c] \o out[c[2]] ELSE w[c]]
        /\ queued' = [c \in Channel |-> IF c[1] = n THEN <<>> ELSE queued[c]]
      BY <1>5 DEF Send
  <2>2. Wires(wire', B)
      BY <2>1, <1>4, Zenon DEF Wires
  <2>3. Wires(queued', B)
      BY <2>1, <1>2, Zenon DEF Wires
  <2>4. QED
      BY <2>2, <2>3
<1>6. CASE ~active[n]
  <2>1. /\ wire' = w
        /\ queued' = [c \in Channel |->
                        IF c[1] = n THEN queued[c] \o out[c[2]] ELSE queued[c]]
      BY <1>6 DEF Send
  <2>2. Wires(queued', B)
      BY <2>1, <1>3, Zenon DEF Wires
  <2>3. QED
      BY <2>1, <2>2
<1>7. QED
    BY <1>5, <1>6

LEMMA TakenWires ==
    ASSUME NEW B, NEW m, NEW n, <<m, n>> \in Channel, wire[<<m, n>>] # <<>>,
           Wires(wire, B)
    PROVE  Wires(Taken(m, n), B)
    BY DocumentsTail DEF Wires, Taken

LEMMA WiresMono ==
    ASSUME NEW w, NEW B, NEW C, \A n \in Node : B[n] \subseteq C[n], Wires(w, B)
    PROVE  Wires(w, C)
<1>1. \A c \in Channel : c[1] \in Node
    BY DEF Channel
<1>2. QED
    BY <1>1, DocumentsMono DEF Wires

\* A single message.
LEMMA OnlyType ==
    ASSUME NEW p, NEW msg \in Message, NEW S,
           msg.kind = "document" => msg.session \in S
    PROVE  /\ Only(p, msg) \in [Node -> Seq(Message)]
           /\ \A q \in Node : Documents(Only(p, msg)[q], S)
    BY DEF Only, Documents

LEMMA MsgType ==
    ASSUME NEW s \in Session,
           NEW kind \in {"invitation", "accept", "document", "abort", "left", "edit"}
    PROVE  Msg(kind, s) \in Message /\ Msg(kind, s).kind = kind /\ Msg(kind, s).session = s
    BY MaxEditsAssumption DEF Msg, Message

-----------------------------------------------------------------------------
(* Parts of the invariant.                                                 *)

Begun == [n \in Node |-> invited[n] \cap opened[n]]
Lives == OneInviter /\ PendingInvitation /\ OneInvitation /\ GivenUp /\ OpenedByInviter

LEMMA Unfold ==
    OpeningInvariant <=>
        TypeOK /\ TimerCovers /\ Lives /\ Wires(wire, Begun) /\ Wires(queued, Begun)
<1>1. \A c \in Channel : c[1] \in Node
    BY DEF Channel
<1>2. \A c \in Channel : Begun[c[1]] = invited[c[1]] \cap opened[c[1]]
    BY <1>1 DEF Begun
<1>3. DocumentsBacked <=>
        \A c \in Channel : Documents(wire[c], Begun[c[1]]) /\ Documents(queued[c], Begun[c[1]])
    BY <1>2, Zenon DEF DocumentsBacked
<1>4. QED
    BY <1>3 DEF OpeningInvariant, Lives, Wires, TypeOK

\* What TypeOK says of all but the messages.
TypeState ==
    /\ negotiations \in [Node -> SUBSET Negotiation]
    /\ sessions  \in [Node -> SUBSET Handle]
    /\ asking    \in [Node -> Seq(Handle)]
    /\ prompting \in [Node -> Node \cup {Nobody}]
    /\ timer     \in [Node -> BOOLEAN]
    /\ active    \in [Node -> BOOLEAN]
    /\ alive     \in [Node -> BOOLEAN]
    /\ sent      \in [Node -> [Session -> 0 .. MaxEdits]]
    /\ got       \in [Node -> [Session -> Seq(0 .. MaxEdits)]]
    /\ told      \in [Node -> SUBSET Session]
    /\ invited   \in [Node -> SUBSET Session]
    /\ opened    \in [Node -> SUBSET Session]
    /\ abandoned \in [Node -> SUBSET Session]

Inv == TypeState /\ TimerCovers /\ Lives /\ Wires(wire, Begun) /\ Wires(queued, Begun)

LEMMA InvIsOpeningInvariant == Inv <=> OpeningInvariant
    BY Unfold DEF Inv, TypeState, TypeOK, Wires

\* A step that leaves the past alone and sends no new invitation.
LEMMA PastStable ==
    ASSUME Lives, UNCHANGED past,
           \A n \in Node : \A x \in negotiations'[n] :
               x.state = "InvitationSent" => x \in negotiations[n]
    PROVE  Lives' /\ Begun' = Begun
    BY DEF Lives, OneInviter, PendingInvitation, OneInvitation, GivenUp, OpenedByInviter,
           Begun, past

\* A step that handles a message and answers nothing.
LEMMA SilentWires ==
    ASSUME NEW m, NEW n, NEW kind, NEW s, Arrives(m, n, kind, s), Silent(m, n),
           Wires(wire, Begun), Wires(queued, Begun)
    PROVE  Wires(wire', Begun) /\ Wires(queued', Begun)
    BY TakenWires DEF Arrives, Silent

LEMMA Head1 ==
    ASSUME NEW m, NEW n, NEW kind, NEW s, Arrives(m, n, kind, s), Wires(wire, Begun)
    PROVE  /\ m \in Node /\ n \in Node /\ s \in Session
           /\ Head(wire[<<m, n>>]).n \in 0 .. MaxEdits
           /\ kind = "document" => s \in invited[m] \cap opened[m]
<1>1. <<m, n>> \in Channel /\ m \in Node /\ n \in Node
    BY DEF Arrives, Channel
<1>2. wire[<<m, n>>] \in Seq(Message) /\ wire[<<m, n>>] # <<>>
    BY <1>1 DEF Wires, Arrives
<1>3. Head(wire[<<m, n>>]) = wire[<<m, n>>][1] /\ 1 \in 1 .. Len(wire[<<m, n>>])
    BY <1>2
<1>4. Head(wire[<<m, n>>]) \in Message
    BY <1>2
<1>5. Documents(wire[<<m, n>>], invited[m] \cap opened[m])
    BY <1>1 DEF Wires, Begun
<1>6. kind = "document" => s \in invited[m] \cap opened[m]
    BY <1>3, <1>5 DEF Documents, Arrives
<1>7. QED
    BY <1>1, <1>4, <1>6 DEF Arrives, Message

LEMMA InitInv == Init => Inv
<1>1. SUFFICES ASSUME Init PROVE Inv
    OBVIOUS
<1>2. TypeState
    BY <1>1, MaxEditsAssumption DEF Init, TypeState
<1>3. TimerCovers /\ Lives
    BY <1>1 DEF Init, TimerCovers, Lives, OneInviter, PendingInvitation, OneInvitation,
                GivenUp, OpenedByInviter
<1>4. Wires(wire, Begun) /\ Wires(queued, Begun)
    BY <1>1 DEF Init, Wires, Documents
<1>5. QED
    BY <1>2, <1>3, <1>4 DEF Inv

-----------------------------------------------------------------------------
(* The steps.                                                              *)

LEMMA OpenWhiteboardPreserves ==
    ASSUME Inv, NEW n \in Node, NEW p \in Node, OpenWhiteboard(n, p)
    PROVE  Inv'
<1>1. Lives' /\ Begun' = Begun
    BY PastStable DEF Inv, OpenWhiteboard, past
<1>2. TypeState'
    BY DEF Inv, TypeState, OpenWhiteboard, edits, past
<1>3. TimerCovers'
    BY DEF Inv, TimerCovers, OpenWhiteboard
<1>4. QED
    BY <1>1, <1>2, <1>3 DEF Inv, OpenWhiteboard, net, Wires

LEMMA StartNewSessionPreserves ==
    ASSUME Inv, NEW n \in Node, NEW s \in Session, StartNewSession(n, s)
    PROVE  Inv'
<1> DEFINE p == prompting[n]
<1>1. p \in Node /\ [session |-> s, peer |-> p, state |-> "InvitationSent"] \in Negotiation
    BY DEF Inv, TypeState, StartNewSession, Negotiation
<1>2. TypeState'
    BY <1>1 DEF Inv, TypeState, StartNewSession, edits
<1>3. TimerCovers'
    BY DEF Inv, TypeState, TimerCovers, StartNewSession
<1>4. \A m \in Node : s \notin invited[m] /\ s \notin opened[m] /\ s \notin abandoned[m]
    BY DEF Inv, Lives, StartNewSession, Fresh, GivenUp, OpenedByInviter
<1>5. OneInviter'
    BY <1>4 DEF Inv, Lives, TypeState, OneInviter, StartNewSession
<1>6. PendingInvitation'
    BY <1>4 DEF Inv, Lives, TypeState, PendingInvitation, StartNewSession
<1>11. OneInvitation'
    BY <1>4 DEF Inv, Lives, TypeState, OneInvitation, PendingInvitation, StartNewSession
<1>7. GivenUp' /\ OpenedByInviter'
    BY <1>4 DEF Inv, Lives, TypeState, GivenUp, OpenedByInviter, StartNewSession
<1>8. Begun' = Begun
    BY <1>4 DEF Inv, TypeState, Begun, StartNewSession
<1>9. Wires(wire', Begun) /\ Wires(queued', Begun)
  <2>1. /\ Only(p, Msg("invitation", s)) \in [Node -> Seq(Message)]
        /\ \A q \in Node : Documents(Only(p, Msg("invitation", s))[q], Begun[n])
      BY MsgType, OnlyType
  <2>2. Send(wire, n, Only(p, Msg("invitation", s)))
      BY DEF StartNewSession
  <2>3. QED
      BY <2>1, <2>2, SendWires DEF Inv
<1>10. QED
    BY <1>2, <1>3, <1>5, <1>6, <1>7, <1>8, <1>9, <1>11 DEF Inv, Lives

LEMMA ReceiveInvitationPreserves ==
    ASSUME Inv, NEW n \in Node, NEW m \in Node, NEW s \in Session,
           ReceiveInvitation(m, n, s)
    PROVE  Inv'
<1> DEFINE new == [session |-> s, peer |-> m, state |-> "NotStarted"]
<1>1. [session |-> s, peer |-> m] \in Handle /\ new \in Negotiation
    BY DEF Handle, Negotiation
<1>0. \A k \in Node : negotiations'[k] \subseteq negotiations[k] \cup {new}
  <2>1. \/ negotiations' = [negotiations EXCEPT ![n] = @ \cup {new}]
        \/ negotiations' = negotiations
      BY DEF ReceiveInvitation
  <2>2. QED
      BY <2>1 DEF Inv, TypeState
<1>2. TypeState'
  <2>1. <<[session |-> s, peer |-> m]>> \o asking[n] \in Seq(Handle)
      BY <1>1 DEF Inv, TypeState
  <2>2. asking' \in [Node -> Seq(Handle)]
      BY <2>1 DEF Inv, TypeState, ReceiveInvitation
  <2>3. negotiations' \in [Node -> SUBSET Negotiation]
    <3>1. \/ negotiations' = [negotiations EXCEPT ![n] = @ \cup {new}]
          \/ negotiations' = negotiations
        BY DEF ReceiveInvitation
    <3>2. negotiations \in [Node -> SUBSET Negotiation]
          /\ negotiations[n] \cup {new} \subseteq Negotiation
        BY <1>1 DEF Inv, TypeState
    <3>3. CASE negotiations' = [negotiations EXCEPT ![n] = @ \cup {new}]
        BY <3>2, <3>3
    <3>4. CASE negotiations' = negotiations
        BY <3>2, <3>4
    <3>5. QED
        BY <3>1, <3>3, <3>4
  <2>4. timer' \in [Node -> BOOLEAN]
      BY DEF Inv, TypeState, ReceiveInvitation, MakesNegotiation
  <2>5. QED
      BY <2>2, <2>3, <2>4 DEF Inv, TypeState, ReceiveInvitation, edits, past
<1>3. TimerCovers'
    BY DEF Inv, TypeState, TimerCovers, ReceiveInvitation, MakesNegotiation, With
<1>4. Lives' /\ Begun' = Begun
  <2>1. \A k \in Node : \A x \in negotiations'[k] :
            x.state = "InvitationSent" => x \in negotiations[k]
      BY <1>0
  <2>2. QED
      BY <2>1, PastStable DEF Inv, ReceiveInvitation, past
<1>5. Wires(wire', Begun) /\ Wires(queued', Begun)
    BY SilentWires DEF Inv, ReceiveInvitation
<1>6. QED
    BY <1>2, <1>3, <1>4, <1>5 DEF Inv

LEMMA AnswerPreserves ==
    ASSUME Inv, NEW n \in Node, NEW accepted \in BOOLEAN, Answer(n, accepted)
    PROVE  Inv'
<1> DEFINE a == Head(asking[n])
           old == [session |-> a.session, peer |-> a.peer, state |-> "NotStarted"]
           msg == Msg(IF accepted THEN "accept" ELSE "abort", a.session)
<1>1. a \in Handle /\ Tail(asking[n]) \in Seq(Handle)
    BY DEF Inv, TypeState, Answer
<1>2. a.session \in Session /\ a.peer \in Node
    BY <1>1 DEF Handle
<1>3. TypeState'
  <2>1. [old EXCEPT !.state = "InvitationAccepted"] \in Negotiation
      BY <1>2 DEF Negotiation
  <2>2. negotiations' \in [Node -> SUBSET Negotiation]
      BY <2>1 DEF Inv, TypeState, Answer
  <2>3. asking' \in [Node -> Seq(Handle)]
      BY <1>1 DEF Inv, TypeState, Answer
  <2>4. QED
      BY <2>2, <2>3 DEF Inv, TypeState, Answer, edits, past
<1>4. TimerCovers'
    BY DEF Inv, TypeState, TimerCovers, Answer
<1>5. Lives' /\ Begun' = Begun
  <2>1. [old EXCEPT !.state = "InvitationAccepted"].state # "InvitationSent"
      OBVIOUS
  <2>2. \A k \in Node : \A x \in negotiations'[k] :
            x.state = "InvitationSent" => x \in negotiations[k]
      BY <2>1 DEF Inv, TypeState, Answer
  <2>3. QED
      BY <2>2, PastStable DEF Inv, Answer, past
<1>6. Wires(wire', Begun) /\ Wires(queued', Begun)
  <2>1. msg \in Message /\ msg.kind # "document"
      BY <1>2, MsgType
  <2>2. /\ Only(a.peer, msg) \in [Node -> Seq(Message)]
        /\ \A q \in Node : Documents(Only(a.peer, msg)[q], Begun[n])
      BY <2>1, OnlyType
  <2>3. Send(wire, n, Only(a.peer, msg))
      BY DEF Answer
  <2>4. QED
      BY <2>2, <2>3, SendWires DEF Inv
<1>7. QED
    BY <1>3, <1>4, <1>5, <1>6 DEF Inv

LEMMA AnswerDeletedPreserves ==
    ASSUME Inv, NEW n \in Node, NEW accepted \in BOOLEAN, AnswerDeleted(n, accepted)
    PROVE  Inv'
<1> DEFINE a == Head(asking[n])
           msg == Msg(IF accepted THEN "accept" ELSE "abort", a.session)
<1>1. a \in Handle /\ Tail(asking[n]) \in Seq(Handle)
    BY DEF Inv, TypeState, AnswerDeleted
<1>2. a.session \in Session /\ a.peer \in Node
    BY <1>1 DEF Handle
<1>3. TypeState'
  <2>1. asking' \in [Node -> Seq(Handle)] /\ alive' \in [Node -> BOOLEAN]
      BY <1>1 DEF Inv, TypeState, AnswerDeleted
  <2>2. QED
      BY <2>1 DEF Inv, TypeState, AnswerDeleted, edits, past
<1>4. TimerCovers'
    BY DEF Inv, TimerCovers, AnswerDeleted
<1>5. Lives' /\ Begun' = Begun
    BY PastStable DEF Inv, AnswerDeleted, past
<1>6. Wires(wire', Begun) /\ Wires(queued', Begun)
  <2>1. CASE UNCHANGED net
      BY <2>1 DEF Inv, net, Wires
  <2>2. CASE Send(wire, n, Only(a.peer, msg))
    <3>1. msg \in Message /\ msg.kind # "document"
        BY <1>2, MsgType
    <3>2. /\ Only(a.peer, msg) \in [Node -> Seq(Message)]
          /\ \A q \in Node : Documents(Only(a.peer, msg)[q], Begun[n])
        BY <3>1, OnlyType
    <3>3. QED
        BY <2>2, <3>2, SendWires DEF Inv
  <2>3. QED
      BY <2>1, <2>2 DEF AnswerDeleted
<1>7. QED
    BY <1>3, <1>4, <1>5, <1>6 DEF Inv

LEMMA ReceiveDocumentPreserves ==
    ASSUME Inv, NEW n \in Node, NEW m \in Node, NEW s \in Session,
           ReceiveDocument(m, n, s)
    PROVE  Inv'
<1>1. s \in invited[m] \cap opened[m] /\ m # n
    BY Head1 DEF Inv, ReceiveDocument, Arrives, Channel
<1>2. Wires(wire', Begun) /\ Wires(queued', Begun)
    BY SilentWires DEF Inv, ReceiveDocument
<1>3. CASE InState(n, s, m, "InvitationAccepted")
  <2>1. /\ sessions' = [sessions EXCEPT ![n] = @ \cup {[session |-> s, peer |-> m]}]
        /\ opened'   = [opened EXCEPT ![n] = @ \cup {s}]
        /\ negotiations' = [negotiations EXCEPT ![n] = @ \ With(n, s, m)]
        /\ UNCHANGED <<invited, abandoned, asking, prompting, alive, told, active, edits>>
      BY <1>3 DEF ReceiveDocument
  <2>2. TypeState'
    <3>1. [session |-> s, peer |-> m] \in Handle
        BY DEF Handle
    <3>2. timer' \in [Node -> BOOLEAN]
        BY DEF Inv, TypeState, ReceiveDocument, MakesNegotiation
    <3>3. sessions' \in [Node -> SUBSET Handle] /\ opened' \in [Node -> SUBSET Session]
          /\ negotiations' \in [Node -> SUBSET Negotiation]
        BY <2>1, <3>1 DEF Inv, TypeState
    <3>4. QED
        BY <2>1, <3>2, <3>3 DEF Inv, TypeState, edits
  <2>3. TimerCovers'
      BY <2>1 DEF Inv, TypeState, TimerCovers, ReceiveDocument, MakesNegotiation
  <2>4. s \notin invited[n] /\ s \notin abandoned[n]
      BY <1>1 DEF Inv, Lives, TypeState, OneInviter, GivenUp
  <2>5. OneInviter' /\ GivenUp'
      BY <2>1, <2>4 DEF Inv, Lives, TypeState, OneInviter, GivenUp
  <2>10. OneInvitation'
      BY <2>1 DEF Inv, Lives, TypeState, OneInvitation
  <2>6. PendingInvitation'
      BY <2>1, <2>4 DEF Inv, Lives, TypeState, PendingInvitation
  <2>7. OpenedByInviter'
    <3>1. ASSUME NEW k \in Node, NEW t \in opened'[k]
          PROVE  \E j \in Node : t \in invited[j] \cap opened[j]
        BY <1>1, <2>1 DEF Inv, Lives, TypeState, OpenedByInviter
    <3>2. \A k \in Node : opened[k] \subseteq opened'[k]
        BY <2>1 DEF Inv, TypeState
    <3>3. QED
        BY <2>1, <3>1, <3>2 DEF OpenedByInviter
  <2>8. Begun' = Begun
      BY <2>1, <2>4 DEF Inv, TypeState, Begun
  <2>9. QED
      BY <1>2, <2>2, <2>3, <2>5, <2>6, <2>7, <2>8, <2>10 DEF Inv, Lives
<1>4. CASE ~InState(n, s, m, "InvitationAccepted")
  <2>1. UNCHANGED <<sessions, opened, negotiations, invited, abandoned, asking, prompting,
                    alive, told, active, edits>>
      BY <1>4 DEF ReceiveDocument
  <2>2. Lives' /\ Begun' = Begun
      BY <2>1, PastStable DEF Inv, past
  <2>3. TypeState' /\ TimerCovers'
      BY <2>1 DEF Inv, TypeState, TimerCovers, ReceiveDocument, MakesNegotiation, edits
  <2>4. QED
      BY <1>2, <2>2, <2>3 DEF Inv
<1>5. QED
    BY <1>3, <1>4

LEMMA ReceiveAcceptPreserves ==
    ASSUME Inv, NEW n \in Node, NEW m \in Node, NEW s \in Session,
           ReceiveAccept(m, n, s)
    PROVE  Inv'
<1>1. CASE InState(n, s, m, "InvitationSent")
  <2>1. /\ sessions' = [sessions EXCEPT ![n] = @ \cup {[session |-> s, peer |-> m]}]
        /\ opened'   = [opened EXCEPT ![n] = @ \cup {s}]
        /\ negotiations' = [negotiations EXCEPT ![n] = @ \ With(n, s, m)]
        /\ Send(Taken(m, n), n, Only(m, Msg("document", s)))
        /\ UNCHANGED <<invited, abandoned, asking, prompting, alive, told, active, edits>>
      BY <1>1 DEF ReceiveAccept
  <2>2. TypeState'
    <3>1. [session |-> s, peer |-> m] \in Handle
        BY DEF Handle
    <3>2. timer' \in [Node -> BOOLEAN]
        BY DEF Inv, TypeState, ReceiveAccept, MakesNegotiation
    <3>3. sessions' \in [Node -> SUBSET Handle] /\ opened' \in [Node -> SUBSET Session]
          /\ negotiations' \in [Node -> SUBSET Negotiation]
        BY <2>1, <3>1 DEF Inv, TypeState
    <3>4. QED
        BY <2>1, <3>2, <3>3 DEF Inv, TypeState, edits
  <2>3. TimerCovers'
      BY <2>1 DEF Inv, TypeState, TimerCovers, ReceiveAccept, MakesNegotiation
  <2>4. s \in invited[n] /\ s \notin abandoned[n]
      BY <1>1 DEF Inv, Lives, PendingInvitation, InState
  <2>5. OneInviter' /\ GivenUp'
    <3>1. OneInviter'
        BY <2>1 DEF Inv, Lives, OneInviter
    <3>2. \A k \in Node : opened'[k] \subseteq opened[k] \cup (IF k = n THEN {s} ELSE {})
        BY <2>1 DEF Inv, TypeState
    <3>3. GivenUp'
        BY <2>1, <2>4, <3>2 DEF Inv, Lives, GivenUp
    <3>4. QED
        BY <3>1, <3>3
  <2>7. OneInvitation'
      BY <2>1 DEF Inv, Lives, TypeState, OneInvitation
  <2>11. \A x \in negotiations[n] :
            (x.state = "InvitationSent" /\ x.session = s) => x.peer = m
      BY <1>1 DEF Inv, Lives, OneInvitation, InState
  <2>6. PendingInvitation'
    <3>1. ASSUME NEW k \in Node, NEW x \in negotiations'[k], x.state = "InvitationSent"
          PROVE  x.session \in invited[k] \ (opened'[k] \cup abandoned[k])
      <4>1. x \in negotiations[k] /\ x.session \in invited[k] \ (opened[k] \cup abandoned[k])
          BY <2>1, <3>1 DEF Inv, Lives, TypeState, PendingInvitation
      <4>2. CASE k = n /\ x.session = s
          BY <2>1, <2>11, <3>1, <4>1, <4>2 DEF With, Inv, TypeState
      <4>3. CASE ~(k = n /\ x.session = s)
          BY <2>1, <4>1, <4>3 DEF Inv, TypeState
      <4>4. QED
          BY <4>2, <4>3
    <3>2. QED
        BY <2>1, <3>1 DEF PendingInvitation
  <2>8. OpenedByInviter'
    <3>1. ASSUME NEW k \in Node, NEW t \in opened'[k]
          PROVE  \E j \in Node : t \in invited[j] \cap opened'[j]
      <4>1. CASE t = s
          BY <2>1, <2>4, <4>1 DEF Inv, TypeState
      <4>2. CASE t # s
          BY <2>1, <4>2 DEF Inv, Lives, TypeState, OpenedByInviter
      <4>3. QED
          BY <4>1, <4>2
    <3>2. QED
        BY <2>1, <3>1 DEF OpenedByInviter
  <2>9. Wires(wire', Begun') /\ Wires(queued', Begun')
    <3>1. \A k \in Node : Begun[k] \subseteq Begun'[k]
        BY <2>1 DEF Inv, TypeState, Begun
    <3>2. Wires(Taken(m, n), Begun)
        BY TakenWires DEF Inv, ReceiveAccept, Arrives
    <3>3. Wires(Taken(m, n), Begun') /\ Wires(queued, Begun')
        BY <3>1, <3>2, WiresMono DEF Inv
    <3>4. s \in Begun'[n]
        BY <2>1, <2>4 DEF Inv, TypeState, Begun
    <3>5. /\ Only(m, Msg("document", s)) \in [Node -> Seq(Message)]
          /\ \A q \in Node : Documents(Only(m, Msg("document", s))[q], Begun'[n])
        BY <3>4, MsgType, OnlyType
    <3>6. QED
        BY <2>1, <3>3, <3>5, SendWires
  <2>10. QED
      BY <2>2, <2>3, <2>5, <2>6, <2>7, <2>8, <2>9 DEF Inv, Lives
<1>2. CASE ~InState(n, s, m, "InvitationSent")
  <2>1. UNCHANGED <<sessions, opened, negotiations, invited, abandoned, asking, prompting,
                    alive, told, active, edits>>
      BY <1>2 DEF ReceiveAccept
  <2>2. Lives' /\ Begun' = Begun
      BY <2>1, PastStable DEF Inv, past
  <2>3. TypeState' /\ TimerCovers'
      BY <2>1 DEF Inv, TypeState, TimerCovers, ReceiveAccept, MakesNegotiation, edits
  <2>4. Wires(wire', Begun) /\ Wires(queued', Begun)
      BY <1>2, SilentWires DEF Inv, ReceiveAccept
  <2>5. QED
      BY <2>2, <2>3, <2>4 DEF Inv
<1>3. QED
    BY <1>1, <1>2

LEMMA ReceiveAbortPreserves ==
    ASSUME Inv, NEW n \in Node, NEW m \in Node, NEW s \in Session,
           ReceiveAbort(m, n, s)
    PROVE  Inv'
<1>1. /\ negotiations' = [negotiations EXCEPT ![n] = @ \ With(n, s, m)]
      /\ abandoned' = [abandoned EXCEPT ![n] = @ \cup Inviting(With(n, s, m))]
      /\ UNCHANGED <<sessions, asking, prompting, alive, told, active, edits, invited, opened>>
    BY DEF ReceiveAbort
<1>2. Inviting(With(n, s, m)) \subseteq Session
    BY DEF Inv, TypeState, Inviting, With, Negotiation
<1>3. TypeState'
    BY <1>1, <1>2 DEF Inv, TypeState, ReceiveAbort, MakesNegotiation, edits
<1>4. TimerCovers'
    BY <1>1 DEF Inv, TypeState, TimerCovers, ReceiveAbort, MakesNegotiation
<1>5. Lives'
  <2>1. OneInviter' /\ OneInvitation' /\ OpenedByInviter'
      BY <1>1 DEF Inv, Lives, TypeState, OneInviter, OneInvitation, OpenedByInviter
  <2>2. GivenUp'
      BY <1>1 DEF Inv, Lives, TypeState, GivenUp, PendingInvitation, Inviting, With
  <2>3. PendingInvitation'
    <3>1. ASSUME NEW k \in Node, NEW x \in negotiations'[k], x.state = "InvitationSent"
          PROVE  x.session \in invited[k] \ (opened[k] \cup abandoned'[k])
      <4>1. x \in negotiations[k] /\ x.session \in invited[k] \ (opened[k] \cup abandoned[k])
          BY <1>1, <3>1 DEF Inv, Lives, TypeState, PendingInvitation
      <4>2. ASSUME k = n PROVE x.session \notin Inviting(With(n, s, m))
          BY <1>1, <3>1, <4>1, <4>2 DEF Inv, Lives, TypeState, OneInvitation, Inviting, With
      <4>3. QED
          BY <1>1, <4>1, <4>2 DEF Inv, TypeState
    <3>2. QED
        BY <1>1, <3>1 DEF PendingInvitation
  <2>4. QED
      BY <2>1, <2>2, <2>3 DEF Lives
<1>6. Begun' = Begun
    BY <1>1 DEF Begun
<1>7. Wires(wire', Begun) /\ Wires(queued', Begun)
    BY SilentWires DEF Inv, ReceiveAbort
<1>8. QED
    BY <1>3, <1>4, <1>5, <1>6, <1>7 DEF Inv

LEMMA ReceiveLeftPreserves ==
    ASSUME Inv, NEW n \in Node, NEW m \in Node, NEW s \in Session,
           ReceiveLeft(m, n, s)
    PROVE  Inv'
<1>1. TypeState' /\ TimerCovers'
    BY DEF Inv, TypeState, TimerCovers, ReceiveLeft, MakesNegotiation, edits, past
<1>2. Lives' /\ Begun' = Begun
    BY PastStable DEF Inv, ReceiveLeft, past
<1>3. Wires(wire', Begun) /\ Wires(queued', Begun)
    BY SilentWires DEF Inv, ReceiveLeft
<1>4. QED
    BY <1>1, <1>2, <1>3 DEF Inv

LEMMA ReceiveEditsPreserves ==
    ASSUME Inv, NEW n \in Node, NEW m \in Node, NEW s \in Session,
           ReceiveEdits(m, n, s)
    PROVE  Inv'
<1>1. got' \in [Node -> [Session -> Seq(0 .. MaxEdits)]]
  <2> DEFINE k == Head(wire[<<m, n>>]).n
  <2>1. k \in 0 .. MaxEdits
      BY Head1 DEF Inv, ReceiveEdits
  <2>2. Append(got[n][s], k) \in Seq(0 .. MaxEdits)
      BY <2>1 DEF Inv, TypeState
  <2>3. \/ got' = [got EXCEPT ![n][s] = Append(@, k)]
        \/ got' = got
      BY DEF ReceiveEdits
  <2>4. CASE got' = [got EXCEPT ![n][s] = Append(@, k)]
      BY <2>2, <2>4 DEF Inv, TypeState
  <2>5. QED
      BY <2>3, <2>4 DEF Inv, TypeState
<1>2. TypeState' /\ TimerCovers'
    BY <1>1 DEF Inv, TypeState, TimerCovers, ReceiveEdits, state, past
<1>3. Lives' /\ Begun' = Begun
    BY PastStable DEF Inv, ReceiveEdits, past, state
<1>4. Wires(wire', Begun) /\ Wires(queued', Begun)
    BY SilentWires DEF Inv, ReceiveEdits
<1>5. QED
    BY <1>2, <1>3, <1>4 DEF Inv

LEMMA SendEditsPreserves ==
    ASSUME Inv, NEW n \in Node, NEW x \in sessions[n], SendEdits(n, x)
    PROVE  Inv'
<1> DEFINE k == sent'[n][x.session]
           msg == [kind |-> "edit", session |-> x.session, n |-> k]
<1>1. x.session \in Session /\ x.peer \in Node
    BY DEF Inv, TypeState, Handle
<1>2. sent' \in [Node -> [Session -> 0 .. MaxEdits]] /\ k \in 0 .. MaxEdits
    BY <1>1, MaxEditsAssumption DEF Inv, TypeState, SendEdits
<1>3. TypeState' /\ TimerCovers'
    BY <1>2 DEF Inv, TypeState, TimerCovers, SendEdits, state, past
<1>4. Lives' /\ Begun' = Begun
    BY PastStable DEF Inv, SendEdits, past, state
<1>5. Wires(wire', Begun) /\ Wires(queued', Begun)
  <2>1. msg \in Message /\ msg.kind # "document"
      BY <1>1, <1>2 DEF Message
  <2>2. /\ Only(x.peer, msg) \in [Node -> Seq(Message)]
        /\ \A q \in Node : Documents(Only(x.peer, msg)[q], Begun[n])
      BY <2>1, OnlyType
  <2>3. Send(wire, n, Only(x.peer, msg))
      BY DEF SendEdits
  <2>4. QED
      BY <2>2, <2>3, SendWires DEF Inv
<1>6. QED
    BY <1>3, <1>4, <1>5 DEF Inv

LEMMA EndSessionPreserves ==
    ASSUME Inv, NEW n \in Node, NEW x \in sessions[n], EndSession(n, x)
    PROVE  Inv'
<1> DEFINE left == Msg("left", x.session)
           abort == Msg("abort", x.session)
           aborts == IF With(n, x.session, x.peer) = {} THEN <<>> ELSE <<abort>>
           out == [q \in Node |-> IF q = x.peer THEN aborts \o <<left>> ELSE <<>>]
<1>1. x.session \in Session
    BY DEF Inv, TypeState, Handle
<1>2. TypeState' /\ TimerCovers'
    BY DEF Inv, TypeState, TimerCovers, EndSession, edits, past
<1>3. Lives' /\ Begun' = Begun
    BY PastStable DEF Inv, TypeState, EndSession, past
<1>4. Wires(wire', Begun) /\ Wires(queued', Begun)
  <2>1. /\ <<>> \in Seq(Message) /\ Documents(<<>>, Begun[n])
        /\ <<left>> \in Seq(Message) /\ Documents(<<left>>, Begun[n])
        /\ <<abort>> \in Seq(Message) /\ Documents(<<abort>>, Begun[n])
      BY <1>1, MsgType DEF Documents
  <2>2. aborts \o <<left>> \in Seq(Message) /\ Documents(aborts \o <<left>>, Begun[n])
      BY <2>1, DocumentsConcat
  <2>3. out \in [Node -> Seq(Message)] /\ \A q \in Node : Documents(out[q], Begun[n])
      BY <2>1, <2>2, Zenon
  <2>4. Send(wire, n, out)
      BY DEF EndSession
  <2>5. QED
      BY <2>3, <2>4, SendWires DEF Inv
<1>5. QED
    BY <1>2, <1>3, <1>4 DEF Inv

\* What the contact p is sent when the client's negotiations are deleted.
LEMMA AbortsType ==
    ASSUME Inv, NEW n \in Node, NEW p \in Node, NEW q \in SetToSeqs(Aborts(n, p))
    PROVE  q \in Seq(Message) /\ \A i \in 1 .. Len(q) : q[i].kind = "abort"
<1> DEFINE S == Inviting({x \in negotiations[n] : x.peer = p})
<1>1. S \subseteq Session
  <2>1. negotiations[n] \subseteq Negotiation
      BY DEF Inv, TypeState
  <2>2. \A x \in negotiations[n] : x.session \in Session
      BY <2>1 DEF Negotiation
  <2>3. QED
      BY <2>2, Zenon DEF Inviting
<1>2. IsFiniteSet(S)
    BY <1>1, SessionAssumption, FS_Subset
<1>3. Aborts(n, p) = {Msg("abort", s) : s \in S}
    BY DEF Aborts
<1> HIDE DEF S
<1>4. IsFiniteSet(Aborts(n, p))
  <2> DEFINE f == [s \in S |-> Msg("abort", s)]
  <2>1. f \in Surjection(S, Aborts(n, p))
      BY <1>3, Zenon DEF Surjection
  <2>2. QED
      BY <1>2, <2>1, FS_Surjection
<1>5. \A msg \in Aborts(n, p) : msg \in Message /\ msg.kind = "abort"
    BY <1>1, <1>3, MsgType
<1>6. q \in Seq(Aborts(n, p))
    BY <1>4, SetToSeqsType
<1>7. \A i \in 1 .. Len(q) : q[i] \in Aborts(n, p)
    BY <1>6
<1>8. q \in Seq(Message)
    BY <1>5, <1>6, <1>7
<1>9. QED
    BY <1>5, <1>7, <1>8

LEMMA NegotiationTimeoutPreserves ==
    ASSUME Inv, NEW n \in Node, NegotiationTimeout(n)
    PROVE  Inv'
<1>1. /\ negotiations' = [negotiations EXCEPT ![n] = {}]
      /\ timer' = [timer EXCEPT ![n] = FALSE]
      /\ abandoned' = [abandoned EXCEPT ![n] = @ \cup Inviting(negotiations[n])]
      /\ UNCHANGED <<sessions, asking, prompting, alive, told, active, edits, invited, opened>>
    BY DEF NegotiationTimeout
<1>2. Inviting(negotiations[n]) \subseteq Session
    BY DEF Inv, TypeState, Inviting, Negotiation
<1>3. TypeState' /\ TimerCovers'
    BY <1>1, <1>2 DEF Inv, TypeState, TimerCovers, edits
<1>4. Lives'
  <2>1. OneInviter' /\ OneInvitation' /\ OpenedByInviter'
      BY <1>1 DEF Inv, Lives, TypeState, OneInviter, OneInvitation, OpenedByInviter
  <2>2. GivenUp'
      BY <1>1 DEF Inv, Lives, TypeState, GivenUp, PendingInvitation, Inviting
  <2>3. PendingInvitation'
      BY <1>1 DEF Inv, Lives, TypeState, PendingInvitation
  <2>4. QED
      BY <2>1, <2>2, <2>3 DEF Lives
<1>5. Begun' = Begun
    BY <1>1 DEF Begun
<1>6. Wires(wire', Begun) /\ Wires(queued', Begun)
  <2>1. CASE UNCHANGED net
      BY <2>1 DEF Inv, net, Wires
  <2>2. CASE ~UNCHANGED net
    <3>1. PICK out \in [Node -> UNION {SetToSeqs(Aborts(n, p)) : p \in Node}] :
              /\ \A p \in Node : out[p] \in SetToSeqs(Aborts(n, p))
              /\ Send(wire, n, out)
        BY <2>2 DEF NegotiationTimeout
    <3>2. \A p \in Node : out[p] \in Seq(Message) /\ Documents(out[p], Begun[n])
        BY <3>1, AbortsType DEF Documents
    <3>3. out \in [Node -> Seq(Message)]
        BY <3>1, <3>2
    <3>4. QED
        BY <3>1, <3>2, <3>3, SendWires DEF Inv
  <2>3. QED
      BY <2>1, <2>2
<1>7. QED
    BY <1>3, <1>4, <1>5, <1>6 DEF Inv

LEMMA ReconnectPreserves ==
    ASSUME Inv, NEW n \in Node, Reconnect(n)
    PROVE  Inv'
<1>1. Lives' /\ Begun' = Begun
    BY PastStable DEF Inv, Reconnect, state, past
<1>2. QED
    BY <1>1 DEF Inv, TypeState, TimerCovers, Reconnect, state, net, edits, past, Wires

-----------------------------------------------------------------------------
(* The theorems.                                                           *)

\* The invariant behind the negotiation: every invitation has one sender, which
\* waits for it, has given it up or has opened it; every document is that of a
\* session its sender opened; every pending negotiation has a running timer.
THEOREM OpeningInvariantHolds == Spec => []OpeningInvariant
<1>1. ASSUME Inv, [Next]_vars PROVE Inv'
  <2>1. CASE UNCHANGED vars
    <3>1. UNCHANGED <<state, active, net, edits, past>>
        BY <2>1 DEF vars
    <3>2. Lives' /\ Begun' = Begun
        BY <1>1, <3>1, PastStable DEF Inv, state, past
    <3>3. QED
        BY <1>1, <3>1, <3>2 DEF Inv, TypeState, TimerCovers, state, net, edits, past, Wires
  <2>2. ASSUME NEW n \in Node, NEW p \in Node, OpenWhiteboard(n, p) PROVE Inv'
      BY <1>1, <2>2, OpenWhiteboardPreserves
  <2>3. ASSUME NEW n \in Node, NEW s \in Session, StartNewSession(n, s) PROVE Inv'
      BY <1>1, <2>3, StartNewSessionPreserves
  <2>4. ASSUME NEW n \in Node, NEW m \in Node, NEW s \in Session, Receive(m, n, s)
        PROVE  Inv'
      BY <1>1, <2>4, ReceiveInvitationPreserves, ReceiveAcceptPreserves,
         ReceiveDocumentPreserves, ReceiveAbortPreserves, ReceiveLeftPreserves,
         ReceiveEditsPreserves DEF Receive
  <2>5. ASSUME NEW n \in Node, NEW b \in BOOLEAN, Answer(n, b) \/ AnswerDeleted(n, b)
        PROVE  Inv'
      BY <1>1, <2>5, AnswerPreserves, AnswerDeletedPreserves
  <2>6. ASSUME NEW n \in Node, NEW x \in sessions[n], SendEdits(n, x) \/ EndSession(n, x)
        PROVE  Inv'
      BY <1>1, <2>6, SendEditsPreserves, EndSessionPreserves
  <2>7. ASSUME NEW n \in Node, NegotiationTimeout(n) PROVE Inv'
      BY <1>1, <2>7, NegotiationTimeoutPreserves
  <2>8. ASSUME NEW n \in Node, Reconnect(n) PROVE Inv'
      BY <1>1, <2>8, ReconnectPreserves
  <2>9. QED
      BY <1>1, <2>1, <2>2, <2>3, <2>4, <2>5, <2>6, <2>7, <2>8 DEF Next
<1>2. Init => Inv
    BY InitInv
<1>3. Inv => OpeningInvariant
    BY InvIsOpeningInvariant
<1>4. QED
    BY <1>1, <1>2, <1>3, PTL DEF Spec

\* No session is opened by the client that was invited unless the client that
\* invited it opened it too.
THEOREM JoinerBackedHolds == Spec => []JoinerBacked
<1>1. OpeningInvariant => JoinerBacked
    BY DEF OpeningInvariant, JoinerBacked, OneInviter, OpenedByInviter
<1>2. QED
    BY <1>1, OpeningInvariantHolds, PTL

\* An invitation that its sender gave up is opened by nobody, even if the answer
\* was on its way.
THEOREM AbandonedStaysClosedHolds == Spec => []AbandonedStaysClosed
<1>1. OpeningInvariant => AbandonedStaysClosed
    BY DEF OpeningInvariant, AbandonedStaysClosed, OneInviter, OpenedByInviter, GivenUp
<1>2. QED
    BY <1>1, OpeningInvariantHolds, PTL

-----------------------------------------------------------------------------
(* Departures.                                                             *)

\* All that c[1] has sent to c[2] and that is not handled yet.
Way(c) == wire[c] \o queued[c]

\* A document of s is followed by the news that its sender has left.
LeftBehind(q, s) ==
    \A i \in 1 .. Len(q) : q[i].kind = "document" /\ q[i].session = s =>
        \E j \in i .. Len(q) : q[j].kind = "left" /\ q[j].session = s

\* A session is one of an inviter and of a client that has taken its document,
\* and no longer negotiated.
Settled == \A n \in Node : \A x \in sessions[n] :
    /\ With(n, x.session, x.peer) = {} /\ x.session \in opened[n]
    /\ x.session \in invited[n] \cup invited[x.peer]

\* An inviter has a session with one client, and sends no document to another.
OnePartner == \A c \in Channel : \A y \in sessions[c[1]] :
    y.session \in invited[c[1]] /\ y.peer # c[2] =>
        /\ ~Carries(Way(c), "document", y.session)
        /\ \A x \in sessions[c[2]] : x.session = y.session => x.peer # c[1]

\* A client that opens a session late will hear that the other has left.
Followed == \A c \in Channel : \A s \in Session : Known(c[1], s) \/ LeftBehind(Way(c), s)

Departures == Settled /\ OnePartner /\ Followed /\ DepartureAnnounced

\* What is on the way carries no more documents, and they are followed as before.
Thins(q, r) ==
    \A s \in Session : /\ Carries(r, "document", s) => Carries(q, "document", s)
                       /\ LeftBehind(q, s) => LeftBehind(r, s)
KeepsLeft(q, r) == \A s \in Session : Carries(q, "left", s) => Carries(r, "left", s)
NoDocument(q)   == \A s \in Session : ~Carries(q, "document", s)

LEMMA JoinedCarries ==
    ASSUME NEW q \in Seq(Message), NEW t \in Seq(Message), NEW k, NEW s
    PROVE  /\ q \o t \in Seq(Message)
           /\ Carries(q \o t, k, s) <=> Carries(q, k, s) \/ Carries(t, k, s)
           /\ ~Carries(t, "document", s) /\ (LeftBehind(q, s) \/ Carries(t, "left", s)) =>
                  LeftBehind(q \o t, s)
<1> DEFINE r == q \o t
<1>1. /\ r \in Seq(Message) /\ Len(r) = Len(q) + Len(t) /\ Len(q) \in Nat /\ Len(t) \in Nat
      /\ \A i \in 1 .. Len(q) + Len(t) : r[i] = IF i <= Len(q) THEN q[i] ELSE t[i - Len(q)]
    BY ConcatProperties, LenProperties
<1> HIDE DEF r
<1>2. /\ \A i \in 1 .. Len(q) : i \in 1 .. Len(r) /\ r[i] = q[i]
      /\ \A i \in 1 .. Len(t) : Len(q) + i \in 1 .. Len(r) /\ r[Len(q) + i] = t[i]
      /\ \A i \in 1 .. Len(r) : \/ i \in 1 .. Len(q) /\ r[i] = q[i]
                                \/ i - Len(q) \in 1 .. Len(t) /\ r[i] = t[i - Len(q)]
  <2>1. \A i \in 1 .. Len(q) : i \in 1 .. Len(r) /\ r[i] = q[i]
      BY <1>1
  <2>2. ASSUME NEW i \in 1 .. Len(t)
        PROVE  Len(q) + i \in 1 .. Len(r) /\ r[Len(q) + i] = t[i]
    <3>1. Len(q) + i \in 1 .. Len(q) + Len(t) /\ ~(Len(q) + i <= Len(q)) /\ Len(q) + i - Len(q) = i
        BY <1>1
    <3>2. QED
        BY <1>1, <3>1
  <2>3. ASSUME NEW i \in 1 .. Len(r)
        PROVE  \/ i \in 1 .. Len(q) /\ r[i] = q[i]
               \/ i - Len(q) \in 1 .. Len(t) /\ r[i] = t[i - Len(q)]
      BY <1>1
  <2>4. QED
      BY <2>1, <2>2, <2>3
<1>3. Carries(r, k, s) <=> Carries(q, k, s) \/ Carries(t, k, s)
  <2>1. Carries(r, k, s) => Carries(q, k, s) \/ Carries(t, k, s)
      BY <1>2 DEF Carries
  <2>2. Carries(q, k, s) => Carries(r, k, s)
      BY <1>2 DEF Carries
  <2>3. ASSUME Carries(t, k, s) PROVE Carries(r, k, s)
    <3>1. PICK i \in 1 .. Len(t) : t[i].kind = k /\ t[i].session = s
        BY <2>3 DEF Carries
    <3>2. Len(q) + i \in 1 .. Len(r) /\ r[Len(q) + i] = t[i]
        BY <1>2
    <3>3. QED
        BY <3>1, <3>2 DEF Carries
  <2>4. QED
      BY <2>1, <2>2, <2>3
<1>4. ASSUME ~Carries(t, "document", s), LeftBehind(q, s) \/ Carries(t, "left", s),
             NEW i \in 1 .. Len(r), r[i].kind = "document", r[i].session = s
      PROVE  \E j \in i .. Len(r) : r[j].kind = "left" /\ r[j].session = s
  <2>1. i \in 1 .. Len(q) /\ r[i] = q[i]
      BY <1>2, <1>4 DEF Carries
  <2>2. CASE LeftBehind(q, s)
    <3>1. PICK j \in i .. Len(q) : q[j].kind = "left" /\ q[j].session = s
        BY <1>4, <2>1, <2>2 DEF LeftBehind
    <3>2. j \in 1 .. Len(q) /\ j \in i .. Len(r)
        BY <1>1, <2>1
    <3>3. QED
        BY <1>2, <3>1, <3>2
  <2>3. CASE Carries(t, "left", s)
    <3>1. PICK j \in 1 .. Len(t) : t[j].kind = "left" /\ t[j].session = s
        BY <2>3 DEF Carries
    <3>2. Len(q) + j \in i .. Len(r)
        BY <1>1, <2>1
    <3>3. QED
        BY <1>2, <3>1, <3>2
  <2>4. QED
      BY <1>4, <2>2, <2>3
<1>5. QED
    BY <1>1, <1>3, <1>4 DEF LeftBehind, r

LEMMA NothingCarried == \A k, s : ~Carries(<<>>, k, s)
    BY DEF Carries

LEMMA OneCarried ==
    ASSUME NEW x, NEW k, NEW s
    PROVE  Carries(<<x>>, k, s) <=> x.kind = k /\ x.session = s
    BY DEF Carries

\* The head of a wire is taken, with r waiting behind.
LEMMA TakenCarries ==
    ASSUME NEW w \in Seq(Message), w # <<>>, NEW r \in Seq(Message), NEW k, NEW s
    PROVE  LET q == w \o r
               t == Tail(w) \o r
           IN  /\ Carries(q, k, s) <=> \/ Head(w).kind = k /\ Head(w).session = s
                                       \/ Carries(t, k, s)
               /\ LeftBehind(q, s) => LeftBehind(t, s)
               /\ LeftBehind(q, s) /\ Head(w).kind = "document" /\ Head(w).session = s =>
                      Carries(t, "left", s)
<1> DEFINE q == w \o r
           t == Tail(w) \o r
           x == Head(w)
<1>1. /\ Tail(w) \in Seq(Message) /\ Len(Tail(w)) = Len(w) - 1 /\ x = w[1]
      /\ Len(w) \in Nat \ {0} /\ Len(r) \in Nat
      /\ \A i \in 1 .. Len(Tail(w)) : Tail(w)[i] = w[i + 1]
    BY HeadTailProperties, LenProperties, EmptySeq
<1>2. /\ Len(q) = Len(w) + Len(r) /\ Len(t) = Len(w) - 1 + Len(r)
      /\ \A i \in 1 .. Len(w) + Len(r) : q[i] = IF i <= Len(w) THEN w[i] ELSE r[i - Len(w)]
      /\ \A i \in 1 .. Len(w) - 1 + Len(r) :
             t[i] = IF i <= Len(w) - 1 THEN Tail(w)[i] ELSE r[i - (Len(w) - 1)]
    BY <1>1, ConcatProperties
<1> HIDE DEF q, t, x
<1>3. /\ Len(q) = Len(t) + 1 /\ Len(t) \in Nat /\ q[1] = x
      /\ \A i \in 1 .. Len(t) : t[i] = q[i + 1]
    BY <1>1, <1>2
<1>4. /\ 1 \in 1 .. Len(q)
      /\ \A i \in 1 .. Len(t) : i + 1 \in 1 .. Len(q) /\ t[i] = q[i + 1]
      /\ \A i \in 1 .. Len(q) : i = 1 \/ (i - 1 \in 1 .. Len(t) /\ q[i] = t[i - 1])
    BY <1>3
<1>5. Carries(q, k, s) <=> (x.kind = k /\ x.session = s) \/ Carries(t, k, s)
    BY <1>3, <1>4 DEF Carries
<1>6. ASSUME LeftBehind(q, s) PROVE LeftBehind(t, s)
  <2> SUFFICES ASSUME NEW i \in 1 .. Len(t), t[i].kind = "document", t[i].session = s
               PROVE  \E j \in i .. Len(t) : t[j].kind = "left" /\ t[j].session = s
      BY DEF LeftBehind
  <2>1. PICK j \in i + 1 .. Len(q) : q[j].kind = "left" /\ q[j].session = s
      BY <1>4, <1>6 DEF LeftBehind
  <2>2. j - 1 \in i .. Len(t) /\ q[j] = t[j - 1]
      BY <1>3, <1>4, <2>1
  <2>3. QED
      BY <2>1, <2>2
<1>7. ASSUME LeftBehind(q, s), x.kind = "document", x.session = s PROVE Carries(t, "left", s)
  <2>1. PICK j \in 1 .. Len(q) : q[j].kind = "left" /\ q[j].session = s
      BY <1>3, <1>4, <1>7 DEF LeftBehind
  <2>2. j # 1
      BY <1>3, <1>7, <2>1
  <2>3. QED
      BY <1>4, <2>1, <2>2 DEF Carries
<1>8. QED
    BY <1>5, <1>6, <1>7 DEF q, t, x

\* What is on the way after a sending.
LEMMA SendWay ==
    ASSUME NEW w \in [Channel -> Seq(Message)], queued \in [Channel -> Seq(Message)],
           NEW n \in Node, NEW out \in [Node -> Seq(Message)], Send(w, n, out), NEW c \in Channel
    PROVE  Way(c)' = IF c[1] = n THEN (w[c] \o queued[c]) \o out[c[2]] ELSE w[c] \o queued[c]
<1>1. /\ w[c] \in Seq(Message) /\ queued[c] \in Seq(Message) /\ out[c[2]] \in Seq(Message)
      /\ Way(c)' = wire'[c] \o queued'[c]
    BY DEF Channel, Way
<1>2. CASE active[n] /\ c[1] = n
  <2>1. wire'[c] = w[c] \o queued[c] \o out[c[2]] /\ queued'[c] = <<>>
      BY <1>2 DEF Send
  <2>2. w[c] \o queued[c] \o out[c[2]] \in Seq(Message)
      BY <1>1, ConcatProperties
  <2>3. QED
      BY <1>1, <1>2, <2>1, <2>2, ConcatEmptySeq
<1>3. CASE ~active[n] /\ c[1] = n
  <2>1. wire'[c] = w[c] /\ queued'[c] = queued[c] \o out[c[2]]
      BY <1>3 DEF Send
  <2>2. \A x, y, z \in Seq(Message) : (x \o y) \o z = x \o (y \o z)
      BY ConcatAssociative
  <2>3. (w[c] \o queued[c]) \o out[c[2]] = w[c] \o (queued[c] \o out[c[2]])
      BY <1>1, <2>2
  <2>4. QED
      BY <1>1, <1>3, <2>1, <2>3, Zenon
<1>4. CASE c[1] # n
  <2>1. wire'[c] = w[c] /\ queued'[c] = queued[c]
      BY <1>4 DEF Send
  <2>2. QED
      BY <1>1, <1>4, <2>1
<1>5. QED
    BY <1>2, <1>3, <1>4

LEMMA SendThins ==
    ASSUME Wires(wire, Begun), Wires(queued, Begun), NEW n \in Node,
           NEW out \in [Node -> Seq(Message)], Send(wire, n, out), NEW c \in Channel,
           \A p \in Node : NoDocument(out[p])
    PROVE  Thins(Way(c), Way(c)') /\ KeepsLeft(Way(c), Way(c)')
<1>1. Way(c)' = IF c[1] = n THEN Way(c) \o out[c[2]] ELSE Way(c)
  <2>1. wire \in [Channel -> Seq(Message)] /\ queued \in [Channel -> Seq(Message)]
      BY DEF Wires
  <2>2. Way(c)' = IF c[1] = n THEN (wire[c] \o queued[c]) \o out[c[2]]
                              ELSE wire[c] \o queued[c]
      BY <2>1, SendWay
  <2>3. Way(c) = wire[c] \o queued[c]
      BY DEF Way
  <2>4. QED
      BY <2>2, <2>3
<1>2. Way(c) \in Seq(Message) /\ c[2] \in Node
    BY ConcatProperties DEF Wires, Way, Channel
<1> DEFINE q == Way(c)
           t == out[c[2]]
<1>3. q \in Seq(Message) /\ t \in Seq(Message) /\ NoDocument(t)
    BY <1>2
<1> HIDE DEF q, t
<1>4. Thins(q, q \o t) /\ KeepsLeft(q, q \o t)
    BY <1>3, JoinedCarries DEF Thins, KeepsLeft, NoDocument
<1>5. Thins(q, q) /\ KeepsLeft(q, q)
    BY DEF Thins, KeepsLeft
<1>6. QED
    BY <1>1, <1>4, <1>5 DEF q, t

\* What is on the way after a message is taken.
LEMMA TakenWay ==
    ASSUME wire \in [Channel -> Seq(Message)], NEW m, NEW n, <<m, n>> \in Channel, NEW c \in Channel
    PROVE  /\ Taken(m, n) \in [Channel -> Seq(Message)] \/ wire[<<m, n>>] = <<>>
           /\ Taken(m, n)[c] = IF c = <<m, n>> THEN Tail(wire[c]) ELSE wire[c]
    BY HeadTailProperties DEF Taken

LEMMA TakenThins ==
    ASSUME Wires(wire, Begun), Wires(queued, Begun), NEW m, NEW n, NEW kind, NEW s,
           Arrives(m, n, kind, s), NEW c \in Channel
    PROVE  LET r == Taken(m, n)[c] \o queued[c]
           IN  /\ Thins(Way(c), r)
               /\ \A t \in Session : Carries(Way(c), "left", t) =>
                      \/ Carries(r, "left", t)
                      \/ kind = "left" /\ t = s /\ c = <<m, n>>
<1> DEFINE r == Taken(m, n)[c] \o queued[c]
<1>1. /\ <<m, n>> \in Channel /\ wire[<<m, n>>] # <<>>
      /\ wire[c] \in Seq(Message) /\ queued[c] \in Seq(Message)
      /\ wire \in [Channel -> Seq(Message)]
    BY DEF Arrives, Wires
<1>2. Taken(m, n)[c] = IF c = <<m, n>> THEN Tail(wire[c]) ELSE wire[c]
    BY <1>1, TakenWay
<1>3. CASE c = <<m, n>>
  <2>1. r = Tail(wire[c]) \o queued[c] /\ Way(c) = wire[c] \o queued[c]
      BY <1>2, <1>3 DEF Way
  <2>2. wire[c] # <<>> /\ Head(wire[c]).kind = kind /\ Head(wire[c]).session = s
      BY <1>1, <1>3 DEF Arrives
  <2> HIDE DEF r
  <2>3. ASSUME NEW t \in Session
        PROVE  /\ Carries(r, "document", t) => Carries(Way(c), "document", t)
               /\ LeftBehind(Way(c), t) => LeftBehind(r, t)
               /\ Carries(Way(c), "left", t) =>
                      Carries(r, "left", t) \/ (kind = "left" /\ t = s)
      BY <1>1, <2>1, <2>2, TakenCarries
  <2>4. Thins(Way(c), r)
      BY <2>3 DEF Thins
  <2>5. QED
      BY <1>3, <2>3, <2>4 DEF r
<1>4. CASE c # <<m, n>>
  <2>1. r = Way(c)
      BY <1>2, <1>4 DEF Way
  <2>2. QED
      BY <2>1 DEF Thins
<1>5. QED
    BY <1>3, <1>4

\* A message that is handled in silence.
LEMMA SilentThins ==
    ASSUME Inv, NEW m, NEW n, NEW kind, NEW s, Arrives(m, n, kind, s), Silent(m, n),
           NEW c \in Channel
    PROVE  /\ Thins(Way(c), Way(c)')
           /\ \A t \in Session : Carries(Way(c), "left", t) =>
                  Carries(Way(c)', "left", t) \/ (kind = "left" /\ t = s /\ c = <<m, n>>)
<1>1. Way(c)' = Taken(m, n)[c] \o queued[c]
    BY DEF Way, Silent
<1>2. QED
    BY <1>1, TakenThins DEF Inv

\* Messages other than documents that are sent.
LEMMA OnlyThins ==
    ASSUME Inv, NEW n \in Node, NEW p, NEW msg \in Message, msg.kind # "document",
           Send(wire, n, Only(p, msg)), NEW c \in Channel
    PROVE  Thins(Way(c), Way(c)') /\ KeepsLeft(Way(c), Way(c)')
<1>1. Only(p, msg) \in [Node -> Seq(Message)]
    BY OnlyType DEF Inv
<1>2. \A q \in Node : NoDocument(Only(p, msg)[q])
    BY NothingCarried, OneCarried DEF NoDocument, Only
<1>3. QED
    BY <1>1, <1>2, SendThins DEF Inv

LEMMA NothingSent ==
    ASSUME UNCHANGED <<wire, queued>>, NEW c \in Channel
    PROVE  Thins(Way(c), Way(c)') /\ KeepsLeft(Way(c), Way(c)')
    BY DEF Thins, KeepsLeft, Way

\* A step that opens and ends no session: what is told, and what is invited to,
\* grows; a session that is open is not negotiated again; what is on its way
\* thins, and the news of a departure is kept or heard.
Grows == \A n \in Node :
    /\ told[n] \subseteq told'[n] /\ invited[n] \subseteq invited'[n]
    /\ \A s \in invited'[n] : s \in invited[n] \/ Fresh(s)
OpenIsSettled == \A n \in Node : \A x \in negotiations'[n] :
    Known(n, x.session) => With(n, x.session, x.peer) # {}
NewsKept == \A c \in Channel : \A x \in sessions[c[2]] :
    x.peer = c[1] /\ Carries(Way(c), "left", x.session) =>
        Carries(Way(c)', "left", x.session) \/ x.session \in told'[c[2]]
Quietly == /\ UNCHANGED <<sessions, opened>> /\ Grows /\ OpenIsSettled /\ NewsKept
           /\ \A c \in Channel : Thins(Way(c), Way(c)')

LEMMA SessionType ==
    ASSUME Inv, NEW n \in Node, NEW x \in sessions[n]
    PROVE  x.session \in Session /\ x.peer \in Node /\ x = [session |-> x.session, peer |-> x.peer]
    BY DEF Inv, TypeState, Handle

\* What is opened was invited to.
LEMMA OpenedNotFresh ==
    ASSUME Inv, NEW n \in Node, NEW s \in opened[n]
    PROVE  ~Fresh(s)
    BY DEF Inv, Lives, OpenedByInviter, Fresh

LEMMA QuietlyPreserves ==
    ASSUME Inv, Departures, Quietly
    PROVE  Departures'
<1>1. \A n \in Node : \A s : Known(n, s)' <=> Known(n, s)
    BY DEF Quietly, Known
<1>2. Settled'
  <2> SUFFICES ASSUME NEW n \in Node, NEW x \in sessions[n]
               PROVE  /\ With(n, x.session, x.peer)' = {} /\ x.session \in opened[n]
                      /\ x.session \in invited'[n] \cup invited'[x.peer]
      BY DEF Settled, Quietly
  <2>1. /\ With(n, x.session, x.peer) = {} /\ x.session \in opened[n]
        /\ x.session \in invited[n] \cup invited[x.peer] /\ x.peer \in Node
      BY SessionType DEF Departures, Settled
  <2>2. Known(n, x.session)
      BY DEF Known
  <2>3. \A z \in negotiations'[n] : ~(z.session = x.session /\ z.peer = x.peer)
      BY <2>1, <2>2 DEF Quietly, OpenIsSettled
  <2>4. With(n, x.session, x.peer)' = {}
      BY <2>3 DEF With
  <2>5. QED
      BY <2>1, <2>4 DEF Quietly, Grows
<1>3. OnePartner'
  <2> SUFFICES ASSUME NEW c \in Channel, NEW y \in sessions[c[1]],
                      y.session \in invited'[c[1]], y.peer # c[2]
               PROVE  /\ ~Carries(Way(c)', "document", y.session)
                      /\ \A x \in sessions[c[2]] : x.session = y.session => x.peer # c[1]
      BY DEF OnePartner, Quietly
  <2>1. c[1] \in Node /\ y.session \in Session
      BY SessionType DEF Channel
  <2>2. y.session \in opened[c[1]]
      BY <2>1 DEF Departures, Settled
  <2>3. y.session \in invited[c[1]]
      BY <2>1, <2>2, OpenedNotFresh DEF Quietly, Grows
  <2>4. /\ ~Carries(Way(c), "document", y.session)
        /\ \A x \in sessions[c[2]] : x.session = y.session => x.peer # c[1]
      BY <2>3 DEF Departures, OnePartner
  <2>5. QED
      BY <2>1, <2>4 DEF Quietly, Thins
<1>4. Followed'
  <2> SUFFICES ASSUME NEW c \in Channel, NEW s \in Session, ~Known(c[1], s)
               PROVE  LeftBehind(Way(c)', s)
      BY DEF Followed, Quietly, Known
  <2>1. LeftBehind(Way(c), s)
      BY DEF Departures, Followed
  <2>2. QED
      BY <2>1 DEF Quietly, Thins
<1>5. DepartureAnnounced'
  <2> SUFFICES ASSUME NEW c \in Channel, NEW x \in sessions[c[2]], x.peer = c[1],
                      x.session \in opened[c[1]], ~Known(c[1], x.session)
               PROVE  x.session \in told'[c[2]] \/ Carries(Way(c)', "left", x.session)
      BY DEF DepartureAnnounced, Quietly, Known, Way
  <2>1. c[2] \in Node
      BY DEF Channel
  <2>2. x.session \in told[c[2]] \/ Carries(Way(c), "left", x.session)
      BY DEF Departures, DepartureAnnounced, Way
  <2>3. QED
      BY <2>1, <2>2 DEF Quietly, Grows, NewsKept
<1>6. QED
    BY <1>2, <1>3, <1>4, <1>5 DEF Departures

LEMMA KeepsNews ==
    ASSUME Inv, \A c \in Channel : KeepsLeft(Way(c), Way(c)')
    PROVE  NewsKept
<1> SUFFICES ASSUME NEW c \in Channel, NEW x \in sessions[c[2]], x.peer = c[1],
                    Carries(Way(c), "left", x.session)
             PROVE  Carries(Way(c)', "left", x.session)
    BY DEF NewsKept
<1>1. x.session \in Session
    BY SessionType DEF Channel
<1>2. QED
    BY <1>1 DEF KeepsLeft

\* What is taken in silence, other than the news of a departure.
LEMMA SilentKeepsNews ==
    ASSUME Inv, NEW m, NEW n, NEW kind, NEW s, Arrives(m, n, kind, s), Silent(m, n),
           kind # "left"
    PROVE  NewsKept /\ \A c \in Channel : Thins(Way(c), Way(c)')
<1>1. \A c \in Channel : Thins(Way(c), Way(c)') /\ KeepsLeft(Way(c), Way(c)')
    BY SilentThins DEF KeepsLeft
<1>2. QED
    BY <1>1, KeepsNews

LEMMA FewerTalks ==
    ASSUME \A n \in Node : negotiations'[n] \subseteq negotiations[n]
    PROVE  OpenIsSettled
    BY DEF OpenIsSettled, With

LEMMA StartNewSessionQuietly ==
    ASSUME Inv, Departures, NEW n \in Node, NEW s \in Session, StartNewSession(n, s)
    PROVE  Quietly
<1> DEFINE p == prompting[n]
           msg == Msg("invitation", s)
<1>1. NewsKept /\ \A c \in Channel : Thins(Way(c), Way(c)')
  <2>1. msg \in Message /\ msg.kind # "document" /\ Send(wire, n, Only(p, msg))
      BY MsgType DEF StartNewSession
  <2>2. QED
      BY <2>1, OnlyThins, KeepsNews
<1>2. \A k \in Node : ~Known(k, s)
    BY OpenedNotFresh DEF Known, StartNewSession, Departures, Settled
<1>3. OpenIsSettled
  <2> SUFFICES ASSUME NEW k \in Node, NEW x \in negotiations'[k], Known(k, x.session)
               PROVE  x \in With(k, x.session, x.peer)
      BY DEF OpenIsSettled
  <2>1. x \in negotiations[k]
      BY <1>2 DEF Inv, TypeState, StartNewSession
  <2>2. QED
      BY <2>1 DEF With
<1>4. Grows
    BY DEF Grows, StartNewSession, Inv, TypeState
<1>5. QED
    BY <1>1, <1>3, <1>4 DEF Quietly, StartNewSession

LEMMA ReceiveInvitationQuietly ==
    ASSUME Inv, Departures, NEW n \in Node, NEW m \in Node, NEW s \in Session,
           ReceiveInvitation(m, n, s)
    PROVE  Quietly
<1>1. NewsKept /\ \A c \in Channel : Thins(Way(c), Way(c)')
    BY SilentKeepsNews DEF ReceiveInvitation
<1>2. OpenIsSettled
  <2> SUFFICES ASSUME NEW k \in Node, NEW x \in negotiations'[k], Known(k, x.session)
               PROVE  x \in With(k, x.session, x.peer)
      BY DEF OpenIsSettled
  <2> DEFINE new == [session |-> s, peer |-> m, state |-> "NotStarted"]
  <2>1. CASE negotiations' = negotiations
      BY <2>1 DEF With
  <2>2. CASE negotiations' = [negotiations EXCEPT ![n] = @ \cup {new}] /\ ~Known(n, s)
    <3>1. x \in negotiations[k]
        BY <2>2 DEF Inv, TypeState
    <3>2. QED
        BY <3>1 DEF With
  <2>3. QED
      BY <2>1, <2>2 DEF ReceiveInvitation
<1>3. Grows
    BY DEF Grows, ReceiveInvitation, past
<1>4. QED
    BY <1>1, <1>2, <1>3 DEF Quietly, ReceiveInvitation, past

LEMMA AnswerQuietly ==
    ASSUME Inv, Departures, NEW n \in Node, NEW accepted \in BOOLEAN, Answer(n, accepted)
    PROVE  Quietly
<1> DEFINE a == Head(asking[n])
           old == [session |-> a.session, peer |-> a.peer, state |-> "NotStarted"]
           msg == Msg(IF accepted THEN "accept" ELSE "abort", a.session)
<1>1. a.session \in Session
  <2>1. a \in Handle
      BY DEF Inv, TypeState, Answer
  <2>2. QED
      BY <2>1 DEF Handle
<1>2. NewsKept /\ \A c \in Channel : Thins(Way(c), Way(c)')
  <2>1. msg \in Message /\ msg.kind # "document" /\ Send(wire, n, Only(a.peer, msg))
      BY <1>1, MsgType DEF Answer
  <2>2. QED
      BY <2>1, OnlyThins, KeepsNews
<1>3. OpenIsSettled
  <2> SUFFICES ASSUME NEW k \in Node, NEW x \in negotiations'[k]
               PROVE  With(k, x.session, x.peer) # {}
      BY DEF OpenIsSettled
  <2>1. \/ x \in negotiations[k]
        \/ k = n /\ old \in negotiations[n] /\ x.session = old.session /\ x.peer = old.peer
      BY DEF Answer, Inv, TypeState
  <2>2. QED
      BY <2>1 DEF With
<1>4. Grows
    BY DEF Grows, Answer, past
<1>5. QED
    BY <1>2, <1>3, <1>4 DEF Quietly, Answer, past

LEMMA AnswerDeletedQuietly ==
    ASSUME Inv, Departures, NEW n \in Node, NEW accepted \in BOOLEAN, AnswerDeleted(n, accepted)
    PROVE  Quietly
<1> DEFINE a == Head(asking[n])
           msg == Msg(IF accepted THEN "accept" ELSE "abort", a.session)
<1>1. a.session \in Session
  <2>1. a \in Handle
      BY DEF Inv, TypeState, AnswerDeleted
  <2>2. QED
      BY <2>1 DEF Handle
<1>2. NewsKept /\ \A c \in Channel : Thins(Way(c), Way(c)')
  <2>1. CASE Send(wire, n, Only(a.peer, msg))
    <3>1. msg \in Message /\ msg.kind # "document"
        BY <1>1, MsgType
    <3>2. QED
        BY <2>1, <3>1, OnlyThins, KeepsNews
  <2>2. CASE UNCHANGED net
      BY <2>2, NothingSent, KeepsNews DEF net
  <2>3. QED
      BY <2>1, <2>2 DEF AnswerDeleted
<1>3. OpenIsSettled
    BY FewerTalks DEF AnswerDeleted
<1>4. Grows
    BY DEF Grows, AnswerDeleted, past
<1>5. QED
    BY <1>2, <1>3, <1>4 DEF Quietly, AnswerDeleted, past

LEMMA ReceiveAbortQuietly ==
    ASSUME Inv, Departures, NEW n \in Node, NEW m \in Node, NEW s \in Session,
           ReceiveAbort(m, n, s)
    PROVE  Quietly
<1>1. NewsKept /\ \A c \in Channel : Thins(Way(c), Way(c)')
    BY SilentKeepsNews DEF ReceiveAbort
<1>2. OpenIsSettled
    BY FewerTalks DEF ReceiveAbort, Inv, TypeState
<1>3. Grows
    BY DEF Grows, ReceiveAbort
<1>4. QED
    BY <1>1, <1>2, <1>3 DEF Quietly, ReceiveAbort

\* The news of a departure is shown by who has the session with its sender.
LEMMA ReceiveLeftQuietly ==
    ASSUME Inv, Departures, NEW n \in Node, NEW m \in Node, NEW s \in Session,
           ReceiveLeft(m, n, s)
    PROVE  Quietly
<1>1. \A c \in Channel :
          /\ Thins(Way(c), Way(c)')
          /\ \A t \in Session : Carries(Way(c), "left", t) =>
                 Carries(Way(c)', "left", t) \/ (t = s /\ c = <<m, n>>)
    BY SilentThins DEF ReceiveLeft
<1>2. NewsKept
  <2> SUFFICES ASSUME NEW x \in sessions[n], x.peer = m, x.session = s
               PROVE  s \in told'[n]
    <3>1. \A c \in Channel : \A x \in sessions[c[2]] : x.session \in Session
        BY SessionType DEF Channel
    <3>2. QED
        BY <1>1, <3>1 DEF NewsKept
  <2>1. With(n, s, m) = {} /\ Known(n, s)
      BY DEF Departures, Settled, Known
  <2>2. QED
      BY <2>1 DEF ReceiveLeft, Inv, TypeState
<1>3. OpenIsSettled
    BY FewerTalks DEF ReceiveLeft
<1>4. Grows
    BY DEF Grows, ReceiveLeft, past, Inv, TypeState
<1>5. QED
    BY <1>1, <1>2, <1>3, <1>4 DEF Quietly, ReceiveLeft, past

LEMMA ReceiveEditsQuietly ==
    ASSUME Inv, Departures, NEW n \in Node, NEW m \in Node, NEW s \in Session,
           ReceiveEdits(m, n, s)
    PROVE  Quietly
<1>1. NewsKept /\ \A c \in Channel : Thins(Way(c), Way(c)')
    BY SilentKeepsNews DEF ReceiveEdits
<1>2. OpenIsSettled /\ Grows
    BY FewerTalks DEF Grows, ReceiveEdits, state, past
<1>3. QED
    BY <1>1, <1>2 DEF Quietly, ReceiveEdits, state, past

LEMMA SendEditsQuietly ==
    ASSUME Inv, Departures, NEW n \in Node, NEW x \in sessions[n], SendEdits(n, x)
    PROVE  Quietly
<1> DEFINE k == sent'[n][x.session]
           msg == [kind |-> "edit", session |-> x.session, n |-> k]
<1>1. NewsKept /\ \A c \in Channel : Thins(Way(c), Way(c)')
  <2>1. x.session \in Session
      BY SessionType
  <2>2. k \in 0 .. MaxEdits
      BY <2>1, MaxEditsAssumption DEF Inv, TypeState, SendEdits
  <2>3. msg \in Message /\ msg.kind # "document"
      BY <2>1, <2>2 DEF Message
  <2>4. Send(wire, n, Only(x.peer, msg))
      BY DEF SendEdits
  <2>5. QED
      BY <2>3, <2>4, OnlyThins, KeepsNews
<1>2. OpenIsSettled /\ Grows
    BY FewerTalks DEF Grows, SendEdits, state, past
<1>3. QED
    BY <1>1, <1>2 DEF Quietly, SendEdits, state, past

LEMMA NegotiationTimeoutQuietly ==
    ASSUME Inv, Departures, NEW n \in Node, NegotiationTimeout(n)
    PROVE  Quietly
<1>1. NewsKept /\ \A c \in Channel : Thins(Way(c), Way(c)')
  <2>1. CASE UNCHANGED net
      BY <2>1, NothingSent, KeepsNews DEF net
  <2>2. CASE ~UNCHANGED net
    <3>1. PICK out \in [Node -> UNION {SetToSeqs(Aborts(n, p)) : p \in Node}] :
              /\ \A p \in Node : out[p] \in SetToSeqs(Aborts(n, p))
              /\ Send(wire, n, out)
        BY <2>2 DEF NegotiationTimeout
    <3>2. \A p \in Node : out[p] \in Seq(Message) /\ NoDocument(out[p])
        BY <3>1, AbortsType DEF NoDocument, Carries
    <3>3. out \in [Node -> Seq(Message)]
        BY <3>1, <3>2
    <3>4. QED
        BY <3>1, <3>2, <3>3, SendThins, KeepsNews DEF Inv
  <2>3. QED
      BY <2>1, <2>2
<1>2. OpenIsSettled
    BY FewerTalks DEF NegotiationTimeout, Inv, TypeState
<1>3. Grows
    BY DEF Grows, NegotiationTimeout
<1>4. QED
    BY <1>1, <1>2, <1>3 DEF Quietly, NegotiationTimeout

\* A message that arrives outside the state that waits for it.
LEMMA UnmovedQuietly ==
    ASSUME Inv, NEW m, NEW n, NEW kind, NEW s, Arrives(m, n, kind, s), Silent(m, n),
           kind # "left", UNCHANGED <<sessions, negotiations, told, invited, opened>>
    PROVE  Quietly
<1>1. NewsKept /\ \A c \in Channel : Thins(Way(c), Way(c)')
    BY SilentKeepsNews
<1>2. OpenIsSettled /\ Grows
    BY FewerTalks DEF Grows
<1>3. QED
    BY <1>1, <1>2 DEF Quietly

LEMMA SilentlyQuietly ==
    ASSUME Inv, UNCHANGED <<sessions, negotiations, told, invited, opened, net>>
    PROVE  Quietly
<1>1. NewsKept /\ \A c \in Channel : Thins(Way(c), Way(c)')
    BY NothingSent, KeepsNews DEF net
<1>2. OpenIsSettled /\ Grows
    BY FewerTalks DEF Grows
<1>3. QED
    BY <1>1, <1>2 DEF Quietly

\* A step that keeps the open sessions settled but for those in S.
LEMMA SettledBut ==
    ASSUME Settled, NEW n \in Node, NEW x \in sessions[n],
           UNCHANGED invited, opened[n] \subseteq opened'[n],
           negotiations'[n] \subseteq negotiations[n]
    PROVE  /\ With(n, x.session, x.peer)' = {} /\ x.session \in opened'[n]
           /\ x.session \in invited'[n] \cup invited'[x.peer]
<1>1. With(n, x.session, x.peer)' \subseteq With(n, x.session, x.peer)
    BY DEF With
<1>2. QED
    BY <1>1 DEF Settled

\* The invited client opens the session, and the inviter has it still or has
\* sent, behind the document, the news that it has left.
LEMMA ReceiveDocumentDepartures ==
    ASSUME Inv, Departures, NEW n \in Node, NEW m \in Node, NEW s \in Session,
           ReceiveDocument(m, n, s), InState(n, s, m, "InvitationAccepted")
    PROVE  Departures'
<1> DEFINE h == [session |-> s, peer |-> m]
<1>1. /\ s \in invited[m] \cap opened[m] /\ m # n /\ <<m, n>> \in Channel
      /\ Arrives(m, n, "document", s) /\ Silent(m, n)
    BY Head1 DEF Inv, ReceiveDocument, Arrives, Channel
<1>2. /\ sessions' = [sessions EXCEPT ![n] = @ \cup {h}]
      /\ opened'   = [opened EXCEPT ![n] = @ \cup {s}]
      /\ negotiations' = [negotiations EXCEPT ![n] = @ \ With(n, s, m)]
      /\ UNCHANGED <<invited, told>>
    BY DEF ReceiveDocument
<1>3. /\ \A k \in Node : sessions[k] \subseteq sessions'[k]
      /\ \A k \in Node : \A x \in sessions'[k] : x \in sessions[k] \/ (k = n /\ x = h)
      /\ \A k \in Node : \A t \in opened'[k] : t \in opened[k] \/ (k = n /\ t = s)
      /\ \A k \in Node : opened[k] \subseteq opened'[k]
      /\ \A k \in Node : negotiations'[k] \subseteq negotiations[k]
      /\ h \in sessions'[n] /\ s \in opened'[n]
      /\ \A c \in Channel : c[1] \in Node /\ c[2] \in Node
    BY <1>2 DEF Inv, TypeState, Channel
<1> HIDE DEF h
<1>4. h.session = s /\ h.peer = m
    BY DEF h
<1>5. \A c \in Channel :
          /\ Thins(Way(c), Way(c)')
          /\ \A t \in Session : Carries(Way(c), "left", t) => Carries(Way(c)', "left", t)
    BY <1>1, SilentThins
<1>6. /\ Carries(Way(<<m, n>>), "document", s)
      /\ LeftBehind(Way(<<m, n>>), s) => Carries(Way(<<m, n>>)', "left", s)
  <2>1. /\ wire[<<m, n>>] \in Seq(Message) /\ queued[<<m, n>>] \in Seq(Message)
        /\ wire[<<m, n>>] # <<>>
        /\ Head(wire[<<m, n>>]).kind = "document" /\ Head(wire[<<m, n>>]).session = s
      BY <1>1 DEF Inv, Wires, Arrives
  <2>2. Way(<<m, n>>)' = Tail(wire[<<m, n>>]) \o queued[<<m, n>>]
      BY <1>1 DEF Way, Silent, Taken, Inv, Wires
  <2>3. QED
      BY <2>1, <2>2, TakenCarries DEF Way
<1>7. Settled'
  <2> SUFFICES ASSUME NEW k \in Node, NEW x \in sessions'[k]
               PROVE  /\ With(k, x.session, x.peer)' = {} /\ x.session \in opened'[k]
                      /\ x.session \in invited'[k] \cup invited'[x.peer]
      BY DEF Settled
  <2>1. CASE x \in sessions[k]
      BY <1>2, <1>3, <2>1, SettledBut DEF Departures
  <2>2. CASE k = n /\ x = h
    <3>1. With(n, s, m)' = {}
        BY <1>2 DEF With, Inv, TypeState
    <3>2. QED
        BY <1>1, <1>2, <1>3, <1>4, <2>2, <3>1
  <2>3. QED
      BY <1>3, <2>1, <2>2
<1>8. OnePartner'
  <2> SUFFICES ASSUME NEW c \in Channel, NEW y \in sessions'[c[1]],
                      y.session \in invited[c[1]], y.peer # c[2]
               PROVE  /\ ~Carries(Way(c)', "document", y.session)
                      /\ \A x \in sessions'[c[2]] : x.session = y.session => x.peer # c[1]
      BY <1>2 DEF OnePartner
  <2>1. y \in sessions[c[1]]
      BY <1>1, <1>3, <1>4 DEF Inv, Lives, OneInviter
  <2>2. /\ ~Carries(Way(c), "document", y.session)
        /\ \A x \in sessions[c[2]] : x.session = y.session => x.peer # c[1]
      BY <2>1 DEF Departures, OnePartner
  <2>3. y.session \in Session
      BY <1>3, <2>1, SessionType
  <2>4. ASSUME NEW x \in sessions'[c[2]], x.session = y.session, x.peer = c[1]
        PROVE  FALSE
    <3>1. c[2] = n /\ x = h
        BY <1>3, <2>2, <2>4
    <3>2. c = <<m, n>> /\ y.session = s
        BY <1>4, <2>4, <3>1 DEF Channel
    <3>3. QED
        BY <1>6, <2>2, <3>2
  <2>5. QED
      BY <1>5, <2>2, <2>3, <2>4 DEF Thins
<1>9. Followed'
  <2> SUFFICES ASSUME NEW c \in Channel, NEW t \in Session, ~Known(c[1], t)'
               PROVE  LeftBehind(Way(c)', t)
      BY DEF Followed
  <2>1. ~Known(c[1], t)
      BY <1>3 DEF Known
  <2>2. QED
      BY <1>5, <2>1 DEF Departures, Followed, Thins
<1>10. DepartureAnnounced'
  <2> SUFFICES ASSUME NEW c \in Channel, NEW x \in sessions'[c[2]], x.peer = c[1],
                      x.session \in opened'[c[1]], ~Known(c[1], x.session)'
               PROVE  x.session \in told[c[2]] \/ Carries(Way(c)', "left", x.session)
      BY <1>2 DEF DepartureAnnounced, Way
  <2>1. ~Known(c[1], x.session)
      BY <1>3 DEF Known
  <2>2. CASE x \in sessions[c[2]]
    <3>1. Known(n, s)'
        BY <1>3, <1>4 DEF Known
    <3>2. x.session \in opened[c[1]]
        BY <1>3, <3>1
    <3>3. x.session \in told[c[2]] \/ Carries(Way(c), "left", x.session)
        BY <2>1, <2>2, <3>2 DEF Departures, DepartureAnnounced, Way
    <3>4. x.session \in Session
        BY <1>3, <2>2, SessionType
    <3>5. QED
        BY <1>5, <3>3, <3>4
  <2>3. CASE c[2] = n /\ x = h
    <3>1. c = <<m, n>> /\ x.session = s
        BY <1>4, <2>3 DEF Channel
    <3>2. LeftBehind(Way(<<m, n>>), s)
        BY <1>1, <2>1, <3>1 DEF Departures, Followed
    <3>3. QED
        BY <1>6, <3>1, <3>2
  <2>4. QED
      BY <1>3, <2>2, <2>3
<1>11. QED
    BY <1>7, <1>8, <1>9, <1>10 DEF Departures

\* The inviter opens the session: nobody has had it or has had its document.
LEMMA ReceiveAcceptDepartures ==
    ASSUME Inv, Departures, NEW n \in Node, NEW m \in Node, NEW s \in Session,
           ReceiveAccept(m, n, s), InState(n, s, m, "InvitationSent")
    PROVE  Departures'
<1> DEFINE h == [session |-> s, peer |-> m]
           msg == Msg("document", s)
<1>1. /\ sessions' = [sessions EXCEPT ![n] = @ \cup {h}]
      /\ opened'   = [opened EXCEPT ![n] = @ \cup {s}]
      /\ negotiations' = [negotiations EXCEPT ![n] = @ \ With(n, s, m)]
      /\ Arrives(m, n, "accept", s) /\ Send(Taken(m, n), n, Only(m, msg))
      /\ UNCHANGED <<invited, told>>
    BY DEF ReceiveAccept
<1>2. m # n /\ <<n, m>> \in Channel /\ <<m, n>> \in Channel
    BY <1>1 DEF Arrives, Channel
<1>3. /\ \A k \in Node : sessions[k] \subseteq sessions'[k]
      /\ \A k \in Node : \A x \in sessions'[k] : x \in sessions[k] \/ (k = n /\ x = h)
      /\ \A k \in Node : \A t \in opened'[k] : t \in opened[k] \/ (k = n /\ t = s)
      /\ \A k \in Node : opened[k] \subseteq opened'[k]
      /\ \A k \in Node : negotiations'[k] \subseteq negotiations[k]
      /\ h \in sessions'[n] /\ s \in opened'[n]
      /\ \A c \in Channel : c[1] \in Node /\ c[2] \in Node
    BY <1>1 DEF Inv, TypeState, Channel
<1>4. msg \in Message /\ msg.kind = "document" /\ msg.session = s
    BY MsgType
<1> HIDE DEF h, msg
<1>5. h.session = s /\ h.peer = m
    BY DEF h
<1>6. s \in invited[n] /\ s \notin opened[n]
    BY DEF Inv, Lives, PendingInvitation, InState
<1>7. \A k \in Node : s \notin opened[k]
    BY <1>6 DEF Inv, Lives, OpenedByInviter, OneInviter
<1>8. \A k \in Node : \A x \in sessions[k] : x.session # s
    BY <1>7 DEF Departures, Settled
<1>9. ASSUME NEW c \in Channel
      PROVE  /\ ~Carries(Way(c), "document", s)
             /\ \A t \in Session : Carries(Way(c), "left", t) => Carries(Way(c)', "left", t)
             /\ \A t \in Session : t # s \/ c # <<n, m>> =>
                    /\ Carries(Way(c)', "document", t) => Carries(Way(c), "document", t)
                    /\ LeftBehind(Way(c), t) => LeftBehind(Way(c)', t)
  <2> DEFINE r == Taken(m, n)[c] \o queued[c]
  <2>1. /\ wire[c] \in Seq(Message) /\ queued[c] \in Seq(Message)
        /\ Documents(wire[c], Begun[c[1]]) /\ Documents(queued[c], Begun[c[1]])
        /\ s \notin Begun[c[1]]
      BY <1>3, <1>7 DEF Inv, Wires, Begun
  <2>2. ~Carries(Way(c), "document", s)
    <3>1. Documents(Way(c), Begun[c[1]])
        BY <2>1, DocumentsConcat DEF Way
    <3>2. QED
        BY <2>1, <3>1 DEF Documents, Carries
  <2>3. /\ Thins(Way(c), r)
        /\ \A t \in Session : Carries(Way(c), "left", t) => Carries(r, "left", t)
      BY <1>1, TakenThins DEF Inv
  <2>4. Taken(m, n) \in [Channel -> Seq(Message)]
    <3>1. wire \in [Channel -> Seq(Message)] /\ wire[<<m, n>>] # <<>>
        BY <1>1 DEF Inv, Wires, Arrives
    <3>2. QED
        BY <1>2, <3>1, TakenWay
  <2>5. Only(m, msg) \in [Node -> Seq(Message)]
      BY <1>4 DEF Only
  <2>6. Way(c)' = IF c[1] = n THEN r \o Only(m, msg)[c[2]] ELSE r
    <3>1. queued \in [Channel -> Seq(Message)]
        BY DEF Inv, Wires
    <3>2. QED
        BY <1>1, <2>4, <2>5, <3>1, SendWay
  <2>7. r \in Seq(Message)
    <3>1. Taken(m, n)[c] \in Seq(Message)
        BY <2>4
    <3>2. QED
        BY <2>1, <3>1, ConcatProperties
  <2>8. Only(m, msg)[c[2]] = IF c[2] = m THEN <<msg>> ELSE <<>>
      BY <1>3 DEF Only
  <2> HIDE DEF r
  <2>9. CASE c = <<n, m>>
    <3>1. Way(c)' = r \o <<msg>> /\ <<msg>> \in Seq(Message)
        BY <1>4, <2>6, <2>8, <2>9
    <3>2. \A t \in Session : t # s => ~Carries(<<msg>>, "document", t)
        BY <1>4, OneCarried
    <3>3. ASSUME NEW t \in Session
          PROVE  /\ Carries(Way(c)', "left", t) <=>
                        Carries(r, "left", t) \/ Carries(<<msg>>, "left", t)
                 /\ Carries(Way(c)', "document", t) <=>
                        Carries(r, "document", t) \/ Carries(<<msg>>, "document", t)
                 /\ t # s /\ LeftBehind(r, t) => LeftBehind(Way(c)', t)
      <4> DEFINE q == r \o <<msg>>
      <4>1. /\ Carries(q, "left", t) <=> Carries(r, "left", t) \/ Carries(<<msg>>, "left", t)
            /\ Carries(q, "document", t) <=>
                   Carries(r, "document", t) \/ Carries(<<msg>>, "document", t)
            /\ t # s /\ LeftBehind(r, t) => LeftBehind(q, t)
          BY <2>7, <3>1, <3>2, JoinedCarries
      <4>2. QED
          BY <3>1, <4>1
    <3>4. QED
        BY <2>2, <2>3, <2>9, <3>2, <3>3 DEF Thins
  <2>10. CASE c # <<n, m>>
    <3>1. Way(c)' = r
      <4>1. ~(c[1] = n /\ c[2] = m)
          BY <2>10 DEF Channel
      <4>2. r \o <<>> = r
          BY <2>7, ConcatEmptySeq
      <4>3. QED
          BY <2>6, <2>8, <4>1, <4>2
    <3>2. QED
        BY <2>2, <2>3, <3>1 DEF Thins
  <2>11. QED
      BY <2>9, <2>10
<1>10. Settled'
  <2> SUFFICES ASSUME NEW k \in Node, NEW x \in sessions'[k]
               PROVE  /\ With(k, x.session, x.peer)' = {} /\ x.session \in opened'[k]
                      /\ x.session \in invited'[k] \cup invited'[x.peer]
      BY DEF Settled
  <2>1. CASE x \in sessions[k]
      BY <1>1, <1>3, <2>1, SettledBut DEF Departures
  <2>2. CASE k = n /\ x = h
    <3>1. With(n, s, m)' = {}
        BY <1>1 DEF With, Inv, TypeState
    <3>2. QED
        BY <1>1, <1>3, <1>5, <1>6, <2>2, <3>1
  <2>3. QED
      BY <1>3, <2>1, <2>2
<1>11. OnePartner'
  <2> SUFFICES ASSUME NEW c \in Channel, NEW y \in sessions'[c[1]],
                      y.session \in invited[c[1]], y.peer # c[2]
               PROVE  /\ ~Carries(Way(c)', "document", y.session)
                      /\ \A x \in sessions'[c[2]] : x.session = y.session => x.peer # c[1]
      BY <1>1 DEF OnePartner
  <2>1. CASE y \in sessions[c[1]]
    <3>1. /\ ~Carries(Way(c), "document", y.session)
          /\ \A x \in sessions[c[2]] : x.session = y.session => x.peer # c[1]
        BY <2>1 DEF Departures, OnePartner
    <3>2. y.session \in Session /\ y.session # s
        BY <1>3, <1>8, <2>1, SessionType
    <3>3. QED
        BY <1>3, <1>5, <1>9, <3>1, <3>2
  <2>2. CASE c[1] = n /\ y = h
    <3>1. c # <<n, m>> /\ c[2] # n /\ y.session = s
        BY <1>5, <2>2 DEF Channel
    <3>2. ~Carries(Way(c)', "document", s)
        BY <1>9, <3>1
    <3>3. QED
        BY <1>3, <1>8, <3>1, <3>2
  <2>3. QED
      BY <1>3, <2>1, <2>2
<1>12. Followed'
  <2> SUFFICES ASSUME NEW c \in Channel, NEW t \in Session, ~Known(c[1], t)'
               PROVE  LeftBehind(Way(c)', t)
      BY DEF Followed
  <2>1. ~Known(c[1], t)
      BY <1>3 DEF Known
  <2>2. t # s \/ c # <<n, m>>
      BY <1>3, <1>5 DEF Known
  <2>3. QED
      BY <1>9, <2>1, <2>2 DEF Departures, Followed
<1>13. DepartureAnnounced'
  <2> SUFFICES ASSUME NEW c \in Channel, NEW x \in sessions'[c[2]], x.peer = c[1],
                      x.session \in opened'[c[1]], ~Known(c[1], x.session)'
               PROVE  x.session \in told[c[2]] \/ Carries(Way(c)', "left", x.session)
      BY <1>1 DEF DepartureAnnounced, Way
  <2>1. ~Known(c[1], x.session)
      BY <1>3 DEF Known
  <2>2. x \in sessions[c[2]]
    <3>1. ASSUME c[2] = n, x = h PROVE FALSE
        BY <1>2, <1>3, <1>5, <1>7, <3>1
    <3>2. QED
        BY <1>3, <3>1
  <2>3. x.session # s /\ x.session \in Session
      BY <1>3, <1>8, <2>2, SessionType
  <2>4. x.session \in told[c[2]] \/ Carries(Way(c), "left", x.session)
      BY <1>3, <2>1, <2>2, <2>3 DEF Departures, DepartureAnnounced, Way
  <2>5. QED
      BY <1>9, <2>3, <2>4
<1>14. QED
    BY <1>10, <1>11, <1>12, <1>13 DEF Departures

\* A client leaves a session: its partner, if it has the session or will open it
\* with the document that is on its way, will hear it.
LEMMA EndSessionDepartures ==
    ASSUME Inv, Departures, NEW n \in Node, NEW x \in sessions[n], EndSession(n, x)
    PROVE  Departures'
<1> DEFINE msg == Msg("left", x.session)
           p   == x.peer
           s   == x.session
<1>1. /\ sessions' = [sessions EXCEPT ![n] = @ \ {x}]
      /\ negotiations' = [negotiations EXCEPT ![n] = @ \ With(n, s, p)]
      /\ UNCHANGED <<invited, told, opened>>
    BY Zenon DEF EndSession, past
<1>2. /\ With(n, s, p) = {} /\ s \in opened[n] /\ s \in invited[n] \cup invited[p]
      /\ s \in Session /\ p \in Node
    BY SessionType DEF Departures, Settled
<1>3. msg \in Message /\ msg.kind = "left" /\ msg.session = s
    BY <1>2, MsgType
<1>4. Send(wire, n, Only(p, msg))
  <2>1. (IF With(n, s, p) = {} THEN <<>> ELSE <<Msg("abort", s)>>) \o <<msg>> = <<msg>>
      BY <1>2, <1>3, ConcatEmptySeq
  <2>2. QED
      BY <2>1 DEF EndSession, Only
<1>5. \A c \in Channel : Thins(Way(c), Way(c)') /\ KeepsLeft(Way(c), Way(c)')
    BY <1>3, <1>4, OnlyThins
<1> HIDE DEF msg
<1>6. ASSUME NEW c \in Channel, c[1] = n, c[2] = p
      PROVE  Carries(Way(c)', "left", s) /\ LeftBehind(Way(c)', s)
  <2>1. Only(p, msg) \in [Node -> Seq(Message)] /\ Only(p, msg)[p] = <<msg>>
      BY <1>2, <1>3 DEF Only
  <2>2. Way(c)' = Way(c) \o <<msg>> /\ Way(c) \in Seq(Message) /\ <<msg>> \in Seq(Message)
    <3>1. /\ wire \in [Channel -> Seq(Message)] /\ queued \in [Channel -> Seq(Message)]
          /\ wire[c] \in Seq(Message) /\ queued[c] \in Seq(Message)
        BY DEF Inv, Wires
    <3>2. Way(c)' = (wire[c] \o queued[c]) \o Only(p, msg)[c[2]]
        BY <1>4, <1>6, <2>1, <3>1, SendWay
    <3>3. Way(c) = wire[c] \o queued[c] /\ Way(c) \in Seq(Message)
        BY <3>1, ConcatProperties DEF Way
    <3>4. Only(p, msg)[c[2]] = <<msg>> /\ <<msg>> \in Seq(Message)
        BY <1>3, <1>6, <2>1
    <3>5. QED
        BY <3>2, <3>3, <3>4, Zenon
  <2>3. Carries(<<msg>>, "left", s) /\ ~Carries(<<msg>>, "document", s)
      BY <1>3, OneCarried
  <2> DEFINE q == Way(c) \o <<msg>>
  <2>4. Carries(q, "left", s) /\ LeftBehind(q, s)
      BY <2>2, <2>3, JoinedCarries
  <2>5. QED
      BY <2>2, <2>4
<1>7. /\ \A k \in Node : sessions'[k] \subseteq sessions[k]
      /\ \A k \in Node : \A y \in sessions[k] : y \in sessions'[k] \/ (k = n /\ y = x)
      /\ \A k \in Node : negotiations'[k] \subseteq negotiations[k]
      /\ \A c \in Channel : c[1] \in Node /\ c[2] \in Node /\ c[1] # c[2]
    BY <1>1 DEF Inv, TypeState, Channel
<1>8. \A k \in Node : \A t : Known(k, t) /\ ~Known(k, t)' => k = n /\ t = s
    BY <1>7 DEF Known
<1>9. Settled'
  <2> SUFFICES ASSUME NEW k \in Node, NEW y \in sessions'[k]
               PROVE  /\ With(k, y.session, y.peer)' = {} /\ y.session \in opened'[k]
                      /\ y.session \in invited'[k] \cup invited'[y.peer]
      BY DEF Settled
  <2>1. QED
      BY <1>1, <1>7, SettledBut DEF Departures
<1>10. OnePartner'
  <2> SUFFICES ASSUME NEW c \in Channel, NEW y \in sessions'[c[1]],
                      y.session \in invited[c[1]], y.peer # c[2]
               PROVE  /\ ~Carries(Way(c)', "document", y.session)
                      /\ \A z \in sessions'[c[2]] : z.session = y.session => z.peer # c[1]
      BY <1>1 DEF OnePartner
  <2>1. y \in sessions[c[1]] /\ y.session \in Session
      BY <1>7, SessionType
  <2>2. /\ ~Carries(Way(c), "document", y.session)
        /\ \A z \in sessions[c[2]] : z.session = y.session => z.peer # c[1]
      BY <2>1 DEF Departures, OnePartner
  <2>3. QED
      BY <1>5, <1>7, <2>1, <2>2 DEF Thins
<1>11. Followed'
  <2> SUFFICES ASSUME NEW c \in Channel, NEW t \in Session, ~Known(c[1], t)'
               PROVE  LeftBehind(Way(c)', t)
      BY DEF Followed
  <2>1. CASE LeftBehind(Way(c), t)
      BY <1>5, <2>1 DEF Thins
  <2>2. CASE ~LeftBehind(Way(c), t)
    <3>1. c[1] = n /\ t = s
        BY <1>7, <1>8, <2>2 DEF Departures, Followed
    <3>2. Carries(Way(c), "document", s)
        BY <2>2, <3>1 DEF LeftBehind, Carries
    <3>3. s \in invited[n]
      <4>1. /\ wire[c] \in Seq(Message) /\ queued[c] \in Seq(Message)
            /\ Documents(wire[c], Begun[c[1]]) /\ Documents(queued[c], Begun[c[1]])
          BY DEF Inv, Wires
      <4>2. Documents(Way(c), Begun[c[1]])
          BY <4>1, DocumentsConcat DEF Way
      <4>3. QED
          BY <3>1, <3>2, <4>2 DEF Documents, Carries, Begun
    <3>4. p = c[2]
        BY <3>1, <3>2, <3>3 DEF Departures, OnePartner
    <3>5. QED
        BY <1>6, <3>1, <3>4
  <2>3. QED
      BY <2>1, <2>2
<1>12. DepartureAnnounced'
  <2> SUFFICES ASSUME NEW c \in Channel, NEW y \in sessions'[c[2]], y.peer = c[1],
                      y.session \in opened[c[1]], ~Known(c[1], y.session)'
               PROVE  y.session \in told[c[2]] \/ Carries(Way(c)', "left", y.session)
      BY <1>1 DEF DepartureAnnounced, Way
  <2>1. y \in sessions[c[2]] /\ y.session \in Session
      BY <1>7, SessionType
  <2>2. CASE ~Known(c[1], y.session)
    <3>1. y.session \in told[c[2]] \/ Carries(Way(c), "left", y.session)
        BY <2>1, <2>2 DEF Departures, DepartureAnnounced, Way
    <3>2. QED
        BY <1>5, <2>1, <3>1 DEF KeepsLeft
  <2>3. CASE Known(c[1], y.session)
    <3>1. c[1] = n /\ y.session = s
        BY <1>7, <1>8, <2>3
    <3>2. s \in invited[c[2]] \cup invited[n]
        BY <1>7, <2>1, <3>1 DEF Departures, Settled
    <3>3. p = c[2]
      <4>1. CASE s \in invited[n]
          BY <2>1, <3>1, <4>1 DEF Departures, OnePartner
      <4>2. CASE s \notin invited[n]
          BY <1>2, <1>7, <3>2, <4>2 DEF Inv, Lives, OneInviter
      <4>3. QED
          BY <4>1, <4>2
    <3>4. QED
        BY <1>6, <3>1, <3>3
  <2>4. QED
      BY <2>2, <2>3
<1>13. QED
    BY <1>9, <1>10, <1>11, <1>12 DEF Departures

LEMMA InitDepartures == Init => Departures
<1> SUFFICES ASSUME Init PROVE Departures
    OBVIOUS
<1>1. ASSUME NEW c \in Channel, NEW s PROVE LeftBehind(Way(c), s)
  <2>1. Way(c) = <<>> \o <<>> /\ <<>> \in Seq(Message)
      BY DEF Init, Way
  <2>2. <<>> \o <<>> = <<>>
      BY <2>1, ConcatEmptySeq
  <2>3. QED
      BY <2>1, <2>2 DEF LeftBehind
<1>2. Settled /\ OnePartner /\ Followed /\ DepartureAnnounced
  <2>1. \A c \in Channel : c[1] \in Node /\ c[2] \in Node
      BY DEF Channel
  <2>2. QED
      BY <1>1, <2>1 DEF Init, Settled, OnePartner, Followed, DepartureAnnounced
<1>3. QED
    BY <1>2 DEF Departures

\* What the announcement of departures rests on: an open session has an inviter
\* and the client whose acceptance opened it, neither negotiates it any more,
\* and a document whose sender has left is followed by that news.
THEOREM DeparturesHold == Spec => []Departures
<1>1. ASSUME Inv, Departures, [Next]_vars PROVE Departures'
  <2>1. CASE UNCHANGED vars
      BY <1>1, <2>1, SilentlyQuietly, QuietlyPreserves DEF vars, state, past
  <2>2. ASSUME NEW n \in Node, NEW p \in Node, OpenWhiteboard(n, p) PROVE Departures'
      BY <1>1, <2>2, SilentlyQuietly, QuietlyPreserves DEF OpenWhiteboard, past
  <2>3. ASSUME NEW n \in Node, NEW s \in Session, StartNewSession(n, s) PROVE Departures'
      BY <1>1, <2>3, StartNewSessionQuietly, QuietlyPreserves
  <2>4. ASSUME NEW n \in Node, NEW m \in Node, NEW s \in Session, Receive(m, n, s)
        PROVE  Departures'
    <3>1. CASE ReceiveInvitation(m, n, s)
        BY <1>1, <3>1, ReceiveInvitationQuietly, QuietlyPreserves
    <3>2. CASE ReceiveAccept(m, n, s)
      <4>1. CASE InState(n, s, m, "InvitationSent")
          BY <1>1, <3>2, <4>1, ReceiveAcceptDepartures
      <4>2. CASE ~InState(n, s, m, "InvitationSent")
          BY <1>1, <3>2, <4>2, UnmovedQuietly, QuietlyPreserves DEF ReceiveAccept
      <4>3. QED
          BY <4>1, <4>2
    <3>3. CASE ReceiveDocument(m, n, s)
      <4>1. CASE InState(n, s, m, "InvitationAccepted")
          BY <1>1, <3>3, <4>1, ReceiveDocumentDepartures
      <4>2. CASE ~InState(n, s, m, "InvitationAccepted")
          BY <1>1, <3>3, <4>2, UnmovedQuietly, QuietlyPreserves DEF ReceiveDocument
      <4>3. QED
          BY <4>1, <4>2
    <3>4. CASE ReceiveAbort(m, n, s)
        BY <1>1, <3>4, ReceiveAbortQuietly, QuietlyPreserves
    <3>5. CASE ReceiveLeft(m, n, s)
        BY <1>1, <3>5, ReceiveLeftQuietly, QuietlyPreserves
    <3>6. CASE ReceiveEdits(m, n, s)
        BY <1>1, <3>6, ReceiveEditsQuietly, QuietlyPreserves
    <3>7. QED
        BY <2>4, <3>1, <3>2, <3>3, <3>4, <3>5, <3>6 DEF Receive
  <2>5. ASSUME NEW n \in Node, NEW b \in BOOLEAN, Answer(n, b) \/ AnswerDeleted(n, b)
        PROVE  Departures'
      BY <1>1, <2>5, AnswerQuietly, AnswerDeletedQuietly, QuietlyPreserves
  <2>6. ASSUME NEW n \in Node, NEW x \in sessions[n], SendEdits(n, x) \/ EndSession(n, x)
        PROVE  Departures'
      BY <1>1, <2>6, SendEditsQuietly, EndSessionDepartures, QuietlyPreserves
  <2>7. ASSUME NEW n \in Node, NegotiationTimeout(n) PROVE Departures'
      BY <1>1, <2>7, NegotiationTimeoutQuietly, QuietlyPreserves
  <2>8. ASSUME NEW n \in Node, Reconnect(n) PROVE Departures'
      BY <1>1, <2>8, SilentlyQuietly, QuietlyPreserves DEF Reconnect, state, past
  <2>9. QED
      BY <1>1, <2>1, <2>2, <2>3, <2>4, <2>5, <2>6, <2>7, <2>8 DEF Next
<1>2. Init => Departures
    BY InitDepartures
<1>3. OpeningInvariant <=> Inv
    BY InvIsOpeningInvariant
<1>4. QED
    BY <1>1, <1>2, <1>3, OpeningInvariantHolds, PTL DEF Spec

\* Who draws alone is told so, or the news is on its way: when one client has
\* closed a session that both had, the other's dialog has said so or
\* <left-session/> is sent and not yet handled.
THEOREM DepartureAnnouncedHolds == Spec => []DepartureAnnounced
<1>1. Departures => DepartureAnnounced
    BY DEF Departures
<1>2. QED
    BY <1>1, DeparturesHold, PTL

-----------------------------------------------------------------------------
(* The numbers of the edits in a queue.                                    *)

\* The numbers of the messages of q, edits or not.
Ns(q) == [i \in 1 .. Len(q) |-> q[i].n]

LEMMA NsType ==
    ASSUME NEW q \in Seq(Message)
    PROVE  Ns(q) \in Seq(Nat) /\ Len(Ns(q)) = Len(q)
<1>1. Len(q) \in Nat
    BY LenProperties
<1>2. \A i \in 1 .. Len(q) : q[i].n \in Nat
  <2>1. \A i \in 1 .. Len(q) : q[i] \in Message
      BY ElementOfSeq
  <2>2. QED
      BY <2>1, MaxEditsAssumption DEF Message
<1>3. QED
    BY <1>1, <1>2 DEF Ns

LEMMA NumbersType ==
    ASSUME NEW q \in Seq(Message), NEW s
    PROVE  Numbers(q, s) \in Seq(Nat)
<1>1. Ns(q) \in Seq(Nat) /\ Len(Ns(q)) \in 0 .. Len(Ns(q))
    BY NsType, LenProperties
<1>2. SelectedTo(Ns(q), Edits(q, s), Len(Ns(q))) \in Seq(Nat)
    BY <1>1, SelectedType
<1>3. QED
    BY <1>2 DEF Numbers, Selected, Ns

LEMMA NumbersAssociate == \A u, v, w \in Seq(Nat) : (u \o v) \o w = u \o (v \o w)
    BY ConcatIsAssociative, Z3

LEMMA NumbersConcat ==
    ASSUME NEW q \in Seq(Message), NEW t \in Seq(Message), NEW s
    PROVE  Numbers(q \o t, s) = Numbers(q, s) \o Numbers(t, s)
<1>9. \A u, v \in Seq(Nat) : \A L :
          Selected(u \o v, L) =
              Selected(u, Places(L, 0, Len(u))) \o Selected(v, Places(L, Len(u), Len(v)))
    BY SelectedConcat
<1>10. \A u, v \in Seq(Nat) :
          /\ u \o v \in Seq(Nat) /\ Len(u \o v) = Len(u) + Len(v)
          /\ \A i \in 1 .. Len(u) + Len(v) :
                 (u \o v)[i] = IF i <= Len(u) THEN u[i] ELSE v[i - Len(u)]
    BY ConcatProperties, Zenon
<1> DEFINE r == q \o t
<1>1. /\ r \in Seq(Message) /\ Len(r) = Len(q) + Len(t) /\ Len(q) \in Nat /\ Len(t) \in Nat
      /\ \A i \in 1 .. Len(q) + Len(t) : r[i] = IF i <= Len(q) THEN q[i] ELSE t[i - Len(q)]
    BY ConcatProperties, LenProperties
<1> HIDE DEF r
<1>2. /\ Ns(q) \in Seq(Nat) /\ Ns(t) \in Seq(Nat) /\ Ns(r) \in Seq(Nat)
      /\ Len(Ns(q)) = Len(q) /\ Len(Ns(t)) = Len(t) /\ Len(Ns(r)) = Len(r)
    BY <1>1, NsType
<1>3. /\ \A i \in 1 .. Len(q) : i \in 1 .. Len(r) /\ r[i] = q[i]
      /\ \A i \in 1 .. Len(t) : Len(q) + i \in 1 .. Len(r) /\ r[Len(q) + i] = t[i]
  <2>1. ASSUME NEW i \in 1 .. Len(t)
        PROVE  Len(q) + i \in 1 .. Len(r) /\ r[Len(q) + i] = t[i]
    <3>1. Len(q) + i \in 1 .. Len(q) + Len(t) /\ ~(Len(q) + i <= Len(q)) /\ Len(q) + i - Len(q) = i
        BY <1>1
    <3>2. QED
        BY <1>1, <3>1
  <2>2. QED
      BY <1>1, <2>1
<1>4. Ns(r) = Ns(q) \o Ns(t)
  <2>1. /\ Ns(q) \o Ns(t) \in Seq(Nat) /\ Len(Ns(q) \o Ns(t)) = Len(r)
        /\ \A i \in 1 .. Len(r) : (Ns(q) \o Ns(t))[i] =
               IF i <= Len(q) THEN Ns(q)[i] ELSE Ns(t)[i - Len(q)]
      BY <1>1, <1>2, <1>10
  <2>2. ASSUME NEW i \in 1 .. Len(r) PROVE (Ns(q) \o Ns(t))[i] = Ns(r)[i]
    <3>1. CASE i <= Len(q)
      <4>1. i \in 1 .. Len(q)
          BY <3>1
      <4>2. QED
          BY <1>3, <2>1, <3>1, <4>1 DEF Ns
    <3>2. CASE ~(i <= Len(q))
      <4>1. i - Len(q) \in 1 .. Len(t) /\ Len(q) + (i - Len(q)) = i
          BY <1>1, <3>2
      <4>2. r[i] = t[i - Len(q)]
          BY <1>3, <4>1
      <4>3. Ns(t)[i - Len(q)] = t[i - Len(q)].n /\ Ns(r)[i] = r[i].n
          BY <4>1 DEF Ns
      <4>4. QED
          BY <2>1, <3>2, <4>2, <4>3
    <3>3. QED
        BY <3>1, <3>2
  <2> DEFINE u == Ns(q) \o Ns(t)
             v == Ns(r)
  <2>3. /\ u \in Seq(Nat) /\ v \in Seq(Nat) /\ Len(u) = Len(v)
        /\ \A i \in 1 .. Len(u) : u[i] = v[i]
      BY <1>2, <2>1, <2>2
  <2> HIDE DEF u, v
  <2>4. u = v
      BY <2>3, SeqEqual
  <2>5. QED
      BY <2>4 DEF u, v
<1>5. Places(Edits(r, s), 0, Len(Ns(q))) = Edits(q, s)
    BY <1>2, <1>3 DEF Edits, Places
<1>6. Places(Edits(r, s), Len(Ns(q)), Len(Ns(t))) = Edits(t, s)
    BY <1>2, <1>3 DEF Edits, Places
<1>7. Selected(Ns(q) \o Ns(t), Edits(r, s)) =
          Selected(Ns(q), Edits(q, s)) \o Selected(Ns(t), Edits(t, s))
  <2> DEFINE u == Ns(q)
             v == Ns(t)
             E == Edits(r, s)
  <2>1. u \in Seq(Nat) /\ v \in Seq(Nat)
      BY <1>2
  <2> HIDE DEF u, v, E
  <2>2. Selected(u \o v, E) =
            Selected(u, Places(E, 0, Len(u))) \o Selected(v, Places(E, Len(u), Len(v)))
      BY <1>9, <2>1, Z3
  <2>3. QED
      BY <1>5, <1>6, <2>2, Zenon DEF u, v, E
<1>8. QED
    BY <1>4, <1>7 DEF Numbers, Ns, r

LEMMA NumbersNone ==
    ASSUME NEW q \in Seq(Message), NEW s, ~Carries(q, "edit", s)
    PROVE  Numbers(q, s) = <<>>
<1>1. Ns(q) \in Seq(Nat) /\ Len(Ns(q)) = Len(q)
    BY NsType
<1>2. \A i \in 1 .. Len(Ns(q)) : i \notin Edits(q, s)
    BY <1>1 DEF Edits, Carries
<1>3. Selected(Ns(q), Edits(q, s)) = <<>>
    BY <1>1, <1>2, SelectedNone
<1>4. QED
    BY <1>3 DEF Numbers, Ns

LEMMA NumbersOne ==
    ASSUME NEW x \in Message, NEW s
    PROVE  Numbers(<<x>>, s) = IF x.kind = "edit" /\ x.session = s THEN <<x.n>> ELSE <<>>
<1>1. x.n \in Nat
    BY MaxEditsAssumption DEF Message
<1>2. Numbers(<<x>>, s) = Selected(<<x.n>>, Edits(<<x>>, s))
  <2>1. [i \in 1 .. Len(<<x>>) |-> <<x>>[i].n] = <<x.n>>
      BY <1>1
  <2>2. QED
      BY <2>1 DEF Numbers
<1>3. 1 \in Edits(<<x>>, s) <=> x.kind = "edit" /\ x.session = s
    BY DEF Edits
<1>4. QED
    BY <1>1, <1>2, <1>3, SelectedOne

-----------------------------------------------------------------------------
(* Drawings.                                                               *)

Upto(k) == [i \in 1 .. k |-> i]

\* Before a document of s there is no other document of s, and no edit.
Leads(q, s) == \A i, j \in 1 .. Len(q) :
    i < j /\ q[j].kind = "document" /\ q[j].session = s =>
        ~(q[i].session = s /\ q[i].kind \in {"document", "edit"})

\* Nothing is drawn in a session before it is opened.
Unopened == \A n \in Node, s \in Session :
    s \notin opened[n] => got[n][s] = <<>> /\ sent[n][s] = 0

\* Edits come from a client that has opened the session, and only its inviter
\* or the client it invited sends any.
EditsBacked == \A c \in Channel, s \in Session :
    Carries(Way(c), "edit", s) => s \in opened[c[1]] /\ s \in invited[c[1]] \cup invited[c[2]]

\* A session is opened by no other client than the inviter's partner.
OneGuest == \A n \in Node : \A y \in sessions[n] : y.session \in invited[n] =>
    \A m \in Node \ {n} : y.session \in opened[m] => m = y.peer

\* A document is on its way to a client that has not opened the session, once,
\* with all the edits made since behind it.
Unheard == \A c \in Channel, s \in Session : Carries(Way(c), "document", s) =>
    s \notin opened[c[2]] /\ Leads(Way(c), s) /\ Numbers(Way(c), s) = Upto(sent[c[1]][s])

Heard == \A c \in Channel : \A x \in sessions[c[2]] : x.peer = c[1] =>
    got[c[2]][x.session] \o Numbers(Way(c), x.session) = Upto(sent[c[1]][x.session])

Drawings == Unopened /\ EditsBacked /\ OneGuest /\ Unheard /\ Heard

LEMMA WayType ==
    ASSUME Inv, NEW c \in Channel
    PROVE  /\ Way(c) \in Seq(Message) /\ wire[c] \in Seq(Message) /\ queued[c] \in Seq(Message)
           /\ c[1] \in Node /\ c[2] \in Node /\ c[1] # c[2]
<1>1. wire[c] \in Seq(Message) /\ queued[c] \in Seq(Message)
    BY DEF Inv, Wires
<1>2. QED
    BY <1>1, ConcatProperties DEF Way, Channel

LEMMA GotType ==
    ASSUME Inv, NEW n \in Node, NEW s \in Session
    PROVE  got[n][s] \in Seq(Nat)
<1> DEFINE g == got[n][s]
<1>1. g \in Seq(0 .. MaxEdits)
    BY DEF Inv, TypeState
<1> HIDE DEF g
<1>2. Len(g) \in Nat /\ g = [i \in 1 .. Len(g) |-> g[i]]
    BY <1>1
<1>3. \A i \in 1 .. Len(g) : g[i] \in 0 .. MaxEdits
    BY <1>1, ElementOfSeq
<1>4. \A i \in 1 .. Len(g) : g[i] \in Nat
    BY <1>3, MaxEditsAssumption
<1>5. [i \in 1 .. Len(g) |-> g[i]] \in Seq(Nat)
    BY <1>2, <1>4
<1>6. QED
    BY <1>2, <1>5, Zenon DEF g

LEMMA HeardIsEditsInOrder == Inv => (Heard <=> EditsInOrder)
<1> SUFFICES ASSUME Inv, NEW c \in Channel, NEW x \in sessions[c[2]]
             PROVE  got[c[2]][x.session] \o Numbers(Way(c), x.session) =
                    got[c[2]][x.session] \o Numbers(wire[c], x.session)
                                         \o Numbers(queued[c], x.session)
    BY Zenon DEF Heard, EditsInOrder, Upto
<1>1. x.session \in Session
    BY WayType, SessionType
<1>2. got[c[2]][x.session] \in Seq(Nat)
    BY <1>1, WayType, GotType
<1>3. Numbers(Way(c), x.session) =
          Numbers(wire[c], x.session) \o Numbers(queued[c], x.session)
    BY WayType, NumbersConcat DEF Way
<1>4. Numbers(wire[c], x.session) \in Seq(Nat) /\ Numbers(queued[c], x.session) \in Seq(Nat)
    BY WayType, NumbersType
<1> DEFINE g == got[c[2]][x.session]
           a == Numbers(wire[c], x.session)
           b == Numbers(queued[c], x.session)
<1>6. g \in Seq(Nat) /\ a \in Seq(Nat) /\ b \in Seq(Nat) /\ Numbers(Way(c), x.session) = a \o b
    BY <1>2, <1>3, <1>4
<1> HIDE DEF g, a, b
<1>9. g \in Seq(Nat) /\ a \in Seq(Nat) /\ b \in Seq(Nat)
    BY <1>6
<1>7. (g \o a) \o b = g \o (a \o b)
    BY <1>9, NumbersAssociate
<1>8. QED
    BY <1>6, <1>7 DEF g, a, b

\* r is what q becomes: no drawing is lost, added or put before a document.
Draws(q, r) == \A s \in Session :
    /\ Carries(r, "edit", s) => Carries(q, "edit", s)
    /\ Carries(r, "document", s) => Carries(q, "document", s)
    /\ Numbers(r, s) = Numbers(q, s)
    /\ Leads(q, s) => Leads(r, s)
NoDrawing(q) == \A s \in Session : ~Carries(q, "edit", s) /\ ~Carries(q, "document", s)

\* What is sent that carries no document of s does not lie before one.
LEMMA JoinedLeads ==
    ASSUME NEW q \in Seq(Message), NEW t \in Seq(Message), NEW s, Leads(q, s),
           ~Carries(t, "document", s)
    PROVE  Leads(q \o t, s)
<1> DEFINE r == q \o t
<1>1. /\ r \in Seq(Message) /\ Len(r) = Len(q) + Len(t) /\ Len(q) \in Nat /\ Len(t) \in Nat
      /\ \A i \in 1 .. Len(q) + Len(t) : r[i] = IF i <= Len(q) THEN q[i] ELSE t[i - Len(q)]
    BY ConcatProperties, LenProperties
<1> HIDE DEF r
<1> SUFFICES ASSUME NEW i \in 1 .. Len(r), NEW j \in 1 .. Len(r), i < j,
                    r[j].kind = "document", r[j].session = s
             PROVE  ~(r[i].session = s /\ r[i].kind \in {"document", "edit"})
    BY DEF Leads, r
<1>2. j <= Len(q)
  <2>1. SUFFICES ASSUME ~(j <= Len(q)) PROVE FALSE
      OBVIOUS
  <2>2. j - Len(q) \in 1 .. Len(t) /\ r[j] = t[j - Len(q)]
      BY <1>1, <2>1
  <2>3. QED
      BY <2>2 DEF Carries
<1>3. i \in 1 .. Len(q) /\ j \in 1 .. Len(q) /\ r[i] = q[i] /\ r[j] = q[j]
    BY <1>1, <1>2
<1>4. QED
    BY <1>3 DEF Leads

LEMMA JoinedDraws ==
    ASSUME NEW q \in Seq(Message), NEW t \in Seq(Message), NoDrawing(t)
    PROVE  Draws(q, q \o t)
<1> SUFFICES ASSUME NEW s \in Session
             PROVE  /\ Carries(q \o t, "edit", s) => Carries(q, "edit", s)
                    /\ Carries(q \o t, "document", s) => Carries(q, "document", s)
                    /\ Numbers(q \o t, s) = Numbers(q, s)
                    /\ Leads(q, s) => Leads(q \o t, s)
    BY DEF Draws
<1>1. ~Carries(t, "edit", s) /\ ~Carries(t, "document", s)
    BY DEF NoDrawing
<1>2. /\ Carries(q \o t, "edit", s) => Carries(q, "edit", s)
      /\ Carries(q \o t, "document", s) => Carries(q, "document", s)
    BY <1>1, JoinedCarries
<1>3. Numbers(q \o t, s) = Numbers(q, s)
  <2>1. Numbers(t, s) = <<>> /\ Numbers(q, s) \in Seq(Nat)
      BY <1>1, NumbersNone, NumbersType
  <2>2. Numbers(q \o t, s) = Numbers(q, s) \o Numbers(t, s)
      BY NumbersConcat
  <2>3. QED
      BY <2>1, <2>2, ConcatEmptySeq
<1>4. Leads(q, s) => Leads(q \o t, s)
    BY <1>1, JoinedLeads
<1>5. QED
    BY <1>2, <1>3, <1>4

LEMMA SameDraws == \A q : Draws(q, q)
    BY DEF Draws

\* The head of a wire is taken, with r waiting behind.
LEMMA TakenNumbers ==
    ASSUME NEW w \in Seq(Message), w # <<>>, NEW r \in Seq(Message), NEW s
    PROVE  LET q == w \o r
               t == Tail(w) \o r
               x == Head(w)
           IN  /\ x \in Message /\ t \in Seq(Message)
               /\ Numbers(q, s) = Numbers(<<x>>, s) \o Numbers(t, s)
               /\ Leads(q, s) => Leads(t, s)
               /\ Leads(q, s) /\ x.session = s /\ x.kind \in {"document", "edit"} =>
                      ~Carries(t, "document", s)
<1> DEFINE q == w \o r
           t == Tail(w) \o r
           x == Head(w)
           h == <<x>>
<1>1. /\ Tail(w) \in Seq(Message) /\ Len(Tail(w)) = Len(w) - 1 /\ x = w[1] /\ x \in Message
      /\ Len(w) \in Nat \ {0} /\ Len(r) \in Nat
      /\ \A i \in 1 .. Len(Tail(w)) : Tail(w)[i] = w[i + 1]
    BY HeadTailProperties, LenProperties, EmptySeq
<1>10. q \in Seq(Message) /\ t \in Seq(Message)
    BY <1>1, ConcatProperties
<1>2. /\ Len(q) = Len(w) + Len(r) /\ Len(t) = Len(w) - 1 + Len(r)
      /\ \A i \in 1 .. Len(w) + Len(r) : q[i] = IF i <= Len(w) THEN w[i] ELSE r[i - Len(w)]
      /\ \A i \in 1 .. Len(w) - 1 + Len(r) :
             t[i] = IF i <= Len(w) - 1 THEN Tail(w)[i] ELSE r[i - (Len(w) - 1)]
    BY <1>1, ConcatProperties
<1>3. h \in Seq(Message) /\ Len(h) = 1 /\ h[1] = x
    BY <1>1
<1> HIDE DEF q, t, x, h
<1>4. /\ Len(q) = Len(t) + 1 /\ Len(t) \in Nat /\ q[1] = x
      /\ \A i \in 1 .. Len(t) : t[i] = q[i + 1]
    BY <1>1, <1>2
<1>5. q = h \o t
  <2>5. /\ h \o t \in Seq(Message) /\ Len(h \o t) = Len(h) + Len(t)
        /\ \A i \in 1 .. Len(h) + Len(t) :
               (h \o t)[i] = IF i <= Len(h) THEN h[i] ELSE t[i - Len(h)]
      BY <1>3, <1>10, ConcatProperties
  <2>1. /\ h \o t \in Seq(Message) /\ Len(h \o t) = Len(q)
        /\ \A i \in 1 .. 1 + Len(t) : (h \o t)[i] = IF i <= 1 THEN h[i] ELSE t[i - 1]
      BY <1>3, <1>4, <2>5
  <2> DEFINE u == h \o t
  <2> HIDE DEF u
  <2>2. ASSUME NEW i \in 1 .. Len(q) PROVE u[i] = q[i]
    <3>1. CASE i = 1
        BY <1>3, <1>4, <2>1, <3>1 DEF u
    <3>2. CASE i # 1
      <4>1. i - 1 \in 1 .. Len(t) /\ i - 1 + 1 = i /\ i \in 1 .. 1 + Len(t) /\ ~(i <= 1)
          BY <1>4, <3>2
      <4>2. u[i] = t[i - 1] /\ t[i - 1] = q[i]
          BY <1>4, <2>1, <4>1 DEF u
      <4>3. QED
          BY <4>2
    <3>3. QED
        BY <3>1, <3>2
  <2>3. u \in Seq(Message) /\ q \in Seq(Message) /\ Len(u) = Len(q)
      BY <1>10, <2>1 DEF u
  <2>4. u = q
      BY <2>2, <2>3, SeqEqual
  <2>6. QED
      BY <2>4 DEF u
<1>6. Numbers(q, s) = Numbers(h, s) \o Numbers(t, s)
    BY <1>3, <1>5, <1>10, NumbersConcat
<1>7. ASSUME Leads(q, s) PROVE Leads(t, s)
  <2> SUFFICES ASSUME NEW i \in 1 .. Len(t), NEW j \in 1 .. Len(t), i < j,
                      t[j].kind = "document", t[j].session = s
               PROVE  ~(t[i].session = s /\ t[i].kind \in {"document", "edit"})
      BY DEF Leads
  <2>1. /\ i + 1 \in 1 .. Len(q) /\ j + 1 \in 1 .. Len(q) /\ i + 1 < j + 1
        /\ t[i] = q[i + 1] /\ t[j] = q[j + 1]
      BY <1>4
  <2>2. QED
      BY <1>7, <2>1 DEF Leads
<1>8. ASSUME Leads(q, s), x.session = s, x.kind \in {"document", "edit"},
             NEW i \in 1 .. Len(t), t[i].kind = "document", t[i].session = s
      PROVE  FALSE
  <2>1. 1 \in 1 .. Len(q) /\ i + 1 \in 1 .. Len(q) /\ 1 < i + 1 /\ t[i] = q[i + 1]
      BY <1>4
  <2>2. QED
      BY <1>4, <1>8, <2>1 DEF Leads
<1>9. QED
    BY <1>1, <1>6, <1>7, <1>8, <1>10 DEF Carries, q, t, x, h

\* What is on the way after a sending, and after a message is taken.
LEMMA SentWay ==
    ASSUME Inv, NEW n \in Node, NEW out \in [Node -> Seq(Message)], Send(wire, n, out),
           NEW c \in Channel
    PROVE  Way(c)' = IF c[1] = n THEN Way(c) \o out[c[2]] ELSE Way(c)
<1>1. wire \in [Channel -> Seq(Message)] /\ queued \in [Channel -> Seq(Message)]
    BY DEF Inv, Wires
<1>2. Way(c)' = IF c[1] = n THEN (wire[c] \o queued[c]) \o out[c[2]] ELSE wire[c] \o queued[c]
    BY <1>1, SendWay
<1>3. QED
    BY <1>2 DEF Way

LEMMA TakenHere ==
    ASSUME Inv, NEW m, NEW n, NEW kind, NEW s, Arrives(m, n, kind, s)
    PROVE  /\ <<m, n>> \in Channel /\ wire[<<m, n>>] # <<>>
           /\ Taken(m, n) \in [Channel -> Seq(Message)]
           /\ Taken(m, n)[<<m, n>>] = Tail(wire[<<m, n>>])
           /\ Head(wire[<<m, n>>]).kind = kind /\ Head(wire[<<m, n>>]).session = s
<1>1. /\ <<m, n>> \in Channel /\ wire[<<m, n>>] # <<>>
      /\ Head(wire[<<m, n>>]).kind = kind /\ Head(wire[<<m, n>>]).session = s
      /\ wire \in [Channel -> Seq(Message)]
    BY DEF Arrives, Inv, Wires
<1>2. /\ Taken(m, n) \in [Channel -> Seq(Message)]
      /\ Taken(m, n)[<<m, n>>] = Tail(wire[<<m, n>>])
    BY <1>1, TakenWay
<1>3. QED
    BY <1>1, <1>2

LEMMA TakenElsewhere ==
    ASSUME Inv, NEW m, NEW n, <<m, n>> \in Channel, NEW c \in Channel, c # <<m, n>>
    PROVE  Taken(m, n)[c] \o queued[c] = Way(c)
<1>1. Taken(m, n)[c] = wire[c]
    BY TakenWay DEF Inv, Wires
<1>2. QED
    BY <1>1 DEF Way

LEMMA SilentWay ==
    ASSUME NEW m, NEW n, NEW c, Silent(m, n)
    PROVE  Way(c)' = Taken(m, n)[c] \o queued[c]
    BY DEF Way, Silent

LEMMA TakenDraws ==
    ASSUME Inv, NEW m, NEW n, NEW kind, NEW s, Arrives(m, n, kind, s), kind # "edit",
           NEW c \in Channel
    PROVE  Draws(Way(c), Taken(m, n)[c] \o queued[c])
<1> DEFINE r == Taken(m, n)[c] \o queued[c]
<1>4. <<m, n>> \in Channel
    BY TakenHere
<1>1. CASE c # <<m, n>>
    BY <1>1, <1>4, TakenElsewhere, SameDraws
<1>2. CASE c = <<m, n>>
  <2> DEFINE w == wire[c]
             z == queued[c]
  <2>1. /\ w \in Seq(Message) /\ w # <<>> /\ z \in Seq(Message)
        /\ Way(c) = w \o z /\ r = Tail(w) \o z
        /\ Head(w).kind = kind /\ Head(w).session = s /\ r \in Seq(Message)
    <3>1. /\ w # <<>> /\ Taken(m, n)[c] = Tail(w)
          /\ Head(w).kind = kind /\ Head(w).session = s
        BY <1>2, TakenHere
    <3>2. w \in Seq(Message) /\ z \in Seq(Message) /\ Way(c) = w \o z
        BY WayType DEF Way
    <3>3. r \in Seq(Message)
        BY <3>1, <3>2, TakenNumbers
    <3>4. QED
        BY <3>1, <3>2, <3>3
  <2> HIDE DEF w, z, r
  <2> SUFFICES ASSUME NEW t \in Session
               PROVE  /\ Carries(r, "edit", t) => Carries(Way(c), "edit", t)
                      /\ Carries(r, "document", t) => Carries(Way(c), "document", t)
                      /\ Numbers(r, t) = Numbers(Way(c), t)
                      /\ Leads(Way(c), t) => Leads(r, t)
      BY DEF Draws, r
  <2>2. /\ Carries(r, "edit", t) => Carries(Way(c), "edit", t)
        /\ Carries(r, "document", t) => Carries(Way(c), "document", t)
    <3>1. /\ Carries(Tail(w) \o z, "edit", t) => Carries(w \o z, "edit", t)
          /\ Carries(Tail(w) \o z, "document", t) => Carries(w \o z, "document", t)
        BY <2>1, TakenCarries
    <3>2. QED
        BY <2>1, <3>1
  <2>3. /\ Numbers(Way(c), t) = Numbers(<<Head(w)>>, t) \o Numbers(r, t)
        /\ Leads(Way(c), t) => Leads(r, t)
        /\ Head(w) \in Message
    <3>1. /\ Numbers(w \o z, t) = Numbers(<<Head(w)>>, t) \o Numbers(Tail(w) \o z, t)
          /\ Leads(w \o z, t) => Leads(Tail(w) \o z, t)
          /\ Head(w) \in Message
        BY <2>1, TakenNumbers
    <3>2. QED
        BY <2>1, <3>1
  <2>4. Numbers(<<Head(w)>>, t) = <<>>
      BY <2>1, <2>3, NumbersOne
  <2>5. Numbers(r, t) \in Seq(Nat)
      BY <2>1, NumbersType
  <2>6. Numbers(r, t) = Numbers(Way(c), t)
      BY <2>3, <2>4, <2>5, ConcatEmptySeq
  <2>7. QED
      BY <2>2, <2>3, <2>6
<1>3. QED
    BY <1>1, <1>2 DEF r

\* A step that draws nothing: sessions are closed at most, invitations are new.
Idle == /\ \A n \in Node : sessions'[n] \subseteq sessions[n]
        /\ UNCHANGED <<opened, sent, got>>
        /\ \A n \in Node : /\ invited[n] \subseteq invited'[n]
                           /\ \A s \in invited'[n] : s \in invited[n] \/ Fresh(s)
        /\ \A c \in Channel : Draws(Way(c), Way(c)')

LEMMA IdlePreserves ==
    ASSUME Inv, Departures, Drawings, Idle
    PROVE  Drawings'
<1>1. \A c \in Channel : c[1] \in Node /\ c[2] \in Node
    BY DEF Channel
<1>2. Unopened'
    BY DEF Idle, Drawings, Unopened
<1>3. EditsBacked'
  <2> SUFFICES ASSUME NEW c \in Channel, NEW s \in Session, Carries(Way(c)', "edit", s)
               PROVE  s \in opened[c[1]] /\ s \in invited'[c[1]] \cup invited'[c[2]]
      BY DEF EditsBacked, Idle
  <2>1. Carries(Way(c), "edit", s)
      BY DEF Idle, Draws
  <2>2. QED
      BY <1>1, <2>1 DEF Drawings, EditsBacked, Idle
<1>4. OneGuest'
  <2> SUFFICES ASSUME NEW n \in Node, NEW y \in sessions'[n], y.session \in invited'[n],
                      NEW m \in Node \ {n}, y.session \in opened[m]
               PROVE  m = y.peer
      BY DEF OneGuest, Idle
  <2>1. y \in sessions[n]
      BY DEF Idle
  <2>2. y.session \in invited[n]
    <3>1. y.session \in opened[n]
        BY <2>1 DEF Departures, Settled
    <3>2. QED
        BY <3>1, OpenedNotFresh DEF Idle
  <2>3. QED
      BY <2>1, <2>2 DEF Drawings, OneGuest
<1>5. Unheard'
  <2> SUFFICES ASSUME NEW c \in Channel, NEW s \in Session, Carries(Way(c)', "document", s)
               PROVE  /\ s \notin opened[c[2]] /\ Leads(Way(c)', s)
                      /\ Numbers(Way(c)', s) = Upto(sent[c[1]][s])
      BY DEF Unheard, Idle, Upto
  <2>1. Carries(Way(c), "document", s)
      BY DEF Idle, Draws
  <2>2. s \notin opened[c[2]] /\ Leads(Way(c), s) /\ Numbers(Way(c), s) = Upto(sent[c[1]][s])
      BY <2>1 DEF Drawings, Unheard
  <2>3. QED
      BY <2>2 DEF Idle, Draws
<1>6. Heard'
  <2> SUFFICES ASSUME NEW c \in Channel, NEW x \in sessions'[c[2]], x.peer = c[1]
               PROVE  got[c[2]][x.session] \o Numbers(Way(c)', x.session)
                        = Upto(sent[c[1]][x.session])
      BY DEF Heard, Idle, Upto
  <2>1. x \in sessions[c[2]] /\ x.session \in Session
      BY <1>1, SessionType DEF Idle
  <2>2. got[c[2]][x.session] \o Numbers(Way(c), x.session) = Upto(sent[c[1]][x.session])
      BY <2>1 DEF Drawings, Heard
  <2>3. Numbers(Way(c)', x.session) = Numbers(Way(c), x.session)
      BY <2>1 DEF Idle, Draws
  <2>4. QED
      BY <2>2, <2>3
<1>7. QED
    BY <1>2, <1>3, <1>4, <1>5, <1>6 DEF Drawings

LEMMA SendDraws ==
    ASSUME Inv, NEW n \in Node, NEW out \in [Node -> Seq(Message)], Send(wire, n, out),
           \A p \in Node : NoDrawing(out[p]), NEW c \in Channel
    PROVE  Draws(Way(c), Way(c)')
<1>1. Way(c)' = IF c[1] = n THEN Way(c) \o out[c[2]] ELSE Way(c)
    BY SentWay
<1>2. Way(c) \in Seq(Message) /\ c[2] \in Node
    BY WayType
<1> DEFINE q == Way(c)
           t == out[c[2]]
<1>3. q \in Seq(Message) /\ t \in Seq(Message) /\ NoDrawing(t)
    BY <1>2
<1> HIDE DEF q, t
<1>4. Draws(q, q \o t) /\ Draws(q, q)
    BY <1>3, JoinedDraws, SameDraws
<1>5. QED
    BY <1>1, <1>4 DEF q, t

LEMMA OnlyDraws ==
    ASSUME Inv, NEW n \in Node, NEW p, NEW msg \in Message,
           msg.kind \notin {"document", "edit"}, Send(wire, n, Only(p, msg)), NEW c \in Channel
    PROVE  Draws(Way(c), Way(c)')
<1>1. Only(p, msg) \in [Node -> Seq(Message)]
    BY DEF Only
<1>2. \A q \in Node : NoDrawing(Only(p, msg)[q])
    BY NothingCarried, OneCarried DEF NoDrawing, Only
<1>3. QED
    BY <1>1, <1>2, SendDraws

LEMMA SilentDraws ==
    ASSUME Inv, NEW m, NEW n, NEW kind, NEW s, Arrives(m, n, kind, s), Silent(m, n),
           kind # "edit", NEW c \in Channel
    PROVE  Draws(Way(c), Way(c)')
<1>1. Way(c)' = Taken(m, n)[c] \o queued[c]
    BY SilentWay
<1>2. QED
    BY <1>1, TakenDraws

LEMMA StartNewSessionIdle ==
    ASSUME Inv, NEW n \in Node, NEW s \in Session, StartNewSession(n, s)
    PROVE  Idle
<1> DEFINE msg == Msg("invitation", s)
<1>1. msg \in Message /\ msg.kind = "invitation" /\ Send(wire, n, Only(prompting[n], msg))
    BY MsgType DEF StartNewSession
<1>2. \A c \in Channel : Draws(Way(c), Way(c)')
    BY <1>1, OnlyDraws
<1>3. \A k \in Node : /\ invited[k] \subseteq invited'[k]
                      /\ \A t \in invited'[k] : t \in invited[k] \/ Fresh(t)
    BY DEF StartNewSession, Inv, TypeState
<1>4. QED
    BY <1>2, <1>3 DEF Idle, StartNewSession, edits

\* A message other than edits that arrives and opens nothing, or is not heeded.
LEMMA ReceiveIdle ==
    ASSUME Inv, NEW m, NEW n, NEW kind, NEW s, Arrives(m, n, kind, s), Silent(m, n),
           kind # "edit", UNCHANGED <<sessions, opened, sent, got, invited>>
    PROVE  Idle
<1>1. \A c \in Channel : Draws(Way(c), Way(c)')
    BY SilentDraws
<1>2. QED
    BY <1>1 DEF Idle

LEMMA UndrawnIdle ==
    ASSUME UNCHANGED <<sessions, opened, sent, got, invited, net>>
    PROVE  Idle
    BY SameDraws DEF Idle, net, Way

LEMMA AnswersIdle ==
    ASSUME Inv, NEW n \in Node, NEW accepted \in BOOLEAN,
           Answer(n, accepted) \/ AnswerDeleted(n, accepted)
    PROVE  Idle
<1> DEFINE a == Head(asking[n])
           msg == Msg(IF accepted THEN "accept" ELSE "abort", a.session)
<1>1. UNCHANGED <<sessions, opened, sent, got, invited>> /\ asking[n] # <<>>
    BY DEF Answer, AnswerDeleted, edits, past
<1>2. CASE UNCHANGED net
    BY <1>1, <1>2, UndrawnIdle
<1>3. CASE Send(wire, n, Only(a.peer, msg))
  <2>1. a \in Handle
      BY <1>1 DEF Inv, TypeState
  <2>2. a.session \in Session
      BY <2>1 DEF Handle
  <2>3. msg \in Message /\ msg.kind \notin {"document", "edit"}
      BY <2>2, MsgType
  <2>4. \A c \in Channel : Draws(Way(c), Way(c)')
      BY <1>3, <2>3, OnlyDraws
  <2>5. QED
      BY <1>1, <2>4 DEF Idle
<1>4. QED
    BY <1>2, <1>3 DEF Answer, AnswerDeleted

LEMMA NegotiationTimeoutIdle ==
    ASSUME Inv, NEW n \in Node, NegotiationTimeout(n)
    PROVE  Idle
<1>1. UNCHANGED <<sessions, opened, sent, got, invited>>
    BY DEF NegotiationTimeout, edits
<1>2. CASE UNCHANGED net
    BY <1>1, <1>2, UndrawnIdle
<1>3. CASE ~UNCHANGED net
  <2>1. PICK out \in [Node -> UNION {SetToSeqs(Aborts(n, p)) : p \in Node}] :
            /\ \A p \in Node : out[p] \in SetToSeqs(Aborts(n, p))
            /\ Send(wire, n, out)
      BY <1>3 DEF NegotiationTimeout
  <2>2. \A p \in Node : out[p] \in Seq(Message) /\ NoDrawing(out[p])
      BY <2>1, AbortsType DEF NoDrawing, Carries
  <2>3. out \in [Node -> Seq(Message)]
      BY <2>1, <2>2
  <2>4. \A c \in Channel : Draws(Way(c), Way(c)')
      BY <2>1, <2>2, <2>3, SendDraws
  <2>5. QED
      BY <1>1, <2>4 DEF Idle
<1>4. QED
    BY <1>2, <1>3

LEMMA EndSessionIdle ==
    ASSUME Inv, Departures, NEW n \in Node, NEW x \in sessions[n], EndSession(n, x)
    PROVE  Idle
<1> DEFINE msg == Msg("left", x.session)
<1>1. With(n, x.session, x.peer) = {} /\ x.session \in Session
    BY SessionType DEF Departures, Settled
<1>2. msg \in Message /\ msg.kind = "left"
    BY <1>1, MsgType
<1>3. Send(wire, n, Only(x.peer, msg))
  <2>1. (IF With(n, x.session, x.peer) = {} THEN <<>> ELSE <<Msg("abort", x.session)>>) \o <<msg>>
            = <<msg>>
      BY <1>1, <1>2, ConcatEmptySeq
  <2>2. QED
      BY <2>1 DEF EndSession, Only
<1> HIDE DEF msg
<1>4. \A c \in Channel : Draws(Way(c), Way(c)')
    BY <1>2, <1>3, OnlyDraws
<1>5. \A k \in Node : sessions'[k] \subseteq sessions[k]
    BY DEF EndSession, Inv, TypeState
<1>6. UNCHANGED <<opened, sent, got, invited>>
    BY Zenon DEF EndSession, edits, past
<1>7. QED
    BY <1>4, <1>5, <1>6 DEF Idle

\* The client that was invited opens the session: it has all drawn so far from
\* the document, and what was drawn since is on its way.
LEMMA ReceiveDocumentDrawings ==
    ASSUME Inv, Departures, Drawings, NEW n \in Node, NEW m \in Node, NEW s \in Session,
           ReceiveDocument(m, n, s), InState(n, s, m, "InvitationAccepted")
    PROVE  Drawings'
<1> DEFINE h == [session |-> s, peer |-> m]
           c0 == <<m, n>>
<1>1. /\ s \in invited[m] \cap opened[m] /\ m # n /\ c0 \in Channel
      /\ Arrives(m, n, "document", s) /\ Silent(m, n)
    BY Head1 DEF Inv, ReceiveDocument, Arrives, Channel
<1>2. /\ sessions' = [sessions EXCEPT ![n] = @ \cup {h}]
      /\ opened'   = [opened EXCEPT ![n] = @ \cup {s}]
      /\ UNCHANGED <<invited, sent, got>>
    BY DEF ReceiveDocument, edits
<1>3. /\ \A k \in Node : \A x \in sessions'[k] : x \in sessions[k] \/ (k = n /\ x = h)
      /\ \A k \in Node : \A t \in opened'[k] : t \in opened[k] \/ (k = n /\ t = s)
      /\ \A k \in Node : opened[k] \subseteq opened'[k]
      /\ \A c \in Channel : c[1] \in Node /\ c[2] \in Node /\ c[1] # c[2]
    BY <1>2 DEF Inv, TypeState, Channel
<1> HIDE DEF h
<1>4. h.session = s /\ h.peer = m
    BY DEF h
<1>5. \A c \in Channel : Draws(Way(c), Way(c)')
    BY <1>1, SilentDraws
<1>6. /\ Carries(Way(c0), "document", s)
      /\ Leads(Way(c0), s) => ~Carries(Way(c0)', "document", s)
  <2> DEFINE w == wire[c0]
             z == queued[c0]
  <2>1. /\ w \in Seq(Message) /\ z \in Seq(Message) /\ w # <<>> /\ Way(c0) = w \o z
        /\ Head(w).kind = "document" /\ Head(w).session = s
      BY <1>1, WayType, TakenHere DEF Way
  <2>2. Way(c0)' = Tail(w) \o z
    <3>1. Way(c0)' = Taken(m, n)[c0] \o queued[c0]
        BY <1>1 DEF Way, Silent
    <3>2. Taken(m, n)[c0] = Tail(w)
        BY <1>1, TakenHere
    <3>3. QED
        BY <3>1, <3>2
  <2> HIDE DEF w, z, c0
  <2>3. Carries(w \o z, "document", s)
      BY <2>1, TakenCarries
  <2>4. Leads(w \o z, s) => ~Carries(Tail(w) \o z, "document", s)
      BY <2>1, TakenNumbers
  <2>5. QED
      BY <2>1, <2>2, <2>3, <2>4
<1> HIDE DEF c0
<1>7. /\ s \notin opened[n] /\ Leads(Way(c0), s) /\ Numbers(Way(c0), s) = Upto(sent[m][s])
      /\ got[n][s] = <<>>
    BY <1>1, <1>6 DEF Drawings, Unheard, Unopened, c0
<1>8. Unopened'
    BY <1>2, <1>3 DEF Drawings, Unopened
<1>9. EditsBacked'
  <2> SUFFICES ASSUME NEW c \in Channel, NEW t \in Session, Carries(Way(c)', "edit", t)
               PROVE  t \in opened'[c[1]] /\ t \in invited[c[1]] \cup invited[c[2]]
      BY <1>2 DEF EditsBacked
  <2>1. Carries(Way(c), "edit", t)
      BY <1>5 DEF Draws
  <2>2. QED
      BY <1>3, <2>1 DEF Drawings, EditsBacked
<1>10. OneGuest'
  <2> SUFFICES ASSUME NEW k \in Node, NEW y \in sessions'[k], y.session \in invited[k],
                      NEW j \in Node \ {k}, y.session \in opened'[j]
               PROVE  j = y.peer
      BY <1>2 DEF OneGuest
  <2>1. y \in sessions[k]
      BY <1>1, <1>3, <1>4 DEF Inv, Lives, OneInviter
  <2>2. CASE y.session \in opened[j]
      BY <2>1, <2>2 DEF Drawings, OneGuest
  <2>3. CASE j = n /\ y.session = s
    <3>1. k = m
        BY <1>1, <2>3 DEF Inv, Lives, OneInviter
    <3>2. c0[1] = m /\ c0[2] = n
        BY DEF c0
    <3>3. QED
        BY <1>1, <1>6, <2>1, <2>3, <3>1, <3>2 DEF Departures, OnePartner
  <2>4. QED
      BY <1>3, <2>2, <2>3
<1>11. Unheard'
  <2> SUFFICES ASSUME NEW c \in Channel, NEW t \in Session, Carries(Way(c)', "document", t)
               PROVE  /\ t \notin opened'[c[2]] /\ Leads(Way(c)', t)
                      /\ Numbers(Way(c)', t) = Upto(sent[c[1]][t])
      BY <1>2 DEF Unheard, Upto
  <2>1. Carries(Way(c), "document", t)
      BY <1>5 DEF Draws
  <2>2. t \notin opened[c[2]] /\ Leads(Way(c), t) /\ Numbers(Way(c), t) = Upto(sent[c[1]][t])
      BY <2>1 DEF Drawings, Unheard
  <2>3. ~(c[2] = n /\ t = s)
    <3>1. SUFFICES ASSUME c[2] = n, t = s PROVE FALSE
        OBVIOUS
    <3>2. s \in invited[c[1]]
      <4>1. /\ wire[c] \in Seq(Message) /\ queued[c] \in Seq(Message)
            /\ Documents(wire[c], Begun[c[1]]) /\ Documents(queued[c], Begun[c[1]])
          BY DEF Inv, Wires
      <4>2. Documents(Way(c), Begun[c[1]])
          BY <4>1, DocumentsConcat DEF Way
      <4>3. QED
          BY <1>3, <2>1, <3>1, <4>2 DEF Documents, Carries, Begun
    <3>3. c[1] = m
        BY <1>1, <1>3, <3>2 DEF Inv, Lives, OneInviter
    <3>4. c = c0
        BY <3>1, <3>3 DEF c0, Channel
    <3>5. QED
        BY <1>6, <1>7, <3>1, <3>4
  <2>4. QED
      BY <1>3, <1>5, <2>2, <2>3 DEF Draws
<1>12. Heard'
  <2> SUFFICES ASSUME NEW c \in Channel, NEW x \in sessions'[c[2]], x.peer = c[1]
               PROVE  got[c[2]][x.session] \o Numbers(Way(c)', x.session)
                        = Upto(sent[c[1]][x.session])
      BY <1>2 DEF Heard, Upto
  <2>1. CASE x \in sessions[c[2]]
    <3>1. x.session \in Session
        BY <1>3, <2>1, SessionType
    <3>2. got[c[2]][x.session] \o Numbers(Way(c), x.session) = Upto(sent[c[1]][x.session])
        BY <2>1 DEF Drawings, Heard
    <3>3. Numbers(Way(c)', x.session) = Numbers(Way(c), x.session)
        BY <1>5, <3>1 DEF Draws
    <3>4. QED
        BY <3>2, <3>3
  <2>2. CASE c[2] = n /\ x = h
    <3>1. c = c0 /\ c[1] = m /\ x.session = s
        BY <1>4, <2>2 DEF c0, Channel
    <3>2. Numbers(Way(c0)', s) = Numbers(Way(c0), s) /\ Way(c0) \in Seq(Message)
        BY <1>5, <3>1, WayType DEF Draws
    <3>3. Numbers(Way(c0), s) \in Seq(Nat)
        BY <3>2, NumbersType
    <3>4. <<>> \o Numbers(Way(c0), s) = Numbers(Way(c0), s)
        BY <3>3, ConcatEmptySeq
    <3>5. QED
        BY <1>7, <2>2, <3>1, <3>2, <3>4
  <2>3. QED
      BY <1>3, <2>1, <2>2
<1>13. QED
    BY <1>8, <1>9, <1>10, <1>11, <1>12 DEF Drawings

\* The inviter opens the session: nobody has drawn in it.
LEMMA ReceiveAcceptDrawings ==
    ASSUME Inv, Departures, Drawings, NEW n \in Node, NEW m \in Node, NEW s \in Session,
           ReceiveAccept(m, n, s), InState(n, s, m, "InvitationSent")
    PROVE  Drawings'
<1> DEFINE h == [session |-> s, peer |-> m]
           msg == Msg("document", s)
           c0 == <<n, m>>
<1>1. /\ sessions' = [sessions EXCEPT ![n] = @ \cup {h}]
      /\ opened'   = [opened EXCEPT ![n] = @ \cup {s}]
      /\ Arrives(m, n, "accept", s) /\ Send(Taken(m, n), n, Only(m, msg))
      /\ UNCHANGED <<invited, sent, got>>
    BY DEF ReceiveAccept, edits
<1>2. m # n /\ c0 \in Channel /\ <<m, n>> \in Channel
    BY <1>1 DEF Arrives, Channel
<1>3. /\ \A k \in Node : \A x \in sessions'[k] : x \in sessions[k] \/ (k = n /\ x = h)
      /\ \A k \in Node : \A t \in opened'[k] : t \in opened[k] \/ (k = n /\ t = s)
      /\ \A k \in Node : opened[k] \subseteq opened'[k]
      /\ \A c \in Channel : c[1] \in Node /\ c[2] \in Node /\ c[1] # c[2]
    BY <1>1 DEF Inv, TypeState, Channel
<1>4. msg \in Message /\ msg.kind = "document" /\ msg.session = s
    BY MsgType
<1> HIDE DEF h, msg
<1>5. h.session = s /\ h.peer = m
    BY DEF h
<1>6. s \in invited[n] /\ s \notin opened[n]
    BY DEF Inv, Lives, PendingInvitation, InState
<1>7. \A k \in Node : s \notin opened[k]
    BY <1>6 DEF Inv, Lives, OpenedByInviter, OneInviter
<1>8. \A k \in Node : \A x \in sessions[k] : x.session # s
    BY <1>7 DEF Departures, Settled
<1>9. \A c \in Channel : ~Carries(Way(c), "document", s) /\ ~Carries(Way(c), "edit", s)
  <2> SUFFICES ASSUME NEW c \in Channel
               PROVE  ~Carries(Way(c), "document", s) /\ ~Carries(Way(c), "edit", s)
      OBVIOUS
  <2>1. /\ wire[c] \in Seq(Message) /\ queued[c] \in Seq(Message)
        /\ Documents(wire[c], Begun[c[1]]) /\ Documents(queued[c], Begun[c[1]])
        /\ s \notin Begun[c[1]]
      BY <1>3, <1>7 DEF Inv, Wires, Begun
  <2>2. Documents(Way(c), Begun[c[1]])
      BY <2>1, DocumentsConcat DEF Way
  <2>3. ~Carries(Way(c), "document", s)
      BY <2>1, <2>2 DEF Documents, Carries
  <2>4. ~Carries(Way(c), "edit", s)
      BY <1>3, <1>7 DEF Drawings, EditsBacked
  <2>5. QED
      BY <2>3, <2>4
<1>10. \A k \in Node : got[k][s] = <<>> /\ sent[k][s] = 0
    BY <1>7 DEF Drawings, Unopened
<1> DEFINE R(c) == Taken(m, n)[c] \o queued[c]
<1>11. ASSUME NEW c \in Channel
       PROVE  /\ R(c) \in Seq(Message) /\ Draws(Way(c), R(c))
              /\ c # c0 => Way(c)' = R(c)
              /\ c = c0 => Way(c)' = R(c) \o <<msg>>
  <2>1. /\ wire \in [Channel -> Seq(Message)] /\ queued \in [Channel -> Seq(Message)]
        /\ Taken(m, n) \in [Channel -> Seq(Message)]
      BY <1>1, TakenHere DEF Inv, Wires
  <2>2. Taken(m, n)[c] \in Seq(Message) /\ queued[c] \in Seq(Message)
      BY <2>1
  <2>3. R(c) \in Seq(Message)
      BY <2>2, ConcatProperties
  <2>4. Draws(Way(c), R(c))
      BY <1>1, TakenDraws
  <2>5. Only(m, msg) \in [Node -> Seq(Message)]
      BY <1>4 DEF Only
  <2>6. Way(c)' = IF c[1] = n THEN R(c) \o Only(m, msg)[c[2]] ELSE R(c)
      BY <1>1, <2>1, <2>5, SendWay
  <2>7. Only(m, msg)[c[2]] = IF c[2] = m THEN <<msg>> ELSE <<>>
      BY <1>3 DEF Only
  <2>8. R(c) \o <<>> = R(c)
      BY <2>3, ConcatEmptySeq
  <2>9. c = c0 <=> c[1] = n /\ c[2] = m
      BY DEF Channel, c0
  <2> HIDE DEF R, c0
  <2>10. QED
      BY <2>3, <2>4, <2>6, <2>7, <2>8, <2>9
<1> HIDE DEF R, c0
<1>12. \A t \in Session : /\ Numbers(<<msg>>, t) = <<>> /\ ~Carries(<<msg>>, "edit", t)
                          /\ Carries(<<msg>>, "document", t) <=> t = s
    BY <1>4, NumbersOne, OneCarried
<1>13. <<msg>> \in Seq(Message)
    BY <1>4
<1>14. ASSUME NEW c \in Channel, NEW t \in Session
       PROVE  /\ Carries(Way(c)', "edit", t) => Carries(Way(c), "edit", t)
              /\ Numbers(Way(c)', t) = Numbers(Way(c), t)
              /\ Carries(Way(c)', "document", t) =>
                     Carries(Way(c), "document", t) \/ (c = c0 /\ t = s)
              /\ t # s /\ Leads(Way(c), t) => Leads(Way(c)', t)
  <2>1. /\ Carries(R(c), "edit", t) => Carries(Way(c), "edit", t)
        /\ Carries(R(c), "document", t) => Carries(Way(c), "document", t)
        /\ Numbers(R(c), t) = Numbers(Way(c), t)
        /\ Leads(Way(c), t) => Leads(R(c), t)
      BY <1>11 DEF Draws
  <2>2. CASE c # c0
      BY <1>11, <2>1, <2>2
  <2>3. CASE c = c0
    <3> DEFINE q == R(c)
               u == <<msg>>
    <3>1. q \in Seq(Message) /\ u \in Seq(Message)
        BY <1>11, <1>13
    <3>2. ~Carries(u, "edit", t) /\ (Carries(u, "document", t) <=> t = s) /\ Numbers(u, t) = <<>>
        BY <1>12
    <3>3. Way(c)' = q \o u
        BY <1>11, <2>3
    <3>4. /\ Carries(q, "edit", t) => Carries(Way(c), "edit", t)
          /\ Carries(q, "document", t) => Carries(Way(c), "document", t)
          /\ Numbers(q, t) = Numbers(Way(c), t)
          /\ Leads(Way(c), t) => Leads(q, t)
        BY <2>1
    <3> HIDE DEF q, u
    <3>5. /\ Carries(q \o u, "edit", t) <=> Carries(q, "edit", t) \/ Carries(u, "edit", t)
          /\ Carries(q \o u, "document", t) <=>
                 Carries(q, "document", t) \/ Carries(u, "document", t)
        BY <3>1, JoinedCarries
    <3>6. Numbers(q \o u, t) = Numbers(q, t)
      <4>1. Numbers(q \o u, t) = Numbers(q, t) \o Numbers(u, t) /\ Numbers(q, t) \in Seq(Nat)
          BY <3>1, NumbersConcat, NumbersType
      <4>2. QED
          BY <3>2, <4>1, ConcatEmptySeq
    <3>7. t # s /\ Leads(q, t) => Leads(q \o u, t)
        BY <3>1, <3>2, JoinedLeads
    <3>8. QED
        BY <2>3, <3>2, <3>3, <3>4, <3>5, <3>6, <3>7
  <2>4. QED
      BY <2>2, <2>3
<1>15. Unopened'
    BY <1>1, <1>3 DEF Drawings, Unopened
<1>16. EditsBacked'
  <2> SUFFICES ASSUME NEW c \in Channel, NEW t \in Session, Carries(Way(c)', "edit", t)
               PROVE  t \in opened'[c[1]] /\ t \in invited[c[1]] \cup invited[c[2]]
      BY <1>1 DEF EditsBacked
  <2>1. Carries(Way(c), "edit", t)
      BY <1>14
  <2>2. QED
      BY <1>3, <2>1 DEF Drawings, EditsBacked
<1>17. OneGuest'
  <2> SUFFICES ASSUME NEW k \in Node, NEW y \in sessions'[k], y.session \in invited[k],
                      NEW j \in Node \ {k}, y.session \in opened'[j]
               PROVE  j = y.peer
      BY <1>1 DEF OneGuest
  <2>1. CASE y.session = s
      BY <1>3, <1>6, <1>7, <2>1 DEF Inv, Lives, OneInviter
  <2>2. CASE y.session # s
      BY <1>3, <1>5, <2>2 DEF Drawings, OneGuest
  <2>3. QED
      BY <2>1, <2>2
<1>18. Unheard'
  <2> SUFFICES ASSUME NEW c \in Channel, NEW t \in Session, Carries(Way(c)', "document", t)
               PROVE  /\ t \notin opened'[c[2]] /\ Leads(Way(c)', t)
                      /\ Numbers(Way(c)', t) = Upto(sent[c[1]][t])
      BY <1>1 DEF Unheard, Upto
  <2>1. CASE Carries(Way(c), "document", t)
    <3>1. t # s
        BY <1>9, <2>1
    <3>2. t \notin opened[c[2]] /\ Leads(Way(c), t) /\ Numbers(Way(c), t) = Upto(sent[c[1]][t])
        BY <2>1 DEF Drawings, Unheard
    <3>3. QED
        BY <1>3, <1>14, <3>1, <3>2
  <2>2. CASE c = c0 /\ t = s
    <3>1. c[1] = n /\ c[2] = m
        BY <2>2 DEF c0
    <3>2. t \notin opened'[c[2]]
        BY <1>2, <1>3, <1>7, <2>2, <3>1
    <3>3. Numbers(Way(c)', t) = <<>>
        BY <1>9, <1>14, <2>2, WayType, NumbersNone
    <3>4. Upto(sent[c[1]][t]) = <<>>
        BY <1>10, <2>2, <3>1 DEF Upto
    <3>5. Leads(Way(c)', t)
      <4> DEFINE q == R(c)
                 r == q \o <<msg>>
      <4>1. q \in Seq(Message) /\ ~Carries(q, "document", s) /\ ~Carries(q, "edit", s)
          BY <1>9, <1>11, <2>2 DEF Draws
      <4> HIDE DEF q
      <4>2. /\ Len(r) = Len(q) + 1 /\ Len(q) \in Nat
            /\ \A i \in 1 .. Len(q) : r[i] = q[i]
          BY <1>13, <4>1, ConcatProperties, LenProperties
      <4> HIDE DEF r
      <4>3. \A i \in 1 .. Len(q) : ~(r[i].session = s /\ r[i].kind \in {"document", "edit"})
          BY <4>1, <4>2 DEF Carries
      <4>4. \A i, j \in 1 .. Len(r) : i < j => i \in 1 .. Len(q)
          BY <4>2
      <4>5. Leads(r, s)
          BY <4>3, <4>4 DEF Leads
      <4>6. Way(c)' = r
          BY <1>11, <2>2 DEF q, r
      <4>7. QED
          BY <2>2, <4>5, <4>6
    <3>6. QED
        BY <3>2, <3>3, <3>4, <3>5
  <2>3. QED
      BY <1>14, <2>1, <2>2
<1>19. Heard'
  <2> SUFFICES ASSUME NEW c \in Channel, NEW x \in sessions'[c[2]], x.peer = c[1]
               PROVE  got[c[2]][x.session] \o Numbers(Way(c)', x.session)
                        = Upto(sent[c[1]][x.session])
      BY <1>1 DEF Heard, Upto
  <2>1. CASE x \in sessions[c[2]]
    <3>1. x.session \in Session
        BY <1>3, <2>1, SessionType
    <3>2. got[c[2]][x.session] \o Numbers(Way(c), x.session) = Upto(sent[c[1]][x.session])
        BY <2>1 DEF Drawings, Heard
    <3>3. Numbers(Way(c)', x.session) = Numbers(Way(c), x.session)
        BY <1>14, <3>1
    <3>4. QED
        BY <3>2, <3>3
  <2>2. CASE c[2] = n /\ x = h
    <3>1. Numbers(Way(c)', s) = <<>>
        BY <1>9, <1>14, WayType, NumbersNone
    <3>2. got[c[2]][s] = <<>> /\ sent[c[1]][s] = 0
        BY <1>3, <1>10
    <3>3. <<>> \o <<>> = <<>> /\ Upto(0) = <<>>
        BY DEF Upto
    <3>4. x.session = s
        BY <1>5, <2>2
    <3>5. QED
        BY <3>1, <3>2, <3>3, <3>4
  <2>3. QED
      BY <1>3, <2>1, <2>2
<1>20. QED
    BY <1>15, <1>16, <1>17, <1>18, <1>19 DEF Drawings

\* A client draws: only its partner has the session, or will open it.
LEMMA SendEditsDrawings ==
    ASSUME Inv, Departures, Drawings, NEW n \in Node, NEW x \in sessions[n], SendEdits(n, x)
    PROVE  Drawings'
<1> DEFINE s   == x.session
           p   == x.peer
           k   == sent[n][s] + 1
           msg == [kind |-> "edit", session |-> s, n |-> k]
<1>1. s \in Session /\ p \in Node /\ s \in opened[n] /\ s \in invited[n] \cup invited[p]
    BY SessionType DEF Departures, Settled
<1>2. sent[n][s] \in Nat /\ k \in 0 .. MaxEdits
    BY <1>1, MaxEditsAssumption DEF Inv, TypeState, SendEdits
<1>3. sent'[n][s] = k /\ sent' = [sent EXCEPT ![n][s] = k]
    BY <1>1 DEF SendEdits, Inv, TypeState
<1>4. /\ msg \in Message /\ msg.kind = "edit" /\ msg.session = s /\ msg.n = k
      /\ <<msg>> \in Seq(Message)
    BY <1>1, <1>2 DEF Message
<1>5. Send(wire, n, Only(p, msg)) /\ Only(p, msg) \in [Node -> Seq(Message)]
  <2>1. Send(wire, n, Only(p, msg))
      BY <1>3 DEF SendEdits
  <2>2. QED
      BY <1>4, <2>1 DEF Only
<1>6. UNCHANGED <<sessions, opened, got, invited>>
    BY DEF SendEdits, state, past
<1> HIDE DEF k, msg
<1>7. \A c \in Channel : c[1] \in Node /\ c[2] \in Node /\ c[1] # c[2]
    BY DEF Channel
<1>8. \A c \in Channel : Way(c)' = IF c[1] = n /\ c[2] = p THEN Way(c) \o <<msg>> ELSE Way(c)
  <2> SUFFICES ASSUME NEW c \in Channel
               PROVE  Way(c)' = IF c[1] = n /\ c[2] = p THEN Way(c) \o <<msg>> ELSE Way(c)
      OBVIOUS
  <2>1. Way(c)' = IF c[1] = n THEN Way(c) \o Only(p, msg)[c[2]] ELSE Way(c)
      BY <1>5, SentWay
  <2>2. Only(p, msg)[c[2]] = IF c[2] = p THEN <<msg>> ELSE <<>>
      BY <1>7 DEF Only
  <2>3. Way(c) \o <<>> = Way(c)
      BY WayType, ConcatEmptySeq
  <2>4. QED
      BY <2>1, <2>2, <2>3
<1>9. ASSUME NEW c \in Channel, NEW t \in Session
      PROVE  /\ Carries(Way(c)', "document", t) => Carries(Way(c), "document", t)
             /\ Leads(Way(c), t) => Leads(Way(c)', t)
             /\ Carries(Way(c)', "edit", t) =>
                    Carries(Way(c), "edit", t) \/ (c[1] = n /\ c[2] = p /\ t = s)
             /\ ~(c[1] = n /\ c[2] = p /\ t = s) => Numbers(Way(c)', t) = Numbers(Way(c), t)
             /\ c[1] = n /\ c[2] = p /\ t = s => Numbers(Way(c)', t) = Numbers(Way(c), t) \o <<k>>
  <2>1. CASE ~(c[1] = n /\ c[2] = p)
      BY <1>8, <2>1
  <2>2. CASE c[1] = n /\ c[2] = p
    <3> DEFINE q == Way(c)
               u == <<msg>>
    <3>1. q \in Seq(Message) /\ u \in Seq(Message)
        BY <1>4, WayType
    <3>2. /\ ~Carries(u, "document", t) /\ (Carries(u, "edit", t) <=> t = s)
          /\ Numbers(u, t) = IF t = s THEN <<k>> ELSE <<>>
        BY <1>4, NumbersOne, OneCarried
    <3>3. Way(c)' = q \o u
        BY <1>8, <2>2
    <3> HIDE DEF q, u
    <3>4. /\ Carries(q \o u, "edit", t) <=> Carries(q, "edit", t) \/ Carries(u, "edit", t)
          /\ Carries(q \o u, "document", t) <=>
                 Carries(q, "document", t) \/ Carries(u, "document", t)
        BY <3>1, JoinedCarries
    <3>5. Numbers(q \o u, t) = Numbers(q, t) \o Numbers(u, t) /\ Numbers(q, t) \in Seq(Nat)
        BY <3>1, NumbersConcat, NumbersType
    <3>6. Numbers(q, t) \o <<>> = Numbers(q, t)
        BY <3>5, ConcatEmptySeq
    <3>7. Leads(q, t) => Leads(q \o u, t)
        BY <3>1, <3>2, JoinedLeads
    <3>8. /\ Carries(q \o u, "document", t) => Carries(q, "document", t)
          /\ Leads(q, t) => Leads(q \o u, t)
          /\ Carries(q \o u, "edit", t) => Carries(q, "edit", t) \/ t = s
          /\ t # s => Numbers(q \o u, t) = Numbers(q, t)
          /\ t = s => Numbers(q \o u, t) = Numbers(q, t) \o <<k>>
        BY <3>2, <3>4, <3>5, <3>6, <3>7
    <3>9. QED
        BY <2>2, <3>3, <3>8 DEF q
  <2>3. QED
      BY <2>1, <2>2
<1>10. Upto(sent[n][s]) \o <<k>> = Upto(k)
    BY <1>2 DEF Upto, k
<1>11. \A j \in Node, t \in Session : ~(j = n /\ t = s) => sent'[j][t] = sent[j][t]
    BY <1>1, <1>3 DEF Inv, TypeState
<1>12. Unopened'
    BY <1>1, <1>6, <1>11 DEF Drawings, Unopened
<1>13. EditsBacked'
  <2> SUFFICES ASSUME NEW c \in Channel, NEW t \in Session, Carries(Way(c)', "edit", t)
               PROVE  t \in opened[c[1]] /\ t \in invited[c[1]] \cup invited[c[2]]
      BY <1>6 DEF EditsBacked
  <2>1. QED
      BY <1>1, <1>9 DEF Drawings, EditsBacked
<1>14. OneGuest'
    BY <1>6 DEF Drawings, OneGuest
<1>15. Unheard'
  <2> SUFFICES ASSUME NEW c \in Channel, NEW t \in Session, Carries(Way(c)', "document", t)
               PROVE  /\ t \notin opened[c[2]] /\ Leads(Way(c)', t)
                      /\ Numbers(Way(c)', t) = Upto(sent'[c[1]][t])
      BY <1>6 DEF Unheard, Upto
  <2>1. Carries(Way(c), "document", t)
      BY <1>9
  <2>2. t \notin opened[c[2]] /\ Leads(Way(c), t) /\ Numbers(Way(c), t) = Upto(sent[c[1]][t])
      BY <2>1 DEF Drawings, Unheard
  <2>3. CASE c[1] = n /\ t = s
    <3>1. s \in invited[n]
      <4>1. /\ wire[c] \in Seq(Message) /\ queued[c] \in Seq(Message)
            /\ Documents(wire[c], Begun[c[1]]) /\ Documents(queued[c], Begun[c[1]])
          BY DEF Inv, Wires
      <4>2. Documents(Way(c), Begun[c[1]])
          BY <4>1, DocumentsConcat DEF Way
      <4>3. QED
          BY <1>7, <2>1, <2>3, <4>2 DEF Documents, Carries, Begun
    <3>2. c[2] = p
        BY <2>1, <2>3, <3>1 DEF Departures, OnePartner
    <3>3. Numbers(Way(c)', t) = Upto(sent[n][s]) \o <<k>>
        BY <1>9, <2>2, <2>3, <3>2
    <3>4. QED
        BY <1>3, <1>9, <1>10, <2>2, <2>3, <3>3
  <2>4. CASE ~(c[1] = n /\ t = s)
      BY <1>7, <1>9, <1>11, <2>2, <2>4
  <2>5. QED
      BY <2>3, <2>4
<1>16. Heard'
  <2> SUFFICES ASSUME NEW c \in Channel, NEW y \in sessions[c[2]], y.peer = c[1]
               PROVE  got[c[2]][y.session] \o Numbers(Way(c)', y.session)
                        = Upto(sent'[c[1]][y.session])
      BY <1>6 DEF Heard, Upto
  <2>1. y.session \in Session
      BY <1>7, SessionType
  <2>2. got[c[2]][y.session] \o Numbers(Way(c), y.session) = Upto(sent[c[1]][y.session])
      BY DEF Drawings, Heard
  <2>3. CASE c[1] = n /\ y.session = s
    <3>1. s \in opened[c[2]] /\ s \in invited[c[2]] \cup invited[n]
        BY <1>7, <2>3 DEF Departures, Settled
    <3>2. c[2] = p
      <4>1. CASE s \in invited[n]
          BY <1>7, <2>3, <3>1, <4>1 DEF Drawings, OneGuest
      <4>2. CASE s \notin invited[n]
          BY <1>1, <1>7, <3>1, <4>2 DEF Inv, Lives, OneInviter
      <4>3. QED
          BY <4>1, <4>2
    <3> DEFINE g == got[c[2]][s]
               w == Numbers(Way(c), s)
               e == <<k>>
    <3>3. g \in Seq(Nat) /\ w \in Seq(Nat) /\ e \in Seq(Nat)
      <4>1. g \in Seq(Nat)
          BY <1>1, <1>7, GotType
      <4>2. w \in Seq(Nat)
          BY WayType, NumbersType
      <4>3. QED
          BY <1>2, <4>1, <4>2 DEF k
    <3>4. Numbers(Way(c)', s) = w \o e /\ g \o w = Upto(sent[n][s])
        BY <1>1, <1>9, <2>2, <2>3, <3>2
    <3> HIDE DEF g, w, e
    <3>6. (g \o w) \o e = g \o (w \o e)
        BY <3>3, NumbersAssociate
    <3>7. g \o Numbers(Way(c)', s) = Upto(k)
        BY <1>10, <3>4, <3>6 DEF e
    <3>8. QED
        BY <1>3, <2>3, <3>7 DEF g
  <2>4. CASE ~(c[1] = n /\ y.session = s)
    <3>1. sent'[c[1]][y.session] = sent[c[1]][y.session]
        BY <1>7, <1>11, <2>1, <2>4
    <3>2. Numbers(Way(c)', y.session) = Numbers(Way(c), y.session)
        BY <1>9, <2>1, <2>4
    <3>3. QED
        BY <2>2, <3>1, <3>2
  <2>5. QED
      BY <2>3, <2>4
<1>17. QED
    BY <1>12, <1>13, <1>14, <1>15, <1>16 DEF Drawings

\* Edits arrive: those of a session the client has come from its partner, and
\* those of another are not before a document of it.
LEMMA ReceiveEditsDrawings ==
    ASSUME Inv, Departures, Drawings, NEW n \in Node, NEW m \in Node, NEW s \in Session,
           ReceiveEdits(m, n, s)
    PROVE  Drawings'
<1> DEFINE c0 == <<m, n>>
           w  == wire[c0]
           z  == queued[c0]
           k  == Head(w).n
<1>1. /\ Arrives(m, n, "edit", s) /\ Silent(m, n) /\ c0 \in Channel /\ m # n
      /\ UNCHANGED <<sessions, opened, sent, invited>>
    BY DEF ReceiveEdits, Arrives, Channel, state, past
<1>2. \A c \in Channel : c[1] \in Node /\ c[2] \in Node /\ c[1] # c[2]
    BY DEF Channel
<1>3. /\ w \in Seq(Message) /\ z \in Seq(Message) /\ w # <<>> /\ Way(c0) = w \o z
      /\ Head(w).kind = "edit" /\ Head(w).session = s /\ Head(w) \in Message
  <2>1. w \in Seq(Message) /\ z \in Seq(Message) /\ Way(c0) = w \o z
      BY <1>1, WayType DEF Way
  <2>2. w # <<>> /\ Head(w).kind = "edit" /\ Head(w).session = s
      BY <1>1, TakenHere
  <2>3. Head(w) \in Message
      BY <2>1, <2>2
  <2>4. QED
      BY <2>1, <2>2, <2>3
<1>4. Way(c0)' = Tail(w) \o z
  <2>1. Way(c0)' = Taken(m, n)[c0] \o queued[c0]
      BY <1>1 DEF Way, Silent
  <2>2. Taken(m, n)[c0] = Tail(w)
      BY <1>1, TakenHere
  <2>3. QED
      BY <2>1, <2>2
<1>5. \A c \in Channel : c # c0 => Way(c)' = Way(c)
  <2> SUFFICES ASSUME NEW c \in Channel, c # c0 PROVE Way(c)' = Way(c)
      OBVIOUS
  <2>1. Way(c)' = Taken(m, n)[c] \o queued[c]
      BY <1>1 DEF Way, Silent
  <2>2. QED
      BY <1>1, <2>1, TakenElsewhere
<1>6. /\ got' = IF Known(n, s) THEN [got EXCEPT ![n][s] = Append(@, k)] ELSE got
      /\ k \in Nat
  <2>1. k \in Nat
      BY <1>3, MaxEditsAssumption DEF Message
  <2>2. QED
      BY <2>1 DEF ReceiveEdits
<1>7. c0[1] = m /\ c0[2] = n
    OBVIOUS
<1> HIDE DEF c0, w, z, k
<1>8. \A t \in Session :
          /\ Carries(Way(c0)', "document", t) => Carries(Way(c0), "document", t)
          /\ Carries(Way(c0)', "edit", t) => Carries(Way(c0), "edit", t)
          /\ Leads(Way(c0), t) => Leads(Way(c0)', t)
          /\ Leads(Way(c0), s) => ~Carries(Way(c0)', "document", s)
          /\ t # s => Numbers(Way(c0)', t) = Numbers(Way(c0), t)
          /\ Numbers(Way(c0), s) = <<k>> \o Numbers(Way(c0)', s)
          /\ Way(c0)' \in Seq(Message)
  <2> SUFFICES ASSUME NEW t \in Session
               PROVE  /\ Carries(Tail(w) \o z, "document", t) => Carries(w \o z, "document", t)
                      /\ Carries(Tail(w) \o z, "edit", t) => Carries(w \o z, "edit", t)
                      /\ Leads(w \o z, t) => Leads(Tail(w) \o z, t)
                      /\ Leads(w \o z, s) => ~Carries(Tail(w) \o z, "document", s)
                      /\ t # s => Numbers(Tail(w) \o z, t) = Numbers(w \o z, t)
                      /\ Numbers(w \o z, s) = <<k>> \o Numbers(Tail(w) \o z, s)
                      /\ Tail(w) \o z \in Seq(Message)
      BY <1>3, <1>4
  <2>1. /\ Carries(Tail(w) \o z, "document", t) => Carries(w \o z, "document", t)
        /\ Carries(Tail(w) \o z, "edit", t) => Carries(w \o z, "edit", t)
      BY <1>3, TakenCarries
  <2>2. /\ Leads(w \o z, t) => Leads(Tail(w) \o z, t)
        /\ Leads(w \o z, s) => ~Carries(Tail(w) \o z, "document", s)
        /\ Tail(w) \o z \in Seq(Message)
      BY <1>3, TakenNumbers
  <2>3. /\ Numbers(w \o z, t) = Numbers(<<Head(w)>>, t) \o Numbers(Tail(w) \o z, t)
        /\ Numbers(w \o z, s) = Numbers(<<Head(w)>>, s) \o Numbers(Tail(w) \o z, s)
      BY <1>3, TakenNumbers
  <2>4. /\ Numbers(<<Head(w)>>, s) = <<k>>
        /\ t # s => Numbers(<<Head(w)>>, t) = <<>>
      BY <1>3, NumbersOne DEF k
  <2>5. Numbers(Tail(w) \o z, t) \in Seq(Nat)
      BY <2>2, NumbersType
  <2>6. <<>> \o Numbers(Tail(w) \o z, t) = Numbers(Tail(w) \o z, t)
      BY <2>5, ConcatEmptySeq
  <2>7. QED
      BY <2>1, <2>2, <2>3, <2>4, <2>6
<1>9. Carries(Way(c0), "edit", s)
  <2>1. Carries(w \o z, "edit", s)
      BY <1>3, TakenCarries
  <2>2. QED
      BY <1>3, <2>1
<1>10. s \in opened[m] /\ s \in invited[m] \cup invited[n]
    BY <1>1, <1>7, <1>9 DEF Drawings, EditsBacked
<1>11. \A j \in Node, t \in Session : ~(j = n /\ t = s /\ Known(n, s)) => got'[j][t] = got[j][t]
    BY <1>6 DEF Inv, TypeState
<1>12. Unopened'
  <2>1. Known(n, s) => s \in opened[n]
      BY DEF Known, Departures, Settled
  <2>2. QED
      BY <1>1, <1>11, <2>1 DEF Drawings, Unopened
<1>13. EditsBacked'
  <2> SUFFICES ASSUME NEW c \in Channel, NEW t \in Session, Carries(Way(c)', "edit", t)
               PROVE  t \in opened[c[1]] /\ t \in invited[c[1]] \cup invited[c[2]]
      BY <1>1 DEF EditsBacked
  <2>1. Carries(Way(c), "edit", t)
      BY <1>5, <1>8
  <2>2. QED
      BY <2>1 DEF Drawings, EditsBacked
<1>14. OneGuest'
    BY <1>1 DEF Drawings, OneGuest
<1>15. Unheard'
  <2> SUFFICES ASSUME NEW c \in Channel, NEW t \in Session, Carries(Way(c)', "document", t)
               PROVE  /\ t \notin opened[c[2]] /\ Leads(Way(c)', t)
                      /\ Numbers(Way(c)', t) = Upto(sent[c[1]][t])
      BY <1>1 DEF Unheard, Upto
  <2>1. Carries(Way(c), "document", t)
      BY <1>5, <1>8
  <2>2. t \notin opened[c[2]] /\ Leads(Way(c), t) /\ Numbers(Way(c), t) = Upto(sent[c[1]][t])
      BY <2>1 DEF Drawings, Unheard
  <2>3. QED
      BY <1>5, <1>8, <2>2
<1>16. Heard'
  <2> SUFFICES ASSUME NEW c \in Channel, NEW x \in sessions[c[2]], x.peer = c[1]
               PROVE  got'[c[2]][x.session] \o Numbers(Way(c)', x.session)
                        = Upto(sent[c[1]][x.session])
      BY <1>1 DEF Heard, Upto
  <2>1. x.session \in Session
      BY <1>2, SessionType
  <2>2. got[c[2]][x.session] \o Numbers(Way(c), x.session) = Upto(sent[c[1]][x.session])
      BY DEF Drawings, Heard
  <2>3. CASE c[2] = n /\ x.session = s
    <3>1. Known(n, s)
        BY <2>3 DEF Known
    <3>2. c[1] = m
      <4>1. CASE s \in invited[n]
          BY <1>1, <1>2, <1>10, <2>3, <4>1 DEF Drawings, OneGuest
      <4>2. CASE s \notin invited[n]
        <5>1. s \in invited[m] /\ s \in invited[c[1]]
            BY <1>2, <1>10, <2>3, <4>2 DEF Departures, Settled
        <5>2. QED
            BY <1>2, <5>1 DEF Inv, Lives, OneInviter
      <4>3. QED
          BY <4>1, <4>2
    <3>3. c = c0
        BY <2>3, <3>2 DEF c0, Channel
    <3> DEFINE g == got[n][s]
               v == Numbers(Way(c0)', s)
               e == <<k>>
    <3>4. g \in Seq(Nat) /\ v \in Seq(Nat) /\ e \in Seq(Nat)
      <4>1. g \in Seq(Nat)
          BY GotType
      <4>2. v \in Seq(Nat)
          BY <1>8, NumbersType
      <4>3. QED
          BY <1>6, <4>1, <4>2
    <3>5. got'[n][s] = Append(g, k)
        BY <1>6, <3>1 DEF Inv, TypeState
    <3>6. Append(g, k) = g \o e
        BY <1>6, <3>4, AppendIsConcat
    <3>7. Numbers(Way(c0), s) = e \o v
        BY <1>8
    <3> HIDE DEF g, v, e
    <3>8. (g \o e) \o v = g \o (e \o v)
        BY <3>4, NumbersAssociate
    <3>9. g \o (e \o v) = Upto(sent[m][s])
        BY <1>7, <2>2, <2>3, <3>2, <3>3, <3>7 DEF g
    <3>10. got'[n][s] \o v = Upto(sent[m][s])
        BY <3>5, <3>6, <3>8, <3>9
    <3>11. QED
        BY <2>3, <3>2, <3>3, <3>10 DEF v
  <2>4. CASE ~(c[2] = n /\ x.session = s)
    <3>1. got'[c[2]][x.session] = got[c[2]][x.session]
        BY <1>2, <1>11, <2>1, <2>4
    <3>2. Numbers(Way(c)', x.session) = Numbers(Way(c), x.session)
        BY <1>5, <1>7, <1>8, <2>1, <2>4
    <3>3. QED
        BY <2>2, <3>1, <3>2
  <2>5. QED
      BY <2>3, <2>4
<1>17. QED
    BY <1>12, <1>13, <1>14, <1>15, <1>16 DEF Drawings

-----------------------------------------------------------------------------
(* The theorems.                                                           *)

LEMMA InitDrawings == Init => Drawings
<1> SUFFICES ASSUME Init PROVE Drawings
    OBVIOUS
<1>1. ASSUME NEW c \in Channel PROVE Way(c) = <<>> /\ c[1] \in Node /\ c[2] \in Node
  <2>1. Way(c) = <<>> \o <<>> /\ <<>> \in Seq(Message)
      BY DEF Init, Way
  <2>2. QED
      BY <2>1, ConcatEmptySeq DEF Channel
<1>2. Unopened /\ OneGuest /\ Heard
    BY <1>1 DEF Init, Unopened, OneGuest, Heard
<1>3. EditsBacked /\ Unheard
    BY <1>1 DEF EditsBacked, Unheard, Carries
<1>4. QED
    BY <1>2, <1>3 DEF Drawings

\* What the order of the edits rests on: edits belong to the two clients of an
\* open session, the document comes before all edits made since, and what a client
\* with the session has drawn for the other and what is on its way to it are the
\* other's edits from the first to the last.
THEOREM DrawingsHold == Spec => []Drawings
<1>1. ASSUME Inv, Departures, Drawings, [Next]_vars PROVE Drawings'
  <2>1. CASE UNCHANGED vars
      BY <1>1, <2>1, UndrawnIdle, IdlePreserves DEF vars, state, edits, past
  <2>2. ASSUME NEW n \in Node, NEW p \in Node, OpenWhiteboard(n, p) PROVE Drawings'
      BY <1>1, <2>2, UndrawnIdle, IdlePreserves DEF OpenWhiteboard, edits, past
  <2>3. ASSUME NEW n \in Node, NEW s \in Session, StartNewSession(n, s) PROVE Drawings'
      BY <1>1, <2>3, StartNewSessionIdle, IdlePreserves
  <2>4. ASSUME NEW n \in Node, NEW m \in Node, NEW s \in Session, Receive(m, n, s)
        PROVE  Drawings'
    <3>1. CASE ReceiveInvitation(m, n, s)
        BY <1>1, <3>1, ReceiveIdle, IdlePreserves DEF ReceiveInvitation, edits, past
    <3>2. CASE ReceiveAccept(m, n, s)
      <4>1. CASE InState(n, s, m, "InvitationSent")
          BY <1>1, <3>2, <4>1, ReceiveAcceptDrawings
      <4>2. CASE ~InState(n, s, m, "InvitationSent")
          BY <1>1, <3>2, <4>2, ReceiveIdle, IdlePreserves DEF ReceiveAccept, edits
      <4>3. QED
          BY <4>1, <4>2
    <3>3. CASE ReceiveDocument(m, n, s)
      <4>1. CASE InState(n, s, m, "InvitationAccepted")
          BY <1>1, <3>3, <4>1, ReceiveDocumentDrawings
      <4>2. CASE ~InState(n, s, m, "InvitationAccepted")
          BY <1>1, <3>3, <4>2, ReceiveIdle, IdlePreserves DEF ReceiveDocument, edits
      <4>3. QED
          BY <4>1, <4>2
    <3>4. CASE ReceiveAbort(m, n, s)
        BY <1>1, <3>4, ReceiveIdle, IdlePreserves DEF ReceiveAbort, edits
    <3>5. CASE ReceiveLeft(m, n, s)
        BY <1>1, <3>5, ReceiveIdle, IdlePreserves DEF ReceiveLeft, edits, past
    <3>6. CASE ReceiveEdits(m, n, s)
        BY <1>1, <3>6, ReceiveEditsDrawings
    <3>7. QED
        BY <2>4, <3>1, <3>2, <3>3, <3>4, <3>5, <3>6 DEF Receive
  <2>5. ASSUME NEW n \in Node, NEW b \in BOOLEAN, Answer(n, b) \/ AnswerDeleted(n, b)
        PROVE  Drawings'
      BY <1>1, <2>5, AnswersIdle, IdlePreserves
  <2>6. ASSUME NEW n \in Node, NEW x \in sessions[n], SendEdits(n, x) \/ EndSession(n, x)
        PROVE  Drawings'
      BY <1>1, <2>6, SendEditsDrawings, EndSessionIdle, IdlePreserves
  <2>7. ASSUME NEW n \in Node, NegotiationTimeout(n) PROVE Drawings'
      BY <1>1, <2>7, NegotiationTimeoutIdle, IdlePreserves
  <2>8. ASSUME NEW n \in Node, Reconnect(n) PROVE Drawings'
      BY <1>1, <2>8, UndrawnIdle, IdlePreserves DEF Reconnect, state, edits, past
  <2>9. QED
      BY <1>1, <2>1, <2>2, <2>3, <2>4, <2>5, <2>6, <2>7, <2>8 DEF Next
<1>2. Init => Drawings
    BY InitDrawings
<1>3. OpeningInvariant <=> Inv
    BY InvIsOpeningInvariant
<1>4. QED
    BY <1>1, <1>2, <1>3, OpeningInvariantHolds, DeparturesHold, PTL DEF Spec

\* Edits reach the other dialog each once and in the order they were made, from
\* the first, across connection losses: what has arrived, is on its way and waits
\* for the connection adds up to what was made.
THEOREM EditsInOrderHolds == Spec => []EditsInOrder
<1>1. Inv /\ Drawings => EditsInOrder
    BY HeardIsEditsInOrder DEF Drawings
<1>2. OpeningInvariant <=> Inv
    BY InvIsOpeningInvariant
<1>3. QED
    BY <1>1, <1>2, OpeningInvariantHolds, DrawingsHold, PTL
=============================================================================
