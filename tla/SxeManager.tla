----------------------------- MODULE SxeManager -----------------------------
(***************************************************************************)
(* Negotiation of SXE sessions between two contacts (sxe/sxemanager and    *)
(* the invitation dialog and dialog list of whiteboarding/wbmanager).      *)
(*                                                                         *)
(* One user opens a whiteboard and invites a contact; the contact's client *)
(* asks its user in a modal dialog and accepts; the inviter then creates   *)
(* the session and sends the whole document in one message, from which the *)
(* contact creates its own.  Nothing is sent again: what ends a            *)
(* negotiation that stalls is one timer per client, on either side.        *)
(*                                                                         *)
(* The dialog runs an event loop of its own inside the handler of the      *)
(* invitation, so messages and the timer are handled while the user thinks.*)
(*                                                                         *)
(* Not here: negotiations in a group chat and joining a running session    *)
(* (HistoryOffered, ConnectionRequested and HistoryAccepted): no caller of *)
(* joinSession exists, and a room has no capabilities for openWhiteboard   *)
(* to find.                                                                *)
(***************************************************************************)
EXTENDS Integers, SequencesExt, Selection

CONSTANTS
    Node,     \* the two contacts' clients; also their addresses
    Nobody,   \* no contact
    Session,  \* bound: the session identifiers generateUUID() may yield
    MaxEdits  \* bound: elements of edits a client sends in one session

ASSUME NobodyAssumption   == Nobody \notin Node
ASSUME SessionAssumption  == IsFiniteSet(Session)
ASSUME MaxEditsAssumption == MaxEdits \in Nat

VARIABLES
    negotiations, \* negotiations[n]: n's negotiations_
    sessions,     \* sessions[n]: n's sessions_, each shown in a dialog
    asking,       \* asking[n]: the invitation dialogs open at n, innermost first
    prompting,    \* prompting[n]: the contact n is about to invite
    timer,        \* timer[n]: negotiationTimer_ is running
    active,       \* active[n]: n's client is connected
    alive,        \* alive[n]: n's program has not crashed
    queued,       \* queued[c]: queuedMessages_ of c[1] that are for c[2]
    wire,         \* wire[c]: messages on their way from c[1] to c[2]
    sent,         \* sent[n][s]: number of edit elements n has made in s
    got,          \* got[n][s]: the edit elements n has processed in s
    told,         \* told[n]: sessions whose dialog says that the peer left
    invited,      \* history: sessions n started by inviting its contact
    opened,       \* history: sessions n emitted sessionNegotiated for
    abandoned     \* history: sessions n invited to and gave up before opening

state == <<negotiations, sessions, asking, prompting, timer, alive, told>>
net   == <<queued, wire>>
edits == <<sent, got>>
past  == <<invited, opened, abandoned>>
vars  == <<state, active, net, edits, past>>

Channel == {c \in Node \X Node : c[1] # c[2]}
Message == [kind : {"invitation", "accept", "document", "abort", "left", "edit"},
            session : Session, n : 0 .. MaxEdits]

\* Between two messages a negotiation is in one of three states: the inviter's,
\* and the joiner's before and after the user's answer.
Negotiation == [session : Session, peer : Node,
                state : {"InvitationSent", "NotStarted", "InvitationAccepted"}]
Handle == [session : Session, peer : Node]

TypeOK ==
    /\ negotiations \in [Node -> SUBSET Negotiation]
    /\ sessions  \in [Node -> SUBSET Handle]
    /\ asking    \in [Node -> Seq(Handle)]
    /\ prompting \in [Node -> Node \cup {Nobody}]
    /\ timer     \in [Node -> BOOLEAN]
    /\ active    \in [Node -> BOOLEAN]
    /\ alive     \in [Node -> BOOLEAN]
    /\ queued    \in [Channel -> Seq(Message)]
    /\ wire      \in [Channel -> Seq(Message)]
    /\ sent      \in [Node -> [Session -> 0 .. MaxEdits]]
    /\ got       \in [Node -> [Session -> Seq(0 .. MaxEdits)]]
    /\ told      \in [Node -> SUBSET Session]
    /\ invited   \in [Node -> SUBSET Session]
    /\ opened    \in [Node -> SUBSET Session]
    /\ abandoned \in [Node -> SUBSET Session]

Init ==
    /\ negotiations = [n \in Node |-> {}]
    /\ sessions  = [n \in Node |-> {}]
    /\ asking    = [n \in Node |-> <<>>]
    /\ prompting = [n \in Node |-> Nobody]
    /\ timer     = [n \in Node |-> FALSE]
    /\ active    = [n \in Node |-> TRUE]
    /\ alive     = [n \in Node |-> TRUE]
    /\ queued    = [c \in Channel |-> <<>>]
    /\ wire      = [c \in Channel |-> <<>>]
    /\ sent      = [n \in Node |-> [s \in Session |-> 0]]
    /\ got       = [n \in Node |-> [s \in Session |-> <<>>]]
    /\ told      = [n \in Node |-> {}]
    /\ invited   = [n \in Node |-> {}]
    /\ opened    = [n \in Node |-> {}]
    /\ abandoned = [n \in Node |-> {}]

-----------------------------------------------------------------------------
(* Messages.                                                               *)

Msg(kind, s) == [kind |-> kind, session |-> s, n |-> 0]
Only(p, m)   == [q \in Node |-> IF q = p THEN <<m>> ELSE <<>>]

\* sendSxe(): out[p] goes to p, after all that waited for the connection.  w is
\* the wire without the message being handled.
SendNewestFirst(w, n, out) ==
    IF active[n]
    THEN /\ wire' = [c \in Channel |->
                        IF c[1] = n THEN w[c] \o out[c[2]] \o queued[c] ELSE w[c]]
         /\ queued' = [c \in Channel |-> IF c[1] = n THEN <<>> ELSE queued[c]]
    ELSE /\ wire' = w
         /\ queued' = [c \in Channel |->
                          IF c[1] = n THEN queued[c] \o out[c[2]] ELSE queued[c]]
Send(w, n, out) ==
    IF active[n]
    THEN /\ wire' = [c \in Channel |->
                        IF c[1] = n THEN w[c] \o queued[c] \o out[c[2]] ELSE w[c]]
         /\ queued' = [c \in Channel |-> IF c[1] = n THEN <<>> ELSE queued[c]]
    ELSE /\ wire' = w
         /\ queued' = [c \in Channel |->
                          IF c[1] = n THEN queued[c] \o out[c[2]] ELSE queued[c]]

\* n handles the first message from m, about session s.
Arrives(m, n, kind, s) ==
    /\ alive[n] /\ active[n]
    /\ <<m, n>> \in Channel
    /\ wire[<<m, n>>] # <<>>
    /\ Head(wire[<<m, n>>]).kind = kind
    /\ Head(wire[<<m, n>>]).session = s
Taken(m, n) == [wire EXCEPT ![<<m, n>>] = Tail(@)]
Silent(m, n) == wire' = Taken(m, n) /\ UNCHANGED queued

Known(n, s) == \E x \in sessions[n] : x.session = s
With(n, s, m) == {x \in negotiations[n] : x.session = s /\ x.peer = m}
InState(n, s, m, st) == [session |-> s, peer |-> m, state |-> st] \in negotiations[n]

\* A negotiation message outside any negotiation makes one for the time of its
\* handling; what stays of it is that the timer was started.
MakesNegotiation(n, s, m) ==
    timer' = IF With(n, s, m) = {} THEN [timer EXCEPT ![n] = TRUE] ELSE timer

-----------------------------------------------------------------------------
(* Starting.                                                               *)

\* openWhiteboard(): unless a dialog with the contact is open, the user is asked
\* for an initial document, in a dialog.
OpenWhiteboard(n, p) ==
    /\ alive[n]
    /\ asking[n] = <<>> /\ prompting[n] = Nobody
    /\ <<n, p>> \in Channel
    /\ ~\E x \in sessions[n] : x.peer = p
    /\ prompting' = [prompting EXCEPT ![n] = p]
    /\ UNCHANGED <<negotiations, sessions, asking, timer, alive, told, active, net,
                   edits, past>>

\* startNewSession(), when the prompt has been answered.
Fresh(s) == \A n \in Node : s \notin invited[n]
StartNewSession(n, s) ==
    /\ alive[n]
    /\ prompting[n] # Nobody /\ asking[n] = <<>>
    /\ Fresh(s)
    /\ negotiations' = [negotiations EXCEPT ![n] = @ \cup
           {[session |-> s, peer |-> prompting[n], state |-> "InvitationSent"]}]
    /\ Send(wire, n, Only(prompting[n], Msg("invitation", s)))
    /\ timer' = [timer EXCEPT ![n] = TRUE]
    /\ invited' = [invited EXCEPT ![n] = @ \cup {s}]
    /\ prompting' = [prompting EXCEPT ![n] = Nobody]
    /\ UNCHANGED <<sessions, asking, alive, told, active, edits, opened, abandoned>>

-----------------------------------------------------------------------------
(* The joiner.                                                             *)

\* <invitation/> outside any negotiation: the callback opens a dialog.
ReceiveInvitation(m, n, s) ==
    /\ Arrives(m, n, "invitation", s)
    /\ Silent(m, n)
    /\ MakesNegotiation(n, s, m)
    /\ IF With(n, s, m) = {} /\ ~Known(n, s)
       THEN /\ negotiations' = [negotiations EXCEPT ![n] = @ \cup
                   {[session |-> s, peer |-> m, state |-> "NotStarted"]}]
            /\ asking' = [asking EXCEPT ![n] = <<[session |-> s, peer |-> m]>> \o @]
       ELSE UNCHANGED <<negotiations, asking>>
    /\ UNCHANGED <<sessions, prompting, alive, told, active, edits, past>>

\* The user answers the innermost dialog and the handler goes on.
Answer(n, accepted) ==
    LET a   == Head(asking[n])
        old == [session |-> a.session, peer |-> a.peer, state |-> "NotStarted"]
    IN  /\ alive[n]
        /\ asking[n] # <<>>
        /\ old \in negotiations[n]
        /\ asking' = [asking EXCEPT ![n] = Tail(@)]
        /\ negotiations' = [negotiations EXCEPT ![n] = (@ \ {old}) \cup
               IF accepted THEN {[old EXCEPT !.state = "InvitationAccepted"]} ELSE {}]
        /\ Send(wire, n, Only(a.peer, Msg(IF accepted THEN "accept" ELSE "abort", a.session)))
        /\ UNCHANGED <<sessions, prompting, timer, alive, told, active, edits, past>>

\* The same when the negotiation was deleted while the dialog was open: the
\* handler uses the freed object, and crashes or sends what its memory still says.
AnswerDeleted(n, accepted) ==
    LET a == Head(asking[n])
    IN  /\ alive[n]
        /\ asking[n] # <<>>
        /\ ~InState(n, a.session, a.peer, "NotStarted")
        /\ asking' = [asking EXCEPT ![n] = Tail(@)]
        /\ \/ /\ alive' = [alive EXCEPT ![n] = FALSE]
              /\ UNCHANGED net
           \/ /\ Send(wire, n, Only(a.peer,
                      Msg(IF accepted THEN "accept" ELSE "abort", a.session)))
              /\ UNCHANGED alive
        /\ UNCHANGED <<negotiations, sessions, prompting, timer, told, active, edits, past>>

\* <document-begin/> to <document-end/>, in one message.
ReceiveDocument(m, n, s) ==
    /\ Arrives(m, n, "document", s)
    /\ Silent(m, n)
    /\ MakesNegotiation(n, s, m)
    /\ IF InState(n, s, m, "InvitationAccepted")
       THEN /\ sessions' = [sessions EXCEPT ![n] = @ \cup {[session |-> s, peer |-> m]}]
            /\ opened'   = [opened EXCEPT ![n] = @ \cup {s}]
            /\ negotiations' = [negotiations EXCEPT ![n] = @ \ With(n, s, m)]
       ELSE UNCHANGED <<sessions, opened, negotiations>>
    /\ UNCHANGED <<asking, prompting, alive, told, active, edits, invited, abandoned>>

-----------------------------------------------------------------------------
(* The inviter.                                                            *)

\* <accept-invitation/>: the session is created, its document sent and the
\* dialog opened.
AcceptUnstored(m, n, s) ==
    /\ Arrives(m, n, "accept", s)
    /\ MakesNegotiation(n, s, m)
    /\ IF InState(n, s, m, "InvitationSent")
       THEN /\ negotiations' = [negotiations EXCEPT ![n] = @ \ With(n, s, m)]
            /\ Send(Taken(m, n), n, Only(m, Msg("document", s)))
       ELSE UNCHANGED negotiations /\ Silent(m, n)
    /\ UNCHANGED <<sessions, asking, prompting, alive, told, active, edits, past>>
ReceiveAccept(m, n, s) ==
    /\ Arrives(m, n, "accept", s)
    /\ MakesNegotiation(n, s, m)
    /\ IF InState(n, s, m, "InvitationSent")
       THEN /\ sessions' = [sessions EXCEPT ![n] = @ \cup {[session |-> s, peer |-> m]}]
            /\ opened'   = [opened EXCEPT ![n] = @ \cup {s}]
            /\ negotiations' = [negotiations EXCEPT ![n] = @ \ With(n, s, m)]
            /\ Send(Taken(m, n), n, Only(m, Msg("document", s)))
       ELSE UNCHANGED <<sessions, opened, negotiations>> /\ Silent(m, n)
    /\ UNCHANGED <<asking, prompting, alive, told, active, edits, invited, abandoned>>

-----------------------------------------------------------------------------
(* Either.                                                                 *)

Inviting(S) == {x.session : x \in {y \in S : y.state = "InvitationSent"}}

ReceiveAbort(m, n, s) ==
    /\ Arrives(m, n, "abort", s)
    /\ Silent(m, n)
    /\ MakesNegotiation(n, s, m)
    /\ negotiations' = [negotiations EXCEPT ![n] = @ \ With(n, s, m)]
    /\ abandoned' = [abandoned EXCEPT ![n] = @ \cup Inviting(With(n, s, m))]
    /\ UNCHANGED <<sessions, asking, prompting, alive, told, active, edits, invited, opened>>

\* <left-session/>: heard by a client that has the session.
ReceiveLeft(m, n, s) ==
    /\ Arrives(m, n, "left", s)
    /\ Silent(m, n)
    /\ MakesNegotiation(n, s, m)
    /\ told' = IF With(n, s, m) = {} /\ Known(n, s)
               THEN [told EXCEPT ![n] = @ \cup {s}] ELSE told
    /\ UNCHANGED <<negotiations, sessions, asking, prompting, alive, active, edits, past>>

\* Edits of a session the client does not have are dropped (a "detected session").
ReceiveEdits(m, n, s) ==
    /\ Arrives(m, n, "edit", s)
    /\ Silent(m, n)
    /\ got' = IF Known(n, s)
              THEN [got EXCEPT ![n][s] = Append(@, Head(wire[<<m, n>>]).n)] ELSE got
    /\ UNCHANGED <<state, active, sent, past>>

SendEdits(n, x) ==
    /\ alive[n]
    /\ x \in sessions[n]
    /\ sent[n][x.session] < MaxEdits
    /\ sent' = [sent EXCEPT ![n][x.session] = @ + 1]
    /\ Send(wire, n, Only(x.peer,
           [kind |-> "edit", session |-> x.session, n |-> sent'[n][x.session]]))
    /\ UNCHANGED <<state, active, got, past>>

\* removeSession(), when the dialog is closed for good: negotiations about the
\* session are aborted and its peer told.
EndSessionSilently(n, x) ==
    /\ alive[n]
    /\ x \in sessions[n]
    /\ sessions' = [sessions EXCEPT ![n] = @ \ {x}]
    /\ negotiations' = [negotiations EXCEPT ![n] = @ \ With(n, x.session, x.peer)]
    /\ UNCHANGED <<asking, prompting, timer, alive, told, active, net, edits, past>>
EndSession(n, x) ==
    /\ alive[n]
    /\ x \in sessions[n]
    /\ sessions' = [sessions EXCEPT ![n] = @ \ {x}]
    /\ negotiations' = [negotiations EXCEPT ![n] = @ \ With(n, x.session, x.peer)]
    /\ LET aborts == IF With(n, x.session, x.peer) = {} THEN <<>>
                     ELSE <<Msg("abort", x.session)>>
       IN  Send(wire, n, [q \in Node |->
                IF q = x.peer THEN aborts \o <<Msg("left", x.session)>> ELSE <<>>])
    /\ UNCHANGED <<asking, prompting, timer, alive, told, active, edits, past>>

\* negotiationTimeout(): all the client's negotiations are deleted, whatever
\* their age; the contacts it invited are told, in any order, inviters are not.
Aborts(n, p) ==
    {Msg("abort", s) : s \in Inviting({x \in negotiations[n] : x.peer = p})}
TimeoutKeepingInvitations(n) ==
    /\ alive[n] /\ timer[n]
    /\ timer' = [timer EXCEPT ![n] = FALSE]
    /\ negotiations' = [negotiations EXCEPT ![n] = {x \in @ : x.state = "InvitationSent"}]
    /\ abandoned' = [abandoned EXCEPT ![n] = @ \cup Inviting(negotiations[n])]
    /\ UNCHANGED <<sessions, asking, prompting, alive, told, active, net, edits, invited, opened>>
NegotiationTimeout(n) ==
    /\ alive[n] /\ timer[n]
    /\ timer' = [timer EXCEPT ![n] = FALSE]
    /\ negotiations' = [negotiations EXCEPT ![n] = {}]
    /\ abandoned' = [abandoned EXCEPT ![n] = @ \cup Inviting(negotiations[n])]
    /\ IF Inviting(negotiations[n]) = {} THEN UNCHANGED net
       ELSE \E out \in [Node -> UNION {SetToSeqs(Aborts(n, p)) : p \in Node}] :
                /\ \A p \in Node : out[p] \in SetToSeqs(Aborts(n, p))
                /\ Send(wire, n, out)
    /\ UNCHANGED <<sessions, asking, prompting, alive, told, active, edits, invited, opened>>

\* The connection is lost, or made again.
Reconnect(n) ==
    /\ active' = [active EXCEPT ![n] = ~@]
    /\ UNCHANGED <<state, net, edits, past>>

Receive(m, n, s) ==
    \/ ReceiveInvitation(m, n, s)
    \/ ReceiveAccept(m, n, s)
    \/ ReceiveDocument(m, n, s)
    \/ ReceiveAbort(m, n, s)
    \/ ReceiveLeft(m, n, s)
    \/ ReceiveEdits(m, n, s)

Next ==
    \E n \in Node :
        \/ \E p \in Node : OpenWhiteboard(n, p)
        \/ \E s \in Session : StartNewSession(n, s)
        \/ \E m \in Node, s \in Session : Receive(m, n, s)
        \/ \E b \in BOOLEAN : Answer(n, b) \/ AnswerDeleted(n, b)
        \/ \E x \in sessions[n] : SendEdits(n, x) \/ EndSession(n, x)
        \/ NegotiationTimeout(n)
        \/ Reconnect(n)

Spec == Init /\ [][Next]_vars

\* The timer goes off some day when it is running: negotiation messages, each of
\* which starts it anew, do not come for ever at less than two minutes' distance.
FairSpec == Spec /\ \A n \in Node : WF_vars(NegotiationTimeout(n))

-----------------------------------------------------------------------------
(* Properties.                                                             *)

\* The client that invited has opened its session before the one it invited
\* does: nobody draws on a whiteboard that does not exist on the other side.
JoinerBacked ==
    \A m, n \in Node : opened[n] \cap invited[m] \subseteq opened[m]

\* An invitation that was given up (the contact declined, or did not answer in
\* time) is never opened by anybody, even if an answer was on its way.
AbandonedStaysClosed ==
    \A m, n \in Node : abandoned[m] \cap opened[n] = {}

\* No negotiation is forgotten: while there is one the timer that will end it
\* runs (one single-shot timer for all of them).
TimerCovers == \A n \in Node : negotiations[n] # {} => timer[n]

\* The inductive strengthening of JoinerBacked, AbandonedStaysClosed and
\* TimerCovers: an invitation has one sender, is pending, given up or opened, and
\* its document is sent by the client that invited, when it has opened.
OneInviter == \A m, n \in Node : m # n => invited[m] \cap invited[n] = {}
PendingInvitation == \A n \in Node : \A x \in negotiations[n] :
    x.state = "InvitationSent" => x.session \in invited[n] \ (opened[n] \cup abandoned[n])
OneInvitation == \A n \in Node : \A x, y \in negotiations[n] :
    (x.state = "InvitationSent" /\ y.state = "InvitationSent" /\ x.session = y.session) => x = y
GivenUp == \A n \in Node : abandoned[n] \subseteq invited[n] \ opened[n]
OpenedByInviter == \A n \in Node : \A s \in opened[n] :
    \E m \in Node : s \in invited[m] \cap opened[m]
Documents(q, S) == \A i \in 1 .. Len(q) : q[i].kind = "document" => q[i].session \in S
DocumentsBacked == \A c \in Channel :
    LET begun == invited[c[1]] \cap opened[c[1]]
    IN  Documents(wire[c], begun) /\ Documents(queued[c], begun)

OpeningInvariant ==
    TypeOK /\ TimerCovers /\ OneInviter /\ PendingInvitation /\ OneInvitation
           /\ GivenUp /\ OpenedByInviter /\ DocumentsBacked

\* Edits reach the other dialog each once and in the order they were made, from
\* the first, across connection losses: what has arrived, is on its way and
\* waits for the connection adds up to what was made.
Edits(q, s) == {i \in 1 .. Len(q) : q[i].kind = "edit" /\ q[i].session = s}
Numbers(q, s) == Selected([i \in 1 .. Len(q) |-> q[i].n], Edits(q, s))
EditsInOrder ==
    \A c \in Channel : \A x \in sessions[c[2]] :
        x.peer = c[1] =>
            got[c[2]][x.session] \o Numbers(wire[c], x.session)
                                 \o Numbers(queued[c], x.session)
              = [i \in 1 .. sent[c[1]][x.session] |-> i]

\* Who draws alone is told so, or will be: when a session is over on one side,
\* the dialog on the other says so or the news is on its way.
Carries(q, kind, s) == \E i \in 1 .. Len(q) : q[i].kind = kind /\ q[i].session = s
DepartureAnnounced ==
    \A c \in Channel : \A x \in sessions[c[2]] :
        (x.peer = c[1] /\ x.session \in opened[c[1]] /\ ~Known(c[1], x.session)) =>
            \/ x.session \in told[c[2]]
            \/ Carries(wire[c] \o queued[c], "left", x.session)

\* Every negotiation comes to an end, in a session or not.
NegotiationsEnd == \A n \in Node : negotiations[n] # {} ~> (negotiations[n] = {} \/ ~alive[n])

\* sxemanager.h:130 "Returns false iff the negotiation object was deleted.": the
\* invitation handler goes on with a negotiation that exists.
AnsweredNegotiationExists ==
    \A n \in Node : \A i \in 1 .. Len(asking[n]) :
        InState(n, asking[n][i].session, asking[n][i].peer, "NotStarted")

\* sxemanager.h:114 "Emitted when \a session has been established.": once all is
\* quiet, a session opened on one side was opened on the other.
Quiet == /\ \A c \in Channel : wire[c] = <<>> /\ queued[c] = <<>>
         /\ \A n \in Node : alive[n] /\ negotiations[n] = {} /\ asking[n] = <<>>
EstablishedOnBothSides ==
    Quiet => \A c \in Channel : \A x \in sessions[c[1]] :
                 x.peer = c[2] => x.session \in opened[c[2]]

\* wbmanager.h:63 "Opens the existing dialog to the specified contact or starts a
\* new session negotiation if necessary.": one whiteboard with a contact.
OneWhiteboardPerContact ==
    \A n \in Node : \A x, y \in sessions[n] : x.peer = y.peer => x = y
=============================================================================
