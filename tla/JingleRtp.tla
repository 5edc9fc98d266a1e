------------------------------- MODULE JingleRtp -------------------------------
(***************************************************************************)
(* One voice or video call between two clients: the window of               *)
(* src/avcall/calldlg.cpp, the media engine and the call of                 *)
(* src/avcall/avcall.cpp, and the Jingle session of                         *)
(* src/avcall/jinglertp.cpp that looks up addresses, starts one ICE         *)
(* negotiation for each kind of media, exchanges candidates, and hands the  *)
(* connections over when the call has been accepted and they are up.        *)
(*                                                                         *)
(* Calls share no state, so one of them is modelled, from the caller to the *)
(* callee.  ICE, the media engine and the network are external.             *)
(***************************************************************************)
EXTENDS Integers, Sequences, SequencesExt

CONSTANTS
    Offers,         \* what a client can offer: the kinds of media it has devices for
    Answers,        \* what the window lets the callee choose
    MaxLosses       \* connections lost (bound)

Media == {"audio", "video"}
Component == {0, 1}         \* RTP and RTCP

ASSUME ConstantsAssumption ==
    /\ Offers \subseteq (SUBSET Media) \ {{}} /\ Answers \subseteq (SUBSET Media) \ {{}}
    /\ \A m \in Offers \cup Answers : "audio" \in m
    /\ MaxLosses \in Nat

Side == {"caller", "callee"}
Other(p) == IF p = "caller" THEN "callee" ELSE "caller"

VARIABLES
    side,           \* the call as each client has it: CallDlg, AvCall and JingleRtp
    net,            \* stanzas on their way to each client, in order
    losses          \* connections lost

vars == <<side, net, losses>>

Idle == [dlg |-> "none",        \* the window, or the event that announces a call
         rtp |-> "off",         \* the media engine
         types |-> {},          \* media negotiated
         named |-> {},          \* media whose content name is known
         resolving |-> FALSE,   \* addresses are being looked up
         waiting |-> FALSE,     \* jt: the answer to session-initiate is awaited
         ice |-> {},            \* iceA, iceV
         started |-> {}, ready |-> {},
         gathered |-> {},       \* media with local candidates
         locals |-> {}, remotes |-> {},     \* candidates queued
         known |-> {},          \* the peer's credentials are known
         peer |-> {}, added |-> {},         \* ICE was given them, and candidates
         prov |-> FALSE, media |-> FALSE, connected |-> FALSE,
         accepted |-> FALSE, activated |-> FALSE,
         timer |-> FALSE,       \* handshakeTimer
         posted |-> FALSE,      \* after_session_accept is queued
         out |-> <<>>]          \* stanzas sent by the step

Init ==
    /\ side = [p \in Side |-> Idle]
    /\ net = [p \in Side |-> <<>>]
    /\ losses = 0

\* A step of p leaves it in state s, after reading the stanzas of its queue up to
\* read, and sends what s has to send.
Step(p, s, read) ==
    /\ side' = [side EXCEPT ![p] = [s EXCEPT !.out = <<>>]]
    /\ net' = [net EXCEPT ![p] = SubSeq(@, read + 1, Len(@)), ![Other(p)] = @ \o s.out]
    /\ UNCHANGED losses
Becomes(p, s) == Step(p, s, 0)

Say(s, kind, m) == [s EXCEPT !.out = Append(@, [kind |-> kind, media |-> m])]

\* AvCall has a session.
HasSession(p) == IF p = "caller" THEN side[p].rtp = "started"
                 ELSE side[p].dlg \in {"ringing", "calling", "active"}

\* The session is deleted, with its ICE, when the call is over.
Over(s, how) == [Idle EXCEPT !.dlg = how, !.out = s.out]

--------------------------------------------------------------------------------
(* JingleRtpPrivate, on the record of one side *)

flushLocalCandidates(s) ==
    LET m == s.types \cap s.locals
    IN  IF m = {} THEN s ELSE [Say(s, "transport-info", m) EXCEPT !.locals = @ \ m]

flushRemoteCandidates(s) ==
    LET m == s.types \cap s.ice
    IN  [s EXCEPT !.peer = @ \cup (m \cap s.known), !.added = @ \cup (m \cap s.remotes),
                  !.remotes = @ \ m]

tryAccept(s) ==
    IF s.media /\ s.connected /\ ~s.accepted
    THEN [Say(s, "session-accept", s.types) EXCEPT !.accepted = TRUE]
    ELSE s

\* ICE is handed to the channel, and the window told.
tryActivated(s) ==
    IF s.accepted /\ s.connected /\ ~s.activated
    THEN [s EXCEPT !.activated = TRUE, !.timer = FALSE, !.ice = {}, !.dlg = "active"]
    ELSE s

AfterIceConnected(p, s) == tryActivated(IF p = "callee" THEN tryAccept(s) ELSE s)


\* All ICE negotiations have started: the caller offers, the callee answers the
\* offer, which says that it takes candidates.
AfterIceStarted(p, s) ==
    IF p = "caller"
    THEN [Say(s, "session-initiate", s.types) EXCEPT !.named = s.types, !.waiting = TRUE]
    ELSE flushRemoteCandidates([Say(s, "result", {}) EXCEPT !.prov = TRUE, !.timer = TRUE])

\* What JingleRtp::reject may send.  Before ICE is made a caller's started flags
\* are uninitialized memory, and it may end a session it has no number for.
Reject(p, s) ==
    IF p = "callee"
    THEN {Say(IF s.prov THEN s ELSE Say(s, "result", {}), "session-terminate", {})}
    ELSE IF s.resolving THEN {s, Say(s, "terminate-nothing", {})}
    ELSE IF s.types \subseteq s.started THEN {Say(s, "session-terminate", {})}
    ELSE {s}

\* AvCall::reject.
AvReject(p) ==
    \E s \in (IF HasSession(p) THEN Reject(p, side[p]) ELSE {side[p]}) :
        Becomes(p, Over(s, "ended"))

--------------------------------------------------------------------------------
(* The users *)

\* Call, with or without a microphone.
Call ==
    /\ side["caller"].dlg = "none"
    /\ \/ \E offer \in Offers :
            Becomes("caller", [side["caller"] EXCEPT !.dlg = "calling", !.rtp = "starting", !.types = offer])
       \/ Becomes("caller", Over(Idle, "ended"))

\* Accept.  Without a device the session is deleted and the caller not told.
Answer ==
    LET s == side["callee"]
    IN  /\ s.dlg = "ringing"
        /\ \/ \E types \in Answers :
                Becomes("callee", [s EXCEPT !.dlg = "calling", !.types = types,
                                            !.resolving = TRUE, !.rtp = "starting"])
           \/ Becomes("callee", Over(s, "dropped"))

Decline == side["callee"].dlg = "ringing" /\ AvReject("callee")

\* The window is closed without an answer, or the program quits: the session is
\* deleted, which tells nobody.
CloseUnanswered ==
    /\ side["callee"].dlg = "ringing"
    /\ Becomes("callee", Over(side["callee"], "dropped"))

HangUp(p) == side[p].dlg \in {"calling", "active"} /\ AvReject(p)

--------------------------------------------------------------------------------
(* The media engine, the resolver and ICE *)

RtpStarted(p) ==
    LET s == side[p]
    IN  /\ s.rtp = "starting"
        /\ Becomes(p, IF p = "caller"
                      THEN [s EXCEPT !.rtp = "started", !.media = TRUE, !.resolving = TRUE]
                      ELSE tryActivated(tryAccept([s EXCEPT !.rtp = "started", !.media = TRUE])))

RtpError(p) == side[p].rtp # "off" /\ AvReject(p)

\* resolver_finished and start_ice.
ResolverFinished(p) ==
    /\ side[p].resolving
    /\ Becomes(p, [side[p] EXCEPT !.resolving = FALSE, !.ice = side[p].types])

IceStarted(p, m) ==
    LET s == [side[p] EXCEPT !.started = @ \cup {m}]
    IN  /\ m \in side[p].ice \ side[p].started
        /\ Becomes(p, IF s.types \subseteq s.started THEN AfterIceStarted(p, s) ELSE s)

IceError(p) == side[p].ice # {} /\ AvReject(p)

\* ICE has found local candidates.
LocalCandidatesReady(p, m) ==
    LET s == [side[p] EXCEPT !.gathered = @ \cup {m}, !.locals = @ \cup {m}]
    IN  /\ m \in side[p].ice \cap side[p].started /\ m \notin side[p].gathered
        /\ Becomes(p, IF s.prov THEN flushLocalCandidates(s) ELSE s)

\* The negotiations of both sides, once one has the other's candidates and this
\* one the credentials, may find each other.
Reachable(p, m) ==
    /\ m \in side[p].ice \cap side[p].peer
    /\ m \in side[Other(p)].started
    /\ m \in side[p].added \cup side[Other(p)].added

ComponentReady(p, m, i) ==
    LET s == [side[p] EXCEPT !.ready = @ \cup {<<m, i>>}]
    IN  /\ Reachable(p, m) /\ <<m, i>> \notin side[p].ready
        /\ Becomes(p, IF s.types \X Component \subseteq s.ready
                      THEN AfterIceConnected(p, [s EXCEPT !.connected = TRUE])
                      ELSE s)

HandshakeTimeout(p) == side[p].timer /\ AvReject(p)

\* after_session_accept.
Posted(p) ==
    /\ side[p].posted
    /\ Becomes(p, tryActivated([side[p] EXCEPT !.posted = FALSE]))

--------------------------------------------------------------------------------
(* Stanzas *)

\* The loops that look for the content of a stanza stop at the first they know.
Found(media, wanted) ==
    IF "audio" \in media \cap wanted THEN {"audio"}
    ELSE media \cap wanted

\* session-initiate: a session for the offer, its event, and no answer yet.
ReceiveInitiate(s, msg) ==
    LET found == Found(msg.media, Media)
    IN  [s EXCEPT !.dlg = "ringing", !.types = Media, !.named = found, !.known = found]

\* Mutant of ReceiveResult: candidates wait for the next ones.
ReceiveResultUnflushed(s) == [s EXCEPT !.waiting = FALSE, !.prov = TRUE]

\* The answer to session-initiate: prov_accept.
ReceiveResult(s) == flushLocalCandidates([s EXCEPT !.waiting = FALSE, !.prov = TRUE])

\* Mutant of ReceiveAccept: the caller counts on the timer of the callee.
ReceiveAcceptUntimed(s, msg) ==
    LET found == Found(msg.media, s.types \cap s.named)
    IN  flushRemoteCandidates([s EXCEPT !.types = found, !.known = @ \cup found,
                                        !.accepted = TRUE, !.posted = TRUE])

\* session-accept: media the callee did not accept are dropped.
ReceiveAccept(s, msg) ==
    LET found == Found(msg.media, s.types \cap s.named)
    IN  flushRemoteCandidates([s EXCEPT !.types = found, !.known = @ \cup found, !.timer = TRUE,
                                        !.accepted = TRUE, !.posted = TRUE])

\* transport-info: queued until ICE has started.
ReceiveCandidates(s, msg) ==
    LET found == Found(msg.media, s.types \cap s.named)
        t == [s EXCEPT !.known = @ \cup found, !.remotes = @ \cup found]
    IN  IF t.prov THEN flushRemoteCandidates(t) ELSE t

\* Mutant of Concerns: the end of a call is for those who have answered it.
ConcernsAnswered(p, msg) ==
    CASE msg.kind = "session-initiate" -> side[p].dlg = "none"
      [] msg.kind \in {"result", "error"} -> side[p].waiting
      [] msg.kind = "session-accept" -> HasSession(p) /\ p = "caller"
      [] msg.kind = "session-terminate" -> HasSession(p) /\ side[p].prov
      [] msg.kind = "transport-info" -> HasSession(p)
      [] OTHER -> FALSE

\* Stanzas for a session that is not there are refused, and so is one without its
\* number; the answers to requests that nobody waits for are ignored.
Concerns(p, msg) ==
    CASE msg.kind = "session-initiate" -> side[p].dlg = "none"
      [] msg.kind \in {"result", "error"} -> side[p].waiting
      [] msg.kind = "session-accept" -> HasSession(p) /\ p = "caller"
      [] msg.kind \in {"session-terminate", "transport-info"} -> HasSession(p)
      [] OTHER -> FALSE

Handled(s, msg) ==
    CASE msg.kind = "session-initiate" -> ReceiveInitiate(s, msg)
      [] msg.kind = "result" -> ReceiveResult(s)
      [] msg.kind = "session-accept" -> ReceiveAccept(s, msg)
      [] msg.kind = "transport-info" -> ReceiveCandidates(s, msg)
      [] OTHER -> Over(s, "ended")

\* A stanza arrives and is handled.
Receive(p) ==
    /\ net[p] # <<>>
    /\ LET msg == Head(net[p])
       IN  Step(p, IF Concerns(p, msg) THEN Handled(side[p], msg) ELSE side[p], 1)

\* The server returns an offer whose addressee has gone.
Bounce ==
    /\ net["callee"] # <<>> /\ Head(net["callee"]).kind = "session-initiate"
    /\ net' = [net EXCEPT !["callee"] = Tail(@),
                          !["caller"] = Append(@, [kind |-> "error", media |-> {}])]
    /\ UNCHANGED <<side, losses>>

\* A client loses its connection and gets a new one: what was under way to it is
\* lost, and some of what it sent.  The request it waits for fails.
LoseConnection(p) ==
    /\ losses < MaxLosses /\ losses' = losses + 1
    /\ \E k \in 0 .. Len(net[Other(p)]) :
         net' = [net EXCEPT ![p] = <<>>, ![Other(p)] = SubSeq(@, 1, k)]
    /\ side' = [side EXCEPT ![p] = IF @.waiting THEN Over(Idle, "ended") ELSE @]

Environment(p) ==
    \/ RtpStarted(p) \/ RtpError(p) \/ ResolverFinished(p) \/ IceError(p)
    \/ \E m \in Media : IceStarted(p, m) \/ LocalCandidatesReady(p, m)
                      \/ \E i \in Component : ComponentReady(p, m, i)
    \/ HandshakeTimeout(p) \/ LoseConnection(p)

Next ==
    \/ Call \/ Answer \/ Decline \/ CloseUnanswered
    \/ \E p \in Side : HangUp(p) \/ Environment(p) \/ Posted(p) \/ Receive(p)
    \/ Bounce

Spec == Init /\ [][Next]_vars

\* Stanzas arrive, lookups end, the engine and ICE start unless they fail, and
\* timers expire.  That a connection comes about is not assumed.
Begins(p) == \E m \in Media : IceStarted(p, m)
FairSpec ==
    /\ Spec
    /\ \A p \in Side : /\ WF_vars(Receive(p)) /\ WF_vars(RtpStarted(p)) /\ WF_vars(ResolverFinished(p))
                       /\ WF_vars(Begins(p)) /\ WF_vars(HandshakeTimeout(p))
--------------------------------------------------------------------------------
Stanza == [kind : {"session-initiate", "session-accept", "session-terminate", "transport-info",
                   "result", "error", "terminate-nothing"},
           media : SUBSET Media]
MediaFields == {"types", "named", "ice", "started", "gathered", "locals", "remotes",
                "known", "peer", "added"}
Flags == {"resolving", "waiting", "prov", "media", "connected", "accepted", "activated",
          "timer", "posted"}

TypeOK ==
    /\ \A p \in Side :
         /\ side[p].dlg \in {"none", "ringing", "calling", "active", "ended", "dropped"}
         /\ side[p].rtp \in {"off", "starting", "started"}
         /\ \A f \in MediaFields : side[p][f] \subseteq Media
         /\ \A f \in Flags : side[p][f] \in BOOLEAN
         /\ side[p].ready \subseteq Media \X Component
         /\ side[p].out = <<>>
         /\ side[p].dlg \in {"none", "ended", "dropped"} =>
                side[p] = [Idle EXCEPT !.dlg = side[p].dlg]
         /\ net[p] \in Seq(Stanza)
    /\ losses \in 0 .. MaxLosses

\* "Call active" is shown to a caller only after the callee has accepted and has
\* its own connection, and the two of them then use the same media.
CallersTalkToCallees ==
    side["caller"].dlg = "active" =>
        /\ side["callee"].dlg \in {"active", "ended"}
        /\ side["callee"].dlg = "active" => side["callee"].types = side["caller"].types

\* Whenever a call has been answered, or accepted, and is not up yet, the timer
\* runs that ends it; it no longer runs for a call that is up.
HandshakeIsTimed ==
    \A p \in Side :
        HasSession(p) => side[p].timer = (/\ ~side[p].activated
                                          /\ IF p = "caller" THEN side[p].accepted ELSE side[p].prov)

\* A candidate for the audio connection is never lost: it waits for the answer to
\* the offer, is under way, waits for ICE of the other side to start, or is there.
\* (A callee that chooses video may keep it, see README.)
AudioCandidatesArrive ==
    \A p \in Side :
        LET s == side[p]
            o == side[Other(p)]
        IN  /\ "audio" \in s.gathered
            /\ losses = 0 /\ (p = "caller" \/ s.types = {"audio"})
            /\ o.dlg \in {"ringing", "calling"}
            => \/ "audio" \in s.locals /\ ~s.prov
               \/ "audio" \in o.added
               \/ "audio" \in o.remotes /\ ~o.prov
               \/ \E msg \in ToSet(net[Other(p)]) : msg.kind = "transport-info" /\ "audio" \in msg.media

\* Nobody is shown a call that is not one, or waits for one without an end, or
\* without what the other side has sent to connect it.
CallInvariant == TypeOK /\ CallersTalkToCallees /\ HandshakeIsTimed /\ AudioCandidatesArrive

\* A call that has been answered comes up or ends, on both sides.
AnsweredIsDecided ==
    (side["callee"].dlg = "calling" /\ losses = 0)
        ~> (losses > 0 \/ \A p \in Side : side[p].dlg # "calling")

\* When one ends the call the other's ends too, also one that is only ringing.
EndsTogether ==
    \A p \in Side :
        (side[p].dlg = "ended" /\ losses = 0)
            ~> (losses > 0 \/ side[Other(p)].dlg \in {"none", "ended", "dropped"})

\* "called when all ICE components are established" (jinglertp.cpp:1193): a
\* session whose media are all connected knows it.
EstablishedIsConnected ==
    \A p \in Side :
        HasSession(p) /\ side[p].types # {} /\ side[p].types \X Component \subseteq side[p].ready
            => side[p].connected
================================================================================
