----------------------- MODULE AccountConnection_proofs -----------------------
(***************************************************************************)
(* Proofs about AccountConnection, for every number of streams, of status   *)
(* changes and of failures: a logout is final, an account shown as online   *)
(* or connecting has something that moves it on, and what is shown and what *)
(* the server was told is so, of this connection.                           *)
(*                                                                         *)
(* The handlers are functions on the account, so the invariant is a         *)
(* predicate on accounts (Sound) and each handler has a lemma: what it does *)
(* to an account of which only a part of Sound is known, as handlers call   *)
(* each other in the middle of a change.                                    *)
(***************************************************************************)
EXTENDS AccountConnection, SequenceTheorems, TLAPS

Event   == Failure \cup {"lost", "roster"}
Request == {"session", "roster"}

Account ==
    [active : BOOLEAN, disconnecting : BOOLEAN, doReconnect : BOOLEAN,
     rosterDone : BOOLEAN, presenceSent : BOOLEAN,
     status : Status, manual : Status, shown : Status \cup {"connecting"},
     stream : Stream \cup {NoStream}, phase : [Stream -> Phase],
     requests : SUBSET Request, orphans : SUBSET Request,
     told : Status \cup {"nothing"}, contacts : {"none", "fresh", "stale"},
     posted : Seq(Event), shots : Nat, closers : Nat, timeout : BOOLEAN,
     passwords : Nat, dialogs : Nat, loggedOut : BOOLEAN, crashed : BOOLEAN]

\* The stream the account has is one of the streams there are.
Typed(acc) ==
    /\ acc \in Account
    /\ acc.stream # NoStream => acc.phase[acc.stream] # "none"

\* A logout leaves no way back.
Final(acc) == acc.loggedOut => ~acc.active /\ ~acc.doReconnect /\ ~acc.timeout

\* An account that is being disconnected has lost its stream or is inactive.
Spared(acc) == acc.active /\ acc.stream # NoStream => ~acc.disconnecting

\* Somebody was told of the end of a stream, by an event other than "roster".
EndPosted(acc) == \E i \in 1 .. Len(acc.posted) : acc.posted[i] # "roster"

\* A stream works or its end is posted; without one a reconnection is due.
Moves(acc) ==
    acc.active /\ ~acc.crashed =>
        IF acc.stream = NoStream THEN acc.doReconnect /\ acc.shots > 0
        ELSE acc.phase[acc.stream] = "ended" => EndPosted(acc)

Shown(acc) == acc.crashed \/ acc.shown = ShownState(acc)

\* Presence follows the roster; the roster done and nothing asked, the server
\* knows the status.
Told(acc) ==
    /\ acc.presenceSent => acc.rosterDone
    /\ acc.active /\ isConnected(acc) /\ acc.requests = {} =>
           acc.rosterDone /\ acc.told = acc.status

\* Contacts of an earlier stream are gone before presence is sent on this one.
Fresh(acc) ==
    /\ acc.told # "nothing" => acc.contacts # "stale"
    /\ acc.presenceSent /\ acc.stream # NoStream => acc.contacts # "stale"

Sound(acc) ==
    /\ Typed(acc) /\ Final(acc) /\ Spared(acc) /\ Moves(acc)
    /\ Shown(acc) /\ Told(acc) /\ Fresh(acc)

SoundAccount == Sound(account)

--------------------------------------------------------------------------------
(* What the handlers do.                                                       *)

\* stateChanged shows the state and does nothing else.
LEMMA StateChanged ==
    ASSUME NEW acc, acc \in Account
    PROVE  /\ stateChanged(acc) \in Account
           /\ Shown(stateChanged(acc))
           /\ Typed(acc) => Typed(stateChanged(acc))
           /\ Final(acc) => Final(stateChanged(acc))
           /\ Spared(acc) => Spared(stateChanged(acc))
           /\ Moves(acc) => Moves(stateChanged(acc))
           /\ Told(acc) => Told(stateChanged(acc))
           /\ Fresh(acc) => Fresh(stateChanged(acc))
<1>1. ShownState(acc) \in Status \cup {"connecting"}
    BY DEF Account, ShownState, Status
<1> DEFINE r == stateChanged(acc)
<1>2. r \in Account
    BY <1>1 DEF Account, stateChanged
<1>3. r.shown = ShownState(acc)
    BY DEF stateChanged, Account
<1>4. /\ r.active = acc.active /\ r.disconnecting = acc.disconnecting
      /\ r.doReconnect = acc.doReconnect /\ r.rosterDone = acc.rosterDone
      /\ r.presenceSent = acc.presenceSent /\ r.status = acc.status
      /\ r.stream = acc.stream /\ r.phase = acc.phase
      /\ r.requests = acc.requests /\ r.told = acc.told /\ r.contacts = acc.contacts
      /\ r.posted = acc.posted /\ r.shots = acc.shots /\ r.timeout = acc.timeout
      /\ r.loggedOut = acc.loggedOut /\ r.crashed = acc.crashed
    BY DEF stateChanged, Account
<1> HIDE DEF r
<1>5. Shown(r)
    BY <1>3, <1>4 DEF Shown, ShownState, loggedIn
<1>6. /\ Typed(acc) => Typed(r)
      /\ Final(acc) => Final(r)
      /\ Spared(acc) => Spared(r)
    BY <1>2, <1>4 DEF Typed, Final, Spared
<1>7. /\ Moves(acc) => Moves(r)
      /\ Told(acc) => Told(r)
      /\ Fresh(acc) => Fresh(r)
    BY <1>2, <1>4 DEF Moves, EndPosted, Told, Fresh, isConnected
<1>8. QED
    BY <1>2, <1>5, <1>6, <1>7 DEF r

\* login makes a new stream, with nothing asked on it and nothing told.
LEMMA LoginSound ==
    ASSUME NEW acc, acc \in Account, Room(acc), ~(acc.active /\ ~acc.doReconnect)
    PROVE  Sound(login(acc))
<1> DEFINE new == CHOOSE s \in Stream : acc.phase[s] = "none"
           g == [s \in Stream |-> CASE s = new -> "connecting"
                                    [] s = acc.stream /\ acc.phase[s] = "ended" -> "none"
                                    [] OTHER -> acc.phase[s]]
           o == acc.orphans \cup acc.requests
           c == Aged(acc.contacts)
           t == [acc EXCEPT
                    !.active = TRUE, !.disconnecting = FALSE, !.rosterDone = FALSE,
                    !.presenceSent = FALSE, !.loggedOut = FALSE, !.phase = g,
                    !.orphans = o, !.requests = {}, !.told = "nothing", !.contacts = c,
                    !.stream = new]
<1>1. new \in Stream /\ new # NoStream /\ acc.phase[new] = "none"
    BY DEF Room, Stream, NoStream
<1>2. login(acc) = stateChanged(t)
    BY DEF login
<1> HIDE DEF new
<1>3. g \in [Stream -> Phase] /\ g[new] = "connecting"
  <2>1. acc.phase \in [Stream -> Phase]
      BY DEF Account
  <2>2. {"none", "connecting"} \subseteq Phase
      BY DEF Phase
  <2>3. g \in [Stream -> Phase]
      BY <1>1, <2>1, <2>2
  <2>4. g[new] = "connecting"
      BY <1>1
  <2>5. QED
      BY <2>3, <2>4
<1>4. o \in SUBSET Request /\ c \in {"none", "fresh", "stale"}
    BY DEF Account, Aged
<1> HIDE DEF g, o, c
<1>5. t \in Account
    BY <1>1, <1>3, <1>4 DEF Account
<1>6. /\ t.active /\ ~t.disconnecting /\ ~t.presenceSent /\ ~t.loggedOut
      /\ t.stream = new /\ t.phase = g /\ t.told = "nothing"
    BY <1>1, <1>3, <1>4 DEF Account
<1> HIDE DEF t
<1>7. Typed(t) /\ Final(t) /\ Spared(t) /\ Moves(t) /\ Told(t) /\ Fresh(t)
    BY <1>1, <1>3, <1>5, <1>6 DEF Typed, Final, Spared, Moves, Told, Fresh, isConnected
<1>8. QED
    BY <1>2, <1>5, <1>7, StateChanged DEF Sound

\* Neither the dialogs that are open nor the timers that were left nor what the
\* user chose last bears on soundness.
LEMMA SoundApart ==
    ASSUME NEW acc, Sound(acc), NEW n \in Nat
    PROVE  /\ Sound([acc EXCEPT !.dialogs = n])
           /\ Sound([acc EXCEPT !.passwords = n])
           /\ Sound([acc EXCEPT !.closers = n])
<1> SUFFICES ASSUME NEW r \in {[acc EXCEPT !.dialogs = n], [acc EXCEPT !.passwords = n],
                               [acc EXCEPT !.closers = n]}
             PROVE  Sound(r)
    OBVIOUS
<1>1. acc \in Account
    BY DEF Sound, Typed
<1>2. r \in Account
    BY <1>1 DEF Account
<1>3. /\ r.active = acc.active /\ r.disconnecting = acc.disconnecting
      /\ r.doReconnect = acc.doReconnect /\ r.rosterDone = acc.rosterDone
      /\ r.presenceSent = acc.presenceSent /\ r.status = acc.status
      /\ r.shown = acc.shown
      /\ r.stream = acc.stream /\ r.phase = acc.phase
      /\ r.requests = acc.requests /\ r.told = acc.told /\ r.contacts = acc.contacts
      /\ r.posted = acc.posted /\ r.shots = acc.shots /\ r.timeout = acc.timeout
      /\ r.loggedOut = acc.loggedOut /\ r.crashed = acc.crashed
    BY <1>1 DEF Account
<1>4. Typed(r) /\ Final(r) /\ Spared(r) /\ Moves(r)
    BY <1>2, <1>3 DEF Sound, Typed, Final, Spared, Moves, EndPosted
<1>5. Shown(r) /\ Told(r) /\ Fresh(r)
    BY <1>3 DEF Sound, Shown, ShownState, loggedIn, Told, Fresh, isConnected
<1>6. QED
    BY <1>4, <1>5 DEF Sound

\* Closing the stream leaves the account without one.
LEMMA CloseFields ==
    ASSUME NEW acc, acc \in Account, NEW failing \in SUBSET Request
    PROVE  LET r == Close(acc, failing)
           IN  /\ r \in Account
               /\ r.stream = NoStream /\ r.told = "nothing"
               /\ r.active = acc.active /\ r.disconnecting = acc.disconnecting
               /\ r.doReconnect = acc.doReconnect /\ r.rosterDone = acc.rosterDone
               /\ r.presenceSent = acc.presenceSent /\ r.status = acc.status
               /\ r.shown = acc.shown /\ r.shots = acc.shots /\ r.timeout = acc.timeout
               /\ r.loggedOut = acc.loggedOut /\ r.crashed = acc.crashed
<1> DEFINE p == acc.posted \o (IF "session" \in failing THEN <<"lost">> ELSE <<>>)
                           \o (IF "roster" \in failing THEN <<"roster">> ELSE <<>>)
           c == Aged(acc.contacts)
           g == [s \in Stream |-> IF s = acc.stream THEN "none" ELSE acc.phase[s]]
           r == [acc EXCEPT !.posted = p, !.requests = {}, !.orphans = {}, !.told = "nothing",
                            !.contacts = c, !.phase = g, !.stream = NoStream]
<1>1. Close(acc, failing) = r
    BY DEF Close
<1>2. p \in Seq(Event)
  <2>1. acc.posted \in Seq(Event)
      BY DEF Account
  <2>2. "lost" \in Event /\ "roster" \in Event
      BY DEF Event
  <2>3. (IF "session" \in failing THEN <<"lost">> ELSE <<>>) \in Seq(Event)
      BY <2>2
  <2>4. (IF "roster" \in failing THEN <<"roster">> ELSE <<>>) \in Seq(Event)
      BY <2>2
  <2>5. QED
      BY <2>1, <2>3, <2>4, ConcatProperties
<1>3. c \in {"none", "fresh", "stale"}
    BY DEF Account, Aged
<1>4. g \in [Stream -> Phase]
    BY DEF Account, Phase
<1> HIDE DEF p, c, g
<1>5. r \in Account
    BY <1>2, <1>3, <1>4 DEF Account
<1>6. /\ r.stream = NoStream /\ r.told = "nothing"
      /\ r.active = acc.active /\ r.disconnecting = acc.disconnecting
      /\ r.doReconnect = acc.doReconnect /\ r.rosterDone = acc.rosterDone
      /\ r.presenceSent = acc.presenceSent /\ r.status = acc.status
      /\ r.shown = acc.shown /\ r.shots = acc.shots /\ r.timeout = acc.timeout
      /\ r.loggedOut = acc.loggedOut /\ r.crashed = acc.crashed
    BY DEF Account
<1> HIDE DEF r
<1>7. QED
    BY <1>1, <1>5, <1>6

LEMMA TellFields ==
    ASSUME NEW acc, acc \in Account, NEW status \in Status
    PROVE  /\ Tell(acc, status) \in Account
           /\ Tell(acc, status) = [acc EXCEPT !.told = Tell(acc, status).told]
           /\ Tell(acc, status).told \in {acc.told, status}
           /\ isConnected(acc) => Tell(acc, status).told = status
           /\ ~isConnected(acc) => Tell(acc, status).told = acc.told
    BY DEF Tell, Account

\* A logout makes the account inactive and leaves nothing that could change that.
LEMMA LogoutSound ==
    ASSUME NEW acc, Typed(acc), acc.presenceSent => acc.rosterDone,
           acc.active \/ Sound(acc)
    PROVE  Sound(logout(acc))
<1>1. CASE ~acc.active
    BY <1>1 DEF logout
<1>2. CASE acc.active
  <2> DEFINE d == IF loggedIn(acc) THEN Tell(acc, "offline").told ELSE acc.told
             n == acc.closers + 1
             t == [acc EXCEPT
                     !.told = d, !.doReconnect = FALSE, !.timeout = FALSE,
                     !.disconnecting = TRUE, !.contacts = "none", !.active = FALSE,
                     !.status = "offline", !.closers = n, !.loggedOut = TRUE]
  <2>1. acc \in Account /\ "offline" \in Status
      BY DEF Typed, Status
  <2>2. d \in Status \cup {"nothing"} /\ n \in Nat
      BY <2>1, TellFields DEF Account
  <2>3. (IF loggedIn(acc) THEN Tell(acc, "offline") ELSE acc) = [acc EXCEPT !.told = d]
    <3>1. acc = [acc EXCEPT !.told = acc.told]
        BY <2>1 DEF Account
    <3>2. QED
        BY <2>1, <3>1, TellFields
  <2> HIDE DEF d
  <2>4. [stopReconnect([acc EXCEPT !.told = d]) EXCEPT
            !.disconnecting = TRUE, !.contacts = "none", !.active = FALSE,
            !.status = "offline", !.closers = @ + 1, !.loggedOut = TRUE] = t
      BY <2>1 DEF stopReconnect, Account
  <2>5. logout(acc) = stateChanged(t)
      BY <1>2, <2>3, <2>4 DEF logout
  <2> HIDE DEF n
  <2>6. t \in Account
      BY <2>1, <2>2 DEF Account
  <2>7. /\ ~t.active /\ ~t.doReconnect /\ ~t.timeout /\ t.contacts = "none"
        /\ t.stream = acc.stream /\ t.phase = acc.phase
        /\ t.presenceSent = acc.presenceSent /\ t.rosterDone = acc.rosterDone
      BY <2>1 DEF Account
  <2> HIDE DEF t
  <2>8. Typed(t) /\ Final(t) /\ Spared(t) /\ Moves(t) /\ Told(t) /\ Fresh(t)
      BY <2>6, <2>7 DEF Typed, Final, Spared, Moves, Told, Fresh
  <2>9. QED
      BY <2>5, <2>6, <2>8, StateChanged DEF Sound
<1>3. QED
    BY <1>1, <1>2

LEMMA RejectDialogsSound ==
    ASSUME NEW acc, Sound(acc)
    PROVE  Sound(RejectDialogs(acc))
<1> DEFINE t == [acc EXCEPT !.dialogs = 0]
<1>1. Sound(t)
    BY SoundApart
<1>2. RejectDialogs(acc) \in {acc, logout(t)}
    BY DEF RejectDialogs
<1> HIDE DEF t
<1>3. Sound(logout(t))
    BY <1>1, LogoutSound DEF Sound, Told
<1>4. QED
    BY <1>2, <1>3

\* An error closes the stream: a reconnection is due or the account inactive.
\* Only an error in a negotiation whose stream is gone ends in a crash.
LEMMA ErrorSound ==
    ASSUME NEW acc, acc \in Account, Final(acc), Fresh(acc),
           acc.presenceSent => acc.rosterDone,
           acc.active \/ Sound(acc),
           NEW failure \in {"lost", "connection", "stream", "negotiation"},
           NEW permanent \in BOOLEAN, NEW failing \in SUBSET Request
    PROVE  Sound(cs_error(acc, failure, permanent, failing))
<1>1. CASE ~acc.active
    BY <1>1 DEF cs_error
<1>2. CASE acc.active /\ failure = "negotiation" /\ acc.stream = NoStream
  <2> DEFINE r == [acc EXCEPT !.crashed = TRUE]
  <2>1. r \in Account
      BY DEF Account
  <2>2. /\ r.crashed /\ r.active = acc.active /\ r.stream = NoStream
        /\ r.doReconnect = acc.doReconnect /\ r.timeout = acc.timeout
        /\ r.loggedOut = acc.loggedOut /\ r.presenceSent = acc.presenceSent
        /\ r.rosterDone = acc.rosterDone /\ r.told = acc.told /\ r.contacts = acc.contacts
      BY <1>2 DEF Account
  <2>3. cs_error(acc, failure, permanent, failing) = r
      BY <1>2 DEF cs_error
  <2> HIDE DEF r
  <2>4. Sound(r)
      BY <2>1, <2>2 DEF Sound, Typed, Final, Spared, Moves, Shown, Told, Fresh, isConnected
  <2>5. QED
      BY <2>3, <2>4
<1>3. CASE acc.active /\ ~(failure = "negotiation" /\ acc.stream = NoStream)
  <2> DEFINE b == Close(acc, failing)
             c == IF loggedIn(acc) THEN "none" ELSE b.contacts
             t == [b EXCEPT !.disconnecting = TRUE, !.presenceSent = FALSE, !.contacts = c]
             n == t.shots + 1
             again == [t EXCEPT !.timeout = FALSE, !.doReconnect = TRUE, !.shots = n]
             ended == [t EXCEPT !.active = FALSE, !.status = "offline"]
  <2>1. /\ b \in Account /\ b.stream = NoStream /\ b.told = "nothing" /\ b.active
        /\ b.loggedOut = acc.loggedOut
      BY <1>3, CloseFields
  <2>2. cs_error(acc, failure, permanent, failing) =
            IF Reconnects(acc, failure, permanent) THEN stateChanged(again)
            ELSE RejectDialogs(stateChanged(ended))
    <3>1. cs_error(acc, failure, permanent, failing) =
              IF Reconnects(acc, failure, permanent) THEN startReconnect(t)
              ELSE RejectDialogs(stateChanged(ended))
        BY <1>3 DEF cs_error
    <3> HIDE DEF t, ended
    <3>2. startReconnect(t) = stateChanged(again)
        BY DEF startReconnect
    <3>3. QED
        BY <3>1, <3>2
  <2> HIDE DEF b
  <2>3. c \in {"none", "fresh", "stale"}
      BY <2>1 DEF Account
  <2> HIDE DEF c
  <2>4. t \in Account
    <3>1. b \in Account
        BY <2>1
    <3>2. QED
        BY ONLY <2>3, <3>1 DEF Account
  <2>5. /\ t.stream = NoStream /\ t.told = "nothing" /\ ~t.presenceSent /\ t.active
        /\ ~t.loggedOut
      BY <1>3, <2>1 DEF Account, Final
  <2> HIDE DEF t
  <2>6. Sound(stateChanged(again))
    <3>1. n \in Nat /\ n > 0
        BY <2>4 DEF Account
    <3> HIDE DEF n
    <3>2. again \in Account
        BY <2>4, <3>1 DEF Account
    <3>3. /\ again.stream = NoStream /\ again.told = "nothing" /\ ~again.presenceSent
          /\ ~again.loggedOut /\ again.doReconnect /\ again.shots > 0
        BY <2>4, <2>5, <3>1 DEF Account
    <3> HIDE DEF again
    <3>4. Typed(again) /\ Final(again) /\ Spared(again) /\ Moves(again) /\ Told(again) /\ Fresh(again)
        BY <3>2, <3>3 DEF Typed, Final, Spared, Moves, Told, Fresh, isConnected
    <3>5. QED
        BY <3>2, <3>4, StateChanged DEF Sound
  <2>7. Sound(stateChanged(ended))
    <3> "offline" \in Status
        BY DEF Status
    <3>1. ended \in Account
        BY <2>4 DEF Account
    <3>2. /\ ended.stream = NoStream /\ ended.told = "nothing" /\ ~ended.presenceSent
          /\ ~ended.loggedOut /\ ~ended.active
        BY <2>4, <2>5 DEF Account
    <3> HIDE DEF ended
    <3>4. Typed(ended) /\ Final(ended) /\ Spared(ended) /\ Moves(ended) /\ Told(ended) /\ Fresh(ended)
        BY <3>1, <3>2 DEF Typed, Final, Spared, Moves, Told, Fresh
    <3>5. QED
        BY <3>1, <3>4, StateChanged DEF Sound
  <2> HIDE DEF again, ended
  <2>8. QED
      BY <2>2, <2>6, <2>7, RejectDialogsSound
<1>4. QED
    BY <1>1, <1>2, <1>3

\* A status set when the roster is done is told, and shown.
LEMMA StatusSound ==
    ASSUME NEW acc, Typed(acc), Final(acc), Spared(acc), Moves(acc), Fresh(acc),
           acc.rosterDone, NEW status \in Status
    PROVE  Sound(setStatusDirect(acc, status))
<1> DEFINE c == IF acc.presenceSent THEN acc.contacts ELSE "none"
           b == [acc EXCEPT !.contacts = c]
           d == Tell(b, status).told
           t == [acc EXCEPT !.contacts = c, !.told = d, !.status = status, !.presenceSent = TRUE]
<1>1. acc \in Account
    BY DEF Typed
<1>2. c \in {"none", "fresh", "stale"}
    BY <1>1 DEF Account
<1>3. (IF acc.presenceSent THEN acc ELSE [acc EXCEPT !.contacts = "none"]) = b
    BY <1>1 DEF Account
<1> HIDE DEF c
<1>4. b \in Account /\ b.stream = acc.stream /\ b.phase = acc.phase /\ b.told = acc.told
    BY <1>1, <1>2 DEF Account
<1>5. setStatusDirect(acc, status) =
          stateChanged([Tell(b, status) EXCEPT !.status = status, !.presenceSent = TRUE])
    BY <1>3 DEF setStatusDirect
<1> HIDE DEF b
<1>6. /\ d \in Status \cup {"nothing"} /\ Tell(b, status) = [b EXCEPT !.told = d]
      /\ isConnected(acc) => d = status
      /\ ~isConnected(acc) => d = acc.told
  <2>1. /\ Tell(b, status) \in Account
        /\ Tell(b, status) = [b EXCEPT !.told = d]
        /\ isConnected(b) => d = status
        /\ ~isConnected(b) => d = b.told
      BY <1>4, TellFields
  <2>2. isConnected(b) <=> isConnected(acc)
      BY <1>4 DEF isConnected
  <2>3. QED
      BY <1>4, <2>1, <2>2 DEF Account
<1> HIDE DEF d
<1>7. [[b EXCEPT !.told = d] EXCEPT !.status = status, !.presenceSent = TRUE] = t
    BY <1>1 DEF b, Account
<1>8. t \in Account
    BY <1>1, <1>2, <1>6 DEF Account
<1>9. /\ t.active = acc.active /\ t.disconnecting = acc.disconnecting
      /\ t.doReconnect = acc.doReconnect /\ t.rosterDone = acc.rosterDone
      /\ t.presenceSent /\ t.status = status /\ t.told = d /\ t.contacts = c
      /\ t.stream = acc.stream /\ t.phase = acc.phase /\ t.requests = acc.requests
      /\ t.posted = acc.posted /\ t.shots = acc.shots /\ t.timeout = acc.timeout
      /\ t.loggedOut = acc.loggedOut /\ t.crashed = acc.crashed
    BY <1>1 DEF Account
<1> HIDE DEF t
<1>10. Typed(t) /\ Final(t) /\ Spared(t) /\ Moves(t)
    BY <1>8, <1>9 DEF Typed, Final, Spared, Moves, EndPosted
<1>11. Told(t)
    BY <1>6, <1>9 DEF Told, isConnected
<1>12. Fresh(t)
  <2>1. c # "stale" \/ (d = "nothing" /\ acc.stream = NoStream)
      BY <1>6 DEF c, Fresh, isConnected
  <2>2. QED
      BY <1>9, <2>1 DEF Fresh
<1>13. QED
    BY <1>5, <1>6, <1>7, <1>8, <1>10, <1>11, <1>12, StateChanged DEF Sound

LEMMA RosterSound ==
    ASSUME NEW acc, Typed(acc), Final(acc), Spared(acc), Moves(acc), Fresh(acc),
           NEW success \in BOOLEAN, success => isConnected(acc)
    PROVE  Sound(rosterRequestFinished(acc, success))
<1> DEFINE x == IF success THEN FALSE ELSE acc.doReconnect
           y == IF success THEN FALSE ELSE acc.timeout
           t == [acc EXCEPT !.doReconnect = x, !.timeout = y, !.rosterDone = TRUE]
<1>1. acc \in Account /\ x \in BOOLEAN /\ y \in BOOLEAN /\ acc.status \in Status
    BY DEF Typed, Account
<1>2. rosterRequestFinished(acc, success) = setStatusDirect(t, acc.status)
  <2>1. [(IF success THEN stopReconnect(acc) ELSE acc) EXCEPT !.rosterDone = TRUE] = t
      BY <1>1 DEF stopReconnect, Account
  <2>2. QED
      BY <2>1 DEF rosterRequestFinished
<1>3. /\ (acc.doReconnect \/ ~x) /\ (acc.timeout \/ ~y) /\ (isConnected(acc) \/ x = acc.doReconnect)
    OBVIOUS
<1> HIDE DEF x, y
<1>4. t \in Account
    BY <1>1 DEF Account
<1>5. /\ t.active = acc.active /\ t.disconnecting = acc.disconnecting
      /\ t.doReconnect = x /\ t.timeout = y /\ t.rosterDone
      /\ t.presenceSent = acc.presenceSent /\ t.told = acc.told /\ t.contacts = acc.contacts
      /\ t.stream = acc.stream /\ t.phase = acc.phase
      /\ t.posted = acc.posted /\ t.shots = acc.shots
      /\ t.loggedOut = acc.loggedOut /\ t.crashed = acc.crashed
    BY <1>1 DEF Account
<1> HIDE DEF t
<1>6. Typed(t) /\ Final(t) /\ Spared(t) /\ Fresh(t)
    BY <1>3, <1>4, <1>5 DEF Typed, Final, Spared, Fresh
<1>7. Moves(t)
    BY <1>3, <1>5 DEF Moves, EndPosted, isConnected
<1>8. QED
    BY <1>1, <1>2, <1>5, <1>6, <1>7, StatusSound

\* What the user chooses.
LEMMA SetStatusSound ==
    ASSUME NEW acc, Sound(acc), Room(acc), NEW status \in Status
    PROVE  Sound(setStatus(acc, status))
<1> DEFINE t == [acc EXCEPT !.manual = status, !.status = status]
<1>1. acc \in Account /\ t \in Account
    BY DEF Sound, Typed, Account
<1>2. /\ t.active = acc.active /\ t.disconnecting = acc.disconnecting
      /\ t.doReconnect = acc.doReconnect /\ t.rosterDone = acc.rosterDone
      /\ t.presenceSent = acc.presenceSent /\ t.status = status
      /\ t.shown = acc.shown
      /\ t.stream = acc.stream /\ t.phase = acc.phase
      /\ t.requests = acc.requests /\ t.told = acc.told /\ t.contacts = acc.contacts
      /\ t.posted = acc.posted /\ t.shots = acc.shots /\ t.timeout = acc.timeout
      /\ t.loggedOut = acc.loggedOut /\ t.crashed = acc.crashed
      /\ t.passwords = acc.passwords
    BY <1>1 DEF Account
<1>3. setStatus(acc, status) =
          IF status = "offline" THEN logout(t)
          ELSE IF ~t.active
               THEN IF PasswordSaved THEN login(t) ELSE [t EXCEPT !.passwords = @ + 1]
               ELSE IF t.rosterDone THEN setStatusDirect(t, status) ELSE t
    BY <1>2 DEF setStatus
<1> HIDE DEF t
<1>4. Typed(t) /\ Final(t) /\ Spared(t) /\ Moves(t) /\ Fresh(t) /\ (t.presenceSent => t.rosterDone)
    BY <1>1, <1>2 DEF Sound, Typed, Final, Spared, Moves, EndPosted, Fresh, Told
<1>5. ASSUME ~t.active \/ ~t.rosterDone PROVE Sound(t)
  <2>1. Shown(t)
      BY <1>2, <1>4, <1>5 DEF Sound, Shown, ShownState, loggedIn
  <2>2. Told(t)
      BY <1>2, <1>4, <1>5 DEF Sound, Told, isConnected
  <2>3. QED
      BY <1>4, <2>1, <2>2 DEF Sound
<1>6. CASE status = "offline"
  <2>1. t.active \/ Sound(t)
      BY <1>5
  <2>2. QED
      BY <1>3, <1>4, <1>6, <2>1, LogoutSound
<1>7. CASE status # "offline" /\ ~t.active /\ PasswordSaved
  <2>1. Room(t)
      BY <1>2 DEF Room
  <2>2. QED
      BY <1>1, <1>3, <1>7, <2>1, LoginSound
<1>8. CASE status # "offline" /\ ~t.active /\ ~PasswordSaved
  <2>1. t.passwords + 1 \in Nat
      BY <1>1 DEF Account
  <2>2. QED
      BY <1>3, <1>5, <1>8, <2>1, SoundApart
<1>9. CASE status # "offline" /\ t.active /\ t.rosterDone
    BY <1>3, <1>4, <1>9, StatusSound
<1>10. CASE status # "offline" /\ t.active /\ ~t.rosterDone
    BY <1>3, <1>5, <1>10
<1>11. QED
    BY <1>6, <1>7, <1>8, <1>9, <1>10

--------------------------------------------------------------------------------
(* What the actions do.                                                        *)

\* The members a handler of the stream leaves alone.
Alike(r, acc) ==
    /\ r.active = acc.active /\ r.disconnecting = acc.disconnecting
    /\ r.doReconnect = acc.doReconnect /\ r.rosterDone = acc.rosterDone
    /\ r.presenceSent = acc.presenceSent /\ r.status = acc.status
    /\ r.shown = acc.shown /\ r.stream = acc.stream /\ r.told = acc.told
    /\ r.contacts = acc.contacts /\ r.shots = acc.shots /\ r.timeout = acc.timeout
    /\ r.loggedOut = acc.loggedOut

\* A stream may come nearer to being connected, or have something asked on it.
LEMMA StreamSound ==
    ASSUME NEW acc, Sound(acc), NEW r \in Account, Alike(r, acc), r.posted = acc.posted,
           acc.crashed => r.crashed,
           r.stream # NoStream =>
              /\ r.phase[r.stream] # "none"
              /\ r.phase[r.stream] = "ended" => acc.phase[r.stream] = "ended"
              /\ r.phase[r.stream] = "ready" /\ r.requests = {} =>
                    acc.phase[r.stream] = "ready" /\ acc.requests = {}
    PROVE  Sound(r)
<1>1. Typed(r) /\ Final(r) /\ Spared(r)
    BY DEF Sound, Typed, Final, Spared, Alike
<1>2. Moves(r)
    BY DEF Sound, Moves, EndPosted, Alike
<1>3. Shown(r)
    BY DEF Sound, Shown, ShownState, loggedIn, Alike
<1>4. Told(r)
    BY DEF Sound, Told, isConnected, Alike
<1>5. Fresh(r)
    BY DEF Sound, Fresh, Alike
<1>6. QED
    BY <1>1, <1>2, <1>3, <1>4, <1>5 DEF Sound

LEMMA AccountTyped ==
    ASSUME SoundAccount
    PROVE  /\ account \in Account /\ Outstanding \in SUBSET Request
           /\ account.requests \in SUBSET Request /\ account.orphans \in SUBSET Request
           /\ account.phase \in [Stream -> Phase]
           /\ account.posted \in Seq(Event)
           /\ \A s \in Stream : account.stream = s => account.stream # NoStream
<1>1. account \in Account
    BY DEF SoundAccount, Sound, Typed
<1>2. QED
    BY <1>1 DEF Account, Outstanding, a, Stream, NoStream

LEMMA SetStatusStep ==
    ASSUME SoundAccount, NEW status \in Status, SetStatus(status)
    PROVE  SoundAccount'
    BY SetStatusSound DEF SetStatus, SoundAccount, Running, a

LEMMA PasswordReadyStep ==
    ASSUME SoundAccount, PasswordReady
    PROVE  SoundAccount'
<1> DEFINE n == account.passwords - 1
           t == [account EXCEPT !.passwords = n]
<1>1. account' = login(t) /\ Room(account)
    BY DEF PasswordReady, Running, a
<1>2. n \in Nat
    BY AccountTyped DEF PasswordReady, Account, a
<1> HIDE DEF n
<1>3. Sound(t) /\ t \in Account /\ t.phase = account.phase
    BY <1>2, AccountTyped, SoundApart DEF SoundAccount, Account
<1> HIDE DEF t
<1>4. Room(t)
    BY <1>1, <1>3 DEF Room
<1>5. Sound(login(t))
  <2>1. CASE t.active /\ ~t.doReconnect
      BY <1>3, <2>1 DEF login
  <2>2. CASE ~(t.active /\ ~t.doReconnect)
      BY <1>3, <1>4, <2>2, LoginSound
  <2>3. QED
      BY <2>1, <2>2
<1>6. QED
    BY <1>1, <1>5 DEF SoundAccount

LEMMA AutoAwayStep ==
    ASSUME SoundAccount, NEW status \in Status, AutoAway(status)
    PROVE  SoundAccount'
<1>1. account.rosterDone /\ account' = setStatusDirect(account, status)
    BY DEF AutoAway, isAvailable, loggedIn, a, SoundAccount, Sound, Told
<1>2. QED
    BY <1>1, StatusSound DEF SoundAccount, Sound

LEMMA AcceptCertificateStep ==
    ASSUME SoundAccount, AcceptCertificate
    PROVE  SoundAccount'
<1> DEFINE n == account.dialogs - 1
           x == account.stream = NoStream
           g == [s \in Stream |-> IF s = account.stream /\ account.phase[s] = "certificate"
                                  THEN "secured" ELSE account.phase[s]]
           t == [account EXCEPT !.dialogs = n, !.crashed = x, !.phase = g]
<1>1. account' = t /\ ~account.crashed
    BY DEF AcceptCertificate, Running, a
<1>2. n \in Nat /\ x \in BOOLEAN
    BY AccountTyped DEF AcceptCertificate, Account, a
<1>3. g \in [Stream -> Phase] /\ "secured" \in Phase
    BY AccountTyped DEF Phase
<1>4. \A s \in Stream :
          \/ g[s] = account.phase[s]
          \/ g[s] = "secured" /\ account.phase[s] = "certificate"
    OBVIOUS
<1> HIDE DEF n, x, g
<1>5. t \in Account /\ t.phase = g /\ Alike(t, account) /\ t.posted = account.posted
      /\ t.requests = account.requests
    BY <1>2, <1>3, AccountTyped DEF Account, Alike
<1> HIDE DEF t
<1>6. t.stream # NoStream => t.stream \in Stream /\ account.phase[t.stream] # "none"
    BY <1>5 DEF Account, SoundAccount, Sound, Typed, Alike
<1>7. QED
    BY <1>1, <1>4, <1>5, <1>6, StreamSound DEF SoundAccount

LEMMA RejectCertificateStep ==
    ASSUME SoundAccount, RejectCertificate
    PROVE  SoundAccount'
<1> DEFINE n == account.dialogs - 1
           t == [account EXCEPT !.dialogs = n]
<1>1. account' = logout(t)
    BY DEF RejectCertificate, a
<1>2. n \in Nat
    BY AccountTyped DEF RejectCertificate, Account, a
<1> HIDE DEF n
<1>3. Sound(t)
    BY <1>2, SoundApart DEF SoundAccount
<1> HIDE DEF t
<1>4. QED
    BY <1>1, <1>3, LogoutSound DEF SoundAccount, Sound, Told

LEMMA ReconnectStep ==
    ASSUME SoundAccount, Reconnect
    PROVE  SoundAccount'
<1> DEFINE n == account.shots - 1
           shot == [account EXCEPT !.shots = n]
           t == [shot EXCEPT !.active = FALSE, !.doReconnect = FALSE, !.timeout = TRUE]
<1>1. /\ Room(account) /\ ~account.crashed
      /\ account' = IF account.doReconnect /\ ~isConnected(account)
                    THEN RejectDialogs(login(t)) ELSE shot
    BY DEF Reconnect, Running, a
<1>2. n \in Nat
    BY AccountTyped DEF Reconnect, Account, a
<1> HIDE DEF n
<1>3. shot \in Account
    BY <1>2, AccountTyped DEF Account
<1>4. /\ shot.phase = account.phase
      /\ shot.active = account.active /\ shot.disconnecting = account.disconnecting
      /\ shot.doReconnect = account.doReconnect /\ shot.rosterDone = account.rosterDone
      /\ shot.presenceSent = account.presenceSent /\ shot.status = account.status
      /\ shot.shown = account.shown /\ shot.stream = account.stream
      /\ shot.requests = account.requests /\ shot.told = account.told
      /\ shot.contacts = account.contacts
      /\ shot.posted = account.posted /\ shot.timeout = account.timeout
      /\ shot.loggedOut = account.loggedOut /\ shot.crashed = account.crashed
    BY AccountTyped DEF Account
<1> HIDE DEF shot
<1>5. CASE account.doReconnect /\ ~isConnected(account)
  <2>1. t \in Account /\ ~t.active /\ t.phase = account.phase
      BY <1>3, <1>4 DEF Account
  <2> HIDE DEF t
  <2>2. Room(t)
      BY <1>1, <2>1 DEF Room
  <2>3. Sound(RejectDialogs(login(t)))
      BY <2>1, <2>2, LoginSound, RejectDialogsSound
  <2>4. QED
      BY <1>1, <1>5, <2>3 DEF SoundAccount
<1>6. CASE ~(account.doReconnect /\ ~isConnected(account))
  <2>1. Typed(shot) /\ Final(shot) /\ Spared(shot) /\ Fresh(shot)
      BY <1>3, <1>4 DEF SoundAccount, Sound, Typed, Final, Spared, Fresh
  <2>2. Moves(shot)
      BY <1>4, <1>6 DEF SoundAccount, Sound, Moves, EndPosted, isConnected
  <2>3. Shown(shot) /\ Told(shot)
      BY <1>4 DEF SoundAccount, Sound, Shown, ShownState, loggedIn, Told, isConnected
  <2>4. QED
      BY <1>1, <1>6, <2>1, <2>2, <2>3 DEF SoundAccount, Sound
<1>7. QED
    BY <1>5, <1>6

LEMMA ReconnectTimeoutStep ==
    ASSUME SoundAccount, ReconnectTimeout
    PROVE  SoundAccount'
<1> DEFINE t == [account EXCEPT !.timeout = FALSE, !.active = TRUE]
<1>1. PICK failing \in SUBSET Outstanding : account' = cs_error(t, "lost", FALSE, failing)
    BY DEF ReconnectTimeout, a
<1>2. account.timeout /\ failing \in SUBSET Request
    BY <1>1, AccountTyped DEF ReconnectTimeout, a
<1>3. t \in Account
    BY AccountTyped DEF Account
<1>4. /\ t.active /\ t.loggedOut = account.loggedOut /\ t.told = account.told
      /\ t.contacts = account.contacts /\ t.presenceSent = account.presenceSent
      /\ t.rosterDone = account.rosterDone /\ t.stream = account.stream
    BY AccountTyped DEF Account
<1> HIDE DEF t
<1>5. Final(t) /\ Fresh(t) /\ (t.presenceSent => t.rosterDone)
    BY <1>2, <1>4 DEF SoundAccount, Sound, Final, Fresh, Told
<1>6. Sound(cs_error(t, "lost", FALSE, failing))
    BY <1>2, <1>3, <1>4, <1>5, ErrorSound
<1>7. QED
    BY <1>1, <1>6 DEF SoundAccount

LEMMA DisconnectStep ==
    ASSUME SoundAccount, Disconnect
    PROVE  SoundAccount'
<1> DEFINE n == account.closers - 1
           shot == [account EXCEPT !.closers = n]
<1>1. PICK failing \in SUBSET Outstanding :
          account' = IF account.disconnecting THEN RejectDialogs(Close(shot, failing)) ELSE shot
    BY DEF Disconnect, a
<1>2. n \in Nat
    BY AccountTyped DEF Disconnect, Account, a
<1> HIDE DEF n
<1>3. Sound(shot) /\ shot.disconnecting = account.disconnecting
    BY <1>2, AccountTyped, SoundApart DEF SoundAccount, Account
<1> HIDE DEF shot
<1>4. ASSUME shot.disconnecting PROVE Sound(Close(shot, failing))
  <2> DEFINE r == Close(shot, failing)
  <2>1. shot \in Account /\ failing \in SUBSET Request
      BY <1>1, <1>3, AccountTyped DEF Sound, Typed
  <2>2. /\ r \in Account
        /\ r.stream = NoStream /\ r.told = "nothing"
        /\ r.active = shot.active /\ r.disconnecting = shot.disconnecting
        /\ r.doReconnect = shot.doReconnect /\ r.rosterDone = shot.rosterDone
        /\ r.presenceSent = shot.presenceSent /\ r.status = shot.status
        /\ r.shown = shot.shown /\ r.shots = shot.shots /\ r.timeout = shot.timeout
        /\ r.loggedOut = shot.loggedOut /\ r.crashed = shot.crashed
      BY <2>1, CloseFields
  <2> HIDE DEF r
  <2>3. Typed(r) /\ Final(r) /\ Spared(r) /\ Fresh(r)
      BY <1>3, <2>2 DEF Sound, Typed, Final, Spared, Fresh
  <2>4. Moves(r)
      BY <1>3, <1>4, <2>2 DEF Sound, Spared, Moves
  <2>5. Shown(r) /\ Told(r)
      BY <1>3, <2>2 DEF Sound, Shown, ShownState, loggedIn, Told, isConnected
  <2>6. QED
      BY <2>3, <2>4, <2>5 DEF Sound, r
<1>5. QED
    BY <1>1, <1>3, <1>4, RejectDialogsSound DEF SoundAccount

LEMMA HandshakenStep ==
    ASSUME SoundAccount, NEW s \in Stream, Handshaken(s)
    PROVE  SoundAccount'
<1>1. CASE account.stream = NoStream
  <2> DEFINE t == [account EXCEPT !.crashed = TRUE]
  <2>1. account' = t
      BY <1>1 DEF Handshaken, a
  <2>2. t \in Account /\ Alike(t, account) /\ t.posted = account.posted /\ t.crashed
      BY AccountTyped DEF Account, Alike
  <2> HIDE DEF t
  <2>3. t.stream = NoStream
      BY <1>1, <2>2 DEF Alike
  <2>4. QED
      BY <2>1, <2>2, <2>3, StreamSound DEF SoundAccount
<1>2. CASE account.stream # NoStream
  <2> DEFINE n == account.dialogs + 1
             g == [account.phase EXCEPT ![s] = IF s = account.stream THEN "certificate" ELSE "stuck"]
             t == [account EXCEPT !.dialogs = n, !.phase = g]
  <2>1. account' = t
      BY <1>2 DEF Handshaken, a
  <2>2. n \in Nat
      BY AccountTyped DEF Account
  <2>3. /\ g \in [Stream -> Phase] /\ g[s] \in {"certificate", "stuck"}
        /\ \A q \in Stream \ {s} : g[q] = account.phase[q]
      BY AccountTyped DEF Phase
  <2> HIDE DEF n, g
  <2>4. t \in Account /\ t.phase = g /\ Alike(t, account) /\ t.posted = account.posted
        /\ t.requests = account.requests /\ t.crashed = account.crashed
      BY <2>2, <2>3, AccountTyped DEF Account, Alike
  <2> HIDE DEF t
  <2>5. t.stream # NoStream => t.stream \in Stream /\ account.phase[t.stream] # "none"
      BY <2>4 DEF Account, SoundAccount, Sound, Typed, Alike
  <2>6. QED
      BY <2>1, <2>3, <2>4, <2>5, StreamSound DEF SoundAccount
<1>3. QED
    BY <1>1, <1>2

LEMMA NeedAuthParamsStep ==
    ASSUME SoundAccount, NEW s \in Stream, NeedAuthParams(s)
    PROVE  SoundAccount'
<1>1. CASE account.stream = NoStream
  <2> DEFINE t == [account EXCEPT !.crashed = TRUE]
  <2>1. account' = t
      BY <1>1 DEF NeedAuthParams, a
  <2>2. t \in Account /\ Alike(t, account) /\ t.posted = account.posted /\ t.crashed
      BY AccountTyped DEF Account, Alike
  <2> HIDE DEF t
  <2>3. t.stream = NoStream
      BY <1>1, <2>2 DEF Alike
  <2>4. QED
      BY <2>1, <2>2, <2>3, StreamSound DEF SoundAccount
<1>2. CASE account.stream # NoStream
  <2> DEFINE g == [account.phase EXCEPT ![s] = IF s = account.stream THEN "parameters" ELSE "stuck"]
             t == [account EXCEPT !.phase = g]
  <2>1. account' = t
      BY <1>2 DEF NeedAuthParams, a
  <2>2. /\ g \in [Stream -> Phase] /\ g[s] \in {"parameters", "stuck"}
        /\ \A q \in Stream \ {s} : g[q] = account.phase[q]
      BY AccountTyped DEF Phase
  <2> HIDE DEF g
  <2>3. t \in Account /\ t.phase = g /\ Alike(t, account) /\ t.posted = account.posted
        /\ t.requests = account.requests /\ t.crashed = account.crashed
      BY <2>2, AccountTyped DEF Account, Alike
  <2> HIDE DEF t
  <2>4. t.stream # NoStream => t.stream \in Stream /\ account.phase[t.stream] # "none"
      BY <2>3 DEF Account, SoundAccount, Sound, Typed, Alike
  <2>5. QED
      BY <2>1, <2>2, <2>3, <2>4, StreamSound DEF SoundAccount
<1>3. QED
    BY <1>1, <1>2

LEMMA AuthenticatedStep ==
    ASSUME SoundAccount, NEW s \in Stream, Authenticated(s)
    PROVE  SoundAccount'
<1> DEFINE g == [account.phase EXCEPT ![s] = "ready"]
           ready == [account EXCEPT !.phase = g]
<1>1. /\ g \in [Stream -> Phase] /\ g[s] = "ready"
      /\ \A q \in Stream \ {s} : g[q] = account.phase[q]
    BY AccountTyped DEF Phase
<1>2. PICK failing \in SUBSET Outstanding :
          account' = IF account.stream = NoStream THEN cs_error(ready, "lost", FALSE, failing)
                     ELSE IF account.stream = s THEN [ready EXCEPT !.requests = {"session"}]
                     ELSE [ready EXCEPT !.orphans = @ \cup {"session"}]
    BY DEF Authenticated, a
<1> HIDE DEF g
<1>3. ready \in Account /\ Alike(ready, account) /\ ready.phase = g
      /\ ready.posted = account.posted /\ ready.requests = account.requests
      /\ ready.orphans = account.orphans /\ ready.crashed = account.crashed
    BY <1>1, AccountTyped DEF Account, Alike
<1> HIDE DEF ready
<1>4. account.stream # NoStream => account.stream \in Stream /\ account.phase[account.stream] # "none"
    BY AccountTyped DEF Account, SoundAccount, Sound, Typed
<1>5. ASSUME account.stream # s PROVE Sound(ready)
  <2>1. ready.stream = account.stream
      BY <1>3 DEF Alike
  <2>2. QED
      BY <1>1, <1>3, <1>4, <1>5, <2>1, StreamSound DEF SoundAccount
<1>6. CASE account.stream = NoStream
  <2>1. account.stream # s
      BY <1>6, AccountTyped
  <2>2. Sound(ready) /\ failing \in SUBSET Request
      BY <1>2, <1>5, <2>1, AccountTyped
  <2>3. Sound(cs_error(ready, "lost", FALSE, failing))
      BY <1>3, <2>2, ErrorSound DEF Sound, Told
  <2>4. QED
      BY <1>2, <1>6, <2>3 DEF SoundAccount
<1>7. CASE account.stream # NoStream /\ account.stream = s
  <2> DEFINE t == [ready EXCEPT !.requests = {"session"}]
  <2>1. account' = t
      BY <1>2, <1>7
  <2>2. t \in Account /\ t.requests = {"session"} /\ Alike(t, ready) /\ t.phase = g
        /\ t.posted = ready.posted /\ t.crashed = ready.crashed
      BY <1>3 DEF Account, Alike, Request
  <2> HIDE DEF t
  <2>3. Alike(t, account) /\ t.posted = account.posted /\ t.crashed = account.crashed
        /\ t.stream = s
      BY <1>3, <1>7, <2>2 DEF Alike
  <2>4. QED
      BY <1>1, <2>1, <2>2, <2>3, StreamSound DEF SoundAccount
<1>8. CASE account.stream # NoStream /\ account.stream # s
  <2> DEFINE o == ready.orphans \cup {"session"}
             t == [ready EXCEPT !.orphans = o]
  <2>1. account' = t
      BY <1>2, <1>8
  <2>2. o \in SUBSET Request
      BY <1>3, AccountTyped DEF Request
  <2> HIDE DEF o
  <2>3. t \in Account /\ t.requests = ready.requests /\ Alike(t, ready) /\ t.phase = g
        /\ t.posted = ready.posted /\ t.crashed = ready.crashed
      BY <1>3, <2>2 DEF Account, Alike
  <2> HIDE DEF t
  <2>4. Sound(ready) /\ Typed(ready)
      BY <1>5, <1>8 DEF Sound
  <2>5. t.stream # NoStream => t.stream = ready.stream /\ ready.phase[ready.stream] # "none"
      BY <2>3, <2>4 DEF Typed, Alike
  <2>6. QED
      BY <1>3, <2>1, <2>3, <2>4, <2>5, StreamSound DEF SoundAccount
<1>9. QED
    BY <1>6, <1>7, <1>8

LEMMA WarnNoTLSStep ==
    ASSUME SoundAccount, NEW s \in Stream, WarnNoTLS(s)
    PROVE  SoundAccount'
<1>1. PICK failing \in SUBSET Outstanding :
          account' = RejectDialogs(stateChanged(
                        [Close(account, failing) EXCEPT !.active = FALSE, !.status = "offline"]))
    BY DEF WarnNoTLS, a
<1> DEFINE b == Close(account, failing)
           t == [b EXCEPT !.active = FALSE, !.status = "offline"]
<1>2. account \in Account /\ failing \in SUBSET Request /\ "offline" \in Status
    BY <1>1, AccountTyped DEF Status
<1>3. /\ b \in Account /\ b.stream = NoStream /\ b.told = "nothing"
      /\ b.doReconnect = account.doReconnect /\ b.rosterDone = account.rosterDone
      /\ b.presenceSent = account.presenceSent /\ b.timeout = account.timeout
      /\ b.loggedOut = account.loggedOut
    BY <1>2, CloseFields
<1> HIDE DEF b
<1>4. t \in Account
  <2>1. b \in Account /\ "offline" \in Status
      BY <1>2, <1>3
  <2>2. QED
      BY ONLY <2>1 DEF Account
<1>5. /\ ~t.active /\ t.stream = NoStream /\ t.told = "nothing"
      /\ t.doReconnect = account.doReconnect /\ t.rosterDone = account.rosterDone
      /\ t.presenceSent = account.presenceSent /\ t.timeout = account.timeout
      /\ t.loggedOut = account.loggedOut
    BY <1>3 DEF Account
<1>6. account' = RejectDialogs(stateChanged(t))
    BY <1>1 DEF b
<1> HIDE DEF t
<1>7. Typed(t) /\ Final(t) /\ Spared(t) /\ Moves(t) /\ Told(t) /\ Fresh(t)
    BY <1>4, <1>5 DEF Typed, Final, Spared, Moves, Told, Fresh, SoundAccount, Sound
<1>8. Sound(RejectDialogs(stateChanged(t)))
    BY <1>4, <1>7, StateChanged, RejectDialogsSound DEF Sound
<1>9. QED
    BY <1>6, <1>8 DEF SoundAccount

LEMMA StreamEndsStep ==
    ASSUME SoundAccount, NEW s \in Stream, NEW failure \in Failure, StreamEnds(s, failure)
    PROVE  SoundAccount'
<1> DEFINE w == Append(account.posted, failure)
           g == [account.phase EXCEPT ![s] = IF s = account.stream THEN "ended" ELSE "none"]
           t == [account EXCEPT !.posted = w, !.phase = g]
<1>1. account' = t /\ ~account.crashed
    BY DEF StreamEnds, Running, a
<1>2. /\ g \in [Stream -> Phase]
      /\ g[s] = IF s = account.stream THEN "ended" ELSE "none"
      /\ \A q \in Stream \ {s} : g[q] = account.phase[q]
    BY AccountTyped DEF Phase
<1>3. /\ w \in Seq(Event)
      /\ \E i \in 1 .. Len(w) : w[i] # "roster"
  <2>1. failure \in Event /\ failure # "roster"
      BY ConstantsAssumption DEF Event
  <2>2. w \in Seq(Event) /\ Len(w) = Len(account.posted) + 1 /\ w[Len(account.posted) + 1] = failure
      BY <2>1, AccountTyped, AppendProperties
  <2>3. Len(account.posted) \in Nat
      BY AccountTyped, LenProperties
  <2>4. QED
      BY <2>1, <2>2, <2>3
<1> HIDE DEF w, g
<1>4. t \in Account
    BY <1>2, <1>3, AccountTyped DEF Account
<1>5. t.phase = g /\ Alike(t, account) /\ t.posted = w /\ t.requests = account.requests
      /\ t.crashed = account.crashed
    BY AccountTyped DEF Account, Alike
<1> HIDE DEF t
<1>6. t.stream # NoStream => t.stream \in Stream /\ account.phase[t.stream] # "none"
    BY <1>4, <1>5 DEF Account, SoundAccount, Sound, Typed, Alike
<1>7. Typed(t) /\ Final(t) /\ Spared(t) /\ Fresh(t)
  <2>1. t.stream = account.stream
      BY <1>5 DEF Alike
  <2>2. t.stream # NoStream => t.phase[t.stream] # "none"
      BY <1>2, <1>5, <1>6, <2>1
  <2>3. QED
      BY <1>4, <1>5, <2>2 DEF SoundAccount, Sound, Typed, Final, Spared, Fresh, Alike
<1>8. Moves(t)
    BY <1>3, <1>5 DEF SoundAccount, Sound, Moves, EndPosted, Alike
<1>9. Shown(t)
    BY <1>5 DEF SoundAccount, Sound, Shown, ShownState, loggedIn, Alike
<1>10. Told(t)
  <2>1. isConnected(t) => isConnected(account)
      BY <1>2, <1>5, <1>6 DEF isConnected, Alike
  <2>2. QED
      BY <1>5, <2>1 DEF SoundAccount, Sound, Told, Alike
<1>11. QED
    BY <1>1, <1>7, <1>8, <1>9, <1>10 DEF SoundAccount, Sound

LEMMA DeliverStep ==
    ASSUME SoundAccount, Deliver
    PROVE  SoundAccount'
<1> DEFINE event == Head(account.posted)
           w == Tail(account.posted)
           rest == [account EXCEPT !.posted = w]
<1>1. /\ account.posted # <<>>
      /\ IF event = "roster" THEN account' = rosterRequestFinished(rest, FALSE)
         ELSE \E permanent \in BOOLEAN, failing \in SUBSET Outstanding :
                  account' = cs_error(rest, event, permanent, failing)
    BY DEF Deliver, a
<1>2. /\ event \in Event /\ w \in Seq(Event)
      /\ Len(w) = Len(account.posted) - 1 /\ Len(account.posted) \in Nat
      /\ \A i \in 1 .. Len(w) : w[i] = account.posted[i + 1]
      /\ event = account.posted[1]
    BY <1>1, AccountTyped, HeadTailProperties, LenProperties
<1> HIDE DEF event, w
<1>3. rest \in Account
    BY <1>2, AccountTyped DEF Account
<1>4. Alike(rest, account) /\ rest.phase = account.phase /\ rest.posted = w
      /\ rest.requests = account.requests /\ rest.crashed = account.crashed
    BY AccountTyped DEF Account, Alike
<1> HIDE DEF rest
<1>5. Typed(rest) /\ Final(rest) /\ Spared(rest) /\ Fresh(rest) /\ Shown(rest) /\ Told(rest)
  <2>1. Typed(rest) /\ Final(rest) /\ Spared(rest) /\ Fresh(rest)
      BY <1>3, <1>4 DEF SoundAccount, Sound, Typed, Final, Spared, Fresh, Alike
  <2>2. Shown(rest) /\ Told(rest)
      BY <1>4 DEF SoundAccount, Sound, Shown, ShownState, loggedIn, Told, isConnected, Alike
  <2>3. QED
      BY <2>1, <2>2
<1>6. CASE event = "roster"
  <2>1. EndPosted(account) => EndPosted(rest)
    <3>1. ASSUME NEW i \in 1 .. Len(account.posted), account.posted[i] # "roster"
          PROVE  i - 1 \in 1 .. Len(w) /\ w[i - 1] # "roster"
      <4>1. i # 1
          BY <1>2, <1>6, <3>1
      <4>2. i - 1 \in 1 .. Len(w) /\ (i - 1) + 1 = i
          BY <1>2, <4>1
      <4>3. QED
          BY <1>2, <3>1, <4>2
    <3>2. QED
        BY <1>4, <3>1 DEF EndPosted
  <2>2. Moves(rest)
      BY <1>4, <2>1 DEF SoundAccount, Sound, Moves, Alike
  <2>3. QED
      BY <1>1, <1>5, <1>6, <2>2, RosterSound DEF SoundAccount
<1>7. CASE event # "roster"
  <2>1. PICK permanent \in BOOLEAN, failing \in SUBSET Outstanding :
            account' = cs_error(rest, event, permanent, failing)
      BY <1>1, <1>7
  <2>2. event \in {"lost", "connection", "stream", "negotiation"}
      BY <1>2, <1>7, ConstantsAssumption DEF Event
  <2>3. rest.active \/ Sound(rest)
      BY <1>5 DEF Sound, Moves
  <2>4. failing \in SUBSET Request
      BY <2>1, AccountTyped
  <2>5. Sound(cs_error(rest, event, permanent, failing))
      BY <1>3, <1>5, <2>1, <2>2, <2>3, <2>4, ErrorSound DEF Told
  <2>6. QED
      BY <2>1, <2>5 DEF SoundAccount
<1>8. QED
    BY <1>6, <1>7

\* Of an answer only the requests change.
LEMMA AnswerFields ==
    ASSUME SoundAccount, NEW q \in SUBSET Request
    PROVE  LET t == [account EXCEPT !.requests = q]
           IN  /\ t \in Account /\ Alike(t, account) /\ t.phase = account.phase
               /\ t.posted = account.posted /\ t.requests = q /\ t.crashed = account.crashed
    BY AccountTyped DEF Account, Alike

LEMMA SessionStartedStep ==
    ASSUME SoundAccount, NEW success \in BOOLEAN, SessionStarted(success)
    PROVE  SoundAccount'
<1>1. CASE success
  <2> DEFINE t == [account EXCEPT !.requests = {"roster"}]
  <2>1. account' = t
      BY <1>1 DEF SessionStarted, a
  <2>2. /\ t \in Account /\ Alike(t, account) /\ t.phase = account.phase
        /\ t.posted = account.posted /\ t.requests = {"roster"} /\ t.crashed = account.crashed
      BY AnswerFields DEF Request
  <2> HIDE DEF t
  <2>3. t.stream # NoStream => t.phase[t.stream] # "none"
      BY <2>2 DEF SoundAccount, Sound, Typed, Alike
  <2>4. Sound(t)
      BY <2>2, <2>3, StreamSound DEF SoundAccount
  <2>5. QED
      BY <2>1, <2>4 DEF SoundAccount
<1>2. CASE ~success
  <2> DEFINE t == [account EXCEPT !.requests = {}]
  <2>1. PICK failing \in SUBSET account.orphans : account' = cs_error(t, "lost", FALSE, failing)
      BY <1>2 DEF SessionStarted, a
  <2>2. /\ t \in Account /\ Alike(t, account) /\ t.phase = account.phase
        /\ t.posted = account.posted /\ t.requests = {} /\ t.crashed = account.crashed
      BY AnswerFields
  <2> HIDE DEF t
  <2>3. Typed(t) /\ Final(t) /\ Spared(t) /\ Moves(t) /\ Fresh(t) /\ (t.presenceSent => t.rosterDone)
      BY <2>2 DEF SoundAccount, Sound, Typed, Final, Spared, Moves, EndPosted, Fresh, Told, Alike
  <2>4. t.active \/ Sound(t)
    <3>1. Shown(t)
        BY <2>2 DEF SoundAccount, Sound, Shown, ShownState, loggedIn, Alike
    <3>2. QED
        BY <2>3, <3>1 DEF Sound, Told
  <2>5. failing \in SUBSET Request
      BY <2>1, AccountTyped
  <2>6. Sound(cs_error(t, "lost", FALSE, failing))
      BY <2>2, <2>3, <2>4, <2>5, ErrorSound
  <2>7. QED
      BY <2>1, <2>6 DEF SoundAccount
<1>3. QED
    BY <1>1, <1>2

LEMMA RosterAnsweredStep ==
    ASSUME SoundAccount, NEW success \in BOOLEAN, RosterAnswered(success)
    PROVE  SoundAccount'
<1> DEFINE t == [account EXCEPT !.requests = {}]
<1>1. account' = rosterRequestFinished(t, success) /\ isConnected(account)
    BY DEF RosterAnswered, a
<1>2. /\ t \in Account /\ Alike(t, account) /\ t.phase = account.phase
      /\ t.posted = account.posted /\ t.crashed = account.crashed
    BY AnswerFields
<1> HIDE DEF t
<1>3. /\ Typed(t) /\ Final(t) /\ Spared(t) /\ Moves(t) /\ Fresh(t)
      /\ isConnected(t)
    BY <1>1, <1>2 DEF SoundAccount, Sound, Typed, Final, Spared, Moves, EndPosted, Fresh,
                      isConnected, Alike
<1>4. QED
    BY <1>1, <1>3, RosterSound DEF SoundAccount

LEMMA ContactComesOnlineStep ==
    ASSUME SoundAccount, ContactComesOnline
    PROVE  SoundAccount'
<1> DEFINE t == [account EXCEPT !.contacts = "fresh"]
<1>1. account' = t
    BY DEF ContactComesOnline, a
<1>2. t \in Account
    BY AccountTyped DEF Account
<1>3. /\ t.active = account.active /\ t.disconnecting = account.disconnecting
      /\ t.doReconnect = account.doReconnect /\ t.rosterDone = account.rosterDone
      /\ t.presenceSent = account.presenceSent /\ t.status = account.status
      /\ t.shown = account.shown /\ t.stream = account.stream /\ t.told = account.told
      /\ t.contacts = "fresh" /\ t.shots = account.shots /\ t.timeout = account.timeout
      /\ t.loggedOut = account.loggedOut /\ t.phase = account.phase
      /\ t.posted = account.posted /\ t.requests = account.requests
      /\ t.crashed = account.crashed
    BY AccountTyped DEF Account
<1> HIDE DEF t
<1>4. Typed(t) /\ Final(t) /\ Spared(t) /\ Moves(t) /\ Fresh(t)
    BY <1>2, <1>3 DEF SoundAccount, Sound, Typed, Final, Spared, Moves, EndPosted, Fresh
<1>5. Shown(t) /\ Told(t)
    BY <1>3 DEF SoundAccount, Sound, Shown, ShownState, loggedIn, Told, isConnected
<1>6. QED
    BY <1>1, <1>4, <1>5 DEF SoundAccount, Sound

LEMMA InitSound == Init => SoundAccount
<1> SUFFICES ASSUME Init PROVE SoundAccount
    OBVIOUS
<1>1. account \in Account
  <2>1. [s \in Stream |-> "none"] \in [Stream -> Phase] /\ <<>> \in Seq(Event)
      BY EmptySeq DEF Phase
  <2>2. "offline" \in Status /\ "online" \in Status
      BY DEF Status
  <2>3. QED
      BY <2>1, <2>2 DEF Init, Account
<1>2. /\ ~account.active /\ account.stream = NoStream /\ ~account.presenceSent
      /\ ~account.loggedOut /\ account.told = "nothing" /\ account.shown = "offline"
    BY DEF Init
<1>3. QED
    BY <1>1, <1>2 DEF SoundAccount, Sound, Typed, Final, Spared, Moves, Shown, ShownState,
                      loggedIn, Told, Fresh

LEMMA NextSound == SoundAccount /\ [Next]_vars => SoundAccount'
<1> SUFFICES ASSUME SoundAccount, [Next]_vars PROVE SoundAccount'
    OBVIOUS
<1>1. CASE \/ \E status \in Status : SetStatus(status)
           \/ PasswordReady
           \/ \E status \in Status : AutoAway(status)
           \/ AcceptCertificate \/ RejectCertificate
    BY <1>1, SetStatusStep, PasswordReadyStep, AutoAwayStep, AcceptCertificateStep,
       RejectCertificateStep
<1>2. CASE Reconnect \/ ReconnectTimeout \/ Disconnect
    BY <1>2, ReconnectStep, ReconnectTimeoutStep, DisconnectStep
<1>3. CASE \/ \E s \in Stream : Handshaken(s)
           \/ \E s \in Stream : NeedAuthParams(s)
           \/ \E s \in Stream : Authenticated(s)
           \/ \E s \in Stream : WarnNoTLS(s)
           \/ \E s \in Stream, failure \in Failure : StreamEnds(s, failure)
           \/ Deliver
    BY <1>3, HandshakenStep, NeedAuthParamsStep, AuthenticatedStep, WarnNoTLSStep,
       StreamEndsStep, DeliverStep
<1>4. CASE \/ \E success \in BOOLEAN : SessionStarted(success)
           \/ \E success \in BOOLEAN : RosterAnswered(success)
           \/ ContactComesOnline
    BY <1>4, SessionStartedStep, RosterAnsweredStep, ContactComesOnlineStep
<1>5. CASE UNCHANGED vars
    BY <1>5 DEF vars, SoundAccount
<1>6. QED
    BY <1>1, <1>2, <1>3, <1>4, <1>5 DEF Next

\* The inductive invariant: every handler leaves a sound account.
THEOREM AccountSound == Spec => []SoundAccount
    BY InitSound, NextSound, PTL DEF Spec

--------------------------------------------------------------------------------
(* What follows.                                                               *)

\* From a logout to the next login the account is inactive, with no reconnection
\* pending and no timeout to act, and the delayed closing of PsiAccount::logout
\* finds no stream that was made since.
THEOREM LogoutIsCleanHolds == Spec => []LogoutIsClean
<1>1. SoundAccount => LogoutIsClean
    BY DEF SoundAccount, Sound, Final, Spared, LogoutIsClean, LogoutIsFinal,
           CloseSparesNewStream, a
<1>2. QED
    BY <1>1, AccountSound, PTL

\* What is shown as connecting or connected has a stream that works, the news of
\* its end or a reconnection under way.
THEOREM NeverStuckHolds == Spec => []NeverStuck
<1>1. SoundAccount => NeverStuck
  <2> SUFFICES ASSUME SoundAccount, account.active, ~account.crashed
               PROVE  \/ account.stream # NoStream /\ account.phase[account.stream] \in Live
                      \/ /\ account.stream # NoStream
                         /\ \E i \in DOMAIN account.posted : account.posted[i] # "roster"
                      \/ account.stream = NoStream /\ account.doReconnect /\ account.shots > 0
      BY DEF NeverStuck, a
  <2>1. CASE account.stream = NoStream
      BY <2>1 DEF SoundAccount, Sound, Moves
  <2>2. CASE account.stream # NoStream
    <3>1. account.stream \in Stream /\ account.phase \in [Stream -> Phase]
        BY <2>2, AccountTyped DEF Account
    <3>2. account.phase[account.stream] \in Phase /\ account.phase[account.stream] # "none"
        BY <2>2, <3>1 DEF SoundAccount, Sound, Typed
    <3>3. CASE account.phase[account.stream] = "ended"
      <4>1. PICK i \in 1 .. Len(account.posted) : account.posted[i] # "roster"
          BY <2>2, <3>3 DEF SoundAccount, Sound, Moves, EndPosted
      <4>2. i \in DOMAIN account.posted
          BY AccountTyped, LenProperties
      <4>3. QED
          BY <2>2, <4>1, <4>2
    <3>4. CASE account.phase[account.stream] # "ended"
        BY <2>2, <3>2, <3>4 DEF Live
    <3>5. QED
        BY <3>3, <3>4
  <2>3. QED
      BY <2>1, <2>2
<1>2. QED
    BY <1>1, AccountSound, PTL

\* What is shown and what the server was told is so, of this connection.
THEOREM StatusInvariantHolds == Spec => []StatusInvariant
<1>1. SoundAccount => TypeOK
  <2> SUFFICES ASSUME SoundAccount PROVE TypeOK
      OBVIOUS
  <2>1. account \in Account
      BY AccountTyped
  <2>2. /\ account.stream \in Stream \cup {NoStream}
        /\ account.phase \in [Stream -> Phase]
        /\ account.stream # NoStream => account.phase[account.stream] # "none"
        /\ account.status \in Status /\ account.manual \in Status
        /\ account.shown \in Status \cup {"connecting"}
        /\ account.told \in Status \cup {"nothing"}
      BY <2>1 DEF Account, SoundAccount, Sound, Typed
  <2>3. /\ account.requests \subseteq {"session", "roster"}
        /\ account.orphans \subseteq {"session", "roster"}
        /\ account.contacts \in {"none", "fresh", "stale"}
        /\ account.posted \in Seq(Failure \cup {"lost", "roster"})
        /\ {account.shots, account.closers, account.passwords, account.dialogs} \subseteq Nat
      BY <2>1 DEF Account, Request, Event
  <2>4. QED
      BY <2>2, <2>3 DEF TypeOK, a
<1>2. SoundAccount => ShownIsCurrent /\ PresenceIsCurrent /\ ContactsAreFresh
    BY DEF SoundAccount, Sound, Shown, Told, Fresh, ShownIsCurrent, PresenceIsCurrent,
           ContactsAreFresh, a
<1>3. QED
    BY <1>1, <1>2, AccountSound, PTL DEF StatusInvariant
=============================================================================
