--------------------------- MODULE AccountConnection ---------------------------
(***************************************************************************)
(* The connection of one account, from src/psiaccount.cpp: login, logout,   *)
(* errors, reconnection, the roster request and the presence sent.          *)
(*                                                                         *)
(* One thread runs all of it, but every handler may be about something that *)
(* is gone: closings and errors of a stream are queued and do not name the  *)
(* stream, reconnection timers are never cancelled, a logout closes its     *)
(* stream 100 ms later, requests may fail after their stream was closed, a  *)
(* password dialog logs in when it is answered, and the certificate dialog  *)
(* runs an event loop inside a handler of the stream.                       *)
(*                                                                         *)
(* The account is one record, a handler a function on it, so that handlers  *)
(* call each other as they do in the code.                                  *)
(***************************************************************************)
EXTENDS Integers, Sequences, FiniteSets

CONSTANTS
    MaxStreams,     \* streams that exist at a time (bound)
    MaxStatus,      \* statuses the user chooses (bound)
    MaxTrouble,     \* failures, timeouts and questionable certificates (bound)
    PasswordSaved,  \* opt_pass: no password dialog
    Failure         \* the kinds of errors streams report

ASSUME ConstantsAssumption ==
    /\ MaxStreams \in Nat \ {0}
    /\ MaxStatus \in Nat /\ MaxTrouble \in Nat
    /\ PasswordSaved \in BOOLEAN
    /\ Failure \subseteq {"lost", "connection", "stream", "negotiation"}

VARIABLES
    account,        \* the members of PsiAccount, its streams and what is queued for it
    asked,          \* number of statuses the user chose
    trouble         \* number of things that went wrong outside

vars == <<account, asked, trouble>>

Stream == 1 .. MaxStreams
NoStream == 0
Status == {"online", "away", "offline"}

\* A stream connects, may wait for the user to look at a certificate, asks for
\* the name and password, is authenticated, and ends. "stuck" is a stream whose
\* question was answered to another stream; "ended" the current stream when its
\* end is still to be handled.
Phase == {"none", "connecting", "certificate", "secured", "parameters", "ready", "stuck", "ended"}
Live == Phase \ {"none", "ended"}

--------------------------------------------------------------------------------
(* What the handlers ask and do *)

a == account

\* A stream that has been given its name and password and was accepted.
isConnected(acc) == acc.stream # NoStream /\ acc.phase[acc.stream] = "ready"
loggedIn(acc) == acc.active /\ acc.presenceSent
isAvailable(acc) == isConnected(acc) /\ loggedIn(acc) /\ ~acc.disconnecting

\* The state shown in the contact list.
ShownState(acc) ==
    IF loggedIn(acc) THEN acc.status ELSE IF acc.active THEN "connecting" ELSE "offline"
stateChanged(acc) == [acc EXCEPT !.shown = ShownState(acc)]

\* Variants of the handlers with a bug, here and below, are named for it.
startReconnectOnce(acc) ==
    IF acc.doReconnect THEN stateChanged([acc EXCEPT !.timeout = FALSE])
    ELSE stateChanged([acc EXCEPT !.timeout = FALSE, !.doReconnect = TRUE, !.shots = @ + 1])
startReconnect(acc) ==
    stateChanged([acc EXCEPT !.timeout = FALSE, !.doReconnect = TRUE, !.shots = @ + 1])
stopReconnectOnly(acc) == [acc EXCEPT !.doReconnect = FALSE]
stopReconnect(acc) == [acc EXCEPT !.doReconnect = FALSE, !.timeout = FALSE]

Aged(contacts) == IF contacts = "fresh" THEN "stale" ELSE contacts


\* client->close() and cleanupStream(): of the requests not answered, those in
\* failing report a failure later.
Close(acc, failing) ==
    [acc EXCEPT
        !.posted = @ \o (IF "session" \in failing THEN <<"lost">> ELSE <<>>)
                     \o (IF "roster" \in failing THEN <<"roster">> ELSE <<>>),
        !.requests = {}, !.orphans = {}, !.told = "nothing", !.contacts = Aged(@),
        !.phase = [s \in Stream |-> IF s = acc.stream THEN "none" ELSE @[s]],
        !.stream = NoStream]

\* A stream that can be made anew.
Room(acc) == \E s \in Stream : acc.phase[s] = "none"

\* The stream the account had is neither closed nor deleted.
login(acc) ==
    IF acc.active /\ ~acc.doReconnect THEN acc
    ELSE LET new == CHOOSE s \in Stream : acc.phase[s] = "none"
         IN  stateChanged(
                [acc EXCEPT
                    !.active = TRUE, !.disconnecting = FALSE, !.rosterDone = FALSE,
                    !.presenceSent = FALSE, !.loggedOut = FALSE,
                    !.phase = [s \in Stream |-> CASE s = new -> "connecting"
                                                  [] s = acc.stream /\ @[s] = "ended" -> "none"
                                                  [] OTHER -> @[s]],
                    !.orphans = @ \cup acc.requests, !.requests = {},
                    !.told = "nothing", !.contacts = Aged(@), !.stream = new])

Tell(acc, status) == [acc EXCEPT !.told = IF isConnected(acc) THEN status ELSE @]

logoutUnlessLoggedIn(acc) ==
    IF ~acc.active THEN acc
    ELSE LET told == IF loggedIn(acc) THEN Tell(acc, "offline") ELSE acc
         IN  stateChanged(
                [stopReconnect(told) EXCEPT
                    !.disconnecting = TRUE, !.contacts = "none", !.active = FALSE,
                    !.status = "offline", !.closers = IF loggedIn(acc) THEN @ + 1 ELSE @,
                    !.loggedOut = TRUE])

\* logout() and forceDisconnect(): the stream is closed by a timer.
logout(acc) ==
    IF ~acc.active THEN acc
    ELSE LET told == IF loggedIn(acc) THEN Tell(acc, "offline") ELSE acc
         IN  stateChanged(
                [stopReconnect(told) EXCEPT
                    !.disconnecting = TRUE, !.contacts = "none", !.active = FALSE,
                    !.status = "offline", !.closers = @ + 1, !.loggedOut = TRUE])

\* disconnected() and reconnecting() reject the certificate dialogs; their
\* handlers resume when the event that rejected them has been handled.
RejectDialogs(acc) == IF acc.dialogs = 0 THEN acc ELSE logout([acc EXCEPT !.dialogs = 0])

\* getErrorInfo reads the stream the account has now for a stream error, a
\* connection error and a failed negotiation; the first two expect that it may
\* be gone.
Reconnects(acc, failure, permanent) ==
    CASE failure = "lost" -> TRUE
      [] failure = "connection" -> acc.stream = NoStream \/ ~permanent
      [] failure = "stream" -> acc.stream # NoStream /\ ~permanent
      [] failure = "negotiation" -> ~permanent

cs_error(acc, failure, permanent, failing) ==
    IF ~acc.active THEN acc
    ELSE IF failure = "negotiation" /\ acc.stream = NoStream THEN [acc EXCEPT !.crashed = TRUE]
    ELSE LET closed == [Close(acc, failing) EXCEPT
                            !.disconnecting = TRUE, !.presenceSent = FALSE,
                            !.contacts = IF loggedIn(acc) THEN "none" ELSE @]
         IN  IF Reconnects(acc, failure, permanent)
             THEN startReconnect(closed)
             ELSE RejectDialogs(
                    stateChanged([closed EXCEPT !.active = FALSE, !.status = "offline"]))


\* setStatusActual is all of setStatusDirect when presence is not signed.
setStatusDirect(acc, status) ==
    LET cleared == IF acc.presenceSent THEN acc ELSE [acc EXCEPT !.contacts = "none"]
    IN  stateChanged([Tell(cleared, status) EXCEPT !.status = status, !.presenceSent = TRUE])

rosterUnlessSent(acc, success) ==
    LET told == [IF success THEN stopReconnect(acc) ELSE acc EXCEPT !.rosterDone = TRUE]
    IN  IF acc.presenceSent THEN told ELSE setStatusDirect(told, acc.status)
rosterRequestFinished(acc, success) ==
    LET told == IF success THEN stopReconnect(acc) ELSE acc
    IN  setStatusDirect([told EXCEPT !.rosterDone = TRUE], acc.status)

setStatus(acc, status) ==
    LET chosen == [acc EXCEPT !.manual = status, !.status = status]
    IN  IF status = "offline" THEN logout(chosen)
        ELSE IF ~acc.active
             THEN IF PasswordSaved THEN login(chosen) ELSE [chosen EXCEPT !.passwords = @ + 1]
             ELSE IF acc.rosterDone THEN setStatusDirect(chosen, status) ELSE chosen

--------------------------------------------------------------------------------
Init ==
    /\ account =
        [active |-> FALSE, disconnecting |-> FALSE, doReconnect |-> FALSE,
         rosterDone |-> FALSE, presenceSent |-> FALSE,
         status |-> "offline", manual |-> "online", shown |-> "offline",
         stream |-> NoStream, phase |-> [s \in Stream |-> "none"],
         requests |-> {}, orphans |-> {}, told |-> "nothing", contacts |-> "none",
         posted |-> <<>>, shots |-> 0, closers |-> 0, timeout |-> FALSE,
         passwords |-> 0, dialogs |-> 0, loggedOut |-> FALSE, crashed |-> FALSE]
    /\ asked = 0
    /\ trouble = 0

\* Nothing runs after a crash; no handler may need a stream when there is no room
\* for one.
Running == ~a.crashed /\ Room(a)

Outstanding == a.requests \cup a.orphans

(* The user *)

SetStatus(status) ==
    /\ Running /\ asked < MaxStatus
    /\ account' = setStatus(a, status)
    /\ asked' = asked + 1
    /\ UNCHANGED trouble

\* The password dialog is accepted. Cancelling it does nothing to the account, as
\* does leaving it open.
PasswordReady ==
    /\ Running /\ a.passwords > 0
    /\ account' = login([a EXCEPT !.passwords = @ - 1])
    /\ UNCHANGED <<asked, trouble>>

\* The user comes and goes; a status chosen as away is left alone.
AutoAway(status) ==
    /\ Running /\ isAvailable(a)
    /\ status \in IF a.manual = "online" THEN Status ELSE {a.manual}
    /\ status # a.status
    /\ account' = setStatusDirect(a, status)
    /\ UNCHANGED <<asked, trouble>>

\* tls_handshaken after the dialog, with the handler the account has now.
AcceptCertificate ==
    /\ Running /\ a.dialogs > 0
    /\ account' =
        [a EXCEPT !.dialogs = @ - 1,
                  !.crashed = a.stream = NoStream,
                  !.phase = [s \in Stream |-> IF s = a.stream /\ @[s] = "certificate"
                                              THEN "secured" ELSE @[s]]]
    /\ UNCHANGED <<asked, trouble>>

RejectCertificate ==
    /\ Running /\ a.dialogs > 0
    /\ account' = logout([a EXCEPT !.dialogs = @ - 1])
    /\ UNCHANGED <<asked, trouble>>

(* The timers *)


\* The single shots of startReconnect, each of which stays.
Reconnect ==
    /\ Running /\ a.shots > 0
    /\ LET shot == [a EXCEPT !.shots = @ - 1]
       IN  account' = IF a.doReconnect /\ ~isConnected(a)
                      THEN RejectDialogs(login([shot EXCEPT !.active = FALSE, !.doReconnect = FALSE,
                                                            !.timeout = TRUE]))
                      ELSE shot
    /\ UNCHANGED <<asked, trouble>>

ReconnectTimeout ==
    /\ Running /\ a.timeout /\ trouble < MaxTrouble
    /\ \E failing \in SUBSET Outstanding :
          account' = cs_error([a EXCEPT !.timeout = FALSE, !.active = TRUE], "lost", FALSE, failing)
    /\ trouble' = trouble + 1
    /\ UNCHANGED asked

\* The single shots of forceDisconnect.
Disconnect ==
    /\ Running /\ a.closers > 0
    /\ LET shot == [a EXCEPT !.closers = @ - 1]
       IN  \E failing \in SUBSET Outstanding :
              account' = IF a.disconnecting THEN RejectDialogs(Close(shot, failing)) ELSE shot
    /\ UNCHANGED <<asked, trouble>>

(* The streams *)

\* A certificate that the user has to look at. The handler looks at the TLS
\* session the account has, whichever stream's it is.
Handshaken(s) ==
    /\ Running /\ a.phase[s] = "connecting" /\ trouble < MaxTrouble
    /\ account' = IF a.stream = NoStream THEN [a EXCEPT !.crashed = TRUE]
                  ELSE [a EXCEPT !.dialogs = @ + 1,
                                 !.phase[s] = IF s = a.stream THEN "certificate" ELSE "stuck"]
    /\ trouble' = trouble + 1
    /\ UNCHANGED asked

\* The stream of the account is given the answer, whichever stream asked.
NeedAuthParams(s) ==
    /\ Running /\ a.phase[s] \in {"connecting", "secured"}
    /\ account' = IF a.stream = NoStream THEN [a EXCEPT !.crashed = TRUE]
                  ELSE [a EXCEPT !.phase[s] = IF s = a.stream THEN "parameters" ELSE "stuck"]
    /\ UNCHANGED <<asked, trouble>>

\* A session is asked for on the stream the account has; on one that is not
\* authenticated the request is not answered.
Authenticated(s) ==
    /\ Running /\ a.phase[s] = "parameters"
    /\ LET ready == [a EXCEPT !.phase[s] = "ready"]
       IN  \E failing \in SUBSET Outstanding :
              account' = IF a.stream = NoStream THEN cs_error(ready, "lost", FALSE, failing)
                         ELSE IF a.stream = s THEN [ready EXCEPT !.requests = {"session"}]
                         ELSE [ready EXCEPT !.orphans = @ \cup {"session"}]
    /\ UNCHANGED <<asked, trouble>>

\* The server does not offer TLS although the account requires it.
WarnNoTLS(s) ==
    /\ Running /\ a.phase[s] = "connecting" /\ trouble < MaxTrouble
    /\ \E failing \in SUBSET Outstanding :
          account' = RejectDialogs(stateChanged(
                        [Close(a, failing) EXCEPT !.active = FALSE, !.status = "offline"]))
    /\ trouble' = trouble + 1
    /\ UNCHANGED asked

\* A stream ends; the account will be told.
StreamEnds(s, failure) ==
    /\ Running /\ a.phase[s] \in Live /\ trouble < MaxTrouble
    /\ account' = [a EXCEPT !.posted = Append(@, failure),
                            !.phase[s] = IF s = a.stream THEN "ended" ELSE "none"]
    /\ trouble' = trouble + 1
    /\ UNCHANGED asked

\* cs_connectionClosed, cs_error, and requests that fail after their stream.
Deliver ==
    /\ Running /\ a.posted # <<>>
    /\ LET event == Head(a.posted)
           rest == [a EXCEPT !.posted = Tail(@)]
       IN  IF event = "roster" THEN account' = rosterRequestFinished(rest, FALSE)
           ELSE \E permanent \in BOOLEAN, failing \in SUBSET Outstanding :
                    account' = cs_error(rest, event, permanent, failing)
    /\ UNCHANGED <<asked, trouble>>

(* The server *)

SessionStarted(success) ==
    /\ Running /\ isConnected(a) /\ a.requests = {"session"}
    /\ \E failing \in SUBSET a.orphans :
          account' = IF success THEN [a EXCEPT !.requests = {"roster"}]
                     ELSE cs_error([a EXCEPT !.requests = {}], "lost", FALSE, failing)
    /\ UNCHANGED asked
    /\ IF success THEN UNCHANGED trouble ELSE trouble < MaxTrouble /\ trouble' = trouble + 1

RosterAnswered(success) ==
    /\ Running /\ isConnected(a) /\ a.requests = {"roster"}
    /\ account' = rosterRequestFinished([a EXCEPT !.requests = {}], success)
    /\ UNCHANGED <<asked, trouble>>

\* Contacts are announced to whoever has sent presence, and for a while after.
ContactComesOnline ==
    /\ Running /\ isConnected(a) /\ a.told # "nothing"
    /\ account' = [a EXCEPT !.contacts = "fresh"]
    /\ UNCHANGED <<asked, trouble>>

Next ==
    \/ \E status \in Status : SetStatus(status)
    \/ PasswordReady
    \/ \E status \in Status : AutoAway(status)
    \/ AcceptCertificate
    \/ RejectCertificate
    \/ Reconnect
    \/ ReconnectTimeout
    \/ Disconnect
    \/ \E s \in Stream : Handshaken(s)
    \/ \E s \in Stream : NeedAuthParams(s)
    \/ \E s \in Stream : Authenticated(s)
    \/ \E s \in Stream : WarnNoTLS(s)
    \/ \E s \in Stream, failure \in Failure : StreamEnds(s, failure)
    \/ Deliver
    \/ \E success \in BOOLEAN : SessionStarted(success)
    \/ \E success \in BOOLEAN : RosterAnswered(success)
    \/ ContactComesOnline

Spec == Init /\ [][Next]_vars

\* Qt's timers go off; neither the user nor the server has to do anything.
FairSpec == Spec /\ WF_vars(Reconnect \/ Disconnect)
--------------------------------------------------------------------------------
\* The types, and that the stream the account points to exists.
TypeOK ==
    /\ a.stream \in Stream \cup {NoStream}
    /\ a.phase \in [Stream -> Phase]
    /\ a.stream # NoStream => a.phase[a.stream] # "none"
    /\ a.status \in Status /\ a.manual \in Status
    /\ a.shown \in Status \cup {"connecting"}
    /\ a.told \in Status \cup {"nothing"}
    /\ a.requests \subseteq {"session", "roster"} /\ a.orphans \subseteq {"session", "roster"}
    /\ a.contacts \in {"none", "fresh", "stale"}
    /\ a.posted \in Seq(Failure \cup {"lost", "roster"})
    /\ {a.shots, a.closers, a.passwords, a.dialogs} \subseteq Nat

\* From a logout to the next login the account is inactive, no reconnection is
\* pending and no connection attempt can time out, whatever timers, posted events
\* and dialogs were left over from the connection and act meanwhile.
LogoutIsFinal == a.loggedOut => ~a.active /\ ~a.doReconnect /\ ~a.timeout

\* Whatever is shown as connecting or connected has something that moves it on: a
\* stream that works, the news of its end, or a reconnection under way.
NeverStuck ==
    a.active /\ ~a.crashed =>
        \/ a.stream # NoStream /\ a.phase[a.stream] \in Live
        \/ a.stream # NoStream /\ \E i \in DOMAIN a.posted : a.posted[i] # "roster"
        \/ a.stream = NoStream /\ a.doReconnect /\ a.shots > 0

\* When the server has answered all that was asked on the connection, it has been
\* told the status that the account has, however often and whenever that changed.
PresenceIsCurrent ==
    a.active /\ isConnected(a) /\ a.requests = {} => a.told = a.status

\* A logout's delayed closing finds no stream that was made since.
CloseSparesNewStream == a.active /\ a.stream # NoStream => ~a.disconnecting

\* A logout leaves nothing pending, and its delayed closing spares what came later.
LogoutIsClean == LogoutIsFinal /\ CloseSparesNewStream

\* The contacts shown online once presence is sent are those of this connection.
ContactsAreFresh == a.told # "nothing" => a.contacts # "stale"

\* The icon shows the state.
ShownIsCurrent == a.crashed \/ a.shown = ShownState(a)

\* What is shown and what the server was told is so, of this connection.
StatusInvariant == TypeOK /\ ShownIsCurrent /\ PresenceIsCurrent /\ ContactsAreFresh

\* Waiting for a reconnection ends in a stream or in giving up.
WaitingEnds ==
    (a.active /\ a.stream = NoStream) ~> (~a.active \/ a.stream # NoStream \/ a.crashed)

\* A stream left by a logout is closed unless a login follows.
LogoutCloses == (~a.active /\ a.stream # NoStream) ~> (a.active \/ a.stream = NoStream \/ a.crashed)

\* Nothing waits for a timer that does not come.
ConnectionSettles == WaitingEnds /\ LogoutCloses

\* A user who last asked to be offline is not logged in again.
OfflineStaysOffline ==
    [][a.stream' # a.stream /\ a.stream' # NoStream => a.manual' # "offline"]_vars
================================================================================
