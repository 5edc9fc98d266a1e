------------------------------- MODULE EventQueue -------------------------------
(***************************************************************************)
(* What becomes of the messages and requests an account receives:           *)
(* client_messageReceived, handleEvent and the reading of events of         *)
(* src/psiaccount.cpp, EventQueue of src/psievent.cpp, the queue all        *)
(* accounts share of src/globaleventqueue.cpp, and the copy of the queue on *)
(* disk that is read again when the program starts.                         *)
(*                                                                         *)
(* Encrypted messages wait in a queue of their own while GnuPG decrypts     *)
(* them, and what the same contact sends meanwhile waits behind them.       *)
(***************************************************************************)
EXTENDS Integers, Sequences, FiniteSets, SequencesExt, Selection

CONSTANTS
    Contact,        \* who writes to the account
    Encrypting,     \* who of them may encrypt
    Kind,           \* kinds of events received
    MaxMessages,    \* messages and requests received (bound)
    MaxWindows,     \* times the user opens a chat window (bound)
    MaxCrashes      \* times the program ends and is started again (bound)

ASSUME ConstantsAssumption ==
    /\ Encrypting \subseteq Contact
    /\ Kind \subseteq {"chat", "headline", "auth"}
    /\ MaxMessages \in Nat /\ MaxWindows \in Nat /\ MaxCrashes \in Nat

VARIABLES
    incoming,       \* messageQueue
    decrypting,     \* PGPTransactions under way, each with its message
    inbox,          \* the queue, what is shown, and whether the account is enabled
    file,           \* the copy of the queue on disk
    loading,        \* events of the file not yet read after a start
    overlapped,     \* history: who had a message waiting when a decryption was
                    \* started that GnuPG had another one beside
    received, opened, crashes   \* what the bounds count

vars == <<incoming, decrypting, inbox, file, loading, overlapped, received, opened, crashes>>

Number == 1 .. MaxMessages
Message == [n : Number, from : Contact, kind : Kind, enc : BOOLEAN]

--------------------------------------------------------------------------------
(* EventQueue, on the record inbox *)

Rank(kind) == CASE kind = "headline" -> 0 [] kind = "chat" -> 1 [] kind = "auth" -> 2


\* An event goes before the first of lower priority.
Position(list, m) ==
    LET lower == {i \in DOMAIN list : Rank(list[i].m.kind) < Rank(m.kind)}
    IN  IF lower = {} THEN Len(list) + 1 ELSE CHOOSE i \in lower : \A k \in lower : i <= k

\* Each queued event has an id of its own, even if its message is queued already
\* (messageListContainsEvent looks for copies in another build only).
Enqueue(box, m, sent) ==
    LET id == box.ids + 1 IN
    [box EXCEPT !.ids = id,
                !.list = InsertAt(@, Position(@, m), [m |-> m, sent |-> sent, id |-> id]),
                !.global = IF box.enabled THEN Append(@, id) ELSE @]


\* Taking events away: dequeue, clear and extractChats.
Ids(items) == {item.id : item \in items}
Unlisted(global, ids) ==
    Selected(global, {i \in DOMAIN global : global[i] \notin ids})
Dequeue(box, gone) ==
    [box EXCEPT !.list = Selected(@, {i \in DOMAIN @ : @[i] \notin gone}),
                !.global = IF box.enabled THEN Unlisted(@, Ids(gone)) ELSE @]

Items(box) == {box.list[i] : i \in DOMAIN box.list}
From(box, c) == {item \in Items(box) : item.m.from = c}
Chats(box, c) == {item \in From(box, c) : item.m.kind = "chat"}

\* EventQueue::setEnabled.
SetEnabled(box, e) ==
    IF box.enabled = e THEN box
    ELSE [box EXCEPT !.enabled = e,
                     !.global = IF e THEN @ \o [i \in DOMAIN box.list |-> box.list[i].id]
                                ELSE Unlisted(@, Ids(Items(box)))]

(* Chat windows *)

Visible == {"inactive", "active"}
Shown(box, c, m) == [box EXCEPT !.chat[c] = Append(@, m.n), !.done = @ \cup {m.n}]

\* processChats, if there is a window: what it does not show yet is added to it,
\* and all of the contact's chat messages are taken from the queue.
Unsent(box, c) ==
    LET new == {i \in DOMAIN box.list : box.list[i] \in Chats(box, c) /\ ~box.list[i].sent}
    IN  Selected([i \in DOMAIN box.list |-> box.list[i].m.n], new)
ProcessChats(box, c) ==
    IF box.window[c] = "none" THEN box
    ELSE LET unsent == Unsent(box, c)
         IN  [Dequeue(box, Chats(box, c)) EXCEPT
                !.chat[c] = @ \o unsent,
                !.done = @ \cup {unsent[i] : i \in DOMAIN unsent}]

Raise(box, c) ==
    [box EXCEPT !.window = [d \in Contact |-> IF d = c THEN "active"
                                              ELSE IF @[d] = "active" THEN "inactive" ELSE @[d]]]

\* openChat for the user.
OpenChat(box, c) ==
    Raise(ProcessChats(IF box.window[c] = "none" THEN [box EXCEPT !.window[c] = "hidden"] ELSE box, c), c)

(* handleEvent *)

\* Mutant of Handle: a window that is hidden counts as one that can be seen.
HandleHidden(box, m, fromXml) ==
    LET on == IF fromXml THEN box ELSE SetEnabled(box, TRUE)
    IN  IF m.kind # "chat" \/ on.window[m.from] = "none" THEN Enqueue(on, m, FALSE)
        ELSE IF on.window[m.from] = "active" THEN Shown(on, m.from, m)
        ELSE Enqueue(Shown(on, m.from, m), m, TRUE)

\* An event enables its account unless it is read from the file.  A chat message
\* goes into a window that can be seen at once, and into the queue as well unless
\* the user is looking at that window.
Handle(box, m, fromXml) ==
    LET on == IF fromXml THEN box ELSE SetEnabled(box, TRUE)
    IN  IF m.kind # "chat" \/ on.window[m.from] \notin Visible THEN Enqueue(on, m, FALSE)
        ELSE IF on.window[m.from] = "active" THEN Shown(on, m.from, m)
        ELSE Enqueue(Shown(on, m.from, m), m, TRUE)

\* The chat messages and requests of a queue, as they are read back.
Saved(list) == [i \in DOMAIN list |-> list[i].m]

\* Mutant of Becomes: the file is written when events are taken away only.
BecomesLazily(box) ==
    /\ inbox' = box
    /\ file' = IF Len(box.list) >= Len(inbox.list) THEN file ELSE Saved(box.list)

\* Every change of the queue is written to disk before the handler ends.
Becomes(box) ==
    /\ inbox' = box
    /\ file' = IF box.list = inbox.list THEN file ELSE Saved(box.list)

--------------------------------------------------------------------------------
Init ==
    /\ incoming = <<>> /\ decrypting = <<>> /\ file = <<>> /\ loading = <<>>
    /\ overlapped = {}
    /\ inbox = [list |-> <<>>, global |-> <<>>, ids |-> 0, enabled |-> TRUE,
                window |-> [c \in Contact |-> "none"], chat |-> [c \in Contact |-> <<>>],
                done |-> {}]
    /\ received = 0 /\ opened = 0 /\ crashes = 0

Running == loading = <<>>

(* Receiving *)

\* The first k messages of queue are handled, one after the other.
HandledTo(box, queue, k) ==
    LET h[i \in 0 .. Len(queue)] == IF i = 0 THEN box ELSE Handle(h[i - 1], queue[i], FALSE)
    IN  h[k]

Senders(queue) == {queue[i].from : i \in DOMAIN queue}

\* processMessageQueue: what is not encrypted is handled, the first message that
\* is encrypted is given to GnuPG, whatever GnuPG is busy with.
Plain(queue) == {i \in 0 .. Len(queue) : \A k \in 1 .. i : ~queue[k].enc}
ProcessMessageQueue(box, queue, busy) ==
    LET many == CHOOSE i \in Plain(queue) : \A k \in Plain(queue) : k <= i
        rest == SubSeq(queue, many + 1, Len(queue))
    IN  /\ Becomes(HandledTo(box, queue, many))
        /\ incoming' = rest
        /\ decrypting' = IF rest = <<>> THEN busy ELSE Append(busy, Head(rest))
        /\ overlapped' = IF rest = <<>> \/ busy = <<>> THEN overlapped
                         ELSE overlapped \cup Senders(rest) \cup Senders(busy)

\* Mutant of Receive: what is not encrypted does not wait.
ReceiveAtOnce(m) ==
    /\ Running /\ inbox.enabled /\ received < MaxMessages
    /\ m.n = received + 1
    /\ m.enc => m.from \in Encrypting /\ m.kind # "auth"
    /\ received' = m.n
    /\ IF m.enc /\ m.from \in Senders(incoming)
       THEN incoming' = Append(incoming, m) /\ UNCHANGED <<decrypting, inbox, file, overlapped>>
       ELSE IF m.enc THEN ProcessMessageQueue(inbox, Append(incoming, m), decrypting)
       ELSE Becomes(Handle(inbox, m, FALSE)) /\ UNCHANGED <<incoming, decrypting, overlapped>>
    /\ UNCHANGED <<loading, opened, crashes>>

\* client_messageReceived, and client_subscription for requests.
Receive(m) ==
    /\ Running /\ inbox.enabled /\ received < MaxMessages
    /\ m.n = received + 1
    /\ m.enc => m.from \in Encrypting /\ m.kind # "auth"
    /\ received' = m.n
    /\ IF m.kind # "auth" /\ m.from \in Senders(incoming)
       THEN incoming' = Append(incoming, m) /\ UNCHANGED <<decrypting, inbox, file, overlapped>>
       ELSE IF m.enc THEN ProcessMessageQueue(inbox, Append(incoming, m), decrypting)
       ELSE Becomes(Handle(inbox, m, FALSE)) /\ UNCHANGED <<incoming, decrypting, overlapped>>
    /\ UNCHANGED <<loading, opened, crashes>>

\* Mutant of DecryptFinished: the queue is not looked at after a failure.
DecryptFinishedStop(t, success) ==
    /\ Running /\ t \in DOMAIN decrypting
    /\ LET m == decrypting[t]
           rest == IF incoming = <<>> THEN <<>> ELSE Tail(incoming)
       IN  IF success THEN ProcessMessageQueue(Handle(inbox, m, FALSE), rest, RemoveAt(decrypting, t))
           ELSE /\ Becomes([inbox EXCEPT !.done = @ \cup {m.n}])
                /\ incoming' = rest /\ decrypting' = RemoveAt(decrypting, t)
                /\ UNCHANGED overlapped
    /\ UNCHANGED <<loading, received, opened, crashes>>

\* pgp_decryptFinished: the message is handled or refused, and whichever message
\* is the first of the queue is dropped from it.
DecryptFinished(t, success) ==
    /\ Running /\ t \in DOMAIN decrypting
    /\ LET m == decrypting[t]
           box == IF success THEN Handle(inbox, m, FALSE)
                  ELSE [inbox EXCEPT !.done = @ \cup {m.n}]
       IN  ProcessMessageQueue(box, IF incoming = <<>> THEN <<>> ELSE Tail(incoming),
                               RemoveAt(decrypting, t))
    /\ UNCHANGED <<loading, received, opened, crashes>>

(* Reading *)

Reads(box) ==
    Becomes(box) /\ UNCHANGED <<incoming, decrypting, loading, overlapped, received, crashes>>

\* The user opens a chat window, raises one, or opens the first event of a
\* contact: processEvent and processReadNext.
UserOpensChat(c) ==
    /\ Running /\ opened < MaxWindows
    /\ opened' = opened + 1
    /\ Reads(OpenChat(inbox, c))

First(box, c) == CHOOSE i \in DOMAIN box.list :
    box.list[i].m.from = c /\ \A k \in 1 .. i - 1 : box.list[k].m.from # c
ReadEvent(c) ==
    /\ Running
    /\ From(inbox, c) # {}
    /\ LET first == inbox.list[First(inbox, c)]
       IN  IF first.m.kind = "chat"
           THEN Reads(OpenChat(IF first.sent THEN ProcessChats(inbox, c) ELSE inbox, c))
           ELSE Reads([Dequeue(inbox, {first}) EXCEPT !.done = @ \cup {first.m.n}])
    /\ UNCHANGED opened

\* The button for the next event of all accounts: it begins with the first event
\* of the queue.
RecvNextEvent ==
    inbox.list # <<>> /\ ReadEvent(Head(inbox.list).m.from)

\* A window that is closed has been read; it is kept for a while.
CloseChat(c) ==
    /\ Running /\ inbox.window[c] \in Visible
    /\ Reads([ProcessChats(inbox, c) EXCEPT !.window[c] = "hidden"])
    /\ UNCHANGED opened

SelfDestruct(c) ==
    /\ Running /\ inbox.window[c] = "hidden"
    /\ Reads([inbox EXCEPT !.window[c] = "none", !.chat[c] = <<>>])
    /\ UNCHANGED opened

\* dj_remove: what the contact sent and is still to be read goes with it.
RemoveContact(c) ==
    /\ Running /\ From(inbox, c) # {}
    /\ Reads([Dequeue(inbox, From(inbox, c)) EXCEPT
                !.done = @ \cup {item.m.n : item \in From(inbox, c)}])
    /\ UNCHANGED opened

(* The account and the program *)

SetAccountEnabled(e) ==
    /\ Running /\ inbox.enabled # e
    /\ ~e => inbox.list = <<>>
    /\ Reads(SetEnabled(inbox, e))
    /\ UNCHANGED opened

\* The program ends, on purpose or not, and starts again.  What waits to be
\* decrypted is gone, and so is what had not been read from the file again.
Crash ==
    /\ crashes < MaxCrashes
    /\ crashes' = crashes + 1
    /\ \E enabled \in {inbox.enabled, TRUE} :
          inbox' = [list |-> <<>>, global |-> <<>>, ids |-> 0, enabled |-> enabled,
                    window |-> [c \in Contact |-> "none"], chat |-> [c \in Contact |-> <<>>],
                    done |-> inbox.done \cup {incoming[i].n : i \in DOMAIN incoming}
                                        \cup {loading[i].n : i \in DOMAIN loading}
                                        \cup {decrypting[i].n : i \in DOMAIN decrypting}]
    /\ loading' = file
    /\ incoming' = <<>> /\ decrypting' = <<>>
    /\ UNCHANGED <<file, overlapped, received, opened>>

\* loadQueue, one event after the other.
LoadEvent ==
    /\ ~Running
    /\ Becomes(Handle(inbox, Head(loading), TRUE))
    /\ loading' = Tail(loading)
    /\ UNCHANGED <<incoming, decrypting, overlapped, received, opened, crashes>>

Next ==
    \/ \E m \in Message : Receive(m)
    \/ \E t \in DOMAIN decrypting, success \in BOOLEAN : DecryptFinished(t, success)
    \/ \E c \in Contact : UserOpensChat(c)
    \/ \E c \in Contact : ReadEvent(c)
    \/ RecvNextEvent
    \/ \E c \in Contact : CloseChat(c)
    \/ \E c \in Contact : SelfDestruct(c)
    \/ \E c \in Contact : RemoveContact(c)
    \/ \E e \in BOOLEAN : SetAccountEnabled(e)
    \/ Crash
    \/ LoadEvent

Spec == Init /\ [][Next]_vars

\* Decryptions end.
Finish == DecryptFinished(1, TRUE) \/ DecryptFinished(1, FALSE)
FairSpec == Spec /\ WF_vars(Finish) /\ WF_vars(LoadEvent)
--------------------------------------------------------------------------------
Queued == {inbox.list[i].m.n : i \in DOMAIN inbox.list}
NumbersOf(queue) == {queue[i].n : i \in DOMAIN queue}

TypeOK ==
    /\ incoming \in Seq(Message) /\ decrypting \in Seq(Message)
    /\ file \in Seq(Message) /\ loading \in Seq(Message)
    /\ inbox.list \in Seq([m : Message, sent : BOOLEAN, id : Nat]) /\ inbox.ids \in Nat
    /\ inbox.enabled \in BOOLEAN /\ inbox.done \subseteq Number
    /\ inbox.window \in [Contact -> {"none", "hidden"} \cup Visible]
    /\ overlapped \subseteq Encrypting

\* Whatever is received is waiting for its turn, with GnuPG, in the queue, on disk,
\* or done with: read, refused, removed with its contact, or lost with the program.
\* A message dropped from messageQueue before its own decryption ends is not lost.
NothingForgotten ==
    1 .. received = inbox.done \cup NumbersOf(incoming) \cup NumbersOf(decrypting)
                               \cup Queued \cup NumbersOf(loading)

\* A chat window shows each message of its contact once, in the order they came,
\* decrypted or not, read from the file or not, queued or not; of a contact one of
\* whose messages waited when two decryptions overlapped this cannot be said.
ShownInOrder ==
    \A c \in Contact \ overlapped :
        \A i, k \in DOMAIN inbox.chat[c] : i < k => inbox.chat[c][i] < inbox.chat[c][k]

\* The queue goes by priority; by the order of arrival for each contact, none of
\* whose events is in it twice, but for the contacts of overlapping decryptions.
QueueInOrder ==
    \A i, k \in DOMAIN inbox.list : i < k =>
        LET m == inbox.list[i].m
            l == inbox.list[k].m
        IN  /\ Rank(m.kind) >= Rank(l.kind)
            /\ m.from = l.from /\ m.from \notin overlapped =>
                  m.n # l.n /\ (m.kind = l.kind => m.n < l.n)

\* The queue that all accounts share has the events of enabled accounts, once, two
\* copies of one message too.
GlobalMirrors ==
    /\ {inbox.global[i] : i \in DOMAIN inbox.global} = IF inbox.enabled THEN Ids(Items(inbox)) ELSE {}
    /\ Len(inbox.global) = IF inbox.enabled THEN Len(inbox.list) ELSE 0

\* A window that can be seen shows all chat messages of its contact, and none
\* waits for the user who looks at it; only such windows were given a message
\* that is still queued ("should never happen" otherwise, psicon.cpp:1532).
WindowsAreComplete ==
    \A i \in DOMAIN inbox.list :
        LET item == inbox.list[i]
        IN  item.m.kind = "chat" => item.sent = (inbox.window[item.m.from] = "inactive")
                                    /\ inbox.window[item.m.from] # "active"

\* The account's queue, the shared queue and the windows agree.
QueueInvariant == TypeOK /\ QueueInOrder /\ GlobalMirrors /\ WindowsAreComplete

\* No message waits for a decryption for ever.
AllAreDecrypted == []<>(incoming = <<>>)

\* The message dropped from the queue is the one that was decrypted
\* (psiaccount.cpp:5673 "'peek' and try to process it", 5680 "'pop' the message").
PopsTheDecrypted == decrypting # <<>> => incoming # <<>> /\ decrypting = <<Head(incoming)>>
================================================================================
