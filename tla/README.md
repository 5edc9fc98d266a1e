# A verification of Psi

TLA+ models of the parts of the Psi instant messenger whose correctness depends
on the order of events, checked with TLC and, for the results that matter most,
proved with TLAPS. Paths below are relative to the repository (the program's
own code is in its directory `src/`).

Psi is one Qt process with one thread of control. Nothing in it runs in
parallel; what makes it hard is that almost every operation is spread over
several turns of the event loop. A handler sends a stanza and returns; the
answer comes later, or never, or after the state it was about has changed;
timers go off in between; and a modal dialog runs an event loop *inside* a
handler. The other half of every protocol is another copy of the program, so
shared drawings have real concurrency as well: two users edit one document at
the same time and nothing is locked.

- [Inventory](#inventory): the components, their state and what makes each hard
- [Modules](#modules): which module models what, and how it maps to the code
- [Runs](#runs): what TLC checks, with which bounds, and what it shows
- [Fairness and deadlock](#fairness-and-deadlock)
- [Proofs](#proofs)
- [Disagreements](#disagreements): where the code does not do what it says
- [Assumptions and what is left out](#assumptions-and-what-is-left-out)
- [Plan](#plan)

## Inventory

### How the parts interact

```
        contact's Psi                     server                 PsiAccount (one per account)
  SxeManager / SxeSession  <-- messages -->  .  <-- messages -->  SxeManager -- SxeSession -- SxeRecord
      WbManager, WbWidget                    .                    WbManager -- WbDlg -- WbWidget -- WbScene
  capabilities in presence ----------------- . --- presence --->  CapsManager -+- CapsRegistry (one per program)
                                             . <-- disco#info --  DiscoInfoQuerier
                                             . --- stream ----->  login, reconnection, presence
                                                                  message queue -> EventQueue, EventDb
                                                                  VCardFactory, avatars, bookmarks, privacy
```

`PsiAccount` owns the XMPP client and one of each manager; the managers connect
to the client's signals and are called in turn for each stanza. The registry of
capabilities, the history (`EventDb`), the caches of vcards and avatars, and the
global event queue are shared by the accounts. The XMPP library, iris, is a git
submodule and not in the repository: what its streams, tasks and DNS lookups do
is an environment to these models.

### Components

**SXE records** (`src/sxe/sxerecord.cpp`, `sxeedit.cpp`, `sxerecordedit.cpp`, ...). An
`SxeRecord` per node of a shared XML document keeps the list `edits_` of all
edits known, sorted by version, the fields that result (parent, primary weight,
data), and the DOM node that shows them. Operations: apply an edit (in order, or
sort and replay), remove, make a local edit with `version() + 1`, synchronise
the DOM node. Hard: two users edit one node at once. There is no
acknowledgement, no transformation of operations and no server that decides;
both edits of a version are dropped, and so may be all that build on them. It is
correct when participants with the same edits show the same record, whatever the
order of arrival; when an edit takes effect on exactly the record its author
saw; when the user's own edit always shows; and when a passed-over edit that is
emptied for ever could indeed never be applied.

**SXE sessions and the whiteboard** (`src/sxe/sxesession.cpp`, `src/whiteboarding/`). A session
holds the records of a document, the DOM tree and the queue of unsent edits; the
whiteboard's widget holds an item for each child of the root. Operations: draw,
group, ungroup, bring to front and back, erase, receive a message of edits.
Hard: an operation is several edits on several nodes; a node's parent may be
removed by the other side; a participant removes nodes of its own accord while
it processes the other's message. It is correct when the documents stay trees,
the canvas shows them, and both sides end up with the same nodes in the same
places.

**SXE negotiation** (`src/sxe/sxemanager.cpp`, `src/whiteboarding/wbmanager.cpp`). Per client: pending
negotiations, open sessions, one single-shot timer for all of them, messages that
wait for a connection. Operations: invite, ask the user, accept, decline, send
and take in the document, leave, time out. Hard: a modal dialog in the middle of
the handler of an invitation; answers that cross with timeouts and with other
invitations; messages made while offline. It is correct when nobody opens a
session its inviter never opened or gave up; when every negotiation ends; when
edits arrive once and in order; and when whoever draws alone is told so.

**Entity capabilities** (`src/capabilities/`). Per account: the capabilities of each
full JID and the inverse index; for all accounts: the registry of features.
Operations: presence with new, repeated or illegal capabilities, answers to
queries, registration, new connections. Hard: an answer names the node but not
the version, and arrives after the contact may have changed clients; a finding
of one account concerns the contacts of another. It is correct when features are
registered under the version that has them, the index inverts the map, and
everybody who was told features has the current ones.

**Account connection** (`src/psiaccount.cpp`). State: whether the account is
active, the stream, `isDisconnecting`, `doReconnect`, `rosterDone`,
`presenceSent`, the login status; reconnection timers that are never cancelled and a
five-minute timeout; a stream closed 100 ms after a logout. Operations: login,
logout, disconnect, errors, the end of the roster request, set status, auto-away, the
password and certificate dialogs. Hard: every event may belong to a stream that
was replaced. It is correct when nothing left over from a connection undoes a
logout or closes a newer stream, when an account that waits is waiting for
something, and when what is shown is what the server was told.

**Message history** (`src/eventdb.cpp`, `src/historydlg.cpp`). A request queue with one deferred
turn per request, a cache of open files with a timeout, an index built on
demand, windows that page, search, export and erase. Hard: windows remember
positions in a file that grows, is closed and is erased by others; an export
runs the event loop. It is correct when queue, files and index amount to one log
per contact, and pages and exports are pieces of it.

**Events and chats** (`src/psievent.cpp`, `src/globaleventqueue.cpp`,
`src/psiaccount.cpp`, `src/chatdlg.cpp`). A priority queue per account, one for all
accounts, a copy on disk, and chat windows that are missing, hidden, behind
others or looked at; messages wait behind one that is being decrypted. It is correct
when nothing received is forgotten, windows show messages once and in order, and
the copies agree.

**Calls** (`src/avcall/`). The window, the media engine, one Jingle session per call with an ICE
negotiation per medium, candidates queued in both directions, one handshake
timer. Hard: lookups, devices, negotiations, answers and hang-ups finish in any
order at either side. It is correct when a call shown as active is one at both
ends, when candidates are not lost, and when every answered call comes up or
ends at both.

**Avatars and vcards** (`src/avatars.cpp`, `src/vcardfactory.cpp`, `src/pepmanager.cpp`).
Hashes are announced, in presence and by PEP, and data is asked for afterwards;
several kinds of avatar cover each other. Hard: by the time an answer arrives another
hash is announced. It is correct when nothing is announced that cannot be
fetched, when the last choice is what is announced, and when the contacts see it.

**Contact list** (`src/contactlist*.cpp`, `src/psicontactlist.cpp`, `src/psicontact.cpp`,
the roster's part of `src/psiaccount.cpp`). The roster, the contacts made from it, what
is noted of them, and a tree of accounts, groups and proxies. Operations: pushes and presences, strangers,
drag and drop, menus, editing names, removing, accounts enabled and disabled. Hard: contacts
that go are removed at once while everything else waits for a commit, which waits
for the editor; dialogs hold selections that have changed. It is correct when nothing
is shown of contacts that are gone and the tree at rest shows the roster.

**Bookmarks** (`src/bookmarkmanager.cpp`) and **privacy lists** (`src/privacy/`): lists
that are read once and overwritten whole. Not modelled.

Group chat, file transfer dialogs, PEP, service discovery, HTTP authentication,
ad-hoc commands and remote control keep no state of their own beyond one request; chats, tabs, the
main window, options, profiles, icons, plugins and platform code are user
interface, settings and bindings. `PROJECT.json` lists each with its reason, and
the hazards of the code line by line with the properties that cover them.

## Modules

| Module | Models | Of |
|---|---|---|
| `SxeEdits` | edits and what they do to a record's fields | `sxerecordedit`, `processInOrderRecordEdit` |
| `SxeEditList` | the sorted list: which edits take effect, orders `qSort` may give | `sxeedit`, `reorderEdits` |
| `SxeRecord` | one record at every participant, with editing, flushing, relaying, removal | `sxerecord`, sending half of `sxesession` |
| `ResolvedRecord` | abstract: the record as a function of the *set* of known edits | what SXE promises |
| `SxeSession` | two participants' documents, trees and canvases | `sxesession`, `wbscene`, `wbwidget` |
| `SxeManager` | the negotiation between two contacts | `sxemanager`, `wbmanager` |
| `CapsManager` | capabilities of all accounts and the shared registry | `capsmanager`, `capsregistry`, `capsspec` |
| `AccountConnection` | one account, its streams, timers and dialogs | `psiaccount` |
| `HistoryLog` | abstract: a log per contact | what the history promises |
| `EventDb` | requests, files, indexes and history windows | `eventdb`, `historydlg` |
| `EventQueue` | decryption, queues of events, chat windows, the file | `psiaccount`, `psievent`, `globaleventqueue`, `chatdlg` |
| `JingleRtp` | one call between two clients | `jinglertp`, `avcall`, `calldlg` |
| `Avatars` | a contact's avatars, the server, and a viewer | `avatars`, `vcardfactory`, `pepmanager` |
| `ContactList` | rosters, contacts, the updater's queue and the tree of groups | `contactlistmodelupdater`, `contactlistnestedgroup`, `contactlistdragmodel`, `psicontact` and others |
| `MC_*` | constants for TLC | |
| `Recursion` | the least-number principle and recursive functions, for the proofs | |
| `Selection` | the entries of a sequence at given places, in their order, as a function that proofs can unfold | |
| `*_proofs` | theorems and proofs | |

`SxeSession` and `SxeRecord` share `SxeEditList`, so the rule by which an edit
takes effect is written once; `SxeRecord` has the values of one record and the relay,
`SxeSession` the tree of many. `SxeManager` leaves what edits say to them and counts
edits. Operators named `...Stale`, `...Quietly`, `...Late` and so on, written
before the definition they resemble, are variants with a bug that each property
must detect; nothing else uses them. The modules are separate because the code's
components are: an account hands each of its managers the stanzas in turn, and
what one of them does is no input of another. Where there is an interaction, it is
in one module (registry and accounts, history and windows, queue and windows,
window and session).

### SxeRecord

| In the code | In the model |
|---|---|
| `edits_` without its New edit, `version()` | `edits[p]`, `Len(edits[p])` |
| `parent_` and `primaryWeight_`; `data_` | `rec[p].pos`; `rec[p].data` |
| place and value of the DOM node | `dom[p]` |
| `lastParent_`, `lastPrimaryWeight_`, `lastData_` | `lastPosition`, `lastData` (constant: nothing assigns them later) |
| `queuedOutgoingEdits_`, `flush()` | `outbox[p]`, `Flush` |
| the server's relay, `messageReceived` | `log`, `rd[p]`, `Skip`, `Receive...` |
| `applySxeRecordEdit`: in order, else `reorderEdits` | `ApplyRecordEdit` with `InOrder`, `Orders`, `ReplayTo`, `NullifyPassed` |
| `insertNode`, `setNodeValue` (both forms), `removeNode` | `MoveNode`, `SetNodeValue`, `ReplaceNodeValue`, `RemoveNode` |

`qSort` is not stable, so every order of edits with equal versions is possible
(`Orders`). `Skip` includes one's own messages that come back. `base` is a
history field of an edit; `AppliedAsWritten` reads it, no action does.

### SxeSession

`session[p]` is what participant `p` holds: `record` (`recordByNodeId_`),
`child` (the DOM tree), `item` (the canvas), `moved`
(`recentlyRelocatedNodes_`), `unsent` (`queuedOutgoingEdits_`). A handler is a
composition of functions on this record, in the code's order, and ends in
`Finish`: flush, then `inspectNodes`. `Doomed` walks the live list of children
as `generateRemoves` does, skipping every second one. `Reposition` removes a
node whose parent has no record, and sends the removal, in the middle of
processing the other's message, as `reposition` does.

### SxeManager

`negotiations`, `sessions`, `timer` and `queued` are the manager's members;
`asking` is the stack of invitation dialogs whose event loops are nested in
handlers, `prompting` the dialog of `openWhiteboard`. `ReceiveInvitation` is
`processNegotiationAsJoiner` up to the dialog and `Answer` the rest of it, so
everything else can happen in between; while a dialog is open the outer handlers
wait. `AnswerDeleted` is the same rest when the negotiation object was deleted
meanwhile: undefined behaviour, modelled as either a crash or the message the
freed memory still spells. `invited`, `opened` and `abandoned` are history.

### CapsManager

`capsSpecs` and `capsJids` are the manager's maps (the latter counts how often a
list holds a jid), `registry` is `CapsRegistry`, `seen` what the receivers of
`capsChanged` last read. `inbox` holds presences and answers in their order,
`asked` the queries under way. `getDiscoInfo_success` keeps all its early
returns in `Recordable`. The features of a version are named by the
specification itself, so that recording them under another one shows.

### AccountConnection

`account` is one record and a handler is a function on it, because handlers call
each other: `cs_error` may reject a dialog whose handler logs out. `stream` is
the member `stream`, `phase` how far each `ClientStream` is, including those the
account no longer points to: their events are posted and delivered all the same,
and `Deliver` handles them without knowing whose they are, as `cs_error` does.
`shots` and `closers` count single-shot timers under way (`startReconnect`,
`forceDisconnect`), `timeout` is the five-minute timer, `passwords` and `dialogs`
the open dialogs. `told` is the presence sent on the stream, `contacts` whether
the contacts shown as online were announced on this connection. `loggedOut` is
history. A null stream dereferenced ends in `crashed`.

### EventDb

`requests` is `rlist`; each request has a turn (`performRequests`) of its own and
they are taken in order. `file[c]` is the `File` object while it is open, with
its index; `disk[c]` the lines of the file. A window remembers `prev`, `next` and
the ids of its lines, `off` are its disabled buttons. An index behind the end
yields `Garbage` or nothing. `whole` is history: no erasing since.

### EventQueue

`incoming` is `messageQueue`, `decrypting` the PGP transactions. `inbox` holds the
account's `EventQueue`, the accounts' shared one (for this account), and the
windows with what they show; `file` is what `queueChanged` writes at the end of
each change, `loading` what `loadQueue` still has to read. An event's `sent` is
`sentToChatWindow`. Kinds stand for priorities: chat messages, headlines and
requests for authorization. Each queued event has an id of its own, as `EventItem`
has, by which the shared queue knows it. `overlapped` is history: the contacts who had a
message in `messageQueue` or with GnuPG when a decryption was started beside another.

### JingleRtp

`side[p]` is one client: the window, the engine, and the members of
`JingleRtpPrivate`; media are a set where the code has a variable for audio and
one for video. `net` has the stanzas on their way. `Found` keeps the `break`s of
the loops over contents. Deleting the session, as `cleanup` does, makes the
record `Idle` again. Whether two ICE negotiations find each other is left open
(`Reachable`).

### Avatars

`up` and `acks` are the requests of the contact's client and their answers,
`wire` everything from the server to the viewer, in order, `asks` the viewer's requests.
`Retrieved` is the order of `retrieveAvatar`. `view` is what was read at the last
`avatarChanged`; `failed` and `removed` are history.

### ContactList

| In the code | In the model |
|---|---|
| `UserListItem` of a contact: in the roster or not, groups | `roster[c]` |
| `PsiContact::Private::status_`, `oldStatus_` | `status`, `oldStatus` (online or not) |
| `operationQueue_`, `commitTimer_`, `updatesEnabled` | `waiting`, `committing`, `editing` |
| account nodes, groups in them, proxies of contacts | `tree.accounts`, `tree.groups`, `tree.at` |
| `updateOnlineContactsTimer_`, `haveOnlineContacts_` | `tree.recount`, `tree.online` |
| the selection a removal dialog keeps | `asked` |

The setting is the main window's: accounts and groups are shown, names have no
levels (`CONTACTLIST_NESTED_GROUPS` is not defined). The empty name, which is the
account's own, is `NoName`. `Regrouped` is the pass of `contactGroupsChanged`
over all groups of the account and what follows it; `Committed` is one contact's turn in
`commit`, whose order is that of a hash: `CommittedAll` allows each. `Stripped` is
what `processContactSetGroupName` leaves of names that do not start with the
account's. `update` of a contact sets `oldStatus_` at once while notifications are off, and
by `StatusTimer` otherwise.

## Runs

Each run ends within four minutes on two workers. Each cfg names its bounds; `PROJECT.json` names for
every property of a passing run a bug that it detects.

| Run | Shows | Distinct states |
|---|---|---|
| `record_two_peers` | agreement, application, effect and version control of a record; refinement of `ResolvedRecord`; the records become equal | 395,781 |
| `session_drawing` | trees, canvases and records of a drawing | 336,394 |
| `negotiations_crossing` | opening, giving up and leaving of sessions | 475,600 |
| `negotiations_end` | every negotiation ends; edits once and in order | 240,336 |
| `caps` | inductive invariant, presence is followed, registry and receivers, answers are used | 27,036 |
| `account` | leftovers of a connection do no harm, waiting ends | 317,925 |
| `history` | refinement of `HistoryLog`; pages, exports, answers | 231,449 |
| `events` | nothing forgotten, order, copies agree, decryption goes on | 692,438 |
| `calls` | active means active, candidates, every call is decided at both ends | 15,847 |
| `avatars` | announced is published, shown and the last choice | 2,036,311 |
| `contacts` | the tree hangs together, at rest shows what there is, and comes to rest | 165,410 |
| `messages_popped` | a violation: see [Disagreements](#disagreements) | |

Where a run checks an invariant named for the whole (`StatusInvariant`,
`PositionInvariant`, `QueueInvariant`, `CallInvariant`, `ViewerInvariant`,
`DocumentInvariant`), it is the module's type invariant and the parts it names,
each with a comment of its own; each part has been seen to fail for a bug of its own.

**record_two_peers.** Two participants, three edits in all, one removal on
its way. The edits are moves to either of two positions, clearing the text,
inserting a character and replacing one; on data of one character a concurrent
clearing makes the range of the replacement invalid. Three edits are the least
that show every kind of replay: two edits of one version that cancel, and a
third that builds on one of them or on both. The relay order, all delays and
both sides' flush points are free. `StrongConvergence`: who knows the same edits
shows the same record. `AppliedAsWritten`: an edit that takes effect does so on
the record its author saw. `LocalEditTakesEffect`: the user's own edit shows at
once. `VersionInvariant`, with `NoGap`: the argument that nullifying is right.
`ImplementsResolvedRecord` replaces lists, sorting, replay, nullifying and
queues by a function of a set, which makes all of the above one statement.
With three participants, three edits of two kinds and one removal
`StrongConvergence`, `NoGap` and `AppliedAsWritten` hold as well (622,000
states); that instance is not among the runs. `Converges`: under fairness of flushing and delivery alone every participant
ends up with the same record, or all without it.

**session_drawing.** Two shapes, four user actions in all, each of any kind at
either side with messages delayed at will. Four are enough to group, have the
other side regroup or erase concurrently, and act on the result.
`RecordsAgree`: when nothing is on its way both have the same nodes at the same
places, although each removes nodes on its own while processing.
`DocumentIsATree`, `CanvasShowsDrawing`: no node twice, none inside itself, none
without a record, and an item for exactly the children of the root.
`MovedNodesInPlace`: a node whose record differs from its creation is a child of
the parent the record names.

**negotiations_crossing.** Two clients, two session identifiers: two
invitations, nested at one side or crossing each other, with every interleaving
of answers, timeouts, connection losses, messages queued offline and closing.
The session identifiers are interchangeable (symmetry). `JoinerBacked`,
`AbandonedStaysClosed`, `DepartureAnnounced` as in the inventory.

**negotiations_end.** One session and two edit messages by each side.
`NegotiationsEnd` with fairness of the timer only. `EditsInOrder`: what has
arrived, is on the wire and waits in the queue adds up to what was made, in
order; two edits by each side are the least that can be reordered.

**caps.** Two accounts, one with lookups disabled; an address whose client is of
one of four kinds: two versions of one program that share an extension, so
that a late answer can be recorded under the wrong one; another program; and one
that gives no version. Two presences and two new connections, each of which repeats
the last presence: a late answer takes two presences. `CapsInvariant` is the
inductive invariant of the proof, and with it the receivers' being up to date;
several addresses are covered by the theorems. `AskedIsLearnt`: once connections
stay, what was asked becomes known or the client has changed.

**account.** Three statuses chosen at any moment, two things that go wrong
outside (failures, timeouts, certificates to look at) and room for four streams:
a reconnection, a logout within its delay, and a login after it leave three
behind, so that four are enough for every handler to have room. The password is
not saved, so that every login passes the dialog too. `LogoutIsClean`: from a
logout to the next login the account is inactive, with no reconnection pending and no
timeout to act, whatever was left over (`LogoutIsFinal`), and the delayed close of
the logout meets no stream made since (`CloseSparesNewStream`).
`NeverStuck`: what waits is waiting for a stream, for news, or for a timer that
will find the flag up.
`StatusInvariant`: presence sent, icon and contacts are those of the status and of this connection.
`ConnectionSettles`: waiting and logging out end.

**history.** Two windows (of two accounts) on one contact, four requests of any kind, three
events, pages and export chunks of two. Three events make two pages and an
overlap; four requests allow an erase between reading a page and using its
positions; one close allows a new index in between. `PositionInvariant`,
`ExportIsComplete`, `AllIsAnswered`, and `ImplementsHistoryLog`: counting
what is queued as done, the whole implements a log that is appended to and
erased in the order of the requests.

**events.** Three messages and requests of two contacts, both of whom may encrypt.
Three are the least for a message that waits behind one that waits; a window
opened by the user (others are opened by reading an event) and one restart add what
the windows and the file can do wrong. When a decryption is started while another is
under way, a message may be handled twice and another dropped from `messageQueue` too
early. `NothingForgotten` and `AllAreDecrypted`, the agreement of the queues and of
the windows hold then too; the order of a contact's messages is claimed for contacts
who had none in `messageQueue` or with GnuPG at that moment. Why the others are left
out is the run `messages_popped`.

**calls.** One call, voice alone or with video at either side, one connection
lost. `CallInvariant`: a caller is shown an active call only when the callee has
accepted and is connected, a call waiting to come up has its timer, and an audio
candidate waits, is on its way, or is there (`AudioCandidatesArrive`).
`AnsweredIsDecided` and `EndsTogether` hold while no connection is lost; what is
lost with one is not repeated.

**avatars.** Two photos (interchangeable), four choices in all, one request that
fails and one new connection of the viewer. Four choices allow A, B and A again,
or two on either side (own avatar and vcard). `AnnouncedIsPublished` and
`ChoiceIsAnnounced`: publications overtaken by the next choice. `AnnouncedIsShown`:
once all has arrived.

**contacts.** Two accounts, one with an ordinary contact and a transport; two groups;
the list starts empty or with a contact in two groups; four changes of any kind,
by the server or the user. Four allow a contact to be noted, moved, and moved or removed again
before and after a commit, with an editor open meanwhile; two groups are the least that can be lost,
or left, one at a time. `ListInvariant`: through commits, immediate removals and disabled
accounts groups, contacts and timers fit each other, and nothing is kept of a
contact that is gone (such a pointer would dangle). `AtRest`: a contact of which nothing
is noted is shown where the roster puts it, and a group is hidden only
if nobody in it is online. `ListSettles`: the tree comes to rest, or a name is being edited.

## Fairness and deadlock

`CHECK_DEADLOCK FALSE` is in every cfg: the bounds on edits, actions and
presences end every behaviour, and a client with no user at it is at rest
anyway.

- `record_two_peers`: `Flush` and `Receive`. Each user action of the whiteboard
  ends in `session_->flush()` (`src/whiteboarding/wbwidget.cpp`,
  `wbscene.cpp`), and the server delivers what it relays. Nobody has to edit, and removals are
  not required.
- `negotiations_end`: the timer only. It is a single-shot timer of two minutes
  (`src/sxe/sxemanager.cpp:618`) started anew by every negotiation; fairness says
  that a client's negotiations do not follow each other for ever at a distance below two
  minutes. Neither delivery nor the users' answers are assumed fair, which is
  the point.
- `caps`: that some stanza is handled or some query answered. Connections may
  break; `AskedIsLearnt` speaks of what is asked after the last of them, because a
  query that is lost with its connection is not repeated.
- `account`: the timers of `startReconnect` and `forceDisconnect`, which Qt's
  event loop fires. No stream has to connect, no user to answer and no server to
  reply.
- `history`: `performRequests`. Every request starts a single-shot timer of its own
  (`src/eventdb.cpp`, in `getLatest` and its siblings).
- `events`: decryptions end, one way or the other, and the file is read to its
  end at the start.
- `calls`: stanzas arrive, address lookups end, the media engine and ICE start or
  fail, and the handshake timer expires. That a connection comes up is not
  assumed, nor that a user does anything.
- `contacts`: the timers, which are the updater's (100 ms), those by which groups count,
  and those of contacts. A timer that ends while a name is being edited has ended,
  too; the editor need never be closed.
- `avatars` has safety only.

## Proofs

TLC checks an instance; these hold for any number of participants, edits,
sessions, accounts, addresses and capabilities, from the named assumptions on
the constants alone (they only say that the constants are of the kinds their
comments name). Each proof shows that the inductive invariant holds at the
start and is preserved, with one lemma per action.

**SxeRecord_proofs** (`VersionsConsistent`, `NoGapHolds`,
`LocalEditTakesEffectHolds`). `NoGap` says that the edit at place i of a sorted
list has a version of at most i. It is not inductive: whether it survives the
arrival of an edit depends on what its author knew. `VersionInvariant` adds that
a participant who has the record has listed exactly what it received and made
(`Listed`), that an edit waiting in the outbox or relayed has a version of at
most its place in relay order (`OutboxOwn`, `LogBound`) and that lists are
sorted. The step that needs work is the insertion of an edit at its place
(`SortedIsGapless`): the list stays gapless because all edits of smaller version
number as many as before. `LocalEditTakesEffect` follows: with no gap and
`version() + 1` a local edit is always in order, so the replay never touches it.

The second half of the module is about convergence (`HistoryConsistent`,
`StrongConvergenceHolds`, `AppliedAsWrittenHolds`, `ResolvedRecordImplemented`). What a replay of a list gives
would be an induction over lists; it is avoided by giving each participant a
history. Which edits take effect is a property of the set of edits, not of
the list: one takes effect iff exactly version - 1 edits have a smaller version
and none has its own (`Arrangement`, `BelowIsLeading`), so that whichever order `qSort`
gives to equal versions does not matter. `HistoryInvariant` says that
all participants' lists arrange sets of edits of one history, that each
author's edit extends exactly the edits in force when it was written, and that
the fields are what the replay of these gives. Two participants with one set then
show one record, an edit in effect finds the fields its author saw, and a step of
the record is a step of `ResolvedRecord` or none. The replay itself is a function
defined by recursion on an interval, of which only uniqueness is needed.

**SxeManager_proofs** (`OpeningInvariantHolds`, `JoinerBackedHolds`,
`AbandonedStaysClosedHolds`, `DeparturesHold`, `DepartureAnnouncedHolds`,
`DrawingsHold`, `EditsInOrderHolds`). `JoinerBacked` depends on documents in flight and
waiting offline; `AbandonedStaysClosed` on the invitation's being in one state
only. `OpeningInvariant` says that a session identifier has one inviter, that a
pending invitation is neither opened nor given up and is there once, that
everything opened was opened by its inviter, and that every document on any
queue is of a session its sender invited to and opened. It also carries
`TimerCovers`: no negotiation without a running timer, the safety half of
`NegotiationsEnd`.

`DeparturesHold` and `DepartureAnnouncedHolds` are about the end of a session. The
difficult case is the client that opens a session after the other has left it: the
inviter opens on the acceptance, sends the document and may close its dialog
before the document has arrived, or while it is offline and both wait in its
queue. `Followed` says that a document whose sender no longer has the session has
`<left-session/>` behind it, on the wire or in the queue; so the one that opens on
the document finds the news on its way. `OnePartner` says that the news goes to
the right address: an inviter has a session with one client only and sends its
document to no other, although every identifier may be known to several. `Settled`
(what is open is no longer negotiated) is why the receiver of `<left-session/>`
shows it: with a negotiation left over it would be taken as part of that. Most
steps are covered by one lemma, `QuietlyPreserves`: a step that opens and ends no
session, sends no document and loses no news of a departure keeps all of it.

`EditsInOrderHolds` says that no edit is lost, doubled or overtaken between two open
dialogs, whatever happens to the connections. By itself the equation of
`EditsInOrder` is not inductive: it speaks of a session that both have, but what is
on the way was sent before the receiver had it, by a client that had to be alone in
drawing for it. `Drawings` adds this. `Heard` is the equation; `Unheard` is its form
for a client that will open on the document that is on its way to it: the edits behind
that document are all that were made. `OneGuest` and `EditsBacked` say who draws in a
session at all, and `Unopened` that what a client has drawn and made starts from
nothing when it opens. A step that draws nothing (`Idle`) keeps all five; the four
others, an edit made or drawn and the two ends of an opening, have a lemma each. How
the selection of a session's edits from a queue behaves when queues are joined or
lose their head comes from `Recursion`.

**CapsManager_proofs** (`CapsInvariantHolds`, `UpToDateHolds`,
`RegistryTruthfulHolds`, `CapsFollowPresenceHolds`). An answer carries no
version and is recorded under the version current on its arrival; that this is
right depends on the order of the stanzas: an answer is behind the presence of
the client that gave it and before the next one. `AnswersInOrder` states this of
every inbox by way of `LeavesCaps`, "the messages up to here leave the manager
with these capabilities", and `CapsArrive` of the whole inbox. Both are about one
queue at a time, with a lemma each for appending to it and for taking its head.

**Recursion** derives the least-number principle from the well-foundedness of
the subset order on finite intervals, and from it that functions defined by
recursion on an interval exist and are unique; `ReplayIterates` uses it for
`ReplayTo`. The same principle gives what the proofs need of `Selected`, which takes
the entries at given places out of a sequence: its type, that it depends on those
places only, that it distributes over concatenation (`SelectedConcat`), and that it
takes exactly these entries, each once and in their order (`SelectedTakes`).

**EventQueue_proofs** (`EventInvariantHolds`, `QueueInvariantHolds`,
`ShownInOrderHolds`, `NothingForgottenHolds`, `HeadIsDecryptedHolds`). A message goes
through up to four places: the queue for GnuPG, the queue of events, a window, the
file. The invariant is in three parts. `Sound` is about the queue of events, the shared
queue and the windows, a predicate of one record (`Ordered`, `Numbered`, `Mirrored`, `Complete`,
`Ascending`, `Opened`, `Later`); every operation on that record has a lemma that it
keeps it, so an action that does three of them needs no proof of its own. `Later`,
that what a window does not show yet is later than what it shows, is why opening the
window shows things in order. The second part says that what still waits may come
next (`Newer`) and each after those before it: `Incoming` for GnuPG's queue,
`Loading` for the file after a start, during which no window is open. It is kept because a message that is not encrypted waits behind an encrypted one
of its contact. The third, `Written` and `NothingForgotten`, is the book-keeping: the
file has the queue, or what is still to be read until the first event has been. How
many messages `processMessageQueue` handles in one go is unbounded; that is a function
defined by recursion on an interval, and `AllHandled` a use of the least-number
principle.

Nothing is assumed about who encrypts. A second contact's message starts a second
decryption, and whoever has a message waiting then may lose his order. So what is
said of order (`Ordered`, `Ascending`, `Later`, `Newer`) has a parameter O, the contacts
of whom it is not said, and the invariant takes the history variable `overlapped` for
it. `InHand` is what keeps this set small: GnuPG has the head of `messageQueue`, and
nothing else unless all who wait are in the set already, so that a decryption that
ends drops either the message it decrypted or one of theirs. `GivenUp` says that the
order is only ever claimed of fewer contacts. Everything else the
theorems say holds of all contacts. The properties cannot be had without the
exception: TLC refutes `QueueInvariant` and `ShownInOrder` for the contacts of
`overlapped`.

**AccountConnection_proofs** (`AccountSound`, `LogoutIsCleanHolds`,
`NeverStuckHolds`, `StatusInvariantHolds`). The handlers are functions on the
account that call each other in the middle of a change, so the invariant is a
predicate `Sound` on accounts in named parts, and each handler has a lemma that
assumes only the parts that hold where it is called. `NeverStuck` is not
inductive: a stream that has ended moves nothing by itself. `Moves` says that the
stream's end is then posted, or, without a stream, that a reconnection is due;
`Final` and `Spared` say what no step after a logout and no disconnection under
way may find; `Told` and `Fresh` relate what the server was told, and the contacts
shown, to this stream and not to an earlier one.

**Avatars_proofs** (`AvatarsFollow`, `ViewerInvariantHolds`, `AnnouncedIsPublishedHolds`,
`ChoiceIsAnnouncedHolds`, `AnnouncedIsShownHolds`). Each stage between the user's choice
and the viewer's picture keeps one value and has a queue in front of it. `LastIs`
says that the last news of a kind in the queue is v, or that there is none and v
is kept; with a lemma for appending and one for taking the head, the five
instances of it survive every step. The picture is one round trip behind the
hash that asks for it; `Fresh` and `NoneFirst` say that an answer that comes when a hash
is known and not changed again is the photo of that hash. Presence carries the
hash in `loginStatus`, which is the vcard's only until a photo is taken off, and
what is said of the vcard's photo is said until then.

**JingleRtp_proofs** (`CallIsSound`, `CallInvariantHolds`). What holds of one
session (`CallerSound`, `CalleeSound`) is a predicate that its handlers keep;
`CallerMoves` and `CalleeMoves` say what one step of one side may mean to the other,
and `CallerStep` and `CalleeStep` derive from them, once, all that relates the two
sides. `Linked` holds always: nobody hears of an offer that was not made, nobody
has an answer, or candidates, from a callee that has not heard of it, and there is
one session-accept, sent by an active callee. `Arriving` holds while no connection is lost: the answer
precedes all candidates, and audio candidates are kept, under way or used. A
session-accept finds the call named and its engine started, which the code relies
on (`jinglertp.cpp:668` looks for content names) and which only `Linked` shows.

Only model-checked:

- liveness (`Converges`, `NegotiationsEnd`, `AskedIsLearnt`, `ConnectionSettles`,
  `ListSettles`, `AllIsAnswered`, `AllAreDecrypted`, `AnsweredIsDecided`, `EndsTogether`):
  TLAPS does not reason about fairness here;
- `SxeSession`, whose trees are built by recursion and folds; `ContactList`,
  whose commits fold over what the updater noted; `EventDb` and its refinement of `HistoryLog`,
  where pages and searches are selections and the requests are settled recursively.

## Disagreements

Where the code does not do what it says, or what its users would expect. One has a
run, `messages_popped`: `processEncryptedMessageNext` says it "peeks" at the
message (`psiaccount.cpp:5673`) that `processEncryptedMessageDone` will "pop"
(5680), but when a second contact's encrypted message arrives meanwhile
(`client_messageReceived`, 2519) the first message is decrypted a second time.
It is shown twice, and the message that stands at the head when a decryption ends
is dropped, whichever it is: the second message is dropped by the end of the first
one's second decryption. It is not lost, as its own decryption still ends and shows
it, but what its contact sends meanwhile no longer waits behind it.

The others are stated as properties in the modules; TLC refutes each within a
minute when it is put, alone, in the cfg that is named.

| Property, cfg | What the code says | What happens |
|---|---|---|
| `PositionSynchronized`, `SxeRecord_two.cfg` | `sxerecord.h:117` updateNode synchronises the DOM node with the record | The last position is remembered once; a node moved away and back stays away (`sxerecord.cpp:267`). |
| `ValueSynchronized`, `SxeRecord_two.cfg` | the same | `lastData_` is never assigned, so a text that is cleared keeps its characters in the DOM tree (`sxerecord.cpp:288`). |
| `AnsweredNegotiationExists`, `SxeManager_crossing.cfg` | `sxemanager.h:130` false iff the negotiation was deleted | The timer deletes it while the user thinks; the handler goes on with the freed object (`sxemanager.cpp:272`). |
| `EstablishedOnBothSides`, `SxeManager_crossing.cfg` | `sxemanager.h:114` sessionNegotiated: a session has been established | The joiner times out silently after accepting; the inviter draws alone (`sxemanager.cpp:629`). |
| `OneWhiteboardPerContact`, `SxeManager_crossing.cfg` | `wbmanager.h:63` opens the existing dialog | It exists only once the contact has accepted; opening twice before gives two (`wbmanager.cpp:57`). |
| `ShapesSurvive`, `SxeSession_drawing.cfg` | `wbscene.cpp:124` move the child from the group to the root | Both users ungroup a group: the shapes' moves cancel, the group is gone, the shapes are deleted. |
| `RemovalIsComplete`, `SxeSession_drawing.cfg` | `sxesession.h:201` generates removals for a node and its children | The live list is walked by index and every second child skipped (`sxesession.cpp:538`). |
| `UnknownAreAskedFor`, `CapsManager_clients.cfg` | `capsmanager.cpp:82` if features are unknown, discovery requests are sent | Only the first client of a kind is asked, once; if it leaves, nobody is. |
| `ListenersAreTold`, `CapsManager_clients.cfg` | `capsmanager.cpp:80ff` signals changes | Capabilities without a version remove a jid's features and nobody is told (`capsmanager.cpp:132`). |
| `EnabledMeansBroadcasting`, `CapsManager_clients.cfg` | `capsEnabled`: the jid is broadcasting | Nothing clears the capabilities of a contact that has gone offline (`psiaccount.cpp:2390`). |
| `OfflineStaysOffline`, `AccountConnection_stale.cfg` | `psiaccount.cpp:1614` disconnect or stop reconnecting | `logout` returns if the account is not active, before it stops the reconnection (1617), and a password dialog answered later logs in whatever was chosen since (2785). |
| `NothingBeyondTheEnd`, `EventDb_windows.cfg` | | `eventdb.cpp:703` tests `id > size` for `id >= size`: a position kept across an erase is read from behind the index. |
| `EstablishedIsConnected`, `JingleRtp_call.cfg` | `jinglertp.cpp:1193` called when all ICE components are established | A session-accept that drops video does not look again whether all is established (684); a call whose audio was connected by then waits for the timer. |
| `RemovedStaysRemoved`, `Avatars_changing.cfg` | | Removing an avatar keeps its hash (`avatars.cpp:568`), so the answer to its publication announces it again (672). |
| `RemovedIsHidden`, `Avatars_changing.cfg` | | When a photo is taken off the vcard presence is sent again with `loginStatus` (`psiaccount.cpp:716`), to which `setStatusActual` sets no empty hash (2832): the old hash is announced again, and no hash at all would be ignored (`avatars.cpp:604`). |
| `ShownOnce`, `ContactList_roster.cfg` | `contactlistgroup.cpp`, rules of `addContact`: in General, another special group, or the groups it names | A contact once shown in its account or in groups stays there beside its special group, because `contactGroupsChanged` returns before it leaves them (`contactlistnestedgroup.cpp:208`). |
| `OnlyNamedGroupIsLost`, `ContactList_roster.cfg` | `contactlistdragmodel.cpp:666` contacts removed "will only lose some groups" | Bare group names lose their first part as if it were the account's (`contactlistdragmodel.cpp:434`): removed from one group, a contact loses all. |
| `FailuresAreMadeGood`, `Avatars_changing.cfg` | | A failed request is not repeated while the hash stays (`avatars.cpp:159`); a failed vcard request shows the vcard saved before under the new hash (293). |

Found while reading, without a property:

- A reconnection rejects the certificate dialog, whose handler then logs out and
  cancels the reconnection (`psiaccount.cpp:1681`, modelled as `RejectDialogs`). A
  stream's TLS handler or `cs_needAuthParams` that runs when the account has no
  stream dereferences null (`crashed`).
- A status set while the account waits to reconnect is shown as if connected
  (`psiaccount.cpp:2763`: `rosterDone` is that of the last connection).
- Two changes of an account within 100 ms (`accountmodifydlg.cpp:549`) leave a
  stream that nothing closes.
- Writes to the history that are queued when the program quits are deleted
  (`eventdb.cpp:338`); events of the queue file not yet read when the program
  ends during its start are gone, because each event read rewrites the file
  (`psiaccount.cpp:647`); messages waiting for decryption are not kept.
- Pressing Export while the same window exports replaces the handle the outer
  loop goes on to use (`historydlg.cpp:476`).
- `alertmanager.cpp:84`: taking away a hidden alert rebuilds the heap, which may put
  another hidden one in front of the one on the screen; `dialogUnregister` looks at the
  first of a list that may be empty.
- The loops over a stanza's contents stop at the first (`jinglertp.cpp:668`), so a
  video offer beside audio is not seen and video candidates in a shared
  transport-info are dropped. A callee with two negotiations keeps the candidates
  found before both had started. Closing the window of an incoming call, or
  accepting without a device, tells the caller nothing. A caller has no timer
  before session-accept. `IceStatus.started` is read before it is set
  (`jinglertp.cpp:550`), which can send a session-terminate without a number.

## Assumptions and what is left out

- The XMPP library and the server deliver stanzas of one sender to one receiver
  in order and once, and the server keeps messages for a client that is offline.
  A connection that breaks loses the queries on it (`CapsManager`) and makes new
  messages wait (`SxeManager`).
- `SxeRecord`: a record of a text node or attribute with one position for parent
  and weight. The code sends only the half of the position that changes, which is
  the same because of `AppliedAsWritten`; `SxeSession` keeps the halves apart. A
  node's name and namespace never change.
- `SxeSession`: elements only, without attributes and texts. Weights are exact in
  units of a sixteenth; the code's decimal rounding is a listed hazard. Both
  participants start from one document.
- `SxeManager`: negotiations in a group chat and joining a running session have
  no caller.
- `CapsManager`: `disableCaps` is called by a unit test only and
  `CapsRegistry::load` not at all; presence of a contact is taken as allowed by
  the roster; an own presence with a bare JID is left out.
- `AccountConnection`: automatic reconnection is on, TLS is available, presence
  is not signed with GnuPG, cancelling the password dialog does nothing, and a
  request on a stream that is closed may fail at any later time or never. The
  lengths of the delays are left out: any timer may go off before any other. When there
  is no room for another stream nothing runs (`Room`), a bound that removes
  behaviours and no checks.
- `EventDb`: every line can be parsed, the disk does not fail, searches go
  backward (there is no other caller), and a window does not start a second export
  during its first.
- `EventQueue`: messages are told apart by when they came, whatever they say
  (`messageListContainsEvent` looks for copies in the YAPSI build only), alerts for open chats are on as by
  default, and opening chats by itself is off. A deletion of events for all contacts has no caller.
- `JingleRtp`: stanzas are well-formed; a callee has all the media it is offered.
- `ContactList`: transports are not moved (their menu and the drag model refuse
  it), a contact is dragged within its account and one at a time, presence is of one resource. Left out
  are private chats of rooms, the self contact's status, alerts and the order of
  groups.
- `Avatars`: the server has PEP and keeps every item published, images are
  valid, the contact stays online, one resource each.
- Bounds: `MaxEdits`, `MaxRemovals` (SxeRecord), `MaxActions` and the rids in
  `Own` (SxeSession), `Session` and `MaxEdits` (SxeManager), `MaxPresences` and
  `MaxReconnects` (CapsManager), `MaxStreams`, `MaxStatus` and `MaxTrouble`
  (AccountConnection), `MaxEvents`, `MaxAsks` and `MaxCloses` (EventDb),
  `MaxMessages`, `MaxWindows` and `MaxCrashes` (EventQueue), `MaxLosses`
  (JingleRtp), `MaxChanges` (ContactList), `MaxChoices`, `MaxFailures` and `MaxReconnects` (Avatars). Except for
  `MaxStreams` all are in guards of actions of users and the environment, none in a
  handler.

## Plan

What is modelled goes as far as the code's own state does; what is left is
listed with its reason in `PROJECT.json`. Proofs still worth having:

1. The part of `EventDb` and `ContactList` that needs no induction
   over data: types, and which windows and requests there are.
2. `DocumentIsATree` for the operations of `SxeSession`, in terms of parents.

Models still worth writing: in `SxeSession` attributes (`removeSmaller`,
`sxesession.cpp:592`: two participants that add an attribute of one name each
remove the one with the smaller rid), texts and their splitting, and decimal
weights; bookmarks, where the answer to a read replaces lists set since it was
sent (`bookmarkmanager.cpp:198`).
