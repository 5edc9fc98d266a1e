-------------------------------- MODULE EventDb --------------------------------
(***************************************************************************)
(* The message history: EDBFlatFile of src/eventdb.cpp, which all accounts  *)
(* share, the accounts that log events, and the windows of                  *)
(* src/historydlg.cpp that page, search, export and erase.                  *)
(*                                                                         *)
(* A request waits in a queue for a turn of the event loop of its own.      *)
(* A contact's file is open while it is used and for half a minute after;   *)
(* as long as it is open its index of line positions is kept.  A window     *)
(* remembers positions of the log from one request to the next.             *)
(***************************************************************************)
EXTENDS Integers, Sequences, FiniteSets, SequencesExt

CONSTANTS
    Contact,        \* the contacts whose messages are logged
    Window,         \* windows
    ContactOf,      \* the contact of each window; accounts may share one
    PageSize,       \* events on a page, 50 in the code
    ExportSize,     \* events exported at a time, 1000 in the code
    Hit,            \* events that contain the text searched for
    MaxEvents,      \* events logged (bound)
    MaxAsks,        \* requests of the windows' users (bound)
    MaxCloses       \* files closed after their timeout (bound)

ASSUME ConstantsAssumption ==
    /\ ContactOf \in [Window -> Contact]
    /\ PageSize \in Nat \ {0} /\ ExportSize \in Nat \ {0}
    /\ Hit \subseteq 1 .. MaxEvents
    /\ MaxEvents \in Nat /\ MaxAsks \in Nat /\ MaxCloses \in Nat

VARIABLES
    disk,           \* the lines of each contact's file
    file,           \* the File objects: open, indexed, the index
    requests,       \* rlist, in its order; each has its own turn
    window,         \* HistoryDlg of each contact
    export,         \* the loop of exportHistory of each window
    logged,         \* number of events logged
    asks, closes    \* what the bounds count

vars == <<disk, file, requests, window, export, logged, asks, closes>>

Event == 1 .. MaxEvents
Nothing == 0                \* no event
Garbage == {MaxEvents + 1, MaxEvents + 2}   \* what is read beyond the index
WithText == Hit \cup {MaxEvents + 1}
None == -1                  \* an empty id

Closed == [open |-> FALSE, indexed |-> FALSE, index |-> <<>>]
Opened == [open |-> TRUE, indexed |-> FALSE, index |-> <<>>]

--------------------------------------------------------------------------------
(* Requests *)

\* A handle listens for its last request only; what it asked before is still
\* worked off. "account" stands for the handle that each logged event has.
Unheard(by) == [i \in DOMAIN requests |->
    IF requests[i].by = by THEN [requests[i] EXCEPT !.by = <<"nobody">>] ELSE requests[i]]
\* Mutant of AskFor: the last to ask is the first to be served.
AskForFirst(request) == requests' = <<request>> \o Unheard(request.by)
AskFor(request) == requests' = Append(Unheard(request.by), request)

Get(by, c, id, direction, len) ==
    [type |-> "get", by |-> by, contact |-> c, id |-> id, direction |-> direction, len |-> len]
GetLatest(by, c) == [type |-> "getLatest", by |-> by, contact |-> c]
GetOldest(by, c) == [type |-> "getOldest", by |-> by, contact |-> c]
FindBefore(by, c, id) == [type |-> "find", by |-> by, contact |-> c, id |-> id]
AppendEvent(c, e) == [type |-> "append", by |-> <<"account">>, contact |-> c, event |-> e]
EraseAll(by, c) == [type |-> "erase", by |-> by, contact |-> c]

(* Files *)

\* ensureFile and ensureIndex.
Indexed(c) ==
    IF file[c].indexed THEN file[c]
    ELSE [open |-> TRUE, indexed |-> TRUE, index |-> [i \in 1 .. Len(disk[c]) |-> i]]

\* File::get: a position equal to the size passes the check, and what is found
\* in the memory behind the index is anything.
Fetch(c, index, id, beyond) ==
    IF id < 0 \/ id > Len(index) THEN Nothing
    ELSE IF id = Len(index) THEN beyond
    ELSE disk[c][index[id + 1]]

\* The ids read for len events from id on, the oldest first.
Ids(total, id, direction, len) ==
    LET many == IF direction = "forward" THEN IF id + len > total THEN total - id ELSE len
                ELSE IF id + 1 < len THEN id + 1 ELSE len
        least == IF direction = "forward" THEN id ELSE id + 1 - many
    IN  [k \in 1 .. many |-> least + k - 1]

Items(c, index, ids, beyond) ==
    SelectSeq([k \in DOMAIN ids |-> [id |-> ids[k], event |-> Fetch(c, index, ids[k], beyond)]],
              LAMBDA item : item.event # Nothing)

Before(id) == IF id > 0 THEN id - 1 ELSE None
\* Mutant of After: there is always another event.
AfterAll(total, id) == IF id < total THEN id + 1 ELSE None
After(total, id) == IF id < total - 1 THEN id + 1 ELSE None

\* The nearest event from id backward that has the text, or Nothing's place.
Found(c, index, id, beyond) ==
    LET hits == {k \in 0 .. id : /\ Fetch(c, index, k, beyond) \in WithText
                                 /\ \A l \in k + 1 .. id : Fetch(c, index, l, beyond) # Nothing}
    IN  IF hits = {} THEN <<>>
        ELSE LET k == CHOOSE k \in hits : \A l \in hits : l <= k
             IN  <<[id |-> k, event |-> Fetch(c, index, k, beyond)]>>

Read(r, index, beyond) ==
    LET total == Len(index)
    IN  CASE r.type = "getLatest" ->
                Items(r.contact, index, Ids(total, total - 1, "backward", PageSize), beyond)
          [] r.type = "getOldest" ->
                Items(r.contact, index, Ids(total, 0, "forward", ExportSize), beyond)
          [] r.type = "get" ->
                Items(r.contact, index, Ids(total, r.id, r.direction, r.len), beyond)
          [] r.type = "find" -> Found(r.contact, index, r.id, beyond)
--------------------------------------------------------------------------------
NoPage == [items |-> <<>>, prev |-> None, next |-> None]
NewWindow == [open |-> FALSE, page |-> NoPage, off |-> {}, reqtype |-> "latest", whole |-> TRUE]
NoExport == [on |-> FALSE, out |-> <<>>, start |-> 0, whole |-> TRUE]

Init ==
    /\ disk = [c \in Contact |-> <<>>]
    /\ file = [c \in Contact |-> Closed]
    /\ requests = <<>>
    /\ window = [w \in Window |-> NewWindow]
    /\ export = [w \in Window |-> NoExport]
    /\ logged = 0 /\ asks = 0 /\ closes = 0

(* Users and accounts *)

Handle(w) == <<"window", w>>
Exporter(w) == <<"export", w>>

\* PsiAccount::logEvent.
LogEvent(c) ==
    /\ logged < MaxEvents
    /\ logged' = logged + 1
    /\ AskFor(AppendEvent(c, logged + 1))
    /\ UNCHANGED <<disk, file, window, export, asks, closes>>

AskedBy(w, request, button, reqtype) ==
    /\ asks < MaxAsks
    /\ asks' = asks + 1
    /\ AskFor(request)
    /\ window' = [window EXCEPT ![w].open = TRUE, ![w].off = @ \cup button, ![w].reqtype = reqtype]
    /\ UNCHANGED <<disk, file, export, logged, closes>>

\* Opening a window, and its button "Latest".
Latest(w) ==
    /\ "latest" \notin window[w].off
    /\ AskedBy(w, GetLatest(Handle(w), ContactOf[w]), {"latest"}, "latest")

Prev(w) ==
    /\ window[w].page.prev # None /\ "prev" \notin window[w].off
    /\ AskedBy(w, Get(Handle(w), ContactOf[w], window[w].page.prev, "backward", PageSize),
               {"prev"}, "prev")

NextPage(w) ==
    /\ window[w].page.next # None /\ "next" \notin window[w].off
    /\ AskedBy(w, Get(Handle(w), ContactOf[w], window[w].page.next, "forward", PageSize),
               {"next"}, "next")

\* The search starts before the line that is selected.
Find(w) ==
    \E i \in DOMAIN window[w].page.items :
        /\ Before(window[w].page.items[i].id) # None
        /\ AskedBy(w, FindBefore(Handle(w), ContactOf[w], Before(window[w].page.items[i].id)),
                   {}, "find")

Erase(w) ==
    /\ window[w].open
    /\ AskedBy(w, EraseAll(Handle(w), ContactOf[w]), {}, window[w].reqtype)

\* exportHistory runs the event loop until it is done.
Export(w) ==
    /\ window[w].open /\ ~export[w].on /\ asks < MaxAsks
    /\ asks' = asks + 1
    /\ export' = [export EXCEPT ![w] = [on |-> TRUE, out |-> <<>>, whole |-> TRUE,
                                        start |-> Len(disk[ContactOf[w]])]]
    /\ AskFor(GetOldest(Exporter(w), ContactOf[w]))
    /\ UNCHANGED <<disk, file, window, logged, closes>>

(* Answers *)

Done == requests' = Tail(requests)

\* HistoryDlg::edb_finished with a result. A found event is followed by the page
\* that ends with it; a search without result says so and leaves the buttons.
PageRead(w, items, total) ==
    IF window[w].reqtype = "find"
    THEN IF items = <<>>
         THEN Done /\ UNCHANGED window
         ELSE /\ requests' = Append(Tail(requests),
                    Get(Handle(w), ContactOf[w], items[1].id, "backward", PageSize))
              /\ window' = [window EXCEPT ![w].reqtype = "prev"]
    ELSE /\ Done
         /\ window' = [window EXCEPT
                ![w].off = {},
                ![w].whole = IF items = <<>> THEN @ ELSE TRUE,
                ![w].page = IF items = <<>> THEN @
                            ELSE [items |-> items, prev |-> Before(Head(items).id),
                                  next |-> After(total, Last(items).id)]]

\* Mutants of ExportRead: the next turn begins with the last event again; an
\* answer without events does not end the loop.
ExportReadAgain(w, items, total) ==
    LET out == export[w].out \o [i \in DOMAIN items |-> items[i].event]
        next == IF items = <<>> \/ After(total, Last(items).id) = None THEN None ELSE Last(items).id
    IN  /\ export' = [export EXCEPT ![w].out = out, ![w].on = next # None]
        /\ requests' = IF next = None THEN Tail(requests)
                       ELSE Append(Tail(requests),
                                   Get(Exporter(w), ContactOf[w], next, "forward", ExportSize))
ExportReadStubborn(w, items, total) ==
    LET out == export[w].out \o [i \in DOMAIN items |-> items[i].event]
        next == IF items # <<>> THEN After(total, Last(items).id)
                ELSE IF Head(requests).type = "get" THEN Head(requests).id ELSE None
    IN  /\ export' = [export EXCEPT ![w].out = out, ![w].on = next # None]
        /\ requests' = IF next = None THEN Tail(requests)
                       ELSE Append(Tail(requests),
                                   Get(Exporter(w), ContactOf[w], next, "forward", ExportSize))

\* One turn of the loop of exportHistory: after the last event there is no next.
ExportRead(w, items, total) ==
    LET out == export[w].out \o [i \in DOMAIN items |-> items[i].event]
        next == IF items = <<>> THEN None ELSE After(total, Last(items).id)
    IN  /\ export' = [export EXCEPT ![w].out = out, ![w].on = next # None]
        /\ requests' = IF next = None THEN Tail(requests)
                       ELSE Append(Tail(requests),
                                   Get(Exporter(w), ContactOf[w], next, "forward", ExportSize))

\* performRequests for the four kinds of reading.
PerformRead ==
    /\ requests # <<>>
    /\ LET r == Head(requests) IN
       /\ r.type \in {"getLatest", "getOldest", "get", "find"}
       /\ file' = [file EXCEPT ![r.contact] = Indexed(r.contact)]
       /\ \E beyond \in {Nothing} \cup Garbage :
             LET index == Indexed(r.contact).index
                 items == Read(r, index, beyond)
             IN  CASE r.by[1] = "window" ->
                        PageRead(r.by[2], items, Len(index)) /\ UNCHANGED export
                   [] r.by[1] = "export" ->
                        ExportRead(r.by[2], items, Len(index)) /\ UNCHANGED window
                   [] OTHER -> Done /\ UNCHANGED <<window, export>>
    /\ UNCHANGED <<disk, logged, asks, closes>>


\* The position of the new line is added to an index there is.
PerformAppend ==
    /\ requests # <<>>
    /\ LET r == Head(requests) IN
       /\ r.type = "append"
       /\ disk' = [disk EXCEPT ![r.contact] = Append(@, r.event)]
       /\ file' = [file EXCEPT ![r.contact] =
                     IF @.indexed THEN [@ EXCEPT !.index = Append(@, Len(disk'[r.contact]))]
                     ELSE Opened]
    /\ Done
    /\ UNCHANGED <<window, export, logged, asks, closes>>

\* deleteFile; the window that asked forgets what it shows.
Cut(c) == [w \in Window |-> IF ContactOf[w] = c THEN [window[w] EXCEPT !.whole = FALSE] ELSE window[w]]
PerformErase ==
    /\ requests # <<>>
    /\ LET r == Head(requests) IN
       /\ r.type = "erase"
       /\ disk' = [disk EXCEPT ![r.contact] = <<>>]
       /\ file' = [file EXCEPT ![r.contact] = Closed]
       /\ window' = IF r.by[1] # "window" THEN Cut(r.contact)
                    ELSE [Cut(r.contact) EXCEPT ![r.by[2]].page = NoPage, ![r.by[2]].off = {}]
       /\ export' = [w \in Window |-> IF ContactOf[w] = r.contact
                                      THEN [export[w] EXCEPT !.whole = FALSE] ELSE export[w]]
    /\ Done
    /\ UNCHANGED <<logged, asks, closes>>

Perform == PerformRead \/ PerformAppend \/ PerformErase


\* Half a minute without use.
FileTimeout(c) ==
    /\ file[c].open /\ closes < MaxCloses
    /\ file' = [file EXCEPT ![c] = Closed]
    /\ closes' = closes + 1
    /\ UNCHANGED <<disk, requests, window, export, logged, asks>>

Next ==
    \/ \E c \in Contact : LogEvent(c)
    \/ \E w \in Window : Latest(w)
    \/ \E w \in Window : Prev(w)
    \/ \E w \in Window : NextPage(w)
    \/ \E w \in Window : Find(w)
    \/ \E w \in Window : Erase(w)
    \/ \E w \in Window : Export(w)
    \/ PerformRead
    \/ PerformAppend
    \/ PerformErase
    \/ \E c \in Contact : FileTimeout(c)

Spec == Init /\ [][Next]_vars
FairSpec == Spec /\ WF_vars(Perform)
--------------------------------------------------------------------------------
TypeOK ==
    /\ disk \in [Contact -> Seq(Event)]
    /\ \A c \in Contact : file[c].indexed => file[c].open
    /\ \A w \in Window :
        /\ window[w].page.prev \in {None} \cup 0 .. MaxEvents
        /\ window[w].page.next \in {None} \cup 0 .. MaxEvents
        /\ window[w].off \subseteq {"latest", "prev", "next"}

\* The index of an open file has the position of every line of it, whoever wrote,
\* read or erased meanwhile.
IndexMatches ==
    \A c \in Contact : file[c].indexed => file[c].index = [i \in 1 .. Len(disk[c]) |-> i]

\* A page is a run of the log and its buttons lead to the events next to it,
\* unless the log was erased since it was read.
PageIsOfTheLog ==
    \A w \in Window :
        LET page == window[w].page
            log == disk[ContactOf[w]]
        IN  window[w].whole /\ page.items # <<>> =>
              /\ \A i \in DOMAIN page.items :
                    /\ page.items[i].id = page.items[1].id + i - 1
                    /\ page.items[i].event \in Garbage
                       \/ /\ page.items[i].id < Len(log)
                          /\ page.items[i].event = log[page.items[i].id + 1]
              /\ page.prev = Before(page.items[1].id)
              /\ page.next # None => page.next = Last(page.items).id + 1 /\ page.next < Len(log)

\* Files, their indexes and the windows that hold positions in them agree.
PositionInvariant == TypeOK /\ IndexMatches /\ PageIsOfTheLog

\* What is exported is the beginning of the log, and all of what was there when
\* the export began, although events are written in between.
ExportIsComplete ==
    \A w \in Window :
        LET log == disk[ContactOf[w]]
        IN  export[w].whole =>
              /\ IsPrefix(export[w].out, log)
              /\ ~export[w].on => Len(export[w].out) >= export[w].start

\* The log that results when all that is asked for has been done.
Settled(c) ==
    LET after[i \in 0 .. Len(requests)] ==
            IF i = 0 THEN disk[c]
            ELSE IF requests[i].contact # c THEN after[i - 1]
            ELSE CASE requests[i].type = "append" -> Append(after[i - 1], requests[i].event)
                   [] requests[i].type = "erase" -> <<>>
                   [] OTHER -> after[i - 1]
    IN  after[Len(requests)]

\* Queue, files and index amount to a log per contact, in the order of the
\* requests: no event is lost, repeated, misplaced or spared by erasing.
Abstract == INSTANCE HistoryLog WITH log <- [c \in Contact |-> Settled(c)]
ImplementsHistoryLog == Abstract!Spec

\* All that is asked for is worked off and answered, and every export ends, even
\* when the log is erased under it.
AllIsAnswered == []<>(requests = <<>> /\ \A w \in Window : ~export[w].on)

\* Nothing is read from behind the end of the log.
NothingBeyondTheEnd ==
    \A w \in Window :
        /\ \A i \in DOMAIN window[w].page.items : window[w].page.items[i].event \notin Garbage
        /\ \A i \in DOMAIN export[w].out : export[w].out[i] \notin Garbage
================================================================================
