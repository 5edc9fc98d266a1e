-------------------------------- MODULE Avatars --------------------------------
(***************************************************************************)
(* The avatar of one contact: how the contact's Psi publishes it            *)
(* (AvatarFactory of src/avatars.cpp for PEP, the vcard's photo hash in      *)
(* src/psiaccount.cpp for presence) and how another Psi finds, caches and    *)
(* shows it (PEPAvatar, VCardAvatar, VCardStaticAvatar and FileAvatar of     *)
(* src/avatars.cpp with src/vcardfactory.cpp and src/pepmanager.cpp).        *)
(*                                                                         *)
(* Hashes are announced and data is asked for afterwards, so that by the     *)
(* time the data arrives another hash may have been announced, or none.      *)
(* A photo stands for its hash too.                                          *)
(***************************************************************************)
EXTENDS Naturals, Sequences

CONSTANTS
    Photo,
    None,           \* no photo, no hash
    Unknown,        \* there is no saved vcard
    Manual,         \* the picture the viewer's user chose for the contact
    MaxChoices,     \* pictures chosen, vcards saved or looked at (bound)
    MaxFailures,    \* requests that fail (bound)
    MaxReconnects   \* connections the viewer loses (bound)

ASSUME ConstantsAssumption ==
    /\ None \notin Photo /\ Unknown \notin Photo \cup {None}
    /\ Manual \notin Photo \cup {None, Unknown}
    /\ MaxChoices \in Nat /\ MaxFailures \in Nat /\ MaxReconnects \in Nat

VARIABLES
    self,           \* the contact's Psi, and what its user chose last; login is
                    \* the photo hash in loginStatus
    up, acks,       \* its requests to the server, and their answers
    server,         \* what the server has of the contact
    wire,           \* from the server to the viewer
    asks,           \* the viewer's requests
    pep,            \* PEPAvatar: hash and image
    vcard,          \* VCardAvatar: hash and image
    saved,          \* the vcard VCardFactory has, or rather its photo
    cache,          \* the files of the cache directory
    file,           \* there is a FileAvatar
    view,           \* what was drawn at the last avatarChanged
    failed,         \* history: a request failed, or presence was lost
    removed,        \* history: a photo was taken off the vcard
    choices, failures, reconnects   \* what the bounds count

contact == <<self, up, acks>>
viewer == <<asks, pep, vcard, saved, cache, file, view>>
bounds == <<choices, failures, reconnects>>
vars == <<self, up, acks, server, wire, asks, pep, vcard, saved, cache, file, view,
          failed, removed, choices, failures, reconnects>>

NoAvatar == [hash |-> None, image |-> None]

Init ==
    /\ self = [choice |-> None, selfAvatarHash |-> None, photoHash |-> None, login |-> None]
    /\ up = <<>> /\ acks = <<>>
    /\ server = [items |-> {}, metadata |-> None, vcard |-> None, presence |-> None]
    /\ wire = <<>> /\ asks = <<>>
    /\ pep = NoAvatar /\ vcard = NoAvatar
    /\ saved = Unknown /\ cache = {} /\ file = FALSE /\ view = None
    /\ failed = FALSE /\ removed = FALSE
    /\ choices = 0 /\ failures = 0 /\ reconnects = 0
--------------------------------------------------------------------------------
(* The contact's Psi *)

Request(node, photo) == [node |-> node, photo |-> photo]

Choose ==
    /\ choices < MaxChoices
    /\ choices' = choices + 1
    /\ UNCHANGED <<acks, server, wire, viewer, failed, failures, reconnects>>

\* Mutant of SetSelfAvatar: the hash is that of the first avatar.
SetSelfAvatarOnce(p) ==
    /\ Choose
    /\ self' = [self EXCEPT !.choice = p,
                            !.selfAvatarHash = IF @ = None THEN p ELSE @]
    /\ up' = Append(up, Request("data", p))
    /\ UNCHANGED removed

SetSelfAvatar(p) ==
    /\ Choose
    /\ self' = [self EXCEPT !.choice = p, !.selfAvatarHash = p]
    /\ up' = Append(up, Request("data", p))
    /\ UNCHANGED removed

\* The hash is kept, so that data still on its way is announced all the same.
UnsetSelfAvatar ==
    /\ Choose
    /\ self' = [self EXCEPT !.choice = None]
    /\ up' = Append(up, Request("metadata", None))
    /\ UNCHANGED removed

\* The user changes the photo of the own vcard.
ChangeVCard(p) ==
    /\ Choose
    /\ up' = Append(up, Request("vcard", p))
    /\ removed' = (removed \/ p = None)
    /\ UNCHANGED self

\* Mutant of PublishSuccess: whatever was published, the last choice is announced.
PublishSuccessOfAny(ack) ==
    /\ ack.node = "data"
    /\ up' = Append(up, Request("metadata", self.selfAvatarHash))
    /\ UNCHANGED self
PublishSuccess(ack) ==
    /\ ack.node = "data"
    /\ up' = IF ack.photo = self.selfAvatarHash
             THEN Append(up, Request("metadata", self.selfAvatarHash)) ELSE up
    /\ UNCHANGED self

\* vcardPhotoUpdate: presence is sent again when the hash has changed.  It is sent
\* with loginStatus, which setStatusActual gives the new hash unless that is empty:
\* a photo that was taken off leaves the old hash there, and it is announced again.
LoginHash(photo) == IF photo = None THEN self.login ELSE photo
VCardUpdated(ack) ==
    /\ ack.node = "vcard"
    /\ IF ack.photo = self.photoHash THEN UNCHANGED <<self, up>>
       ELSE /\ self' = [self EXCEPT !.photoHash = ack.photo, !.login = LoginHash(ack.photo)]
            /\ up' = Append(up, Request("presence", LoginHash(ack.photo)))

TakeAck ==
    /\ acks # <<>>
    /\ acks' = Tail(acks)
    /\ LET ack == Head(acks) IN
          \/ PublishSuccess(ack)
          \/ VCardUpdated(ack)
          \/ ack.node = "metadata" /\ UNCHANGED <<self, up>>
    /\ UNCHANGED <<server, wire, viewer, failed, removed, bounds>>
--------------------------------------------------------------------------------
(* The server *)

Announce(type, photo) == [type |-> type, of |-> "contact", photo |-> photo]

\* A request is fulfilled; presence has no answer.
Fulfil ==
    /\ up # <<>>
    /\ up' = Tail(up)
    /\ LET r == Head(up) IN
       /\ acks' = IF r.node = "presence" THEN acks ELSE Append(acks, r)
       /\ \/ r.node = "data" /\ server' = [server EXCEPT !.items = @ \cup {r.photo}]
                             /\ UNCHANGED wire
          \/ r.node = "vcard" /\ server' = [server EXCEPT !.vcard = r.photo] /\ UNCHANGED wire
          \/ r.node = "metadata" /\ server' = [server EXCEPT !.metadata = r.photo]
                                 /\ wire' = Append(wire, Announce("metadata", r.photo))
          \/ r.node = "presence" /\ server' = [server EXCEPT !.presence = r.photo]
                                 /\ wire' = Append(wire, Announce("presence", r.photo))
    /\ UNCHANGED <<self, viewer, failed, removed, bounds>>

Fail ==
    /\ failures < MaxFailures
    /\ failures' = failures + 1
    /\ failed' = TRUE

\* publish_error has no receiver.
Refuse ==
    /\ Fail
    /\ up # <<>> /\ Head(up).node # "presence"
    /\ up' = Tail(up)
    /\ UNCHANGED <<self, acks, server, wire, viewer, removed, choices, reconnects>>

Reply ==
    /\ asks # <<>>
    /\ asks' = Tail(asks)
    /\ LET r == Head(asks) IN
          wire' = Append(wire, [type |-> "result", of |-> r.of,
                                photo |-> IF r.of = "data" THEN r.photo ELSE server.vcard])
    /\ UNCHANGED <<contact, server, pep, vcard, saved, cache, file, view, failed, removed, bounds>>

ReplyError ==
    /\ Fail
    /\ asks # <<>>
    /\ asks' = Tail(asks)
    /\ wire' = Append(wire, [type |-> "error", of |-> Head(asks).of, photo |-> None])
    /\ UNCHANGED <<contact, server, pep, vcard, saved, cache, file, view, removed, choices, reconnects>>
--------------------------------------------------------------------------------
(* The viewer *)

\* retrieveAvatar: the first there is of four.
Retrieved(f, p, v, s) ==
    IF f THEN Manual
    ELSE IF p.image # None THEN p.image
    ELSE IF v.image # None THEN v.image
    ELSE IF s # Unknown THEN s
    ELSE None

\* avatarChanged: whoever shows the avatar retrieves it.
AvatarChanged == view' = Retrieved(file', pep', vcard', saved')

Cached(photo) == IF photo \in Photo THEN cache \cup {photo} ELSE cache


\* updateHash: the picture is that of the cache, or none until it arrives.
Updated(avatar, h) ==
    IF avatar.hash = h THEN avatar
    ELSE [hash |-> h, image |-> IF h \in cache THEN h ELSE None]

\* requestAvatar is called for a new hash that is not in the cache.
Wanted(avatar, h) == h # avatar.hash /\ h # None /\ h \notin cache

Signalled(changed) == IF changed THEN AvatarChanged ELSE UNCHANGED view

Taken(type, of) ==
    /\ wire # <<>> /\ Head(wire).type = type /\ Head(wire).of = of
    /\ wire' = Tail(wire)
    /\ UNCHANGED <<contact, server, failed, removed, bounds, file>>

\* Presence without a photo hash says nothing.
ResourceAvailable ==
    /\ Taken("presence", "contact")
    /\ LET h == Head(wire).photo IN
       /\ vcard' = IF h = None THEN vcard ELSE Updated(vcard, h)
       /\ asks' = IF Wanted(vcard, h) THEN Append(asks, [of |-> "avatar", photo |-> None]) ELSE asks
       /\ UNCHANGED <<pep, saved, cache>>
       /\ Signalled(vcard' # vcard)

Metadata ==
    /\ Taken("metadata", "contact")
    /\ LET h == Head(wire).photo IN
       /\ pep' = Updated(pep, h)
       /\ asks' = IF Wanted(pep, h) THEN Append(asks, [of |-> "data", photo |-> h]) ELSE asks
       /\ UNCHANGED <<vcard, saved, cache>>
       /\ Signalled(pep' # pep)

\* Mutant of SetData: nobody is told.
SetDataQuietly(p) ==
    /\ pep' = IF p = pep.hash THEN [pep EXCEPT !.image = p] ELSE pep
    /\ cache' = IF p = pep.hash THEN Cached(p) ELSE cache
    /\ UNCHANGED <<asks, vcard, saved, view>>

\* Data is taken only if it is that of the hash announced last.
SetData(p) ==
    /\ pep' = IF p = pep.hash THEN [pep EXCEPT !.image = p] ELSE pep
    /\ cache' = IF p = pep.hash THEN Cached(p) ELSE cache
    /\ UNCHANGED <<asks, vcard, saved>>
    /\ Signalled(p = pep.hash)

Data == Taken("result", "data") /\ SetData(Head(wire).photo)

\* An error is logged.
DataError == Taken("error", "data") /\ UNCHANGED <<asks, pep, vcard, saved, cache, view>>

\* receivedVCard, for the vcard saved: it looks for no success.
Received(s) ==
    /\ vcard' = IF s = Unknown THEN vcard ELSE [vcard EXCEPT !.image = s]
    /\ cache' = Cached(s)

\* Mutant of VCardResult: the avatar's slot is called before the vcard is saved.
VCardResultEarly ==
    /\ Taken("result", "avatar")
    /\ saved' = Head(wire).photo
    /\ Received(saved)
    /\ UNCHANGED <<asks, pep>>
    /\ AvatarChanged

\* The vcard is saved, which is signalled, before the avatar's slot is called.
VCardResult ==
    /\ Taken("result", "avatar")
    /\ saved' = Head(wire).photo
    /\ Received(saved')
    /\ UNCHANGED <<asks, pep>>
    /\ AvatarChanged

VCardError ==
    /\ Taken("error", "avatar")
    /\ Received(saved)
    /\ UNCHANGED <<asks, pep, saved>>
    /\ Signalled(saved # Unknown)

\* The user looks at the contact's vcard, for which it is asked anew.
LookUp ==
    /\ choices < MaxChoices
    /\ choices' = choices + 1
    /\ asks' = Append(asks, [of |-> "info", photo |-> None])
    /\ UNCHANGED <<contact, server, wire, pep, vcard, saved, cache, file, view,
                   failed, removed, failures, reconnects>>

InfoResult ==
    /\ Taken("result", "info")
    /\ saved' = Head(wire).photo
    /\ UNCHANGED <<asks, pep, vcard, cache>>
    /\ AvatarChanged

InfoError == Taken("error", "info") /\ UNCHANGED <<asks, pep, vcard, saved, cache, view>>

\* importManualAvatar and removeManualAvatar.
SetManualAvatar ==
    /\ choices < MaxChoices
    /\ choices' = choices + 1
    /\ file' = ~file
    /\ UNCHANGED <<contact, server, wire, asks, pep, vcard, saved, cache,
                   failed, removed, failures, reconnects>>
    /\ AvatarChanged

\* The tasks of a lost connection end with an error, and the server repeats
\* presence and the last metadata on the new one.
Reconnect ==
    LET pending == {asks[i].of : i \in DOMAIN asks}
                   \cup {wire[i].of : i \in {j \in DOMAIN wire : wire[j].of # "contact"}}
    IN  /\ reconnects < MaxReconnects
        /\ reconnects' = reconnects + 1
        /\ asks' = <<>>
        /\ wire' = <<Announce("presence", server.presence), Announce("metadata", server.metadata)>>
        /\ failed' = (failed \/ pending # {} \/ \E i \in DOMAIN wire : wire[i].type = "presence")
        /\ IF "avatar" \in pending THEN Received(saved) ELSE UNCHANGED <<vcard, cache>>
        /\ UNCHANGED <<contact, server, pep, saved, file, removed, choices, failures>>
        /\ Signalled("avatar" \in pending /\ saved # Unknown)

Next ==
    \/ \E p \in Photo : SetSelfAvatar(p)
    \/ UnsetSelfAvatar
    \/ \E p \in Photo \cup {None} : ChangeVCard(p)
    \/ TakeAck
    \/ Fulfil
    \/ Refuse
    \/ Reply
    \/ ReplyError
    \/ ResourceAvailable
    \/ Metadata
    \/ Data
    \/ DataError
    \/ VCardResult
    \/ VCardError
    \/ LookUp
    \/ InfoResult
    \/ InfoError
    \/ SetManualAvatar
    \/ Reconnect

Spec == Init /\ [][Next]_vars
--------------------------------------------------------------------------------
\* Images are photos, and an avatar without a hash has none unless a vcard gave it.
TypeOK ==
    /\ self \in [choice : Photo \cup {None}, selfAvatarHash : Photo \cup {None},
                 photoHash : Photo \cup {None}, login : Photo \cup {None}]
    /\ server.items \subseteq Photo /\ cache \subseteq Photo
    /\ server.metadata \in Photo \cup {None} /\ server.vcard \in Photo \cup {None}
    /\ {pep.hash, pep.image, vcard.hash, vcard.image} \subseteq Photo \cup {None}
    /\ pep.hash = None => pep.image = None
    /\ saved \in Photo \cup {None, Unknown}
    /\ view \in Photo \cup {None, Manual}

\* A PEP avatar shows nothing but the picture of the hash announced last, however
\* late the answers to older requests are.
PepImageIsOfItsHash == pep.image # None => pep.image = pep.hash

\* What is drawn is what would be retrieved now: every change of what comes first
\* of the four kinds of avatar is signalled, in whatever order they change.
ViewIsCurrent == view = Retrieved(file, pep, vcard, saved)

\* What is held, and what is drawn, is what the announcements and answers so far
\* make it.
ViewerInvariant == TypeOK /\ PepImageIsOfItsHash /\ ViewIsCurrent

\* No avatar is announced whose data the server does not have, when publications
\* overtake each other and fail.
AnnouncedIsPublished == server.metadata # None => server.metadata \in server.items

Published == up = <<>> /\ acks = <<>>
Settled == Published /\ asks = <<>> /\ wire = <<>>

\* When everything has arrived and no publication failed the avatar the user chose
\* last is the one announced, however fast the choices follow each other.
ChoiceIsAnnounced == Published /\ ~failed /\ self.choice # None => server.metadata = self.choice

\* When everything has arrived and no request failed the viewer has the avatar
\* that is announced, by PEP or, unless a photo was taken off, by its vcard.
AnnouncedIsShown ==
    Settled /\ ~failed => /\ pep.image = server.metadata
                          /\ ~removed => vcard.image = server.vcard

\* An avatar the user removed stays removed.
RemovedStaysRemoved == Published /\ ~failed /\ self.choice = None => server.metadata = None

\* When everything has arrived nobody shows a vcard photo that was taken off.
RemovedIsHidden == Settled /\ ~failed /\ server.vcard = None => vcard.image = None

\* When everything has arrived the viewer has the avatar, failures or not.
FailuresAreMadeGood == Settled => pep.image = server.metadata
================================================================================
