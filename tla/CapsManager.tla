---------------------------- MODULE CapsManager ----------------------------
(***************************************************************************)
(* Entity capabilities (capabilities/capsmanager and capsregistry, fed by  *)
(* PsiAccount::client_resourceAvailable).                                  *)
(*                                                                         *)
(* A contact's client names its software in its presence; a manager per    *)
(* account remembers who has which, asks one client of each kind for its   *)
(* features, and keeps the answer in a registry all accounts share.  An    *)
(* answer names the node it is for but not the version, and may arrive     *)
(* after the contact has changed its client.                               *)
(*                                                                         *)
(* CapsManager::disableCaps is called by a unit test only: when a contact  *)
(* goes offline its account does not tell the manager.  CapsRegistry::load *)
(* is not called at all, so the registry starts empty.                     *)
(***************************************************************************)
EXTENDS Integers, Sequences

CONSTANTS
    Account,       \* accounts of this program, each with its manager
    Enabled,       \* the accounts whose manager does lookups
    Jid,           \* full addresses of contacts' clients
    Node, Version, Ext,
    Broadcast,     \* the capabilities that clients put in their presence
    NoVersion,     \* a version left empty
    NoCaps,        \* no capabilities known, or none broadcast
    Unknown,       \* features nobody has told us
    MaxPresences,  \* bound: presences that clients send
    MaxReconnects  \* bound: connections that accounts lose and make again

Caps == [node : Node, ver : Version \cup {NoVersion}, exts : SUBSET Ext]

\* A `simple' specification: one extension, or the version in its place.
CapsSpec == [node : Node, ver : Version, ext : Version \cup Ext]

ASSUME EnabledAssumption   == Enabled \subseteq Account
ASSUME BroadcastAssumption == Broadcast \subseteq Caps
ASSUME NoVersionAssumption == NoVersion \notin Version
ASSUME NoCapsAssumption    == NoCaps \notin Caps
ASSUME UnknownAssumption   == Unknown \notin CapsSpec
ASSUME BoundsAssumption    == MaxPresences \in Nat /\ MaxReconnects \in Nat

VARIABLES
    capsSpecs,  \* capsSpecs[a][j]: capsSpecs_ of a's manager, NoCaps if absent
    capsJids,   \* capsJids[a][s][j]: how often capsJids_[s] lists j
    registry,   \* registry[s]: the features registered for s
    seen,       \* seen[a][j]: what capsChanged(j)'s receivers last read
    asked,      \* asked[a][j][s]: queries for s on their way to j
    inbox,      \* inbox[a][j]: stanzas on their way from j
    client,     \* client[j]: what the client at j broadcasts
    presences, reconnects

manager == <<capsSpecs, capsJids, registry, seen>>
vars == <<manager, asked, inbox, client, presences, reconnects>>

\* The features of a kind of client are named by the kind itself: a query
\* answered by the client of another version carries other features.
Feature == CapsSpec \cup {Unknown}
Presence == [kind : {"presence"}, caps : Broadcast]
Reply == [kind : {"reply"}, to : CapsSpec, features : Feature]

TypeOK ==
    /\ capsSpecs \in [Account -> [Jid -> Broadcast \cup {NoCaps}]]
    /\ capsJids \in [Account -> [CapsSpec -> [Jid -> Nat]]]
    /\ registry \in [CapsSpec -> Feature]
    /\ seen \in [Account -> [Jid -> SUBSET CapsSpec]]
    /\ asked \in [Account -> [Jid -> [CapsSpec -> Nat]]]
    /\ inbox \in [Account -> [Jid -> Seq(Presence \cup Reply)]]
    /\ client \in [Jid -> Broadcast \cup {NoCaps}]
    /\ presences \in 0 .. MaxPresences
    /\ reconnects \in 0 .. MaxReconnects

-----------------------------------------------------------------------------
(* Capabilities.                                                           *)

Legal(c) == c.ver # NoVersion

\* CapsSpec::flatten
Flatten(c) == {[node |-> c.node, ver |-> c.ver, ext |-> e] : e \in {c.ver} \cup c.exts}

\* The simple specifications under which capabilities are registered.
Specs(c) == IF c = NoCaps THEN {} ELSE IF Legal(c) THEN Flatten(c) ELSE {}

\* What the features of known specifications amount to.
FeaturesOf(specs, known) == {known[s] : s \in specs} \ {Unknown}

capsEnabled(a, j) == capsSpecs[a][j] # NoCaps

\* CapsManager::features
Features(a, j) == FeaturesOf(Specs(capsSpecs[a][j]), registry)

Lists(a, s, j) == capsJids[a][s][j] > 0

\* The list of jids of one specification when j's capabilities become c:
\* unregistered from all of the old ones, registered once with the new.
Relist(c, s, j, list) == [list EXCEPT ![j] = IF s \in Specs(c) THEN 1 ELSE 0]

\* capsJids_[s].count() == 1 once j has been listed
OnlyOne(list, j) == \A k \in Jid \ {j} : list[k] = 0

Init ==
    /\ capsSpecs = [a \in Account |-> [j \in Jid |-> NoCaps]]
    /\ capsJids = [a \in Account |-> [s \in CapsSpec |-> [j \in Jid |-> 0]]]
    /\ registry = [s \in CapsSpec |-> Unknown]
    /\ seen = [a \in Account |-> [j \in Jid |-> {}]]
    /\ asked = [a \in Account |-> [j \in Jid |-> [s \in CapsSpec |-> 0]]]
    /\ inbox = [a \in Account |-> [j \in Jid |-> <<>>]]
    /\ client = [j \in Jid |-> NoCaps]
    /\ presences = 0
    /\ reconnects = 0

-----------------------------------------------------------------------------
(* The manager of account a handles the oldest stanza from j.              *)

Take(a, j) == inbox' = [inbox EXCEPT ![a][j] = Tail(@)]
Oldest(a, j) == Head(inbox[a][j])

\* updateCaps: the same capabilities again, with a change of status, say.
\* Their jid is listed once more.
RepeatCaps(a, j) ==
    /\ inbox[a][j] # <<>>
    /\ Oldest(a, j).kind = "presence"
    /\ Oldest(a, j).caps = capsSpecs[a][j]
    /\ Take(a, j)
    /\ capsJids' = [capsJids EXCEPT ![a] =
           [s \in CapsSpec |->
               IF s \in Specs(capsSpecs[a][j])
               THEN [capsJids[a][s] EXCEPT ![j] = @ + 1] ELSE capsJids[a][s]]]
    /\ UNCHANGED <<capsSpecs, registry, seen, asked, client, presences, reconnects>>

\* updateCaps: other capabilities.  Each specification that is unknown, and
\* that no other client is listed for, is asked for.
ChangeCaps(a, j) ==
    /\ inbox[a][j] # <<>>
    /\ Oldest(a, j).kind = "presence"
    /\ LET c == Oldest(a, j).caps
           relisted == [s \in CapsSpec |-> Relist(c, s, j, capsJids[a][s])]
           Query(s) == /\ a \in Enabled
                       /\ s \in Specs(c)
                       /\ registry[s] = Unknown
                       /\ OnlyOne(relisted[s], j)
       IN  /\ c # capsSpecs[a][j]
           /\ Legal(c)
           /\ capsSpecs' = [capsSpecs EXCEPT ![a][j] = c]
           /\ capsJids' = [capsJids EXCEPT ![a] = relisted]
           /\ seen' = [seen EXCEPT ![a][j] = FeaturesOf(Specs(c), registry)]
           /\ asked' = [asked EXCEPT ![a][j] =
                  [s \in CapsSpec |-> IF Query(s) THEN @[s] + 1 ELSE @[s]]]
    /\ Take(a, j)
    /\ UNCHANGED <<registry, client, presences, reconnects>>

\* Mutant: the capabilities stay in capsSpecs_.
IllegalCapsKept(a, j) ==
    /\ inbox[a][j] # <<>>
    /\ Oldest(a, j).kind = "presence"
    /\ ~Legal(Oldest(a, j).caps)
    /\ capsJids' = [capsJids EXCEPT ![a] =
           [s \in CapsSpec |-> Relist(NoCaps, s, j, capsJids[a][s])]]
    /\ Take(a, j)
    /\ UNCHANGED <<capsSpecs, registry, seen, asked, client, presences, reconnects>>

\* updateCaps: no version.  The jid loses its capabilities; no signal is sent.
IllegalCaps(a, j) ==
    /\ inbox[a][j] # <<>>
    /\ Oldest(a, j).kind = "presence"
    /\ ~Legal(Oldest(a, j).caps)
    /\ capsSpecs' = [capsSpecs EXCEPT ![a][j] = NoCaps]
    /\ capsJids' = [capsJids EXCEPT ![a] =
           [s \in CapsSpec |-> Relist(NoCaps, s, j, capsJids[a][s])]]
    /\ Take(a, j)
    /\ UNCHANGED <<registry, seen, asked, client, presences, reconnects>>

\* Mutant: the version that was current when the query was sent.
SpecAskedFor(a, j, to) == to

\* getCapsSpecForNode: the specification an answer is recorded for has the
\* version that the jid broadcasts now.
getCapsSpecForNode(a, j, to) ==
    [node |-> to.node, ver |-> capsSpecs[a][j].ver, ext |-> to.ext]

\* Mutant: the signal is sent before the features are stored.
registerCapsLate(s, features) ==
    /\ registry' = [registry EXCEPT ![s] = features]
    /\ seen' = [b \in Account |-> [k \in Jid |->
           IF Lists(b, s, k) THEN FeaturesOf(Specs(capsSpecs[b][k]), registry)
                             ELSE seen[b][k]]]

\* CapsRegistry::registerCaps, and capsRegistered in the manager of every
\* account: the receivers of capsChanged read the features of listed jids.
registerCaps(s, features) ==
    /\ registry' = [registry EXCEPT ![s] = features]
    /\ seen' = [b \in Account |-> [k \in Jid |->
           IF Lists(b, s, k) THEN FeaturesOf(Specs(capsSpecs[b][k]), registry')
                             ELSE seen[b][k]]]

\* Mutant: isRegistered the wrong way round.
RecordableIfRegistered(a, j, m) ==
    /\ m.features # Unknown
    /\ capsEnabled(a, j)
    /\ capsSpecs[a][j].node = m.to.node
    /\ registry[getCapsSpecForNode(a, j, m.to)] # Unknown

\* What getDiscoInfo_success and registerCaps let pass: features, for a node
\* that the jid still has, of a specification that is not registered.
Recordable(a, j, m) ==
    /\ m.features # Unknown
    /\ capsEnabled(a, j)
    /\ capsSpecs[a][j].node = m.to.node
    /\ registry[getCapsSpecForNode(a, j, m.to)] = Unknown

getDiscoInfo_success(a, j) ==
    /\ inbox[a][j] # <<>>
    /\ Oldest(a, j).kind = "reply"
    /\ Recordable(a, j, Oldest(a, j))
    /\ registerCaps(getCapsSpecForNode(a, j, Oldest(a, j).to), Oldest(a, j).features)
    /\ Take(a, j)
    /\ UNCHANGED <<capsSpecs, capsJids, asked, client, presences, reconnects>>

\* getDiscoInfo_error, and the answers that are dropped
IgnoreReply(a, j) ==
    /\ inbox[a][j] # <<>>
    /\ Oldest(a, j).kind = "reply"
    /\ ~Recordable(a, j, Oldest(a, j))
    /\ Take(a, j)
    /\ UNCHANGED <<manager, asked, client, presences, reconnects>>

-----------------------------------------------------------------------------
(* The contacts' clients and the connections to the server.                *)

\* The client at j sends presence, possibly as another client than before;
\* the one that leaves (c = NoCaps) sends nothing the managers are told of.
SendPresence(j, c) ==
    /\ presences < MaxPresences
    /\ presences' = presences + 1
    /\ c = NoCaps => client[j] # NoCaps
    /\ client' = [client EXCEPT ![j] = c]
    /\ inbox' = IF c = NoCaps THEN inbox
                ELSE [a \in Account |-> [inbox[a] EXCEPT
                         ![j] = Append(@, [kind |-> "presence", caps |-> c])]]
    /\ UNCHANGED <<manager, asked, reconnects>>

\* What the client at j answers to a query for s: an error if it has no such
\* node or extension, or is not there any more.
Answer(j, s) ==
    LET own == {o \in Specs(client[j]) : o.node = s.node /\ o.ext = s.ext}
    IN  IF own = {} THEN Unknown ELSE CHOOSE o \in own : TRUE

SendAnswer(a, j, s) ==
    /\ asked[a][j][s] > 0
    /\ asked' = [asked EXCEPT ![a][j][s] = @ - 1]
    /\ inbox' = [inbox EXCEPT ![a][j] =
           Append(@, [kind |-> "reply", to |-> s, features |-> Answer(j, s)])]
    /\ UNCHANGED <<manager, client, presences, reconnects>>

\* The account's stream breaks: queries and stanzas are lost.  On the new one
\* the server tells the presence of all contacts that are there.
Reconnect(a) ==
    /\ reconnects < MaxReconnects
    /\ reconnects' = reconnects + 1
    /\ asked' = [asked EXCEPT ![a] = [j \in Jid |-> [s \in CapsSpec |-> 0]]]
    /\ inbox' = [inbox EXCEPT ![a] = [j \in Jid |->
           IF client[j] = NoCaps THEN <<>>
           ELSE <<[kind |-> "presence", caps |-> client[j]]>>]]
    /\ UNCHANGED <<manager, client, presences>>

updateCaps(a, j) == RepeatCaps(a, j) \/ ChangeCaps(a, j) \/ IllegalCaps(a, j)
discoFinished(a, j) == getDiscoInfo_success(a, j) \/ IgnoreReply(a, j)

Next ==
    \/ \E a \in Account, j \in Jid : updateCaps(a, j) \/ discoFinished(a, j)
    \/ \E j \in Jid, c \in Broadcast \cup {NoCaps} : SendPresence(j, c)
    \/ \E a \in Account, j \in Jid, s \in CapsSpec : SendAnswer(a, j, s)
    \/ \E a \in Account : Reconnect(a)

Spec == Init /\ [][Next]_vars

\* While stanzas or queries are on their way, some are handled or answered.
FairSpec ==
    /\ Spec
    /\ WF_vars(\E a \in Account, j \in Jid :
           updateCaps(a, j) \/ discoFinished(a, j) \/ \E s \in CapsSpec : SendAnswer(a, j, s))

-----------------------------------------------------------------------------
(* Properties.                                                             *)

\* capsJids_ is the inverse of capsSpecs_: a specification lists exactly the
\* jids whose capabilities contain it, whatever they were before.  It is what
\* tells capsRegistered whom a discovery concerns.
IndexMatches ==
    \A a \in Account, s \in CapsSpec, j \in Jid :
        Lists(a, s, j) <=> s \in Specs(capsSpecs[a][j])

\* Whoever listens to capsChanged and reads the features of a jid with
\* capabilities has the ones that are known now, also when it is another
\* account, or another jid, that found them out.
UpToDate ==
    \A a \in Account, j \in Jid :
        capsEnabled(a, j) => seen[a][j] = Features(a, j)

\* Features are registered for the kind of client that has them, although an
\* answer does not tell the version of the client that gave it and may be
\* overtaken by the jid's next client.
RegistryTruthful == \A s \in CapsSpec : registry[s] \in {Unknown, s}

\* Once its presence has arrived, a client that broadcasts legal capabilities
\* is known by them, over changes of client and new connections.
CapsFollowPresence ==
    \A a \in Account, j \in Jid :
        (client[j] # NoCaps /\ inbox[a][j] = <<>>)
            => capsSpecs[a][j] = IF Legal(client[j]) THEN client[j] ELSE NoCaps

\* Messages 1 to i of a queue q leave a jid that had capabilities old with c:
\* the last presence among them has c or, if there is none, old is c.
LeavesCaps(q, old, i, c) ==
    \/ \E k \in 1 .. i :
           /\ q[k].kind = "presence"
           /\ q[k].caps = c
           /\ \A l \in k + 1 .. i : q[l].kind = "reply"
    \/ /\ \A l \in 1 .. i : q[l].kind = "reply"
       /\ old = IF Legal(c) THEN c ELSE NoCaps

\* The manager will have the capabilities of the client that is there.
CapsArrive ==
    \A a \in Account, j \in Jid :
        client[j] # NoCaps =>
            LeavesCaps(inbox[a][j], capsSpecs[a][j], Len(inbox[a][j]), client[j])

\* By the time an answer with features is handled, the jid has the version of
\* the client that gave it: no stanza overtakes another.
InOrder(q, old) ==
    \A i \in DOMAIN q :
        (q[i].kind = "reply" /\ q[i].features # Unknown) =>
            /\ q[i].features.node = q[i].to.node
            /\ q[i].features.ext = q[i].to.ext
            /\ \E c \in Broadcast :
                   /\ q[i].features \in Specs(c)
                   /\ LeavesCaps(q, old, i - 1, c)
AnswersInOrder ==
    \A a \in Account, j \in Jid : InOrder(inbox[a][j], capsSpecs[a][j])

StoredLegal ==
    \A a \in Account, j \in Jid : capsEnabled(a, j) => Legal(capsSpecs[a][j])

\* The inductive invariant.
CapsInvariant ==
    /\ TypeOK
    /\ StoredLegal
    /\ IndexMatches
    /\ UpToDate
    /\ CapsArrive
    /\ AnswersInOrder
    /\ RegistryTruthful

\* A query that reaches a client of the kind it asks about has its answer
\* registered, unless the client changes first: on a connection that holds, as
\* all do after the last one is made again.
AskedIsLearnt ==
    \A a \in Enabled, j \in Jid : \A s \in UNION {Specs(c) : c \in Broadcast} :
        (asked[a][j][s] > 0 /\ s \in Specs(client[j]) /\ reconnects = MaxReconnects)
            ~> (registry[s] # Unknown \/ s \notin Specs(client[j]))

\* capsmanager.cpp, updateCaps: "If the features of the entity are unknown,
\* discovery requests are sent to retrieve the information."  Here: after it
\* has handled a presence, a query for each unknown specification is under
\* way to some client or its answer is in the inbox.
Pending(a, s) ==
    \E j \in Jid :
        \/ asked[a][j][s] > 0
        \/ \E i \in DOMAIN inbox[a][j] :
               inbox[a][j][i].kind = "reply" /\ inbox[a][j][i].to = s
UnknownAreAskedFor ==
    [][\A a \in Enabled, j \in Jid :
           updateCaps(a, j) =>
               \A s \in Specs(capsSpecs'[a][j]) :
                   registry[s] = Unknown => Pending(a, s)']_vars

\* capsmanager.h, capsChanged: "This signal is emitted when the feature list
\* of a given JID have changed."  Here: its receivers never hold features
\* other than the ones features() returns, of any jid.
ListenersAreTold ==
    \A a \in Account, j \in Jid : seen[a][j] = Features(a, j)

\* capsmanager.cpp, capsEnabled: "Checks whether a given JID is broadcasting
\* its entity capabilities."  Here: when all that a jid sent has been handled.
EnabledMeansBroadcasting ==
    \A a \in Account, j \in Jid :
        (inbox[a][j] = <<>> /\ capsEnabled(a, j)) => client[j] # NoCaps

=============================================================================
