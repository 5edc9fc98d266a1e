------------------------- MODULE CapsManager_proofs -------------------------
(***************************************************************************)
(* Proofs about CapsManager, for any accounts, clients and capabilities:   *)
(* CapsInvariant is inductive, and from it follow UpToDate,                *)
(* RegistryTruthful and CapsFollowPresence.                                *)
(*                                                                         *)
(* The argument for the registry: an answer stands in the queue behind the *)
(* presence of the client that gave it and before that of the next one     *)
(* (AnswersInOrder), so the version that getCapsSpecForNode reads when the *)
(* answer is handled is the version of the client that gave it, whatever   *)
(* version was current when the query was sent.                            *)
(***************************************************************************)
EXTENDS CapsManager, SequenceTheorems, TLAPS

Message == Presence \cup Reply

-----------------------------------------------------------------------------
(* Queues of stanzas.                                                      *)

\* What a presence stores.
Stored(c) == IF Legal(c) THEN c ELSE NoCaps

LEMMA LeavesTailReply ==
    ASSUME NEW q \in Seq(Message), q # <<>>, q[1].kind = "reply",
           NEW old, NEW c, NEW i \in 1 .. Len(q), LeavesCaps(q, old, i, c)
    PROVE  LeavesCaps(Tail(q), old, i - 1, c)
<1>1. \A k \in 1 .. i - 1 : Tail(q)[k] = q[k + 1]
    OBVIOUS
<1>2. CASE \E k \in 1 .. i :
              /\ q[k].kind = "presence"
              /\ q[k].caps = c
              /\ \A l \in k + 1 .. i : q[l].kind = "reply"
  <2>1. PICK k \in 1 .. i :
              /\ q[k].kind = "presence"
              /\ q[k].caps = c
              /\ \A l \in k + 1 .. i : q[l].kind = "reply"
      BY <1>2
  <2>2. k # 1 /\ k - 1 \in 1 .. i - 1
      BY <2>1
  <2>3. Tail(q)[k - 1] = q[k]
      BY <1>1, <2>2
  <2>4. \A l \in (k - 1) + 1 .. i - 1 : Tail(q)[l].kind = "reply"
      BY <1>1, <2>1
  <2>5. \E n \in 1 .. i - 1 :
            /\ Tail(q)[n].kind = "presence"
            /\ Tail(q)[n].caps = c
            /\ \A l \in n + 1 .. i - 1 : Tail(q)[l].kind = "reply"
      BY <2>1, <2>2, <2>3, <2>4
  <2>6. QED
      BY <2>5 DEF LeavesCaps
<1>3. CASE /\ \A l \in 1 .. i : q[l].kind = "reply"
           /\ old = Stored(c)
    BY <1>1, <1>3 DEF LeavesCaps, Stored
<1>4. QED
    BY <1>2, <1>3 DEF LeavesCaps, Stored

LEMMA LeavesTailPresence ==
    ASSUME NEW q \in Seq(Message), q # <<>>, q[1].kind = "presence",
           NEW old, NEW c, NEW i \in 1 .. Len(q), LeavesCaps(q, old, i, c)
    PROVE  LeavesCaps(Tail(q), Stored(q[1].caps), i - 1, c)
<1>1. \A k \in 1 .. i - 1 : Tail(q)[k] = q[k + 1]
    OBVIOUS
<1>2. PICK k \in 1 .. i :
          /\ q[k].kind = "presence"
          /\ q[k].caps = c
          /\ \A l \in k + 1 .. i : q[l].kind = "reply"
    BY DEF LeavesCaps
<1>3. \A l \in k .. i - 1 : Tail(q)[l].kind = "reply"
    BY <1>1, <1>2
<1>4. CASE k = 1
    BY <1>2, <1>3, <1>4 DEF LeavesCaps, Stored
<1>5. CASE k # 1
  <2>1. k - 1 \in 1 .. i - 1 /\ Tail(q)[k - 1] = q[k]
      BY <1>1, <1>5
  <2>2. QED
      BY <1>2, <1>3, <2>1 DEF LeavesCaps
<1>6. QED
    BY <1>4, <1>5

LEMMA LeavesAppend ==
    ASSUME NEW q \in Seq(Message), NEW m \in Message,
           NEW old, NEW c, NEW i \in 0 .. Len(q), LeavesCaps(q, old, i, c)
    PROVE  LeavesCaps(Append(q, m), old, i, c)
<1>1. \A k \in 1 .. i : Append(q, m)[k] = q[k]
    OBVIOUS
<1>2. QED
    BY <1>1 DEF LeavesCaps

LEMMA LeavesAppendReply ==
    ASSUME NEW q \in Seq(Message), NEW m \in Message, m.kind = "reply",
           NEW old, NEW c, LeavesCaps(q, old, Len(q), c)
    PROVE  LeavesCaps(Append(q, m), old, Len(q) + 1, c)
<1>1. \A k \in 1 .. Len(q) : Append(q, m)[k] = q[k]
    OBVIOUS
<1>2. Append(q, m)[Len(q) + 1] = m
    OBVIOUS
<1>3. QED
    BY <1>1, <1>2 DEF LeavesCaps

LEMMA LeavesAppendPresence ==
    ASSUME NEW q \in Seq(Message), NEW m \in Message, m.kind = "presence", NEW old
    PROVE  LeavesCaps(Append(q, m), old, Len(q) + 1, m.caps)
<1>1. Append(q, m)[Len(q) + 1] = m
    OBVIOUS
<1>2. QED
    BY <1>1 DEF LeavesCaps

LEMMA InOrderTailReply ==
    ASSUME NEW q \in Seq(Message), q # <<>>, q[1].kind = "reply",
           NEW old, InOrder(q, old)
    PROVE  InOrder(Tail(q), old)
<1> SUFFICES ASSUME NEW i \in DOMAIN Tail(q),
                    Tail(q)[i].kind = "reply", Tail(q)[i].features # Unknown
             PROVE  /\ Tail(q)[i].features.node = Tail(q)[i].to.node
                    /\ Tail(q)[i].features.ext = Tail(q)[i].to.ext
                    /\ \E c \in Broadcast :
                           /\ Tail(q)[i].features \in Specs(c)
                           /\ LeavesCaps(Tail(q), old, i - 1, c)
    BY DEF InOrder
<1>1. i \in 1 .. Len(q) - 1 /\ Tail(q)[i] = q[i + 1]
    OBVIOUS
<1>2. /\ q[i + 1].features.node = q[i + 1].to.node
      /\ q[i + 1].features.ext = q[i + 1].to.ext
      /\ \E c \in Broadcast :
             q[i + 1].features \in Specs(c) /\ LeavesCaps(q, old, i, c)
    BY <1>1 DEF InOrder
<1>3. \A c \in Broadcast : LeavesCaps(q, old, i, c) => LeavesCaps(Tail(q), old, i - 1, c)
    BY <1>1, LeavesTailReply
<1>4. QED
    BY <1>1, <1>2, <1>3

LEMMA InOrderTailPresence ==
    ASSUME NEW q \in Seq(Message), q # <<>>, q[1].kind = "presence",
           NEW old, InOrder(q, old)
    PROVE  InOrder(Tail(q), Stored(q[1].caps))
<1> DEFINE new == Stored(q[1].caps)
<1> SUFFICES ASSUME NEW i \in DOMAIN Tail(q),
                    Tail(q)[i].kind = "reply", Tail(q)[i].features # Unknown
             PROVE  /\ Tail(q)[i].features.node = Tail(q)[i].to.node
                    /\ Tail(q)[i].features.ext = Tail(q)[i].to.ext
                    /\ \E c \in Broadcast :
                           /\ Tail(q)[i].features \in Specs(c)
                           /\ LeavesCaps(Tail(q), new, i - 1, c)
    BY DEF InOrder
<1>1. i \in 1 .. Len(q) - 1 /\ Tail(q)[i] = q[i + 1]
    OBVIOUS
<1>2. /\ q[i + 1].features.node = q[i + 1].to.node
      /\ q[i + 1].features.ext = q[i + 1].to.ext
      /\ \E c \in Broadcast :
             q[i + 1].features \in Specs(c) /\ LeavesCaps(q, old, i, c)
    BY <1>1 DEF InOrder
<1>3. \A c \in Broadcast : LeavesCaps(q, old, i, c) => LeavesCaps(Tail(q), new, i - 1, c)
    BY <1>1, LeavesTailPresence
<1>4. QED
    BY <1>1, <1>2, <1>3

\* A message may be appended that, if it is an answer with features, is that
\* of the client whose presence was the last.
LEMMA InOrderAppend ==
    ASSUME NEW q \in Seq(Message), NEW m \in Message, NEW old, InOrder(q, old),
           (m.kind = "reply" /\ m.features # Unknown) =>
               /\ m.features.node = m.to.node
               /\ m.features.ext = m.to.ext
               /\ \E c \in Broadcast :
                      m.features \in Specs(c) /\ LeavesCaps(q, old, Len(q), c)
    PROVE  InOrder(Append(q, m), old)
<1> DEFINE r == Append(q, m)
<1> SUFFICES ASSUME NEW i \in DOMAIN r, r[i].kind = "reply", r[i].features # Unknown
             PROVE  /\ r[i].features.node = r[i].to.node
                    /\ r[i].features.ext = r[i].to.ext
                    /\ \E c \in Broadcast :
                           /\ r[i].features \in Specs(c)
                           /\ LeavesCaps(r, old, i - 1, c)
    BY DEF InOrder
<1>1. i \in 1 .. Len(q) + 1 /\ i - 1 \in 0 .. Len(q)
    OBVIOUS
<1>2. \A c \in Broadcast : LeavesCaps(q, old, i - 1, c) => LeavesCaps(r, old, i - 1, c)
    BY <1>1, LeavesAppend
<1>3. CASE i = Len(q) + 1
  <2>1. r[i] = m /\ i - 1 = Len(q)
      BY <1>3
  <2>2. QED
      BY <1>2, <2>1
<1>4. CASE i \in 1 .. Len(q)
  <2>1. r[i] = q[i]
      BY <1>4
  <2>2. QED
      BY <1>2, <1>4, <2>1 DEF InOrder
<1>5. QED
    BY <1>1, <1>3, <1>4

-----------------------------------------------------------------------------
(* Specifications of capabilities.                                         *)

LEMMA SpecsType ==
    ASSUME NEW c \in Broadcast \cup {NoCaps}
    PROVE  Specs(c) \subseteq CapsSpec
BY BroadcastAssumption, NoCapsAssumption
   DEF Specs, Flatten, Legal, Caps, CapsSpec

\* Every simple specification of some capabilities has their node and version.
LEMMA SpecsOf ==
    ASSUME NEW c \in Broadcast, NEW s \in Specs(c)
    PROVE  Legal(c) /\ s.node = c.node /\ s.ver = c.ver
BY BroadcastAssumption, NoCapsAssumption DEF Specs, Flatten, Legal, Caps

LEMMA FeaturesType ==
    ASSUME TypeOK, NEW c \in Broadcast \cup {NoCaps}
    PROVE  FeaturesOf(Specs(c), registry) \subseteq CapsSpec
BY SpecsType, UnknownAssumption DEF FeaturesOf, TypeOK, Feature

LEMMA AnswerType ==
    ASSUME TypeOK, NEW j \in Jid, NEW s \in CapsSpec
    PROVE  /\ Answer(j, s) \in Feature
           /\ Answer(j, s) # Unknown =>
                  /\ Answer(j, s) \in Specs(client[j])
                  /\ client[j] # NoCaps
                  /\ Answer(j, s).node = s.node
                  /\ Answer(j, s).ext = s.ext
<1> DEFINE own == {o \in Specs(client[j]) : o.node = s.node /\ o.ext = s.ext}
<1>1. Specs(client[j]) \subseteq CapsSpec
    BY SpecsType DEF TypeOK
<1>2. CASE own = {}
    BY <1>2 DEF Answer, Feature
<1>3. CASE own # {}
  <2>1. (CHOOSE o \in own : TRUE) \in own
      BY <1>3
  <2>2. Answer(j, s) = CHOOSE o \in own : TRUE
      BY <1>3 DEF Answer
  <2>3. Specs(NoCaps) = {}
      BY DEF Specs
  <2>4. QED
      BY <1>1, <2>1, <2>2, <2>3 DEF Feature
<1>4. QED
    BY <1>2, <1>3

-----------------------------------------------------------------------------
(* Queues when the manager of a handles the oldest stanza from j.          *)

\* What the inductive invariant says of one queue.
Ordered(q, old, c) ==
    /\ q \in Seq(Message)
    /\ InOrder(q, old)
    /\ c # NoCaps => LeavesCaps(q, old, Len(q), c)

LEMMA OrderedTailReply ==
    ASSUME NEW q, q # <<>>, NEW old, NEW c, Ordered(q, old, c), q[1].kind = "reply"
    PROVE  Ordered(Tail(q), old, c)
<1>1. q \in Seq(Message) /\ Tail(q) \in Seq(Message) /\ Len(Tail(q)) = Len(q) - 1
    BY DEF Ordered
<1>2. InOrder(Tail(q), old)
    BY <1>1, InOrderTailReply DEF Ordered
<1>3. Len(q) \in 1 .. Len(q)
    BY <1>1
<1>4. c # NoCaps => LeavesCaps(Tail(q), old, Len(q) - 1, c)
    BY <1>1, <1>3, LeavesTailReply DEF Ordered
<1>5. QED
    BY <1>1, <1>2, <1>4 DEF Ordered

LEMMA OrderedTailPresence ==
    ASSUME NEW q, q # <<>>, NEW old, NEW c, Ordered(q, old, c), q[1].kind = "presence"
    PROVE  Ordered(Tail(q), Stored(q[1].caps), c)
<1>1. q \in Seq(Message) /\ Tail(q) \in Seq(Message) /\ Len(Tail(q)) = Len(q) - 1
    BY DEF Ordered
<1>2. InOrder(Tail(q), Stored(q[1].caps))
    BY <1>1, InOrderTailPresence DEF Ordered
<1>3. Len(q) \in 1 .. Len(q)
    BY <1>1
<1>4. c # NoCaps => LeavesCaps(Tail(q), Stored(q[1].caps), Len(q) - 1, c)
    BY <1>1, <1>3, LeavesTailPresence DEF Ordered
<1>5. QED
    BY <1>1, <1>2, <1>4 DEF Ordered

LEMMA OrderedAppendPresence ==
    ASSUME NEW q, NEW old, NEW c, Ordered(q, old, c), NEW m \in Presence
    PROVE  Ordered(Append(q, m), old, m.caps)
<1>1. q \in Seq(Message) /\ m \in Message /\ m.kind = "presence"
    BY DEF Ordered, Message, Presence
<1>2. Append(q, m) \in Seq(Message) /\ Len(Append(q, m)) = Len(q) + 1
    BY <1>1
<1>3. InOrder(Append(q, m), old)
    BY <1>1, InOrderAppend DEF Ordered
<1>4. LeavesCaps(Append(q, m), old, Len(q) + 1, m.caps)
    BY <1>1, LeavesAppendPresence
<1>5. QED
    BY <1>2, <1>3, <1>4 DEF Ordered

LEMMA OrderedAppendReply ==
    ASSUME NEW q, NEW old, NEW c \in Broadcast \cup {NoCaps}, Ordered(q, old, c),
           NEW m \in Reply,
           m.features # Unknown => /\ m.features \in Specs(c)
                                   /\ c # NoCaps
                                   /\ m.features.node = m.to.node
                                   /\ m.features.ext = m.to.ext
    PROVE  Ordered(Append(q, m), old, c)
<1>1. q \in Seq(Message) /\ m \in Message /\ m.kind = "reply"
    BY DEF Ordered, Message, Reply
<1>2. Append(q, m) \in Seq(Message) /\ Len(Append(q, m)) = Len(q) + 1
    BY <1>1
<1>3. InOrder(Append(q, m), old)
    BY <1>1, InOrderAppend DEF Ordered
<1>4. c # NoCaps => LeavesCaps(Append(q, m), old, Len(q) + 1, c)
    BY <1>1, LeavesAppendReply DEF Ordered
<1>5. QED
    BY <1>2, <1>3, <1>4 DEF Ordered

QueuesOrdered ==
    \A a \in Account, j \in Jid : Ordered(inbox[a][j], capsSpecs[a][j], client[j])

LEMMA QueuesOrderedMeans ==
    ASSUME TypeOK
    PROVE  QueuesOrdered <=> (CapsArrive /\ AnswersInOrder)
BY DEF TypeOK, QueuesOrdered, Ordered, CapsArrive, AnswersInOrder, Message

-----------------------------------------------------------------------------
(* The invariant holds initially.                                          *)

THEOREM InitInvariant == Init => CapsInvariant
<1> SUFFICES ASSUME Init PROVE CapsInvariant
    OBVIOUS
<1>1. TypeOK
    BY BoundsAssumption DEF Init, TypeOK, Feature
<1>2. Specs(NoCaps) = {} /\ FeaturesOf({}, registry) = {}
    BY DEF Specs, FeaturesOf
<1>3. StoredLegal /\ IndexMatches /\ UpToDate
    BY <1>2 DEF Init, StoredLegal, IndexMatches, UpToDate, Features, capsEnabled, Lists
<1>4. CapsArrive /\ AnswersInOrder
    BY DEF Init, CapsArrive, AnswersInOrder, InOrder
<1>5. RegistryTruthful
    BY DEF Init, RegistryTruthful
<1>6. QED
    BY <1>1, <1>3, <1>4, <1>5 DEF CapsInvariant

-----------------------------------------------------------------------------
(* One manager handles a stanza.                                           *)

\* The facts about the stanza at the head of a queue.
LEMMA OldestIs ==
    ASSUME TypeOK, NEW a \in Account, NEW j \in Jid, inbox[a][j] # <<>>
    PROVE  /\ Oldest(a, j) = inbox[a][j][1]
           /\ Oldest(a, j) \in Message
           /\ Oldest(a, j).kind = "presence" => Oldest(a, j).caps \in Broadcast
           /\ Oldest(a, j).kind = "reply" =>
                  Oldest(a, j).to \in CapsSpec /\ Oldest(a, j).features \in Feature
<1>1. inbox[a][j] \in Seq(Message)
    BY DEF TypeOK, Message
<1>2. Oldest(a, j) = inbox[a][j][1] /\ Oldest(a, j) \in Message
    BY <1>1 DEF Oldest
<1>3. QED
    BY <1>2 DEF Message, Presence, Reply

LEMMA TakeType ==
    ASSUME TypeOK, NEW a \in Account, NEW j \in Jid, inbox[a][j] # <<>>, Take(a, j)
    PROVE  inbox' \in [Account -> [Jid -> Seq(Presence \cup Reply)]]
<1>1. Tail(inbox[a][j]) \in Seq(Presence \cup Reply)
    BY DEF TypeOK
<1>2. QED
    BY <1>1 DEF TypeOK, Take

\* Taking an answer off a queue.
LEMMA TakeReply ==
    ASSUME TypeOK, QueuesOrdered, NEW a \in Account, NEW j \in Jid,
           inbox[a][j] # <<>>, Oldest(a, j).kind = "reply", Take(a, j),
           UNCHANGED <<capsSpecs, client>>
    PROVE  QueuesOrdered'
<1> SUFFICES ASSUME NEW b \in Account, NEW k \in Jid
             PROVE  Ordered(inbox'[b][k], capsSpecs[b][k], client[k])
    BY DEF QueuesOrdered
<1>1. CASE b = a /\ k = j
  <2>1. inbox'[b][k] = Tail(inbox[a][j])
      BY <1>1 DEF Take, TypeOK
  <2>2. Ordered(Tail(inbox[a][j]), capsSpecs[a][j], client[j])
      BY OldestIs, OrderedTailReply DEF QueuesOrdered
  <2>3. QED
      BY <1>1, <2>1, <2>2
<1>2. CASE ~(b = a /\ k = j)
  <2>1. inbox'[b][k] = inbox[b][k]
      BY <1>2 DEF Take, TypeOK
  <2>2. QED
      BY <2>1 DEF QueuesOrdered
<1>3. QED
    BY <1>1, <1>2

\* Taking a presence off a queue and storing its capabilities.
LEMMA TakePresence ==
    ASSUME TypeOK, QueuesOrdered, NEW a \in Account, NEW j \in Jid,
           inbox[a][j] # <<>>, Oldest(a, j).kind = "presence", Take(a, j),
           capsSpecs' = [capsSpecs EXCEPT ![a][j] = Stored(Oldest(a, j).caps)],
           UNCHANGED client
    PROVE  QueuesOrdered'
<1> SUFFICES ASSUME NEW b \in Account, NEW k \in Jid
             PROVE  Ordered(inbox'[b][k], capsSpecs'[b][k], client[k])
    BY DEF QueuesOrdered
<1>1. CASE b = a /\ k = j
  <2>1. inbox'[b][k] = Tail(inbox[a][j])
      BY <1>1 DEF Take, TypeOK
  <2>2. capsSpecs'[b][k] = Stored(Oldest(a, j).caps)
      BY <1>1 DEF TypeOK
  <2>3. Ordered(Tail(inbox[a][j]), Stored(Oldest(a, j).caps), client[j])
      BY OldestIs, OrderedTailPresence DEF QueuesOrdered
  <2>4. QED
      BY <1>1, <2>1, <2>2, <2>3
<1>2. CASE ~(b = a /\ k = j)
  <2>1. inbox'[b][k] = inbox[b][k] /\ capsSpecs'[b][k] = capsSpecs[b][k]
      BY <1>2 DEF Take, TypeOK
  <2>2. QED
      BY <2>1 DEF QueuesOrdered
<1>3. QED
    BY <1>1, <1>2

LEMMA RepeatCapsStep ==
    ASSUME CapsInvariant, QueuesOrdered, NEW a \in Account, NEW j \in Jid, RepeatCaps(a, j)
    PROVE  CapsInvariant'
<1> USE DEF CapsInvariant
<1> DEFINE c == capsSpecs[a][j]
<1>1. c \in Broadcast /\ Legal(c)
    BY OldestIs, BroadcastAssumption, NoCapsAssumption DEF RepeatCaps, StoredLegal, capsEnabled
<1> DEFINE more == [s \in CapsSpec |->
               IF s \in Specs(c) THEN [capsJids[a][s] EXCEPT ![j] = @ + 1] ELSE capsJids[a][s]]
<1>a. capsJids' = [capsJids EXCEPT ![a] = more]
    BY DEF RepeatCaps
<1>b. more \in [CapsSpec -> [Jid -> Nat]]
  <2>1. \A s \in CapsSpec : [capsJids[a][s] EXCEPT ![j] = @ + 1] \in [Jid -> Nat]
      BY DEF TypeOK
  <2>2. QED
      BY <2>1 DEF TypeOK
<1>c. ASSUME NEW s \in CapsSpec, NEW k \in Jid
      PROVE  more[s][k] = IF k = j /\ s \in Specs(c) THEN capsJids[a][s][k] + 1
                                                     ELSE capsJids[a][s][k]
    BY DEF TypeOK
<1> HIDE DEF more
<1>2. capsJids' \in [Account -> [CapsSpec -> [Jid -> Nat]]]
    BY <1>a, <1>b DEF TypeOK
<1>3. TypeOK'
    BY <1>2, TakeType DEF RepeatCaps, TypeOK
<1>4. StoredLegal'
    BY DEF RepeatCaps, StoredLegal, capsEnabled
<1>5. IndexMatches'
  <2> SUFFICES ASSUME NEW b \in Account, NEW s \in CapsSpec, NEW k \in Jid
               PROVE  capsJids'[b][s][k] > 0 <=> s \in Specs(capsSpecs[b][k])
      BY DEF IndexMatches, Lists, RepeatCaps
  <2>1. capsJids[b][s][k] > 0 <=> s \in Specs(capsSpecs[b][k])
      BY DEF IndexMatches, Lists
  <2>2. CASE b = a
    <3>1. capsJids'[b][s][k] = more[s][k]
        BY <1>a, <2>2 DEF TypeOK
    <3>2. capsJids[a][s][k] \in Nat
        BY DEF TypeOK
    <3>3. k = j /\ s \in Specs(c) => s \in Specs(capsSpecs[b][k])
        BY <2>2
    <3>4. QED
        BY <1>c, <2>1, <2>2, <3>1, <3>2, <3>3
  <2>3. CASE b # a
    <3>1. capsJids'[b] = capsJids[b]
        BY <1>a, <2>3 DEF TypeOK
    <3>2. QED
        BY <2>1, <3>1
  <2>4. QED
      BY <2>2, <2>3
<1>6. UpToDate'
    BY DEF RepeatCaps, UpToDate, Features, capsEnabled
<1>7. QueuesOrdered'
  <2>1. Stored(Oldest(a, j).caps) = c
      BY <1>1 DEF RepeatCaps, Stored
  <2>2. capsSpecs' = [capsSpecs EXCEPT ![a][j] = Stored(Oldest(a, j).caps)]
      BY <2>1 DEF RepeatCaps, TypeOK
  <2>3. QED
      BY <2>2, TakePresence DEF RepeatCaps
<1>8. RegistryTruthful'
    BY DEF RepeatCaps, RegistryTruthful
<1>9. (CapsArrive /\ AnswersInOrder)'
    BY <1>3, <1>7, QueuesOrderedMeans, PTL
<1>10. QED
    BY <1>3, <1>4, <1>5, <1>6, <1>8, <1>9

\* What the presence of other capabilities does to the list of jids: common
\* to the legal and the illegal ones.
LEMMA RelistStep ==
    ASSUME TypeOK, IndexMatches, NEW a \in Account, NEW j \in Jid,
           NEW c \in Broadcast \cup {NoCaps}, c = NoCaps \/ Legal(c),
           capsSpecs' = [capsSpecs EXCEPT ![a][j] = c],
           capsJids' = [capsJids EXCEPT ![a] =
               [s \in CapsSpec |-> Relist(c, s, j, capsJids[a][s])]]
    PROVE  /\ capsSpecs' \in [Account -> [Jid -> Broadcast \cup {NoCaps}]]
           /\ capsJids' \in [Account -> [CapsSpec -> [Jid -> Nat]]]
           /\ IndexMatches'
<1> DEFINE relisted == [s \in CapsSpec |-> Relist(c, s, j, capsJids[a][s])]
<1>1. relisted \in [CapsSpec -> [Jid -> Nat]]
    BY DEF TypeOK, Relist
<1>2. ASSUME NEW s \in CapsSpec, NEW k \in Jid
      PROVE  relisted[s][k] = IF k = j THEN IF s \in Specs(c) THEN 1 ELSE 0
                                       ELSE capsJids[a][s][k]
    BY DEF TypeOK, Relist
<1>3. capsJids' = [capsJids EXCEPT ![a] = relisted]
    OBVIOUS
<1> HIDE DEF relisted
<1>4. capsJids' \in [Account -> [CapsSpec -> [Jid -> Nat]]]
    BY <1>1, <1>3 DEF TypeOK
<1>5. capsSpecs' \in [Account -> [Jid -> Broadcast \cup {NoCaps}]]
    BY DEF TypeOK
<1>6. IndexMatches'
  <2> SUFFICES ASSUME NEW b \in Account, NEW s \in CapsSpec, NEW k \in Jid
               PROVE  capsJids'[b][s][k] > 0 <=> s \in Specs(capsSpecs'[b][k])
      BY DEF IndexMatches, Lists
  <2>1. capsJids[b][s][k] > 0 <=> s \in Specs(capsSpecs[b][k])
      BY DEF IndexMatches, Lists
  <2>2. CASE b = a
    <3>1. capsJids'[b][s][k] = relisted[s][k]
        BY <1>3, <2>2 DEF TypeOK
    <3>2. capsSpecs'[b][k] = IF k = j THEN c ELSE capsSpecs[b][k]
        BY <2>2 DEF TypeOK
    <3>3. QED
        BY <1>2, <2>1, <2>2, <3>1, <3>2
  <2>3. CASE b # a
    <3>1. capsJids'[b] = capsJids[b]
        BY <1>3, <2>3 DEF TypeOK
    <3>2. capsSpecs'[b] = capsSpecs[b]
        BY <2>3 DEF TypeOK
    <3>3. QED
        BY <2>1, <3>1, <3>2
  <2>4. QED
      BY <2>2, <2>3
<1>7. QED
    BY <1>4, <1>5, <1>6

LEMMA ChangeCapsStep ==
    ASSUME CapsInvariant, QueuesOrdered, NEW a \in Account, NEW j \in Jid, ChangeCaps(a, j)
    PROVE  CapsInvariant'
<1> USE DEF CapsInvariant
<1> DEFINE c == Oldest(a, j).caps
           relisted == [s \in CapsSpec |-> Relist(c, s, j, capsJids[a][s])]
           Query(s) == /\ a \in Enabled
                       /\ s \in Specs(c)
                       /\ registry[s] = Unknown
                       /\ OnlyOne(relisted[s], j)
           more == [s \in CapsSpec |->
                       IF Query(s) THEN asked[a][j][s] + 1 ELSE asked[a][j][s]]
           features == FeaturesOf(Specs(c), registry)
<1>1. c \in Broadcast /\ Legal(c)
    BY OldestIs DEF ChangeCaps
<1>2. /\ capsSpecs' = [capsSpecs EXCEPT ![a][j] = c]
      /\ capsJids' = [capsJids EXCEPT ![a] = relisted]
      /\ seen' = [seen EXCEPT ![a][j] = features]
      /\ asked' = [asked EXCEPT ![a][j] = more]
      /\ UNCHANGED <<registry, client, presences, reconnects>>
      /\ Take(a, j)
    BY DEF ChangeCaps
<1>3. /\ capsSpecs' \in [Account -> [Jid -> Broadcast \cup {NoCaps}]]
      /\ capsJids' \in [Account -> [CapsSpec -> [Jid -> Nat]]]
      /\ IndexMatches'
    BY <1>1, <1>2, RelistStep
<1>4. more \in [CapsSpec -> Nat]
    BY DEF TypeOK
<1>5. features \subseteq CapsSpec
    BY <1>1, FeaturesType
<1>6. TypeOK'
  <2>1. asked' \in [Account -> [Jid -> [CapsSpec -> Nat]]]
    <3> HIDE DEF more
    <3> QED
        BY <1>2, <1>4 DEF TypeOK
  <2>2. seen' \in [Account -> [Jid -> SUBSET CapsSpec]]
    <3> HIDE DEF features
    <3> QED
        BY <1>2, <1>5 DEF TypeOK
  <2>3. inbox' \in [Account -> [Jid -> Seq(Presence \cup Reply)]]
      BY <1>2, TakeType DEF ChangeCaps
  <2>4. QED
      BY <1>2, <1>3, <2>1, <2>2, <2>3 DEF TypeOK
<1>7. StoredLegal'
  <2> HIDE DEF c
  <2> QED
      BY <1>1, <1>2 DEF StoredLegal, capsEnabled, TypeOK
<1>8. UpToDate'
  <2> SUFFICES ASSUME NEW b \in Account, NEW k \in Jid, capsSpecs'[b][k] # NoCaps
               PROVE  seen'[b][k] = FeaturesOf(Specs(capsSpecs'[b][k]), registry)
      BY <1>2 DEF UpToDate, Features, capsEnabled
  <2>1. CASE b = a /\ k = j
    <3>1. seen'[b][k] = features
      <4> HIDE DEF features
      <4> QED
          BY <1>2, <2>1 DEF TypeOK
    <3>2. capsSpecs'[b][k] = c
        BY <1>2, <2>1 DEF TypeOK
    <3>3. QED
        BY <3>1, <3>2
  <2>2. CASE ~(b = a /\ k = j)
    <3>1. seen'[b][k] = seen[b][k]
      <4> HIDE DEF features
      <4> QED
          BY <1>2, <2>2 DEF TypeOK
    <3>2. capsSpecs'[b][k] = capsSpecs[b][k]
        BY <1>2, <2>2 DEF TypeOK
    <3>3. QED
        BY <3>1, <3>2 DEF UpToDate, Features, capsEnabled
  <2>3. QED
      BY <2>1, <2>2
<1>9. QueuesOrdered'
  <2>1. Stored(Oldest(a, j).caps) = c
      BY <1>1 DEF Stored
  <2>2. QED
      BY <1>2, <2>1, TakePresence DEF ChangeCaps
<1>10. RegistryTruthful'
    BY <1>2 DEF RegistryTruthful
<1>11. (CapsArrive /\ AnswersInOrder)'
    BY <1>6, <1>9, QueuesOrderedMeans, PTL
<1>12. QED
    BY <1>3, <1>6, <1>7, <1>8, <1>10, <1>11

LEMMA IllegalCapsStep ==
    ASSUME CapsInvariant, QueuesOrdered, NEW a \in Account, NEW j \in Jid, IllegalCaps(a, j)
    PROVE  CapsInvariant'
<1> USE DEF CapsInvariant
<1>1. /\ capsSpecs' \in [Account -> [Jid -> Broadcast \cup {NoCaps}]]
      /\ capsJids' \in [Account -> [CapsSpec -> [Jid -> Nat]]]
      /\ IndexMatches'
    BY RelistStep DEF IllegalCaps
<1>2. TypeOK'
    BY <1>1, TakeType DEF IllegalCaps, TypeOK
<1>3. \A b \in Account, k \in Jid :
          capsSpecs'[b][k] = IF b = a /\ k = j THEN NoCaps ELSE capsSpecs[b][k]
    BY DEF IllegalCaps, TypeOK
<1>4. StoredLegal'
    BY <1>3 DEF StoredLegal, capsEnabled
<1>5. UpToDate'
    BY <1>3 DEF IllegalCaps, UpToDate, Features, capsEnabled
<1>6. QueuesOrdered'
  <2>1. Stored(Oldest(a, j).caps) = NoCaps
      BY DEF IllegalCaps, Stored
  <2>2. QED
      BY <2>1, TakePresence DEF IllegalCaps
<1>7. RegistryTruthful'
    BY DEF IllegalCaps, RegistryTruthful
<1>8. (CapsArrive /\ AnswersInOrder)'
    BY <1>2, <1>6, QueuesOrderedMeans, PTL
<1>9. QED
    BY <1>1, <1>2, <1>4, <1>5, <1>7, <1>8

LEMMA SuccessStep ==
    ASSUME CapsInvariant, QueuesOrdered, NEW a \in Account, NEW j \in Jid,
           getDiscoInfo_success(a, j)
    PROVE  CapsInvariant'
<1> USE DEF CapsInvariant
<1> DEFINE m == Oldest(a, j)
           s == getCapsSpecForNode(a, j, m.to)
<1>1. /\ m = inbox[a][j][1]
      /\ m.kind = "reply"
      /\ m.to \in CapsSpec
      /\ m.features \in CapsSpec
      /\ capsSpecs[a][j] # NoCaps
      /\ capsSpecs[a][j].node = m.to.node
    BY OldestIs DEF getDiscoInfo_success, Recordable, capsEnabled, Feature
\* The answer is that of the client whose capabilities are stored.
<1>2. PICK c \in Broadcast :
          /\ m.features.node = m.to.node
          /\ m.features.ext = m.to.ext
          /\ m.features \in Specs(c)
          /\ LeavesCaps(inbox[a][j], capsSpecs[a][j], 0, c)
  <2>1. 1 \in DOMAIN inbox[a][j]
      BY DEF getDiscoInfo_success, TypeOK
  <2>2. m.features # Unknown
      BY DEF getDiscoInfo_success, Recordable
  <2>3. QED
      BY <1>1, <2>1, <2>2 DEF AnswersInOrder, InOrder
<1>3. Legal(c) /\ m.features.ver = c.ver
    BY <1>2, SpecsOf
<1>4. capsSpecs[a][j] = c
    BY <1>2, <1>3 DEF LeavesCaps
<1>5. s = m.features
  <2>1. s = [node |-> m.features.node, ver |-> m.features.ver, ext |-> m.features.ext]
      BY <1>2, <1>3, <1>4 DEF getCapsSpecForNode
  <2>2. QED
      BY <1>1, <2>1 DEF CapsSpec
<1>6. s \in CapsSpec
    BY <1>1, <1>5
<1>7. registry' = [registry EXCEPT ![s] = s]
    BY <1>5 DEF getDiscoInfo_success, registerCaps
<1>8. /\ UNCHANGED <<capsSpecs, capsJids, asked, client, presences, reconnects>>
      /\ Take(a, j)
      /\ seen' = [b \in Account |-> [k \in Jid |->
             IF Lists(b, s, k) THEN FeaturesOf(Specs(capsSpecs[b][k]), registry')
                               ELSE seen[b][k]]]
    BY DEF getDiscoInfo_success, registerCaps
<1> HIDE DEF s
<1>9. registry' \in [CapsSpec -> Feature]
    BY <1>6, <1>7 DEF TypeOK, Feature
<1>10. \A b \in Account, k \in Jid : FeaturesOf(Specs(capsSpecs[b][k]), registry') \subseteq CapsSpec
  <2> TAKE b \in Account, k \in Jid
  <2>1. capsSpecs[b][k] \in Broadcast \cup {NoCaps}
      BY DEF TypeOK
  <2>2. Specs(capsSpecs[b][k]) \subseteq CapsSpec
      BY <2>1, SpecsType
  <2>3. QED
      BY <1>9, <2>2 DEF FeaturesOf, Feature
<1>11. TypeOK'
  <2>1. seen' \in [Account -> [Jid -> SUBSET CapsSpec]]
      BY <1>8, <1>10 DEF TypeOK
  <2>2. inbox' \in [Account -> [Jid -> Seq(Presence \cup Reply)]]
      BY <1>8, TakeType DEF getDiscoInfo_success
  <2>3. QED
      BY <1>8, <1>9, <2>1, <2>2 DEF TypeOK
<1>12. (StoredLegal /\ IndexMatches)'
    BY <1>8 DEF StoredLegal, IndexMatches, capsEnabled, Lists
<1>13. UpToDate'
  <2> SUFFICES ASSUME NEW b \in Account, NEW k \in Jid, capsSpecs[b][k] # NoCaps
               PROVE  seen'[b][k] = FeaturesOf(Specs(capsSpecs[b][k]), registry')
      BY <1>8 DEF UpToDate, Features, capsEnabled
  <2>1. CASE Lists(b, s, k)
      BY <1>8, <2>1
  <2>2. CASE ~Lists(b, s, k)
    <3>1. s \notin Specs(capsSpecs[b][k])
        BY <1>6, <2>2 DEF IndexMatches
    <3>2. Specs(capsSpecs[b][k]) \subseteq CapsSpec
        BY SpecsType DEF TypeOK
    <3>3. \A o \in Specs(capsSpecs[b][k]) : registry'[o] = registry[o]
        BY <1>7, <3>1, <3>2 DEF TypeOK
    <3>4. FeaturesOf(Specs(capsSpecs[b][k]), registry')
              = FeaturesOf(Specs(capsSpecs[b][k]), registry)
        BY <3>3 DEF FeaturesOf
    <3>5. QED
        BY <1>8, <2>2, <3>4 DEF UpToDate, Features, capsEnabled
  <2>3. QED
      BY <2>1, <2>2
<1>14. QueuesOrdered'
    BY <1>1, <1>8, TakeReply DEF getDiscoInfo_success
<1>15. RegistryTruthful'
    BY <1>6, <1>7 DEF RegistryTruthful, TypeOK
<1>16. (CapsArrive /\ AnswersInOrder)'
    BY <1>11, <1>14, QueuesOrderedMeans, PTL
<1>17. QED
    BY <1>11, <1>12, <1>13, <1>15, <1>16

LEMMA IgnoreReplyStep ==
    ASSUME CapsInvariant, QueuesOrdered, NEW a \in Account, NEW j \in Jid, IgnoreReply(a, j)
    PROVE  CapsInvariant'
<1> USE DEF CapsInvariant
<1>1. TypeOK'
    BY TakeType DEF IgnoreReply, manager, TypeOK
<1>2. (StoredLegal /\ IndexMatches /\ UpToDate /\ RegistryTruthful)'
    BY DEF IgnoreReply, manager, StoredLegal, IndexMatches, UpToDate, RegistryTruthful,
           Features, capsEnabled, Lists
<1>3. QueuesOrdered'
    BY TakeReply DEF IgnoreReply, manager
<1>4. (CapsArrive /\ AnswersInOrder)'
    BY <1>1, <1>3, QueuesOrderedMeans, PTL
<1>5. QED
    BY <1>1, <1>2, <1>4

-----------------------------------------------------------------------------
(* The contacts' clients and the connections.                              *)

LEMMA SendPresenceStep ==
    ASSUME CapsInvariant, QueuesOrdered, NEW j \in Jid, NEW c \in Broadcast \cup {NoCaps},
           SendPresence(j, c)
    PROVE  CapsInvariant'
<1> USE DEF CapsInvariant
<1> DEFINE m == [kind |-> "presence", caps |-> c]
<1>1. c # NoCaps => m \in Presence
    BY DEF Presence
<1>2. ASSUME NEW a \in Account, NEW k \in Jid
      PROVE  inbox'[a][k] = IF k = j /\ c # NoCaps THEN Append(inbox[a][k], m) ELSE inbox[a][k]
    BY DEF SendPresence, TypeOK
<1>3. client' = [client EXCEPT ![j] = c]
    BY DEF SendPresence
<1>4. QueuesOrdered'
  <2> SUFFICES ASSUME NEW a \in Account, NEW k \in Jid
               PROVE  Ordered(inbox'[a][k], capsSpecs[a][k], client'[k])
      BY DEF QueuesOrdered, SendPresence, manager
  <2>1. Ordered(inbox[a][k], capsSpecs[a][k], client[k])
      BY DEF QueuesOrdered
  <2>2. CASE k = j /\ c # NoCaps
    <3>1. Ordered(Append(inbox[a][k], m), capsSpecs[a][k], m.caps)
        BY <1>1, <2>1, <2>2, OrderedAppendPresence
    <3>2. client'[k] = m.caps
        BY <1>3, <2>2 DEF TypeOK
    <3>3. QED
        BY <1>2, <2>2, <3>1, <3>2
  <2>3. CASE k = j /\ c = NoCaps
    <3>1. client'[k] = NoCaps
        BY <1>3, <2>3 DEF TypeOK
    <3>2. QED
        BY <1>2, <2>1, <2>3, <3>1 DEF Ordered
  <2>4. CASE k # j
    <3>1. client'[k] = client[k]
        BY <1>3, <2>4 DEF TypeOK
    <3>2. QED
        BY <1>2, <2>1, <2>4, <3>1
  <2>5. QED
      BY <2>2, <2>3, <2>4
<1>5. TypeOK'
  <2>1. inbox' \in [Account -> [Jid -> Seq(Presence \cup Reply)]]
    <3>1. CASE c = NoCaps
        BY <3>1 DEF SendPresence, TypeOK
    <3>2. CASE c # NoCaps
      <4>1. \A a \in Account : Append(inbox[a][j], m) \in Seq(Presence \cup Reply)
          BY <1>1, <3>2 DEF TypeOK
      <4>2. \A a \in Account : [inbox[a] EXCEPT ![j] = Append(@, m)]
                \in [Jid -> Seq(Presence \cup Reply)]
          BY <4>1 DEF TypeOK
      <4>3. inbox' = [a \in Account |-> [inbox[a] EXCEPT ![j] = Append(@, m)]]
          BY <3>2 DEF SendPresence
      <4>4. QED
          BY <4>2, <4>3
    <3>3. QED
        BY <3>1, <3>2
  <2>2. presences' \in 0 .. MaxPresences
      BY BoundsAssumption DEF SendPresence, TypeOK
  <2>3. client' \in [Jid -> Broadcast \cup {NoCaps}]
      BY <1>3 DEF TypeOK
  <2>4. QED
      BY <2>1, <2>2, <2>3 DEF SendPresence, manager, TypeOK
<1>6. (StoredLegal /\ IndexMatches /\ UpToDate /\ RegistryTruthful)'
    BY DEF SendPresence, manager, StoredLegal, IndexMatches, UpToDate, RegistryTruthful,
           Features, capsEnabled, Lists
<1>7. (CapsArrive /\ AnswersInOrder)'
    BY <1>4, <1>5, QueuesOrderedMeans, PTL
<1>8. QED
    BY <1>5, <1>6, <1>7

LEMMA SendAnswerStep ==
    ASSUME CapsInvariant, QueuesOrdered, NEW a \in Account, NEW j \in Jid,
           NEW s \in CapsSpec, SendAnswer(a, j, s)
    PROVE  CapsInvariant'
<1> USE DEF CapsInvariant
<1> DEFINE m == [kind |-> "reply", to |-> s, features |-> Answer(j, s)]
<1>1. /\ m \in Reply
      /\ m.features # Unknown => /\ m.features \in Specs(client[j])
                                 /\ client[j] # NoCaps
                                 /\ m.features.node = m.to.node
                                 /\ m.features.ext = m.to.ext
    BY AnswerType DEF Reply
<1>2. /\ inbox' = [inbox EXCEPT ![a][j] = Append(@, m)]
      /\ asked' = [asked EXCEPT ![a][j][s] = @ - 1]
      /\ asked[a][j][s] > 0
      /\ UNCHANGED <<manager, client, presences, reconnects>>
    BY DEF SendAnswer
<1> HIDE DEF m
<1>3. QueuesOrdered'
  <2> SUFFICES ASSUME NEW b \in Account, NEW k \in Jid
               PROVE  Ordered(inbox'[b][k], capsSpecs[b][k], client[k])
      BY <1>2 DEF QueuesOrdered, manager
  <2>1. Ordered(inbox[b][k], capsSpecs[b][k], client[k])
      BY DEF QueuesOrdered
  <2>2. CASE b = a /\ k = j
    <3>1. inbox'[b][k] = Append(inbox[a][j], m)
        BY <1>2, <2>2 DEF TypeOK
    <3>2. client[j] \in Broadcast \cup {NoCaps}
        BY DEF TypeOK
    <3>3. Ordered(Append(inbox[a][j], m), capsSpecs[a][j], client[j])
        BY <1>1, <2>1, <2>2, <3>2, OrderedAppendReply
    <3>4. QED
        BY <2>2, <3>1, <3>3
  <2>3. CASE ~(b = a /\ k = j)
    <3>1. inbox'[b][k] = inbox[b][k]
        BY <1>2, <2>3 DEF TypeOK
    <3>2. QED
        BY <2>1, <3>1
  <2>4. QED
      BY <2>2, <2>3
<1>4. TypeOK'
  <2>1. inbox' \in [Account -> [Jid -> Seq(Presence \cup Reply)]]
    <3>1. Append(inbox[a][j], m) \in Seq(Presence \cup Reply)
        BY <1>1 DEF TypeOK
    <3>2. QED
        BY <1>2, <3>1 DEF TypeOK
  <2>2. asked' \in [Account -> [Jid -> [CapsSpec -> Nat]]]
      BY <1>2 DEF TypeOK
  <2>3. QED
      BY <1>2, <2>1, <2>2 DEF manager, TypeOK
<1>5. (StoredLegal /\ IndexMatches /\ UpToDate /\ RegistryTruthful)'
    BY <1>2 DEF manager, StoredLegal, IndexMatches, UpToDate, RegistryTruthful,
           Features, capsEnabled, Lists
<1>6. (CapsArrive /\ AnswersInOrder)'
    BY <1>3, <1>4, QueuesOrderedMeans, PTL
<1>7. QED
    BY <1>4, <1>5, <1>6

LEMMA ReconnectStep ==
    ASSUME CapsInvariant, QueuesOrdered, NEW a \in Account, Reconnect(a)
    PROVE  CapsInvariant'
<1> USE DEF CapsInvariant
<1> DEFINE fresh(j) == IF client[j] = NoCaps THEN <<>>
                       ELSE <<[kind |-> "presence", caps |-> client[j]]>>
<1>1. ASSUME NEW j \in Jid
      PROVE  Ordered(fresh(j), capsSpecs[a][j], client[j])
  <2>1. CASE client[j] = NoCaps
      BY <2>1 DEF Ordered, InOrder
  <2>2. CASE client[j] # NoCaps
    <3> DEFINE m == [kind |-> "presence", caps |-> client[j]]
    <3>1. m \in Message /\ m.kind = "presence" /\ m.caps = client[j]
        BY <2>2 DEF TypeOK, Message, Presence
    <3> HIDE DEF m
    <3>2. <<m>> \in Seq(Message) /\ Len(<<m>>) = 1 /\ <<m>>[1] = m
        BY <3>1
    <3>3. InOrder(<<m>>, capsSpecs[a][j])
        BY <3>1, <3>2 DEF InOrder
    <3>4. LeavesCaps(<<m>>, capsSpecs[a][j], 1, client[j])
        BY <3>1, <3>2 DEF LeavesCaps
    <3>5. Ordered(<<m>>, capsSpecs[a][j], client[j])
        BY <3>2, <3>3, <3>4 DEF Ordered
    <3>6. fresh(j) = <<m>>
        BY <2>2 DEF m
    <3>7. QED
        BY <3>5, <3>6
  <2>3. QED
      BY <2>1, <2>2
<1>2. inbox' = [inbox EXCEPT ![a] = [j \in Jid |-> fresh(j)]]
    BY DEF Reconnect
<1> HIDE DEF fresh
<1>3. QueuesOrdered'
  <2> SUFFICES ASSUME NEW b \in Account, NEW k \in Jid
               PROVE  Ordered(inbox'[b][k], capsSpecs[b][k], client[k])
      BY DEF QueuesOrdered, Reconnect, manager
  <2>1. CASE b = a
    <3>1. inbox'[b][k] = fresh(k)
        BY <1>2, <2>1 DEF TypeOK
    <3>2. QED
        BY <1>1, <2>1, <3>1
  <2>2. CASE b # a
    <3>1. inbox'[b] = inbox[b]
        BY <1>2, <2>2 DEF TypeOK
    <3>2. QED
        BY <3>1 DEF QueuesOrdered
  <2>3. QED
      BY <2>1, <2>2
<1>4. TypeOK'
  <2>1. \A j \in Jid : fresh(j) \in Seq(Presence \cup Reply)
      BY <1>1 DEF Ordered, Message
  <2>2. inbox' \in [Account -> [Jid -> Seq(Presence \cup Reply)]]
      BY <1>2, <2>1 DEF TypeOK
  <2>3. asked' \in [Account -> [Jid -> [CapsSpec -> Nat]]]
      BY DEF Reconnect, TypeOK
  <2>4. reconnects' \in 0 .. MaxReconnects
      BY BoundsAssumption DEF Reconnect, TypeOK
  <2>5. QED
      BY <2>2, <2>3, <2>4 DEF Reconnect, manager, TypeOK
<1>5. (StoredLegal /\ IndexMatches /\ UpToDate /\ RegistryTruthful)'
    BY DEF Reconnect, manager, StoredLegal, IndexMatches, UpToDate, RegistryTruthful,
           Features, capsEnabled, Lists
<1>6. (CapsArrive /\ AnswersInOrder)'
    BY <1>3, <1>4, QueuesOrderedMeans, PTL
<1>7. QED
    BY <1>4, <1>5, <1>6

LEMMA StutterStep ==
    ASSUME CapsInvariant, UNCHANGED vars
    PROVE  CapsInvariant'
<1> USE DEF CapsInvariant, vars, manager
<1>1. TypeOK'
    BY DEF TypeOK
<1>2. (StoredLegal /\ IndexMatches /\ UpToDate /\ RegistryTruthful)'
    BY DEF StoredLegal, IndexMatches, UpToDate, RegistryTruthful, Features, capsEnabled, Lists
<1>3. (CapsArrive /\ AnswersInOrder)'
    BY DEF CapsArrive, AnswersInOrder
<1>4. QED
    BY <1>1, <1>2, <1>3

THEOREM NextInvariant == CapsInvariant /\ [Next]_vars => CapsInvariant'
<1> SUFFICES ASSUME CapsInvariant, [Next]_vars PROVE CapsInvariant'
    OBVIOUS
<1>1. QueuesOrdered
    BY QueuesOrderedMeans DEF CapsInvariant
<1>2. CASE \E a \in Account, j \in Jid : updateCaps(a, j) \/ discoFinished(a, j)
    BY <1>1, <1>2, RepeatCapsStep, ChangeCapsStep, IllegalCapsStep, SuccessStep, IgnoreReplyStep
    DEF updateCaps, discoFinished
<1>3. CASE \E j \in Jid, c \in Broadcast \cup {NoCaps} : SendPresence(j, c)
    BY <1>1, <1>3, SendPresenceStep
<1>4. CASE \E a \in Account, j \in Jid, s \in CapsSpec : SendAnswer(a, j, s)
    BY <1>1, <1>4, SendAnswerStep
<1>5. CASE \E a \in Account : Reconnect(a)
    BY <1>1, <1>5, ReconnectStep
<1>6. CASE UNCHANGED vars
    BY <1>6, StutterStep
<1>7. QED
    BY <1>2, <1>3, <1>4, <1>5, <1>6 DEF Next

-----------------------------------------------------------------------------
(* Theorems.                                                               *)

\* The inductive invariant holds always: capsJids_ is the inverse of
\* capsSpecs_, and answers and presences are handled in the order sent.
THEOREM CapsInvariantHolds == Spec => []CapsInvariant
BY InitInvariant, NextInvariant, PTL DEF Spec

\* The receivers of capsChanged have the known features of every jid that has
\* capabilities, whichever account or jid found them out.
THEOREM UpToDateHolds == Spec => []UpToDate
<1>1. CapsInvariant => UpToDate
    BY DEF CapsInvariant
<1>2. QED
    BY <1>1, CapsInvariantHolds, PTL

\* No client's features are registered for another version of its program.
THEOREM RegistryTruthfulHolds == Spec => []RegistryTruthful
<1>1. CapsInvariant => RegistryTruthful
    BY DEF CapsInvariant
<1>2. QED
    BY <1>1, CapsInvariantHolds, PTL

\* A client whose presence has arrived is known by what it broadcasts.
THEOREM CapsFollowPresenceHolds == Spec => []CapsFollowPresence
<1>1. CapsInvariant => CapsFollowPresence
  <2> SUFFICES ASSUME CapsInvariant, NEW a \in Account, NEW j \in Jid,
                      client[j] # NoCaps, inbox[a][j] = <<>>
               PROVE  capsSpecs[a][j] = IF Legal(client[j]) THEN client[j] ELSE NoCaps
      BY DEF CapsFollowPresence
  <2>1. LeavesCaps(<<>>, capsSpecs[a][j], 0, client[j])
      BY DEF CapsInvariant, CapsArrive
  <2>2. QED
      BY <2>1 DEF LeavesCaps
<1>2. QED
    BY <1>1, CapsInvariantHolds, PTL

=============================================================================
