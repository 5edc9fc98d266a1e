------------------------- MODULE EventQueue_proofs -------------------------
(***************************************************************************)
(* Theorems about EventQueue for any number of messages, contacts, windows *)
(* and crashes, whoever of the contacts encrypts.                          *)
(*                                                                         *)
(* What has to be shown of a queue, the windows and the shared queue is a  *)
(* predicate of a box, Sound, and each operation has a lemma about boxes:  *)
(* Keeps for one that brings nothing new, Handled for the handling of a    *)
(* message.  A message keeps its order only if it is handled when it may   *)
(* come next (Newer): that those which wait for GnuPG or in the file may   *)
(* come next, and each after those before it, is in Incoming and Loading.  *)
(*                                                                         *)
(* When GnuPG is given a message beside another, the wrong one may be      *)
(* dropped from the queue (see the run messages_popped), and the order of  *)
(* the contacts concerned is given up: what is said of order is relative   *)
(* to a set O of contacts of whom it is not said, and the invariant takes  *)
(* overlapped for O.  That set only grows (GivenUp), and as long as it     *)
(* does not have all who wait, GnuPG has the head of the queue and nothing *)
(* else (InHand).                                                          *)
(***************************************************************************)
EXTENDS EventQueue, Recursion

-----------------------------------------------------------------------------
(* Sequences and ranks.                                                    *)

LEMMA InsertType ==
    ASSUME NEW S, NEW s \in Seq(S), NEW p \in 1 .. Len(s) + 1, NEW e \in S
    PROVE  /\ InsertAt(s, p, e) \in Seq(S)
           /\ Len(InsertAt(s, p, e)) = Len(s) + 1
           /\ \A i \in 1 .. Len(s) + 1 : InsertAt(s, p, e)[i] =
                  IF i < p THEN s[i] ELSE IF i = p THEN e ELSE s[i - 1]
<1> DEFINE a == SubSeq(s, 1, p - 1)
           b == SubSeq(s, p, Len(s))
<1>1. Len(s) \in Nat
    BY LenProperties
<1>2. a \in Seq(S) /\ Len(a) = p - 1 /\ \A i \in 1 .. p - 1 : a[i] = s[i]
    BY <1>1
<1>3. b \in Seq(S) /\ Len(b) = Len(s) - p + 1
      /\ \A i \in 1 .. Len(s) - p + 1 : b[i] = s[p + i - 1]
    BY <1>1
<1>4. InsertAt(s, p, e) = a \o <<e>> \o b
    BY DEF InsertAt
<1> HIDE DEF a, b
<1> DEFINE c == a \o <<e>>
<1>5. c \in Seq(S) /\ Len(c) = p /\ \A i \in 1 .. p : c[i] = IF i < p THEN s[i] ELSE e
    BY <1>1, <1>2
<1> HIDE DEF c
<1> DEFINE r == c \o b
<1>6. /\ r \in Seq(S) /\ Len(r) = Len(s) + 1
      /\ \A i \in 1 .. Len(s) + 1 : r[i] = IF i <= p THEN c[i] ELSE b[i - p]
  <2>1. /\ r \in Seq(S) /\ Len(r) = Len(c) + Len(b)
        /\ \A i \in 1 .. Len(c) + Len(b) : r[i] = IF i <= Len(c) THEN c[i] ELSE b[i - Len(c)]
      BY <1>3, <1>5, ConcatProperties
  <2> HIDE DEF r
  <2>2. Len(c) + Len(b) = Len(s) + 1
      BY <1>1, <1>3, <1>5
  <2>3. QED
      BY <1>5, <2>1, <2>2
<1> HIDE DEF r
<1>7. ASSUME NEW i \in 1 .. Len(s) + 1
      PROVE r[i] = IF i < p THEN s[i] ELSE IF i = p THEN e ELSE s[i - 1]
  <2>1. CASE i <= p
      BY <1>5, <1>6, <2>1
  <2>2. CASE i > p
    <3>1. i - p \in 1 .. Len(s) - p + 1 /\ p + (i - p) - 1 = i - 1
        BY <1>1, <2>2
    <3>2. QED
        BY <1>3, <1>6, <2>2, <3>1
  <2>3. QED
      BY <1>1, <2>1, <2>2
<1>8. QED
    BY <1>4, <1>6, <1>7 DEF c, r

-----------------------------------------------------------------------------
(* The inductive invariant.                                                *)

Item == [m : Message, sent : BOOLEAN, id : Nat]
Box == [list : Seq(Item), global : Seq(Nat), ids : Nat, enabled : BOOLEAN,
        window : [Contact -> {"none", "hidden", "inactive", "active"}],
        chat : [Contact -> Seq(Number)], done : SUBSET Number]

\* l may come after m: if of the same contact, whose order is not given up, it is
\* another event, and a later one of its kind.
Follows(O, m, l) == m.from = l.from /\ m.from \notin O =>
    m.n # l.n /\ (m.kind = l.kind => m.n < l.n)

\* By priority, and each may come after all before it.
Ordered(O, b) == \A i, k \in 1 .. Len(b.list) : i < k =>
    /\ Rank(b.list[i].m.kind) >= Rank(b.list[k].m.kind)
    /\ Follows(O, b.list[i].m, b.list[k].m)
\* Each event has an id of its own, and the next one is free.
Numbered(b) == \A i, k \in 1 .. Len(b.list) :
    b.list[i].id <= b.ids /\ (b.list[i].id = b.list[k].id => i = k)
\* The shared queue has the events of an enabled account, each once.
Mirrored(b) ==
    /\ \A i \in 1 .. Len(b.global) :
           b.enabled /\ \E k \in 1 .. Len(b.list) : b.list[k].id = b.global[i]
    /\ b.enabled => \A k \in 1 .. Len(b.list) :
           \E i \in 1 .. Len(b.global) : b.list[k].id = b.global[i]
    /\ \A i, k \in 1 .. Len(b.global) : b.global[i] = b.global[k] => i = k
\* What is shown already waits for a window behind others, and is done with.
Complete(b) == \A i \in 1 .. Len(b.list) : b.list[i].m.kind = "chat" =>
    /\ b.list[i].sent <=> b.window[b.list[i].m.from] = "inactive"
    /\ b.window[b.list[i].m.from] # "active"
    /\ b.list[i].sent => b.list[i].m.n \in b.done
\* Windows show messages in their order; without a window nothing is shown.
Ascending(O, b) == \A c \in Contact \ O :
    \A i, k \in 1 .. Len(b.chat[c]) : i < k => b.chat[c][i] < b.chat[c][k]
Opened(b) == \A c \in Contact : b.window[c] = "none" => b.chat[c] = <<>>
\* What is not shown yet is later than what is.
Later(O, b) == \A i \in 1 .. Len(b.list) :
    LET m == b.list[i].m IN
    m.kind = "chat" /\ ~b.list[i].sent /\ m.from \notin O =>
        \A k \in 1 .. Len(b.chat[m.from]) : b.chat[m.from][k] < m.n
Sound(O, b) == /\ Ordered(O, b) /\ Numbered(b) /\ Mirrored(b) /\ Complete(b)
               /\ Ascending(O, b) /\ Opened(b) /\ Later(O, b)

\* m may come next.
Newer(O, b, m) ==
    /\ \A i \in 1 .. Len(b.list) : Follows(O, b.list[i].m, m)
    /\ m.kind = "chat" /\ m.from \notin O =>
           \A k \in 1 .. Len(b.chat[m.from]) : b.chat[m.from][k] < m.n
Upto(b, n) == /\ \A i \in 1 .. Len(b.list) : b.list[i].m.n <= n
              /\ \A c \in Contact : \A i \in 1 .. Len(b.chat[c]) : b.chat[c][i] <= n

\* The messages of q are handled next, one after the other.
Coming(O, b, q) ==
    /\ \A i \in 1 .. Len(q) : Newer(O, b, q[i]) /\ q[i].n <= received
    /\ \A i, k \in 1 .. Len(q) : i < k => Follows(O, q[i], q[k])
\* GnuPG has the head of the queue, and nothing else unless order is given up.
InHand(O, queue, busy) ==
    /\ queue # <<>> => \E t \in 1 .. Len(busy) : busy[t] = Head(queue)
    /\ \/ busy = IF queue = <<>> THEN <<>> ELSE <<Head(queue)>>
       \/ Senders(queue) \cup Senders(busy) \subseteq O
Encrypted(m) == m.from \in Encrypting /\ m.kind # "auth"
\* What waits for GnuPG comes next.
Incoming ==
    /\ Coming(overlapped, inbox, incoming) /\ InHand(overlapped, incoming, decrypting)
    /\ \A i \in 1 .. Len(incoming) : Encrypted(incoming[i])
    /\ \A t \in 1 .. Len(decrypting) :
           Encrypted(decrypting[t]) /\ decrypting[t].n <= received
\* What is to be read from the file comes next, before anything else happens.
Loading ==
    /\ Coming(overlapped, inbox, loading)
    /\ loading # <<>> => incoming = <<>> /\ \A c \in Contact : inbox.window[c] = "none"
\* The file after a start is kept until the first event is read.
Written == file = IF inbox.list = <<>> THEN loading ELSE Saved(inbox.list)
Typed ==
    /\ inbox \in Box /\ received \in 0 .. MaxMessages
    /\ incoming \in Seq(Message) /\ decrypting \in Seq(Message)
    /\ file \in Seq(Message) /\ loading \in Seq(Message) /\ overlapped \subseteq Encrypting

EventInvariant ==
    /\ Typed /\ Sound(overlapped, inbox) /\ Upto(inbox, received)
    /\ Incoming /\ Loading /\ Written /\ NothingForgotten

-----------------------------------------------------------------------------
(* Places in the queue.                                                    *)

LEMMA KindRank == \A m \in Message : Rank(m.kind) \in Nat
    BY ConstantsAssumption DEF Message, Rank

LEMMA PositionType ==
    ASSUME NEW list \in Seq(Item), NEW m
    PROVE  Position(list, m) \in 1 .. Len(list) + 1
<1> DEFINE lower == {i \in DOMAIN list : Rank(list[i].m.kind) < Rank(m.kind)}
<1>1. DOMAIN list = 1 .. Len(list) /\ Len(list) \in Nat
    BY LenProperties
<1>2. CASE lower = {}
    BY <1>1, <1>2 DEF Position
<1>3. CASE lower # {}
  <2>1. lower \in SUBSET Nat
      BY <1>1
  <2>2. \E i \in lower : \A k \in lower : i <= k
      BY <1>3, <2>1, LeastNumber
  <2> DEFINE p == CHOOSE i \in lower : \A k \in lower : i <= k
  <2>3. p \in lower
      BY <2>2
  <2>4. Position(list, m) = p
      BY <1>3 DEF Position
  <2> HIDE DEF p
  <2>5. QED
      BY <1>1, <2>3, <2>4
<1>4. QED
    BY <1>2, <1>3

\* The place of a new event: what is before has its priority at least, what is at
\* it or behind has a lower one, if the queue goes by priority.
LEMMA PositionIs ==
    ASSUME NEW list \in Seq(Item), NEW m \in Message,
           \A i, k \in 1 .. Len(list) : i < k => Rank(list[i].m.kind) >= Rank(list[k].m.kind)
    PROVE  /\ Position(list, m) \in 1 .. Len(list) + 1
           /\ \A i \in 1 .. Len(list) : i < Position(list, m) <=>
                  Rank(list[i].m.kind) >= Rank(m.kind)
<1> DEFINE lower == {i \in DOMAIN list : Rank(list[i].m.kind) < Rank(m.kind)}
<1>1. DOMAIN list = 1 .. Len(list) /\ Len(list) \in Nat
    BY LenProperties
<1>2. \A i \in 1 .. Len(list) : Rank(list[i].m.kind) \in Nat
  <2>1. \A i \in 1 .. Len(list) : list[i] \in Item
      BY ElementOfSeq
  <2>2. \A i \in 1 .. Len(list) : list[i].m \in Message
      BY <2>1 DEF Item
  <2>3. QED
      BY <2>2, KindRank, Zenon
<1>3. Rank(m.kind) \in Nat
    BY KindRank
<1>4. CASE lower = {}
    BY <1>1, <1>2, <1>3, <1>4 DEF Position
<1>5. CASE lower # {}
  <2>1. lower \in SUBSET Nat
      BY <1>1
  <2>2. \E i \in lower : \A k \in lower : i <= k
      BY <1>5, <2>1, LeastNumber
  <2> DEFINE p == CHOOSE i \in lower : \A k \in lower : i <= k
  <2>3. p \in lower /\ \A k \in lower : p <= k
      BY <2>2
  <2>4. Position(list, m) = p
      BY <1>5 DEF Position
  <2> HIDE DEF p
  <2>5. ASSUME NEW i \in 1 .. Len(list) PROVE i < p <=> Rank(list[i].m.kind) >= Rank(m.kind)
    <3>1. CASE i < p
        BY <1>1, <1>2, <1>3, <2>3, <3>1
    <3>2. CASE i = p
        BY <1>1, <1>2, <1>3, <2>3, <3>2
    <3>3. CASE p < i
        BY <1>1, <1>2, <1>3, <2>3, <3>3
    <3>4. QED
        BY <1>1, <2>3, <3>1, <3>2, <3>3
  <2>6. QED
      BY <1>1, <2>3, <2>4, <2>5
<1>6. QED
    BY <1>4, <1>5

-----------------------------------------------------------------------------
(* What the operations do to the fields.                                   *)

LEMMA ItemFields ==
    ASSUME NEW x \in Item
    PROVE  /\ x.m \in Message /\ x.sent \in BOOLEAN
           /\ x.m.n \in Number /\ x.m.n \in Nat /\ x.m.from \in Contact /\ x.m.kind \in Kind
           /\ x.id \in Nat
    BY ConstantsAssumption DEF Item, Message, Number

LEMMA BoxFields ==
    ASSUME NEW b \in Box
    PROVE  /\ b.list \in Seq(Item) /\ Len(b.list) \in Nat /\ DOMAIN b.list = 1 .. Len(b.list)
           /\ \A i \in 1 .. Len(b.list) : b.list[i] \in Item
           /\ b.global \in Seq(Nat) /\ Len(b.global) \in Nat /\ b.ids \in Nat
           /\ DOMAIN b.global = 1 .. Len(b.global)
           /\ \A i \in 1 .. Len(b.global) : b.global[i] \in Nat
           /\ b.enabled \in BOOLEAN
           /\ b.window \in [Contact -> {"none", "hidden", "inactive", "active"}]
           /\ b.chat \in [Contact -> Seq(Number)]
           /\ b.done \in SUBSET Number
<1>1. /\ b.list \in Seq(Item) /\ b.global \in Seq(Nat) /\ b.ids \in Nat /\ b.enabled \in BOOLEAN
      /\ b.window \in [Contact -> {"none", "hidden", "inactive", "active"}]
      /\ b.chat \in [Contact -> Seq(Number)]
      /\ b.done \in SUBSET Number
    BY DEF Box
<1>2. \A i \in 1 .. Len(b.list) : b.list[i] \in Item
    BY <1>1, ElementOfSeq
<1>3. \A i \in 1 .. Len(b.global) : b.global[i] \in Nat
    BY <1>1, ElementOfSeq
<1>4. Len(b.list) \in Nat /\ DOMAIN b.list = 1 .. Len(b.list)
    BY <1>1, LenProperties
<1>5. Len(b.global) \in Nat /\ DOMAIN b.global = 1 .. Len(b.global)
    BY <1>1, LenProperties
<1>6. QED
    BY <1>1, <1>2, <1>3, <1>4, <1>5

LEMMA ChatFields ==
    ASSUME NEW b \in Box, NEW c \in Contact
    PROVE  /\ b.chat[c] \in Seq(Number) /\ Len(b.chat[c]) \in Nat
           /\ DOMAIN b.chat[c] = 1 .. Len(b.chat[c])
           /\ \A i \in 1 .. Len(b.chat[c]) : b.chat[c][i] \in Number /\ b.chat[c][i] \in Nat
<1>1. b.chat[c] \in Seq(Number)
    BY BoxFields
<1>2. \A i \in 1 .. Len(b.chat[c]) : b.chat[c][i] \in Number
    BY <1>1, ElementOfSeq
<1>3. Len(b.chat[c]) \in Nat /\ DOMAIN b.chat[c] = 1 .. Len(b.chat[c])
    BY <1>1, LenProperties
<1>4. QED
    BY <1>1, <1>2, <1>3, ConstantsAssumption DEF Number

LEMMA EnqueueFields ==
    ASSUME NEW b \in Box, NEW m \in Message, NEW sent \in BOOLEAN
    PROVE  /\ Enqueue(b, m, sent) \in Box
           /\ Enqueue(b, m, sent).list =
                  InsertAt(b.list, Position(b.list, m), [m |-> m, sent |-> sent, id |-> b.ids + 1])
           /\ Enqueue(b, m, sent).global =
                  IF b.enabled THEN Append(b.global, b.ids + 1) ELSE b.global
           /\ Enqueue(b, m, sent).ids = b.ids + 1
           /\ Enqueue(b, m, sent).enabled = b.enabled /\ Enqueue(b, m, sent).window = b.window
           /\ Enqueue(b, m, sent).chat = b.chat /\ Enqueue(b, m, sent).done = b.done
<1> DEFINE id == b.ids + 1
           item == [m |-> m, sent |-> sent, id |-> id]
           list == InsertAt(b.list, Position(b.list, m), item)
           global == IF b.enabled THEN Append(b.global, id) ELSE b.global
<1>1. b.list \in Seq(Item) /\ b.global \in Seq(Nat) /\ b \in Box /\ id \in Nat
    BY BoxFields
<1>2. item \in Item
    BY <1>1 DEF Item
<1>3. list \in Seq(Item)
  <2> HIDE DEF item
  <2>1. QED
      BY <1>1, <1>2, PositionType, InsertType
<1>5. global \in Seq(Nat)
    BY <1>1, AppendProperties
<1>6. Enqueue(b, m, sent) = [b EXCEPT !.ids = id, !.list = list, !.global = global]
    BY DEF Enqueue
<1> HIDE DEF list, global
<1>7. QED
    BY <1>1, <1>3, <1>5, <1>6 DEF Box, list, global, item

LEMMA ShownFields ==
    ASSUME NEW b \in Box, NEW m \in Message
    PROVE  /\ Shown(b, m.from, m) \in Box
           /\ Shown(b, m.from, m).list = b.list /\ Shown(b, m.from, m).global = b.global
           /\ Shown(b, m.from, m).ids = b.ids
           /\ Shown(b, m.from, m).enabled = b.enabled /\ Shown(b, m.from, m).window = b.window
           /\ Shown(b, m.from, m).chat =
                  [b.chat EXCEPT ![m.from] = Append(b.chat[m.from], m.n)]
           /\ Shown(b, m.from, m).done = b.done \cup {m.n}
<1> DEFINE chat == [b.chat EXCEPT ![m.from] = Append(b.chat[m.from], m.n)]
           done == b.done \cup {m.n}
<1>1. m.n \in Number /\ m.from \in Contact
    BY DEF Message
<1>2. Append(b.chat[m.from], m.n) \in Seq(Number)
    BY <1>1, ChatFields, AppendProperties
<1>3. chat \in [Contact -> Seq(Number)] /\ done \in SUBSET Number
    BY <1>1, <1>2, BoxFields
<1>4. Shown(b, m.from, m) = [b EXCEPT !.chat = chat, !.done = done]
    BY DEF Shown, Box
<1> HIDE DEF chat, done
<1>5. QED
    BY <1>3, <1>4 DEF Box, chat, done

LEMMA UnlistedType ==
    ASSUME NEW g \in Seq(Nat), NEW N
    PROVE  Unlisted(g, N) \in Seq(Nat)
    BY SelectedTakes DEF Unlisted

LEMMA SetEnabledFields ==
    ASSUME NEW b \in Box, NEW e \in BOOLEAN
    PROVE  /\ SetEnabled(b, e) \in Box
           /\ SetEnabled(b, e).list = b.list /\ SetEnabled(b, e).ids = b.ids
           /\ SetEnabled(b, e).global =
                  IF b.enabled = e THEN b.global
                  ELSE IF e THEN b.global \o [i \in 1 .. Len(b.list) |-> b.list[i].id]
                  ELSE Unlisted(b.global, Ids(Items(b)))
           /\ SetEnabled(b, e).enabled = e /\ SetEnabled(b, e).window = b.window
           /\ SetEnabled(b, e).chat = b.chat /\ SetEnabled(b, e).done = b.done
<1> DEFINE ns == [i \in 1 .. Len(b.list) |-> b.list[i].id]
           global == IF e THEN b.global \o ns ELSE Unlisted(b.global, Ids(Items(b)))
<1>1. CASE b.enabled = e
    BY <1>1 DEF SetEnabled
<1>2. CASE b.enabled # e
  <2>1. ns \in Seq(Nat)
    <3>1. \A i \in 1 .. Len(b.list) : b.list[i].id \in Nat
        BY BoxFields, ItemFields
    <3>2. Len(b.list) \in Nat
        BY BoxFields
    <3>3. QED
        BY <3>1, <3>2
  <2>2. DOMAIN b.list = 1 .. Len(b.list) /\ b.global \in Seq(Nat)
      BY BoxFields
  <2>3. SetEnabled(b, e) = [b EXCEPT !.enabled = e, !.global = global]
      BY <1>2, <2>2 DEF SetEnabled
  <2> HIDE DEF ns
  <2>4. global \in Seq(Nat)
      BY <2>1, <2>2, UnlistedType, ConcatProperties
  <2> HIDE DEF global
  <2>5. QED
      BY <1>2, <2>3, <2>4 DEF Box, global, ns
<1>3. QED
    BY <1>1, <1>2

-----------------------------------------------------------------------------
(* A message is handled.                                                   *)

Once(g) == \A i, k \in 1 .. Len(g) : g[i] = g[k] => i = k

LEMMA UnlistedIs ==
    ASSUME NEW g \in Seq(Nat), NEW N
    PROVE  /\ \A i \in 1 .. Len(Unlisted(g, N)) :
                  Unlisted(g, N)[i] \notin N /\ \E k \in 1 .. Len(g) : Unlisted(g, N)[i] = g[k]
           /\ \A k \in 1 .. Len(g) : g[k] \notin N =>
                  \E i \in 1 .. Len(Unlisted(g, N)) : Unlisted(g, N)[i] = g[k]
           /\ Once(g) => Once(Unlisted(g, N))
<1> DEFINE K == {i \in DOMAIN g : g[i] \notin N}
           r == Selected(g, K)
<1>1. DOMAIN g = 1 .. Len(g) /\ Len(g) \in Nat
    BY LenProperties
<1>2. r \in Seq(Nat) /\ \E f : Takes(r, g, K, Len(g), f)
    BY SelectedTakes
<1>3. PICK f : Takes(r, g, K, Len(g), f)
    BY <1>2
<1>4. Unlisted(g, N) = r
    BY DEF Unlisted
<1>5. \A i \in 1 .. Len(g) : i \in K <=> g[i] \notin N
    BY <1>1
<1> HIDE DEF r, K
<1>6. \A i \in 1 .. Len(r) : f[i] \in 1 .. Len(g) /\ f[i] \in K /\ r[i] = g[f[i]]
    BY <1>3 DEF Takes
<1>7. Len(r) \in Nat
    BY <1>2, LenProperties
<1>8. Once(g) => Once(r)
  <2> SUFFICES ASSUME Once(g), NEW i \in 1 .. Len(r), NEW k \in 1 .. Len(r), r[i] = r[k]
               PROVE  i = k
      BY DEF Once
  <2>1. f[i] = f[k]
    <3>1. f[i] \in 1 .. Len(g) /\ f[k] \in 1 .. Len(g) /\ g[f[i]] = g[f[k]]
        BY <1>6
    <3>2. QED
        BY <3>1, Zenon DEF Once
  <2>2. ~(i < k) /\ ~(k < i)
    <3>1. (i < k => f[i] < f[k]) /\ (k < i => f[k] < f[i])
        BY <1>3 DEF Takes
    <3>2. f[i] \in Nat
        BY <1>1, <1>6
    <3>3. QED
        BY <2>1, <3>1, <3>2
  <2>3. QED
      BY <1>7, <2>2
<1>9. \A k \in 1 .. Len(g) : g[k] \notin N => \E i \in 1 .. Len(r) : r[i] = g[k]
    BY <1>3, <1>5, <1>6 DEF Takes
<1>10. QED
    BY <1>4, <1>5, <1>6, <1>8, <1>9

\* The numbers of all events that are in the queue or done with.
Held(b) == b.done \cup {b.list[i].m.n : i \in 1 .. Len(b.list)}

Numbers(items) == {item.m.n : item \in items}

\* A step that brings nothing new.
Keeps(O, b, r) ==
    /\ r \in Box /\ Sound(O, r)
    /\ \A m \in Message : Newer(O, b, m) => Newer(O, r, m)
    /\ \A n \in Nat : Upto(b, n) => Upto(r, n)
    /\ Held(r) = Held(b)

LEMMA KeepsTwice ==
    ASSUME NEW O, NEW a, NEW b, NEW c, Keeps(O, a, b), Keeps(O, b, c)
    PROVE  Keeps(O, a, c)
    BY DEF Keeps

LEMMA SetEnabledKeeps ==
    ASSUME NEW O, NEW b \in Box, Sound(O, b), NEW e \in BOOLEAN
    PROVE  Keeps(O, b, SetEnabled(b, e))
<1> DEFINE r == SetEnabled(b, e)
           ns == [i \in 1 .. Len(b.list) |-> b.list[i].id]
<1>1. /\ r \in Box /\ r.list = b.list /\ r.enabled = e /\ r.window = b.window
      /\ r.chat = b.chat /\ r.done = b.done /\ r.ids = b.ids
      /\ r.global = IF b.enabled = e THEN b.global
                    ELSE IF e THEN b.global \o ns
                    ELSE Unlisted(b.global, Ids(Items(b)))
    BY SetEnabledFields
<1>2. b.enabled \in BOOLEAN /\ b.global \in Seq(Nat) /\ Len(b.global) \in Nat
      /\ DOMAIN b.list = 1 .. Len(b.list) /\ Len(b.list) \in Nat
    BY BoxFields
<1>4. \A i \in 1 .. Len(b.list) : b.list[i].id \in Nat
    BY BoxFields, ItemFields
<1> HIDE DEF r
<1>3. Mirrored(r)
  <2>1. CASE b.enabled = e
      BY <1>1, <2>1 DEF Sound, Mirrored
  <2>2. CASE b.enabled # e /\ e
    <3>1. b.global = <<>>
      <4>1. \A i \in 1 .. Len(b.global) : FALSE
          BY <2>2 DEF Sound, Mirrored
      <4>2. Len(b.global) = 0
          BY <1>2, <4>1
      <4>3. QED
          BY <1>2, <4>2, EmptySeq
    <3>2. ns \in Seq(Nat)
        BY <1>2, <1>4
    <3>3. r.global = ns
        BY <1>1, <2>2, <3>1, <3>2, ConcatEmptySeq
    <3>4. Len(ns) = Len(b.list) /\ \A i \in 1 .. Len(b.list) : ns[i] = b.list[i].id
        BY <1>2
    <3> HIDE DEF ns
    <3>5. \A i, k \in 1 .. Len(b.list) : b.list[i].id = b.list[k].id => i = k
        BY DEF Sound, Numbered
    <3>6. r.list = b.list /\ r.enabled = TRUE
        BY <1>1, <2>2
    <3>7. /\ \A i \in 1 .. Len(r.global) : \E k \in 1 .. Len(r.list) : r.list[k].id = r.global[i]
          /\ \A k \in 1 .. Len(r.list) : \E i \in 1 .. Len(r.global) : r.list[k].id = r.global[i]
        BY <3>3, <3>4, <3>6
    <3>8. \A i, k \in 1 .. Len(r.global) : r.global[i] = r.global[k] => i = k
        BY <3>3, <3>4, <3>5
    <3>9. QED
        BY <3>6, <3>7, <3>8 DEF Mirrored
  <2>3. CASE b.enabled # e /\ ~e
    <3> DEFINE N == Ids(Items(b))
    <3>1. \A k \in 1 .. Len(b.list) : b.list[k].id \in N
        BY <1>2 DEF Ids, Items
    <3> HIDE DEF N
    <3>2. r.global = Unlisted(b.global, N)
        BY <1>1, <2>3 DEF N
    <3> DEFINE g == b.global
    <3>6. g \in Seq(Nat)
        BY <1>2
    <3> HIDE DEF g
    <3>7. \A i \in 1 .. Len(Unlisted(g, N)) :
              Unlisted(g, N)[i] \notin N /\ \E k \in 1 .. Len(g) : Unlisted(g, N)[i] = g[k]
        BY <3>6, UnlistedIs
    <3>3. \A i \in 1 .. Len(r.global) :
              r.global[i] \notin N /\ \E k \in 1 .. Len(b.global) : r.global[i] = b.global[k]
        BY <3>2, <3>7 DEF g
    <3>4. \A i \in 1 .. Len(r.global) : FALSE
      <4>1. \A k \in 1 .. Len(b.global) :
                \E j \in 1 .. Len(b.list) : b.list[j].id = b.global[k]
          BY DEF Sound, Mirrored
      <4>2. \A k \in 1 .. Len(b.global) : b.global[k] \in N
          BY <3>1, <4>1
      <4>3. QED
          BY <3>3, <4>2
    <3>5. QED
        BY <1>1, <2>3, <3>4 DEF Mirrored
  <2>4. QED
      BY <1>2, <2>1, <2>2, <2>3
<1>5. Sound(O, r)
  <2>1. Ordered(O, r)
      BY <1>1, <1>3 DEF Sound, Ordered
  <2>2. Numbered(r)
      BY <1>1, <1>3 DEF Sound, Numbered
  <2>3. Complete(r)
      BY <1>1, <1>3 DEF Sound, Complete
  <2>4. Ascending(O, r)
      BY <1>1, <1>3 DEF Sound, Ascending
  <2>5. Opened(r)
      BY <1>1, <1>3 DEF Sound, Opened
  <2>6. Later(O, r)
      BY <1>1, <1>3 DEF Sound, Later
  <2>7. QED
      BY <1>3, <2>1, <2>2, <2>3, <2>4, <2>5, <2>6 DEF Sound
<1>6. /\ \A m \in Message : Newer(O, b, m) => Newer(O, r, m)
      /\ \A n \in Nat : Upto(b, n) => Upto(r, n)
      /\ Held(r) = Held(b)
    BY <1>1 DEF Newer, Upto, Held
<1>7. QED
    BY <1>1, <1>5, <1>6 DEF Keeps, r

\* A message that may come next is put in the queue.
LEMMA EnqueueSound ==
    ASSUME NEW O, NEW b \in Box, Sound(O, b), NEW m \in Message, NEW sent \in BOOLEAN,
           \A i \in 1 .. Len(b.list) : Follows(O, b.list[i].m, m),
           m.kind = "chat" =>
               /\ sent <=> b.window[m.from] = "inactive"
               /\ b.window[m.from] # "active"
               /\ sent => m.n \in b.done
               /\ ~sent /\ m.from \notin O =>
                      \A k \in 1 .. Len(b.chat[m.from]) : b.chat[m.from][k] < m.n
    PROVE  Sound(O, Enqueue(b, m, sent))
<1> DEFINE r == Enqueue(b, m, sent)
           id == b.ids + 1
           item == [m |-> m, sent |-> sent, id |-> id]
           p == Position(b.list, m)
<1>1. /\ r \in Box /\ r.list = InsertAt(b.list, p, item)
      /\ r.global = IF b.enabled THEN Append(b.global, id) ELSE b.global
      /\ r.enabled = b.enabled /\ r.window = b.window /\ r.chat = b.chat /\ r.done = b.done
      /\ r.ids = id
    BY EnqueueFields
<1>2. /\ b.list \in Seq(Item) /\ Len(b.list) \in Nat /\ b.global \in Seq(Nat)
      /\ Len(b.global) \in Nat /\ b.enabled \in BOOLEAN /\ b.ids \in Nat /\ id \in Nat
    BY BoxFields
<1>3. item \in Item /\ item.m = m /\ item.sent = sent /\ item.id = id
    BY <1>2 DEF Item
<1> HIDE DEF item
<1>4. /\ p \in 1 .. Len(b.list) + 1
      /\ \A i \in 1 .. Len(b.list) : i < p <=> Rank(b.list[i].m.kind) >= Rank(m.kind)
    BY <1>2, PositionIs DEF Sound, Ordered
<1> HIDE DEF p, r
<1>5. /\ Len(r.list) = Len(b.list) + 1
      /\ \A i \in 1 .. Len(b.list) + 1 : r.list[i] =
             IF i < p THEN b.list[i] ELSE IF i = p THEN item ELSE b.list[i - 1]
  <2> DEFINE s == b.list
             t == InsertAt(s, p, item)
  <2>1. s \in Seq(Item) /\ p \in 1 .. Len(s) + 1 /\ item \in Item
      BY <1>2, <1>3, <1>4
  <2>2. r.list = t
      BY <1>1
  <2> HIDE DEF s
  <2>3. /\ Len(t) = Len(s) + 1
        /\ \A i \in 1 .. Len(s) + 1 : t[i] =
               IF i < p THEN s[i] ELSE IF i = p THEN item ELSE s[i - 1]
      BY <2>1, InsertType
  <2> HIDE DEF t
  <2>4. QED
      BY <2>2, <2>3 DEF s
\* Every event of the new queue is of the old one or new.
<1>6. \A i \in 1 .. Len(r.list) : i = p \/ (i < p /\ i \in 1 .. Len(b.list))
                                        \/ (p < i /\ i - 1 \in 1 .. Len(b.list) /\ p <= i - 1)
    BY <1>2, <1>4, <1>5
<1>7. \A i \in 1 .. Len(r.list) :
          r.list[i] = item \/ \E k \in 1 .. Len(b.list) : r.list[i] = b.list[k]
    BY <1>2, <1>4, <1>5, <1>6, SMTT(60)
<1>8. /\ \E i \in 1 .. Len(r.list) : r.list[i] = item
      /\ \A k \in 1 .. Len(b.list) : \E i \in 1 .. Len(r.list) : r.list[i] = b.list[k]
  <2>1. p \in 1 .. Len(r.list) /\ r.list[p] = item
      BY <1>2, <1>4, <1>5
  <2>2. ASSUME NEW k \in 1 .. Len(b.list) PROVE \E i \in 1 .. Len(r.list) : r.list[i] = b.list[k]
    <3>1. CASE k < p
        BY <1>2, <1>4, <1>5, <3>1
    <3>2. CASE ~(k < p)
      <4>1. k + 1 \in 1 .. Len(r.list) /\ ~(k + 1 < p) /\ k + 1 # p /\ k + 1 - 1 = k
          BY <1>2, <1>4, <1>5, <3>2
      <4>2. QED
          BY <1>5, <4>1
    <3>3. QED
        BY <3>1, <3>2
  <2>3. QED
      BY <2>1, <2>2
<1>9. \A i \in 1 .. Len(b.list) : Rank(b.list[i].m.kind) \in Nat
  <2>1. \A i \in 1 .. Len(b.list) : b.list[i].m \in Message
      BY BoxFields, ItemFields
  <2>2. QED
      BY <2>1, KindRank, Zenon
<1>10. Rank(m.kind) \in Nat
    BY KindRank
<1>11. Ordered(O, r)
  <2> SUFFICES ASSUME NEW i \in 1 .. Len(r.list), NEW k \in 1 .. Len(r.list), i < k
               PROVE  /\ Rank(r.list[i].m.kind) >= Rank(r.list[k].m.kind)
                      /\ Follows(O, r.list[i].m, r.list[k].m)
      BY DEF Ordered
  <2>0. \A j, l \in 1 .. Len(b.list) : j < l =>
            /\ Rank(b.list[j].m.kind) >= Rank(b.list[l].m.kind)
            /\ Follows(O, b.list[j].m, b.list[l].m)
      BY DEF Sound, Ordered
  <2>1. CASE i = p
    <3> DEFINE l == b.list[k - 1].m
    <3>1. k - 1 \in 1 .. Len(b.list) /\ ~(k - 1 < p) /\ r.list[k].m = l /\ r.list[i].m = m
        BY <1>2, <1>3, <1>4, <1>5, <1>6, <2>1, SMTT(60)
    <3>2. ~(Rank(l.kind) >= Rank(m.kind)) /\ Rank(l.kind) \in Nat
        BY <1>4, <1>9, <3>1
    <3>3. l.from = m.from /\ l.from \notin O => l.n # m.n
        BY <3>1 DEF Follows
    <3> HIDE DEF l
    <3>4. l.kind # m.kind
        BY <3>2
    <3>5. Follows(O, m, l)
        BY <3>3, <3>4 DEF Follows
    <3>6. QED
        BY <1>10, <3>1, <3>2, <3>5
  <2>2. CASE k = p
    <3>1. i \in 1 .. Len(b.list) /\ i < p /\ r.list[i] = b.list[i] /\ r.list[k].m = m
        BY <1>3, <1>4, <1>5, <1>6, <2>2
    <3>2. QED
        BY <1>4, <3>1
  <2>3. CASE i # p /\ k # p
    <3>1. PICK j \in 1 .. Len(b.list), l \in 1 .. Len(b.list) :
              r.list[i] = b.list[j] /\ r.list[k] = b.list[l] /\ j < l
      <4>1. CASE i < p /\ k < p
        <5>1. i \in 1 .. Len(b.list) /\ k \in 1 .. Len(b.list)
            BY <1>4, <1>6, <4>1
        <5>2. r.list[i] = b.list[i] /\ r.list[k] = b.list[k]
            BY <1>5, <4>1
        <5>3. QED
            BY <5>1, <5>2
      <4>2. CASE i < p /\ p < k
        <5>1. i \in 1 .. Len(b.list) /\ k - 1 \in 1 .. Len(b.list) /\ i < k - 1
            BY <1>4, <1>6, <4>2
        <5>2. r.list[i] = b.list[i] /\ r.list[k] = b.list[k - 1]
            BY <1>4, <1>5, <4>2
        <5>3. QED
            BY <5>1, <5>2
      <4>3. CASE p < i /\ p < k
        <5>1. i - 1 \in 1 .. Len(b.list) /\ k - 1 \in 1 .. Len(b.list) /\ i - 1 < k - 1
            BY <1>4, <1>6, <4>3
        <5>2. r.list[i] = b.list[i - 1] /\ r.list[k] = b.list[k - 1]
            BY <1>4, <1>5, <4>3
        <5>3. QED
            BY <5>1, <5>2
      <4>4. QED
          BY <1>4, <2>3, <4>1, <4>2, <4>3
    <3>2. QED
        BY <2>0, <3>1
  <2>4. QED
      BY <2>1, <2>2, <2>3
<1>17. \A i \in 1 .. Len(b.list) : b.list[i].id \in Nat /\ b.list[i].id <= b.ids
    BY BoxFields, ItemFields DEF Sound, Numbered
<1>18. Numbered(r)
  <2> SUFFICES ASSUME NEW i \in 1 .. Len(r.list), NEW k \in 1 .. Len(r.list)
               PROVE  r.list[i].id <= id /\ (r.list[i].id = r.list[k].id => i = k)
      BY <1>1 DEF Numbered
  <2>1. \A j \in 1 .. Len(r.list) : j # p =>
            /\ r.list[j].id <= b.ids /\ r.list[j].id \in Nat
            /\ r.list[j] = b.list[IF j < p THEN j ELSE j - 1]
            /\ (IF j < p THEN j ELSE j - 1) \in 1 .. Len(b.list)
    <3> SUFFICES ASSUME NEW j \in 1 .. Len(r.list), j # p
                 PROVE  /\ r.list[j].id <= b.ids /\ r.list[j].id \in Nat
                        /\ r.list[j] = b.list[IF j < p THEN j ELSE j - 1]
                        /\ (IF j < p THEN j ELSE j - 1) \in 1 .. Len(b.list)
        OBVIOUS
    <3> DEFINE l == IF j < p THEN j ELSE j - 1
    <3>1. l \in 1 .. Len(b.list)
        BY <1>4, <1>6
    <3>2. r.list[j] = b.list[l]
        BY <1>5
    <3> HIDE DEF l
    <3>3. b.list[l].id \in Nat /\ b.list[l].id <= b.ids
        BY <1>17, <3>1
    <3>4. QED
        BY <3>1, <3>2, <3>3 DEF l
  <2>2. p \in 1 .. Len(r.list) /\ r.list[p].id = id
      BY <1>2, <1>3, <1>4, <1>5
  <2>0. id \in Nat /\ b.ids \in Nat /\ b.ids <= id
      BY <1>2
  <2>3. r.list[i].id <= id
    <3>1. CASE i = p
        BY <2>0, <2>2, <3>1
    <3>2. CASE i # p
      <4>1. r.list[i].id <= b.ids /\ r.list[i].id \in Nat
          BY <2>1, <3>2
      <4>2. QED
          BY <2>0, <4>1
    <3>3. QED
        BY <3>1, <3>2
  <2>4. ASSUME r.list[i].id = r.list[k].id PROVE i = k
    <3>1. CASE i = p
        BY <1>2, <2>1, <2>2, <2>4, <3>1
    <3>2. CASE k = p
        BY <1>2, <2>1, <2>2, <2>4, <3>2
    <3>3. CASE i # p /\ k # p
      <4> DEFINE j == IF i < p THEN i ELSE i - 1
                 l == IF k < p THEN k ELSE k - 1
      <4>1. j \in 1 .. Len(b.list) /\ l \in 1 .. Len(b.list) /\ b.list[j].id = b.list[l].id
          BY <2>1, <2>4, <3>3
      <4>2. j = l
        <5> HIDE DEF j, l
        <5>1. QED
            BY <4>1 DEF Sound, Numbered
      <4>3. QED
          BY <1>4, <3>3, <4>2
    <3>4. QED
        BY <3>1, <3>2, <3>3
  <2>5. QED
      BY <2>3, <2>4
<1>12. Mirrored(r)
  <2>1. CASE b.enabled
    <3>1. /\ Len(r.global) = Len(b.global) + 1 /\ r.global[Len(b.global) + 1] = id
          /\ \A i \in 1 .. Len(b.global) : r.global[i] = b.global[i]
        BY <1>1, <1>2, <2>1, AppendProperties
    <3>2. \A i \in 1 .. Len(r.global) : i \in 1 .. Len(b.global) \/ i = Len(b.global) + 1
        BY <1>2, <3>1
    <3>3. \A i \in 1 .. Len(b.global) : i \in 1 .. Len(r.global)
        BY <1>2, <3>1
    <3>4. /\ \A i \in 1 .. Len(b.global) :
                 \E k \in 1 .. Len(b.list) : b.list[k].id = b.global[i]
          /\ \A k \in 1 .. Len(b.list) :
                 \E i \in 1 .. Len(b.global) : b.list[k].id = b.global[i]
          /\ \A i, k \in 1 .. Len(b.global) : b.global[i] = b.global[k] => i = k
        BY <2>1 DEF Sound, Mirrored
    <3>5. \A i \in 1 .. Len(r.global) : \E k \in 1 .. Len(r.list) : r.list[k].id = r.global[i]
      <4>1. ASSUME NEW i \in 1 .. Len(r.global)
            PROVE  \E k \in 1 .. Len(r.list) : r.list[k].id = r.global[i]
        <5>1. CASE i = Len(b.global) + 1
          <6>1. PICK k \in 1 .. Len(r.list) : r.list[k] = item
              BY <1>8
          <6>2. r.list[k].id = id /\ r.global[i] = id
              BY <1>3, <3>1, <5>1, <6>1
          <6>3. QED
              BY <6>2
        <5>2. CASE i \in 1 .. Len(b.global)
          <6>1. PICK j \in 1 .. Len(b.list) : b.list[j].id = b.global[i]
              BY <3>4, <5>2
          <6>2. PICK k \in 1 .. Len(r.list) : r.list[k] = b.list[j]
              BY <1>8
          <6>3. QED
              BY <3>1, <5>2, <6>1, <6>2
        <5>3. QED
            BY <3>2, <5>1, <5>2
      <4>2. QED
          BY <4>1
    <3>6. \A k \in 1 .. Len(r.list) : \E i \in 1 .. Len(r.global) : r.list[k].id = r.global[i]
      <4>1. ASSUME NEW k \in 1 .. Len(r.list)
            PROVE  \E i \in 1 .. Len(r.global) : r.list[k].id = r.global[i]
        <5>1. CASE r.list[k] = item
          <6>1. Len(b.global) + 1 \in 1 .. Len(r.global)
              BY <1>2, <3>1
          <6>2. QED
              BY <1>3, <3>1, <5>1, <6>1
        <5>2. CASE r.list[k] # item
          <6>1. PICK j \in 1 .. Len(b.list) : r.list[k] = b.list[j]
              BY <1>7, <5>2
          <6>2. PICK i \in 1 .. Len(b.global) : b.list[j].id = b.global[i]
              BY <3>4
          <6>3. QED
              BY <3>1, <3>3, <6>1, <6>2
        <5>3. QED
            BY <5>1, <5>2
      <4>2. QED
          BY <4>1
    <3>7. \A i \in 1 .. Len(b.global) : b.global[i] # id
        BY <1>2, <1>17, <3>4
    <3>8. \A i, k \in 1 .. Len(r.global) : r.global[i] = r.global[k] => i = k
        BY <3>1, <3>2, <3>4, <3>7
    <3>9. QED
        BY <1>1, <2>1, <3>5, <3>6, <3>8 DEF Mirrored
  <2>2. CASE ~b.enabled
    <3>1. r.global = b.global /\ r.enabled = b.enabled
        BY <1>1, <2>2
    <3>2. \A i \in 1 .. Len(b.global) : FALSE
        BY <2>2 DEF Sound, Mirrored
    <3>3. QED
        BY <2>2, <3>1, <3>2 DEF Mirrored
  <2>3. QED
      BY <2>1, <2>2
<1>13. Complete(r)
  <2> SUFFICES ASSUME NEW i \in 1 .. Len(r.list), r.list[i].m.kind = "chat"
               PROVE  /\ r.list[i].sent <=> r.window[r.list[i].m.from] = "inactive"
                      /\ r.window[r.list[i].m.from] # "active"
                      /\ r.list[i].sent => r.list[i].m.n \in r.done
      BY DEF Complete
  <2>1. CASE r.list[i] = item
      BY <1>1, <1>3, <2>1
  <2>2. CASE r.list[i] # item
      BY <1>1, <1>7, <2>2 DEF Sound, Complete
  <2>3. QED
      BY <2>1, <2>2
<1>14. Later(O, r)
  <2> SUFFICES ASSUME NEW i \in 1 .. Len(r.list), r.list[i].m.kind = "chat", ~r.list[i].sent,
                      r.list[i].m.from \notin O
               PROVE  \A k \in 1 .. Len(r.chat[r.list[i].m.from]) :
                          r.chat[r.list[i].m.from][k] < r.list[i].m.n
      BY DEF Later
  <2>1. CASE r.list[i] = item
      BY <1>1, <1>3, <2>1
  <2>2. CASE r.list[i] # item
    <3>1. PICK j \in 1 .. Len(b.list) : r.list[i] = b.list[j]
        BY <1>7, <2>2
    <3>2. QED
        BY <1>1, <3>1 DEF Sound, Later
  <2>3. QED
      BY <2>1, <2>2
<1>15. Ascending(O, r) /\ Opened(r)
    BY <1>1 DEF Sound, Ascending, Opened
<1>16. QED
    BY <1>11, <1>12, <1>13, <1>14, <1>15, <1>18 DEF Sound, r

\* A chat message that may come next is shown in a window that can be seen.
LEMMA ShownSound ==
    ASSUME NEW O, NEW b \in Box, Sound(O, b), NEW m \in Message, m.kind = "chat",
           b.window[m.from] \in Visible, Newer(O, b, m)
    PROVE  Sound(O, Shown(b, m.from, m))
<1> DEFINE r == Shown(b, m.from, m)
           s == b.chat[m.from]
<1>1. /\ r \in Box /\ r.list = b.list /\ r.global = b.global /\ r.ids = b.ids
      /\ r.enabled = b.enabled /\ r.window = b.window
      /\ r.chat = [b.chat EXCEPT ![m.from] = Append(s, m.n)]
      /\ r.done = b.done \cup {m.n}
    BY ShownFields
<1>2. m.from \in Contact /\ m.n \in Number
    BY DEF Message
<1>3. /\ b.chat \in [Contact -> Seq(Number)] /\ s \in Seq(Number) /\ Len(s) \in Nat
      /\ m.from \notin O => \A i \in 1 .. Len(s) : s[i] < m.n
    BY <1>2, BoxFields, ChatFields DEF Newer
<1> HIDE DEF r
<1>4. /\ \A c \in Contact : c # m.from => r.chat[c] = b.chat[c]
      /\ r.chat[m.from] = Append(s, m.n)
    BY <1>1, <1>2, <1>3
<1>5. Ordered(O, r) /\ Numbered(r) /\ Mirrored(r) /\ Complete(r)
    BY <1>1 DEF Sound, Ordered, Numbered, Mirrored, Complete
<1>6. Opened(r)
    BY <1>1, <1>2, <1>4 DEF Sound, Opened, Visible
<1>7. Ascending(O, r)
  <2> SUFFICES ASSUME NEW c \in Contact \ O, NEW i \in 1 .. Len(r.chat[c]),
                      NEW k \in 1 .. Len(r.chat[c]), i < k
               PROVE  r.chat[c][i] < r.chat[c][k]
      BY DEF Ascending
  <2>1. CASE c # m.from
      BY <1>4, <2>1 DEF Sound, Ascending
  <2>2. CASE c = m.from
    <3> DEFINE t == Append(s, m.n)
    <3>1. /\ Len(t) = Len(s) + 1 /\ t[Len(s) + 1] = m.n
          /\ \A j \in 1 .. Len(s) : t[j] = s[j]
        BY <1>2, <1>3, AppendProperties
    <3> HIDE DEF t
    <3>2. r.chat[c] = t
        BY <1>4, <2>2 DEF t
    <3>3. \A j, l \in 1 .. Len(s) : j < l => s[j] < s[l]
        BY <1>2, <2>2 DEF Sound, Ascending
    <3>4. i \in 1 .. Len(s) /\ (k \in 1 .. Len(s) \/ k = Len(s) + 1)
        BY <1>3, <3>1, <3>2
    <3>5. QED
        BY <1>3, <2>2, <3>1, <3>2, <3>3, <3>4
  <2>3. QED
      BY <2>1, <2>2
<1>8. Later(O, r)
  <2> SUFFICES ASSUME NEW i \in 1 .. Len(r.list), r.list[i].m.kind = "chat", ~r.list[i].sent,
                      r.list[i].m.from \notin O
               PROVE  \A k \in 1 .. Len(r.chat[r.list[i].m.from]) :
                          r.chat[r.list[i].m.from][k] < r.list[i].m.n
      BY DEF Later
  <2>1. i \in 1 .. Len(b.list) /\ r.list[i] = b.list[i]
      BY <1>1
  <2>2. b.list[i].m.from # m.from
      BY <2>1 DEF Sound, Complete, Visible
  <2>3. b.list[i].m.from \in Contact
      BY <2>1, BoxFields, ItemFields
  <2>4. QED
      BY <1>4, <2>1, <2>2, <2>3 DEF Sound, Later
<1>9. QED
    BY <1>5, <1>6, <1>7, <1>8 DEF Sound, r

\* What the handling of m leaves behind.
Handled(O, b, m, r) ==
    /\ r \in Box /\ Sound(O, r) /\ r.window = b.window
    /\ \A l \in Message : Newer(O, b, l) /\ Follows(O, m, l) => Newer(O, r, l)
    /\ \A n \in Nat : Upto(b, n) /\ m.n <= n => Upto(r, n)
    /\ Held(r) = Held(b) \cup {m.n}

LEMMA EnqueueList ==
    ASSUME NEW b \in Box, NEW m \in Message, NEW sent \in BOOLEAN
    PROVE  LET r == Enqueue(b, m, sent)
               item == [m |-> m, sent |-> sent, id |-> b.ids + 1]
           IN  /\ Len(r.list) = Len(b.list) + 1
               /\ \A i \in 1 .. Len(r.list) :
                      r.list[i] = item \/ \E k \in 1 .. Len(b.list) : r.list[i] = b.list[k]
               /\ \E i \in 1 .. Len(r.list) : r.list[i] = item
               /\ \A k \in 1 .. Len(b.list) : \E i \in 1 .. Len(r.list) : r.list[i] = b.list[k]
<1> DEFINE r == Enqueue(b, m, sent)
           item == [m |-> m, sent |-> sent, id |-> b.ids + 1]
           p == Position(b.list, m)
           s == b.list
           t == InsertAt(s, p, item)
<1>1. r.list = t
    BY EnqueueFields
<1>2. s \in Seq(Item) /\ Len(s) \in Nat /\ item \in Item /\ p \in 1 .. Len(s) + 1
  <2>1. s \in Seq(Item) /\ Len(s) \in Nat /\ b.ids + 1 \in Nat
      BY BoxFields
  <2>2. item \in Item
      BY <2>1 DEF Item
  <2>3. QED
      BY <2>1, <2>2, PositionType
<1> HIDE DEF r, item, p, s
<1>3. /\ Len(t) = Len(s) + 1
      /\ \A i \in 1 .. Len(s) + 1 : t[i] =
             IF i < p THEN s[i] ELSE IF i = p THEN item ELSE s[i - 1]
    BY <1>2, InsertType
<1> HIDE DEF t
<1>4. \A i \in 1 .. Len(t) : t[i] = item \/ \E k \in 1 .. Len(s) : t[i] = s[k]
  <2>1. \A i \in 1 .. Len(t) : i = p \/ (i < p /\ i \in 1 .. Len(s))
                                     \/ (p < i /\ i - 1 \in 1 .. Len(s))
      BY <1>2, <1>3
  <2>2. QED
      BY <1>2, <1>3, <2>1
<1>5. p \in 1 .. Len(t) /\ t[p] = item
    BY <1>2, <1>3
<1>6. ASSUME NEW k \in 1 .. Len(s) PROVE \E i \in 1 .. Len(t) : t[i] = s[k]
  <2>1. CASE k < p
      BY <1>2, <1>3, <2>1
  <2>2. CASE ~(k < p)
    <3>1. k + 1 \in 1 .. Len(t) /\ ~(k + 1 < p) /\ k + 1 # p /\ k + 1 - 1 = k
        BY <1>2, <1>3, <2>2
    <3>2. QED
        BY <1>3, <3>1
  <2>3. QED
      BY <2>1, <2>2
<1>7. QED
    BY <1>1, <1>3, <1>4, <1>5, <1>6 DEF r, item, s

LEMMA EnqueueHandles ==
    ASSUME NEW O, NEW b \in Box, NEW m \in Message, NEW sent \in BOOLEAN, Sound(O, Enqueue(b, m, sent))
    PROVE  Handled(O, b, m, Enqueue(b, m, sent))
<1> DEFINE r == Enqueue(b, m, sent)
           item == [m |-> m, sent |-> sent, id |-> b.ids + 1]
<1>1. r \in Box /\ Sound(O, r) /\ r.window = b.window /\ r.chat = b.chat /\ r.done = b.done
    BY EnqueueFields
<1>2. item.m = m
    OBVIOUS
<1>3. /\ \A i \in 1 .. Len(r.list) :
             r.list[i] = item \/ \E k \in 1 .. Len(b.list) : r.list[i] = b.list[k]
      /\ \E i \in 1 .. Len(r.list) : r.list[i] = item
      /\ \A k \in 1 .. Len(b.list) : \E i \in 1 .. Len(r.list) : r.list[i] = b.list[k]
    BY EnqueueList
<1> HIDE DEF r, item
<1>4. \A l \in Message : Newer(O, b, l) /\ Follows(O, m, l) => Newer(O, r, l)
    BY <1>1, <1>2, <1>3 DEF Newer
<1>5. \A n \in Nat : Upto(b, n) /\ m.n <= n => Upto(r, n)
    BY <1>1, <1>2, <1>3 DEF Upto
<1>6. Held(r) = Held(b) \cup {m.n}
  <2>1. ASSUME NEW x PROVE x \in Held(r) <=> x \in Held(b) \cup {m.n}
    <3>1. \A i \in 1 .. Len(r.list) : r.list[i].m.n = m.n
              \/ \E k \in 1 .. Len(b.list) : r.list[i].m.n = b.list[k].m.n
        BY <1>2, <1>3
    <3>2. \E i \in 1 .. Len(r.list) : r.list[i].m.n = m.n
        BY <1>2, <1>3
    <3>3. \A k \in 1 .. Len(b.list) : \E i \in 1 .. Len(r.list) : r.list[i].m.n = b.list[k].m.n
        BY <1>3
    <3>4. x \in Held(r) <=> x \in b.done \/ \E i \in 1 .. Len(r.list) : x = r.list[i].m.n
        BY <1>1 DEF Held
    <3>5. x \in Held(b) <=> x \in b.done \/ \E i \in 1 .. Len(b.list) : x = b.list[i].m.n
        BY DEF Held
    <3>6. QED
        BY <3>1, <3>2, <3>3, <3>4, <3>5
  <2>2. QED
      BY <2>1
<1>7. QED
    BY <1>1, <1>4, <1>5, <1>6 DEF Handled, r

LEMMA ShownHandles ==
    ASSUME NEW O, NEW b \in Box, NEW m \in Message, m.kind = "chat", Sound(O, Shown(b, m.from, m))
    PROVE  Handled(O, b, m, Shown(b, m.from, m))
<1> DEFINE r == Shown(b, m.from, m)
           s == b.chat[m.from]
           t == Append(s, m.n)
<1>1. /\ r \in Box /\ Sound(O, r) /\ r.list = b.list /\ r.window = b.window
      /\ r.chat = [b.chat EXCEPT ![m.from] = t] /\ r.done = b.done \cup {m.n}
    BY ShownFields
<1>2. m.from \in Contact /\ m.n \in Number /\ m.n \in Nat
    BY ConstantsAssumption DEF Message, Number
<1>3. b.chat \in [Contact -> Seq(Number)] /\ s \in Seq(Number)
    BY <1>2, BoxFields
<1>4. /\ Len(t) = Len(s) + 1 /\ t[Len(s) + 1] = m.n /\ Len(s) \in Nat
      /\ \A j \in 1 .. Len(s) : t[j] = s[j]
    BY <1>2, <1>3, AppendProperties, LenProperties
<1> HIDE DEF r, t
<1>5. \A i \in 1 .. Len(t) : t[i] = m.n \/ \E j \in 1 .. Len(s) : t[i] = s[j]
    BY <1>4
<1>6. /\ \A c \in Contact : c # m.from => r.chat[c] = b.chat[c]
      /\ r.chat[m.from] = t
    BY <1>1, <1>2, <1>3
<1>7. ASSUME NEW l \in Message, Newer(O, b, l), Follows(O, m, l) PROVE Newer(O, r, l)
  <2>1. l.kind = "chat" /\ l.from \notin O =>
            \A k \in 1 .. Len(r.chat[l.from]) : r.chat[l.from][k] < l.n
    <3>1. CASE l.from # m.from
      <4>1. l.from \in Contact
          BY DEF Message
      <4>2. QED
          BY <1>6, <1>7, <3>1, <4>1 DEF Newer
    <3>2. CASE l.from = m.from
        BY <1>5, <1>6, <1>7, <3>2 DEF Newer, Follows
    <3>3. QED
        BY <3>1, <3>2
  <2>2. QED
      BY <1>1, <1>7, <2>1 DEF Newer
<1>8. ASSUME NEW n \in Nat, Upto(b, n), m.n <= n PROVE Upto(r, n)
  <2>1. ASSUME NEW c \in Contact, NEW i \in 1 .. Len(r.chat[c]) PROVE r.chat[c][i] <= n
    <3>1. CASE c # m.from
        BY <1>6, <1>8, <2>1, <3>1 DEF Upto
    <3>2. CASE c = m.from
        BY <1>2, <1>5, <1>6, <1>8, <2>1, <3>2 DEF Upto
    <3>3. QED
        BY <3>1, <3>2
  <2>2. QED
      BY <1>1, <1>8, <2>1 DEF Upto
<1>9. Held(r) = Held(b) \cup {m.n}
    BY <1>1 DEF Held
<1>10. QED
    BY <1>1, <1>7, <1>8, <1>9 DEF Handled, r

LEMMA HandledTwice ==
    ASSUME NEW O, NEW a, NEW b, NEW r, NEW m, Handled(O, a, m, b), Handled(O, b, m, r)
    PROVE  Handled(O, a, m, r)
    BY DEF Handled

LEMMA KeepsHandled ==
    ASSUME NEW O, NEW a, NEW b, NEW r, NEW m, Keeps(O, a, b), b.window = a.window, Handled(O, b, m, r)
    PROVE  Handled(O, a, m, r)
    BY DEF Keeps, Handled

\* A message that may come next is handled.
LEMMA HandleHandles ==
    ASSUME NEW O, NEW b \in Box, Sound(O, b), NEW m \in Message, Newer(O, b, m), NEW fromXml \in BOOLEAN
    PROVE  /\ Handled(O, b, m, Handle(b, m, fromXml))
           /\ b.window[m.from] \notin Visible =>
                  Len(Handle(b, m, fromXml).list) = Len(b.list) + 1
<1> DEFINE on == IF fromXml THEN b ELSE SetEnabled(b, TRUE)
           r == Handle(b, m, fromXml)
<1>1. Keeps(O, b, on) /\ on.window = b.window /\ on.list = b.list
  <2>1. CASE fromXml
      BY <2>1 DEF Keeps
  <2>2. CASE ~fromXml
      BY <2>2, SetEnabledKeeps, SetEnabledFields
  <2>3. QED
      BY <2>1, <2>2
<1>2. r = IF m.kind # "chat" \/ on.window[m.from] \notin Visible THEN Enqueue(on, m, FALSE)
          ELSE IF on.window[m.from] = "active" THEN Shown(on, m.from, m)
          ELSE Enqueue(Shown(on, m.from, m), m, TRUE)
    BY DEF Handle
<1> HIDE DEF on, r
<1>3. on \in Box /\ Sound(O, on) /\ Newer(O, on, m)
    BY <1>1 DEF Keeps
<1>4. SUFFICES /\ Handled(O, on, m, r)
               /\ b.window[m.from] \notin Visible => Len(r.list) = Len(b.list) + 1
    BY <1>1, KeepsHandled DEF r
<1>5. m.from \in Contact
    BY DEF Message
<1>6. \A i \in 1 .. Len(on.list) : Follows(O, on.list[i].m, m)
    BY <1>3 DEF Newer
<1>7. CASE m.kind # "chat" \/ on.window[m.from] \notin Visible
  <2>1. m.kind = "chat" /\ m.from \notin O =>
            \A k \in 1 .. Len(on.chat[m.from]) : on.chat[m.from][k] < m.n
      BY <1>3 DEF Newer
  <2>2. Sound(O, Enqueue(on, m, FALSE))
      BY <1>3, <1>6, <1>7, <2>1, EnqueueSound DEF Visible
  <2>3. Handled(O, on, m, Enqueue(on, m, FALSE))
      BY <1>3, <2>2, EnqueueHandles
  <2>4. Len(Enqueue(on, m, FALSE).list) = Len(on.list) + 1
      BY <1>3, EnqueueList
  <2>5. QED
      BY <1>1, <1>2, <1>7, <2>3, <2>4
<1>8. CASE m.kind = "chat" /\ on.window[m.from] \in Visible
  <2> DEFINE b2 == Shown(on, m.from, m)
  <2>1. Sound(O, b2)
      BY <1>3, <1>8, ShownSound
  <2>2. Handled(O, on, m, b2)
      BY <1>3, <1>8, <2>1, ShownHandles
  <2>3. b2 \in Box /\ b2.list = on.list /\ b2.window = on.window /\ m.n \in b2.done
      BY <1>3, ShownFields
  <2> HIDE DEF b2
  <2>4. CASE on.window[m.from] = "active"
      BY <1>1, <1>2, <1>8, <2>2, <2>4 DEF b2
  <2>5. CASE on.window[m.from] # "active"
    <3>1. on.window[m.from] = "inactive" /\ r = Enqueue(b2, m, TRUE)
        BY <1>2, <1>8, <2>5 DEF Visible, b2
    <3>2. Sound(O, Enqueue(b2, m, TRUE))
        BY <1>6, <2>1, <2>3, <3>1, EnqueueSound
    <3>3. Handled(O, b2, m, r)
        BY <2>3, <3>1, <3>2, EnqueueHandles
    <3>4. QED
        BY <1>1, <1>8, <2>2, <3>3, HandledTwice
  <2>6. QED
      BY <2>4, <2>5
<1>9. QED
    BY <1>7, <1>8

\* Any message at all leaves a box.
LEMMA HandleType ==
    ASSUME NEW b \in Box, NEW m \in Message
    PROVE  Handle(b, m, FALSE) \in Box
<1> DEFINE on == SetEnabled(b, TRUE)
<1>1. on \in Box
    BY SetEnabledFields
<1> HIDE DEF on
<1>2. Shown(on, m.from, m) \in Box
    BY <1>1, ShownFields
<1>3. Enqueue(on, m, FALSE) \in Box /\ Enqueue(Shown(on, m.from, m), m, TRUE) \in Box
    BY <1>1, <1>2, EnqueueFields
<1>4. QED
    BY <1>2, <1>3 DEF Handle, on

LEMMA HandledToSteps ==
    ASSUME NEW b \in Box, NEW q \in Seq(Message)
    PROVE  /\ HandledTo(b, q, 0) = b
           /\ \A i \in 1 .. Len(q) :
                  HandledTo(b, q, i) = Handle(HandledTo(b, q, i - 1), q[i], FALSE)
<1> DEFINE F(v) == [i \in 0 .. Len(q) |-> IF i = 0 THEN b ELSE Handle(v[i - 1], q[i], FALSE)]
           val == CHOOSE v : v = F(v)
           g == [i \in 1 .. Len(q) |-> [y \in Box |-> Handle(y, q[i], FALSE)]]
<1>1. Len(q) \in Nat
    BY LenProperties
<1>2. g \in [1 .. Len(q) -> [Box -> Box]]
  <2>1. ASSUME NEW i \in 1 .. Len(q), NEW y \in Box PROVE Handle(y, q[i], FALSE) \in Box
    <3>1. q[i] \in Message
        BY ElementOfSeq
    <3>2. QED
        BY <3>1, HandleType
  <2>2. QED
      BY <2>1
<1> HIDE DEF g
<1>3. PICK f \in [0 .. Len(q) -> Box] : Iterates(f, Len(q), b, g)
    BY <1>1, <1>2, RecursionExists, Zenon
<1>4. f = F(f)
  <2>1. ASSUME NEW i \in 0 .. Len(q) PROVE f[i] = F(f)[i]
    <3>1. CASE i = 0
        BY <1>3, <3>1 DEF Iterates
    <3>2. CASE i # 0
      <4>1. i \in 1 .. Len(q) /\ i - 1 \in 0 .. Len(q)
          BY <1>1, <3>2
      <4>2. f[i] = g[i][f[i - 1]] /\ f[i - 1] \in Box
          BY <1>3, <4>1 DEF Iterates
      <4>3. g[i][f[i - 1]] = Handle(f[i - 1], q[i], FALSE)
          BY <4>1, <4>2 DEF g
      <4>4. QED
          BY <3>2, <4>1, <4>2, <4>3
    <3>3. QED
        BY <3>1, <3>2
  <2>2. QED
      BY <2>1
<1>5. val = F(val)
    BY <1>4
<1>6. \A k : HandledTo(b, q, k) = val[k]
    BY DEF HandledTo
<1> HIDE DEF val
<1>7. \A i \in 0 .. Len(q) : val[i] = IF i = 0 THEN b ELSE Handle(val[i - 1], q[i], FALSE)
    BY <1>5
<1>8. 0 \in 0 .. Len(q) /\ \A i \in 1 .. Len(q) : i \in 0 .. Len(q) /\ i # 0
    BY <1>1
<1>9. QED
    BY <1>6, <1>7, <1>8

\* A queue of messages is handled, each of which may come next, in this order.
LEMMA AllHandled ==
    ASSUME NEW O, NEW b \in Box, Sound(O, b), NEW q \in Seq(Message),
           \A i \in 1 .. Len(q) : Newer(O, b, q[i]),
           \A i, k \in 1 .. Len(q) : i < k => Follows(O, q[i], q[k]),
           NEW n \in 0 .. Len(q)
    PROVE  LET r == HandledTo(b, q, n)
           IN  /\ r \in Box /\ Sound(O, r) /\ r.window = b.window
               /\ \A l \in Message :
                      Newer(O, b, l) /\ (\A i \in 1 .. n : Follows(O, q[i], l)) => Newer(O, r, l)
               /\ \A x \in Nat : Upto(b, x) /\ (\A i \in 1 .. n : q[i].n <= x) => Upto(r, x)
               /\ Held(r) = Held(b) \cup {q[i].n : i \in 1 .. n}
<1> DEFINE H(k) == HandledTo(b, q, k)
           Good(k) ==
               /\ H(k) \in Box /\ Sound(O, H(k)) /\ H(k).window = b.window
               /\ \A l \in Message :
                      Newer(O, b, l) /\ (\A i \in 1 .. k : Follows(O, q[i], l)) => Newer(O, H(k), l)
               /\ \A x \in Nat : Upto(b, x) /\ (\A i \in 1 .. k : q[i].n <= x) => Upto(H(k), x)
               /\ Held(H(k)) = Held(b) \cup {q[i].n : i \in 1 .. k}
           Bad == {k \in 0 .. Len(q) : ~Good(k)}
<1>1. Len(q) \in Nat /\ \A i \in 1 .. Len(q) : q[i] \in Message
    BY LenProperties, ElementOfSeq
<1>2. H(0) = b /\ \A i \in 1 .. Len(q) : H(i) = Handle(H(i - 1), q[i], FALSE)
    BY HandledToSteps
<1> HIDE DEF H
<1>3. Good(0)
  <2>1. {q[i].n : i \in 1 .. 0} = {}
      OBVIOUS
  <2>2. QED
      BY <1>2, <2>1
<1>4. ASSUME NEW k \in 1 .. Len(q), Good(k - 1) PROVE Good(k)
  <2> DEFINE a == H(k - 1)
             r == H(k)
             m == q[k]
  <2>1. m \in Message /\ r = Handle(a, m, FALSE)
      BY <1>1, <1>2
  <2>2. /\ a \in Box /\ Sound(O, a) /\ a.window = b.window
        /\ \A l \in Message :
               Newer(O, b, l) /\ (\A i \in 1 .. k - 1 : Follows(O, q[i], l)) => Newer(O, a, l)
        /\ \A x \in Nat : Upto(b, x) /\ (\A i \in 1 .. k - 1 : q[i].n <= x) => Upto(a, x)
        /\ Held(a) = Held(b) \cup {q[i].n : i \in 1 .. k - 1}
      BY <1>4
  <2>3. \A i \in 1 .. k - 1 : i \in 1 .. Len(q) /\ i < k
      BY <1>1
  <2>4. \A i \in 1 .. k : i = k \/ i \in 1 .. k - 1
      OBVIOUS
  <2>9. k \in 1 .. k /\ \A i \in 1 .. k - 1 : i \in 1 .. k
      OBVIOUS
  <2> HIDE DEF a, r
  <2>5. Newer(O, a, m)
      BY <2>1, <2>2, <2>3
  <2>6. Handled(O, a, m, r)
      BY <2>1, <2>2, <2>5, HandleHandles
  <2>7. /\ \A l \in Message :
               Newer(O, b, l) /\ (\A i \in 1 .. k : Follows(O, q[i], l)) => Newer(O, r, l)
        /\ \A x \in Nat : Upto(b, x) /\ (\A i \in 1 .. k : q[i].n <= x) => Upto(r, x)
      BY <2>2, <2>6, <2>9 DEF Handled
  <2>8. Held(r) = Held(b) \cup {q[i].n : i \in 1 .. k}
    <3>1. {q[i].n : i \in 1 .. k} = {q[i].n : i \in 1 .. k - 1} \cup {m.n}
        BY <2>4, <2>9
    <3>2. QED
        BY <2>2, <2>6, <3>1 DEF Handled
  <2>10. QED
      BY <2>2, <2>6, <2>7, <2>8 DEF Handled, r
<1> HIDE DEF Good
<1>5. Bad = {}
  <2>1. SUFFICES ASSUME Bad # {} PROVE FALSE
      OBVIOUS
  <2>2. Bad \in SUBSET Nat
      BY <1>1
  <2>3. PICK m \in Bad : \A i \in Bad : m <= i
      BY <2>1, <2>2, LeastNumber
  <2>4. m \in 1 .. Len(q) /\ m - 1 \in 0 .. Len(q) /\ m - 1 \notin Bad
      BY <1>1, <1>3, <2>3
  <2>5. QED
      BY <1>4, <2>3, <2>4
<1>6. Good(n)
    BY <1>5
<1>7. QED
    BY <1>6 DEF Good, H

-----------------------------------------------------------------------------
(* Events are taken away.                                                  *)

LEMMA DequeueFields ==
    ASSUME NEW b \in Box, NEW gone
    PROVE  /\ Dequeue(b, gone) \in Box
           /\ Dequeue(b, gone).list =
                  Selected(b.list, {i \in 1 .. Len(b.list) : b.list[i] \notin gone})
           /\ Dequeue(b, gone).global =
                  IF b.enabled THEN Unlisted(b.global, Ids(gone)) ELSE b.global
           /\ Dequeue(b, gone).ids = b.ids
           /\ Dequeue(b, gone).enabled = b.enabled /\ Dequeue(b, gone).window = b.window
           /\ Dequeue(b, gone).chat = b.chat /\ Dequeue(b, gone).done = b.done
<1> DEFINE K == {i \in 1 .. Len(b.list) : b.list[i] \notin gone}
           list == Selected(b.list, K)
           global == IF b.enabled THEN Unlisted(b.global, Ids(gone)) ELSE b.global
<1>1. /\ b.list \in Seq(Item) /\ DOMAIN b.list = 1 .. Len(b.list) /\ b.global \in Seq(Nat)
    BY BoxFields
<1>2. list \in Seq(Item)
    BY <1>1, SelectedTakes
<1>3. global \in Seq(Nat)
    BY <1>1, UnlistedType
<1>4. Dequeue(b, gone) = [b EXCEPT !.list = list, !.global = global]
    BY <1>1 DEF Dequeue
<1> HIDE DEF list, global
<1>5. QED
    BY <1>2, <1>3, <1>4 DEF Box, list, global

\* t is s without gone: its i-th entry is the f[i]-th of s.
Thins(t, s, gone, f) ==
    /\ \A i \in 1 .. Len(t) :
           f[i] \in 1 .. Len(s) /\ t[i] = s[f[i]] /\ t[i] \notin gone
    /\ \A i, k \in 1 .. Len(t) : i < k => f[i] < f[k]
    /\ \A k \in 1 .. Len(s) : s[k] \notin gone => \E i \in 1 .. Len(t) : t[i] = s[k]

LEMMA DequeueList ==
    ASSUME NEW b \in Box, NEW gone
    PROVE  \E f : Thins(Dequeue(b, gone).list, b.list, gone, f)
<1> DEFINE r == Dequeue(b, gone)
           s == b.list
           K == {i \in 1 .. Len(s) : s[i] \notin gone}
           t == Selected(s, K)
<1>1. s \in Seq(Item)
    BY BoxFields
<1>2. r.list = t
    BY DequeueFields
<1> HIDE DEF s, r, t
<1>3. PICK f : Takes(t, s, K, Len(s), f)
    BY <1>1, SelectedTakes DEF t
<1>4. Thins(t, s, gone, f)
    BY <1>3 DEF Takes, Thins
<1>5. QED
    BY <1>2, <1>4 DEF r, s

\* Events of the queue are taken out of it, and the others stay.
LEMMA DequeueSound ==
    ASSUME NEW O, NEW b \in Box, Sound(O, b), NEW gone \in SUBSET Items(b)
    PROVE  LET r == Dequeue(b, gone)
           IN  /\ Sound(O, r)
               /\ \A m \in Message : Newer(O, b, m) => Newer(O, r, m)
               /\ \A n \in Nat : Upto(b, n) => Upto(r, n)
               /\ Held(b) = Held(r) \cup Numbers(gone)
<1> DEFINE r == Dequeue(b, gone)
           N == Ids(gone)
<1>1. /\ r \in Box /\ r.enabled = b.enabled /\ r.window = b.window /\ r.chat = b.chat
      /\ r.done = b.done /\ r.ids = b.ids
      /\ r.global = IF b.enabled THEN Unlisted(b.global, N) ELSE b.global
    BY DequeueFields
<1>0. PICK f : Thins(r.list, b.list, gone, f)
    BY DequeueList
<1>2. /\ \A i \in 1 .. Len(r.list) :
             f[i] \in 1 .. Len(b.list) /\ r.list[i] = b.list[f[i]] /\ r.list[i] \notin gone
      /\ \A i, k \in 1 .. Len(r.list) : i < k => f[i] < f[k]
      /\ \A k \in 1 .. Len(b.list) : b.list[k] \notin gone =>
             \E i \in 1 .. Len(r.list) : r.list[i] = b.list[k]
    BY <1>0 DEF Thins
<1>3. /\ b.global \in Seq(Nat) /\ DOMAIN b.list = 1 .. Len(b.list) /\ Len(b.list) \in Nat
      /\ b.enabled \in BOOLEAN
    BY BoxFields
<1> HIDE DEF r
\* An event that stays has an id none of those taken has.
<1>4. \A k \in 1 .. Len(b.list) : b.list[k] \in gone <=> b.list[k].id \in N
  <2>1. \A i, k \in 1 .. Len(b.list) : b.list[i].id = b.list[k].id => i = k
      BY DEF Sound, Numbered
  <2>2. \A x \in gone : \E i \in 1 .. Len(b.list) : x = b.list[i]
      BY <1>3 DEF Items
  <2>3. QED
      BY <2>1, <2>2 DEF Ids
<1>5. Numbers(gone) = {b.list[i].m.n : i \in {k \in 1 .. Len(b.list) : b.list[k] \in gone}}
    BY <1>3 DEF Numbers, Items
<1> HIDE DEF N
<1>6. Ordered(O, r)
  <2>1. \A j, l \in 1 .. Len(b.list) : j < l =>
            /\ Rank(b.list[j].m.kind) >= Rank(b.list[l].m.kind)
            /\ Follows(O, b.list[j].m, b.list[l].m)
      BY DEF Sound, Ordered
  <2>2. ASSUME NEW i \in 1 .. Len(r.list), NEW k \in 1 .. Len(r.list), i < k
        PROVE  /\ Rank(r.list[i].m.kind) >= Rank(r.list[k].m.kind)
               /\ Follows(O, r.list[i].m, r.list[k].m)
    <3>1. /\ f[i] \in 1 .. Len(b.list) /\ f[k] \in 1 .. Len(b.list) /\ f[i] < f[k]
          /\ r.list[i] = b.list[f[i]] /\ r.list[k] = b.list[f[k]]
        BY <1>2, <2>2
    <3>2. QED
        BY <2>1, <3>1
  <2>3. QED
      BY <2>2 DEF Ordered
<1>14. \A i \in 1 .. Len(r.list) : \E k \in 1 .. Len(b.list) : r.list[i] = b.list[k]
    BY <1>2
<1>15. Complete(r)
    BY <1>1, <1>14 DEF Sound, Complete
<1>17. Numbered(r)
  <2>1. ASSUME NEW i \in 1 .. Len(r.list), NEW k \in 1 .. Len(r.list)
        PROVE  r.list[i].id <= r.ids /\ (r.list[i].id = r.list[k].id => i = k)
    <3>1. /\ f[i] \in 1 .. Len(b.list) /\ f[k] \in 1 .. Len(b.list)
          /\ r.list[i] = b.list[f[i]] /\ r.list[k] = b.list[f[k]]
        BY <1>2
    <3>2. r.list[i].id <= r.ids /\ (r.list[i].id = r.list[k].id => f[i] = f[k])
        BY <1>1, <3>1 DEF Sound, Numbered
    <3>3. f[i] = f[k] => ~(i < k) /\ ~(k < i)
        BY <1>2, <3>1
    <3>4. Len(r.list) \in Nat
        BY <1>1, BoxFields
    <3>5. QED
        BY <3>2, <3>3, <3>4
  <2>2. QED
      BY <2>1 DEF Numbered
<1>16. Later(O, r)
    BY <1>1, <1>14 DEF Sound, Later
<1>7. Complete(r) /\ Later(O, r) /\ Ascending(O, r) /\ Opened(r)
    BY <1>1, <1>15, <1>16 DEF Sound, Ascending, Opened
<1>8. Mirrored(r)
  <2>1. CASE b.enabled
    <3> DEFINE g == b.global
               u == Unlisted(g, N)
    <3>1. /\ \A i \in 1 .. Len(u) : u[i] \notin N /\ \E k \in 1 .. Len(g) : u[i] = g[k]
          /\ \A k \in 1 .. Len(g) : g[k] \notin N => \E i \in 1 .. Len(u) : u[i] = g[k]
          /\ Once(g) => Once(u)
      <4>1. g \in Seq(Nat)
          BY <1>3
      <4> HIDE DEF g
      <4>2. QED
          BY <4>1, UnlistedIs
    <3>2. r.global = u
        BY <1>1, <2>1
    <3> HIDE DEF u
    <3>3. /\ \A i \in 1 .. Len(g) : \E k \in 1 .. Len(b.list) : b.list[k].id = g[i]
          /\ \A k \in 1 .. Len(b.list) : \E i \in 1 .. Len(g) : b.list[k].id = g[i]
          /\ Once(g)
        BY <2>1 DEF Sound, Mirrored, Once
    <3> HIDE DEF g
    <3>4. ASSUME NEW i \in 1 .. Len(u) PROVE \E k \in 1 .. Len(r.list) : r.list[k].id = u[i]
      <4>1. PICK j \in 1 .. Len(g) : u[i] = g[j]
          BY <3>1
      <4>2. PICK k \in 1 .. Len(b.list) : b.list[k].id = g[j]
          BY <3>3
      <4>3. b.list[k] \notin gone
          BY <1>4, <3>1, <4>1, <4>2
      <4>4. QED
          BY <1>2, <4>1, <4>2, <4>3
    <3>5. ASSUME NEW k \in 1 .. Len(r.list) PROVE \E i \in 1 .. Len(u) : r.list[k].id = u[i]
      <4> DEFINE j == f[k]
      <4>1. j \in 1 .. Len(b.list) /\ r.list[k] = b.list[j] /\ b.list[j] \notin gone
          BY <1>2
      <4> HIDE DEF j
      <4>2. b.list[j].id \notin N
          BY <1>4, <4>1
      <4>3. PICK l \in 1 .. Len(g) : b.list[j].id = g[l]
          BY <3>3, <4>1
      <4>4. QED
          BY <3>1, <4>1, <4>2, <4>3
    <3>6. \A i, k \in 1 .. Len(u) : u[i] = u[k] => i = k
        BY <3>1, <3>3 DEF Once
    <3>7. r.enabled = TRUE
        BY <1>1, <1>3, <2>1
    <3>8. QED
        BY <3>2, <3>4, <3>5, <3>6, <3>7 DEF Mirrored
  <2>2. CASE ~b.enabled
    <3>1. \A i \in 1 .. Len(b.global) : FALSE
        BY <2>2 DEF Sound, Mirrored
    <3>2. r.global = b.global
        BY <1>1, <2>2
    <3>3. QED
        BY <1>1, <2>2, <3>1, <3>2 DEF Mirrored
  <2>3. QED
      BY <2>1, <2>2
<1>9. \A m \in Message : Newer(O, b, m) => Newer(O, r, m)
    BY <1>1, <1>2 DEF Newer
<1>10. \A n \in Nat : Upto(b, n) => Upto(r, n)
    BY <1>1, <1>2 DEF Upto
<1>11. Held(b) = Held(r) \cup Numbers(gone)
  <2>1. \A x : x \in Numbers(gone) <=> \E i \in 1 .. Len(b.list) : b.list[i] \in gone /\ x = b.list[i].m.n
      BY <1>5
  <2>2. \A x : x \in Held(r) <=> x \in b.done \/ \E i \in 1 .. Len(r.list) : x = r.list[i].m.n
      BY <1>1 DEF Held
  <2>3. \A x : x \in Held(b) <=> x \in b.done \/ \E i \in 1 .. Len(b.list) : x = b.list[i].m.n
      BY DEF Held
  <2>4. ASSUME NEW x
        PROVE  (\E i \in 1 .. Len(b.list) : x = b.list[i].m.n)
                  <=> (\E i \in 1 .. Len(r.list) : x = r.list[i].m.n) \/ x \in Numbers(gone)
    <3>1. ASSUME NEW i \in 1 .. Len(b.list)
          PROVE  b.list[i].m.n \in Numbers(gone) \/ \E k \in 1 .. Len(r.list) : b.list[i].m.n = r.list[k].m.n
        BY <1>2, <2>1
    <3>2. \A i \in 1 .. Len(r.list) : \E k \in 1 .. Len(b.list) : r.list[i].m.n = b.list[k].m.n
        BY <1>14
    <3>3. x \in Numbers(gone) => \E i \in 1 .. Len(b.list) : x = b.list[i].m.n
        BY <2>1
    <3>4. QED
        BY <3>1, <3>2, <3>3, SMTT(60)
  <2>5. QED
      BY <2>2, <2>3, <2>4
<1>12. Sound(O, r)
    BY <1>6, <1>7, <1>8, <1>17 DEF Sound
<1>13. QED
    BY <1>9, <1>10, <1>11, <1>12 DEF r

\* Events are taken out of the queue and are done with.
LEMMA DropKeeps ==
    ASSUME NEW O, NEW b \in Box, Sound(O, b), NEW gone \in SUBSET Items(b)
    PROVE  Keeps(O, b, [Dequeue(b, gone) EXCEPT !.done = @ \cup Numbers(gone)])
<1> DEFINE d == Dequeue(b, gone)
           N == Numbers(gone)
           r == [d EXCEPT !.done = @ \cup N]
<1>1. d \in Box
    BY DequeueFields
<1>2. /\ Sound(O, d)
      /\ \A m \in Message : Newer(O, b, m) => Newer(O, d, m)
      /\ \A n \in Nat : Upto(b, n) => Upto(d, n)
      /\ Held(b) = Held(d) \cup N
    BY DequeueSound
<1>3. N \in SUBSET Number
  <2>1. DOMAIN b.list = 1 .. Len(b.list)
      BY BoxFields
  <2>2. \A i \in 1 .. Len(b.list) : b.list[i].m.n \in Number
      BY BoxFields, ItemFields
  <2>3. QED
      BY <2>1, <2>2 DEF Numbers, Items
<1> HIDE DEF d, N
<1>4. /\ r \in Box /\ r.list = d.list /\ r.global = d.global /\ r.enabled = d.enabled
      /\ r.window = d.window /\ r.chat = d.chat /\ r.done = d.done \cup N /\ r.ids = d.ids
    BY <1>1, <1>3 DEF Box
<1> HIDE DEF r
<1>5. Sound(O, r)
  <2>1. Ordered(O, r)
      BY <1>2, <1>4 DEF Sound, Ordered
  <2>2. Numbered(r)
      BY <1>2, <1>4 DEF Sound, Numbered
  <2>3. Mirrored(r)
      BY <1>2, <1>4 DEF Sound, Mirrored
  <2>4. Complete(r)
      BY <1>2, <1>4 DEF Sound, Complete
  <2>5. Ascending(O, r)
      BY <1>2, <1>4 DEF Sound, Ascending
  <2>6. Opened(r)
      BY <1>2, <1>4 DEF Sound, Opened
  <2>7. Later(O, r)
      BY <1>2, <1>4 DEF Sound, Later
  <2>8. QED
      BY <2>1, <2>2, <2>3, <2>4, <2>5, <2>6, <2>7 DEF Sound
<1>6. /\ \A m \in Message : Newer(O, b, m) => Newer(O, r, m)
      /\ \A n \in Nat : Upto(b, n) => Upto(r, n)
    BY <1>2, <1>4 DEF Newer, Upto
<1>7. Held(r) = Held(b)
    BY <1>2, <1>4 DEF Held
<1>8. QED
    BY <1>4, <1>5, <1>6, <1>7 DEF Keeps, r, d, N

-----------------------------------------------------------------------------
(* Windows.                                                                *)

LEMMA ChatsIs ==
    ASSUME NEW b \in Box, NEW c
    PROVE  /\ Chats(b, c) \in SUBSET Items(b) /\ From(b, c) \in SUBSET Items(b)
           /\ \A i \in 1 .. Len(b.list) : b.list[i] \in Chats(b, c) <=>
                  b.list[i].m.from = c /\ b.list[i].m.kind = "chat"
           /\ \A i \in 1 .. Len(b.list) : b.list[i] \in From(b, c) <=> b.list[i].m.from = c
<1>1. DOMAIN b.list = 1 .. Len(b.list)
    BY BoxFields
<1>2. QED
    BY <1>1 DEF Chats, From, Items

\* The numbers of what is not shown yet, in their order.
LEMMA UnsentIs ==
    ASSUME NEW O, NEW b \in Box, Sound(O, b), NEW c
    PROVE  /\ Unsent(b, c) \in Seq(Number)
           /\ \A i \in 1 .. Len(Unsent(b, c)) : \E k \in 1 .. Len(b.list) :
                  /\ b.list[k].m.from = c /\ b.list[k].m.kind = "chat" /\ ~b.list[k].sent
                  /\ Unsent(b, c)[i] = b.list[k].m.n
           /\ \A k \in 1 .. Len(b.list) :
                  b.list[k].m.from = c /\ b.list[k].m.kind = "chat" /\ ~b.list[k].sent =>
                      \E i \in 1 .. Len(Unsent(b, c)) : Unsent(b, c)[i] = b.list[k].m.n
           /\ c \notin O => \A i, k \in 1 .. Len(Unsent(b, c)) :
                  i < k => Unsent(b, c)[i] < Unsent(b, c)[k]
<1> DEFINE new == {i \in DOMAIN b.list : b.list[i] \in Chats(b, c) /\ ~b.list[i].sent}
           ns == [i \in DOMAIN b.list |-> b.list[i].m.n]
           u == Selected(ns, new)
<1>1. /\ DOMAIN b.list = 1 .. Len(b.list) /\ Len(b.list) \in Nat
      /\ \A i \in 1 .. Len(b.list) : b.list[i].m.n \in Number
    BY BoxFields, ItemFields
<1>2. /\ ns \in Seq(Number) /\ Len(ns) = Len(b.list)
      /\ \A i \in 1 .. Len(b.list) : ns[i] = b.list[i].m.n
    BY <1>1
<1>3. \A i \in 1 .. Len(b.list) : i \in new <=>
          b.list[i].m.from = c /\ b.list[i].m.kind = "chat" /\ ~b.list[i].sent
    BY <1>1, ChatsIs
<1>4. Unsent(b, c) = u
    BY DEF Unsent
<1> HIDE DEF ns, new
<1>5. u \in Seq(Number) /\ \E f : Takes(u, ns, new, Len(ns), f)
    BY <1>2, SelectedTakes
<1> HIDE DEF u
<1>6. PICK f : Takes(u, ns, new, Len(ns), f)
    BY <1>5
<1>7. \A i \in 1 .. Len(u) : /\ f[i] \in 1 .. Len(b.list) /\ f[i] \in new
                             /\ u[i] = b.list[f[i]].m.n
    BY <1>2, <1>6 DEF Takes
<1>8. \A k \in 1 .. Len(b.list) : k \in new => \E i \in 1 .. Len(u) : u[i] = b.list[k].m.n
  <2>1. ASSUME NEW k \in 1 .. Len(b.list), k \in new
        PROVE  \E i \in 1 .. Len(u) : u[i] = b.list[k].m.n
    <3>1. PICK i \in 1 .. Len(u) : f[i] = k
        BY <1>2, <1>6, <2>1 DEF Takes
    <3>2. QED
        BY <1>7, <3>1
  <2>2. QED
      BY <2>1
<1>9. ASSUME c \notin O PROVE \A i, k \in 1 .. Len(u) : i < k => u[i] < u[k]
  <2>1. ASSUME NEW i \in 1 .. Len(u), NEW k \in 1 .. Len(u), i < k PROVE u[i] < u[k]
    <3> DEFINE x == f[i]
               y == f[k]
    <3>1. x < y
        BY <1>6, <2>1 DEF Takes
    <3>2. /\ x \in 1 .. Len(b.list) /\ y \in 1 .. Len(b.list) /\ x \in new /\ y \in new
          /\ u[i] = b.list[x].m.n /\ u[k] = b.list[y].m.n
        BY <1>7
    <3> HIDE DEF x, y
    <3>3. QED
        BY <1>3, <1>9, <3>1, <3>2 DEF Sound, Ordered, Follows
  <2>2. QED
      BY <2>1
<1>10. QED
    BY <1>3, <1>4, <1>5, <1>7, <1>8, <1>9

NoChats(b, c) == \A i \in 1 .. Len(b.list) :
    ~(b.list[i].m.from = c /\ b.list[i].m.kind = "chat")

\* The window of c, if there is one, shows all of c's chat messages.
LEMMA ProcessChatsKeeps ==
    ASSUME NEW O, NEW b \in Box, Sound(O, b), NEW c \in Contact
    PROVE  /\ Keeps(O, b, ProcessChats(b, c))
           /\ ProcessChats(b, c).window = b.window
           /\ b.window[c] # "none" => NoChats(ProcessChats(b, c), c)
<1>1. CASE b.window[c] = "none"
    BY <1>1 DEF ProcessChats, Keeps
<1>2. CASE b.window[c] # "none"
  <2> DEFINE G == Chats(b, c)
             d == Dequeue(b, G)
             u == Unsent(b, c)
             s == b.chat[c]
             U == {u[i] : i \in DOMAIN u}
             r == [d EXCEPT !.chat[c] = @ \o u, !.done = @ \cup U]
  <2>1. ProcessChats(b, c) = r
      BY <1>2 DEF ProcessChats
  <2>2. /\ u \in Seq(Number)
        /\ \A i \in 1 .. Len(u) : \E k \in 1 .. Len(b.list) :
               /\ b.list[k].m.from = c /\ b.list[k].m.kind = "chat" /\ ~b.list[k].sent
               /\ u[i] = b.list[k].m.n
        /\ \A k \in 1 .. Len(b.list) :
               b.list[k].m.from = c /\ b.list[k].m.kind = "chat" /\ ~b.list[k].sent =>
                   \E i \in 1 .. Len(u) : u[i] = b.list[k].m.n
        /\ c \notin O => \A i, k \in 1 .. Len(u) : i < k => u[i] < u[k]
      BY UnsentIs
  <2>3. /\ G \in SUBSET Items(b)
        /\ \A i \in 1 .. Len(b.list) : b.list[i] \in G <=>
               b.list[i].m.from = c /\ b.list[i].m.kind = "chat"
      BY ChatsIs
  <2>4. /\ d \in Box /\ d.window = b.window /\ d.chat = b.chat /\ d.done = b.done
        /\ d.ids = b.ids
      BY DequeueFields
  <2>5. /\ Sound(O, d)
        /\ \A m \in Message : Newer(O, b, m) => Newer(O, d, m)
        /\ \A n \in Nat : Upto(b, n) => Upto(d, n)
        /\ Held(b) = Held(d) \cup Numbers(G)
      BY <2>3, DequeueSound
  <2>6. PICK f : Thins(d.list, b.list, G, f)
      BY DequeueList
  <2>7. NoChats(d, c)
    <3>1. \A i \in 1 .. Len(d.list) :
              f[i] \in 1 .. Len(b.list) /\ d.list[i] = b.list[f[i]] /\ d.list[i] \notin G
        BY <2>6 DEF Thins
    <3>2. ASSUME NEW i \in 1 .. Len(d.list)
          PROVE  ~(d.list[i].m.from = c /\ d.list[i].m.kind = "chat")
      <4> DEFINE k == f[i]
      <4>1. k \in 1 .. Len(b.list) /\ d.list[i] = b.list[k] /\ b.list[k] \notin G
          BY <3>1
      <4> HIDE DEF k
      <4>2. QED
          BY <2>3, <4>1
    <3>3. QED
        BY <3>2 DEF NoChats
  <2>8. DOMAIN b.list = 1 .. Len(b.list)
      BY BoxFields
  <2>9. \A x : x \in Numbers(G) <=> \E k \in 1 .. Len(b.list) :
            b.list[k].m.from = c /\ b.list[k].m.kind = "chat" /\ x = b.list[k].m.n
      BY <2>3, <2>8 DEF Numbers, Items
  <2>10. DOMAIN u = 1 .. Len(u) /\ Len(u) \in Nat /\ \A i \in 1 .. Len(u) : u[i] \in Number
      BY <2>2, LenProperties, ElementOfSeq
  <2> HIDE DEF G, d, u
  <2>11. U \in SUBSET Number /\ \A x : x \in U <=> \E i \in 1 .. Len(u) : x = u[i]
      BY <2>10
  <2> HIDE DEF U
  <2> DEFINE t == s \o u
  <2>12. s \in Seq(Number) /\ Len(s) \in Nat /\ \A i \in 1 .. Len(s) : s[i] \in Nat
      BY ChatFields
  <2>13. /\ t \in Seq(Number) /\ Len(t) = Len(s) + Len(u)
         /\ \A i \in 1 .. Len(s) + Len(u) : t[i] = IF i <= Len(s) THEN s[i] ELSE u[i - Len(s)]
      BY <2>2, <2>12, ConcatProperties
  <2>14. b.chat \in [Contact -> Seq(Number)]
      BY BoxFields
  <2>15. /\ r.list = d.list /\ r.global = d.global /\ r.enabled = d.enabled /\ r.ids = d.ids
         /\ r.window = b.window /\ r.done = b.done \cup U
         /\ r.chat = [b.chat EXCEPT ![c] = t]
         /\ r \in Box
    <3>1. r = [d EXCEPT !.chat = [b.chat EXCEPT ![c] = t], !.done = b.done \cup U]
        BY <2>4 DEF Box
    <3> HIDE DEF t, r
    <3>2. [b.chat EXCEPT ![c] = t] \in [Contact -> Seq(Number)]
        BY <2>13, <2>14
    <3>3. b.done \cup U \in SUBSET Number
        BY <2>11, BoxFields
    <3>4. QED
        BY <2>4, <3>1, <3>2, <3>3 DEF Box
  <2> HIDE DEF r, t, s
  <2>16. /\ \A a \in Contact : a # c => r.chat[a] = b.chat[a]
         /\ r.chat[c] = t /\ b.chat[c] = s
      BY <2>14, <2>15 DEF s
  \* What is shown now is later than what was shown.
  <2>17. ASSUME c \notin O PROVE \A i \in 1 .. Len(s), k \in 1 .. Len(u) : s[i] < u[k]
    <3>1. ASSUME NEW i \in 1 .. Len(s), NEW k \in 1 .. Len(u) PROVE s[i] < u[k]
      <4>1. PICK l \in 1 .. Len(b.list) :
                /\ b.list[l].m.from = c /\ b.list[l].m.kind = "chat" /\ ~b.list[l].sent
                /\ u[k] = b.list[l].m.n
          BY <2>2
      <4>2. \A j \in 1 .. Len(s) : s[j] < b.list[l].m.n
          BY <2>16, <2>17, <4>1 DEF Sound, Later
      <4>3. QED
          BY <4>1, <4>2
    <3>2. QED
        BY <3>1
  <2>18. \A i \in 1 .. Len(t) : (i \in 1 .. Len(s) /\ t[i] = s[i])
             \/ (i > Len(s) /\ i - Len(s) \in 1 .. Len(u) /\ t[i] = u[i - Len(s)])
      BY <2>10, <2>12, <2>13
  <2>19. Ascending(O, r)
    <3> SUFFICES ASSUME NEW a \in Contact \ O, NEW i \in 1 .. Len(r.chat[a]),
                        NEW k \in 1 .. Len(r.chat[a]), i < k
                 PROVE  r.chat[a][i] < r.chat[a][k]
        BY DEF Ascending
    <3>1. CASE a # c
        BY <2>16, <3>1 DEF Sound, Ascending
    <3>2. CASE a = c
      <4>1. \A j, l \in 1 .. Len(s) : j < l => s[j] < s[l]
          BY <2>16, <3>2 DEF Sound, Ascending
      <4>2. r.chat[a] = t /\ i \in 1 .. Len(t) /\ k \in 1 .. Len(t)
          BY <2>16, <3>2
      <4>3. CASE k \in 1 .. Len(s)
        <5>1. i \in 1 .. Len(s) /\ t[i] = s[i] /\ t[k] = s[k]
            BY <2>12, <2>18, <4>2, <4>3
        <5>2. QED
            BY <4>1, <4>2, <4>3, <5>1
      <4>4. CASE k \notin 1 .. Len(s)
        <5>1. k - Len(s) \in 1 .. Len(u) /\ t[k] = u[k - Len(s)]
            BY <2>18, <4>2, <4>4
        <5>2. CASE i \in 1 .. Len(s)
          <6>1. t[i] = s[i]
              BY <2>12, <2>18, <4>2, <5>2
          <6>2. QED
              BY <2>17, <3>2, <4>2, <5>1, <5>2, <6>1
        <5>3. CASE i \notin 1 .. Len(s)
          <6>1. i - Len(s) \in 1 .. Len(u) /\ t[i] = u[i - Len(s)]
              BY <2>18, <4>2, <5>3
          <6>2. i - Len(s) < k - Len(s)
              BY <2>12
          <6>3. QED
              BY <2>2, <3>2, <4>2, <5>1, <6>1, <6>2
        <5>4. QED
            BY <5>2, <5>3
      <4>5. QED
          BY <4>3, <4>4
    <3>3. QED
        BY <3>1, <3>2
  <2>20. Ordered(O, r) /\ Numbered(r) /\ Mirrored(r) /\ Complete(r)
    <3>1. Ordered(O, r)
        BY <2>4, <2>5, <2>15 DEF Sound, Ordered
    <3>2. Numbered(r)
        BY <2>4, <2>5, <2>15 DEF Sound, Numbered
    <3>3. Mirrored(r)
        BY <2>4, <2>5, <2>15 DEF Sound, Mirrored
    <3>4. Complete(r)
        BY <2>4, <2>5, <2>15 DEF Sound, Complete
    <3>5. QED
        BY <3>1, <3>2, <3>3, <3>4
  <2>21. Opened(r)
      BY <1>2, <2>15, <2>16 DEF Sound, Opened
  <2>22. Later(O, r)
    <3> SUFFICES ASSUME NEW i \in 1 .. Len(r.list), r.list[i].m.kind = "chat", ~r.list[i].sent,
                        r.list[i].m.from \notin O
                 PROVE  \A k \in 1 .. Len(r.chat[r.list[i].m.from]) :
                            r.chat[r.list[i].m.from][k] < r.list[i].m.n
        BY DEF Later
    <3>1. i \in 1 .. Len(d.list) /\ r.list[i] = d.list[i] /\ d.list[i].m.from # c
        BY <2>7, <2>15 DEF NoChats
    <3>2. d.list[i].m.from \in Contact
        BY <2>4, <3>1, BoxFields, ItemFields
    <3>3. QED
        BY <2>4, <2>5, <2>16, <3>1, <3>2 DEF Sound, Later
  <2>23. ASSUME NEW m \in Message, Newer(O, b, m) PROVE Newer(O, r, m)
    <3>1. Newer(O, d, m)
        BY <2>5, <2>23
    <3>2. ASSUME m.kind = "chat", m.from \notin O, NEW k \in 1 .. Len(r.chat[m.from])
          PROVE  r.chat[m.from][k] < m.n
      <4>1. m.from \in Contact
          BY DEF Message
      <4>2. CASE m.from # c
          BY <2>4, <2>16, <3>1, <3>2, <4>1, <4>2 DEF Newer
      <4>3. CASE m.from = c
        <5>1. \A j \in 1 .. Len(s) : s[j] < m.n
            BY <2>16, <2>23, <3>2, <4>3 DEF Newer
        <5>2. \A j \in 1 .. Len(u) : u[j] < m.n
            BY <2>2, <2>23, <3>2, <4>3, SMTT(60) DEF Newer, Follows
        <5>3. QED
            BY <2>16, <2>18, <3>2, <4>3, <5>1, <5>2
      <4>4. QED
          BY <4>2, <4>3
    <3>3. QED
        BY <2>15, <3>1, <3>2 DEF Newer
  <2>24. ASSUME NEW n \in Nat, Upto(b, n) PROVE Upto(r, n)
    <3>1. Upto(d, n)
        BY <2>5, <2>24
    <3>2. ASSUME NEW a \in Contact, NEW k \in 1 .. Len(r.chat[a]) PROVE r.chat[a][k] <= n
      <4>1. CASE a # c
          BY <2>4, <2>16, <3>1, <3>2, <4>1 DEF Upto
      <4>2. CASE a = c
        <5>1. \A j \in 1 .. Len(s) : s[j] <= n
            BY <2>16, <2>24 DEF Upto
        <5>2. \A j \in 1 .. Len(u) : u[j] <= n
            BY <2>2, <2>24 DEF Upto
        <5>3. QED
            BY <2>16, <2>18, <3>2, <4>2, <5>1, <5>2
      <4>3. QED
          BY <4>1, <4>2
    <3>3. QED
        BY <2>15, <3>1, <3>2 DEF Upto
  <2>25. Held(r) = Held(b)
    <3> DEFINE L == {d.list[i].m.n : i \in 1 .. Len(d.list)}
    <3>6. Held(r) = (b.done \cup U) \cup L
        BY <2>15 DEF Held
    <3>7. Held(d) = b.done \cup L
        BY <2>4 DEF Held
    <3>1. Held(r) = Held(d) \cup U
      <4> HIDE DEF L
      <4>1. QED
          BY <3>6, <3>7
    <3>2. ASSUME NEW x, x \in U PROVE x \in Numbers(G)
      <4>1. PICK i \in 1 .. Len(u) : x = u[i]
          BY <2>11, <3>2
      <4>2. PICK k \in 1 .. Len(b.list) :
                b.list[k].m.from = c /\ b.list[k].m.kind = "chat" /\ u[i] = b.list[k].m.n
          BY <2>2
      <4>3. QED
          BY <2>9, <4>1, <4>2
    <3>3. ASSUME NEW x, x \in Numbers(G) PROVE x \in U \/ x \in b.done
      <4>1. PICK k \in 1 .. Len(b.list) :
                b.list[k].m.from = c /\ b.list[k].m.kind = "chat" /\ x = b.list[k].m.n
          BY <2>9, <3>3
      <4>2. CASE b.list[k].sent
          BY <4>1, <4>2 DEF Sound, Complete
      <4>3. CASE ~b.list[k].sent
          BY <2>2, <2>11, <4>1, <4>3
      <4>4. QED
          BY <4>2, <4>3
    <3>4. \A x \in b.done : x \in Held(d)
        BY <2>4 DEF Held
    <3>5. QED
        BY <2>5, <3>1, <3>2, <3>3, <3>4
  <2>26. Sound(O, r)
      BY <2>19, <2>20, <2>21, <2>22 DEF Sound
  <2>27. NoChats(r, c)
      BY <2>7, <2>15 DEF NoChats
  <2>28. QED
      BY <2>1, <2>15, <2>23, <2>24, <2>25, <2>26, <2>27 DEF Keeps
<1>3. QED
    BY <1>1, <1>2

\* Windows are opened, raised or hidden.
LEMMA WindowKeeps ==
    ASSUME NEW O, NEW b \in Box, Sound(O, b),
           NEW w \in [Contact -> {"none", "hidden", "inactive", "active"}],
           \A c \in Contact : w[c] = "none" => b.window[c] = "none",
           \A c \in Contact :
               NoChats(b, c) \/ (w[c] # "active" /\ (w[c] = "inactive" <=> b.window[c] = "inactive"))
    PROVE  Keeps(O, b, [b EXCEPT !.window = w])
<1> DEFINE r == [b EXCEPT !.window = w]
<1>1. /\ r \in Box /\ r.list = b.list /\ r.global = b.global /\ r.enabled = b.enabled
      /\ r.chat = b.chat /\ r.done = b.done /\ r.window = w /\ r.ids = b.ids
    BY DEF Box
<1> HIDE DEF r
<1>2. Complete(r)
  <2> SUFFICES ASSUME NEW i \in 1 .. Len(r.list), r.list[i].m.kind = "chat"
               PROVE  /\ r.list[i].sent <=> r.window[r.list[i].m.from] = "inactive"
                      /\ r.window[r.list[i].m.from] # "active"
                      /\ r.list[i].sent => r.list[i].m.n \in r.done
      BY DEF Complete
  <2> DEFINE c == b.list[i].m.from
  <2>1. c \in Contact /\ i \in 1 .. Len(b.list) /\ r.list[i] = b.list[i]
      BY <1>1, BoxFields, ItemFields
  <2>2. ~NoChats(b, c)
      BY <2>1 DEF NoChats
  <2>3. w[c] # "active" /\ (w[c] = "inactive" <=> b.window[c] = "inactive")
      BY <2>1, <2>2
  <2>4. QED
      BY <1>1, <2>1, <2>3 DEF Sound, Complete
<1>3. Sound(O, r)
    BY <1>1, <1>2 DEF Sound, Ordered, Numbered, Mirrored, Ascending, Opened, Later
<1>4. /\ \A m \in Message : Newer(O, b, m) => Newer(O, r, m)
      /\ \A n \in Nat : Upto(b, n) => Upto(r, n)
      /\ Held(r) = Held(b)
    BY <1>1 DEF Newer, Upto, Held
<1>5. QED
    BY <1>1, <1>3, <1>4 DEF Keeps, r

LEMMA RaiseKeeps ==
    ASSUME NEW O, NEW b \in Box, Sound(O, b), NEW c \in Contact, NoChats(b, c)
    PROVE  Keeps(O, b, Raise(b, c))
<1> DEFINE w == [d \in Contact |-> IF d = c THEN "active"
                                   ELSE IF b.window[d] = "active" THEN "inactive"
                                   ELSE b.window[d]]
<1>1. b.window \in [Contact -> {"none", "hidden", "inactive", "active"}]
    BY BoxFields
<1>2. w \in [Contact -> {"none", "hidden", "inactive", "active"}]
    BY <1>1
<1>3. Raise(b, c) = [b EXCEPT !.window = w]
    BY DEF Raise, Box
<1>4. \A d \in Contact : w[d] = "none" => b.window[d] = "none"
    BY <1>1
<1>5. \A d \in Contact : b.window[d] = "active" => NoChats(b, d)
    BY DEF Sound, Complete, NoChats
<1>6. \A d \in Contact :
          NoChats(b, d) \/ (w[d] # "active" /\ (w[d] = "inactive" <=> b.window[d] = "inactive"))
    BY <1>1, <1>5
<1> HIDE DEF w
<1>7. QED
    BY <1>2, <1>3, <1>4, <1>6, WindowKeeps

LEMMA HideKeeps ==
    ASSUME NEW O, NEW b \in Box, Sound(O, b), NEW c \in Contact, NoChats(b, c) \/ b.window[c] = "none"
    PROVE  LET r == [b EXCEPT !.window[c] = "hidden"]
           IN  Keeps(O, b, r) /\ r.window = [b.window EXCEPT ![c] = "hidden"]
<1> DEFINE w == [b.window EXCEPT ![c] = "hidden"]
<1>1. b.window \in [Contact -> {"none", "hidden", "inactive", "active"}]
    BY BoxFields
<1>2. w \in [Contact -> {"none", "hidden", "inactive", "active"}]
    BY <1>1
<1>3. [b EXCEPT !.window[c] = "hidden"] = [b EXCEPT !.window = w]
    BY DEF Box
<1>4. [b EXCEPT !.window = w].window = w
    BY DEF Box
<1>5. \A d \in Contact : w[d] = "none" => b.window[d] = "none"
    BY <1>1
<1>6. \A d \in Contact : b.window[d] = "active" => NoChats(b, d)
    BY DEF Sound, Complete, NoChats
<1>7. \A d \in Contact :
          NoChats(b, d) \/ (w[d] # "active" /\ (w[d] = "inactive" <=> b.window[d] = "inactive"))
    BY <1>1, <1>6
<1> HIDE DEF w
<1>8. Keeps(O, b, [b EXCEPT !.window = w])
    BY <1>2, <1>5, <1>7, WindowKeeps
<1>9. QED
    BY <1>3, <1>4, <1>8 DEF w

LEMMA OpenChatKeeps ==
    ASSUME NEW O, NEW b \in Box, Sound(O, b), NEW c \in Contact
    PROVE  Keeps(O, b, OpenChat(b, c))
<1> DEFINE a == IF b.window[c] = "none" THEN [b EXCEPT !.window[c] = "hidden"] ELSE b
           p == ProcessChats(a, c)
<1>1. Keeps(O, b, a) /\ a.window[c] # "none"
  <2>1. CASE b.window[c] = "none"
    <3>1. Keeps(O, b, a) /\ a.window = [b.window EXCEPT ![c] = "hidden"]
        BY <2>1, HideKeeps
    <3>2. b.window \in [Contact -> {"none", "hidden", "inactive", "active"}]
        BY BoxFields
    <3>3. QED
        BY <3>1, <3>2
  <2>2. CASE b.window[c] # "none"
      BY <2>2 DEF Keeps
  <2>3. QED
      BY <2>1, <2>2
<1>2. OpenChat(b, c) = Raise(p, c)
    BY DEF OpenChat
<1> HIDE DEF a
<1>3. a \in Box /\ Sound(O, a)
    BY <1>1 DEF Keeps
<1>4. Keeps(O, a, p) /\ NoChats(p, c)
    BY <1>1, <1>3, ProcessChatsKeeps
<1> HIDE DEF p
<1>5. p \in Box /\ Sound(O, p)
    BY <1>4 DEF Keeps
<1>6. Keeps(O, p, Raise(p, c))
    BY <1>4, <1>5, RaiseKeeps
<1>7. QED
    BY <1>1, <1>2, <1>4, <1>6, KeepsTwice

\* A window that is hidden goes, and with it what it shows.
LEMMA SelfDestructKeeps ==
    ASSUME NEW O, NEW b \in Box, Sound(O, b), NEW c \in Contact, b.window[c] = "hidden"
    PROVE  LET r == [b EXCEPT !.window[c] = "none", !.chat[c] = <<>>]
           IN  Keeps(O, b, r) /\ r.list = b.list
<1> DEFINE w == [b.window EXCEPT ![c] = "none"]
           t == [b.chat EXCEPT ![c] = <<>>]
           r == [b EXCEPT !.window = w, !.chat = t]
<1>1. /\ b.window \in [Contact -> {"none", "hidden", "inactive", "active"}]
      /\ b.chat \in [Contact -> Seq(Number)]
    BY BoxFields
<1>2. /\ w \in [Contact -> {"none", "hidden", "inactive", "active"}]
      /\ t \in [Contact -> Seq(Number)]
    BY <1>1
<1>3. [b EXCEPT !.window[c] = "none", !.chat[c] = <<>>] = r
    BY DEF Box
<1>4. /\ w[c] = "none" /\ t[c] = <<>>
      /\ \A d \in Contact : d # c => w[d] = b.window[d] /\ t[d] = b.chat[d]
    BY <1>1
<1> HIDE DEF w, t
<1>5. /\ r \in Box /\ r.list = b.list /\ r.global = b.global /\ r.enabled = b.enabled
      /\ r.done = b.done /\ r.window = w /\ r.chat = t /\ r.ids = b.ids
    BY <1>2 DEF Box
<1> HIDE DEF r
<1>6. \A d \in Contact : \A k \in 1 .. Len(r.chat[d]) :
          d # c /\ k \in 1 .. Len(b.chat[d]) /\ r.chat[d][k] = b.chat[d][k]
    BY <1>4, <1>5
<1>7. \A i \in 1 .. Len(b.list) : b.list[i].m.from \in Contact
    BY BoxFields, ItemFields
<1>8. Ordered(O, r) /\ Numbered(r) /\ Mirrored(r)
    BY <1>5 DEF Sound, Ordered, Numbered, Mirrored
<1>9. Complete(r)
    BY <1>4, <1>5, <1>7 DEF Sound, Complete
<1>10. Ascending(O, r)
    BY <1>6 DEF Sound, Ascending
<1>11. Opened(r)
    BY <1>4, <1>5 DEF Sound, Opened
<1>12. Later(O, r)
  <2> SUFFICES ASSUME NEW i \in 1 .. Len(r.list), r.list[i].m.kind = "chat", ~r.list[i].sent,
                      r.list[i].m.from \notin O, NEW k \in 1 .. Len(r.chat[r.list[i].m.from])
               PROVE  r.chat[r.list[i].m.from][k] < r.list[i].m.n
      BY DEF Later
  <2>1. i \in 1 .. Len(b.list) /\ r.list[i] = b.list[i]
      BY <1>5
  <2> DEFINE d == b.list[i].m.from
  <2>2. d \in Contact /\ k \in 1 .. Len(r.chat[d])
      BY <1>7, <2>1
  <2>3. k \in 1 .. Len(b.chat[d]) /\ r.chat[d][k] = b.chat[d][k]
      BY <1>6, <2>2
  <2>4. QED
      BY <2>1, <2>3 DEF Sound, Later
<1>13. ASSUME NEW m \in Message, Newer(O, b, m) PROVE Newer(O, r, m)
  <2>1. m.from \in Contact
      BY DEF Message
  <2>2. QED
      BY <1>5, <1>6, <1>13, <2>1 DEF Newer
<1>14. \A n \in Nat : Upto(b, n) => Upto(r, n)
    BY <1>5, <1>6 DEF Upto
<1>15. Held(r) = Held(b)
    BY <1>5 DEF Held
<1>16. Sound(O, r)
    BY <1>8, <1>9, <1>10, <1>11, <1>12 DEF Sound
<1>17. QED
    BY <1>3, <1>5, <1>13, <1>14, <1>15, <1>16 DEF Keeps

-----------------------------------------------------------------------------
(* The queues and the file.                                                *)

LEMMA SavedType ==
    ASSUME NEW b \in Box
    PROVE  /\ Saved(b.list) \in Seq(Message) /\ Len(Saved(b.list)) = Len(b.list)
           /\ \A i \in 1 .. Len(b.list) : Saved(b.list)[i] = b.list[i].m
           /\ Saved(<<>>) = <<>>
<1>1. DOMAIN b.list = 1 .. Len(b.list) /\ Len(b.list) \in Nat
    BY BoxFields
<1>2. \A i \in 1 .. Len(b.list) : b.list[i].m \in Message
    BY BoxFields, ItemFields
<1>3. [i \in 1 .. Len(b.list) |-> b.list[i].m] \in Seq(Message)
    BY <1>1, <1>2
<1>4. Saved(b.list) = [i \in 1 .. Len(b.list) |-> b.list[i].m]
    BY <1>1 DEF Saved
<1>5. Saved(<<>>) = <<>>
    BY DEF Saved
<1>6. QED
    BY <1>1, <1>3, <1>4, <1>5

LEMMA ForgottenIs ==
    ASSUME Typed
    PROVE  NothingForgotten <=>
               1 .. received = Held(inbox) \cup NumbersOf(incoming)
                                           \cup NumbersOf(decrypting) \cup NumbersOf(loading)
<1>1. DOMAIN inbox.list = 1 .. Len(inbox.list)
    BY BoxFields DEF Typed
<1>2. Held(inbox) = inbox.done \cup Queued
    BY <1>1 DEF Held, Queued
<1>3. QED
    BY <1>2 DEF NothingForgotten

LEMMA NumbersOfIs ==
    ASSUME NEW q \in Seq(Message)
    PROVE  \A x : x \in NumbersOf(q) <=> \E i \in 1 .. Len(q) : x = q[i].n
<1>1. DOMAIN q = 1 .. Len(q)
    BY LenProperties
<1>2. QED
    BY <1>1 DEF NumbersOf

LEMMA SendersIs ==
    ASSUME NEW q \in Seq(Message)
    PROVE  \A x : x \in Senders(q) <=> \E i \in 1 .. Len(q) : x = q[i].from
<1>1. DOMAIN q = 1 .. Len(q)
    BY LenProperties
<1>2. QED
    BY <1>1 DEF Senders

\* The file after a step that reads nothing from it.
LEMMA WrittenRunning ==
    ASSUME EventInvariant, Running, inbox' \in Box, loading' = loading,
           file' = IF inbox'.list = inbox.list THEN file ELSE Saved(inbox'.list)
    PROVE  Written' /\ Loading' /\ file' \in Seq(Message) /\ loading' \in Seq(Message)
           /\ NumbersOf(loading') = {}
<1>1. loading = <<>> /\ Written /\ file \in Seq(Message)
    BY DEF EventInvariant, Typed, Running
<1>2. Saved(inbox'.list) \in Seq(Message) /\ Saved(<<>>) = <<>>
    BY SavedType
<1>3. Written'
    BY <1>1, <1>2 DEF Written
<1>4. Loading'
    BY <1>1 DEF Loading, Coming
<1>5. file' \in Seq(Message)
    BY <1>1, <1>2
<1>6. NumbersOf(<<>>) = {}
    BY DEF NumbersOf
<1>7. QED
    BY <1>1, <1>3, <1>4, <1>5, <1>6

\* The user reads, and nothing else happens.
LEMMA ReadsHolds ==
    ASSUME EventInvariant, Running, NEW r, Keeps(overlapped, inbox, r), Reads(r)
    PROVE  EventInvariant'
<1>1. /\ inbox' = r /\ UNCHANGED <<incoming, decrypting, loading, overlapped, received>>
      /\ file' = IF inbox'.list = inbox.list THEN file ELSE Saved(inbox'.list)
    BY DEF Reads, Becomes
<1>2. /\ inbox' \in Box /\ Sound(overlapped, inbox')
      /\ \A m \in Message : Newer(overlapped, inbox, m) => Newer(overlapped, inbox', m)
      /\ \A n \in Nat : Upto(inbox, n) => Upto(inbox', n)
      /\ Held(inbox') = Held(inbox)
    BY <1>1 DEF Keeps
<1>3. Written' /\ Loading' /\ file' \in Seq(Message)
    BY <1>1, <1>2, WrittenRunning
<1>4. Typed /\ Incoming /\ Upto(inbox, received) /\ NothingForgotten
    BY DEF EventInvariant
<1>5. Typed'
    BY <1>1, <1>2, <1>3, <1>4 DEF Typed
<1>6. \A i \in 1 .. Len(incoming) : incoming[i] \in Message
    BY <1>4, ElementOfSeq DEF Typed
<1>7. Incoming'
    BY <1>1, <1>2, <1>4, <1>6 DEF Incoming, Coming
<1>8. received \in Nat
    BY <1>4, ConstantsAssumption DEF Typed
<1>9. Upto(inbox', received')
    BY <1>1, <1>2, <1>4, <1>8
<1>10. NothingForgotten'
  <2>1. 1 .. received = Held(inbox) \cup NumbersOf(incoming)
                                    \cup NumbersOf(decrypting) \cup NumbersOf(loading)
      BY <1>4, ForgottenIs
  <2>2. 1 .. received' = Held(inbox') \cup NumbersOf(incoming')
                                      \cup NumbersOf(decrypting') \cup NumbersOf(loading')
      BY <1>1, <1>2, <2>1
  <2>3. DOMAIN inbox'.list = 1 .. Len(inbox'.list)
      BY <1>2, BoxFields
  <2>4. Held(inbox') = inbox'.done \cup Queued'
      BY <2>3 DEF Held, Queued
  <2>5. QED
      BY <2>2, <2>4 DEF NothingForgotten
<1>11. QED
    BY <1>1, <1>2, <1>3, <1>5, <1>7, <1>9, <1>10 DEF EventInvariant

LEMMA UserOpensChatHolds ==
    ASSUME EventInvariant, NEW c \in Contact, UserOpensChat(c)
    PROVE  EventInvariant'
<1>1. inbox \in Box /\ Sound(overlapped, inbox) /\ Running /\ Reads(OpenChat(inbox, c))
    BY DEF EventInvariant, Typed, UserOpensChat
<1>2. Keeps(overlapped, inbox, OpenChat(inbox, c))
    BY <1>1, OpenChatKeeps
<1>3. QED
    BY <1>1, <1>2, ReadsHolds

LEMMA ReadEventHolds ==
    ASSUME EventInvariant, NEW c \in Contact, ReadEvent(c)
    PROVE  EventInvariant'
<1> DEFINE first == inbox.list[First(inbox, c)]
           a == IF first.sent THEN ProcessChats(inbox, c) ELSE inbox
<1>1. inbox \in Box /\ Sound(overlapped, inbox) /\ Running /\ From(inbox, c) # {}
    BY DEF EventInvariant, Typed, ReadEvent
<1>2. CASE first.m.kind = "chat"
  <2>1. Reads(OpenChat(a, c))
      BY <1>2 DEF ReadEvent
  <2>2. Keeps(overlapped, inbox, a)
      BY <1>1, ProcessChatsKeeps DEF Keeps
  <2> HIDE DEF a
  <2>3. a \in Box /\ Sound(overlapped, a)
      BY <2>2 DEF Keeps
  <2>4. Keeps(overlapped, a, OpenChat(a, c))
      BY <2>3, OpenChatKeeps
  <2>5. QED
      BY <1>1, <2>1, <2>2, <2>4, KeepsTwice, ReadsHolds
<1>3. CASE first.m.kind # "chat"
  <2>1. Reads([Dequeue(inbox, {first}) EXCEPT !.done = @ \cup {first.m.n}])
      BY <1>3 DEF ReadEvent
  <2>2. first \in Items(inbox)
    <3>1. DOMAIN inbox.list = 1 .. Len(inbox.list) /\ Len(inbox.list) \in Nat
        BY <1>1, BoxFields
    <3> DEFINE S == {i \in 1 .. Len(inbox.list) : inbox.list[i].m.from = c}
    <3>2. S # {} /\ S \in SUBSET Nat
        BY <1>1, <3>1 DEF From, Items
    <3>3. PICK i \in S : \A k \in S : i <= k
        BY <3>2, LeastNumber
    <3>4. ASSUME NEW k \in 1 .. i - 1 PROVE inbox.list[k].m.from # c
      <4>1. k \in 1 .. Len(inbox.list) /\ ~(i <= k)
          BY <3>1, <3>3, <3>4
      <4>2. QED
          BY <3>3, <4>1
    <3>5. i \in DOMAIN inbox.list /\ inbox.list[i].m.from = c
        BY <3>1, <3>3
    <3>6. First(inbox, c) \in DOMAIN inbox.list
        BY <3>4, <3>5 DEF First
    <3>7. QED
        BY <3>6 DEF Items
  <2>3. Numbers({first}) = {first.m.n}
      BY DEF Numbers
  <2> HIDE DEF first
  <2>4. Keeps(overlapped, inbox, [Dequeue(inbox, {first}) EXCEPT !.done = @ \cup Numbers({first})])
      BY <1>1, <2>2, DropKeeps
  <2>5. QED
      BY <1>1, <2>1, <2>3, <2>4, ReadsHolds
<1>4. QED
    BY <1>2, <1>3

LEMMA CloseChatHolds ==
    ASSUME EventInvariant, NEW c \in Contact, CloseChat(c)
    PROVE  EventInvariant'
<1> DEFINE p == ProcessChats(inbox, c)
           r == [p EXCEPT !.window[c] = "hidden"]
<1>1. inbox \in Box /\ Sound(overlapped, inbox) /\ Running /\ inbox.window[c] # "none" /\ Reads(r)
    BY DEF EventInvariant, Typed, CloseChat, Visible
<1>2. Keeps(overlapped, inbox, p) /\ NoChats(p, c)
    BY <1>1, ProcessChatsKeeps
<1> HIDE DEF p
<1>3. p \in Box /\ Sound(overlapped, p)
    BY <1>2 DEF Keeps
<1>4. Keeps(overlapped, p, r)
    BY <1>2, <1>3, HideKeeps
<1>5. QED
    BY <1>1, <1>2, <1>4, KeepsTwice, ReadsHolds

LEMMA SelfDestructHolds ==
    ASSUME EventInvariant, NEW c \in Contact, SelfDestruct(c)
    PROVE  EventInvariant'
<1> DEFINE r == [inbox EXCEPT !.window[c] = "none", !.chat[c] = <<>>]
<1>1. inbox \in Box /\ Sound(overlapped, inbox) /\ Running /\ inbox.window[c] = "hidden" /\ Reads(r)
    BY DEF EventInvariant, Typed, SelfDestruct
<1>2. Keeps(overlapped, inbox, r)
    BY <1>1, SelfDestructKeeps
<1>3. QED
    BY <1>1, <1>2, ReadsHolds

LEMMA RemoveContactHolds ==
    ASSUME EventInvariant, NEW c \in Contact, RemoveContact(c)
    PROVE  EventInvariant'
<1> DEFINE G == From(inbox, c)
<1>1. inbox \in Box /\ Sound(overlapped, inbox) /\ Running
    BY DEF EventInvariant, Typed, RemoveContact
<1>2. Reads([Dequeue(inbox, G) EXCEPT !.done = @ \cup Numbers(G)])
    BY DEF RemoveContact, Numbers
<1>3. G \in SUBSET Items(inbox)
    BY <1>1, ChatsIs
<1> HIDE DEF G
<1>4. Keeps(overlapped, inbox, [Dequeue(inbox, G) EXCEPT !.done = @ \cup Numbers(G)])
    BY <1>1, <1>3, DropKeeps
<1>5. QED
    BY <1>1, <1>2, <1>4, ReadsHolds

LEMMA SetAccountEnabledHolds ==
    ASSUME EventInvariant, NEW e \in BOOLEAN, SetAccountEnabled(e)
    PROVE  EventInvariant'
<1>1. inbox \in Box /\ Sound(overlapped, inbox) /\ Running /\ Reads(SetEnabled(inbox, e))
    BY DEF EventInvariant, Typed, SetAccountEnabled
<1>2. QED
    BY <1>1, SetEnabledKeeps, ReadsHolds

-----------------------------------------------------------------------------
(* Messages.                                                               *)


\* The messages of q may be handled next, and none has a number above x.
Due(O, b, q, x) ==
    /\ \A i \in 1 .. Len(q) : Newer(O, b, q[i]) /\ q[i].n <= x
    /\ \A i, k \in 1 .. Len(q) : i < k => Follows(O, q[i], q[k])

\* Whose order is given up is never got back.
LEMMA GivenUp ==
    ASSUME NEW O, NEW P, O \subseteq P
    PROVE  /\ \A b : Sound(O, b) => Sound(P, b)
           /\ \A b, q, x : Due(O, b, q, x) => Due(P, b, q, x)
<1>1. \A m, l : Follows(O, m, l) => Follows(P, m, l)
    BY DEF Follows
<1>2. \A b, m : Newer(O, b, m) => Newer(P, b, m)
    BY <1>1 DEF Newer
<1>3. ASSUME NEW b, Sound(O, b) PROVE Sound(P, b)
  <2>1. Ordered(P, b)
      BY <1>1, <1>3 DEF Sound, Ordered
  <2>2. Ascending(P, b)
      BY <1>3 DEF Sound, Ascending
  <2>3. Later(P, b)
      BY <1>3 DEF Sound, Later
  <2>4. QED
      BY <1>3, <2>1, <2>2, <2>3 DEF Sound
<1>4. ASSUME NEW b, NEW q, NEW x, Due(O, b, q, x) PROVE Due(P, b, q, x)
    BY <1>1, <1>2, <1>4 DEF Due
<1>5. QED
    BY <1>3, <1>4

LEMMA ManyType ==
    ASSUME NEW q \in Seq(Message)
    PROVE  LET n == CHOOSE i \in Plain(q) : \A k \in Plain(q) : k <= i
           IN  n \in 0 .. Len(q) /\ n \in Plain(q)
<1> DEFINE S == {Len(q) - i : i \in Plain(q)}
<1>1. Len(q) \in Nat
    BY LenProperties
<1>2. Plain(q) \subseteq 0 .. Len(q) /\ 0 \in Plain(q)
    BY <1>1 DEF Plain
<1>3. S \in SUBSET Nat /\ S # {}
    BY <1>1, <1>2
<1>4. PICK m \in S : \A k \in S : m <= k
    BY <1>3, LeastNumber
<1>5. PICK i \in Plain(q) : m = Len(q) - i
    BY <1>4
<1>6. ASSUME NEW k \in Plain(q) PROVE k <= i
  <2>1. Len(q) - i <= Len(q) - k
      BY <1>4, <1>5
  <2>2. i \in 0 .. Len(q) /\ k \in 0 .. Len(q)
      BY <1>2
  <2>3. QED
      BY <1>1, <2>1, <2>2
<1>7. (CHOOSE j \in Plain(q) : \A k \in Plain(q) : k <= j) \in Plain(q)
    BY <1>6
<1>8. QED
    BY <1>2, <1>7

\* The rest of a queue of which the first n are handled.
LEMMA RestIs ==
    ASSUME NEW q \in Seq(Message), NEW n \in 0 .. Len(q)
    PROVE  LET rest == SubSeq(q, n + 1, Len(q))
           IN  /\ rest \in Seq(Message) /\ Len(rest) = Len(q) - n
               /\ \A i \in 1 .. Len(q) - n : rest[i] = q[n + i]
<1>1. Len(q) \in Nat
    BY LenProperties
<1>2. \A i \in 1 .. Len(q) : q[i] \in Message
    BY ElementOfSeq
<1>3. QED
    BY <1>1, <1>2

LEMMA ProcessQueueIs ==
    ASSUME NEW b \in Box, Sound(overlapped, b), NEW q \in Seq(Message), NEW x \in Nat,
           Upto(b, x), Due(overlapped, b, q, x), NEW busy, ProcessMessageQueue(b, q, busy)
    PROVE  /\ inbox' \in Box /\ Sound(overlapped, inbox') /\ Upto(inbox', x)
           /\ incoming' \in Seq(Message) /\ Due(overlapped, inbox', incoming', x)
           /\ \A i \in 1 .. Len(incoming') : \E k \in 1 .. Len(q) : incoming'[i] = q[k]
           /\ Held(inbox') \cup NumbersOf(incoming') = Held(b) \cup NumbersOf(q)
           /\ decrypting' = IF incoming' = <<>> THEN busy ELSE Append(busy, Head(incoming'))
           /\ overlapped' = IF incoming' = <<>> \/ busy = <<>> THEN overlapped
                            ELSE overlapped \cup Senders(incoming') \cup Senders(busy)
           /\ (\E i \in 1 .. Len(q) : q[i].enc) => incoming' # <<>>
           /\ file' = IF inbox'.list = inbox.list THEN file ELSE Saved(inbox'.list)
<1> DEFINE n == CHOOSE i \in Plain(q) : \A k \in Plain(q) : k <= i
           r == HandledTo(b, q, n)
           rest == SubSeq(q, n + 1, Len(q))
<1>1. n \in 0 .. Len(q) /\ \A k \in 1 .. n : ~q[k].enc
    BY ManyType DEF Plain
<1>2. /\ Becomes(r) /\ incoming' = rest
      /\ decrypting' = IF rest = <<>> THEN busy ELSE Append(busy, Head(rest))
      /\ overlapped' = IF rest = <<>> \/ busy = <<>> THEN overlapped
                       ELSE overlapped \cup Senders(rest) \cup Senders(busy)
    BY DEF ProcessMessageQueue
<1> HIDE DEF n
<1>3. /\ rest \in Seq(Message) /\ Len(rest) = Len(q) - n
      /\ \A i \in 1 .. Len(q) - n : rest[i] = q[n + i]
    BY <1>1, RestIs
<1>4. /\ r \in Box /\ Sound(overlapped, r)
      /\ \A l \in Message : Newer(overlapped, b, l) /\ (\A i \in 1 .. n : Follows(overlapped, q[i], l)) => Newer(overlapped, r, l)
      /\ \A y \in Nat : Upto(b, y) /\ (\A i \in 1 .. n : q[i].n <= y) => Upto(r, y)
      /\ Held(r) = Held(b) \cup {q[i].n : i \in 1 .. n}
  <2>1. /\ \A i \in 1 .. Len(q) : Newer(overlapped, b, q[i])
        /\ \A i, k \in 1 .. Len(q) : i < k => Follows(overlapped, q[i], q[k])
      BY DEF Due
  <2>2. QED
      BY <1>1, <2>1, AllHandled
<1> HIDE DEF r, rest
<1>5. Len(q) \in Nat /\ \A i \in 1 .. Len(q) : q[i] \in Message
    BY LenProperties, ElementOfSeq
<1>6. \A i \in 1 .. Len(rest) : n + i \in 1 .. Len(q) /\ rest[i] = q[n + i]
    BY <1>1, <1>3, <1>5
<1>7. \A i \in 1 .. n : i \in 1 .. Len(q) /\ \A k \in 1 .. Len(rest) : i < n + k
    BY <1>1, <1>3, <1>5
<1>8. Due(overlapped, r, rest, x)
  <2>1. ASSUME NEW i \in 1 .. Len(rest) PROVE Newer(overlapped, r, rest[i]) /\ rest[i].n <= x
    <3> DEFINE l == q[n + i]
    <3>1. l \in Message /\ Newer(overlapped, b, l) /\ l.n <= x /\ rest[i] = l
        BY <1>5, <1>6 DEF Due
    <3>2. \A k \in 1 .. n : Follows(overlapped, q[k], l)
        BY <1>6, <1>7 DEF Due
    <3> HIDE DEF l
    <3>3. QED
        BY <1>4, <3>1, <3>2
  <2>2. ASSUME NEW i \in 1 .. Len(rest), NEW k \in 1 .. Len(rest), i < k
        PROVE  Follows(overlapped, rest[i], rest[k])
    <3>1. n + i < n + k
        BY <1>1, <1>5, <2>2
    <3>2. QED
        BY <1>6, <3>1 DEF Due
  <2>3. QED
      BY <2>1, <2>2 DEF Due
<1>9. Upto(r, x)
    BY <1>4, <1>7 DEF Due
<1>10. Held(r) \cup NumbersOf(rest) = Held(b) \cup NumbersOf(q)
  <2>1. \A y : y \in NumbersOf(rest) <=> \E i \in 1 .. Len(rest) : y = rest[i].n
      BY <1>3, NumbersOfIs
  <2>2. \A y : y \in NumbersOf(q) <=> \E i \in 1 .. Len(q) : y = q[i].n
      BY NumbersOfIs
  <2>3. ASSUME NEW i \in 1 .. Len(q)
        PROVE  i \in 1 .. n \/ \E k \in 1 .. Len(rest) : rest[k].n = q[i].n
    <3>1. CASE i <= n
        BY <1>1, <1>5, <3>1
    <3>2. CASE ~(i <= n)
      <4>1. i - n \in 1 .. Len(rest) /\ n + (i - n) = i
          BY <1>1, <1>3, <1>5, <3>2
      <4>2. QED
          BY <1>6, <4>1
    <3>3. QED
        BY <3>1, <3>2
  <2>4. \A y : y \in {q[i].n : i \in 1 .. n} <=> \E i \in 1 .. n : y = q[i].n
      OBVIOUS
  <2>5. ASSUME NEW y PROVE y \in NumbersOf(q) <=> y \in NumbersOf(rest) \/ y \in {q[i].n : i \in 1 .. n}
    <3>1. ASSUME y \in NumbersOf(q)
          PROVE  y \in NumbersOf(rest) \/ y \in {q[i].n : i \in 1 .. n}
        BY <2>1, <2>2, <2>3, <3>1
    <3>2. ASSUME y \in NumbersOf(rest) PROVE y \in NumbersOf(q)
        BY <1>6, <2>1, <2>2, <3>2
    <3>3. ASSUME y \in {q[i].n : i \in 1 .. n} PROVE y \in NumbersOf(q)
        BY <1>7, <2>2, <3>3
    <3>4. QED
        BY <3>1, <3>2, <3>3
  <2>6. QED
      BY <1>4, <2>5
<1>11. ASSUME NEW i \in 1 .. Len(q), q[i].enc PROVE rest # <<>>
  <2>1. ~(i \in 1 .. n)
      BY <1>1, <1>11
  <2>2. Len(q) - n > 0
      BY <1>1, <1>5, <2>1
  <2>3. QED
      BY <1>3, <2>2
<1>12. (\E i \in 1 .. Len(q) : q[i].enc) => rest # <<>>
    BY <1>11
<1>13. \A i \in 1 .. Len(rest) : \E k \in 1 .. Len(q) : rest[i] = q[k]
    BY <1>6
<1>14. QED
    BY <1>2, <1>3, <1>4, <1>8, <1>9, <1>10, <1>12, <1>13 DEF Becomes

\* What GnuPG has, and whose order is given up, when the first of what still waits is
\* given to it, and what follows from that.
Gives(O, rest, busy, hand, P) ==
    /\ rest = <<>> => busy = <<>> \/ Senders(busy) \subseteq O
    /\ hand = IF rest = <<>> THEN busy ELSE Append(busy, Head(rest))
    /\ P = IF rest = <<>> \/ busy = <<>> THEN O ELSE O \cup Senders(rest) \cup Senders(busy)
Given(O, rest, busy, hand, P) ==
    /\ hand \in Seq(Message) /\ InHand(P, rest, hand) /\ O \subseteq P
    /\ \A t \in 1 .. Len(hand) : \/ \E i \in 1 .. Len(busy) : hand[t] = busy[i]
                                 \/ \E i \in 1 .. Len(rest) : hand[t] = rest[i]
    /\ \A c \in P : \/ c \in O
                    \/ \E i \in 1 .. Len(busy) : c = busy[i].from
                    \/ \E i \in 1 .. Len(rest) : c = rest[i].from
    /\ NumbersOf(rest) \cup NumbersOf(hand) = NumbersOf(rest) \cup NumbersOf(busy)

\* GnuPG gets the head of the queue; nothing is lost, and whoever may lose his place
\* is given up.
LEMMA GivenToGnuPG ==
    ASSUME NEW O, NEW rest \in Seq(Message), NEW busy \in Seq(Message), NEW hand, NEW P,
           Gives(O, rest, busy, hand, P)
    PROVE  Given(O, rest, busy, hand, P)
<1> DEFINE h == Head(rest)
<1> USE DEF Gives
<1>1. CASE rest = <<>>
  <2>1. hand = busy /\ P = O /\ Senders(rest) = {}
      BY <1>1 DEF Senders
  <2>2. InHand(P, rest, hand)
      BY <1>1, <2>1 DEF InHand
  <2>3. QED
      BY <2>1, <2>2 DEF Given
<1>2. CASE rest # <<>>
  <2>1. /\ h \in Message /\ h = rest[1] /\ 1 \in 1 .. Len(rest)
    <3>1. Len(rest) \in Nat \ {0}
        BY <1>2, EmptySeq
    <3>2. QED
        BY <1>2, <3>1, HeadTailProperties
  <2>2. hand = Append(busy, h)
      BY <1>2
  <2> HIDE DEF h
  <2>3. Len(busy) \in Nat
      BY LenProperties
  <2>4. /\ hand \in Seq(Message) /\ Len(hand) = Len(busy) + 1 /\ hand[Len(busy) + 1] = h
        /\ \A i \in 1 .. Len(busy) : hand[i] = busy[i]
      BY <2>1, <2>2, AppendProperties
  <2>5. P = IF busy = <<>> THEN O ELSE O \cup Senders(rest) \cup Senders(busy)
      BY <1>2
  <2>6. \A t \in 1 .. Len(hand) : t \in 1 .. Len(busy) \/ t = Len(busy) + 1
      BY <2>3, <2>4
  <2>7. \A t \in 1 .. Len(hand) : (\E i \in 1 .. Len(busy) : hand[t] = busy[i]) \/ hand[t] = h
      BY <2>4, <2>6
  <2>8. Len(busy) + 1 \in 1 .. Len(hand) /\ \A i \in 1 .. Len(busy) : i \in 1 .. Len(hand)
      BY <2>3, <2>4
  <2>9. \E t \in 1 .. Len(hand) : hand[t] = h
      BY <2>4, <2>8
  <2>10. /\ \A x : x \in Senders(rest) <=> \E i \in 1 .. Len(rest) : x = rest[i].from
         /\ \A x : x \in Senders(busy) <=> \E i \in 1 .. Len(busy) : x = busy[i].from
         /\ \A x : x \in Senders(hand) <=> \E i \in 1 .. Len(hand) : x = hand[i].from
      BY <2>4, SendersIs
  <2>11. InHand(P, rest, hand)
    <3>1. CASE busy = <<>>
      <4>1. hand = <<h>>
          BY <2>2, <3>1
      <4>2. QED
          BY <1>2, <2>9, <4>1 DEF InHand, h
    <3>2. CASE busy # <<>>
      <4>1. Senders(hand) \subseteq Senders(busy) \cup Senders(rest)
          BY <2>1, <2>7, <2>10
      <4>2. Senders(rest) \cup Senders(hand) \subseteq P
          BY <2>5, <3>2, <4>1
      <4>3. QED
          BY <2>9, <4>2 DEF InHand, h
    <3>3. QED
        BY <3>1, <3>2
  <2>12. /\ \A x : x \in NumbersOf(rest) <=> \E i \in 1 .. Len(rest) : x = rest[i].n
         /\ \A x : x \in NumbersOf(busy) <=> \E i \in 1 .. Len(busy) : x = busy[i].n
         /\ \A x : x \in NumbersOf(hand) <=> \E i \in 1 .. Len(hand) : x = hand[i].n
      BY <2>4, NumbersOfIs
  <2>13. NumbersOf(rest) \cup NumbersOf(hand) = NumbersOf(rest) \cup NumbersOf(busy)
    <3>1. \A x : x \in NumbersOf(hand) => x \in NumbersOf(busy) \/ x \in NumbersOf(rest)
        BY <2>1, <2>7, <2>12
    <3>2. \A x : x \in NumbersOf(busy) => x \in NumbersOf(hand)
        BY <2>4, <2>8, <2>12
    <3>3. QED
        BY <3>1, <3>2
  <2>14. \A t \in 1 .. Len(hand) : \/ \E i \in 1 .. Len(busy) : hand[t] = busy[i]
                                   \/ \E i \in 1 .. Len(rest) : hand[t] = rest[i]
      BY <2>1, <2>7
  <2>15. /\ O \subseteq P
         /\ \A c \in P : \/ c \in O
                         \/ \E i \in 1 .. Len(busy) : c = busy[i].from
                         \/ \E i \in 1 .. Len(rest) : c = rest[i].from
      BY <2>5, <2>10
  <2>16. QED
      BY <2>4, <2>11, <2>13, <2>14, <2>15 DEF Given
<1>3. QED
    BY <1>1, <1>2

\* What an account that runs makes of the next messages.
LEMMA ProcessQueueHolds ==
    ASSUME EventInvariant, Running, NEW b \in Box, Sound(overlapped, b), NEW q \in Seq(Message),
           loading' = loading, received' \in 0 .. MaxMessages,
           Upto(b, received'), Due(overlapped, b, q, received'),
           \A i \in 1 .. Len(q) : Encrypted(q[i]),
           NEW busy \in Seq(Message),
           \A t \in 1 .. Len(busy) : Encrypted(busy[t]) /\ busy[t].n <= received',
           \/ busy = <<>> \/ Senders(busy) \subseteq overlapped
           \/ \E i \in 1 .. Len(q) : q[i].enc,
           1 .. received' = Held(b) \cup NumbersOf(q) \cup NumbersOf(busy),
           ProcessMessageQueue(b, q, busy)
    PROVE  EventInvariant'
<1>1. received' \in Nat
    BY ConstantsAssumption
<1>2. /\ inbox' \in Box /\ Sound(overlapped, inbox') /\ Upto(inbox', received')
      /\ incoming' \in Seq(Message) /\ Due(overlapped, inbox', incoming', received')
      /\ \A i \in 1 .. Len(incoming') : \E k \in 1 .. Len(q) : incoming'[i] = q[k]
      /\ Held(inbox') \cup NumbersOf(incoming') = Held(b) \cup NumbersOf(q)
      /\ decrypting' = IF incoming' = <<>> THEN busy ELSE Append(busy, Head(incoming'))
      /\ overlapped' = IF incoming' = <<>> \/ busy = <<>> THEN overlapped
                       ELSE overlapped \cup Senders(incoming') \cup Senders(busy)
      /\ (\E i \in 1 .. Len(q) : q[i].enc) => incoming' # <<>>
      /\ file' = IF inbox'.list = inbox.list THEN file ELSE Saved(inbox'.list)
    BY <1>1, ProcessQueueIs
<1>3. /\ Written' /\ Loading' /\ file' \in Seq(Message) /\ loading' \in Seq(Message)
      /\ NumbersOf(loading') = {}
    BY <1>2, WrittenRunning
<1>8. /\ decrypting' \in Seq(Message) /\ InHand(overlapped', incoming', decrypting')
      /\ overlapped \subseteq overlapped'
      /\ \A t \in 1 .. Len(decrypting') :
             \/ \E i \in 1 .. Len(busy) : decrypting'[t] = busy[i]
             \/ \E i \in 1 .. Len(incoming') : decrypting'[t] = incoming'[i]
      /\ \A c \in overlapped' :
             \/ c \in overlapped
             \/ \E i \in 1 .. Len(busy) : c = busy[i].from
             \/ \E i \in 1 .. Len(incoming') : c = incoming'[i].from
      /\ NumbersOf(incoming') \cup NumbersOf(decrypting') = NumbersOf(incoming') \cup NumbersOf(busy)
  <2>1. incoming' = <<>> => busy = <<>> \/ Senders(busy) \subseteq overlapped
      BY <1>2
  <2>2. /\ incoming' \in Seq(Message)
        /\ decrypting' = IF incoming' = <<>> THEN busy ELSE Append(busy, Head(incoming'))
        /\ overlapped' = IF incoming' = <<>> \/ busy = <<>> THEN overlapped
                         ELSE overlapped \cup Senders(incoming') \cup Senders(busy)
      BY <1>2
  <2>3. Gives(overlapped, incoming', busy, decrypting', overlapped')
      BY <2>1, <2>2 DEF Gives
  <2>4. Given(overlapped, incoming', busy, decrypting', overlapped')
      BY <2>2, <2>3, GivenToGnuPG
  <2>5. QED
      BY <2>4 DEF Given
<1>9. \A i \in 1 .. Len(incoming') : Encrypted(incoming'[i]) /\ incoming'[i].n <= received'
    BY <1>2 DEF Due
<1>10. \A t \in 1 .. Len(decrypting') : Encrypted(decrypting'[t]) /\ decrypting'[t].n <= received'
    BY <1>8, <1>9
<1>11. overlapped' \subseteq Encrypting
    BY <1>8, <1>9 DEF EventInvariant, Typed, Encrypted
<1>12. Sound(overlapped', inbox') /\ Due(overlapped', inbox', incoming', received')
    BY <1>2, <1>8, GivenUp
<1>4. Typed'
    BY <1>2, <1>3, <1>8, <1>11 DEF Typed
<1>5. Incoming'
    BY <1>8, <1>9, <1>10, <1>12 DEF Incoming, Coming, Due
<1>6. NothingForgotten'
  <2>1. DOMAIN inbox'.list = 1 .. Len(inbox'.list)
      BY <1>2, BoxFields
  <2>2. Held(inbox') = inbox'.done \cup Queued'
      BY <2>1 DEF Held, Queued
  <2>3. 1 .. received' = Held(inbox') \cup NumbersOf(incoming') \cup NumbersOf(decrypting')
      BY <1>2, <1>8
  <2>4. QED
      BY <1>3, <2>2, <2>3 DEF NothingForgotten
<1>7. QED
    BY <1>2, <1>3, <1>4, <1>5, <1>6, <1>12 DEF EventInvariant

\* The next message is later than all before.
LEMMA ReceivedLast ==
    ASSUME EventInvariant, NEW m \in Message, m.n = received + 1
    PROVE  /\ Newer(overlapped, inbox, m) /\ Upto(inbox, m.n)
           /\ \A i \in 1 .. Len(incoming) :
                  incoming[i] \in Message /\ incoming[i].n < m.n /\ Follows(overlapped, incoming[i], m)
<1>1. received \in Nat
    BY ConstantsAssumption DEF EventInvariant, Typed
<1>2. inbox \in Box /\ Upto(inbox, received)
    BY DEF EventInvariant, Typed
<1>3. \A i \in 1 .. Len(inbox.list) : inbox.list[i].m.n \in Nat
    BY <1>2, BoxFields, ItemFields
<1>4. \A c \in Contact : \A i \in 1 .. Len(inbox.chat[c]) : inbox.chat[c][i] \in Nat
    BY <1>2, ChatFields
<1>5. m.from \in Contact
    BY DEF Message
<1>6. Newer(overlapped, inbox, m)
    BY <1>1, <1>2, <1>3, <1>4, <1>5 DEF Newer, Upto, Follows
<1>7. Upto(inbox, m.n)
    BY <1>1, <1>2, <1>3, <1>4 DEF Upto
<1>8. ASSUME NEW i \in 1 .. Len(incoming)
      PROVE  incoming[i] \in Message /\ incoming[i].n < m.n /\ Follows(overlapped, incoming[i], m)
  <2>1. incoming[i] \in Message
      BY ElementOfSeq DEF EventInvariant, Typed
  <2>2. incoming[i].n \in Nat
      BY <2>1, ConstantsAssumption DEF Message, Number
  <2>3. incoming[i].n <= received
      BY DEF EventInvariant, Incoming, Coming
  <2>4. QED
      BY <1>1, <2>1, <2>2, <2>3 DEF Follows
<1>9. QED
    BY <1>6, <1>7, <1>8

\* A message is received: it waits behind others of its contact, is the first to
\* be decrypted, or is handled at once.
LEMMA ReceiveHolds ==
    ASSUME EventInvariant, NEW m \in Message, Receive(m)
    PROVE  EventInvariant'
<1> DEFINE waits == m.kind # "auth" /\ m.from \in Senders(incoming)
           q == Append(incoming, m)
<1>1. /\ Typed /\ Incoming /\ Written /\ Sound(overlapped, inbox) /\ Upto(inbox, received)
      /\ inbox \in Box /\ incoming \in Seq(Message) /\ Running /\ loading = <<>>
      /\ decrypting \in Seq(Message)
    BY DEF EventInvariant, Typed, Receive, Running
<1>2. /\ m.n = received + 1 /\ received' = m.n /\ loading' = loading
      /\ m.enc => m.from \in Encrypting /\ m.kind # "auth"
      /\ IF waits THEN incoming' = q /\ UNCHANGED <<decrypting, inbox, file, overlapped>>
         ELSE IF m.enc THEN ProcessMessageQueue(inbox, q, decrypting)
         ELSE Becomes(Handle(inbox, m, FALSE)) /\ UNCHANGED <<incoming, decrypting, overlapped>>
    BY DEF Receive
<1>3. /\ Newer(overlapped, inbox, m) /\ Upto(inbox, m.n)
      /\ \A i \in 1 .. Len(incoming) :
             incoming[i] \in Message /\ incoming[i].n < m.n /\ Follows(overlapped, incoming[i], m)
    BY <1>2, ReceivedLast
<1>4. /\ received \in Nat /\ m.n \in Nat /\ m.n \in 0 .. MaxMessages
      /\ 1 .. m.n = (1 .. received) \cup {m.n}
    BY <1>1, <1>2, ConstantsAssumption DEF Typed, Message, Number
<1>5. 1 .. received = Held(inbox) \cup NumbersOf(incoming) \cup NumbersOf(decrypting)
  <2>1. NumbersOf(loading) = {}
      BY <1>1 DEF NumbersOf
  <2>2. QED
      BY <1>1, <2>1, ForgottenIs DEF EventInvariant
<1>15. \A x : x \in Senders(incoming) <=> \E i \in 1 .. Len(incoming) : x = incoming[i].from
    BY <1>1, SendersIs
<1>16. \A t \in 1 .. Len(decrypting) : Encrypted(decrypting[t]) /\ decrypting[t].n <= m.n
  <2>1. ASSUME NEW t \in 1 .. Len(decrypting)
        PROVE  Encrypted(decrypting[t]) /\ decrypting[t].n <= m.n
    <3>1. decrypting[t] \in Message
        BY <1>1, ElementOfSeq
    <3>2. decrypting[t].n \in Nat
        BY <3>1, ConstantsAssumption DEF Message, Number
    <3>3. Encrypted(decrypting[t]) /\ decrypting[t].n <= received
        BY <1>1 DEF Incoming
    <3>4. QED
        BY <1>2, <1>4, <3>2, <3>3
  <2>2. QED
      BY <2>1
<1>6. Len(incoming) \in Nat /\ DOMAIN incoming = 1 .. Len(incoming)
    BY <1>1, LenProperties
<1>7. /\ q \in Seq(Message) /\ Len(q) = Len(incoming) + 1
      /\ \A i \in 1 .. Len(q) : \/ i \in 1 .. Len(incoming) /\ q[i] = incoming[i]
                                \/ i = Len(incoming) + 1 /\ q[i] = m
      /\ \A i \in 1 .. Len(incoming) : q[i] = incoming[i]
      /\ q[Len(incoming) + 1] = m
    BY <1>1, <1>6
<1> HIDE DEF q
<1>8. Due(overlapped, inbox, q, m.n)
  <2>1. \A i \in 1 .. Len(q) : Newer(overlapped, inbox, q[i]) /\ q[i].n <= m.n
    <3>1. \A i \in 1 .. Len(incoming) : Newer(overlapped, inbox, incoming[i])
        BY <1>1 DEF Incoming, Coming
    <3>2. \A i \in 1 .. Len(incoming) : incoming[i].n \in Nat
        BY <1>3, ConstantsAssumption DEF Message, Number
    <3>3. QED
        BY <1>3, <1>4, <1>7, <3>1, <3>2
  <2>2. ASSUME NEW i \in 1 .. Len(q), NEW k \in 1 .. Len(q), i < k PROVE Follows(overlapped, q[i], q[k])
    <3>1. \A j, l \in 1 .. Len(incoming) : j < l => Follows(overlapped, incoming[j], incoming[l])
        BY <1>1 DEF Incoming, Coming
    <3>2. i \in 1 .. Len(incoming) /\ q[i] = incoming[i]
        BY <1>6, <1>7, <2>2
    <3>3. QED
        BY <1>3, <1>7, <2>2, <3>1, <3>2
  <2>3. QED
      BY <2>1, <2>2 DEF Due
<1>9. 1 .. m.n = Held(inbox) \cup NumbersOf(q) \cup NumbersOf(decrypting)
  <2>1. \A x : x \in NumbersOf(q) <=> \E i \in 1 .. Len(q) : x = q[i].n
      BY <1>7, NumbersOfIs
  <2>2. \A x : x \in NumbersOf(incoming) <=> \E i \in 1 .. Len(incoming) : x = incoming[i].n
      BY <1>1, NumbersOfIs
  <2>3. Len(incoming) + 1 \in 1 .. Len(q)
      BY <1>6, <1>7
  <2>4. \A i \in 1 .. Len(incoming) : i \in 1 .. Len(q)
      BY <1>6, <1>7
  <2>5. \A x : x \in NumbersOf(q) <=> x \in NumbersOf(incoming) \/ x = m.n
      BY <1>7, <2>1, <2>2, <2>3, <2>4
  <2>6. QED
      BY <1>4, <1>5, <2>5
<1>10. ASSUME Encrypted(m) PROVE \A i \in 1 .. Len(q) : Encrypted(q[i])
    BY <1>1, <1>7, <1>10 DEF Incoming
<1>11. CASE waits
  <2>1. incoming' = q /\ UNCHANGED <<decrypting, inbox, file, overlapped>>
      BY <1>2, <1>11
  <2>2. PICK i \in 1 .. Len(incoming) : incoming[i].from = m.from
      BY <1>11, <1>15
  <2>3. Encrypted(m)
      BY <1>1, <1>11, <2>2 DEF Incoming, Encrypted
  <2>4. InHand(overlapped, q, decrypting)
    <3>1. incoming # <<>> /\ Head(incoming) = incoming[1] /\ 1 \in 1 .. Len(incoming)
        BY <1>1, <1>6, <2>2, HeadTailProperties
    <3>2. q # <<>> /\ Head(q) = q[1]
        BY <1>6, <1>7
    <3>3. Head(q) = Head(incoming)
        BY <1>7, <3>1, <3>2
    <3>4. Senders(q) = Senders(incoming)
      <4>1. \A x : x \in Senders(q) <=> \E k \in 1 .. Len(q) : x = q[k].from
          BY <1>7, SendersIs
      <4>2. \A k \in 1 .. Len(incoming) : k \in 1 .. Len(q)
          BY <1>6, <1>7
      <4>3. \A x : x \in Senders(q) <=> x \in Senders(incoming)
          BY <1>7, <1>15, <2>2, <4>1, <4>2
      <4>4. QED
          BY <4>3
    <3>5. QED
        BY <1>1, <3>1, <3>2, <3>3, <3>4 DEF Incoming, InHand
  <2>5. Incoming'
      BY <1>2, <1>8, <1>10, <1>16, <2>1, <2>3, <2>4 DEF Incoming, Coming, Due
  <2>6. Typed'
      BY <1>1, <1>2, <1>4, <1>7, <2>1 DEF Typed
  <2>7. Loading' /\ Written'
      BY <1>1, <1>2, <2>1 DEF Loading, Coming, Written
  <2>8. NumbersOf(loading') = {}
      BY <1>1, <1>2 DEF NumbersOf
  <2>9. NothingForgotten'
    <3>1. Held(inbox) = inbox.done \cup Queued
        BY <1>1, BoxFields DEF Held, Queued
    <3>2. QED
        BY <1>2, <1>9, <2>1, <2>8, <3>1 DEF NothingForgotten, Queued
  <2>10. QED
      BY <1>1, <1>2, <1>3, <2>1, <2>5, <2>6, <2>7, <2>9 DEF EventInvariant
<1>12. CASE ~waits /\ m.enc
  <2>1. ProcessMessageQueue(inbox, q, decrypting) /\ Encrypted(m)
      BY <1>2, <1>12 DEF Encrypted
  <2>2. \E i \in 1 .. Len(q) : q[i].enc
    <3>1. Len(incoming) + 1 \in 1 .. Len(q)
        BY <1>6, <1>7
    <3>2. QED
        BY <1>7, <1>12, <3>1
  <2>3. QED
      BY <1>1, <1>2, <1>3, <1>4, <1>7, <1>8, <1>9, <1>10, <1>16, <2>1, <2>2, ProcessQueueHolds
<1>13. CASE ~waits /\ ~m.enc
  <2> DEFINE r == Handle(inbox, m, FALSE)
  <2>1. /\ inbox' = r /\ UNCHANGED <<incoming, decrypting, overlapped>>
        /\ file' = IF inbox'.list = inbox.list THEN file ELSE Saved(inbox'.list)
      BY <1>2, <1>13 DEF Becomes
  <2>2. Handled(overlapped, inbox, m, r)
      BY <1>1, <1>3, HandleHandles
  <2> HIDE DEF r
  <2>3. /\ inbox' \in Box /\ Sound(overlapped, inbox')
        /\ \A l \in Message : Newer(overlapped, inbox, l) /\ Follows(overlapped, m, l) => Newer(overlapped, inbox', l)
        /\ Upto(inbox', m.n)
        /\ Held(inbox') = Held(inbox) \cup {m.n}
      BY <1>3, <1>4, <2>1, <2>2 DEF Handled
  <2>4. /\ Written' /\ Loading' /\ file' \in Seq(Message) /\ loading' \in Seq(Message)
        /\ NumbersOf(loading') = {}
      BY <1>1, <1>2, <2>1, <2>3, WrittenRunning
  <2>5. ASSUME NEW i \in 1 .. Len(incoming)
        PROVE  Newer(overlapped, inbox', incoming[i]) /\ incoming[i].n <= m.n
    <3>1. incoming[i].n \in Nat /\ incoming[i].n < m.n
        BY <1>3, ConstantsAssumption DEF Message, Number
    <3>2. incoming[i].kind # "auth" /\ Newer(overlapped, inbox, incoming[i])
        BY <1>1 DEF Incoming, Coming, Encrypted
    <3>3. ~(m.from = incoming[i].from /\ m.kind = incoming[i].kind)
        BY <1>13, <1>15, <3>2
    <3>4. Follows(overlapped, m, incoming[i])
        BY <1>4, <3>1, <3>3 DEF Follows
    <3>5. QED
        BY <1>3, <1>4, <2>3, <3>1, <3>2, <3>4
  <2>6. Incoming'
      BY <1>1, <1>2, <1>16, <2>1, <2>5 DEF Incoming, Coming
  <2>7. Typed'
      BY <1>1, <1>2, <1>4, <2>1, <2>3, <2>4 DEF Typed
  <2>8. NothingForgotten'
    <3>1. Held(inbox') = inbox'.done \cup Queued'
        BY <2>3, BoxFields DEF Held, Queued
    <3>2. 1 .. m.n = Held(inbox') \cup NumbersOf(incoming) \cup NumbersOf(decrypting)
        BY <1>4, <1>5, <2>3
    <3>3. QED
        BY <1>2, <2>1, <2>4, <3>1, <3>2 DEF NothingForgotten
  <2>9. QED
      BY <1>2, <2>1, <2>3, <2>4, <2>6, <2>7, <2>8 DEF EventInvariant
<1>14. QED
    BY <1>11, <1>12, <1>13

\* The first of the messages that come next.
LEMMA HeadComes ==
    ASSUME NEW O, NEW b, NEW q \in Seq(Message), q # <<>>, Coming(O, b, q)
    PROVE  /\ Head(q) \in Message /\ Newer(O, b, Head(q)) /\ Head(q).n <= received
           /\ Tail(q) \in Seq(Message) /\ NumbersOf(q) = {Head(q).n} \cup NumbersOf(Tail(q))
<1>1. Len(q) \in Nat \ {0}
    BY EmptySeq
<1>2. Head(q) = q[1] /\ 1 \in 1 .. Len(q)
    BY <1>1
<1>3. /\ Head(q) \in Message /\ Tail(q) \in Seq(Message) /\ Len(Tail(q)) = Len(q) - 1
      /\ \A i \in 1 .. Len(Tail(q)) : Tail(q)[i] = q[i + 1]
    BY HeadTailProperties
<1>4. \A x : x \in NumbersOf(q) <=> \E i \in 1 .. Len(q) : x = q[i].n
    BY NumbersOfIs
<1>5. \A x : x \in NumbersOf(Tail(q)) <=> \E i \in 1 .. Len(Tail(q)) : x = Tail(q)[i].n
    BY <1>3, NumbersOfIs
<1>6. \A i \in 1 .. Len(Tail(q)) : i + 1 \in 1 .. Len(q) /\ Tail(q)[i] = q[i + 1]
    BY <1>1, <1>3
<1>7. ASSUME NEW i \in 1 .. Len(q)
      PROVE  i = 1 \/ \E k \in 1 .. Len(Tail(q)) : Tail(q)[k] = q[i]
  <2>1. CASE i # 1
    <3>1. i - 1 \in 1 .. Len(Tail(q)) /\ (i - 1) + 1 = i
        BY <1>1, <1>3, <2>1
    <3>2. QED
        BY <1>3, <3>1
  <2>2. QED
      BY <2>1
<1>8. ASSUME NEW x PROVE x \in NumbersOf(q) <=> x = Head(q).n \/ x \in NumbersOf(Tail(q))
  <2>1. ASSUME x \in NumbersOf(q) PROVE x = Head(q).n \/ x \in NumbersOf(Tail(q))
      BY <1>2, <1>4, <1>5, <1>7, <2>1
  <2>2. ASSUME x = Head(q).n \/ x \in NumbersOf(Tail(q)) PROVE x \in NumbersOf(q)
      BY <1>2, <1>4, <1>5, <1>6, <2>2
  <2>3. QED
      BY <2>1, <2>2
<1>9. Newer(O, b, Head(q)) /\ Head(q).n <= received
    BY <1>2 DEF Coming
<1>10. QED
    BY <1>3, <1>8, <1>9

\* The others, when it has been handled, or another one while order is given up.
LEMMA TailComes ==
    ASSUME NEW O, NEW b, NEW q \in Seq(Message), q # <<>>, Coming(O, b, q),
           NEW m, NEW r, Handled(O, b, m, r), m = Head(q) \/ Senders(q) \subseteq O
    PROVE  Coming(O, r, Tail(q))
<1>1. Len(q) \in Nat \ {0}
    BY EmptySeq
<1>2. /\ Len(Tail(q)) = Len(q) - 1
      /\ \A i \in 1 .. Len(Tail(q)) : Tail(q)[i] = q[i + 1]
    BY HeadTailProperties
<1>3. Head(q) = q[1] /\ 1 \in 1 .. Len(q)
    BY <1>1
<1>4. \A i \in 1 .. Len(q) : q[i] \in Message
    BY ElementOfSeq
<1>5. \A i \in 1 .. Len(Tail(q)) : i + 1 \in 1 .. Len(q) /\ 1 < i + 1 /\ Tail(q)[i] = q[i + 1]
    BY <1>1, <1>2
<1>9. \A i \in 1 .. Len(q) : 1 < i => Follows(O, m, q[i])
  <2>1. CASE m = Head(q)
      BY <1>3, <2>1 DEF Coming
  <2>2. CASE Senders(q) \subseteq O
    <3>1. \A i \in 1 .. Len(q) : q[i].from \in O
        BY <2>2, SendersIs
    <3>2. QED
        BY <3>1 DEF Follows
  <2>3. QED
      BY <2>1, <2>2
<1>6. \A i \in 1 .. Len(Tail(q)) : Newer(O, r, Tail(q)[i]) /\ Tail(q)[i].n <= received
    BY <1>4, <1>5, <1>9 DEF Coming, Handled
<1>7. ASSUME NEW i \in 1 .. Len(Tail(q)), NEW k \in 1 .. Len(Tail(q)), i < k
      PROVE  Follows(O, Tail(q)[i], Tail(q)[k])
  <2>1. i + 1 < k + 1
      BY <1>1, <1>2, <1>7
  <2>2. Follows(O, q[i + 1], q[k + 1])
      BY <1>5, <2>1 DEF Coming
  <2>3. QED
      BY <1>5, <2>2
<1>8. QED
    BY <1>6, <1>7 DEF Coming

LEMMA RemoveType ==
    ASSUME NEW s \in Seq(Message), NEW t \in 1 .. Len(s)
    PROVE  LET r == RemoveAt(s, t)
           IN  /\ r \in Seq(Message) /\ Len(r) = Len(s) - 1
               /\ \A i \in 1 .. Len(r) : \E k \in 1 .. Len(s) : r[i] = s[k]
               /\ \A k \in 1 .. Len(s) : k = t \/ \E i \in 1 .. Len(r) : r[i] = s[k]
<1> DEFINE a == SubSeq(s, 1, t - 1)
           b == SubSeq(s, t + 1, Len(s))
           r == a \o b
<1>1. Len(s) \in Nat
    BY LenProperties
<1>2. a \in Seq(Message) /\ Len(a) = t - 1 /\ \A i \in 1 .. t - 1 : a[i] = s[i]
    BY <1>1
<1>3. /\ b \in Seq(Message) /\ Len(b) = Len(s) - t
      /\ \A i \in 1 .. Len(s) - t : b[i] = s[t + i]
  <2>1. t \in 0 .. Len(s)
      BY <1>1
  <2>2. QED
      BY <2>1, RestIs
<1>4. RemoveAt(s, t) = r
    BY DEF RemoveAt
<1> HIDE DEF a, b
<1>5. /\ r \in Seq(Message) /\ Len(r) = Len(a) + Len(b)
      /\ \A i \in 1 .. Len(a) + Len(b) : r[i] = IF i <= Len(a) THEN a[i] ELSE b[i - Len(a)]
    BY <1>2, <1>3, ConcatProperties
<1> HIDE DEF r
<1>6. Len(r) = Len(s) - 1
    BY <1>1, <1>2, <1>3, <1>5
<1>7. \A i \in 1 .. Len(r) : r[i] = IF i < t THEN s[i] ELSE s[i + 1]
  <2>1. ASSUME NEW i \in 1 .. Len(r) PROVE r[i] = IF i < t THEN s[i] ELSE s[i + 1]
    <3>1. CASE i < t
      <4>1. i \in 1 .. t - 1 /\ i <= Len(a) /\ i \in 1 .. Len(a) + Len(b)
          BY <1>1, <1>2, <1>3, <1>5, <3>1
      <4>2. QED
          BY <1>2, <1>5, <3>1, <4>1
    <3>2. CASE ~(i < t)
      <4> DEFINE j == i - (t - 1)
      <4>1. j \in 1 .. Len(s) - t /\ ~(i <= Len(a)) /\ i \in 1 .. Len(a) + Len(b)
            /\ i - Len(a) = j /\ t + j = i + 1
          BY <1>1, <1>2, <1>3, <1>5, <3>2
      <4> HIDE DEF j
      <4>2. r[i] = b[j] /\ b[j] = s[i + 1]
          BY <1>3, <1>5, <4>1
      <4>3. QED
          BY <3>2, <4>2
    <3>3. QED
        BY <3>1, <3>2
  <2>2. QED
      BY <2>1
<1>8. \A i \in 1 .. Len(r) : i \in 1 .. Len(s) /\ i + 1 \in 1 .. Len(s)
    BY <1>1, <1>6
<1>9. ASSUME NEW k \in 1 .. Len(s), k # t PROVE \E i \in 1 .. Len(r) : r[i] = s[k]
  <2>1. CASE k < t
    <3>1. k \in 1 .. Len(r)
        BY <1>1, <1>6, <2>1
    <3>2. QED
        BY <1>7, <2>1, <3>1
  <2>2. CASE t < k
    <3>1. k - 1 \in 1 .. Len(r) /\ ~(k - 1 < t) /\ (k - 1) + 1 = k
        BY <1>1, <1>6, <2>2
    <3>2. QED
        BY <1>7, <3>1
  <2>3. QED
      BY <1>1, <1>9, <2>1, <2>2
<1>10. QED
    BY <1>4, <1>5, <1>6, <1>7, <1>8, <1>9

\* GnuPG is done with a message.
LEMMA DecryptFinishedHolds ==
    ASSUME EventInvariant, NEW t \in DOMAIN decrypting, NEW success \in BOOLEAN,
           DecryptFinished(t, success)
    PROVE  EventInvariant'
<1> DEFINE m == decrypting[t]
           box == IF success THEN Handle(inbox, m, FALSE)
                  ELSE [inbox EXCEPT !.done = @ \cup {m.n}]
           rest == IF incoming = <<>> THEN <<>> ELSE Tail(incoming)
           busy == RemoveAt(decrypting, t)
<1>1. /\ Typed /\ Incoming /\ Sound(overlapped, inbox) /\ Upto(inbox, received) /\ inbox \in Box
      /\ incoming \in Seq(Message) /\ Running /\ loading = <<>>
      /\ received \in 0 .. MaxMessages /\ received \in Nat
      /\ decrypting \in Seq(Message) /\ Len(decrypting) \in Nat /\ t \in 1 .. Len(decrypting)
    BY ConstantsAssumption, LenProperties DEF EventInvariant, Typed, DecryptFinished, Running
<1>4. ProcessMessageQueue(box, rest, busy) /\ loading' = loading /\ received' = received
    BY DEF DecryptFinished
<1>2. m \in Message /\ Encrypted(m) /\ m.n <= received
    BY <1>1, ElementOfSeq DEF Incoming
<1>12. \/ incoming # <<>> /\ m = Head(incoming) /\ Len(decrypting) = 1
       \/ Senders(incoming) \cup Senders(decrypting) \subseteq overlapped
  <2>1. CASE decrypting = IF incoming = <<>> THEN <<>> ELSE <<Head(incoming)>>
    <3>1. incoming # <<>>
        BY <1>1, <2>1
    <3>2. QED
        BY <1>1, <2>1, <3>1
  <2>2. QED
      BY <1>1, <2>1 DEF Incoming, InHand
<1>13. /\ \A x : x \in Senders(decrypting) <=> \E i \in 1 .. Len(decrypting) : x = decrypting[i].from
       /\ \A x : x \in NumbersOf(decrypting) <=> \E i \in 1 .. Len(decrypting) : x = decrypting[i].n
    BY <1>1, SendersIs, NumbersOfIs
<1>14. /\ busy \in Seq(Message) /\ Len(busy) = Len(decrypting) - 1
       /\ \A i \in 1 .. Len(busy) : \E k \in 1 .. Len(decrypting) : busy[i] = decrypting[k]
       /\ \A k \in 1 .. Len(decrypting) : k = t \/ \E i \in 1 .. Len(busy) : busy[i] = decrypting[k]
    BY <1>1, RemoveType
<1>15. incoming # <<>> =>
           /\ Head(incoming) \in Message /\ Newer(overlapped, inbox, Head(incoming))
           /\ Tail(incoming) \in Seq(Message)
           /\ NumbersOf(incoming) = {Head(incoming).n} \cup NumbersOf(Tail(incoming))
    BY <1>1, HeadComes DEF Incoming
<1>16. rest \in Seq(Message)
    BY <1>15
<1> HIDE DEF busy
<1>3. Newer(overlapped, inbox, m)
  <2>1. ASSUME Senders(decrypting) \subseteq overlapped PROVE Newer(overlapped, inbox, m)
    <3>1. m.from \in overlapped
        BY <1>1, <1>13, <2>1
    <3>2. QED
        BY <3>1 DEF Newer, Follows
  <2>2. QED
      BY <1>12, <1>15, <2>1
<1>5. Handled(overlapped, inbox, m, box)
  <2> HIDE DEF m
  <2>1. CASE success
      BY <1>1, <1>2, <1>3, <2>1, HandleHandles
  <2>2. CASE ~success
    <3> DEFINE d == inbox.done \cup {m.n}
               r == [inbox EXCEPT !.done = d]
    <3>1. d \in SUBSET Number
        BY <1>1, <1>2, BoxFields DEF Message
    <3>2. box = r
        BY <2>2
    <3>3. /\ r \in Box /\ r.list = inbox.list /\ r.global = inbox.global
          /\ r.enabled = inbox.enabled /\ r.window = inbox.window /\ r.chat = inbox.chat
          /\ r.done = d /\ r.ids = inbox.ids
      <4> HIDE DEF d
      <4>1. QED
          BY <1>1, <3>1 DEF Box
    <3> HIDE DEF r
    <3>4. Sound(overlapped, r)
      <4>1. Ordered(overlapped, r)
          BY <1>1, <3>3 DEF Sound, Ordered
      <4>2. Numbered(r)
          BY <1>1, <3>3 DEF Sound, Numbered
      <4>3. Mirrored(r)
          BY <1>1, <3>3 DEF Sound, Mirrored
      <4>4. Complete(r)
          BY <1>1, <3>3 DEF Sound, Complete
      <4>5. Ascending(overlapped, r)
          BY <1>1, <3>3 DEF Sound, Ascending
      <4>6. Opened(r)
          BY <1>1, <3>3 DEF Sound, Opened
      <4>7. Later(overlapped, r)
          BY <1>1, <3>3 DEF Sound, Later
      <4>8. QED
          BY <4>1, <4>2, <4>3, <4>4, <4>5, <4>6, <4>7 DEF Sound
    <3>5. Held(r) = Held(inbox) \cup {m.n}
        BY <3>3 DEF Held
    <3>6. QED
        BY <3>2, <3>3, <3>4, <3>5 DEF Handled, Newer, Upto
  <2>3. QED
      BY <2>1, <2>2
<1> HIDE DEF box, m
<1>6. Coming(overlapped, box, rest)
  <2>1. CASE incoming = <<>>
      BY <2>1 DEF Coming
  <2>2. CASE incoming # <<>>
    <3>1. m = Head(incoming) \/ Senders(incoming) \subseteq overlapped
        BY <1>12
    <3>2. Coming(overlapped, box, Tail(incoming))
        BY <1>1, <1>5, <2>2, <3>1, TailComes DEF Incoming
    <3>3. QED
        BY <2>2, <3>2
  <2>3. QED
      BY <2>1, <2>2
<1>7. Due(overlapped, box, rest, received')
    BY <1>4, <1>6 DEF Due, Coming
<1>8. ASSUME NEW i \in 1 .. Len(rest) PROVE Encrypted(rest[i])
  <2>1. CASE incoming = <<>>
      BY <2>1
  <2>2. CASE incoming # <<>>
    <3>1. rest = Tail(incoming) /\ Len(incoming) \in Nat
        BY <1>1, <2>2, LenProperties
    <3>2. Len(rest) = Len(incoming) - 1 /\ rest[i] = incoming[i + 1]
        BY <1>1, <2>2, <3>1, HeadTailProperties
    <3>3. i + 1 \in 1 .. Len(incoming)
        BY <3>1, <3>2
    <3>4. QED
        BY <1>1, <3>2, <3>3 DEF Incoming
  <2>3. QED
      BY <2>1, <2>2
<1>17. \A i \in 1 .. Len(busy) : Encrypted(busy[i]) /\ busy[i].n <= received'
    BY <1>1, <1>4, <1>14 DEF Incoming
<1>18. busy = <<>> \/ Senders(busy) \subseteq overlapped
  <2>1. CASE Len(decrypting) = 1
      BY <1>14, <2>1, EmptySeq
  <2>2. CASE Senders(decrypting) \subseteq overlapped
    <3>1. \A x : x \in Senders(busy) <=> \E i \in 1 .. Len(busy) : x = busy[i].from
        BY <1>14, SendersIs
    <3>2. QED
        BY <1>13, <1>14, <2>2, <3>1, SMTT(60)
  <2>3. QED
      BY <1>12, <2>1, <2>2
\* What is dropped from the queue is with GnuPG, or is the message that was.
<1>9. 1 .. received' = Held(box) \cup NumbersOf(rest) \cup NumbersOf(busy)
  <2>1. NumbersOf(loading) = {}
      BY <1>1 DEF NumbersOf
  <2>2. 1 .. received = Held(inbox) \cup NumbersOf(incoming) \cup NumbersOf(decrypting)
      BY <1>1, <2>1, ForgottenIs DEF EventInvariant
  <2>3. NumbersOf(decrypting) = {m.n} \cup NumbersOf(busy)
    <3>1. \A x : x \in NumbersOf(busy) <=> \E i \in 1 .. Len(busy) : x = busy[i].n
        BY <1>14, NumbersOfIs
    <3>2. \A x : x \in NumbersOf(decrypting) => x = m.n \/ x \in NumbersOf(busy)
        BY <1>13, <1>14, <3>1 DEF m
    <3>3. \A x : x \in NumbersOf(busy) => x \in NumbersOf(decrypting)
        BY <1>13, <1>14, <3>1, SMTT(60)
    <3>4. m.n \in NumbersOf(decrypting)
        BY <1>1, <1>13 DEF m
    <3>5. QED
        BY <3>2, <3>3, <3>4
  <2>4. NumbersOf(incoming) \cup NumbersOf(decrypting) = NumbersOf(rest) \cup NumbersOf(decrypting)
    <3>1. CASE incoming = <<>>
        BY <3>1
    <3>2. CASE incoming # <<>>
      <4>1. Head(incoming).n \in NumbersOf(decrypting)
          BY <1>1, <1>13, <3>2 DEF Incoming, InHand
      <4>2. QED
          BY <1>15, <3>2, <4>1
    <3>3. QED
        BY <3>1, <3>2
  <2>5. Held(box) = Held(inbox) \cup {m.n}
      BY <1>5 DEF Handled
  <2> HIDE DEF rest
  <2>6. QED
      BY <1>4, <2>2, <2>3, <2>4, <2>5
<1>10. box \in Box /\ Sound(overlapped, box) /\ Upto(box, received')
    BY <1>1, <1>2, <1>4, <1>5 DEF Handled
<1> HIDE DEF rest
<1>11. QED
    BY <1>1, <1>4, <1>7, <1>8, <1>9, <1>10, <1>14, <1>16, <1>17, <1>18, ProcessQueueHolds

-----------------------------------------------------------------------------
(* The program ends and starts again.                                      *)

LEMMA CrashHolds ==
    ASSUME EventInvariant, Crash
    PROVE  EventInvariant'
<1> DEFINE done == inbox.done \cup NumbersOf(incoming) \cup NumbersOf(loading)
                              \cup NumbersOf(decrypting)
           none == [c \in Contact |-> "none"]
           empty == [c \in Contact |-> <<>>]
<1>1. /\ Typed /\ Incoming /\ Loading /\ Written /\ Sound(overlapped, inbox) /\ Upto(inbox, received)
      /\ inbox \in Box /\ incoming \in Seq(Message) /\ decrypting \in Seq(Message)
      /\ loading \in Seq(Message) /\ file \in Seq(Message) /\ received \in 0 .. MaxMessages
    BY DEF EventInvariant, Typed
<1>2. PICK enabled \in {inbox.enabled, TRUE} :
          inbox' = [list |-> <<>>, global |-> <<>>, ids |-> 0, enabled |-> enabled,
                    window |-> none, chat |-> empty, done |-> done]
    BY DEF Crash, NumbersOf
<1>3. /\ incoming' = <<>> /\ decrypting' = <<>> /\ loading' = file /\ file' = file
      /\ received' = received /\ overlapped' = overlapped
    BY DEF Crash
<1>4. done \in SUBSET Number
  <2>1. ASSUME NEW q \in Seq(Message) PROVE NumbersOf(q) \subseteq Number
    <3>1. \A i \in 1 .. Len(q) : q[i] \in Message
        BY ElementOfSeq
    <3>2. \A i \in 1 .. Len(q) : q[i].n \in Number
        BY <3>1 DEF Message
    <3>3. QED
        BY <3>2, NumbersOfIs
  <2>2. inbox.done \in SUBSET Number
      BY <1>1, BoxFields
  <2>3. QED
      BY <1>1, <2>1, <2>2
<1>5. /\ inbox'.list = <<>> /\ inbox'.global = <<>> /\ inbox'.enabled \in BOOLEAN
      /\ inbox'.window = none /\ inbox'.chat = empty /\ inbox'.done = done
      /\ inbox' \in Box
  <2>1. enabled \in BOOLEAN
      BY <1>1, <1>2, BoxFields
  <2>2. empty \in [Contact -> Seq(Number)] /\ none \in [Contact -> {"none", "hidden", "inactive", "active"}]
      OBVIOUS
  <2> HIDE DEF done, none, empty
  <2>3. QED
      BY <1>2, <1>4, <2>1, <2>2 DEF Box
<1> HIDE DEF done
<1>6. Len(inbox'.list) = 0 /\ Len(inbox'.global) = 0
      /\ \A c \in Contact : inbox'.window[c] = "none" /\ inbox'.chat[c] = <<>> /\ Len(inbox'.chat[c]) = 0
    BY <1>5
<1>7. Sound(overlapped, inbox')
  <2>1. /\ Ordered(overlapped, inbox') /\ Numbered(inbox') /\ Mirrored(inbox')
        /\ Complete(inbox') /\ Later(overlapped, inbox')
      BY <1>6 DEF Ordered, Numbered, Mirrored, Complete, Later
  <2>2. Ascending(overlapped, inbox') /\ Opened(inbox')
      BY <1>6 DEF Ascending, Opened
  <2>3. QED
      BY <2>1, <2>2 DEF Sound
<1>8. Upto(inbox', received')
    BY <1>6 DEF Upto
<1>9. Typed'
    BY <1>1, <1>3, <1>5 DEF Typed
<1>10. Incoming'
    BY <1>3 DEF Incoming, Coming, InHand
<1>11. Written'
    BY <1>3, <1>5 DEF Written
<1>12. /\ \A i \in 1 .. Len(file) : file[i].n <= received
       /\ \A i, k \in 1 .. Len(file) : i < k => Follows(overlapped, file[i], file[k])
       /\ Queued \cup NumbersOf(loading) = NumbersOf(file) \cup NumbersOf(loading)
  <2>1. CASE inbox.list = <<>>
    <3>1. file = loading /\ Queued = {}
        BY <1>1, <2>1 DEF Written, Queued
    <3>2. QED
        BY <1>1, <3>1 DEF Loading, Coming
  <2>2. CASE inbox.list # <<>>
    <3>1. file = Saved(inbox.list)
        BY <1>1, <2>2 DEF Written
    <3>2. Len(file) = Len(inbox.list) /\ \A i \in 1 .. Len(inbox.list) : file[i] = inbox.list[i].m
        BY <1>1, <3>1, SavedType
    <3>3. /\ \A i \in 1 .. Len(file) : file[i].n <= received
          /\ \A i, k \in 1 .. Len(file) : i < k => Follows(overlapped, file[i], file[k])
        BY <1>1, <3>2 DEF Sound, Ordered, Upto
    <3>4. Queued = {inbox.list[i].m.n : i \in 1 .. Len(inbox.list)}
        BY <1>1, BoxFields DEF Queued
    <3>5. \A x : x \in NumbersOf(file) <=> \E i \in 1 .. Len(file) : x = file[i].n
        BY <1>1, NumbersOfIs
    <3>6. NumbersOf(file) = Queued
        BY <3>2, <3>4, <3>5
    <3>7. QED
        BY <3>3, <3>6
  <2>3. QED
      BY <2>1, <2>2
<1>13. Loading'
  <2>1. \A i \in 1 .. Len(file) : file[i].from \in Contact
    <3>1. \A i \in 1 .. Len(file) : file[i] \in Message
        BY <1>1, ElementOfSeq
    <3>2. QED
        BY <3>1 DEF Message
  <2>2. \A i \in 1 .. Len(file) : Newer(overlapped, inbox', file[i])
      BY <1>6, <2>1 DEF Newer
  <2>3. QED
      BY <1>3, <1>6, <1>12, <2>2 DEF Loading, Coming
<1>14. NothingForgotten'
  <2>1. 1 .. received = inbox.done \cup NumbersOf(incoming) \cup NumbersOf(decrypting)
                                   \cup Queued \cup NumbersOf(loading)
      BY DEF EventInvariant, NothingForgotten
  <2>3. NumbersOf(incoming') = {} /\ NumbersOf(decrypting') = {} /\ Queued' = {}
      BY <1>3, <1>5 DEF NumbersOf, Queued
  <2>4. inbox'.done = inbox.done \cup NumbersOf(incoming) \cup NumbersOf(loading)
                      \cup NumbersOf(decrypting)
      BY <1>5 DEF done
  <2>5. 1 .. received = inbox'.done \cup NumbersOf(file)
      BY <1>12, <2>1, <2>4
  <2>6. QED
      BY <1>3, <2>3, <2>5 DEF NothingForgotten
<1>15. QED
    BY <1>3, <1>7, <1>8, <1>9, <1>10, <1>11, <1>13, <1>14 DEF EventInvariant

\* An event of the file is read.
LEMMA LoadEventHolds ==
    ASSUME EventInvariant, LoadEvent
    PROVE  EventInvariant'
<1> DEFINE m == Head(loading)
           r == Handle(inbox, m, TRUE)
<1>1. /\ Typed /\ Loading /\ Sound(overlapped, inbox) /\ Upto(inbox, received) /\ inbox \in Box
      /\ loading \in Seq(Message) /\ received \in 0 .. MaxMessages /\ received \in Nat
      /\ loading # <<>> /\ incoming = <<>> /\ \A c \in Contact : inbox.window[c] = "none"
    BY ConstantsAssumption DEF EventInvariant, Typed, Loading, LoadEvent, Running
<1>2. /\ inbox' = r /\ loading' = Tail(loading)
      /\ file' = IF inbox'.list = inbox.list THEN file ELSE Saved(inbox'.list)
      /\ UNCHANGED <<incoming, decrypting, overlapped, received>>
    BY DEF LoadEvent, Becomes
<1>3. /\ m \in Message /\ Newer(overlapped, inbox, m) /\ m.n <= received
      /\ Tail(loading) \in Seq(Message)
      /\ NumbersOf(loading) = {m.n} \cup NumbersOf(Tail(loading))
    BY <1>1, HeadComes DEF Loading
<1>4. /\ Handled(overlapped, inbox, m, r)
      /\ inbox.window[m.from] \notin Visible => Len(r.list) = Len(inbox.list) + 1
  <2> HIDE DEF m
  <2>1. QED
      BY <1>1, <1>3, HandleHandles
<1>5. Coming(overlapped, r, Tail(loading))
  <2> HIDE DEF r
  <2>1. QED
      BY <1>1, <1>4, TailComes DEF Loading
<1> HIDE DEF r, m
<1>6. /\ inbox' \in Box /\ Sound(overlapped, inbox') /\ Upto(inbox', received')
      /\ inbox'.window = inbox.window /\ Held(inbox') = Held(inbox) \cup {m.n}
    BY <1>1, <1>2, <1>3, <1>4 DEF Handled
<1>7. file' = Saved(inbox'.list) /\ inbox'.list # <<>> /\ file' \in Seq(Message)
  <2>1. m.from \in Contact
      BY <1>3 DEF Message
  <2>2. Len(inbox'.list) = Len(inbox.list) + 1
      BY <1>1, <1>2, <1>4, <2>1 DEF Visible
  <2>3. Len(inbox.list) \in Nat
      BY <1>1, BoxFields
  <2>4. inbox'.list # inbox.list /\ inbox'.list # <<>>
      BY <2>2, <2>3
  <2>5. QED
      BY <1>2, <1>6, <2>4, SavedType
<1>8. Written'
    BY <1>7 DEF Written
<1>9. Typed'
    BY <1>1, <1>2, <1>3, <1>6, <1>7 DEF Typed
<1>10. Loading'
    BY <1>1, <1>2, <1>5, <1>6 DEF Loading, Coming
<1>11. Incoming'
    BY <1>1, <1>2 DEF EventInvariant, Incoming, Coming
<1>12. NothingForgotten'
  <2>1. 1 .. received = Held(inbox) \cup NumbersOf(incoming)
                                    \cup NumbersOf(decrypting) \cup NumbersOf(loading)
      BY <1>1, ForgottenIs DEF EventInvariant
  <2>2. Held(inbox') = inbox'.done \cup Queued'
      BY <1>6, BoxFields DEF Held, Queued
  <2>3. 1 .. received = Held(inbox') \cup NumbersOf(incoming)
                                     \cup NumbersOf(decrypting) \cup NumbersOf(Tail(loading))
      BY <1>3, <1>6, <2>1
  <2>4. QED
      BY <1>2, <2>2, <2>3 DEF NothingForgotten
<1>13. QED
    BY <1>2, <1>6, <1>8, <1>9, <1>10, <1>11, <1>12 DEF EventInvariant

LEMMA InitHolds == Init => EventInvariant
<1> SUFFICES ASSUME Init PROVE EventInvariant
    OBVIOUS
<1>1. /\ incoming = <<>> /\ decrypting = <<>> /\ file = <<>> /\ loading = <<>> /\ received = 0
      /\ overlapped = {}
      /\ inbox = [list |-> <<>>, global |-> <<>>, ids |-> 0, enabled |-> TRUE,
                  window |-> [c \in Contact |-> "none"], chat |-> [c \in Contact |-> <<>>],
                  done |-> {}]
    BY DEF Init
<1>2. inbox \in Box
    BY <1>1 DEF Box
<1>3. Len(inbox.list) = 0 /\ Len(inbox.global) = 0 /\ inbox.done = {} /\ inbox.list = <<>>
      /\ \A c \in Contact : inbox.window[c] = "none" /\ inbox.chat[c] = <<>> /\ Len(inbox.chat[c]) = 0
    BY <1>1
<1>4. Typed
    BY <1>1, <1>2, ConstantsAssumption DEF Typed
<1>5. /\ Ordered(overlapped, inbox) /\ Numbered(inbox) /\ Mirrored(inbox)
      /\ Complete(inbox) /\ Later(overlapped, inbox)
    BY <1>3 DEF Ordered, Numbered, Mirrored, Complete, Later
<1>6. Ascending(overlapped, inbox) /\ Opened(inbox) /\ Upto(inbox, received)
    BY <1>3 DEF Ascending, Opened, Upto
<1>7. Incoming /\ Loading /\ Written
    BY <1>1, <1>3 DEF Incoming, InHand, Loading, Coming, Written
<1>8. NothingForgotten
    BY <1>1, <1>3 DEF NothingForgotten, NumbersOf, Queued
<1>9. QED
    BY <1>4, <1>5, <1>6, <1>7, <1>8 DEF EventInvariant, Sound

\* A function that takes no value twice is no longer than its range.
LEMMA AtMost ==
    ASSUME NEW n \in Nat, NEW k \in Nat, NEW f \in [1 .. n -> 1 .. k],
           \A x, y \in 1 .. n : f[x] = f[y] => x = y
    PROVE  n <= k
<1>1. /\ IsFiniteSet(1 .. n) /\ IsFiniteSet(1 .. k)
      /\ Cardinality(1 .. n) = n /\ Cardinality(1 .. k) = k
    BY FS_Interval
<1>2. ASSUME k < n PROVE FALSE
  <2>1. \E x, y \in 1 .. n : x # y /\ f[x] = f[y]
    <3>1. Cardinality(1 .. k) < Cardinality(1 .. n)
        BY <1>1, <1>2
    <3>2. QED
        BY <1>1, <3>1, FS_PigeonHole
  <2>2. QED
      BY <2>1
<1>3. QED
    BY <1>2

-----------------------------------------------------------------------------
(* The theorems.                                                           *)

\* In every execution the queue of events, what the windows show, the queue of
\* messages to decrypt, the file and what is still to be read from it agree in all
\* that EventInvariant says: whatever is handled next is later than what its
\* contact's window shows, unless one of the contact's messages waited when two
\* decryptions overlapped; GnuPG has the head of the queue; and the file holds what
\* a start needs to bring the queue back.
THEOREM EventInvariantHolds == Spec => []EventInvariant
<1>1. Init => EventInvariant
    BY InitHolds
<1>2. ASSUME EventInvariant, [Next]_vars PROVE EventInvariant'
  <2>1. CASE \E m \in Message : Receive(m)
      BY <1>2, <2>1, ReceiveHolds
  <2>2. CASE \E t \in DOMAIN decrypting, success \in BOOLEAN : DecryptFinished(t, success)
      BY <1>2, <2>2, DecryptFinishedHolds
  <2>3. CASE \E c \in Contact : UserOpensChat(c)
      BY <1>2, <2>3, UserOpensChatHolds
  <2>4. CASE \E c \in Contact : ReadEvent(c)
      BY <1>2, <2>4, ReadEventHolds
  <2>5. CASE RecvNextEvent
    <3>1. inbox \in Box /\ inbox.list # <<>> /\ inbox.list \in Seq(Item)
        BY <1>2, <2>5, BoxFields DEF EventInvariant, Typed, RecvNextEvent
    <3>2. Head(inbox.list) \in Item
        BY <3>1, HeadTailProperties
    <3>3. Head(inbox.list).m.from \in Contact
        BY <3>2, ItemFields
    <3>4. ReadEvent(Head(inbox.list).m.from)
        BY <2>5 DEF RecvNextEvent
    <3>5. QED
        BY <1>2, <3>3, <3>4, ReadEventHolds
  <2>6. CASE \E c \in Contact : CloseChat(c)
      BY <1>2, <2>6, CloseChatHolds
  <2>7. CASE \E c \in Contact : SelfDestruct(c)
      BY <1>2, <2>7, SelfDestructHolds
  <2>8. CASE \E c \in Contact : RemoveContact(c)
      BY <1>2, <2>8, RemoveContactHolds
  <2>9. CASE \E e \in BOOLEAN : SetAccountEnabled(e)
      BY <1>2, <2>9, SetAccountEnabledHolds
  <2>10. CASE Crash
      BY <1>2, <2>10, CrashHolds
  <2>11. CASE LoadEvent
      BY <1>2, <2>11, LoadEventHolds
  <2>12. CASE UNCHANGED vars
      BY <1>2, <2>12 DEF vars, EventInvariant, Typed, Incoming, Loading, Coming, Written,
                         NothingForgotten, Queued
  <2>13. QED
      BY <1>2, <2>1, <2>2, <2>3, <2>4, <2>5, <2>6, <2>7, <2>8, <2>9, <2>10, <2>11, <2>12 DEF Next
<1>3. QED
    BY <1>1, <1>2, PTL DEF Spec

\* The queue goes by priority; within the events of a contact none of whose messages
\* waited while decryptions overlapped, by the order of arrival for each kind and
\* without a message twice; the queue that all accounts share has exactly the events
\* of this one if it is enabled, each once; an event is marked as shown exactly if
\* the window of its contact is open behind others, and nobody has to ask for what
\* the window before his eyes should show.
THEOREM QueueInvariantHolds == Spec => []QueueInvariant
<1>1. Spec => []EventInvariant
    BY EventInvariantHolds
<1>2. ASSUME EventInvariant PROVE QueueInvariant
  <2>1. inbox \in Box /\ Typed /\ Sound(overlapped, inbox)
      BY <1>2 DEF EventInvariant, Typed
  <2>2. /\ DOMAIN inbox.list = 1 .. Len(inbox.list) /\ Len(inbox.list) \in Nat
        /\ DOMAIN inbox.global = 1 .. Len(inbox.global) /\ Len(inbox.global) \in Nat
        /\ inbox.enabled \in BOOLEAN
      BY <2>1, BoxFields
  <2>3. TypeOK
    <3>1. /\ inbox.list \in Seq([m : Message, sent : BOOLEAN, id : Nat]) /\ inbox.ids \in Nat
          /\ inbox.enabled \in BOOLEAN /\ inbox.done \subseteq Number
          /\ inbox.window \in [Contact -> {"none", "hidden"} \cup Visible]
        BY <2>1 DEF Box, Item, Visible
    <3>2. QED
        BY <2>1, <3>1 DEF Typed, TypeOK
  <2>4. QueueInOrder
      BY <2>1, <2>2 DEF QueueInOrder, Sound, Ordered, Follows
  <2>5. GlobalMirrors
    <3> DEFINE g == inbox.global
               n(k) == inbox.list[k].id
               up == [i \in 1 .. Len(g) |-> CHOOSE k \in 1 .. Len(inbox.list) : n(k) = g[i]]
               down == [k \in 1 .. Len(inbox.list) |-> CHOOSE i \in 1 .. Len(g) : n(k) = g[i]]
    <3>1. /\ \A i \in 1 .. Len(g) : inbox.enabled /\ \E k \in 1 .. Len(inbox.list) : n(k) = g[i]
          /\ inbox.enabled => \A k \in 1 .. Len(inbox.list) : \E i \in 1 .. Len(g) : n(k) = g[i]
          /\ \A i, k \in 1 .. Len(g) : g[i] = g[k] => i = k
        BY <2>1 DEF Sound, Mirrored
    <3>2. \A k, l \in 1 .. Len(inbox.list) : n(k) = n(l) => k = l
        BY <2>1, <2>2 DEF Sound, Numbered
    <3>3. Ids(Items(inbox)) = {n(k) : k \in 1 .. Len(inbox.list)}
        BY <2>2 DEF Ids, Items
    <3> HIDE DEF g, n
    <3>4. CASE inbox.enabled
      <4>1. {g[i] : i \in 1 .. Len(g)} = Ids(Items(inbox))
        <5>1. \A x : x \in Ids(Items(inbox)) <=> \E k \in 1 .. Len(inbox.list) : n(k) = x
            BY <3>3
        <5>2. \A i \in 1 .. Len(g) : g[i] \in Ids(Items(inbox))
            BY <3>1, <5>1
        <5>3. \A x \in Ids(Items(inbox)) : \E i \in 1 .. Len(g) : x = g[i]
            BY <3>1, <3>4, <5>1
        <5>4. QED
            BY <5>2, <5>3
      <4>2. up \in [1 .. Len(g) -> 1 .. Len(inbox.list)]
            /\ \A i \in 1 .. Len(g) : n(up[i]) = g[i]
          BY <3>1
      <4>3. down \in [1 .. Len(inbox.list) -> 1 .. Len(g)]
            /\ \A k \in 1 .. Len(inbox.list) : g[down[k]] = n(k)
          BY <3>1, <3>4
      <4> HIDE DEF up, down
      <4>4. \A x, y \in 1 .. Len(g) : up[x] = up[y] => x = y
          BY <3>1, <4>2
      <4>5. \A x, y \in 1 .. Len(inbox.list) : down[x] = down[y] => x = y
          BY <3>2, <4>3
      <4>6. Len(g) \in Nat
          BY <2>2 DEF g
      <4>7. Len(g) <= Len(inbox.list)
          BY <2>2, <4>2, <4>4, <4>6, AtMost
      <4>8. Len(inbox.list) <= Len(g)
          BY <2>2, <4>3, <4>5, <4>6, AtMost
      <4>9. Len(g) = Len(inbox.list)
          BY <2>2, <4>6, <4>7, <4>8
      <4>10. QED
          BY <2>2, <3>4, <4>1, <4>9 DEF GlobalMirrors, g
    <3>5. CASE ~inbox.enabled
      <4>1. Len(inbox.global) = 0
          BY <2>2, <3>1, <3>5 DEF g
      <4>2. QED
          BY <2>2, <3>5, <4>1 DEF GlobalMirrors
    <3>6. QED
        BY <2>2, <3>4, <3>5
  <2>6. WindowsAreComplete
    <3>1. \A i \in 1 .. Len(inbox.list) : inbox.list[i].sent \in BOOLEAN
        BY <2>1, BoxFields, ItemFields
    <3>2. QED
        BY <2>1, <2>2, <3>1 DEF WindowsAreComplete, Sound, Complete
  <2>7. QED
      BY <2>3, <2>4, <2>5, <2>6 DEF QueueInvariant
<1>3. QED
    BY <1>1, <1>2, PTL

\* A chat window shows the messages of its contact in the order they were
\* received, each once, whichever of them were encrypted, waited in the queue or
\* were read from the file after a start, if none of the contact's messages waited
\* when a decryption was started beside another.
THEOREM ShownInOrderHolds == Spec => []ShownInOrder
<1>1. Spec => []EventInvariant
    BY EventInvariantHolds
<1>2. ASSUME EventInvariant PROVE ShownInOrder
  <2>1. inbox \in Box /\ Sound(overlapped, inbox)
      BY <1>2 DEF EventInvariant, Typed
  <2>2. \A c \in Contact : DOMAIN inbox.chat[c] = 1 .. Len(inbox.chat[c])
      BY <2>1, ChatFields
  <2>3. QED
      BY <2>1, <2>2 DEF ShownInOrder, Sound, Ascending
<1>3. QED
    BY <1>1, <1>2, PTL

\* Whatever was received waits to be decrypted, is with GnuPG, is in the queue, is in
\* the part of the file still to be read, or is done with, however many decryptions
\* overlap; a crash between any two steps forgets nothing that the program had not
\* given up.
THEOREM NothingForgottenHolds == Spec => []NothingForgotten
<1>1. Spec => []EventInvariant
    BY EventInvariantHolds
<1>2. EventInvariant => NothingForgotten
    BY DEF EventInvariant
<1>3. QED
    BY <1>1, <1>2, PTL

\* The head of the queue is always with GnuPG, so that the queue never waits for
\* nothing; and unless all who have a message in the queue or with GnuPG are contacts
\* of overlapping decryptions, GnuPG has nothing else, so that the message taken off
\* the queue is the one that was decrypted.
HeadIsDecrypted ==
    /\ incoming # <<>> => \E t \in 1 .. Len(decrypting) : decrypting[t] = Head(incoming)
    /\ PopsTheDecrypted \/ Senders(incoming) \cup Senders(decrypting) \subseteq overlapped
THEOREM HeadIsDecryptedHolds == Spec => []HeadIsDecrypted
<1>1. Spec => []EventInvariant
    BY EventInvariantHolds
<1>2. EventInvariant => HeadIsDecrypted
    BY DEF EventInvariant, Incoming, InHand, PopsTheDecrypted, HeadIsDecrypted
<1>3. QED
    BY <1>1, <1>2, PTL
=============================================================================
