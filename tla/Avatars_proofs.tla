---------------------------- MODULE Avatars_proofs ----------------------------
(***************************************************************************)
(* Proofs about Avatars, for any photos and any number of choices, failures *)
(* and reconnections.                                                       *)
(*                                                                         *)
(* A photo goes through queues: requests to the server, their answers, the  *)
(* server's announcements.  At each queue one thing is kept, the news last  *)
(* taken from it, and another last put in; what is kept becomes what was    *)
(* put in when the queue is emptied (LastIs).  Five such facts, one for     *)
(* each queue and kind of news, carry the proofs; the picture the viewer    *)
(* has is one or two more steps behind, for it is asked for when the news   *)
(* arrives.                                                                 *)
(***************************************************************************)
EXTENDS Avatars, SequenceTheorems, TLAPS

PhotoOrNone == Photo \cup {None}

Requests == [node : {"data", "metadata", "vcard", "presence"}, photo : PhotoOrNone]
Asks     == [of : {"data", "avatar", "info"}, photo : PhotoOrNone]
Messages ==      [type : {"metadata", "presence"}, of : {"contact"}, photo : PhotoOrNone]
            \cup [type : {"result", "error"}, of : {"data", "avatar", "info"}, photo : PhotoOrNone]

\* The kinds of news.
Node(node) == {r \in Requests : r.node = node}
Ask(of)    == {r \in Asks : r.of = of}
News(type) == {m \in Messages : m.type = type}
Answer(of) == {m \in Messages : m.type = "result" /\ m.of = of}

--------------------------------------------------------------------------------
(* Queues.                                                                     *)

\* Of the news of kind M in the queue s: the photo of all is in V, that of some is
\* v, there is some.
AllIn(s, M, V)  == \A i \in 1 .. Len(s) : s[i] \in M => s[i].photo \in V
SomeIs(s, M, v) == \E i \in 1 .. Len(s) : s[i] \in M /\ s[i].photo = v
Has(s, M)       == \E i \in 1 .. Len(s) : s[i] \in M

\* The last is v, or there is none and v is what is kept.
LastIs(s, M, kept, v) ==
    \/ ~Has(s, M) /\ kept = v
    \/ \E i \in 1 .. Len(s) : /\ s[i] \in M /\ s[i].photo = v
                              /\ \A j \in 1 .. Len(s) : s[j] \in M => j <= i

\* Nothing follows a photo that says that there is none; kept comes first.
NoneFirst(s, kept) ==
    \A i \in 1 .. Len(s) :
        s[i] \in News("presence") /\ s[i].photo = None =>
            /\ kept = None
            /\ \A j \in 1 .. i : s[j] \in News("presence") => s[j].photo = None

\* A vcard that comes when hash h is known, with no other hash after it, is v.
KnownAt(s, kept, k, h) ==
    \/ k = 0 /\ kept = h
    \/ k \in 1 .. Len(s) /\ s[k] \in News("presence") /\ s[k].photo = h
Fresh(s, kept, h, v) ==
    \A k \in 0 .. Len(s) :
        /\ KnownAt(s, kept, k, h)
        /\ \A j \in k + 1 .. Len(s) : s[j] \in News("presence") => s[j].photo = h
        => \A j \in k + 1 .. Len(s) : s[j] \in Answer("avatar") => s[j].photo = v

LEMMA Appended ==
    ASSUME NEW S, NEW s \in Seq(S), NEW x \in S
    PROVE  /\ Append(s, x) \in Seq(S) /\ Len(Append(s, x)) = Len(s) + 1 /\ Len(s) \in Nat
           /\ \A i \in 1 .. Len(s) : Append(s, x)[i] = s[i]
           /\ Append(s, x)[Len(s) + 1] = x
    BY AppendProperties, LenProperties

LEMMA HeadAndTail ==
    ASSUME NEW S, NEW s \in Seq(S), s # <<>>
    PROVE  /\ Head(s) \in S /\ Tail(s) \in Seq(S) /\ Len(s) = Len(Tail(s)) + 1
           /\ Len(Tail(s)) \in Nat /\ Head(s) = s[1]
           /\ \A i \in 1 .. Len(Tail(s)) : Tail(s)[i] = s[i + 1]
    BY HeadTailProperties, LenProperties

LEMMA AllAppended ==
    ASSUME NEW S, NEW s \in Seq(S), NEW x \in S, NEW M, NEW V
    PROVE  AllIn(Append(s, x), M, V) <=> AllIn(s, M, V) /\ (x \in M => x.photo \in V)
<1> DEFINE t == Append(s, x)
<1>1. /\ Len(t) = Len(s) + 1 /\ Len(s) \in Nat
      /\ \A i \in 1 .. Len(s) : t[i] = s[i]
      /\ t[Len(s) + 1] = x
    BY Appended
<1> HIDE DEF t
<1>2. AllIn(t, M, V) <=> AllIn(s, M, V) /\ (x \in M => x.photo \in V)
    BY <1>1 DEF AllIn
<1>3. QED
    BY <1>2 DEF t

LEMMA SomeAppended ==
    ASSUME NEW S, NEW s \in Seq(S), NEW x \in S, NEW M, NEW v
    PROVE  /\ SomeIs(Append(s, x), M, v) <=> SomeIs(s, M, v) \/ (x \in M /\ x.photo = v)
           /\ Has(Append(s, x), M) <=> Has(s, M) \/ x \in M
<1> DEFINE t == Append(s, x)
<1>1. /\ Len(t) = Len(s) + 1 /\ Len(s) \in Nat
      /\ \A i \in 1 .. Len(s) : t[i] = s[i]
      /\ t[Len(s) + 1] = x
    BY Appended
<1> HIDE DEF t
<1>2. SomeIs(t, M, v) <=> SomeIs(s, M, v) \/ (x \in M /\ x.photo = v)
    BY <1>1 DEF SomeIs
<1>3. Has(t, M) <=> Has(s, M) \/ x \in M
    BY <1>1 DEF Has
<1>4. QED
    BY <1>2, <1>3 DEF t

LEMMA AllTaken ==
    ASSUME NEW S, NEW s \in Seq(S), s # <<>>, NEW M, NEW V
    PROVE  AllIn(s, M, V) <=> AllIn(Tail(s), M, V) /\ (Head(s) \in M => Head(s).photo \in V)
<1> DEFINE t == Tail(s)
           x == Head(s)
<1>1. /\ Len(s) = Len(t) + 1 /\ Len(t) \in Nat /\ x = s[1]
      /\ \A i \in 1 .. Len(t) : t[i] = s[i + 1]
    BY HeadAndTail
<1> HIDE DEF t, x
<1>2. ASSUME AllIn(s, M, V) PROVE AllIn(t, M, V) /\ (x \in M => x.photo \in V)
    BY <1>1, <1>2 DEF AllIn
<1>3. ASSUME AllIn(t, M, V), x \in M => x.photo \in V, NEW i \in 1 .. Len(s), s[i] \in M
      PROVE  s[i].photo \in V
  <2>1. CASE i = 1
      BY <1>1, <1>3, <2>1
  <2>2. CASE i # 1
    <3>1. i - 1 \in 1 .. Len(t) /\ (i - 1) + 1 = i
        BY <1>1, <2>2
    <3>2. QED
        BY <1>1, <1>3, <3>1 DEF AllIn
  <2>3. QED
      BY <2>1, <2>2
<1>4. QED
    BY <1>2, <1>3 DEF AllIn, t, x

LEMMA SomeTaken ==
    ASSUME NEW S, NEW s \in Seq(S), s # <<>>, NEW M, NEW v
    PROVE  /\ SomeIs(s, M, v) <=> SomeIs(Tail(s), M, v) \/ (Head(s) \in M /\ Head(s).photo = v)
           /\ Has(s, M) <=> Has(Tail(s), M) \/ Head(s) \in M
<1> DEFINE t == Tail(s)
           x == Head(s)
<1>1. /\ Len(s) = Len(t) + 1 /\ Len(t) \in Nat /\ x = s[1]
      /\ \A i \in 1 .. Len(t) : t[i] = s[i + 1]
    BY HeadAndTail
<1> HIDE DEF t, x
<1>2. \A i \in 1 .. Len(s) : i = 1 \/ (i - 1 \in 1 .. Len(t) /\ t[i - 1] = s[i])
    BY <1>1
<1>3. \A i \in 1 .. Len(t) : i + 1 \in 1 .. Len(s) /\ t[i] = s[i + 1]
    BY <1>1
<1>4. 1 \in 1 .. Len(s)
    BY <1>1
<1>5. SomeIs(s, M, v) <=> SomeIs(t, M, v) \/ (x \in M /\ x.photo = v)
    BY <1>1, <1>2, <1>3, <1>4 DEF SomeIs
<1>6. Has(s, M) <=> Has(t, M) \/ x \in M
    BY <1>1, <1>2, <1>3, <1>4 DEF Has
<1>7. QED
    BY <1>5, <1>6 DEF t, x

LEMMA LastAppended ==
    ASSUME NEW S, NEW s \in Seq(S), NEW x \in S, NEW M, NEW kept, NEW v
    PROVE  /\ x \in M /\ x.photo = v => LastIs(Append(s, x), M, kept, v)
           /\ x \notin M /\ LastIs(s, M, kept, v) => LastIs(Append(s, x), M, kept, v)
<1> DEFINE t == Append(s, x)
<1>1. /\ Len(t) = Len(s) + 1 /\ Len(s) \in Nat
      /\ \A i \in 1 .. Len(s) : t[i] = s[i]
      /\ t[Len(s) + 1] = x
    BY Appended
<1> HIDE DEF t
<1>2. ASSUME x \in M, x.photo = v PROVE LastIs(t, M, kept, v)
  <2>1. Len(t) \in 1 .. Len(t) /\ t[Len(t)] = x /\ \A j \in 1 .. Len(t) : j <= Len(t)
      BY <1>1
  <2>2. QED
      BY <1>2, <2>1 DEF LastIs
<1>3. ASSUME x \notin M, LastIs(s, M, kept, v) PROVE LastIs(t, M, kept, v)
  <2>1. \A i \in 1 .. Len(t) : t[i] \in M => i \in 1 .. Len(s) /\ s[i] \in M
      BY <1>1, <1>3
  <2>2. \A i \in 1 .. Len(s) : i \in 1 .. Len(t)
      BY <1>1
  <2>3. CASE ~Has(s, M) /\ kept = v
      BY <2>1, <2>3 DEF LastIs, Has
  <2>4. CASE ~(~Has(s, M) /\ kept = v)
    <3>1. PICK i \in 1 .. Len(s) : /\ s[i] \in M /\ s[i].photo = v
                                   /\ \A j \in 1 .. Len(s) : s[j] \in M => j <= i
        BY <1>3, <2>4 DEF LastIs
    <3>2. i \in 1 .. Len(t) /\ t[i] \in M /\ t[i].photo = v
        BY <1>1, <2>2, <3>1
    <3>3. \A j \in 1 .. Len(t) : t[j] \in M => j <= i
        BY <2>1, <3>1
    <3>4. QED
        BY <3>2, <3>3 DEF LastIs
  <2>5. QED
      BY <2>3, <2>4
<1>4. QED
    BY <1>2, <1>3 DEF t

LEMMA LastTaken ==
    ASSUME NEW S, NEW s \in Seq(S), s # <<>>, NEW M, NEW kept, NEW v, LastIs(s, M, kept, v)
    PROVE  /\ Head(s) \in M => LastIs(Tail(s), M, Head(s).photo, v)
           /\ Head(s) \notin M => LastIs(Tail(s), M, kept, v)
<1> DEFINE t == Tail(s)
           x == Head(s)
<1>1. /\ Len(s) = Len(t) + 1 /\ Len(t) \in Nat /\ x = s[1]
      /\ \A i \in 1 .. Len(t) : t[i] = s[i + 1]
    BY HeadAndTail
<1> HIDE DEF t, x
<1>2. \A i \in 1 .. Len(t) : i + 1 \in 1 .. Len(s) /\ t[i] = s[i + 1]
    BY <1>1
<1>3. 1 \in 1 .. Len(s)
    BY <1>1
<1>4. CASE ~Has(s, M) /\ kept = v
  <2>1. ~Has(t, M) /\ x \notin M
      BY <1>1, <1>2, <1>3, <1>4 DEF Has
  <2>2. QED
      BY <1>4, <2>1 DEF LastIs, t, x
<1>5. CASE ~(~Has(s, M) /\ kept = v)
  <2>1. PICK i \in 1 .. Len(s) : /\ s[i] \in M /\ s[i].photo = v
                                 /\ \A j \in 1 .. Len(s) : s[j] \in M => j <= i
      BY <1>5 DEF LastIs
  <2>2. CASE i = 1
    <3>1. ASSUME NEW j \in 1 .. Len(t), t[j] \in M PROVE FALSE
      <4>1. j + 1 \in 1 .. Len(s) /\ s[j + 1] \in M /\ ~(j + 1 <= 1)
          BY <1>1, <1>2, <3>1
      <4>2. QED
          BY <2>1, <2>2, <4>1
    <3>2. ~Has(t, M)
        BY <3>1 DEF Has
    <3>3. x \in M /\ x.photo = v
        BY <1>1, <2>1, <2>2
    <3>4. QED
        BY <3>2, <3>3 DEF LastIs, t, x
  <2>3. CASE i # 1
    <3>1. i - 1 \in 1 .. Len(t) /\ t[i - 1] = s[i]
        BY <1>1, <2>3
    <3>2. ASSUME NEW j \in 1 .. Len(t), t[j] \in M PROVE j <= i - 1
      <4>1. j + 1 \in 1 .. Len(s) /\ s[j + 1] \in M
          BY <1>2, <3>2
      <4>2. j + 1 <= i
          BY <2>1, <4>1
      <4>3. QED
          BY <1>1, <4>2
    <3>3. \A q : LastIs(t, M, q, v)
        BY <2>1, <3>1, <3>2 DEF LastIs
    <3>4. QED
        BY <3>3 DEF t, x
  <2>4. QED
      BY <2>2, <2>3
<1>6. QED
    BY <1>4, <1>5

LEMMA LastOfAll ==
    ASSUME NEW s, NEW M, NEW kept, NEW v, LastIs(s, M, kept, v), NEW h, AllIn(s, M, {h}), kept = h
    PROVE  v = h
    BY DEF LastIs, AllIn

LEMMA EmptyQueue ==
    ASSUME NEW M
    PROVE  /\ \A V : AllIn(<<>>, M, V)
           /\ ~Has(<<>>, M)
           /\ \A v : ~SomeIs(<<>>, M, v)
           /\ \A kept, v : LastIs(<<>>, M, kept, v) <=> kept = v
    BY DEF AllIn, SomeIs, Has, LastIs

\* What comes after an announcement is not known to be fresh until more has come; a
\* vcard put in must be v, and an announcement of another hash makes the rest moot.
LEMMA FreshAppended ==
    ASSUME NEW s \in Seq(Messages), NEW x \in Messages, NEW kept, NEW h, NEW v,
           x \notin News("presence"), Fresh(s, kept, h, v),
           x \in Answer("avatar") => x.photo = v
    PROVE  Fresh(Append(s, x), kept, h, v)
<1> DEFINE t == Append(s, x)
<1>1. /\ Len(t) = Len(s) + 1 /\ Len(s) \in Nat
      /\ \A i \in 1 .. Len(s) : t[i] = s[i]
      /\ t[Len(s) + 1] = x
    BY Appended
<1> HIDE DEF t
<1>2. SUFFICES ASSUME NEW k \in 0 .. Len(t), KnownAt(t, kept, k, h),
                      \A j \in k + 1 .. Len(t) : t[j] \in News("presence") => t[j].photo = h,
                      NEW j \in k + 1 .. Len(t), t[j] \in Answer("avatar")
               PROVE  t[j].photo = v
    BY DEF Fresh, t
<1>3. k \in 0 .. Len(s) /\ KnownAt(s, kept, k, h)
    BY <1>1, <1>2 DEF KnownAt
<1>4. \A i \in k + 1 .. Len(s) : s[i] \in News("presence") => s[i].photo = h
  <2>1. \A i \in k + 1 .. Len(s) : i \in 1 .. Len(s) /\ i \in k + 1 .. Len(t)
      BY <1>1, <1>3
  <2>2. QED
      BY <1>1, <1>2, <2>1
<1>5. CASE j = Len(s) + 1
    BY <1>1, <1>2, <1>5
<1>6. CASE j # Len(s) + 1
  <2>1. j \in k + 1 .. Len(s) /\ j \in 1 .. Len(s)
      BY <1>1, <1>3, <1>6
  <2>2. s[j] \in Answer("avatar") /\ s[j] = t[j]
      BY <1>1, <1>2, <2>1
  <2>3. QED
      BY <1>3, <1>4, <2>1, <2>2 DEF Fresh
<1>7. QED
    BY <1>5, <1>6

LEMMA FreshAnnounced ==
    ASSUME NEW s \in Seq(Messages), NEW x \in News("presence"), NEW kept, NEW h, NEW v,
           LastIs(s, News("presence"), kept, h), h = x.photo => Fresh(s, kept, h, v)
    PROVE  Fresh(Append(s, x), kept, x.photo, v)
<1> DEFINE t == Append(s, x)
           g == x.photo
<1> x \in Messages /\ x \notin Answer("avatar")
    BY DEF News, Answer, Messages
<1>1. /\ Len(t) = Len(s) + 1 /\ Len(s) \in Nat
      /\ \A i \in 1 .. Len(s) : t[i] = s[i]
      /\ t[Len(s) + 1] = x
    BY Appended
<1> HIDE DEF t, g
<1>2. SUFFICES ASSUME NEW k \in 0 .. Len(t), KnownAt(t, kept, k, g),
                      \A j \in k + 1 .. Len(t) : t[j] \in News("presence") => t[j].photo = g,
                      NEW j \in k + 1 .. Len(t), t[j] \in Answer("avatar")
               PROVE  t[j].photo = v
    BY DEF Fresh, t, g
<1>3. j # Len(s) + 1
    BY <1>1, <1>2
<1>4. j \in k + 1 .. Len(s) /\ j \in 1 .. Len(s) /\ k \in 0 .. Len(s)
    BY <1>1, <1>2, <1>3
<1>5. KnownAt(s, kept, k, g)
    BY <1>1, <1>2, <1>4 DEF KnownAt
<1>6. \A i \in k + 1 .. Len(s) : s[i] \in News("presence") => s[i].photo = g
  <2>1. \A i \in k + 1 .. Len(s) : i \in 1 .. Len(s) /\ i \in k + 1 .. Len(t)
      BY <1>1, <1>4
  <2>2. QED
      BY <1>1, <1>2, <2>1
<1>7. h = g
  <2>1. CASE ~Has(s, News("presence")) /\ kept = h
      BY <1>5, <2>1 DEF KnownAt, Has
  <2>2. CASE ~(~Has(s, News("presence")) /\ kept = h)
    <3>1. PICK i \in 1 .. Len(s) :
              /\ s[i] \in News("presence") /\ s[i].photo = h
              /\ \A n \in 1 .. Len(s) : s[n] \in News("presence") => n <= i
        BY <2>2 DEF LastIs
    <3>2. CASE i \in k + 1 .. Len(s)
        BY <1>6, <3>1, <3>2
    <3>3. CASE i \notin k + 1 .. Len(s)
      <4>1. k \in 1 .. Len(s) /\ s[k] \in News("presence") /\ s[k].photo = g /\ i <= k
          BY <1>1, <1>4, <1>5, <3>1, <3>3 DEF KnownAt
      <4>2. k <= i
          BY <3>1, <4>1
      <4>3. QED
          BY <1>4, <3>1, <4>1, <4>2
    <3>4. QED
        BY <3>2, <3>3
  <2>3. QED
      BY <2>1, <2>2
<1>8. Fresh(s, kept, h, v) /\ s[j] \in Answer("avatar") /\ s[j] = t[j]
    BY <1>1, <1>2, <1>4, <1>7 DEF g
<1>9. QED
    BY <1>4, <1>5, <1>6, <1>7, <1>8 DEF Fresh

\* What is kept follows the announcements taken.
LEMMA FreshTaken ==
    ASSUME NEW s \in Seq(Messages), s # <<>>, NEW kept, NEW h, NEW v, Fresh(s, kept, h, v)
    PROVE  /\ Head(s) \in News("presence") => Fresh(Tail(s), Head(s).photo, h, v)
           /\ Head(s) \notin News("presence") => Fresh(Tail(s), kept, h, v)
<1> DEFINE t == Tail(s)
           x == Head(s)
<1>1. /\ Len(s) = Len(t) + 1 /\ Len(t) \in Nat /\ x = s[1]
      /\ \A i \in 1 .. Len(t) : t[i] = s[i + 1]
    BY HeadAndTail
<1> HIDE DEF t, x
<1>2. SUFFICES ASSUME NEW q, x \in News("presence") => q = x.photo,
                      x \notin News("presence") => q = kept,
                      NEW k \in 0 .. Len(t), KnownAt(t, q, k, h),
                      \A j \in k + 1 .. Len(t) : t[j] \in News("presence") => t[j].photo = h,
                      NEW j \in k + 1 .. Len(t), t[j] \in Answer("avatar")
               PROVE  t[j].photo = v
    BY DEF Fresh, t, x
<1>3. j + 1 \in 1 .. Len(s) /\ s[j + 1] = t[j]
  <2>1. j \in 1 .. Len(t)
      BY <1>1
  <2>2. QED
      BY <1>1, <2>1
<1>4. \A i \in k + 2 .. Len(s) : i - 1 \in k + 1 .. Len(t) /\ t[i - 1] = s[i]
  <2>1. \A i \in k + 2 .. Len(s) : /\ i - 1 \in k + 1 .. Len(t) /\ i - 1 \in 1 .. Len(t)
                                   /\ (i - 1) + 1 = i
      BY <1>1
  <2>2. QED
      BY <1>1, <2>1
<1>5. \A i \in k + 2 .. Len(s) : s[i] \in News("presence") => s[i].photo = h
    BY <1>2, <1>4
<1>6. CASE k = 0 /\ x \notin News("presence")
  <2>1. KnownAt(s, kept, 0, h)
      BY <1>1, <1>2, <1>6 DEF KnownAt
  <2>2. \A i \in 0 + 1 .. Len(s) : s[i] \in News("presence") => s[i].photo = h
    <3>1. \A i \in 0 + 1 .. Len(s) : i = 1 \/ i \in k + 2 .. Len(s)
        BY <1>6
    <3>2. QED
        BY <1>1, <1>5, <1>6, <3>1
  <2>3. 0 \in 0 .. Len(s) /\ j + 1 \in 0 + 1 .. Len(s)
      BY <1>1, <1>3
  <2>4. QED
      BY <1>2, <1>3, <2>1, <2>2, <2>3 DEF Fresh
<1>7. CASE ~(k = 0 /\ x \notin News("presence"))
  <2>1. KnownAt(s, kept, k + 1, h)
    <3>1. CASE k = 0
        BY <1>1, <1>2, <1>7, <3>1 DEF KnownAt
    <3>2. CASE k # 0
      <4>1. k \in 1 .. Len(t) /\ t[k] \in News("presence") /\ t[k].photo = h
          BY <1>2, <3>2 DEF KnownAt
      <4>2. k + 1 \in 1 .. Len(s) /\ s[k + 1] = t[k]
          BY <1>1, <4>1
      <4>3. QED
          BY <4>1, <4>2 DEF KnownAt
    <3>3. QED
        BY <3>1, <3>2
  <2>2. k + 1 \in 0 .. Len(s) /\ (k + 1) + 1 = k + 2 /\ j + 1 \in k + 2 .. Len(s)
      BY <1>1
  <2>3. QED
      BY <1>2, <1>3, <1>5, <2>1, <2>2 DEF Fresh
<1>8. QED
    BY <1>6, <1>7

LEMMA FreshUsed ==
    ASSUME NEW s \in Seq(Messages), NEW h, NEW v, Fresh(s, h, h, v),
           AllIn(s, News("presence"), {h})
    PROVE  AllIn(s, Answer("avatar"), {v})
<1>1. Len(s) \in Nat
    BY LenProperties
<1>2. KnownAt(s, h, 0, h) /\ 0 \in 0 .. Len(s) /\ 0 + 1 = 1
    BY <1>1 DEF KnownAt
<1>3. QED
    BY <1>2 DEF Fresh, AllIn

LEMMA NoneAppended ==
    ASSUME NEW s \in Seq(Messages), NEW x \in Messages, NEW kept, NoneFirst(s, kept),
           x \in News("presence") => x.photo # None
    PROVE  NoneFirst(Append(s, x), kept)
<1> DEFINE t == Append(s, x)
<1>1. /\ Len(t) = Len(s) + 1 /\ Len(s) \in Nat
      /\ \A i \in 1 .. Len(s) : t[i] = s[i]
      /\ t[Len(s) + 1] = x
    BY Appended
<1> HIDE DEF t
<1>2. ASSUME NEW i \in 1 .. Len(t), t[i] \in News("presence"), t[i].photo = None
      PROVE  /\ kept = None
             /\ \A j \in 1 .. i : t[j] \in News("presence") => t[j].photo = None
  <2>1. i \in 1 .. Len(s) /\ s[i] = t[i]
      BY <1>1, <1>2
  <2>2. \A j \in 1 .. i : j \in 1 .. Len(s) /\ s[j] = t[j]
      BY <1>1, <2>1
  <2>3. QED
      BY <1>2, <2>1, <2>2 DEF NoneFirst
<1>3. QED
    BY <1>2 DEF NoneFirst, t

LEMMA NoneTaken ==
    ASSUME NEW s \in Seq(Messages), s # <<>>, NEW kept, NoneFirst(s, kept)
    PROVE  /\ Head(s) \in News("presence") /\ Head(s).photo # None => \A q : NoneFirst(Tail(s), q)
           /\ Head(s) \in News("presence") /\ Head(s).photo = None => kept = None
           /\ NoneFirst(Tail(s), kept)
<1> DEFINE t == Tail(s)
           x == Head(s)
<1>1. /\ Len(s) = Len(t) + 1 /\ Len(t) \in Nat /\ x = s[1]
      /\ \A i \in 1 .. Len(t) : t[i] = s[i + 1]
    BY HeadAndTail
<1> HIDE DEF t, x
<1>2. ASSUME NEW i \in 1 .. Len(t), t[i] \in News("presence"), t[i].photo = None
      PROVE  /\ kept = None /\ (x \in News("presence") => x.photo = None)
             /\ \A j \in 1 .. i : t[j] \in News("presence") => t[j].photo = None
  <2>1. i + 1 \in 1 .. Len(s) /\ s[i + 1] = t[i]
      BY <1>1
  <2>2. \A j \in 1 .. i : j + 1 \in 1 .. i + 1 /\ s[j + 1] = t[j]
      BY <1>1
  <2>3. 1 \in 1 .. i + 1
      OBVIOUS
  <2>4. QED
      BY <1>1, <1>2, <2>1, <2>2, <2>3 DEF NoneFirst
<1>3. x \in News("presence") /\ x.photo = None => kept = None
  <2>1. 1 \in 1 .. Len(s)
      BY <1>1
  <2>2. QED
      BY <1>1, <2>1 DEF NoneFirst
<1>4. QED
    BY <1>2, <1>3 DEF NoneFirst, t, x

\* What there is of each kind of news after one is put in, and after one is taken.
LEMMA Longer ==
    ASSUME NEW S, NEW s \in Seq(S), NEW x \in S
    PROVE  LET t == Append(s, x) IN
           /\ t \in Seq(S)
           /\ \A M, V : AllIn(t, M, V) <=> AllIn(s, M, V) /\ (x \in M => x.photo \in V)
           /\ \A M, v : SomeIs(t, M, v) <=> SomeIs(s, M, v) \/ (x \in M /\ x.photo = v)
           /\ \A M : Has(t, M) <=> Has(s, M) \/ x \in M
           /\ \A M, kept, v : x \in M /\ x.photo = v => LastIs(t, M, kept, v)
           /\ \A M, kept, v : x \notin M /\ LastIs(s, M, kept, v) => LastIs(t, M, kept, v)
    BY AllAppended, SomeAppended, LastAppended, Appended

LEMMA Shorter ==
    ASSUME NEW S, NEW s \in Seq(S), s # <<>>
    PROVE  LET t == Tail(s)
               x == Head(s) IN
           /\ x \in S /\ t \in Seq(S)
           /\ \A M, V : AllIn(s, M, V) <=> AllIn(t, M, V) /\ (x \in M => x.photo \in V)
           /\ \A M, v : SomeIs(s, M, v) <=> SomeIs(t, M, v) \/ (x \in M /\ x.photo = v)
           /\ \A M : Has(s, M) <=> Has(t, M) \/ x \in M
           /\ \A M, kept, v : x \in M /\ LastIs(s, M, kept, v) => LastIs(t, M, x.photo, v)
           /\ \A M, kept, v : x \notin M /\ LastIs(s, M, kept, v) => LastIs(t, M, kept, v)
    BY AllTaken, SomeTaken, LastTaken, HeadAndTail

--------------------------------------------------------------------------------
(* The inductive invariant.                                                    *)

Typed ==
    /\ self \in [choice : PhotoOrNone, selfAvatarHash : PhotoOrNone, photoHash : PhotoOrNone,
                 login : PhotoOrNone]
    /\ up \in Seq(Requests) /\ acks \in Seq(Requests)
    /\ server \in [items : SUBSET Photo, metadata : PhotoOrNone, vcard : PhotoOrNone,
                   presence : PhotoOrNone]
    /\ wire \in Seq(Messages) /\ asks \in Seq(Asks)
    /\ pep \in [hash : PhotoOrNone, image : PhotoOrNone]
    /\ vcard \in [hash : PhotoOrNone, image : PhotoOrNone]
    /\ saved \in PhotoOrNone \cup {Unknown}
    /\ cache \in SUBSET Photo /\ file \in BOOLEAN
    /\ failed \in BOOLEAN /\ removed \in BOOLEAN

\* Data is that of a photo, published, asked for and answered.
DataHasPhoto ==
    /\ AllIn(up, Node("data"), Photo)
    /\ AllIn(asks, Ask("data"), Photo)
    /\ AllIn(wire, Answer("data"), Photo)

Viewed == pep.image \in {None, pep.hash} /\ ViewIsCurrent

\* A hash is announced only when the data's publication was answered.
PublishedFirst ==
    /\ AllIn(acks, Node("data"), server.items)
    /\ AllIn(up, Node("metadata"), server.items \cup {None})
    /\ server.metadata \in server.items \cup {None}

\* The choice is being published, or answered, or announced after whatever else is.
ChoiceOnItsWay ==
    ~failed /\ self.choice # None =>
        /\ self.selfAvatarHash = self.choice
        /\ \/ SomeIs(up, Node("data"), self.choice)
           \/ SomeIs(acks, Node("data"), self.choice)
           \/ LastIs(up, Node("metadata"), server.metadata, self.choice)

\* The viewer's hash is on its way to the one announced, its picture to its hash.
HashFollows == LastIs(wire, News("metadata"), pep.hash, server.metadata)
PictureFollows ==
    ~failed /\ pep.hash # None =>
        \/ pep.image = pep.hash
        \/ SomeIs(asks, Ask("data"), pep.hash)
        \/ SomeIs(wire, Answer("data"), pep.hash)

\* The contact's hash is on its way to the photo of the server's vcard, presence to
\* the hash in loginStatus, which is the contact's hash until a photo is taken off,
\* and the viewer's hash to presence.
VCardFollows    == LastIs(acks, Node("vcard"), self.photoHash, server.vcard)
PresenceFollows ==
    /\ LastIs(up, Node("presence"), server.presence, self.login)
    /\ ~removed => self.login = self.photoHash
SeenFollows     == ~removed => LastIs(wire, News("presence"), vcard.hash, server.presence)

\* Until a photo is taken off, none is announced only before the first.
NoneIsFirst ==
    ~removed =>
        /\ AllIn(up, Node("vcard"), Photo) /\ AllIn(up, Node("presence"), Photo)
        /\ AllIn(acks, Node("vcard"), Photo)
        /\ NoneFirst(wire, vcard.hash)

\* No other photo of the vcard waits to be announced.
Calm ==
    /\ AllIn(acks, Node("vcard"), {self.photoHash})
    /\ AllIn(up, Node("presence"), {server.presence})

\* A vcard asked for since the last announcement has the photo announced.
VCardsAreFresh ==
    ~removed /\ Calm => Fresh(wire, vcard.hash, server.presence, server.vcard)

PhotoFollows ==
    /\ ~failed /\ ~removed /\ Calm
    /\ AllIn(wire, News("presence"), {vcard.hash})
    => \/ vcard.image = server.vcard
       \/ Has(asks, Ask("avatar"))
       \/ Has(wire, Answer("avatar"))

ErrorsAreFailures == Has(wire, News("error")) => failed

AvatarInvariant ==
    /\ Typed /\ DataHasPhoto /\ Viewed /\ PublishedFirst /\ ChoiceOnItsWay
    /\ HashFollows /\ PictureFollows
    /\ VCardFollows /\ PresenceFollows /\ SeenFollows /\ NoneIsFirst
    /\ VCardsAreFresh /\ PhotoFollows /\ ErrorsAreFailures

--------------------------------------------------------------------------------
(* The contact's Psi.                                                          *)

THEOREM InitAvatars == Init => AvatarInvariant
<1> SUFFICES ASSUME Init PROVE AvatarInvariant
    OBVIOUS
<1> USE ConstantsAssumption
<1>1. \A S : <<>> \in Seq(S) /\ Len(<<>>) = 0
    OBVIOUS
<1>2. Typed
    BY <1>1 DEF Init, Typed, PhotoOrNone, NoAvatar
<1>3. DataHasPhoto /\ PublishedFirst
    BY EmptyQueue DEF Init, DataHasPhoto, PublishedFirst
<1>4. Viewed
    BY DEF Init, Viewed, ViewIsCurrent, Retrieved, NoAvatar
<1>5. ChoiceOnItsWay
    BY DEF Init, ChoiceOnItsWay
<1>6. HashFollows /\ PictureFollows /\ VCardFollows /\ PresenceFollows /\ SeenFollows
    BY EmptyQueue DEF Init, HashFollows, PictureFollows, VCardFollows, PresenceFollows,
                      SeenFollows, NoAvatar
<1>7. NoneIsFirst
  <2>1. NoneFirst(<<>>, None)
      BY <1>1 DEF NoneFirst
  <2>2. QED
      BY <2>1, EmptyQueue DEF Init, NoneIsFirst, NoAvatar
<1>8. Fresh(<<>>, None, None, None)
    BY <1>1 DEF Fresh
<1>9. VCardsAreFresh /\ PhotoFollows /\ ErrorsAreFailures
    BY <1>8, EmptyQueue DEF Init, VCardsAreFresh, PhotoFollows, ErrorsAreFailures, NoAvatar
<1>10. QED
    BY <1>2, <1>3, <1>4, <1>5, <1>6, <1>7, <1>9 DEF AvatarInvariant

\* A request that is sent adds to the news of its own node only.
LEMMA Kinds ==
    ASSUME NEW node \in {"data", "metadata", "vcard", "presence"}, NEW p \in PhotoOrNone
    PROVE  LET r == Request(node, p) IN
           /\ r \in Requests /\ r.photo = p /\ r.node = node
           /\ \A n : r \in Node(n) <=> n = node
    BY DEF Request, Requests, Node

LEMMA SetSelfAvatarPreserves ==
    ASSUME AvatarInvariant, NEW p \in Photo, SetSelfAvatar(p)
    PROVE  AvatarInvariant'
<1> DEFINE x == Request("data", p)
<1>1. x \in Requests /\ x.photo = p /\ p \in PhotoOrNone
      /\ x \in Node("data") /\ x \notin Node("metadata") /\ x \notin Node("vcard")
      /\ x \notin Node("presence")
    BY Kinds DEF PhotoOrNone
<1>2. /\ up' = Append(up, x) /\ self' = [self EXCEPT !.choice = p, !.selfAvatarHash = p]
      /\ UNCHANGED <<acks, server, wire, viewer, failed, removed, failures, reconnects>>
    BY DEF SetSelfAvatar, Choose
<1>3. up \in Seq(Requests)
    BY DEF AvatarInvariant, Typed
<1> HIDE DEF x
<1>4. /\ \A M, V : AllIn(up', M, V) <=> AllIn(up, M, V) /\ (x \in M => x.photo \in V)
      /\ \A M, v : SomeIs(up', M, v) <=> SomeIs(up, M, v) \/ (x \in M /\ x.photo = v)
      /\ \A M, kept, v : x \notin M /\ LastIs(up, M, kept, v) => LastIs(up', M, kept, v)
      /\ up' \in Seq(Requests)
    BY <1>1, <1>2, <1>3, Longer
<1>5. self'.choice = p /\ self'.selfAvatarHash = p /\ self'.photoHash = self.photoHash
      /\ self'.login = self.login
    BY <1>2 DEF AvatarInvariant, Typed
<1>6. Typed'
    BY <1>1, <1>2, <1>4 DEF AvatarInvariant, Typed, viewer
<1>7. DataHasPhoto' /\ PublishedFirst'
    BY <1>1, <1>2, <1>4 DEF AvatarInvariant, DataHasPhoto, PublishedFirst, viewer
<1>8. Viewed' /\ HashFollows' /\ PictureFollows' /\ SeenFollows' /\ ErrorsAreFailures'
    BY <1>2 DEF AvatarInvariant, Viewed, ViewIsCurrent, HashFollows, PictureFollows, SeenFollows,
                ErrorsAreFailures, viewer
<1>9. ChoiceOnItsWay'
    BY <1>1, <1>4, <1>5 DEF ChoiceOnItsWay
<1>10. VCardFollows' /\ PresenceFollows' /\ NoneIsFirst'
    BY <1>1, <1>2, <1>4, <1>5 DEF AvatarInvariant, VCardFollows, PresenceFollows, NoneIsFirst, viewer
<1>11. VCardsAreFresh' /\ PhotoFollows'
    BY <1>1, <1>2, <1>4, <1>5 DEF AvatarInvariant, VCardsAreFresh, PhotoFollows, Calm, viewer
<1>12. QED
    BY <1>6, <1>7, <1>8, <1>9, <1>10, <1>11 DEF AvatarInvariant

LEMMA UnsetSelfAvatarPreserves ==
    ASSUME AvatarInvariant, UnsetSelfAvatar
    PROVE  AvatarInvariant'
<1> DEFINE x == Request("metadata", None)
<1>1. x \in Requests /\ x.photo = None /\ None \in PhotoOrNone
      /\ x \notin Node("data") /\ x \in Node("metadata") /\ x \notin Node("vcard")
      /\ x \notin Node("presence")
    BY Kinds DEF PhotoOrNone
<1>2. /\ up' = Append(up, x) /\ self' = [self EXCEPT !.choice = None]
      /\ UNCHANGED <<acks, server, wire, viewer, failed, removed, failures, reconnects>>
    BY DEF UnsetSelfAvatar, Choose
<1>3. up \in Seq(Requests)
    BY DEF AvatarInvariant, Typed
<1> HIDE DEF x
<1>4. /\ \A M, V : AllIn(up', M, V) <=> AllIn(up, M, V) /\ (x \in M => x.photo \in V)
      /\ \A M, v : SomeIs(up', M, v) <=> SomeIs(up, M, v) \/ (x \in M /\ x.photo = v)
      /\ \A M, kept, v : x \notin M /\ LastIs(up, M, kept, v) => LastIs(up', M, kept, v)
      /\ up' \in Seq(Requests)
    BY <1>1, <1>2, <1>3, Longer
<1>5. self'.choice = None /\ self'.photoHash = self.photoHash /\ self'.login = self.login
    BY <1>2 DEF AvatarInvariant, Typed
<1>6. Typed'
    BY <1>1, <1>2, <1>4 DEF AvatarInvariant, Typed, viewer
<1>7. DataHasPhoto' /\ PublishedFirst'
    BY <1>1, <1>2, <1>4 DEF AvatarInvariant, DataHasPhoto, PublishedFirst, viewer
<1>8. Viewed' /\ HashFollows' /\ PictureFollows' /\ SeenFollows' /\ ErrorsAreFailures'
    BY <1>2 DEF AvatarInvariant, Viewed, ViewIsCurrent, HashFollows, PictureFollows, SeenFollows,
                ErrorsAreFailures, viewer
<1>9. ChoiceOnItsWay'
    BY <1>5 DEF ChoiceOnItsWay
<1>10. VCardFollows' /\ PresenceFollows' /\ NoneIsFirst'
    BY <1>1, <1>2, <1>4, <1>5 DEF AvatarInvariant, VCardFollows, PresenceFollows, NoneIsFirst, viewer
<1>11. VCardsAreFresh' /\ PhotoFollows'
    BY <1>1, <1>2, <1>4, <1>5 DEF AvatarInvariant, VCardsAreFresh, PhotoFollows, Calm, viewer
<1>12. QED
    BY <1>6, <1>7, <1>8, <1>9, <1>10, <1>11 DEF AvatarInvariant

LEMMA ChangeVCardPreserves ==
    ASSUME AvatarInvariant, NEW p \in PhotoOrNone, ChangeVCard(p)
    PROVE  AvatarInvariant'
<1> DEFINE x == Request("vcard", p)
<1>1. x \in Requests /\ x.photo = p
      /\ x \notin Node("data") /\ x \notin Node("metadata") /\ x \in Node("vcard")
      /\ x \notin Node("presence")
    BY Kinds
<1>2. /\ up' = Append(up, x) /\ removed' = (removed \/ p = None)
      /\ UNCHANGED <<self, acks, server, wire, viewer, failed, failures, reconnects>>
    BY DEF ChangeVCard, Choose
<1>3. up \in Seq(Requests)
    BY DEF AvatarInvariant, Typed
<1> HIDE DEF x
<1>4. /\ \A M, V : AllIn(up', M, V) <=> AllIn(up, M, V) /\ (x \in M => x.photo \in V)
      /\ \A M, v : SomeIs(up', M, v) <=> SomeIs(up, M, v) \/ (x \in M /\ x.photo = v)
      /\ \A M, kept, v : x \notin M /\ LastIs(up, M, kept, v) => LastIs(up', M, kept, v)
      /\ up' \in Seq(Requests)
    BY <1>1, <1>2, <1>3, Longer
<1>5. (~removed' => ~removed /\ p \in Photo) /\ removed' \in BOOLEAN
    BY <1>2 DEF AvatarInvariant, Typed, PhotoOrNone
<1>6. Typed'
    BY <1>2, <1>4, <1>5 DEF AvatarInvariant, Typed, viewer
<1>7. DataHasPhoto' /\ PublishedFirst'
    BY <1>1, <1>2, <1>4 DEF AvatarInvariant, DataHasPhoto, PublishedFirst, viewer
<1>8. Viewed' /\ HashFollows' /\ PictureFollows' /\ SeenFollows' /\ ErrorsAreFailures'
    BY <1>2, <1>5 DEF AvatarInvariant, Viewed, ViewIsCurrent, HashFollows, PictureFollows, SeenFollows,
                ErrorsAreFailures, viewer
<1>9. ChoiceOnItsWay'
    BY <1>1, <1>2, <1>4 DEF AvatarInvariant, ChoiceOnItsWay
<1>10. VCardFollows' /\ PresenceFollows' /\ NoneIsFirst'
    BY <1>1, <1>2, <1>4, <1>5 DEF AvatarInvariant, VCardFollows, PresenceFollows, NoneIsFirst, viewer
<1>11. VCardsAreFresh' /\ PhotoFollows'
    BY <1>1, <1>2, <1>4, <1>5 DEF AvatarInvariant, VCardsAreFresh, PhotoFollows, Calm, viewer
<1>12. QED
    BY <1>6, <1>7, <1>8, <1>9, <1>10, <1>11 DEF AvatarInvariant

\* The hash of an answered publication is announced if it is still the chosen one; the
\* photo of an answered vcard is announced in presence if it is another.
LEMMA TakeAckPreserves ==
    ASSUME AvatarInvariant, TakeAck
    PROVE  AvatarInvariant'
<1> DEFINE ack == Head(acks)
<1>1. /\ acks # <<>> /\ acks' = Tail(acks)
      /\ UNCHANGED <<server, wire, viewer, failed, removed, bounds>>
      /\ \/ PublishSuccess(ack)
         \/ VCardUpdated(ack)
         \/ ack.node = "metadata" /\ UNCHANGED <<self, up>>
    BY DEF TakeAck
<1>2. acks \in Seq(Requests) /\ up \in Seq(Requests)
    BY DEF AvatarInvariant, Typed
<1>3. /\ ack \in Requests /\ acks' \in Seq(Requests)
      /\ \A M, V : AllIn(acks, M, V) <=> AllIn(acks', M, V) /\ (ack \in M => ack.photo \in V)
      /\ \A M, v : SomeIs(acks, M, v) <=> SomeIs(acks', M, v) \/ (ack \in M /\ ack.photo = v)
      /\ \A M, kept, v : ack \in M /\ LastIs(acks, M, kept, v) => LastIs(acks', M, ack.photo, v)
      /\ \A M, kept, v : ack \notin M /\ LastIs(acks, M, kept, v) => LastIs(acks', M, kept, v)
    BY <1>1, <1>2, Shorter
<1> HIDE DEF ack
<1>4. ack.photo \in PhotoOrNone /\ \A n : ack \in Node(n) <=> ack.node = n
    BY <1>3 DEF Requests, Node
<1>5. Viewed' /\ HashFollows' /\ PictureFollows' /\ SeenFollows' /\ ErrorsAreFailures'
    BY <1>1 DEF AvatarInvariant, Viewed, ViewIsCurrent, HashFollows, PictureFollows, SeenFollows,
                ErrorsAreFailures, viewer
<1>6. CASE PublishSuccess(ack)
  <2> DEFINE x == Request("metadata", self.selfAvatarHash)
  <2>1. ack.node = "data" /\ self' = self /\ ack \in Node("data") /\ ack \notin Node("vcard")
      BY <1>4, <1>6 DEF PublishSuccess
  <2>2. up' = IF ack.photo = self.selfAvatarHash THEN Append(up, x) ELSE up
      BY <1>6 DEF PublishSuccess
  <2>3. /\ x \in Requests /\ x.photo = self.selfAvatarHash /\ x \notin Node("data")
        /\ x \in Node("metadata") /\ x \notin Node("vcard") /\ x \notin Node("presence")
      BY Kinds DEF AvatarInvariant, Typed
  <2> HIDE DEF x
  <2>4. CASE ack.photo = self.selfAvatarHash
    <3>1. /\ \A M, V : AllIn(up', M, V) <=> AllIn(up, M, V) /\ (x \in M => x.photo \in V)
          /\ \A M, v : SomeIs(up', M, v) <=> SomeIs(up, M, v) \/ (x \in M /\ x.photo = v)
          /\ \A M, kept, v : x \in M /\ x.photo = v => LastIs(up', M, kept, v)
          /\ \A M, kept, v : x \notin M /\ LastIs(up, M, kept, v) => LastIs(up', M, kept, v)
          /\ up' \in Seq(Requests)
        BY <1>2, <2>2, <2>3, <2>4, Longer
    <3>2. Typed'
        BY <1>1, <1>3, <2>1, <3>1 DEF AvatarInvariant, Typed, viewer
    <3>3. DataHasPhoto' /\ PublishedFirst'
        BY <1>1, <1>3, <2>1, <2>3, <2>4, <3>1 DEF AvatarInvariant, DataHasPhoto, PublishedFirst, viewer
    <3>4. ChoiceOnItsWay'
        BY <1>1, <2>1, <2>3, <3>1 DEF AvatarInvariant, ChoiceOnItsWay
    <3>5. VCardFollows' /\ PresenceFollows' /\ NoneIsFirst'
        BY <1>1, <1>3, <2>1, <2>3, <3>1
           DEF AvatarInvariant, VCardFollows, PresenceFollows, NoneIsFirst, viewer
    <3>6. VCardsAreFresh' /\ PhotoFollows'
        BY <1>1, <1>3, <2>1, <2>3, <3>1 DEF AvatarInvariant, VCardsAreFresh, PhotoFollows, Calm, viewer
    <3>7. QED
        BY <1>5, <3>2, <3>3, <3>4, <3>5, <3>6 DEF AvatarInvariant
  <2>5. CASE ack.photo # self.selfAvatarHash
    <3>1. up' = up
        BY <2>2, <2>5
    <3>2. Typed'
        BY <1>1, <1>3, <2>1, <3>1 DEF AvatarInvariant, Typed, viewer
    <3>3. DataHasPhoto' /\ PublishedFirst'
        BY <1>1, <1>3, <3>1 DEF AvatarInvariant, DataHasPhoto, PublishedFirst, viewer
    <3>4. ChoiceOnItsWay'
        BY <1>1, <1>3, <2>1, <2>5, <3>1 DEF AvatarInvariant, ChoiceOnItsWay
    <3>5. VCardFollows' /\ PresenceFollows' /\ NoneIsFirst'
        BY <1>1, <1>3, <2>1, <3>1
           DEF AvatarInvariant, VCardFollows, PresenceFollows, NoneIsFirst, viewer
    <3>6. VCardsAreFresh' /\ PhotoFollows'
        BY <1>1, <1>3, <2>1, <3>1 DEF AvatarInvariant, VCardsAreFresh, PhotoFollows, Calm, viewer
    <3>7. QED
        BY <1>5, <3>2, <3>3, <3>4, <3>5, <3>6 DEF AvatarInvariant
  <2>6. QED
      BY <2>4, <2>5
<1>7. CASE VCardUpdated(ack)
  <2> DEFINE q == ack.photo
             h == LoginHash(q)
             x == Request("presence", h)
  <2>1. /\ ack.node = "vcard" /\ ack \in Node("vcard") /\ ack \notin Node("data")
        /\ q # self.photoHash => /\ self' = [self EXCEPT !.photoHash = q, !.login = h]
                                 /\ up' = Append(up, x)
        /\ q = self.photoHash => self' = self /\ up' = up
      BY <1>4, <1>7 DEF VCardUpdated
  <2>1a. q \in PhotoOrNone /\ h \in PhotoOrNone /\ (q \in Photo => h = q)
      BY <1>4, ConstantsAssumption DEF LoginHash, AvatarInvariant, Typed
  <2>2. /\ x \in Requests /\ x.photo = h /\ x \notin Node("data") /\ x \notin Node("metadata")
        /\ x \notin Node("vcard") /\ x \in Node("presence") /\ q \in PhotoOrNone
      BY <2>1a, Kinds
  <2> HIDE DEF q, h, x
  <2>3. /\ self'.choice = self.choice /\ self'.selfAvatarHash = self.selfAvatarHash
        /\ self'.photoHash = q
        /\ self'.login = IF q # self.photoHash THEN h ELSE self.login
        /\ self' \in [choice : PhotoOrNone, selfAvatarHash : PhotoOrNone,
                      photoHash : PhotoOrNone, login : PhotoOrNone]
      BY <2>1, <2>2, <2>1a DEF AvatarInvariant, Typed
  <2>4. LastIs(acks', Node("vcard"), q, server.vcard)
      BY <1>3, <2>1 DEF AvatarInvariant, VCardFollows, q
  <2>5. ~removed => q \in Photo /\ h = q
      BY <1>3, <2>1, <2>1a DEF AvatarInvariant, NoneIsFirst, q
  <2>6. CASE q # self.photoHash
    <3>1. /\ up' = Append(up, x)
          /\ \A M, V : AllIn(up', M, V) <=> AllIn(up, M, V) /\ (x \in M => x.photo \in V)
          /\ \A M, v : SomeIs(up', M, v) <=> SomeIs(up, M, v) \/ (x \in M /\ x.photo = v)
          /\ \A M, kept, v : x \in M /\ x.photo = v => LastIs(up', M, kept, v)
          /\ \A M, kept, v : x \notin M /\ LastIs(up, M, kept, v) => LastIs(up', M, kept, v)
          /\ up' \in Seq(Requests)
      <4>1. up' = Append(up, x)
          BY <2>1, <2>6
      <4>2. QED
          BY <1>2, <2>2, <4>1, Longer
    <3>2. Typed'
        BY <1>1, <1>3, <2>3, <3>1 DEF AvatarInvariant, Typed, viewer
    <3>3. DataHasPhoto' /\ PublishedFirst'
        BY <1>1, <1>3, <2>1, <2>2, <3>1 DEF AvatarInvariant, DataHasPhoto, PublishedFirst, viewer
    <3>4. ChoiceOnItsWay'
        BY <1>1, <1>3, <2>1, <2>2, <2>3, <3>1 DEF AvatarInvariant, ChoiceOnItsWay
    <3>5. VCardFollows' /\ PresenceFollows' /\ NoneIsFirst'
        BY <1>1, <1>3, <2>2, <2>3, <2>4, <2>5, <2>6, <3>1
           DEF AvatarInvariant, VCardFollows, PresenceFollows, NoneIsFirst, viewer
    \* Presence with the old hash has just been announced or is still to come.
    <3>6. ~removed => ~Calm'
      <4>1. SUFFICES ASSUME ~removed, AllIn(up', Node("presence"), {server.presence})
                     PROVE  FALSE
          BY <1>1 DEF Calm
      <4>2. q = server.presence /\ AllIn(up, Node("presence"), {server.presence})
          BY <2>2, <2>5, <3>1, <4>1
      <4>3. self.photoHash = server.presence
          BY <4>1, <4>2, LastOfAll DEF AvatarInvariant, PresenceFollows
      <4>4. QED
          BY <2>6, <4>2, <4>3
    <3>7. VCardsAreFresh' /\ PhotoFollows'
        BY <1>1, <3>6 DEF VCardsAreFresh, PhotoFollows
    <3>8. QED
        BY <1>5, <3>2, <3>3, <3>4, <3>5, <3>7 DEF AvatarInvariant
  <2>7. CASE q = self.photoHash
    <3>1. up' = up /\ ack.photo = self.photoHash
        BY <2>1, <2>7 DEF q
    <3>2. Typed'
        BY <1>1, <1>3, <2>3, <3>1 DEF AvatarInvariant, Typed, viewer
    <3>3. DataHasPhoto' /\ PublishedFirst'
        BY <1>1, <1>3, <3>1 DEF AvatarInvariant, DataHasPhoto, PublishedFirst, viewer
    <3>4. ChoiceOnItsWay'
        BY <1>1, <1>3, <2>1, <2>3, <3>1 DEF AvatarInvariant, ChoiceOnItsWay
    <3>5. VCardFollows' /\ PresenceFollows' /\ NoneIsFirst'
        BY <1>1, <1>3, <2>3, <2>4, <2>7, <3>1
           DEF AvatarInvariant, VCardFollows, PresenceFollows, NoneIsFirst, viewer
    <3>6. VCardsAreFresh' /\ PhotoFollows'
        BY <1>1, <1>3, <2>3, <2>7, <3>1
           DEF AvatarInvariant, VCardsAreFresh, PhotoFollows, Calm, viewer
    <3>7. QED
        BY <1>5, <3>2, <3>3, <3>4, <3>5, <3>6 DEF AvatarInvariant
  <2>8. QED
      BY <2>6, <2>7
<1>8. CASE ack.node = "metadata" /\ UNCHANGED <<self, up>>
  <2>1. ack \notin Node("data") /\ ack \notin Node("vcard")
      BY <1>4, <1>8
  <2>2. Typed'
      BY <1>1, <1>3, <1>8 DEF AvatarInvariant, Typed, viewer
  <2>3. DataHasPhoto' /\ PublishedFirst'
      BY <1>1, <1>3, <1>8 DEF AvatarInvariant, DataHasPhoto, PublishedFirst, viewer
  <2>4. ChoiceOnItsWay'
      BY <1>1, <1>3, <1>8, <2>1 DEF AvatarInvariant, ChoiceOnItsWay
  <2>5. VCardFollows' /\ PresenceFollows' /\ NoneIsFirst'
      BY <1>1, <1>3, <1>8, <2>1
         DEF AvatarInvariant, VCardFollows, PresenceFollows, NoneIsFirst, viewer
  <2>6. VCardsAreFresh' /\ PhotoFollows'
      BY <1>1, <1>3, <1>8, <2>1 DEF AvatarInvariant, VCardsAreFresh, PhotoFollows, Calm, viewer
  <2>7. QED
      BY <1>5, <2>2, <2>3, <2>4, <2>5, <2>6 DEF AvatarInvariant
<1>9. QED
    BY <1>1, <1>6, <1>7, <1>8

--------------------------------------------------------------------------------
(* The server.                                                                 *)

LEMMA AllOfMore ==
    ASSUME NEW s, NEW M, NEW V, NEW W, V \subseteq W, AllIn(s, M, V)
    PROVE  AllIn(s, M, W)
    BY DEF AllIn

LEMMA AnnouncedKinds ==
    ASSUME NEW type \in {"metadata", "presence"}, NEW p \in PhotoOrNone
    PROVE  LET m == Announce(type, p) IN
           /\ m \in Messages /\ m.photo = p
           /\ \A t : m \in News(t) <=> t = type
           /\ \A of : m \notin Answer(of)
    BY DEF Announce, Messages, News, Answer

\* What a fulfilled request does to the queues.
LEMMA Fulfilled ==
    ASSUME AvatarInvariant, Fulfil
    PROVE  LET r == Head(up) IN
           /\ r \in Requests /\ r.photo \in PhotoOrNone
           /\ \A n : r \in Node(n) <=> r.node = n
           /\ UNCHANGED <<self, viewer, failed, removed, bounds>>
           /\ up' \in Seq(Requests)
           /\ \A M, V : AllIn(up, M, V) <=> AllIn(up', M, V) /\ (r \in M => r.photo \in V)
           /\ \A M, v : SomeIs(up, M, v) <=> SomeIs(up', M, v) \/ (r \in M /\ r.photo = v)
           /\ \A M, kept, v : r \in M /\ LastIs(up, M, kept, v) => LastIs(up', M, r.photo, v)
           /\ \A M, kept, v : r \notin M /\ LastIs(up, M, kept, v) => LastIs(up', M, kept, v)
           /\ r.node = "presence" => acks' = acks
           /\ r.node # "presence" =>
               /\ acks' \in Seq(Requests)
               /\ \A M, V : AllIn(acks', M, V) <=> AllIn(acks, M, V) /\ (r \in M => r.photo \in V)
               /\ \A M, v : SomeIs(acks', M, v) <=> SomeIs(acks, M, v) \/ (r \in M /\ r.photo = v)
               /\ \A M, kept, v : r \in M /\ r.photo = v => LastIs(acks', M, kept, v)
               /\ \A M, kept, v : r \notin M /\ LastIs(acks, M, kept, v) => LastIs(acks', M, kept, v)
<1> DEFINE r == Head(up)
<1>1. /\ up # <<>> /\ up' = Tail(up)
      /\ acks' = IF r.node = "presence" THEN acks ELSE Append(acks, r)
      /\ UNCHANGED <<self, viewer, failed, removed, bounds>>
    BY DEF Fulfil
<1>2. acks \in Seq(Requests) /\ up \in Seq(Requests)
    BY DEF AvatarInvariant, Typed
<1>3. /\ r \in Requests /\ up' \in Seq(Requests)
      /\ \A M, V : AllIn(up, M, V) <=> AllIn(up', M, V) /\ (r \in M => r.photo \in V)
      /\ \A M, v : SomeIs(up, M, v) <=> SomeIs(up', M, v) \/ (r \in M /\ r.photo = v)
      /\ \A M, kept, v : r \in M /\ LastIs(up, M, kept, v) => LastIs(up', M, r.photo, v)
      /\ \A M, kept, v : r \notin M /\ LastIs(up, M, kept, v) => LastIs(up', M, kept, v)
    BY <1>1, <1>2, Shorter
<1> HIDE DEF r
<1>4. r.photo \in PhotoOrNone /\ \A n : r \in Node(n) <=> r.node = n
    BY <1>3 DEF Requests, Node
<1>5. ASSUME r.node # "presence"
      PROVE  /\ acks' \in Seq(Requests)
             /\ \A M, V : AllIn(acks', M, V) <=> AllIn(acks, M, V) /\ (r \in M => r.photo \in V)
             /\ \A M, v : SomeIs(acks', M, v) <=> SomeIs(acks, M, v) \/ (r \in M /\ r.photo = v)
             /\ \A M, kept, v : r \in M /\ r.photo = v => LastIs(acks', M, kept, v)
             /\ \A M, kept, v : r \notin M /\ LastIs(acks, M, kept, v) => LastIs(acks', M, kept, v)
  <2>1. acks' = Append(acks, r)
      BY <1>1, <1>5
  <2>2. QED
      BY <1>2, <1>3, <2>1, Longer
<1>6. QED
    BY <1>1, <1>3, <1>4, <1>5 DEF r

\* What an announcement does to the wire.
LEMMA Announced ==
    ASSUME AvatarInvariant, NEW type \in {"metadata", "presence"}, NEW p \in PhotoOrNone,
           wire' = Append(wire, Announce(type, p))
    PROVE  LET m == Announce(type, p) IN
           /\ m \in Messages /\ m.photo = p
           /\ \A t : m \in News(t) <=> t = type
           /\ \A of : m \notin Answer(of)
           /\ wire' \in Seq(Messages)
           /\ \A M, V : AllIn(wire', M, V) <=> AllIn(wire, M, V) /\ (m \in M => m.photo \in V)
           /\ \A M, v : SomeIs(wire', M, v) <=> SomeIs(wire, M, v) \/ (m \in M /\ m.photo = v)
           /\ \A M : Has(wire', M) <=> Has(wire, M) \/ m \in M
           /\ \A M, kept, v : m \in M /\ m.photo = v => LastIs(wire', M, kept, v)
           /\ \A M, kept, v : m \notin M /\ LastIs(wire, M, kept, v) => LastIs(wire', M, kept, v)
<1> DEFINE m == Announce(type, p)
<1>1. /\ m \in Messages /\ m.photo = p
      /\ \A t : m \in News(t) <=> t = type
      /\ \A of : m \notin Answer(of)
    BY AnnouncedKinds
<1>2. m \in Messages /\ wire \in Seq(Messages) /\ wire' = Append(wire, m)
    BY <1>1 DEF AvatarInvariant, Typed
<1> HIDE DEF m
<1>3. /\ wire' \in Seq(Messages)
      /\ \A M, V : AllIn(wire', M, V) <=> AllIn(wire, M, V) /\ (m \in M => m.photo \in V)
      /\ \A M, v : SomeIs(wire', M, v) <=> SomeIs(wire, M, v) \/ (m \in M /\ m.photo = v)
    BY <1>2, Longer
<1>4. \A M : Has(wire', M) <=> Has(wire, M) \/ m \in M
    BY <1>2, Longer
<1>5. /\ \A M, kept, v : m \in M /\ m.photo = v => LastIs(wire', M, kept, v)
      /\ \A M, kept, v : m \notin M /\ LastIs(wire, M, kept, v) => LastIs(wire', M, kept, v)
    BY <1>2, Longer
<1>6. QED
    BY <1>1, <1>3, <1>4, <1>5 DEF m

\* When all answers agree with the hash, so does the server's vcard.
LEMMA CalmVCard ==
    ASSUME AvatarInvariant, AllIn(acks, Node("vcard"), {self.photoHash})
    PROVE  server.vcard = self.photoHash
    BY LastOfAll DEF AvatarInvariant, VCardFollows

LEMMA FulfilPreserves ==
    ASSUME AvatarInvariant, Fulfil
    PROVE  AvatarInvariant'
<1> DEFINE r == Head(up)
           p == r.photo
<1>1. /\ r \in Requests /\ p \in PhotoOrNone
      /\ \A n : r \in Node(n) <=> r.node = n
      /\ UNCHANGED <<self, viewer, failed, removed, bounds>>
      /\ up' \in Seq(Requests)
      /\ \A M, V : AllIn(up, M, V) <=> AllIn(up', M, V) /\ (r \in M => p \in V)
      /\ \A M, v : SomeIs(up, M, v) <=> SomeIs(up', M, v) \/ (r \in M /\ p = v)
      /\ \A M, kept, v : r \in M /\ LastIs(up, M, kept, v) => LastIs(up', M, p, v)
      /\ \A M, kept, v : r \notin M /\ LastIs(up, M, kept, v) => LastIs(up', M, kept, v)
      /\ r.node = "presence" => acks' = acks
    BY Fulfilled
<1>2. r.node # "presence" =>
      /\ acks' \in Seq(Requests)
      /\ \A M, V : AllIn(acks', M, V) <=> AllIn(acks, M, V) /\ (r \in M => p \in V)
      /\ \A M, v : SomeIs(acks', M, v) <=> SomeIs(acks, M, v) \/ (r \in M /\ p = v)
      /\ \A M, kept, v : r \in M /\ p = v => LastIs(acks', M, kept, v)
      /\ \A M, kept, v : r \notin M /\ LastIs(acks, M, kept, v) => LastIs(acks', M, kept, v)
    BY Fulfilled
<1>3. \/ r.node = "data" /\ server' = [server EXCEPT !.items = @ \cup {p}] /\ UNCHANGED wire
      \/ r.node = "vcard" /\ server' = [server EXCEPT !.vcard = p] /\ UNCHANGED wire
      \/ r.node = "metadata" /\ server' = [server EXCEPT !.metadata = p]
                             /\ wire' = Append(wire, Announce("metadata", p))
      \/ r.node = "presence" /\ server' = [server EXCEPT !.presence = p]
                             /\ wire' = Append(wire, Announce("presence", p))
    BY DEF Fulfil
<1>4. server \in [items : SUBSET Photo, metadata : PhotoOrNone, vcard : PhotoOrNone,
                  presence : PhotoOrNone]
    BY DEF AvatarInvariant, Typed
<1> HIDE DEF r, p
<1>5. Viewed'
    BY <1>1 DEF AvatarInvariant, Viewed, ViewIsCurrent, viewer
<1>6. CASE r.node = "data" /\ server' = [server EXCEPT !.items = @ \cup {p}] /\ UNCHANGED wire
  <2>1. /\ r \in Node("data") /\ r \notin Node("metadata") /\ r \notin Node("vcard")
        /\ r \notin Node("presence")
      BY <1>1, <1>6
  <2>2. p \in Photo
      BY <1>1, <2>1 DEF AvatarInvariant, DataHasPhoto
  <2>3. /\ server'.items = server.items \cup {p} /\ server'.metadata = server.metadata
        /\ server'.vcard = server.vcard /\ server'.presence = server.presence
        /\ server' \in [items : SUBSET Photo, metadata : PhotoOrNone, vcard : PhotoOrNone,
                        presence : PhotoOrNone]
      BY <1>4, <1>6, <2>2
  <2>4. Typed'
      BY <1>1, <1>2, <1>6, <2>3 DEF AvatarInvariant, Typed, viewer
  <2>5. DataHasPhoto'
      BY <1>1, <1>2, <1>6, <2>1 DEF AvatarInvariant, DataHasPhoto, viewer
  <2>6. PublishedFirst'
    <3>1. /\ AllIn(acks, Node("data"), server.items \cup {p})
          /\ AllIn(up, Node("metadata"), (server.items \cup {p}) \cup {None})
        BY AllOfMore DEF AvatarInvariant, PublishedFirst
    <3>2. QED
        BY <1>1, <1>2, <1>6, <2>1, <2>3, <3>1 DEF AvatarInvariant, PublishedFirst
  <2>7. ChoiceOnItsWay'
      BY <1>1, <1>2, <1>6, <2>1, <2>3 DEF AvatarInvariant, ChoiceOnItsWay
  <2>8. HashFollows' /\ PictureFollows' /\ SeenFollows' /\ ErrorsAreFailures'
      BY <1>1, <1>6, <2>3 DEF AvatarInvariant, HashFollows, PictureFollows, SeenFollows,
                              ErrorsAreFailures, viewer
  <2>9. VCardFollows' /\ PresenceFollows' /\ NoneIsFirst'
      BY <1>1, <1>2, <1>6, <2>1, <2>3
         DEF AvatarInvariant, VCardFollows, PresenceFollows, NoneIsFirst, viewer
  <2>10. VCardsAreFresh' /\ PhotoFollows'
      BY <1>1, <1>2, <1>6, <2>1, <2>3
         DEF AvatarInvariant, VCardsAreFresh, PhotoFollows, Calm, viewer
  <2>11. QED
      BY <1>5, <2>4, <2>5, <2>6, <2>7, <2>8, <2>9, <2>10 DEF AvatarInvariant
<1>7. CASE r.node = "vcard" /\ server' = [server EXCEPT !.vcard = p] /\ UNCHANGED wire
  <2>1. /\ r \notin Node("data") /\ r \notin Node("metadata") /\ r \in Node("vcard")
        /\ r \notin Node("presence")
      BY <1>1, <1>7
  <2>2. /\ server'.items = server.items /\ server'.metadata = server.metadata
        /\ server'.vcard = p /\ server'.presence = server.presence
        /\ server' \in [items : SUBSET Photo, metadata : PhotoOrNone, vcard : PhotoOrNone,
                        presence : PhotoOrNone]
      BY <1>1, <1>4, <1>7
  <2>3. Typed'
      BY <1>1, <1>2, <1>7, <2>2 DEF AvatarInvariant, Typed, viewer
  <2>4. DataHasPhoto' /\ PublishedFirst'
      BY <1>1, <1>2, <1>7, <2>1, <2>2 DEF AvatarInvariant, DataHasPhoto, PublishedFirst, viewer
  <2>5. ChoiceOnItsWay'
      BY <1>1, <1>2, <1>7, <2>1, <2>2 DEF AvatarInvariant, ChoiceOnItsWay
  <2>6. HashFollows' /\ PictureFollows' /\ SeenFollows' /\ ErrorsAreFailures'
      BY <1>1, <1>7, <2>2 DEF AvatarInvariant, HashFollows, PictureFollows, SeenFollows,
                              ErrorsAreFailures, viewer
  <2>7. VCardFollows' /\ PresenceFollows' /\ NoneIsFirst'
      BY <1>1, <1>2, <1>7, <2>1, <2>2
         DEF AvatarInvariant, VCardFollows, PresenceFollows, NoneIsFirst, viewer
  \* The answer just queued is one Calm speaks of.
  <2>8. Calm' => Calm /\ server.vcard = p
    <3>1. SUFFICES ASSUME Calm' PROVE Calm /\ server.vcard = p
        OBVIOUS
    <3>2. AllIn(acks, Node("vcard"), {self.photoHash}) /\ p = self.photoHash
        BY <1>1, <1>2, <1>7, <2>1, <3>1 DEF Calm
    <3>3. AllIn(up, Node("presence"), {server.presence})
        BY <1>1, <2>1, <2>2, <3>1 DEF Calm
    <3>4. QED
        BY <3>2, <3>3, CalmVCard DEF Calm
  <2>9. VCardsAreFresh' /\ PhotoFollows'
      BY <1>1, <1>7, <2>2, <2>8 DEF AvatarInvariant, VCardsAreFresh, PhotoFollows, viewer
  <2>10. QED
      BY <1>5, <2>3, <2>4, <2>5, <2>6, <2>7, <2>9 DEF AvatarInvariant
<1>8. CASE /\ r.node = "metadata" /\ server' = [server EXCEPT !.metadata = p]
           /\ wire' = Append(wire, Announce("metadata", p))
  <2> DEFINE m == Announce("metadata", p)
  <2>1. /\ r \notin Node("data") /\ r \in Node("metadata") /\ r \notin Node("vcard")
        /\ r \notin Node("presence")
      BY <1>1, <1>8
  <2>2. /\ server'.items = server.items /\ server'.metadata = p
        /\ server'.vcard = server.vcard /\ server'.presence = server.presence
        /\ server' \in [items : SUBSET Photo, metadata : PhotoOrNone, vcard : PhotoOrNone,
                        presence : PhotoOrNone]
      BY <1>1, <1>4, <1>8
  <2>3. /\ m \in Messages /\ m.photo = p
        /\ \A t : m \in News(t) <=> t = "metadata"
        /\ \A of : m \notin Answer(of)
        /\ wire' \in Seq(Messages) /\ wire' = Append(wire, m)
        /\ \A M, V : AllIn(wire', M, V) <=> AllIn(wire, M, V) /\ (m \in M => m.photo \in V)
        /\ \A M, v : SomeIs(wire', M, v) <=> SomeIs(wire, M, v) \/ (m \in M /\ m.photo = v)
        /\ \A M : Has(wire', M) <=> Has(wire, M) \/ m \in M
        /\ \A M, kept, v : m \in M /\ m.photo = v => LastIs(wire', M, kept, v)
        /\ \A M, kept, v : m \notin M /\ LastIs(wire, M, kept, v) => LastIs(wire', M, kept, v)
      BY <1>1, <1>8, Announced
  <2> HIDE DEF m
  <2>4. m \in News("metadata") /\ m \notin News("presence") /\ m \notin News("error")
      BY <2>3
  <2>5. Typed'
      BY <1>1, <1>2, <1>8, <2>2, <2>3 DEF AvatarInvariant, Typed, viewer
  <2>6. DataHasPhoto' /\ PublishedFirst'
      BY <1>1, <1>2, <1>8, <2>1, <2>2, <2>3 DEF AvatarInvariant, DataHasPhoto, PublishedFirst, viewer
  <2>7. ChoiceOnItsWay'
      BY <1>1, <1>2, <1>8, <2>1, <2>2 DEF AvatarInvariant, ChoiceOnItsWay
  <2>8. HashFollows' /\ PictureFollows' /\ SeenFollows' /\ ErrorsAreFailures'
      BY <1>1, <2>2, <2>3, <2>4 DEF AvatarInvariant, HashFollows, PictureFollows, SeenFollows,
                                    ErrorsAreFailures, viewer
  <2>9. VCardFollows' /\ PresenceFollows'
      BY <1>1, <1>2, <1>8, <2>1, <2>2 DEF AvatarInvariant, VCardFollows, PresenceFollows
  <2>10. wire \in Seq(Messages)
      BY DEF AvatarInvariant, Typed
  <2>11. NoneIsFirst'
    <3>1. ~removed => NoneFirst(wire', vcard.hash)
        BY <2>3, <2>4, <2>10, NoneAppended DEF AvatarInvariant, NoneIsFirst
    <3>2. QED
        BY <1>1, <1>2, <1>8, <2>1, <3>1 DEF AvatarInvariant, NoneIsFirst, viewer
  <2>12. Calm' <=> Calm
      BY <1>1, <1>2, <1>8, <2>1, <2>2 DEF Calm
  <2>13. VCardsAreFresh'
    <3>1. SUFFICES ASSUME ~removed, Calm
                   PROVE  Fresh(wire', vcard.hash, server.presence, server.vcard)
        BY <1>1, <2>2, <2>12 DEF VCardsAreFresh, viewer
    <3>2. QED
        BY <2>3, <2>4, <2>10, <3>1, FreshAppended DEF AvatarInvariant, VCardsAreFresh
  <2>14. PhotoFollows'
      BY <1>1, <2>2, <2>3, <2>4, <2>12 DEF AvatarInvariant, PhotoFollows, viewer
  <2>15. QED
      BY <1>5, <2>5, <2>6, <2>7, <2>8, <2>9, <2>11, <2>13, <2>14 DEF AvatarInvariant
<1>9. CASE /\ r.node = "presence" /\ server' = [server EXCEPT !.presence = p]
           /\ wire' = Append(wire, Announce("presence", p))
  <2> DEFINE m == Announce("presence", p)
  <2>1. /\ r \notin Node("data") /\ r \notin Node("metadata") /\ r \notin Node("vcard")
        /\ r \in Node("presence") /\ acks' = acks
      BY <1>1, <1>9
  <2>2. /\ server'.items = server.items /\ server'.metadata = server.metadata
        /\ server'.vcard = server.vcard /\ server'.presence = p
        /\ server' \in [items : SUBSET Photo, metadata : PhotoOrNone, vcard : PhotoOrNone,
                        presence : PhotoOrNone]
      BY <1>1, <1>4, <1>9
  <2>3. /\ m \in Messages /\ m.photo = p
        /\ \A t : m \in News(t) <=> t = "presence"
        /\ \A of : m \notin Answer(of)
        /\ wire' \in Seq(Messages) /\ wire' = Append(wire, m)
        /\ \A M, V : AllIn(wire', M, V) <=> AllIn(wire, M, V) /\ (m \in M => m.photo \in V)
        /\ \A M, v : SomeIs(wire', M, v) <=> SomeIs(wire, M, v) \/ (m \in M /\ m.photo = v)
        /\ \A M : Has(wire', M) <=> Has(wire, M) \/ m \in M
        /\ \A M, kept, v : m \in M /\ m.photo = v => LastIs(wire', M, kept, v)
        /\ \A M, kept, v : m \notin M /\ LastIs(wire, M, kept, v) => LastIs(wire', M, kept, v)
      BY <1>1, <1>9, Announced
  <2> HIDE DEF m
  <2>4. m \notin News("metadata") /\ m \in News("presence") /\ m \notin News("error")
      BY <2>3
  <2>5. Typed'
      BY <1>1, <1>9, <2>1, <2>2, <2>3 DEF AvatarInvariant, Typed, viewer
  <2>6. DataHasPhoto' /\ PublishedFirst'
      BY <1>1, <2>1, <2>2, <2>3 DEF AvatarInvariant, DataHasPhoto, PublishedFirst, viewer
  <2>7. ChoiceOnItsWay'
      BY <1>1, <2>1, <2>2 DEF AvatarInvariant, ChoiceOnItsWay
  <2>8. HashFollows' /\ PictureFollows' /\ SeenFollows' /\ ErrorsAreFailures'
      BY <1>1, <2>2, <2>3, <2>4 DEF AvatarInvariant, HashFollows, PictureFollows, SeenFollows,
                                    ErrorsAreFailures, viewer
  <2>9. VCardFollows' /\ PresenceFollows'
      BY <1>1, <2>1, <2>2 DEF AvatarInvariant, VCardFollows, PresenceFollows
  <2>10. wire \in Seq(Messages)
      BY DEF AvatarInvariant, Typed
  <2>11. NoneIsFirst'
    <3>1. ~removed => p # None
        BY <1>1, <2>1, ConstantsAssumption DEF AvatarInvariant, NoneIsFirst
    <3>2. ~removed => NoneFirst(wire', vcard.hash)
        BY <2>3, <2>10, <3>1, NoneAppended DEF AvatarInvariant, NoneIsFirst
    <3>3. QED
        BY <1>1, <2>1, <3>2 DEF AvatarInvariant, NoneIsFirst, viewer
  \* What was announced before is calm too if it was this photo.
  <2>12. Calm' /\ server.presence = p => Calm
      BY <1>1, <2>1, <2>2 DEF Calm
  <2>13. VCardsAreFresh'
    <3>1. SUFFICES ASSUME ~removed, Calm'
                   PROVE  Fresh(wire', vcard.hash, p, server.vcard)
        BY <1>1, <2>2 DEF VCardsAreFresh, viewer
    <3>2. LastIs(wire, News("presence"), vcard.hash, server.presence)
        BY <3>1 DEF AvatarInvariant, SeenFollows
    <3>3. server.presence = p => Fresh(wire, vcard.hash, server.presence, server.vcard)
        BY <2>12, <3>1 DEF AvatarInvariant, VCardsAreFresh
    <3>4. QED
        BY <2>3, <2>4, <2>10, <3>2, <3>3, FreshAnnounced
  <2>14. PhotoFollows'
    <3>1. SUFFICES ASSUME ~failed, ~removed, Calm', AllIn(wire', News("presence"), {vcard.hash})
                   PROVE  \/ vcard.image = server.vcard
                          \/ Has(asks, Ask("avatar"))
                          \/ Has(wire', Answer("avatar"))
        BY <1>1, <2>2 DEF PhotoFollows, viewer
    <3>2. AllIn(wire, News("presence"), {vcard.hash}) /\ p = vcard.hash
        BY <2>3, <2>4, <3>1
    <3>3. server.presence = p
        BY <3>1, <3>2, LastOfAll DEF AvatarInvariant, SeenFollows
    <3>4. QED
        BY <2>3, <2>12, <3>1, <3>2, <3>3 DEF AvatarInvariant, PhotoFollows
  <2>15. QED
      BY <1>5, <2>5, <2>6, <2>7, <2>8, <2>9, <2>11, <2>13, <2>14 DEF AvatarInvariant
<1>10. QED
    BY <1>3, <1>6, <1>7, <1>8, <1>9

LEMMA RefusePreserves ==
    ASSUME AvatarInvariant, Refuse
    PROVE  AvatarInvariant'
<1> DEFINE r == Head(up)
<1>1. /\ up # <<>> /\ r.node # "presence" /\ up' = Tail(up) /\ failed' = TRUE
      /\ UNCHANGED <<self, acks, server, wire, viewer, removed>>
    BY DEF Refuse, Fail
<1>2. up \in Seq(Requests)
    BY DEF AvatarInvariant, Typed
<1>3. /\ r \in Requests /\ up' \in Seq(Requests)
      /\ \A M, V : AllIn(up, M, V) <=> AllIn(up', M, V) /\ (r \in M => r.photo \in V)
      /\ \A M, kept, v : r \notin M /\ LastIs(up, M, kept, v) => LastIs(up', M, kept, v)
    BY <1>1, <1>2, Shorter
<1> HIDE DEF r
<1>4. r \notin Node("presence")
    BY <1>1 DEF Node
<1>5. Typed'
    BY <1>1, <1>3 DEF AvatarInvariant, Typed, viewer
<1>6. DataHasPhoto' /\ PublishedFirst'
    BY <1>1, <1>3 DEF AvatarInvariant, DataHasPhoto, PublishedFirst, viewer
<1>7. Viewed' /\ HashFollows' /\ SeenFollows' /\ VCardFollows' /\ PresenceFollows'
    BY <1>1, <1>3, <1>4 DEF AvatarInvariant, Viewed, ViewIsCurrent, HashFollows, SeenFollows,
                            VCardFollows, PresenceFollows, viewer
<1>8. ChoiceOnItsWay' /\ PictureFollows' /\ PhotoFollows' /\ ErrorsAreFailures'
    BY <1>1 DEF ChoiceOnItsWay, PictureFollows, PhotoFollows, ErrorsAreFailures
<1>9. NoneIsFirst' /\ VCardsAreFresh'
    BY <1>1, <1>3, <1>4 DEF AvatarInvariant, NoneIsFirst, VCardsAreFresh, Calm, viewer
<1>10. QED
    BY <1>5, <1>6, <1>7, <1>8, <1>9 DEF AvatarInvariant

\* An answer or an error is no announcement.
LEMMA AnswerKinds ==
    ASSUME NEW of \in {"data", "avatar", "info"}, NEW p \in PhotoOrNone,
           NEW type \in {"result", "error"}
    PROVE  LET m == [type |-> type, of |-> of, photo |-> p] IN
           /\ m \in Messages /\ m.photo = p
           /\ m \notin News("metadata") /\ m \notin News("presence")
           /\ m \in News("error") <=> type = "error"
           /\ \A o : m \in Answer(o) <=> type = "result" /\ o = of
    BY DEF Messages, News, Answer

\* The server answers a request or ends it with an error.
LEMMA Replied ==
    ASSUME AvatarInvariant, asks # <<>>, asks' = Tail(asks),
           NEW type \in {"result", "error"}, NEW p \in PhotoOrNone,
           NEW m, m = [type |-> type, of |-> Head(asks).of, photo |-> p], wire' = Append(wire, m)
    PROVE  LET r == Head(asks) IN
           /\ r \in Asks /\ asks' \in Seq(Asks) /\ (\A of : r \in Ask(of) <=> r.of = of)
           /\ \A M, V : AllIn(asks, M, V) <=> AllIn(asks', M, V) /\ (r \in M => r.photo \in V)
           /\ \A M, v : SomeIs(asks, M, v) <=> SomeIs(asks', M, v) \/ (r \in M /\ r.photo = v)
           /\ \A M : Has(asks, M) <=> Has(asks', M) \/ r \in M
           /\ m \in Messages /\ m.photo = p
           /\ m \notin News("metadata") /\ m \notin News("presence")
           /\ m \in News("error") <=> type = "error"
           /\ \A o : m \in Answer(o) <=> type = "result" /\ o = r.of
           /\ wire \in Seq(Messages) /\ wire' = Append(wire, m) /\ wire' \in Seq(Messages)
           /\ \A M, V : AllIn(wire', M, V) <=> AllIn(wire, M, V) /\ (m \in M => p \in V)
           /\ \A M, v : SomeIs(wire', M, v) <=> SomeIs(wire, M, v) \/ (m \in M /\ p = v)
           /\ \A M : Has(wire', M) <=> Has(wire, M) \/ m \in M
           /\ \A M, kept, v : m \notin M /\ LastIs(wire, M, kept, v) => LastIs(wire', M, kept, v)
<1> DEFINE r == Head(asks)
<1>1. asks \in Seq(Asks) /\ wire \in Seq(Messages) /\ wire' = Append(wire, m)
    BY DEF AvatarInvariant, Typed
<1>2. /\ r \in Asks /\ asks' \in Seq(Asks)
      /\ \A M, V : AllIn(asks, M, V) <=> AllIn(asks', M, V) /\ (r \in M => r.photo \in V)
      /\ \A M, v : SomeIs(asks, M, v) <=> SomeIs(asks', M, v) \/ (r \in M /\ r.photo = v)
      /\ \A M : Has(asks, M) <=> Has(asks', M) \/ r \in M
    BY <1>1, Shorter
<1>3. r.of \in {"data", "avatar", "info"} /\ \A of : r \in Ask(of) <=> r.of = of
    BY <1>2 DEF Asks, Ask
<1>4. /\ m \in Messages /\ m.photo = p
      /\ m \notin News("metadata") /\ m \notin News("presence")
      /\ m \in News("error") <=> type = "error"
      /\ \A o : m \in Answer(o) <=> type = "result" /\ o = r.of
    BY <1>3, AnswerKinds
<1> HIDE DEF r
<1>5. m \in Messages
    BY <1>4
<1>6. /\ wire' \in Seq(Messages)
      /\ \A M, V : AllIn(wire', M, V) <=> AllIn(wire, M, V) /\ (m \in M => m.photo \in V)
      /\ \A M, v : SomeIs(wire', M, v) <=> SomeIs(wire, M, v) \/ (m \in M /\ m.photo = v)
    BY <1>1, <1>5, Longer
<1>7. /\ \A M : Has(wire', M) <=> Has(wire, M) \/ m \in M
      /\ \A M, kept, v : m \notin M /\ LastIs(wire, M, kept, v) => LastIs(wire', M, kept, v)
    BY <1>1, <1>5, Longer
<1>8. /\ \A M, V : AllIn(wire', M, V) <=> AllIn(wire, M, V) /\ (m \in M => p \in V)
      /\ \A M, v : SomeIs(wire', M, v) <=> SomeIs(wire, M, v) \/ (m \in M /\ p = v)
    BY <1>4, <1>6
<1>9. /\ wire \in Seq(Messages) /\ wire' = Append(wire, m) /\ wire' \in Seq(Messages)
    BY <1>1, <1>6
<1>10. QED
    BY <1>2, <1>3, <1>4, <1>7, <1>8, <1>9 DEF r

LEMMA ReplyPreserves ==
    ASSUME AvatarInvariant, Reply
    PROVE  AvatarInvariant'
<1> DEFINE r == Head(asks)
           p == IF r.of = "data" THEN r.photo ELSE server.vcard
           m == [type |-> "result", of |-> r.of, photo |-> p]
<1>1. /\ asks # <<>> /\ asks' = Tail(asks) /\ wire' = Append(wire, m)
      /\ UNCHANGED <<contact, server, pep, vcard, saved, cache, file, view, failed, removed>>
    BY DEF Reply
<1>2. asks \in Seq(Asks)
    BY DEF AvatarInvariant, Typed
<1>3. r \in Asks
    BY <1>1, <1>2, Shorter
<1>4. p \in PhotoOrNone /\ p = (IF r.of = "data" THEN r.photo ELSE server.vcard)
    BY <1>3 DEF AvatarInvariant, Typed, Asks
<1>m. m = [type |-> "result", of |-> Head(asks).of, photo |-> p] /\ "result" \in {"result", "error"}
    OBVIOUS
<1> HIDE DEF p, m
<1>5. /\ asks' \in Seq(Asks) /\ (\A of : r \in Ask(of) <=> r.of = of)
      /\ \A M, V : AllIn(asks, M, V) <=> AllIn(asks', M, V) /\ (r \in M => r.photo \in V)
      /\ \A M, v : SomeIs(asks, M, v) <=> SomeIs(asks', M, v) \/ (r \in M /\ r.photo = v)
      /\ \A M : Has(asks, M) <=> Has(asks', M) \/ r \in M
      /\ m \in Messages /\ m.photo = p
      /\ m \notin News("metadata") /\ m \notin News("presence") /\ m \notin News("error")
      /\ \A o : m \in Answer(o) <=> o = r.of
      /\ wire \in Seq(Messages) /\ wire' = Append(wire, m) /\ wire' \in Seq(Messages)
      /\ \A M, V : AllIn(wire', M, V) <=> AllIn(wire, M, V) /\ (m \in M => p \in V)
      /\ \A M, v : SomeIs(wire', M, v) <=> SomeIs(wire, M, v) \/ (m \in M /\ p = v)
      /\ \A M : Has(wire', M) <=> Has(wire, M) \/ m \in M
      /\ \A M, kept, v : m \notin M /\ LastIs(wire, M, kept, v) => LastIs(wire', M, kept, v)
  <2>1. /\ asks' \in Seq(Asks) /\ (\A of : r \in Ask(of) <=> r.of = of)
        /\ \A M, V : AllIn(asks, M, V) <=> AllIn(asks', M, V) /\ (r \in M => r.photo \in V)
      BY <1>1, <1>4, <1>m, Replied
  <2>2. /\ \A M, v : SomeIs(asks, M, v) <=> SomeIs(asks', M, v) \/ (r \in M /\ r.photo = v)
        /\ \A M : Has(asks, M) <=> Has(asks', M) \/ r \in M
      BY <1>1, <1>4, <1>m, Replied
  <2>3. /\ m \in Messages /\ m.photo = p
        /\ m \notin News("metadata") /\ m \notin News("presence") /\ m \notin News("error")
        /\ \A o : m \in Answer(o) <=> o = r.of
      BY <1>1, <1>4, <1>m, Replied
  <2>4. /\ wire \in Seq(Messages) /\ wire' = Append(wire, m) /\ wire' \in Seq(Messages)
        /\ \A M, V : AllIn(wire', M, V) <=> AllIn(wire, M, V) /\ (m \in M => p \in V)
      BY <1>1, <1>4, <1>m, Replied
  <2>5. /\ \A M, v : SomeIs(wire', M, v) <=> SomeIs(wire, M, v) \/ (m \in M /\ p = v)
        /\ \A M : Has(wire', M) <=> Has(wire, M) \/ m \in M
      BY <1>1, <1>4, <1>m, Replied
  <2>6. /\ \A M, kept, v : m \notin M /\ LastIs(wire, M, kept, v) => LastIs(wire', M, kept, v)
      BY <1>1, <1>4, <1>m, Replied
  <2>7. QED
      BY <2>1, <2>2, <2>3, <2>4, <2>5, <2>6
<1> HIDE DEF r
<1>6. Typed'
    BY <1>1, <1>5 DEF AvatarInvariant, Typed, contact
<1>7. DataHasPhoto' /\ PublishedFirst'
    BY <1>1, <1>4, <1>5 DEF AvatarInvariant, DataHasPhoto, PublishedFirst, contact
<1>8. Viewed' /\ ChoiceOnItsWay' /\ VCardFollows' /\ PresenceFollows'
    BY <1>1 DEF AvatarInvariant, Viewed, ViewIsCurrent, ChoiceOnItsWay, VCardFollows,
                PresenceFollows, contact
<1>9. HashFollows' /\ SeenFollows' /\ ErrorsAreFailures'
    BY <1>1, <1>5 DEF AvatarInvariant, HashFollows, SeenFollows, ErrorsAreFailures
<1>10. PictureFollows'
    BY <1>1, <1>4, <1>5 DEF AvatarInvariant, PictureFollows
<1>11. NoneIsFirst'
  <2>1. ~removed => NoneFirst(wire', vcard.hash)
      BY <1>5, NoneAppended DEF AvatarInvariant, NoneIsFirst
  <2>2. QED
      BY <1>1, <2>1 DEF AvatarInvariant, NoneIsFirst, contact
<1>12. Calm' <=> Calm
    BY <1>1 DEF Calm, contact
<1>13. VCardsAreFresh'
  <2>1. SUFFICES ASSUME ~removed, Calm
                 PROVE  Fresh(wire', vcard.hash, server.presence, server.vcard)
      BY <1>1, <1>12 DEF VCardsAreFresh
  <2>2. m \in Answer("avatar") => p = server.vcard
      BY <1>4, <1>5
  <2>3. QED
      BY <1>5, <2>1, <2>2, FreshAppended DEF AvatarInvariant, VCardsAreFresh
<1>14. PhotoFollows'
    BY <1>1, <1>5, <1>12 DEF AvatarInvariant, PhotoFollows
<1>15. QED
    BY <1>6, <1>7, <1>8, <1>9, <1>10, <1>11, <1>13, <1>14 DEF AvatarInvariant

LEMMA ReplyErrorPreserves ==
    ASSUME AvatarInvariant, ReplyError
    PROVE  AvatarInvariant'
<1> DEFINE r == Head(asks)
           m == [type |-> "error", of |-> r.of, photo |-> None]
<1>1. /\ asks # <<>> /\ asks' = Tail(asks) /\ wire' = Append(wire, m) /\ failed' = TRUE
      /\ UNCHANGED <<contact, server, pep, vcard, saved, cache, file, view, removed>>
    BY DEF ReplyError, Fail
<1>2. None \in PhotoOrNone
    BY DEF PhotoOrNone
<1>m. m = [type |-> "error", of |-> Head(asks).of, photo |-> None] /\ "error" \in {"result", "error"}
    OBVIOUS
<1> HIDE DEF m
<1>3. /\ asks' \in Seq(Asks)
      /\ \A M, V : AllIn(asks, M, V) <=> AllIn(asks', M, V) /\ (r \in M => r.photo \in V)
      /\ m \in Messages
      /\ m \notin News("metadata") /\ m \notin News("presence")
      /\ \A o : m \notin Answer(o)
      /\ wire \in Seq(Messages) /\ wire' = Append(wire, m) /\ wire' \in Seq(Messages)
      /\ \A M, V : AllIn(wire', M, V) <=> AllIn(wire, M, V) /\ (m \in M => None \in V)
      /\ \A M, kept, v : m \notin M /\ LastIs(wire, M, kept, v) => LastIs(wire', M, kept, v)
    BY <1>1, <1>2, <1>m, Replied
<1> HIDE DEF r
<1>4. Typed'
    BY <1>1, <1>3 DEF AvatarInvariant, Typed, contact
<1>5. DataHasPhoto' /\ PublishedFirst'
    BY <1>1, <1>3 DEF AvatarInvariant, DataHasPhoto, PublishedFirst, contact
<1>6. Viewed' /\ VCardFollows' /\ PresenceFollows'
    BY <1>1 DEF AvatarInvariant, Viewed, ViewIsCurrent, VCardFollows, PresenceFollows, contact
<1>7. HashFollows' /\ SeenFollows'
    BY <1>1, <1>3 DEF AvatarInvariant, HashFollows, SeenFollows
<1>8. ChoiceOnItsWay' /\ PictureFollows' /\ PhotoFollows' /\ ErrorsAreFailures'
    BY <1>1 DEF ChoiceOnItsWay, PictureFollows, PhotoFollows, ErrorsAreFailures
<1>9. NoneIsFirst'
  <2>1. ~removed => NoneFirst(wire', vcard.hash)
      BY <1>3, NoneAppended DEF AvatarInvariant, NoneIsFirst
  <2>2. QED
      BY <1>1, <2>1 DEF AvatarInvariant, NoneIsFirst, contact
<1>10. VCardsAreFresh'
  <2>1. SUFFICES ASSUME ~removed, Calm
                 PROVE  Fresh(wire', vcard.hash, server.presence, server.vcard)
      BY <1>1 DEF VCardsAreFresh, Calm, contact
  <2>2. QED
      BY <1>3, <2>1, FreshAppended DEF AvatarInvariant, VCardsAreFresh
<1>11. QED
    BY <1>4, <1>5, <1>6, <1>7, <1>8, <1>9, <1>10 DEF AvatarInvariant

--------------------------------------------------------------------------------
(* The viewer.                                                                 *)

\* What is true of a message taken off the wire and of what is left.
LEMMA MessageTaken ==
    ASSUME AvatarInvariant, wire # <<>>, wire' = Tail(wire), NEW m, m = Head(wire)
    PROVE  /\ m \in Messages /\ wire' \in Seq(Messages)
           /\ m \in Answer("data") => m.photo \in Photo
           /\ AllIn(wire', Answer("data"), Photo)
           /\ m \in News("metadata") => LastIs(wire', News("metadata"), m.photo, server.metadata)
           /\ m \notin News("metadata") => LastIs(wire', News("metadata"), pep.hash, server.metadata)
           /\ \A v : SomeIs(wire, Answer("data"), v)
                     <=> SomeIs(wire', Answer("data"), v) \/ (m \in Answer("data") /\ m.photo = v)
           /\ m \in News("error") \/ Has(wire', News("error")) => failed
           /\ \A V : AllIn(wire, News("presence"), V)
                     <=> AllIn(wire', News("presence"), V) /\ (m \in News("presence") => m.photo \in V)
           /\ Has(wire, Answer("avatar")) <=> Has(wire', Answer("avatar")) \/ m \in Answer("avatar")
<1>1. wire \in Seq(Messages)
    BY DEF AvatarInvariant, Typed
<1>2. /\ m \in Messages /\ wire' \in Seq(Messages)
      /\ \A M, V : AllIn(wire, M, V) <=> AllIn(wire', M, V) /\ (m \in M => m.photo \in V)
      /\ \A M, v : SomeIs(wire, M, v) <=> SomeIs(wire', M, v) \/ (m \in M /\ m.photo = v)
      /\ \A M : Has(wire, M) <=> Has(wire', M) \/ m \in M
    BY <1>1, Shorter
<1>3. /\ \A M, kept, v : m \in M /\ LastIs(wire, M, kept, v) => LastIs(wire', M, m.photo, v)
      /\ \A M, kept, v : m \notin M /\ LastIs(wire, M, kept, v) => LastIs(wire', M, kept, v)
    BY <1>1, Shorter
<1>4. /\ m \in Answer("data") => m.photo \in Photo
      /\ AllIn(wire', Answer("data"), Photo)
    BY <1>2 DEF AvatarInvariant, DataHasPhoto
<1>5. /\ m \in News("metadata") => LastIs(wire', News("metadata"), m.photo, server.metadata)
      /\ m \notin News("metadata") => LastIs(wire', News("metadata"), pep.hash, server.metadata)
    BY <1>3 DEF AvatarInvariant, HashFollows
<1>6. m \in News("error") \/ Has(wire', News("error")) => failed
    BY <1>2 DEF AvatarInvariant, ErrorsAreFailures
<1>7. QED
    BY <1>2, <1>4, <1>5, <1>6

\* The same of presence, while no photo has been taken off.
LEMMA AnnouncementTaken ==
    ASSUME AvatarInvariant, wire # <<>>, wire' = Tail(wire), NEW m, m = Head(wire), ~removed
    PROVE  /\ m \in News("presence") => LastIs(wire', News("presence"), m.photo, server.presence)
           /\ m \notin News("presence") => LastIs(wire', News("presence"), vcard.hash, server.presence)
           /\ m \in News("presence") /\ m.photo # None => \A q : NoneFirst(wire', q)
           /\ m \in News("presence") /\ m.photo = None => vcard.hash = None
           /\ NoneFirst(wire', vcard.hash)
           /\ Calm /\ m \in News("presence") => Fresh(wire', m.photo, server.presence, server.vcard)
           /\ Calm /\ m \notin News("presence") => Fresh(wire', vcard.hash, server.presence, server.vcard)
<1>1. wire \in Seq(Messages)
    BY DEF AvatarInvariant, Typed
<1>2. /\ \A M, kept, v : m \in M /\ LastIs(wire, M, kept, v) => LastIs(wire', M, m.photo, v)
      /\ \A M, kept, v : m \notin M /\ LastIs(wire, M, kept, v) => LastIs(wire', M, kept, v)
    BY <1>1, Shorter
<1>3. /\ m \in News("presence") => LastIs(wire', News("presence"), m.photo, server.presence)
      /\ m \notin News("presence") => LastIs(wire', News("presence"), vcard.hash, server.presence)
    BY <1>2 DEF AvatarInvariant, SeenFollows
<1>4. NoneFirst(wire, vcard.hash)
    BY DEF AvatarInvariant, NoneIsFirst
<1>5. /\ m \in News("presence") /\ m.photo # None => \A q : NoneFirst(wire', q)
      /\ m \in News("presence") /\ m.photo = None => vcard.hash = None
      /\ NoneFirst(wire', vcard.hash)
    BY <1>1, <1>4, NoneTaken
<1>6. ASSUME Calm
      PROVE  /\ m \in News("presence") => Fresh(wire', m.photo, server.presence, server.vcard)
             /\ m \notin News("presence") => Fresh(wire', vcard.hash, server.presence, server.vcard)
  <2>1. Fresh(wire, vcard.hash, server.presence, server.vcard)
      BY <1>6 DEF AvatarInvariant, VCardsAreFresh
  <2>2. QED
      BY <1>1, <2>1, FreshTaken
<1>7. QED
    BY <1>3, <1>5, <1>6

\* When all is calm, and no hash but the one known is on the wire, that hash is the
\* server's vcard's.
LEMMA CalmHash ==
    ASSUME AvatarInvariant, ~removed, Calm, NEW w, NEW h,
           LastIs(w, News("presence"), h, server.presence), AllIn(w, News("presence"), {h})
    PROVE  server.presence = h /\ server.vcard = h
<1>1. server.presence = h
    BY LastOfAll
<1>2. self.photoHash = server.presence
    BY LastOfAll DEF AvatarInvariant, PresenceFollows, Calm
<1>3. server.vcard = self.photoHash
    BY CalmVCard DEF Calm
<1>4. QED
    BY <1>1, <1>2, <1>3

\* What a message to the viewer cannot touch.
LEMMA ContactKept ==
    ASSUME AvatarInvariant, UNCHANGED <<contact, server, failed, removed>>
    PROVE  /\ PublishedFirst' /\ ChoiceOnItsWay' /\ VCardFollows' /\ PresenceFollows'
           /\ Calm' <=> Calm
           /\ AllIn(up', Node("data"), Photo)
           /\ ~removed => /\ AllIn(up', Node("vcard"), Photo) /\ AllIn(up', Node("presence"), Photo)
                          /\ AllIn(acks', Node("vcard"), Photo)
    BY DEF AvatarInvariant, PublishedFirst, ChoiceOnItsWay, VCardFollows, PresenceFollows, Calm,
           NoneIsFirst, DataHasPhoto, contact

LEMMA TakenKinds ==
    ASSUME NEW m \in Messages
    PROVE  /\ m.photo \in PhotoOrNone
           /\ \A t : m \in News(t) <=> m.type = t
           /\ \A o : m \in Answer(o) <=> m.type = "result" /\ m.of = o
           /\ m.type \in {"result", "error"} => m.of # "contact"
    BY DEF Messages, News, Answer

LEMMA AskedKinds ==
    ASSUME NEW of \in {"data", "avatar", "info"}, NEW p \in PhotoOrNone, NEW x,
           x = [of |-> of, photo |-> p]
    PROVE  /\ x \in Asks /\ x.photo = p
           /\ \A o : x \in Ask(o) <=> o = of
    BY DEF Asks, Ask

LEMMA ResourceAvailablePreserves ==
    ASSUME AvatarInvariant, ResourceAvailable
    PROVE  AvatarInvariant'
<1> DEFINE m == Head(wire)
           h == m.photo
           x == [of |-> "avatar", photo |-> None]
<1>1. /\ wire # <<>> /\ m.type = "presence" /\ wire' = Tail(wire)
      /\ UNCHANGED <<contact, server, failed, removed, file, pep, saved, cache>>
      /\ vcard' = IF h = None THEN vcard ELSE Updated(vcard, h)
      /\ asks' = IF Wanted(vcard, h) THEN Append(asks, x) ELSE asks
      /\ Signalled(vcard' # vcard)
    BY DEF ResourceAvailable, Taken
<1>2. /\ x \in Asks /\ x \in Ask("avatar") /\ x \notin Ask("data")
  <2>1. x = [of |-> "avatar", photo |-> None] /\ None \in PhotoOrNone
      BY DEF PhotoOrNone
  <2> HIDE DEF x
  <2>2. QED
      BY <2>1, AskedKinds
<1> HIDE DEF m, x
<1>3. m = Head(wire)
    BY DEF m
<1>4. /\ m \in Messages /\ wire' \in Seq(Messages)
      /\ AllIn(wire', Answer("data"), Photo)
      /\ m \notin News("metadata") => LastIs(wire', News("metadata"), pep.hash, server.metadata)
      /\ \A v : SomeIs(wire, Answer("data"), v)
                <=> SomeIs(wire', Answer("data"), v) \/ (m \in Answer("data") /\ m.photo = v)
      /\ Has(wire', News("error")) => failed
      /\ \A V : AllIn(wire, News("presence"), V)
                <=> AllIn(wire', News("presence"), V) /\ (m \in News("presence") => m.photo \in V)
      /\ Has(wire, Answer("avatar")) <=> Has(wire', Answer("avatar")) \/ m \in Answer("avatar")
    BY <1>1, <1>3, MessageTaken
<1>5. /\ h \in PhotoOrNone /\ m \in News("presence") /\ m \notin News("metadata")
      /\ \A o : m \notin Answer(o)
    BY <1>1, <1>4, TakenKinds
<1>6. ~removed =>
         /\ LastIs(wire', News("presence"), h, server.presence)
         /\ h # None => \A q : NoneFirst(wire', q)
         /\ h = None => vcard.hash = None
         /\ NoneFirst(wire', vcard.hash)
         /\ Calm => Fresh(wire', h, server.presence, server.vcard)
    BY <1>1, <1>3, <1>5, AnnouncementTaken
<1> HIDE DEF h
<1>7. /\ PublishedFirst' /\ ChoiceOnItsWay' /\ VCardFollows' /\ PresenceFollows'
      /\ Calm' <=> Calm
      /\ AllIn(up', Node("data"), Photo)
      /\ ~removed => /\ AllIn(up', Node("vcard"), Photo) /\ AllIn(up', Node("presence"), Photo)
                     /\ AllIn(acks', Node("vcard"), Photo)
    BY <1>1, ContactKept
<1>8. asks \in Seq(Asks) /\ vcard \in [hash : PhotoOrNone, image : PhotoOrNone]
    BY DEF AvatarInvariant, Typed
<1>9. /\ asks' \in Seq(Asks)
      /\ \A V : AllIn(asks', Ask("data"), V) <=> AllIn(asks, Ask("data"), V)
      /\ \A v : SomeIs(asks', Ask("data"), v) <=> SomeIs(asks, Ask("data"), v)
      /\ Has(asks', Ask("avatar")) <=> Has(asks, Ask("avatar")) \/ Wanted(vcard, h)
  <2>1. CASE Wanted(vcard, h)
    <3>1. asks' = Append(asks, x)
        BY <1>1, <2>1
    <3>2. QED
        BY <1>2, <1>8, <2>1, <3>1, Longer
  <2>2. CASE ~Wanted(vcard, h)
      BY <1>1, <1>8, <2>2
  <2>3. QED
      BY <2>1, <2>2
<1>10. /\ vcard' \in [hash : PhotoOrNone, image : PhotoOrNone]
       /\ h = None => vcard'.hash = vcard.hash
       /\ h # None => vcard'.hash = h
       /\ h = None \/ h = vcard.hash => vcard' = vcard
       /\ h # None /\ h # vcard.hash /\ h \in cache => vcard'.image = h
       /\ h # None /\ h # vcard.hash /\ h \notin cache => Wanted(vcard, h)
    BY <1>1, <1>5, <1>8 DEF Updated, Wanted, PhotoOrNone
<1>11. ~removed => vcard'.hash = h
    BY <1>6, <1>10
<1>12. Typed'
    BY <1>1, <1>4, <1>9, <1>10 DEF AvatarInvariant, Typed, contact
<1>13. DataHasPhoto' /\ HashFollows' /\ PictureFollows' /\ SeenFollows' /\ ErrorsAreFailures'
    BY <1>1, <1>4, <1>5, <1>6, <1>7, <1>9, <1>11
       DEF AvatarInvariant, DataHasPhoto, HashFollows, PictureFollows, SeenFollows,
           ErrorsAreFailures, contact
<1>14. Viewed'
    BY <1>1 DEF AvatarInvariant, Viewed, ViewIsCurrent, Signalled, AvatarChanged
<1>15. NoneIsFirst'
    BY <1>1, <1>6, <1>7, <1>10 DEF NoneIsFirst
<1>16. VCardsAreFresh'
    BY <1>1, <1>6, <1>7, <1>11 DEF VCardsAreFresh
<1>17. PhotoFollows'
  <2>1. SUFFICES ASSUME ~failed, ~removed, Calm, AllIn(wire', News("presence"), {h})
                 PROVE  \/ vcard'.image = server.vcard
                        \/ Has(asks', Ask("avatar"))
                        \/ Has(wire', Answer("avatar"))
      BY <1>1, <1>7, <1>11 DEF PhotoFollows
  <2>2. CASE h = vcard.hash
    <3>1. AllIn(wire, News("presence"), {vcard.hash})
        BY <1>4, <2>1, <2>2 DEF h
    <3>2. QED
        BY <1>4, <1>5, <1>9, <1>10, <2>1, <2>2, <3>1 DEF AvatarInvariant, PhotoFollows
  <2>3. CASE h # vcard.hash /\ h \in cache
    <3>1. server.vcard = h /\ h # None
        BY <1>6, <2>1, <2>3, CalmHash
    <3>2. QED
        BY <1>10, <2>3, <3>1
  <2>4. CASE h # vcard.hash /\ h \notin cache
      BY <1>6, <1>9, <1>10, <2>1, <2>4
  <2>5. QED
      BY <2>2, <2>3, <2>4
<1>18. QED
    BY <1>7, <1>12, <1>13, <1>14, <1>15, <1>16, <1>17 DEF AvatarInvariant

\* A message that is no presence leaves alone what follows from presence.
LEMMA HashKept ==
    ASSUME AvatarInvariant, wire # <<>>, wire' = Tail(wire), NEW m, m = Head(wire),
           m \notin News("presence"), UNCHANGED <<contact, server, failed, removed>>,
           vcard'.hash = vcard.hash
    PROVE  SeenFollows' /\ NoneIsFirst' /\ VCardsAreFresh'
<1>1. /\ Calm' <=> Calm
      /\ ~removed => /\ AllIn(up', Node("vcard"), Photo) /\ AllIn(up', Node("presence"), Photo)
                     /\ AllIn(acks', Node("vcard"), Photo)
    BY ContactKept
<1>2. ~removed =>
         /\ LastIs(wire', News("presence"), vcard.hash, server.presence)
         /\ NoneFirst(wire', vcard.hash)
         /\ Calm => Fresh(wire', vcard.hash, server.presence, server.vcard)
    BY AnnouncementTaken
<1>3. QED
    BY <1>1, <1>2 DEF SeenFollows, NoneIsFirst, VCardsAreFresh

LEMMA MetadataPreserves ==
    ASSUME AvatarInvariant, Metadata
    PROVE  AvatarInvariant'
<1> DEFINE m == Head(wire)
           h == m.photo
           x == [of |-> "data", photo |-> h]
<1>1. /\ wire # <<>> /\ m.type = "metadata" /\ wire' = Tail(wire)
      /\ UNCHANGED <<contact, server, failed, removed, file, vcard, saved, cache>>
      /\ pep' = Updated(pep, h)
      /\ asks' = IF Wanted(pep, h) THEN Append(asks, x) ELSE asks
      /\ Signalled(pep' # pep)
    BY DEF Metadata, Taken
<1> HIDE DEF m
<1>2. m = Head(wire)
    BY DEF m
<1>3. /\ m \in Messages /\ wire' \in Seq(Messages)
      /\ AllIn(wire', Answer("data"), Photo)
      /\ m \in News("metadata") => LastIs(wire', News("metadata"), h, server.metadata)
      /\ \A v : SomeIs(wire, Answer("data"), v)
                <=> SomeIs(wire', Answer("data"), v) \/ (m \in Answer("data") /\ h = v)
      /\ Has(wire', News("error")) => failed
      /\ \A V : AllIn(wire, News("presence"), V)
                <=> AllIn(wire', News("presence"), V) /\ (m \in News("presence") => h \in V)
      /\ Has(wire, Answer("avatar")) <=> Has(wire', Answer("avatar")) \/ m \in Answer("avatar")
    BY <1>1, <1>2, MessageTaken
<1>4. /\ h \in PhotoOrNone /\ m \in News("metadata") /\ m \notin News("presence")
      /\ \A o : m \notin Answer(o)
    BY <1>1, <1>3, TakenKinds
<1>5. SeenFollows' /\ NoneIsFirst' /\ VCardsAreFresh'
    BY <1>1, <1>2, <1>4, HashKept
<1>6. /\ x \in Asks /\ x.photo = h /\ x \notin Ask("avatar") /\ x \in Ask("data")
  <2>1. x = [of |-> "data", photo |-> h]
      OBVIOUS
  <2> HIDE DEF x
  <2>2. QED
      BY <1>4, <2>1, AskedKinds
<1> HIDE DEF x, h
<1>7. /\ PublishedFirst' /\ ChoiceOnItsWay' /\ VCardFollows' /\ PresenceFollows'
      /\ Calm' <=> Calm
      /\ AllIn(up', Node("data"), Photo)
    BY <1>1, ContactKept
<1>8. asks \in Seq(Asks) /\ pep \in [hash : PhotoOrNone, image : PhotoOrNone] /\ cache \subseteq Photo
    BY DEF AvatarInvariant, Typed
<1>9. /\ asks' \in Seq(Asks)
      /\ \A V : AllIn(asks', Ask("data"), V)
                <=> AllIn(asks, Ask("data"), V) /\ (Wanted(pep, h) => h \in V)
      /\ \A v : SomeIs(asks', Ask("data"), v)
                <=> SomeIs(asks, Ask("data"), v) \/ (Wanted(pep, h) /\ h = v)
      /\ Has(asks', Ask("avatar")) <=> Has(asks, Ask("avatar"))
  <2>1. CASE Wanted(pep, h)
    <3>1. asks' = Append(asks, x)
        BY <1>1, <2>1
    <3>2. QED
        BY <1>6, <1>8, <2>1, <3>1, Longer
  <2>2. CASE ~Wanted(pep, h)
      BY <1>1, <1>8, <2>2
  <2>3. QED
      BY <2>1, <2>2
<1>10. /\ pep' \in [hash : PhotoOrNone, image : PhotoOrNone]
       /\ pep'.hash = h
       /\ h = pep.hash => pep' = pep
       /\ h # pep.hash => pep'.image \in {None, h}
       /\ h # None /\ h # pep.hash /\ h \in cache => pep'.image = h
       /\ h # None /\ h # pep.hash /\ h \notin cache => Wanted(pep, h)
       /\ Wanted(pep, h) => h \in Photo
    BY <1>1, <1>4, <1>8 DEF Updated, Wanted, PhotoOrNone
<1>11. Typed'
    BY <1>1, <1>3, <1>9, <1>10 DEF AvatarInvariant, Typed, contact
<1>12. DataHasPhoto' /\ HashFollows' /\ ErrorsAreFailures'
    BY <1>1, <1>3, <1>4, <1>7, <1>9, <1>10
       DEF AvatarInvariant, DataHasPhoto, HashFollows, ErrorsAreFailures
<1>13. Viewed'
  <2>1. ViewIsCurrent'
      BY <1>1 DEF AvatarInvariant, Viewed, ViewIsCurrent, Signalled, AvatarChanged
  <2>2. pep'.image \in {None, pep'.hash}
      BY <1>10 DEF AvatarInvariant, Viewed
  <2>3. QED
      BY <2>1, <2>2 DEF Viewed
<1>14. PictureFollows'
  <2>1. CASE h = pep.hash
      BY <1>1, <1>3, <1>4, <1>9, <1>10, <2>1 DEF AvatarInvariant, PictureFollows
  <2>2. CASE h # pep.hash
      BY <1>9, <1>10, <2>2 DEF PictureFollows
  <2>3. QED
      BY <2>1, <2>2
<1>15. PhotoFollows'
    BY <1>1, <1>3, <1>4, <1>7, <1>9 DEF AvatarInvariant, PhotoFollows
<1>16. QED
    BY <1>5, <1>7, <1>11, <1>12, <1>13, <1>14, <1>15 DEF AvatarInvariant

LEMMA DataPreserves ==
    ASSUME AvatarInvariant, Data
    PROVE  AvatarInvariant'
<1> DEFINE m == Head(wire)
           p == m.photo
<1>1. /\ wire # <<>> /\ m.type = "result" /\ m.of = "data" /\ wire' = Tail(wire)
      /\ UNCHANGED <<contact, server, failed, removed, file, asks, vcard, saved>>
      /\ pep' = IF p = pep.hash THEN [pep EXCEPT !.image = p] ELSE pep
      /\ cache' = IF p = pep.hash THEN Cached(p) ELSE cache
      /\ Signalled(p = pep.hash)
    BY DEF Data, SetData, Taken
<1> HIDE DEF m
<1>2. m = Head(wire)
    BY DEF m
<1>3. /\ m \in Messages /\ wire' \in Seq(Messages)
      /\ m \in Answer("data") => p \in Photo
      /\ AllIn(wire', Answer("data"), Photo)
      /\ m \notin News("metadata") => LastIs(wire', News("metadata"), pep.hash, server.metadata)
      /\ \A v : SomeIs(wire, Answer("data"), v)
                <=> SomeIs(wire', Answer("data"), v) \/ (m \in Answer("data") /\ p = v)
      /\ Has(wire', News("error")) => failed
      /\ \A V : AllIn(wire, News("presence"), V)
                <=> AllIn(wire', News("presence"), V) /\ (m \in News("presence") => p \in V)
      /\ Has(wire, Answer("avatar")) <=> Has(wire', Answer("avatar")) \/ m \in Answer("avatar")
    BY <1>1, <1>2, MessageTaken
<1>4. /\ m \notin News("metadata") /\ m \notin News("presence")
      /\ m \in Answer("data") /\ m \notin Answer("avatar") /\ p \in Photo
    BY <1>1, <1>3, TakenKinds
<1>5. SeenFollows' /\ NoneIsFirst' /\ VCardsAreFresh'
    BY <1>1, <1>2, <1>4, HashKept
<1> HIDE DEF p
<1>6. /\ PublishedFirst' /\ ChoiceOnItsWay' /\ VCardFollows' /\ PresenceFollows'
      /\ Calm' <=> Calm
      /\ AllIn(up', Node("data"), Photo)
    BY <1>1, ContactKept
<1>7. pep \in [hash : PhotoOrNone, image : PhotoOrNone] /\ cache \subseteq Photo
    BY DEF AvatarInvariant, Typed
<1>8. /\ pep' \in [hash : PhotoOrNone, image : PhotoOrNone] /\ cache' \subseteq Photo
      /\ pep'.hash = pep.hash
      /\ p = pep.hash => pep'.image = pep.hash
      /\ p # pep.hash => pep' = pep
    BY <1>1, <1>4, <1>7 DEF Cached, PhotoOrNone
<1>9. Typed'
    BY <1>1, <1>3, <1>8 DEF AvatarInvariant, Typed, contact
<1>10. DataHasPhoto' /\ HashFollows' /\ ErrorsAreFailures'
    BY <1>1, <1>3, <1>4, <1>6, <1>8 DEF AvatarInvariant, DataHasPhoto, HashFollows, ErrorsAreFailures
<1>11. Viewed'
  <2>1. ViewIsCurrent'
      BY <1>1 DEF AvatarInvariant, Viewed, ViewIsCurrent, Signalled, AvatarChanged
  <2>2. pep'.image \in {None, pep'.hash}
      BY <1>8 DEF AvatarInvariant, Viewed
  <2>3. QED
      BY <2>1, <2>2 DEF Viewed
<1>12. PictureFollows'
  <2>1. CASE p = pep.hash
      BY <1>8, <2>1 DEF PictureFollows
  <2>2. CASE p # pep.hash
      BY <1>1, <1>3, <1>8, <2>2 DEF AvatarInvariant, PictureFollows
  <2>3. QED
      BY <2>1, <2>2
<1>13. PhotoFollows'
    BY <1>1, <1>3, <1>4, <1>6 DEF AvatarInvariant, PhotoFollows
<1>14. QED
    BY <1>5, <1>6, <1>9, <1>10, <1>11, <1>12, <1>13 DEF AvatarInvariant

\* An error tells of a failure; it may put the saved vcard's photo into the avatar.
LEMMA ErrorPreserves ==
    ASSUME AvatarInvariant, NEW of \in {"data", "avatar", "info"}, Taken("error", of),
           UNCHANGED <<asks, pep, saved>>,
           vcard' \in [hash : PhotoOrNone, image : PhotoOrNone], vcard'.hash = vcard.hash,
           cache' \subseteq Photo, ViewIsCurrent'
    PROVE  AvatarInvariant'
<1> DEFINE m == Head(wire)
<1>1. /\ wire # <<>> /\ m.type = "error" /\ wire' = Tail(wire)
      /\ UNCHANGED <<contact, server, failed, removed, file, asks, pep, saved>>
    BY DEF Taken
<1> HIDE DEF m
<1>2. m = Head(wire)
    BY DEF m
<1>3. /\ m \in Messages /\ wire' \in Seq(Messages)
      /\ AllIn(wire', Answer("data"), Photo)
      /\ m \notin News("metadata") => LastIs(wire', News("metadata"), pep.hash, server.metadata)
      /\ m \in News("error") => failed
    BY <1>1, <1>2, MessageTaken
<1>4. m \notin News("metadata") /\ m \notin News("presence") /\ failed
    BY <1>1, <1>3, TakenKinds
<1>5. SeenFollows' /\ NoneIsFirst' /\ VCardsAreFresh'
    BY <1>1, <1>2, <1>4, HashKept
<1>6. /\ PublishedFirst' /\ ChoiceOnItsWay' /\ VCardFollows' /\ PresenceFollows'
      /\ AllIn(up', Node("data"), Photo)
    BY <1>1, ContactKept
<1>7. Typed'
    BY <1>1, <1>3 DEF AvatarInvariant, Typed, contact
<1>8. DataHasPhoto' /\ Viewed' /\ HashFollows'
    BY <1>1, <1>3, <1>4, <1>6 DEF AvatarInvariant, DataHasPhoto, Viewed, HashFollows
<1>9. PictureFollows' /\ PhotoFollows' /\ ErrorsAreFailures'
    BY <1>1, <1>4 DEF PictureFollows, PhotoFollows, ErrorsAreFailures
<1>10. QED
    BY <1>5, <1>6, <1>7, <1>8, <1>9 DEF AvatarInvariant

LEMMA DataErrorPreserves ==
    ASSUME AvatarInvariant, DataError
    PROVE  AvatarInvariant'
<1>1. Taken("error", "data") /\ UNCHANGED <<asks, pep, vcard, saved, cache, view, file>>
    BY DEF DataError, Taken
<1>2. ViewIsCurrent' /\ vcard' \in [hash : PhotoOrNone, image : PhotoOrNone] /\ cache' \subseteq Photo
    BY <1>1 DEF AvatarInvariant, Typed, Viewed, ViewIsCurrent
<1>3. QED
    BY <1>1, <1>2, ErrorPreserves

LEMMA InfoErrorPreserves ==
    ASSUME AvatarInvariant, InfoError
    PROVE  AvatarInvariant'
<1>1. Taken("error", "info") /\ UNCHANGED <<asks, pep, vcard, saved, cache, view, file>>
    BY DEF InfoError, Taken
<1>2. ViewIsCurrent' /\ vcard' \in [hash : PhotoOrNone, image : PhotoOrNone] /\ cache' \subseteq Photo
    BY <1>1 DEF AvatarInvariant, Typed, Viewed, ViewIsCurrent
<1>3. QED
    BY <1>1, <1>2, ErrorPreserves

\* The avatar's slot is called with the saved vcard, if there is one.
LEMMA ReceivedSaved ==
    ASSUME AvatarInvariant, UNCHANGED <<pep, file>>, Received(saved'),
           saved' \in PhotoOrNone \cup {Unknown}
    PROVE  /\ vcard' \in [hash : PhotoOrNone, image : PhotoOrNone] /\ vcard'.hash = vcard.hash
           /\ cache' \subseteq Photo
           /\ saved' = Unknown => UNCHANGED <<vcard, cache>>
           /\ saved' # Unknown => vcard'.image = saved'
           /\ saved' = saved /\ Signalled(saved # Unknown) => ViewIsCurrent'
<1>1. vcard \in [hash : PhotoOrNone, image : PhotoOrNone] /\ cache \subseteq Photo
    BY DEF AvatarInvariant, Typed
<1>2. /\ vcard' = IF saved' = Unknown THEN vcard ELSE [vcard EXCEPT !.image = saved']
      /\ cache' = IF saved' \in Photo THEN cache \cup {saved'} ELSE cache
    BY DEF Received, Cached
<1>3. saved' # Unknown => saved' \in PhotoOrNone
    OBVIOUS
<1>4. saved' = Unknown => saved' \notin Photo
    BY ConstantsAssumption
<1>5. saved' = saved /\ Signalled(saved # Unknown) => ViewIsCurrent'
    BY <1>2 DEF AvatarInvariant, Viewed, ViewIsCurrent, Signalled, AvatarChanged
<1>6. QED
    BY <1>1, <1>2, <1>3, <1>4, <1>5

LEMMA VCardErrorPreserves ==
    ASSUME AvatarInvariant, VCardError
    PROVE  AvatarInvariant'
<1>1. /\ Taken("error", "avatar") /\ UNCHANGED <<asks, pep, saved, file>>
      /\ Received(saved') /\ Signalled(saved # Unknown)
    BY DEF VCardError, Taken, Received, Cached
<1>2. saved' \in PhotoOrNone \cup {Unknown}
    BY <1>1 DEF AvatarInvariant, Typed
<1>3. QED
    BY <1>1, <1>2, ReceivedSaved, ErrorPreserves

\* The vcard that arrives is fresh when the avatar's photo has to be the server's.
LEMMA VCardResultPreserves ==
    ASSUME AvatarInvariant, VCardResult
    PROVE  AvatarInvariant'
<1> DEFINE m == Head(wire)
           p == m.photo
<1>1. /\ wire # <<>> /\ m.type = "result" /\ m.of = "avatar" /\ wire' = Tail(wire)
      /\ UNCHANGED <<contact, server, failed, removed, file, asks, pep>>
      /\ saved' = p /\ Received(saved') /\ AvatarChanged
    BY DEF VCardResult, Taken
<1> HIDE DEF m
<1>2. m = Head(wire)
    BY DEF m
<1>3. /\ m \in Messages /\ wire' \in Seq(Messages)
      /\ AllIn(wire', Answer("data"), Photo)
      /\ m \notin News("metadata") => LastIs(wire', News("metadata"), pep.hash, server.metadata)
      /\ \A v : SomeIs(wire, Answer("data"), v)
                <=> SomeIs(wire', Answer("data"), v) \/ (m \in Answer("data") /\ p = v)
      /\ Has(wire', News("error")) => failed
      /\ \A V : AllIn(wire, News("presence"), V)
                <=> AllIn(wire', News("presence"), V) /\ (m \in News("presence") => p \in V)
    BY <1>1, <1>2, MessageTaken
<1>4. /\ m \notin News("metadata") /\ m \notin News("presence")
      /\ m \notin Answer("data") /\ m \in Answer("avatar") /\ p \in PhotoOrNone
    BY <1>1, <1>3, TakenKinds
<1> HIDE DEF p
<1>5. /\ vcard' \in [hash : PhotoOrNone, image : PhotoOrNone] /\ vcard'.hash = vcard.hash
      /\ cache' \subseteq Photo
      /\ saved' # Unknown => vcard'.image = saved'
    BY <1>1, <1>4, ReceivedSaved
<1>6. vcard'.image = p
    BY <1>1, <1>4, <1>5, ConstantsAssumption DEF PhotoOrNone
<1>7. SeenFollows' /\ NoneIsFirst' /\ VCardsAreFresh'
    BY <1>1, <1>2, <1>4, <1>5, HashKept
<1>8. /\ PublishedFirst' /\ ChoiceOnItsWay' /\ VCardFollows' /\ PresenceFollows'
      /\ Calm' <=> Calm
      /\ AllIn(up', Node("data"), Photo)
    BY <1>1, ContactKept
<1>9. Typed'
    BY <1>1, <1>3, <1>4, <1>5 DEF AvatarInvariant, Typed, contact
<1>10. DataHasPhoto' /\ HashFollows' /\ PictureFollows' /\ ErrorsAreFailures'
    BY <1>1, <1>3, <1>4, <1>8
       DEF AvatarInvariant, DataHasPhoto, HashFollows, PictureFollows, ErrorsAreFailures
<1>11. Viewed'
    BY <1>1 DEF AvatarInvariant, Viewed, ViewIsCurrent, AvatarChanged
<1>12. PhotoFollows'
  <2>1. SUFFICES ASSUME ~removed, Calm, AllIn(wire', News("presence"), {vcard.hash})
                 PROVE  p = server.vcard
      BY <1>1, <1>5, <1>6, <1>8 DEF PhotoFollows
  <2>2. AllIn(wire, News("presence"), {vcard.hash}) /\ wire \in Seq(Messages)
      BY <1>3, <1>4, <2>1 DEF AvatarInvariant, Typed
  <2>3. server.presence = vcard.hash
      BY <2>1, <2>2, LastOfAll DEF AvatarInvariant, SeenFollows
  <2>4. AllIn(wire, Answer("avatar"), {server.vcard})
      BY <2>1, <2>2, <2>3, FreshUsed DEF AvatarInvariant, VCardsAreFresh
  <2>5. m \in Answer("avatar") => m.photo \in {server.vcard}
      BY <1>1, <1>2, <2>2, <2>4, AllTaken
  <2>6. QED
      BY <1>4, <2>5 DEF p
<1>13. QED
    BY <1>7, <1>8, <1>9, <1>10, <1>11, <1>12 DEF AvatarInvariant

LEMMA InfoResultPreserves ==
    ASSUME AvatarInvariant, InfoResult
    PROVE  AvatarInvariant'
<1> DEFINE m == Head(wire)
           p == m.photo
<1>1. /\ wire # <<>> /\ m.type = "result" /\ m.of = "info" /\ wire' = Tail(wire)
      /\ UNCHANGED <<contact, server, failed, removed, file, asks, pep, vcard, cache>>
      /\ saved' = p /\ AvatarChanged
    BY DEF InfoResult, Taken
<1> HIDE DEF m
<1>2. m = Head(wire)
    BY DEF m
<1>3. /\ m \in Messages /\ wire' \in Seq(Messages)
      /\ AllIn(wire', Answer("data"), Photo)
      /\ m \notin News("metadata") => LastIs(wire', News("metadata"), pep.hash, server.metadata)
      /\ \A v : SomeIs(wire, Answer("data"), v)
                <=> SomeIs(wire', Answer("data"), v) \/ (m \in Answer("data") /\ p = v)
      /\ Has(wire', News("error")) => failed
      /\ \A V : AllIn(wire, News("presence"), V)
                <=> AllIn(wire', News("presence"), V) /\ (m \in News("presence") => p \in V)
      /\ Has(wire, Answer("avatar")) <=> Has(wire', Answer("avatar")) \/ m \in Answer("avatar")
    BY <1>1, <1>2, MessageTaken
<1>4. /\ m \notin News("metadata") /\ m \notin News("presence")
      /\ m \notin Answer("data") /\ m \notin Answer("avatar") /\ p \in PhotoOrNone
    BY <1>1, <1>3, TakenKinds
<1> HIDE DEF p
<1>5. SeenFollows' /\ NoneIsFirst' /\ VCardsAreFresh'
    BY <1>1, <1>2, <1>4, HashKept
<1>6. /\ PublishedFirst' /\ ChoiceOnItsWay' /\ VCardFollows' /\ PresenceFollows'
      /\ Calm' <=> Calm
      /\ AllIn(up', Node("data"), Photo)
    BY <1>1, ContactKept
<1>7. Typed'
    BY <1>1, <1>3, <1>4 DEF AvatarInvariant, Typed, contact
<1>8. DataHasPhoto' /\ HashFollows' /\ PictureFollows' /\ ErrorsAreFailures'
    BY <1>1, <1>3, <1>4, <1>6
       DEF AvatarInvariant, DataHasPhoto, HashFollows, PictureFollows, ErrorsAreFailures
<1>9. Viewed'
    BY <1>1 DEF AvatarInvariant, Viewed, ViewIsCurrent, AvatarChanged
<1>10. PhotoFollows'
    BY <1>1, <1>3, <1>4, <1>6 DEF AvatarInvariant, PhotoFollows
<1>11. QED
    BY <1>5, <1>6, <1>7, <1>8, <1>9, <1>10 DEF AvatarInvariant

LEMMA LookUpPreserves ==
    ASSUME AvatarInvariant, LookUp
    PROVE  AvatarInvariant'
<1> DEFINE x == [of |-> "info", photo |-> None]
<1>1. /\ asks' = Append(asks, x)
      /\ UNCHANGED <<contact, server, wire, pep, vcard, saved, cache, file, view, failed, removed>>
    BY DEF LookUp
<1>2. asks \in Seq(Asks)
    BY DEF AvatarInvariant, Typed
<1>3. x = [of |-> "info", photo |-> None] /\ None \in PhotoOrNone
    BY DEF PhotoOrNone
<1> HIDE DEF x
<1>4. x \in Asks /\ x \notin Ask("data") /\ x \notin Ask("avatar")
    BY <1>3, AskedKinds
<1>5. /\ asks' \in Seq(Asks)
      /\ \A M, V : AllIn(asks', M, V) <=> AllIn(asks, M, V) /\ (x \in M => x.photo \in V)
      /\ \A M, v : SomeIs(asks', M, v) <=> SomeIs(asks, M, v) \/ (x \in M /\ x.photo = v)
      /\ \A M : Has(asks', M) <=> Has(asks, M) \/ x \in M
    BY <1>1, <1>2, <1>4, Longer
<1>6. PublishedFirst' /\ ChoiceOnItsWay' /\ VCardFollows' /\ PresenceFollows' /\ (Calm' <=> Calm)
    BY <1>1, ContactKept
<1>7. Typed'
    BY <1>1, <1>5 DEF AvatarInvariant, Typed, contact
<1>8. DataHasPhoto' /\ PictureFollows' /\ PhotoFollows'
    BY <1>1, <1>4, <1>5, <1>6 DEF AvatarInvariant, DataHasPhoto, PictureFollows, PhotoFollows, contact
<1>9. Viewed' /\ HashFollows' /\ SeenFollows' /\ ErrorsAreFailures'
    BY <1>1 DEF AvatarInvariant, Viewed, ViewIsCurrent, HashFollows, SeenFollows, ErrorsAreFailures
<1>10. NoneIsFirst' /\ VCardsAreFresh'
    BY <1>1, <1>6 DEF AvatarInvariant, NoneIsFirst, VCardsAreFresh, contact
<1>11. QED
    BY <1>6, <1>7, <1>8, <1>9, <1>10 DEF AvatarInvariant

LEMMA SetManualAvatarPreserves ==
    ASSUME AvatarInvariant, SetManualAvatar
    PROVE  AvatarInvariant'
<1>1. /\ file' = ~file /\ AvatarChanged
      /\ UNCHANGED <<contact, server, wire, asks, pep, vcard, saved, cache, failed, removed>>
    BY DEF SetManualAvatar
<1>2. PublishedFirst' /\ ChoiceOnItsWay' /\ VCardFollows' /\ PresenceFollows' /\ (Calm' <=> Calm)
    BY <1>1, ContactKept
<1>3. Typed'
    BY <1>1 DEF AvatarInvariant, Typed, contact
<1>4. DataHasPhoto' /\ PictureFollows' /\ PhotoFollows'
    BY <1>1, <1>2 DEF AvatarInvariant, DataHasPhoto, PictureFollows, PhotoFollows, contact
<1>5. Viewed' /\ HashFollows' /\ SeenFollows' /\ ErrorsAreFailures'
    BY <1>1 DEF AvatarInvariant, Viewed, ViewIsCurrent, AvatarChanged, HashFollows, SeenFollows,
                ErrorsAreFailures
<1>6. NoneIsFirst' /\ VCardsAreFresh'
    BY <1>1, <1>2 DEF AvatarInvariant, NoneIsFirst, VCardsAreFresh, contact
<1>7. QED
    BY <1>2, <1>3, <1>4, <1>5, <1>6 DEF AvatarInvariant

\* Without vcards on the wire there is none that is not fresh.
LEMMA FreshOfNone ==
    ASSUME NEW s \in Seq(Messages), ~Has(s, Answer("avatar")), NEW kept, NEW h, NEW v
    PROVE  Fresh(s, kept, h, v)
<1>1. Len(s) \in Nat
    BY LenProperties
<1>2. \A k \in 0 .. Len(s) : \A j \in k + 1 .. Len(s) : j \in 1 .. Len(s)
    BY <1>1
<1>3. QED
    BY <1>2 DEF Has, Fresh

\* None is announced last only when it was all there was.
LEMMA NoneIsLast ==
    ASSUME NEW s, NEW kept, NoneFirst(s, kept), LastIs(s, News("presence"), kept, None)
    PROVE  kept = None
    BY DEF NoneFirst, LastIs

LEMMA ReconnectPreserves ==
    ASSUME AvatarInvariant, Reconnect
    PROVE  AvatarInvariant'
<1> DEFINE pending == {asks[i].of : i \in DOMAIN asks}
                      \cup {wire[i].of : i \in {j \in DOMAIN wire : wire[j].of # "contact"}}
           a == Announce("presence", server.presence)
           b == Announce("metadata", server.metadata)
<1>1. /\ asks' = <<>> /\ wire' = <<a, b>>
      /\ failed' = (failed \/ pending # {} \/ \E i \in DOMAIN wire : wire[i].type = "presence")
      /\ IF "avatar" \in pending THEN Received(saved) ELSE UNCHANGED <<vcard, cache>>
      /\ UNCHANGED <<contact, server, pep, saved, file, removed>>
      /\ Signalled("avatar" \in pending /\ saved # Unknown)
    BY DEF Reconnect
<1>2. asks \in Seq(Asks) /\ wire \in Seq(Messages) /\ failed \in BOOLEAN
    BY DEF AvatarInvariant, Typed
<1>3. /\ a \in Messages /\ a.photo = server.presence /\ a \notin News("metadata")
      /\ a \in News("presence") /\ a \notin News("error") /\ \A of : a \notin Answer(of)
  <2>1. server.presence \in PhotoOrNone
      BY DEF AvatarInvariant, Typed
  <2>2. QED
      BY <2>1, AnnouncedKinds
<1>4. /\ b \in Messages /\ b.photo = server.metadata /\ b \in News("metadata")
      /\ b \notin News("presence") /\ b \notin News("error") /\ \A of : b \notin Answer(of)
  <2>1. server.metadata \in PhotoOrNone
      BY DEF AvatarInvariant, Typed
  <2>2. QED
      BY <2>1, AnnouncedKinds
\* What was asked for, what was answered and what was announced is lost.
<1>5. ASSUME ~failed'
      PROVE  /\ ~failed /\ "avatar" \notin pending
             /\ \A of, v : ~SomeIs(asks, Ask(of), v) /\ ~SomeIs(wire, Answer(of), v)
             /\ \A of : ~Has(asks, Ask(of)) /\ ~Has(wire, Answer(of))
             /\ \A V : AllIn(wire, News("presence"), V)
  <2>1. ~failed /\ pending = {} /\ \A i \in DOMAIN wire : wire[i].type # "presence"
      BY <1>1, <1>5
  <2>2. \A i \in DOMAIN asks : asks[i].of \in pending
      OBVIOUS
  <2>3. \A i \in DOMAIN wire : wire[i].of # "contact" => wire[i].of \in pending
      OBVIOUS
  <2> HIDE DEF pending
  <2>4. DOMAIN asks = 1 .. Len(asks) /\ DOMAIN wire = 1 .. Len(wire)
      BY <1>2
  <2>5. \A i \in 1 .. Len(asks) : FALSE
      BY <2>1, <2>2, <2>4
  <2>6. \A i \in 1 .. Len(wire) : wire[i] \in Messages /\ wire[i].of = "contact"
                                  /\ wire[i].type # "presence"
      BY <1>2, <2>1, <2>3, <2>4
  <2>7. \A i \in 1 .. Len(wire) : wire[i] \notin News("presence") /\ \A of : wire[i] \notin Answer(of)
      BY <2>6, TakenKinds
  <2>8. QED
      BY <2>1, <2>5, <2>7 DEF SomeIs, Has, AllIn
<1>6. /\ vcard' \in [hash : PhotoOrNone, image : PhotoOrNone] /\ vcard'.hash = vcard.hash
      /\ cache' \subseteq Photo
      /\ "avatar" \notin pending => vcard' = vcard
      /\ ViewIsCurrent'
  <2> HIDE DEF pending
  <2>1. CASE "avatar" \in pending
    <3>1. Received(saved') /\ Signalled(saved # Unknown) /\ saved' = saved
        BY <1>1, <2>1 DEF Received, Cached
    <3>2. saved' \in PhotoOrNone \cup {Unknown}
        BY <3>1 DEF AvatarInvariant, Typed
    <3>3. QED
        BY <1>1, <2>1, <3>1, <3>2, ReceivedSaved
  <2>2. CASE "avatar" \notin pending
    <3>1. UNCHANGED <<vcard, cache, view, pep, saved, file>>
        BY <1>1, <2>2 DEF Signalled
    <3>2. QED
        BY <2>2, <3>1 DEF AvatarInvariant, Typed, Viewed, ViewIsCurrent
  <2>3. QED
      BY <2>1, <2>2
<1> HIDE DEF a, b, pending
<1>7. /\ wire' \in Seq(Messages)
      /\ \A of, V : AllIn(wire', Answer(of), V)
      /\ \A of : ~Has(wire', Answer(of))
      /\ ~Has(wire', News("error"))
      /\ \A kept : LastIs(wire', News("presence"), kept, server.presence)
      /\ \A kept : LastIs(wire', News("metadata"), kept, server.metadata)
      /\ \A kept : (server.presence = None => kept = None) => NoneFirst(wire', kept)
  <2> DEFINE w == <<a>>
  <2>1. w = Append(<<>>, a) /\ wire' = Append(w, b) /\ <<>> \in Seq(Messages) /\ w \in Seq(Messages)
      BY <1>1, <1>3
  <2>2. wire' \in Seq(Messages) /\ Len(wire') = 2 /\ wire'[1] = a /\ wire'[2] = b
      BY <1>1, <1>3, <1>4
  <2>3. \A i \in 1 .. Len(wire') : i = 1 \/ i = 2
      BY <2>2
  <2>4. 1 \in 1 .. Len(wire') /\ 2 \in 1 .. Len(wire')
      BY <2>2
  <2>5. /\ \A of, V : AllIn(wire', Answer(of), V)
        /\ \A of : ~Has(wire', Answer(of))
        /\ ~Has(wire', News("error"))
      BY <1>3, <1>4, <2>2, <2>3 DEF AllIn, Has
  <2>6. \A kept : LastIs(wire', News("presence"), kept, server.presence)
      BY <1>3, <1>4, <2>2, <2>3, <2>4 DEF LastIs
  <2>7. \A kept : LastIs(wire', News("metadata"), kept, server.metadata)
      BY <1>3, <1>4, <2>2, <2>3, <2>4 DEF LastIs
  <2>8. ASSUME NEW kept, server.presence = None => kept = None
        PROVE  NoneFirst(wire', kept)
    <3>1. \A i \in 1 .. Len(wire') : \A j \in 1 .. i : j \in 1 .. Len(wire')
        BY <2>2
    <3>2. ASSUME NEW i \in 1 .. Len(wire'), wire'[i] \in News("presence"), wire'[i].photo = None
          PROVE  /\ kept = None
                 /\ \A j \in 1 .. i : wire'[j] \in News("presence") => wire'[j].photo = None
      <4>1. i = 1 /\ server.presence = None
          BY <1>3, <1>4, <2>2, <2>3, <3>2
      <4>2. QED
          BY <1>3, <2>2, <2>8, <4>1
    <3>3. QED
        BY <3>2 DEF NoneFirst
  <2>9. QED
      BY <2>2, <2>5, <2>6, <2>7, <2>8
<1>8. /\ PublishedFirst' /\ ChoiceOnItsWay' /\ VCardFollows' /\ PresenceFollows' /\ (Calm' <=> Calm)
      /\ AllIn(up', Node("data"), Photo)
      /\ ~removed => /\ AllIn(up', Node("vcard"), Photo) /\ AllIn(up', Node("presence"), Photo)
                     /\ AllIn(acks', Node("vcard"), Photo)
  <2>1. PublishedFirst' /\ VCardFollows' /\ PresenceFollows' /\ (Calm' <=> Calm)
      BY <1>1 DEF AvatarInvariant, PublishedFirst, VCardFollows, PresenceFollows, Calm, contact
  <2>2. ChoiceOnItsWay'
      BY <1>1, <1>5 DEF AvatarInvariant, ChoiceOnItsWay, contact
  <2>3. QED
      BY <1>1, <2>1, <2>2 DEF AvatarInvariant, NoneIsFirst, DataHasPhoto, contact
<1>9. Typed'
  <2>1. <<>> \in Seq(Asks) /\ failed' \in BOOLEAN
      BY <1>1, <1>2
  <2>2. QED
      BY <1>1, <1>6, <1>7, <2>1 DEF AvatarInvariant, Typed, contact
<1>10. DataHasPhoto' /\ HashFollows' /\ ErrorsAreFailures' /\ Viewed' /\ SeenFollows'
    BY <1>1, <1>6, <1>7, <1>8, EmptyQueue
       DEF AvatarInvariant, DataHasPhoto, HashFollows, ErrorsAreFailures, Viewed, SeenFollows
<1>11. PictureFollows' /\ PhotoFollows'
    BY <1>1, <1>5, <1>6, <1>8 DEF AvatarInvariant, PictureFollows, PhotoFollows
<1>12. NoneIsFirst'
  <2>1. ~removed /\ server.presence = None => vcard.hash = None
      BY NoneIsLast DEF AvatarInvariant, NoneIsFirst, SeenFollows
  <2>2. QED
      BY <1>1, <1>6, <1>7, <1>8, <2>1 DEF NoneIsFirst
<1>13. VCardsAreFresh'
    BY <1>1, <1>7, FreshOfNone DEF VCardsAreFresh
<1>14. QED
    BY <1>8, <1>9, <1>10, <1>11, <1>12, <1>13 DEF AvatarInvariant

--------------------------------------------------------------------------------
(* The theorems.                                                               *)

LEMMA AvatarStutters ==
    ASSUME AvatarInvariant, UNCHANGED vars
    PROVE  AvatarInvariant'
<1>1. /\ UNCHANGED <<self, up, acks, server, wire, asks, pep, vcard, saved, cache, file, view>>
      /\ UNCHANGED <<failed, removed>>
    BY DEF vars
<1>2. Typed' /\ DataHasPhoto' /\ Viewed' /\ PublishedFirst' /\ ChoiceOnItsWay'
    BY <1>1 DEF AvatarInvariant, Typed, DataHasPhoto, Viewed, ViewIsCurrent, PublishedFirst,
                ChoiceOnItsWay
<1>3. /\ HashFollows' /\ PictureFollows' /\ VCardFollows' /\ PresenceFollows' /\ SeenFollows'
      /\ NoneIsFirst' /\ ErrorsAreFailures'
    BY <1>1 DEF AvatarInvariant, HashFollows, PictureFollows, VCardFollows, PresenceFollows,
                SeenFollows, NoneIsFirst, ErrorsAreFailures
<1>4. VCardsAreFresh' /\ PhotoFollows'
    BY <1>1 DEF AvatarInvariant, VCardsAreFresh, PhotoFollows, Calm
<1>5. QED
    BY <1>2, <1>3, <1>4 DEF AvatarInvariant

LEMMA AvatarPreserved == AvatarInvariant /\ [Next]_vars => AvatarInvariant'
<1> SUFFICES ASSUME AvatarInvariant, [Next]_vars PROVE AvatarInvariant'
    OBVIOUS
<1>1. CASE \E p \in Photo : SetSelfAvatar(p)
    BY <1>1, SetSelfAvatarPreserves
<1>2. CASE UnsetSelfAvatar
    BY <1>2, UnsetSelfAvatarPreserves
<1>3. CASE \E p \in Photo \cup {None} : ChangeVCard(p)
    BY <1>3, ChangeVCardPreserves DEF PhotoOrNone
<1>4. CASE TakeAck
    BY <1>4, TakeAckPreserves
<1>5. CASE Fulfil
    BY <1>5, FulfilPreserves
<1>6. CASE Refuse
    BY <1>6, RefusePreserves
<1>7. CASE Reply
    BY <1>7, ReplyPreserves
<1>8. CASE ReplyError
    BY <1>8, ReplyErrorPreserves
<1>9. CASE ResourceAvailable
    BY <1>9, ResourceAvailablePreserves
<1>10. CASE Metadata
    BY <1>10, MetadataPreserves
<1>11. CASE Data
    BY <1>11, DataPreserves
<1>12. CASE DataError
    BY <1>12, DataErrorPreserves
<1>13. CASE VCardResult
    BY <1>13, VCardResultPreserves
<1>14. CASE VCardError
    BY <1>14, VCardErrorPreserves
<1>15. CASE LookUp
    BY <1>15, LookUpPreserves
<1>16. CASE InfoResult
    BY <1>16, InfoResultPreserves
<1>17. CASE InfoError
    BY <1>17, InfoErrorPreserves
<1>18. CASE SetManualAvatar
    BY <1>18, SetManualAvatarPreserves
<1>19. CASE Reconnect
    BY <1>19, ReconnectPreserves
<1>20. CASE UNCHANGED vars
    BY <1>20, AvatarStutters
<1>21. QED
    BY <1>1, <1>2, <1>3, <1>4, <1>5, <1>6, <1>7, <1>8, <1>9, <1>10, <1>11, <1>12, <1>13, <1>14,
       <1>15, <1>16, <1>17, <1>18, <1>19, <1>20 DEF Next

\* What is kept on either side of a queue becomes what is on the other when the queue
\* is emptied, and nothing else is on its way, however the publications of src/avatars.cpp
\* and src/psiaccount.cpp, their answers and the server's announcements are interleaved.
THEOREM AvatarsFollow == Spec => []AvatarInvariant
<1>1. Init => AvatarInvariant
    BY InitAvatars
<1>2. QED
    BY <1>1, AvatarPreserved, PTL DEF Spec

\* What PEPAvatar, VCardAvatar and VCardFactory hold is typed, the PEP avatar's picture
\* is that of the hash announced last, and what is drawn is what would be retrieved now
\* (AvatarFactory::retrieveAvatar), after any number of late answers.
THEOREM ViewerInvariantHolds == Spec => []ViewerInvariant
<1>1. ASSUME AvatarInvariant PROVE ViewerInvariant
  <2>1. /\ Typed /\ pep.image \in {None, pep.hash} /\ ViewIsCurrent
      BY <1>1 DEF AvatarInvariant, Viewed
  <2>2. view \in Photo \cup {None, Manual}
      BY <2>1 DEF Typed, PhotoOrNone, ViewIsCurrent, Retrieved
  <2>3. TypeOK
      BY <2>1, <2>2 DEF Typed, TypeOK, PhotoOrNone
  <2>4. QED
      BY <2>1, <2>3 DEF ViewerInvariant, PepImageIsOfItsHash
<1>2. QED
    BY <1>1, AvatarsFollow, PTL

\* The metadata the server has is of data the server has: publishSuccess announces a
\* hash only after the data's publication was answered.
THEOREM AnnouncedIsPublishedHolds == Spec => []AnnouncedIsPublished
<1>1. ASSUME AvatarInvariant PROVE AnnouncedIsPublished
    BY <1>1 DEF AvatarInvariant, PublishedFirst, AnnouncedIsPublished
<1>2. QED
    BY <1>1, AvatarsFollow, PTL

\* When no publication failed and all were answered, the avatar announced is the one
\* chosen last (setSelfAvatar and publishSuccess), however fast the choices follow.
THEOREM ChoiceIsAnnouncedHolds == Spec => []ChoiceIsAnnounced
<1>1. ASSUME AvatarInvariant PROVE ChoiceIsAnnounced
  <2>1. SUFFICES ASSUME up = <<>>, acks = <<>>, ~failed, self.choice # None
                 PROVE  server.metadata = self.choice
      BY DEF ChoiceIsAnnounced, Published
  <2>2. \/ SomeIs(<<>>, Node("data"), self.choice)
        \/ LastIs(<<>>, Node("metadata"), server.metadata, self.choice)
      BY <1>1, <2>1 DEF AvatarInvariant, ChoiceOnItsWay
  <2>3. QED
      BY <2>2, EmptyQueue
<1>2. QED
    BY <1>1, AvatarsFollow, PTL

\* When nothing failed and all has arrived, the viewer has the picture announced by PEP
\* and, unless a photo was ever taken off, the photo of the server's vcard.
THEOREM AnnouncedIsShownHolds == Spec => []AnnouncedIsShown
<1>1. ASSUME AvatarInvariant PROVE AnnouncedIsShown
  <2>1. SUFFICES ASSUME up = <<>>, acks = <<>>, asks = <<>>, wire = <<>>, ~failed
                 PROVE  pep.image = server.metadata /\ (~removed => vcard.image = server.vcard)
      BY DEF AnnouncedIsShown, Settled, Published
  <2>2. pep.hash = server.metadata
      BY <1>1, <2>1, EmptyQueue DEF AvatarInvariant, HashFollows
  <2>3. pep.hash # None => pep.image = pep.hash
      BY <1>1, <2>1, EmptyQueue DEF AvatarInvariant, PictureFollows
  <2>4. pep.image \in {None, pep.hash}
      BY <1>1 DEF AvatarInvariant, Viewed
  <2>5. ~removed => vcard.image = server.vcard
    <3>1. Calm
        BY <2>1, EmptyQueue DEF Calm
    <3>2. AllIn(wire, News("presence"), {vcard.hash})
        BY <2>1, EmptyQueue
    <3>3. ~Has(asks, Ask("avatar")) /\ ~Has(wire, Answer("avatar"))
        BY <2>1, EmptyQueue
    <3>4. QED
        BY <1>1, <2>1, <3>1, <3>2, <3>3 DEF AvatarInvariant, PhotoFollows
  <2>6. QED
      BY <2>2, <2>3, <2>4, <2>5
<1>2. QED
    BY <1>1, AvatarsFollow, PTL
=============================================================================
