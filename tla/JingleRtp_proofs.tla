--------------------------- MODULE JingleRtp_proofs ---------------------------
(***************************************************************************)
(* Proofs about JingleRtp, for whatever the two clients can offer and       *)
(* answer and any number of lost connections: a caller is told of a call    *)
(* only when the callee has it too, an answered call is timed, and no       *)
(* candidate for its audio is lost.                                         *)
(*                                                                         *)
(* The state is two sessions and two queues between them.  What holds of    *)
(* one session is a predicate on records (CallerSound, CalleeSound), kept   *)
(* by the session's own handlers; what holds between the two (Linked,       *)
(* Arriving) says how far one can be, and what can be under way, when the   *)
(* other has come so far.                                                   *)
(***************************************************************************)
EXTENDS JingleRtp, SequenceTheorems, TLAPS

Session ==
    [dlg : {"none", "ringing", "calling", "active", "ended", "dropped"},
     rtp : {"off", "starting", "started"},
     types : SUBSET Media, named : SUBSET Media, resolving : BOOLEAN, waiting : BOOLEAN,
     ice : SUBSET Media, started : SUBSET Media, ready : SUBSET (Media \X Component),
     gathered : SUBSET Media, locals : SUBSET Media, remotes : SUBSET Media,
     known : SUBSET Media, peer : SUBSET Media, added : SUBSET Media,
     prov : BOOLEAN, media : BOOLEAN, connected : BOOLEAN, accepted : BOOLEAN,
     activated : BOOLEAN, timer : BOOLEAN, posted : BOOLEAN, out : Seq(Stanza)]

\* What a callee says, and a caller.
ToCaller ==
         [kind : {"result", "error", "session-terminate", "transport-info"}, media : SUBSET Media]
    \cup [kind : {"session-accept"}, media : {{"audio"}}]
ToCallee ==
         [kind : {"session-terminate", "transport-info", "terminate-nothing"}, media : SUBSET Media]
    \cup [kind : {"session-initiate"}, media : {m \in SUBSET Media : "audio" \in m}]

--------------------------------------------------------------------------------
(* One session.                                                                *)

\* Idle, but for its window and what it says.
Rest(how, o) ==
    [dlg |-> how, rtp |-> "off", types |-> {}, named |-> {}, resolving |-> FALSE,
     waiting |-> FALSE, ice |-> {}, started |-> {}, ready |-> {}, gathered |-> {},
     locals |-> {}, remotes |-> {}, known |-> {}, peer |-> {}, added |-> {},
     prov |-> FALSE, media |-> FALSE, connected |-> FALSE, accepted |-> FALSE,
     activated |-> FALSE, timer |-> FALSE, posted |-> FALSE, out |-> o]

\* A session that is over, or has not begun, is forgotten.
Resting(s) == s.dlg \in {"none", "ended", "dropped"} => s = Rest(s.dlg, s.out)

\* A caller is named its media when it makes its offer: before, nothing is waited
\* for; after, all ICE has started and the answer is waited for or has come.
CallerSound(c) ==
    /\ Resting(c)
    /\ c.dlg \in {"none", "calling", "active", "ended"}
    /\ c.dlg \in {"calling", "active"} => c.rtp # "off" /\ "audio" \in c.types
    /\ c.rtp = "starting" \/ c.resolving => c.named = {} /\ c.ice = {}
    /\ c.rtp = "starting" => ~c.resolving
    /\ c.named = {} => ~c.waiting /\ ~c.prov /\ ~c.accepted /\ c.ice \in {{}, c.types}
    /\ c.named # {} =>
         /\ "audio" \in c.named /\ c.waiting = ~c.prov
         /\ c.ice \subseteq c.started /\ (c.dlg = "calling" => "audio" \in c.ice)
    /\ c.dlg = "active" => c.activated
    /\ c.activated => c.accepted
    /\ c.accepted => c.types = {"audio"}
    /\ c.timer = (c.accepted /\ ~c.activated)

\* A callee hears of audio only, and so is connected only when it chose audio
\* only.  It has answered the offer when all its ICE has started, and has
\* accepted when it is connected, at which it is active.
CalleeSound(d) ==
    /\ Resting(d)
    /\ ~d.waiting /\ ~d.posted
    /\ d.known \subseteq {"audio"} /\ d.peer \subseteq {"audio"}
    /\ d.ready \subseteq {"audio"} \X Component
    /\ d.dlg \in {"ringing", "calling", "active"} => "audio" \in d.types /\ d.named = {"audio"}
    /\ d.dlg = "ringing" =>
         /\ d.rtp = "off" /\ d.started = {} /\ d.ice = {} /\ d.ready = {}
         /\ ~d.prov /\ ~d.accepted /\ ~d.activated /\ ~d.connected
    /\ d.rtp = "starting" \/ d.resolving => d.dlg = "calling"
    /\ d.media => d.rtp = "started"
    /\ d.resolving => d.ice = {} /\ d.started = {} /\ ~d.connected
    /\ d.dlg = "calling" =>
         /\ ~d.accepted /\ ~d.activated /\ d.ice \in {{}, d.types}
         /\ d.prov = (d.types \subseteq d.started) /\ (d.prov => d.ice = d.types)
    /\ d.dlg = "active" => d.accepted /\ d.activated /\ d.connected /\ d.ice = {}
    /\ d.connected => d.types = {"audio"}
    /\ d.gathered \subseteq d.started
    /\ d.timer = (d.prov /\ ~d.activated)

--------------------------------------------------------------------------------
(* The two sessions, with what is under way to the caller (nc) and callee (nd).*)

Has(q, kind)  == \E i \in 1 .. Len(q) : q[i].kind = kind
HasAudio(q)   == \E i \in 1 .. Len(q) : q[i].kind = "transport-info" /\ "audio" \in q[i].media
Once(q, kind) == \A i, j \in 1 .. Len(q) : q[i].kind = kind /\ q[j].kind = kind => i = j

\* The answer to the offer comes before any candidates.
ResultFirst(q) ==
    \A i \in 1 .. Len(q) : q[i].kind = "transport-info" => \E j \in 1 .. i : q[j].kind = "result"

\* The callee hears of an offer that was made; it is answered, and candidates
\* follow, when it was heard of; it is accepted once, by an active callee.
Offered(c, d, nd) ==
    d.dlg # "none" \/ Has(nd, "session-initiate") => c.dlg = "ended" \/ c.named # {}
Heard(c, d, nc, nd) ==
    c.prov \/ Has(nc, "result") \/ Has(nd, "transport-info") => d.dlg # "none"
AcceptedOnce(c, d, nc) ==
    /\ c.accepted \/ Has(nc, "session-accept") => d.dlg \in {"active", "ended"}
    /\ Has(nc, "session-accept") => ~c.accepted
    /\ Once(nc, "session-accept")

Linked(c, d, nc, nd) == Offered(c, d, nd) /\ Heard(c, d, nc, nd) /\ AcceptedOnce(c, d, nc)

\* While no connection is lost: a callee with candidates has sent its answer, and
\* the candidates of each side are kept, under way, kept by the other, or used.
Answered(c, d, nc) ==
    c.dlg \in {"none", "calling"} /\ ~c.prov => ResultFirst(nc) /\ (d.prov => Has(nc, "result"))
FromCaller(c, d, nd) ==
    "audio" \in c.gathered /\ d.dlg \in {"none", "ringing", "calling"} =>
        \/ "audio" \in c.locals /\ ~c.prov
        \/ "audio" \in d.added
        \/ "audio" \in d.remotes /\ ~d.prov
        \/ HasAudio(nd)
FromCallee(c, d, nc) ==
    "audio" \in d.gathered /\ d.types = {"audio"} /\ c.dlg \in {"none", "calling"} =>
        "audio" \in c.added \/ HasAudio(nc)

Arriving(c, d, nc, nd) == Answered(c, d, nc) /\ FromCaller(c, d, nd) /\ FromCallee(c, d, nc)

CallSound ==
    /\ side \in [Side -> Session] /\ net \in [Side -> Seq(Stanza)] /\ losses \in 0 .. MaxLosses
    /\ net["caller"] \in Seq(ToCaller) /\ net["callee"] \in Seq(ToCallee)
    /\ side["caller"].out = <<>> /\ side["callee"].out = <<>>
    /\ CallerSound(side["caller"]) /\ CalleeSound(side["callee"])
    /\ Linked(side["caller"], side["callee"], net["caller"], net["callee"])
    /\ losses = 0 => Arriving(side["caller"], side["callee"], net["caller"], net["callee"])

--------------------------------------------------------------------------------
(* Queues.                                                                     *)

LEMMA StanzaKinds == ToCaller \subseteq Stanza /\ ToCallee \subseteq Stanza
<1>1. {"audio"} \in SUBSET Media
    BY DEF Media
<1>2. QED
    BY <1>1 DEF ToCaller, ToCallee, Stanza

LEMMA Joined ==
    ASSUME NEW S, NEW s \in Seq(S), NEW t \in Seq(S)
    PROVE  /\ s \o t \in Seq(S) /\ Len(s \o t) = Len(s) + Len(t)
           /\ Len(s) \in Nat /\ Len(t) \in Nat
           /\ \A i \in 1 .. Len(s) : (s \o t)[i] = s[i]
           /\ \A i \in 1 .. Len(t) : (s \o t)[Len(s) + i] = t[i]
    BY ConcatProperties, LenProperties

\* What is in a queue to which t is added.
LEMMA JoinedHas ==
    ASSUME NEW S, NEW s \in Seq(S), NEW t \in Seq(S), NEW k
    PROVE  /\ Has(s \o t, k) <=> Has(s, k) \/ Has(t, k)
           /\ HasAudio(s \o t) <=> HasAudio(s) \/ HasAudio(t)
           /\ Once(s, k) /\ ~Has(t, k) => Once(s \o t, k)
           /\ ~Has(s, k) /\ Once(t, k) => Once(s \o t, k)
           /\ ResultFirst(s) /\ (Has(t, "transport-info") => Has(s, "result")) => ResultFirst(s \o t)
<1> DEFINE q == s \o t
<1>1. /\ Len(q) = Len(s) + Len(t) /\ Len(s) \in Nat /\ Len(t) \in Nat
      /\ \A i \in 1 .. Len(s) : q[i] = s[i]
      /\ \A i \in 1 .. Len(t) : q[Len(s) + i] = t[i]
    BY Joined
<1> HIDE DEF q
<1>2. \A i \in 1 .. Len(q) : \/ i \in 1 .. Len(s) /\ q[i] = s[i]
                             \/ i - Len(s) \in 1 .. Len(t) /\ q[i] = t[i - Len(s)]
    BY <1>1
<1>3. /\ \A i \in 1 .. Len(s) : i \in 1 .. Len(q)
      /\ \A i \in 1 .. Len(t) : Len(s) + i \in 1 .. Len(q)
    BY <1>1
<1>4. Has(q, k) <=> Has(s, k) \/ Has(t, k)
  <2>1. Has(q, k) => Has(s, k) \/ Has(t, k)
      BY <1>2 DEF Has
  <2>2. (Has(s, k) => Has(q, k)) /\ (Has(t, k) => Has(q, k))
      BY <1>1, <1>3 DEF Has
  <2>3. QED
      BY <2>1, <2>2
<1>5. HasAudio(q) <=> HasAudio(s) \/ HasAudio(t)
  <2>1. HasAudio(q) => HasAudio(s) \/ HasAudio(t)
      BY <1>2 DEF HasAudio
  <2>2. (HasAudio(s) => HasAudio(q)) /\ (HasAudio(t) => HasAudio(q))
      BY <1>1, <1>3 DEF HasAudio
  <2>3. QED
      BY <2>1, <2>2
<1>6. /\ Once(s, k) /\ ~Has(t, k) => Once(q, k)
      /\ ~Has(s, k) /\ Once(t, k) => Once(q, k)
  <2>1. ASSUME Once(s, k), ~Has(t, k) PROVE Once(q, k)
    <3>1. \A i \in 1 .. Len(q) : q[i].kind = k => i \in 1 .. Len(s) /\ q[i] = s[i]
        BY <1>2, <2>1 DEF Has
    <3>2. QED
        BY <2>1, <3>1 DEF Once
  <2>2. ASSUME ~Has(s, k), Once(t, k) PROVE Once(q, k)
    <3>1. \A i \in 1 .. Len(q) : q[i].kind = k =>
              i - Len(s) \in 1 .. Len(t) /\ q[i] = t[i - Len(s)]
        BY <1>2, <2>2 DEF Has
    <3>2. \A i, j \in 1 .. Len(q) : q[i].kind = k /\ q[j].kind = k => i - Len(s) = j - Len(s)
        BY <2>2, <3>1 DEF Once
    <3>3. QED
        BY <1>1, <3>2 DEF Once
  <2>3. QED
      BY <2>1, <2>2
<1>7. ASSUME ResultFirst(s), Has(t, "transport-info") => Has(s, "result")
      PROVE  ResultFirst(q)
  <2> SUFFICES ASSUME NEW i \in 1 .. Len(q), q[i].kind = "transport-info"
               PROVE  \E j \in 1 .. i : q[j].kind = "result"
      BY DEF ResultFirst
  <2>1. CASE i \in 1 .. Len(s) /\ q[i] = s[i]
    <3>1. PICK j \in 1 .. i : s[j].kind = "result"
        BY <1>7, <2>1 DEF ResultFirst
    <3>2. j \in 1 .. Len(s)
        BY <1>1, <2>1
    <3>3. QED
        BY <1>1, <3>1, <3>2
  <2>2. CASE i - Len(s) \in 1 .. Len(t) /\ q[i] = t[i - Len(s)]
    <3>1. PICK j \in 1 .. Len(s) : s[j].kind = "result"
        BY <1>7, <2>2 DEF Has
    <3>2. j \in 1 .. i
        BY <1>1, <2>2
    <3>3. QED
        BY <1>1, <3>1, <3>2
  <2>3. QED
      BY <1>2, <2>1, <2>2
<1>8. QED
    BY <1>4, <1>5, <1>6, <1>7 DEF q

\* What is in a queue whose head is taken.
LEMMA TakenHas ==
    ASSUME NEW S, NEW s \in Seq(S), s # <<>>, NEW k
    PROVE  /\ Has(s, k) <=> Head(s).kind = k \/ Has(Tail(s), k)
           /\ HasAudio(s) <=> \/ Head(s).kind = "transport-info" /\ "audio" \in Head(s).media
                              \/ HasAudio(Tail(s))
           /\ Once(s, k) => Once(Tail(s), k)
           /\ Once(s, k) /\ Head(s).kind = k => ~Has(Tail(s), k)
           /\ ResultFirst(s) /\ Head(s).kind # "result" =>
                  Head(s).kind # "transport-info" /\ ResultFirst(Tail(s))
<1> DEFINE t == Tail(s)
           x == Head(s)
<1>1. /\ Len(s) = Len(t) + 1 /\ Len(t) \in Nat /\ x = s[1]
      /\ \A i \in 1 .. Len(t) : t[i] = s[i + 1]
    BY HeadTailProperties, LenProperties
<1> HIDE DEF t, x
<1>2. /\ 1 \in 1 .. Len(s)
      /\ \A i \in 1 .. Len(t) : i + 1 \in 1 .. Len(s) /\ i + 1 # 1
      /\ \A i \in 1 .. Len(s) : i = 1 \/ (i - 1 \in 1 .. Len(t) /\ s[i] = t[i - 1])
    BY <1>1
<1>3. Has(s, k) <=> x.kind = k \/ Has(t, k)
    BY <1>1, <1>2 DEF Has
<1>4. HasAudio(s) <=> (x.kind = "transport-info" /\ "audio" \in x.media) \/ HasAudio(t)
    BY <1>1, <1>2 DEF HasAudio
<1>5. Once(s, k) => Once(t, k) /\ (x.kind = k => ~Has(t, k))
    BY <1>1, <1>2 DEF Has, Once
<1>6. ASSUME ResultFirst(s), x.kind # "result"
      PROVE  x.kind # "transport-info" /\ ResultFirst(t)
  <2>1. x.kind # "transport-info"
    <3>1. 1 \in 1 .. Len(s) /\ \A j \in 1 .. 1 : j = 1
        BY <1>1
    <3>2. QED
        BY <1>1, <1>6, <3>1 DEF ResultFirst
  <2>2. ASSUME NEW i \in 1 .. Len(t), t[i].kind = "transport-info"
        PROVE  \E j \in 1 .. i : t[j].kind = "result"
    <3>1. i + 1 \in 1 .. Len(s) /\ s[i + 1].kind = "transport-info"
        BY <1>1, <2>2
    <3>2. PICK j \in 1 .. i + 1 : s[j].kind = "result"
        BY <1>6, <3>1 DEF ResultFirst
    <3>3. j # 1
        BY <1>1, <1>6, <3>2
    <3>4. j - 1 \in 1 .. i /\ t[j - 1] = s[j]
        BY <1>1, <3>2, <3>3
    <3>5. QED
        BY <3>2, <3>4
  <2>3. QED
      BY <2>1, <2>2 DEF ResultFirst
<1>7. QED
    BY <1>3, <1>4, <1>5, <1>6 DEF t, x

\* What is in a queue that is cut off.
LEMMA CutHas ==
    ASSUME NEW S, NEW s \in Seq(S), NEW n \in 0 .. Len(s), NEW k
    PROVE  /\ SubSeq(s, 1, n) \in Seq(S)
           /\ Has(SubSeq(s, 1, n), k) => Has(s, k)
           /\ Once(s, k) => Once(SubSeq(s, 1, n), k)
<1> DEFINE t == SubSeq(s, 1, n)
<1>1. Len(s) \in Nat /\ \A i \in 1 .. n : s[i] \in S
    BY ElementOfSeq, LenProperties
<1>2. t \in Seq(S) /\ Len(t) = n /\ \A i \in 1 .. n : t[i] = s[i]
    BY <1>1, SubSeqProperties
<1> HIDE DEF t
<1>3. (Has(t, k) => Has(s, k)) /\ (Once(s, k) => Once(t, k))
    BY <1>1, <1>2 DEF Has, Once
<1>4. QED
    BY <1>2, <1>3 DEF t

\* Queues of no stanza and of one.
LEMMA NoneHas ==
    /\ \A S : <<>> \in Seq(S)
    /\ \A k : ~Has(<<>>, k) /\ Once(<<>>, k)
    /\ ~HasAudio(<<>>) /\ ResultFirst(<<>>)
    BY DEF Has, HasAudio, Once, ResultFirst

LEMMA OneHas ==
    ASSUME NEW k, NEW m
    PROVE  /\ Has(<<m>>, k) <=> m.kind = k
           /\ HasAudio(<<m>>) <=> m.kind = "transport-info" /\ "audio" \in m.media
           /\ Once(<<m>>, k)
    BY DEF Has, HasAudio, Once

--------------------------------------------------------------------------------
(* Steps of one side, on the other's view.                                     *)

\* The caller goes from c to s, having read m (or nothing).
CallerMoves(c, s, m) ==
    /\ s \in Session /\ s.out \in Seq(ToCallee) /\ CallerSound(s)
    /\ c.dlg = "ended" \/ c.named # {} \/ Has(s.out, "session-initiate") =>
           s.dlg = "ended" \/ s.named # {}
    /\ s.prov \/ Has(s.out, "transport-info") => c.prov \/ m.kind = "result"
    /\ s.accepted => c.accepted \/ m.kind = "session-accept"
    /\ s.dlg \in {"none", "calling"} =>
         /\ c.dlg \in {"none", "calling"}
         /\ c.prov \/ m.kind = "result" => s.prov
         /\ "audio" \in c.added => "audio" \in s.added
         /\ c.prov /\ m.kind = "transport-info" /\ "audio" \in m.media => "audio" \in s.added
    /\ "audio" \in s.gathered =>
         \/ "audio" \in c.gathered /\ ("audio" \in c.locals => c.prov)
         \/ "audio" \in s.locals /\ ~s.prov
         \/ HasAudio(s.out)

\* The callee goes from d to s, having read m (or nothing).
CalleeMoves(d, s, m) ==
    /\ s \in Session /\ s.out \in Seq(ToCaller) /\ CalleeSound(s)
    /\ s.dlg # "none" <=> d.dlg # "none" \/ m.kind = "session-initiate"
    /\ Has(s.out, "result") => s.dlg # "none"
    /\ d.dlg \in {"active", "ended"} => s.dlg \in {"active", "ended"}
    /\ Has(s.out, "session-accept") => d.dlg \notin {"active", "ended"} /\ s.dlg = "active"
    /\ Once(s.out, "session-accept")
    /\ Has(s.out, "transport-info") => d.prov
    /\ s.prov => d.prov \/ Has(s.out, "result")
    /\ s.dlg \in {"none", "ringing", "calling"} =>
         /\ d.dlg \in {"none", "ringing", "calling"}
         /\ \/ "audio" \in d.added \/ ("audio" \in d.remotes /\ ~d.prov)
            \/ d.dlg # "none" /\ m.kind = "transport-info" /\ "audio" \in m.media
            => "audio" \in s.added \/ ("audio" \in s.remotes /\ ~s.prov)
    /\ "audio" \in s.gathered /\ s.types = {"audio"} =>
         ("audio" \in d.gathered /\ d.types = {"audio"}) \/ HasAudio(s.out)

\* What is read.
Reads(q, read, m, t) ==
    \/ read = 0 /\ m.kind = "nothing" /\ t = q
    \/ read = 1 /\ q # <<>> /\ m = Head(q) /\ t = Tail(q)

LEMMA ReadHas ==
    ASSUME NEW S, NEW q \in Seq(S), NEW read, NEW m, NEW t, Reads(q, read, m, t)
    PROVE  /\ t \in Seq(S) /\ t = SubSeq(q, read + 1, Len(q))
           /\ \A k \in {"session-initiate", "result", "transport-info", "session-accept"} :
                /\ Has(q, k) <=> m.kind = k \/ Has(t, k)
                /\ Once(q, k) => Once(t, k)
                /\ Once(q, k) /\ m.kind = k => ~Has(t, k)
           /\ HasAudio(q) <=> \/ m.kind = "transport-info" /\ "audio" \in m.media
                              \/ HasAudio(t)
           /\ ResultFirst(q) /\ m.kind # "result" => m.kind # "transport-info" /\ ResultFirst(t)
<1>1. CASE read = 0 /\ m.kind = "nothing" /\ t = q
    BY <1>1, SubSeqFull
<1>2. CASE read = 1 /\ q # <<>> /\ m = Head(q) /\ t = Tail(q)
  <2>1. t \in Seq(S) /\ t = SubSeq(q, read + 1, Len(q))
      BY <1>2, HeadTailProperties, TailIsSubSeq
  <2>2. QED
      BY <1>2, <2>1, TakenHas
<1>3. QED
    BY <1>1, <1>2 DEF Reads

\* What is sent leaves the session as it is otherwise.
LEMMA Emptied ==
    ASSUME NEW s \in Session
    PROVE  LET r == [s EXCEPT !.out = <<>>]
           IN  /\ r \in Session /\ r.out = <<>>
               /\ CallerSound(s) => CallerSound(r)
               /\ CalleeSound(s) => CalleeSound(r)
               /\ r.dlg = s.dlg /\ r.named = s.named /\ r.prov = s.prov /\ r.accepted = s.accepted
               /\ r.gathered = s.gathered /\ r.locals = s.locals /\ r.added = s.added
               /\ r.remotes = s.remotes /\ r.types = s.types
<1> DEFINE r == [s EXCEPT !.out = <<>>]
<1>1. r \in Session
  <2>1. <<>> \in Seq(Stanza)
      OBVIOUS
  <2>2. QED
      BY <2>1 DEF Session
<1>2. /\ r.out = <<>> /\ r.dlg = s.dlg /\ r.rtp = s.rtp /\ r.types = s.types /\ r.named = s.named
      /\ r.resolving = s.resolving /\ r.waiting = s.waiting /\ r.ice = s.ice
      /\ r.started = s.started /\ r.ready = s.ready /\ r.gathered = s.gathered
      /\ r.locals = s.locals /\ r.remotes = s.remotes /\ r.known = s.known /\ r.peer = s.peer
      /\ r.added = s.added /\ r.prov = s.prov /\ r.media = s.media /\ r.connected = s.connected
      /\ r.accepted = s.accepted /\ r.activated = s.activated /\ r.timer = s.timer
      /\ r.posted = s.posted
    BY DEF Session
<1>3. Resting(s) => Resting(r)
  <2>1. ASSUME NEW how, NEW o, NEW n, NEW t, s = Rest(how, o), t = [s EXCEPT !.out = n]
        PROVE  t = Rest(how, n)
      BY <2>1 DEF Rest
  <2>2. QED
      BY <1>2, <2>1 DEF Resting
<1> HIDE DEF r
<1>4. CallerSound(s) => CallerSound(r)
    BY <1>2, <1>3 DEF CallerSound
<1>5. CalleeSound(s) => CalleeSound(r)
    BY <1>2, <1>3 DEF CalleeSound
<1>6. QED
    BY <1>1, <1>2, <1>4, <1>5 DEF r

LEMMA CallerStep ==
    ASSUME CallSound, NEW s, NEW m, NEW read, NEW t,
           Reads(net["caller"], read, m, t), CallerMoves(side["caller"], s, m),
           Step("caller", s, read)
    PROVE  CallSound'
<1> DEFINE c == side["caller"]
           d == side["callee"]
           nc == net["caller"]
           nd == net["callee"]
           r == [s EXCEPT !.out = <<>>]
<1>1. /\ side \in [Side -> Session] /\ net \in [Side -> Seq(Stanza)] /\ losses \in 0 .. MaxLosses
      /\ nc \in Seq(ToCaller) /\ nd \in Seq(ToCallee) /\ d.out = <<>>
      /\ CalleeSound(d) /\ Linked(c, d, nc, nd) /\ (losses = 0 => Arriving(c, d, nc, nd))
    BY DEF CallSound
<1>2. /\ s \in Session /\ s.out \in Seq(ToCallee) /\ CallerSound(s)
    BY DEF CallerMoves
<1>3. t \in Seq(ToCaller) /\ t = SubSeq(nc, read + 1, Len(nc))
    BY <1>1, ReadHas
<1>4. nd \o s.out \in Seq(ToCallee)
    BY <1>1, <1>2, ConcatProperties
<1>5. /\ "caller" \in Side /\ "callee" \in Side /\ Side = {"caller", "callee"}
      /\ Other("caller") = "callee" /\ "callee" # "caller"
    BY DEF Side, Other
<1>6. /\ side' = [side EXCEPT !["caller"] = r]
      /\ net' = [net EXCEPT !["caller"] = SubSeq(nc, read + 1, Len(nc)), !["callee"] = nd \o s.out]
      /\ losses' = losses
    BY <1>1, <1>5 DEF Step
<1>7. side'["caller"] = r /\ side'["callee"] = d
    BY <1>1, <1>5, <1>6
<1>8. net'["caller"] = t /\ net'["callee"] = nd \o s.out
    BY <1>1, <1>3, <1>5, <1>6
<1>9. /\ r \in Session /\ r.out = <<>> /\ CallerSound(r)
      /\ r.dlg = s.dlg /\ r.named = s.named /\ r.prov = s.prov /\ r.accepted = s.accepted
      /\ r.gathered = s.gathered /\ r.locals = s.locals /\ r.added = s.added
    BY <1>2, Emptied
<1>10. side' \in [Side -> Session]
    BY <1>1, <1>6, <1>9
<1>11. net' \in [Side -> Seq(Stanza)]
  <2>1. t \in Seq(Stanza) /\ nd \o s.out \in Seq(Stanza)
      BY <1>3, <1>4, StanzaKinds
  <2>2. QED
      BY <1>1, <1>3, <1>6, <2>1
<1> HIDE DEF c, d, nc, nd, r
<1>12. CallerMoves(c, s, m) /\ Reads(nc, read, m, t)
    BY DEF c, nc
<1> DEFINE ne == nd \o s.out
<1>13. \A k : Has(ne, k) <=> Has(nd, k) \/ Has(s.out, k)
    BY <1>1, <1>2, JoinedHas
<1>14. HasAudio(ne) <=> HasAudio(nd) \/ HasAudio(s.out)
    BY <1>1, <1>2, JoinedHas
<1>15. /\ \A k \in {"session-initiate", "result", "transport-info", "session-accept"} :
                /\ Has(nc, k) <=> m.kind = k \/ Has(t, k)
                /\ Once(nc, k) => Once(t, k)
                /\ Once(nc, k) /\ m.kind = k => ~Has(t, k)
       /\ HasAudio(nc) <=> \/ m.kind = "transport-info" /\ "audio" \in m.media
                           \/ HasAudio(t)
       /\ ResultFirst(nc) /\ m.kind # "result" => m.kind # "transport-info" /\ ResultFirst(t)
    BY <1>1, <1>12, ReadHas
<1> HIDE DEF ne
<1>16. Offered(r, d, ne)
    BY <1>1, <1>9, <1>12, <1>13 DEF Linked, Offered, CallerMoves
<1>17. Heard(r, d, t, ne)
    BY <1>1, <1>9, <1>12, <1>13, <1>15 DEF Linked, Heard, CallerMoves
<1>18. AcceptedOnce(r, d, t)
    BY <1>1, <1>9, <1>12, <1>15 DEF Linked, AcceptedOnce, CallerMoves
<1>19. ASSUME losses = 0 PROVE Arriving(r, d, t, ne)
  <2>1. Arriving(c, d, nc, nd)
      BY <1>1, <1>19
  <2>2. Answered(r, d, t)
      BY <1>9, <1>12, <1>15, <2>1 DEF Arriving, Answered, CallerMoves
  <2>3. FromCaller(r, d, ne)
      BY <1>9, <1>12, <1>14, <2>1 DEF Arriving, FromCaller, CallerMoves
  <2>4. FromCallee(r, d, t)
      BY <1>9, <1>12, <1>15, <2>1 DEF Arriving, FromCallee, Answered, CallerMoves
  <2>5. QED
      BY <2>2, <2>3, <2>4 DEF Arriving
<1>20. QED
    BY <1>1, <1>3, <1>4, <1>6, <1>7, <1>8, <1>9, <1>10, <1>11, <1>16, <1>17, <1>18, <1>19
    DEF CallSound, Linked, ne

LEMMA CalleeStep ==
    ASSUME CallSound, NEW s, NEW m, NEW read, NEW t,
           Reads(net["callee"], read, m, t), CalleeMoves(side["callee"], s, m),
           Step("callee", s, read)
    PROVE  CallSound'
<1> DEFINE c == side["caller"]
           d == side["callee"]
           nc == net["caller"]
           nd == net["callee"]
           r == [s EXCEPT !.out = <<>>]
<1>1. /\ side \in [Side -> Session] /\ net \in [Side -> Seq(Stanza)] /\ losses \in 0 .. MaxLosses
      /\ nc \in Seq(ToCaller) /\ nd \in Seq(ToCallee) /\ c.out = <<>>
      /\ CallerSound(c) /\ Linked(c, d, nc, nd) /\ (losses = 0 => Arriving(c, d, nc, nd))
    BY DEF CallSound
<1>2. /\ s \in Session /\ s.out \in Seq(ToCaller) /\ CalleeSound(s)
    BY DEF CalleeMoves
<1>3. t \in Seq(ToCallee) /\ t = SubSeq(nd, read + 1, Len(nd))
    BY <1>1, ReadHas
<1>4. nc \o s.out \in Seq(ToCaller)
    BY <1>1, <1>2, ConcatProperties
<1>5. /\ "caller" \in Side /\ "callee" \in Side /\ Side = {"caller", "callee"}
      /\ Other("callee") = "caller" /\ "callee" # "caller"
    BY DEF Side, Other
<1>6. /\ side' = [side EXCEPT !["callee"] = r]
      /\ net' = [net EXCEPT !["callee"] = SubSeq(nd, read + 1, Len(nd)), !["caller"] = nc \o s.out]
      /\ losses' = losses
    BY <1>1, <1>5 DEF Step
<1>7. side'["caller"] = c /\ side'["callee"] = r
    BY <1>1, <1>5, <1>6
<1>8. net'["callee"] = t /\ net'["caller"] = nc \o s.out
    BY <1>1, <1>3, <1>5, <1>6
<1>9. /\ r \in Session /\ r.out = <<>> /\ CalleeSound(r)
      /\ r.dlg = s.dlg /\ r.prov = s.prov /\ r.types = s.types
      /\ r.gathered = s.gathered /\ r.remotes = s.remotes /\ r.added = s.added
    BY <1>2, Emptied
<1>10. side' \in [Side -> Session]
    BY <1>1, <1>6, <1>9
<1>11. net' \in [Side -> Seq(Stanza)]
  <2>1. t \in Seq(Stanza) /\ nc \o s.out \in Seq(Stanza)
      BY <1>3, <1>4, StanzaKinds
  <2>2. QED
      BY <1>1, <1>3, <1>6, <2>1
<1> HIDE DEF c, d, nc, nd, r
<1>12. CalleeMoves(d, s, m) /\ Reads(nd, read, m, t)
    BY DEF d, nd
<1> DEFINE ne == nc \o s.out
<1>13. \A k : /\ Has(ne, k) <=> Has(nc, k) \/ Has(s.out, k)
              /\ Once(nc, k) /\ ~Has(s.out, k) => Once(ne, k)
              /\ ~Has(nc, k) /\ Once(s.out, k) => Once(ne, k)
    BY <1>1, <1>2, JoinedHas
<1>14. /\ HasAudio(ne) <=> HasAudio(nc) \/ HasAudio(s.out)
       /\ ResultFirst(nc) /\ (Has(s.out, "transport-info") => Has(nc, "result")) => ResultFirst(ne)
    BY <1>1, <1>2, JoinedHas
<1>15. /\ \A k \in {"session-initiate", "result", "transport-info", "session-accept"} :
                Has(nd, k) <=> m.kind = k \/ Has(t, k)
       /\ HasAudio(nd) <=> \/ m.kind = "transport-info" /\ "audio" \in m.media
                           \/ HasAudio(t)
    BY <1>1, <1>12, ReadHas
<1> HIDE DEF ne
<1>16. Offered(c, r, t)
    BY <1>1, <1>9, <1>12, <1>15 DEF Linked, Offered, CalleeMoves
<1>17. Heard(c, r, ne, t)
    BY <1>1, <1>9, <1>12, <1>13, <1>15 DEF Linked, Heard, CalleeMoves
<1>18. AcceptedOnce(c, r, ne)
    BY <1>1, <1>9, <1>12, <1>13 DEF Linked, AcceptedOnce, CalleeMoves
<1>19. ASSUME losses = 0 PROVE Arriving(c, r, ne, t)
  <2>1. Arriving(c, d, nc, nd) /\ Heard(c, d, nc, nd)
      BY <1>1, <1>19 DEF Linked
  <2>2. Answered(c, r, ne)
      BY <1>9, <1>12, <1>13, <1>14, <2>1 DEF Arriving, Answered, CalleeMoves
  <2>3. FromCaller(c, r, t)
      BY <1>9, <1>12, <1>15, <2>1 DEF Arriving, FromCaller, Heard, CalleeMoves
  <2>4. FromCallee(c, r, ne)
      BY <1>9, <1>12, <1>14, <2>1 DEF Arriving, FromCallee, CalleeMoves
  <2>5. QED
      BY <2>2, <2>3, <2>4 DEF Arriving
<1>20. QED
    BY <1>1, <1>3, <1>4, <1>6, <1>7, <1>8, <1>9, <1>10, <1>11, <1>16, <1>17, <1>18, <1>19
    DEF CallSound, Linked, ne

--------------------------------------------------------------------------------
(* Sessions that are over, and what is sent.                                   *)

LEMMA Said ==
    ASSUME NEW s \in Session, s.out = <<>>, NEW k, NEW m
    PROVE  Say(s, k, m) = [s EXCEPT !.out = <<[kind |-> k, media |-> m]>>]
<1>1. Append(s.out, [kind |-> k, media |-> m]) = <<[kind |-> k, media |-> m]>>
    OBVIOUS
<1>2. QED
    BY <1>1 DEF Say

LEMMA OverRests ==
    ASSUME NEW s, NEW how
    PROVE  Over(s, how) = Rest(how, s.out)
<1> DEFINE o == s.out
           r == [Idle EXCEPT !.dlg = how, !.out = o]
<1>1. Over(s, how) = r
    BY DEF Over
<1> HIDE DEF o
<1>2. ASSUME NEW t, t = r PROVE t = Rest(how, o)
    BY <1>2 DEF Idle, Rest
<1>3. QED
    BY <1>1, <1>2 DEF o

LEMMA RestSession ==
    ASSUME NEW how \in {"none", "ringing", "calling", "active", "ended", "dropped"},
           NEW o \in Seq(Stanza)
    PROVE  Rest(how, o) \in Session
    BY DEF Session, Rest

LEMMA RestFields ==
    ASSUME NEW how, NEW o
    PROVE  LET s == Rest(how, o)
           IN  /\ s.dlg = how /\ s.out = o /\ s.rtp = "off" /\ s.types = {} /\ s.named = {}
               /\ ~s.resolving /\ ~s.waiting /\ s.ice = {} /\ s.started = {} /\ s.ready = {}
               /\ s.gathered = {} /\ s.locals = {} /\ s.remotes = {} /\ s.known = {}
               /\ s.peer = {} /\ s.added = {} /\ ~s.prov /\ ~s.media /\ ~s.connected
               /\ ~s.accepted /\ ~s.activated /\ ~s.timer /\ ~s.posted
    BY DEF Rest

\* A session in which anything happens is not over.
LEMMA NotResting ==
    ASSUME NEW s \in Session, Resting(s),
           \/ s.rtp # "off" \/ s.resolving \/ s.ice # {} \/ s.timer \/ s.posted \/ s.waiting
    PROVE  s.dlg \in {"ringing", "calling", "active"}
<1>1. SUFFICES ASSUME s.dlg \in {"none", "ended", "dropped"} PROVE FALSE
    BY DEF Session
<1>2. s = Rest(s.dlg, s.out)
    BY <1>1 DEF Resting
<1>3. QED
    BY <1>2, RestFields

LEMMA CallerOver ==
    ASSUME NEW c, NEW m, NEW o \in Seq(ToCallee),
           ~Has(o, "session-initiate"), ~Has(o, "transport-info")
    PROVE  CallerMoves(c, Rest("ended", o), m)
<1> DEFINE s == Rest("ended", o)
<1>1. s \in Session
  <2>1. o \in Seq(Stanza)
      BY StanzaKinds
  <2>2. QED
      BY <2>1, RestSession
<1>2. /\ s.dlg = "ended" /\ s.out = o /\ s.rtp = "off" /\ s.named = {}
      /\ ~s.resolving /\ ~s.waiting /\ s.ice = {} /\ s.gathered = {}
      /\ ~s.prov /\ ~s.accepted /\ ~s.activated /\ ~s.timer
    BY RestFields
<1>3. Resting(s)
    BY <1>2 DEF Resting
<1> HIDE DEF s
<1>4. CallerSound(s)
    BY <1>1, <1>2, <1>3 DEF CallerSound, Session
<1>5. CallerMoves(c, s, m)
    BY <1>1, <1>2, <1>4 DEF CallerMoves
<1>6. QED
    BY <1>5 DEF s

LEMMA CalleeOver ==
    ASSUME NEW d, NEW m, NEW o \in Seq(ToCaller), NEW how \in {"ended", "dropped"},
           d.dlg # "none", d.dlg \in {"active", "ended"} => how = "ended",
           ~Has(o, "session-accept"), ~Has(o, "transport-info")
    PROVE  CalleeMoves(d, Rest(how, o), m)
<1> DEFINE s == Rest(how, o)
<1>1. s \in Session
  <2>1. o \in Seq(Stanza)
      BY StanzaKinds
  <2>2. QED
      BY <2>1, RestSession
<1>2. /\ s.dlg = how /\ s.out = o /\ s.rtp = "off" /\ s.types = {} /\ s.named = {}
      /\ ~s.resolving /\ ~s.waiting /\ s.ice = {} /\ s.started = {} /\ s.ready = {}
      /\ s.gathered = {} /\ s.known = {} /\ s.peer = {} /\ ~s.prov /\ ~s.connected
      /\ ~s.media /\ ~s.accepted /\ ~s.activated /\ ~s.timer /\ ~s.posted
    BY RestFields
<1>3. Resting(s)
    BY <1>2 DEF Resting
<1> HIDE DEF s
<1>4. CalleeSound(s)
    BY <1>1, <1>2, <1>3 DEF CalleeSound, Session
<1>5. Once(o, "session-accept")
    BY DEF Has, Once
<1>6. CalleeMoves(d, s, m)
    BY <1>1, <1>2, <1>4, <1>5 DEF CalleeMoves
<1>7. QED
    BY <1>6 DEF s

--------------------------------------------------------------------------------
(* The caller.                                                                 *)

LEMMA CallerRtpStarted ==
    ASSUME NEW c \in Session, CallerSound(c), c.out = <<>>, c.rtp = "starting",
           NEW m, m.kind = "nothing"
    PROVE  CallerMoves(c, [c EXCEPT !.rtp = "started", !.media = TRUE, !.resolving = TRUE], m)
<1> DEFINE s == [c EXCEPT !.rtp = "started", !.media = TRUE, !.resolving = TRUE]
<1>1. c.dlg \in {"calling", "active"}
    BY NotResting DEF CallerSound
<1>2. s \in Session /\ s.out = <<>>
    BY DEF Session
<1>3. /\ s.dlg = c.dlg /\ s.rtp = "started" /\ s.types = c.types /\ s.named = c.named
      /\ s.resolving /\ s.waiting = c.waiting /\ s.ice = c.ice /\ s.started = c.started
      /\ s.gathered = c.gathered /\ s.locals = c.locals /\ s.added = c.added /\ s.prov = c.prov
      /\ s.accepted = c.accepted /\ s.activated = c.activated /\ s.timer = c.timer
    BY DEF Session
<1> HIDE DEF s
<1>4. CallerSound(s)
    BY <1>1, <1>3 DEF CallerSound, Resting
<1>5. CallerMoves(c, s, m)
    BY <1>1, <1>2, <1>3, <1>4, NoneHas DEF CallerMoves
<1>6. QED
    BY <1>5 DEF s

\* Before a call there is nothing.
LEMMA CallerCalls ==
    ASSUME NEW c \in Session, CallerSound(c), c.out = <<>>, c.dlg = "none", NEW offer \in Offers,
           NEW m, m.kind = "nothing"
    PROVE  CallerMoves(c, [c EXCEPT !.dlg = "calling", !.rtp = "starting", !.types = offer], m)
<1> DEFINE s == [c EXCEPT !.dlg = "calling", !.rtp = "starting", !.types = offer]
<1>1. offer \in SUBSET Media /\ "audio" \in offer
    BY ConstantsAssumption
<1>2. s \in Session /\ s.out = <<>>
    BY <1>1 DEF Session
<1>3. /\ s.dlg = "calling" /\ s.rtp = "starting" /\ s.types = offer /\ s.named = c.named
      /\ s.resolving = c.resolving /\ s.waiting = c.waiting /\ s.ice = c.ice
      /\ s.started = c.started /\ s.gathered = c.gathered /\ s.locals = c.locals
      /\ s.added = c.added /\ s.prov = c.prov /\ s.accepted = c.accepted
      /\ s.activated = c.activated /\ s.timer = c.timer
    BY DEF Session
<1>4. c = Rest("none", <<>>)
    BY DEF CallerSound, Resting
<1>5. /\ c.named = {} /\ ~c.resolving /\ ~c.waiting /\ c.ice = {} /\ c.gathered = {}
      /\ c.added = {} /\ ~c.prov /\ ~c.accepted /\ ~c.activated /\ ~c.timer
    BY <1>4, RestFields
<1> HIDE DEF s
<1>6. CallerSound(s)
    BY <1>1, <1>3, <1>5 DEF CallerSound, Resting
<1>7. CallerMoves(c, s, m)
    BY <1>2, <1>3, <1>5, <1>6, NoneHas DEF CallerMoves
<1>8. QED
    BY <1>7 DEF s

\* ICE is made for all media.
LEMMA CallerResolves ==
    ASSUME NEW c \in Session, CallerSound(c), c.out = <<>>, c.resolving,
           NEW m, m.kind = "nothing"
    PROVE  CallerMoves(c, [c EXCEPT !.resolving = FALSE, !.ice = c.types], m)
<1> DEFINE s == [c EXCEPT !.resolving = FALSE, !.ice = c.types]
<1>1. c.dlg \in {"calling", "active"}
    BY NotResting DEF CallerSound
<1>2. s \in Session /\ s.out = <<>>
    BY DEF Session
<1>3. /\ s.dlg = c.dlg /\ s.rtp = c.rtp /\ s.types = c.types /\ s.named = c.named
      /\ s.resolving = FALSE /\ s.waiting = c.waiting /\ s.ice = c.types
      /\ s.started = c.started /\ s.gathered = c.gathered /\ s.locals = c.locals
      /\ s.added = c.added /\ s.prov = c.prov /\ s.accepted = c.accepted
      /\ s.activated = c.activated /\ s.timer = c.timer
    BY DEF Session
<1> HIDE DEF s
<1>4. CallerSound(s)
    BY <1>1, <1>3 DEF CallerSound, Resting
<1>5. CallerMoves(c, s, m)
    BY <1>1, <1>2, <1>3, <1>4, NoneHas DEF CallerMoves
<1>6. QED
    BY <1>5 DEF s

\* When the last ICE has started the offer is made.
LEMMA CallerIceStarted ==
    ASSUME NEW c \in Session, CallerSound(c), c.out = <<>>, NEW i \in c.ice \ c.started,
           NEW m, m.kind = "nothing",
           NEW a, a = [c EXCEPT !.started = @ \cup {i}]
    PROVE  CallerMoves(c, IF a.types \subseteq a.started THEN AfterIceStarted("caller", a) ELSE a, m)
<1>1. c.dlg \in {"calling", "active"}
    BY NotResting DEF CallerSound
<1>2. c.named = {} /\ c.ice = c.types /\ ~c.prov /\ c.dlg = "calling" /\ ~c.activated
    BY <1>1 DEF CallerSound
<1>3. a \in Session /\ a.out = <<>>
  <2>1. i \in Media /\ c.started \cup {i} \in SUBSET Media
      BY DEF Session
  <2>2. QED
      BY <2>1 DEF Session
<1>4. /\ a.dlg = c.dlg /\ a.rtp = c.rtp /\ a.types = c.types /\ a.named = c.named
      /\ a.resolving = c.resolving /\ a.waiting = c.waiting /\ a.ice = c.ice
      /\ a.started = c.started \cup {i} /\ a.gathered = c.gathered /\ a.locals = c.locals
      /\ a.added = c.added /\ a.prov = c.prov /\ a.accepted = c.accepted
      /\ a.activated = c.activated /\ a.timer = c.timer
    BY DEF Session
<1>5. CASE ~(a.types \subseteq a.started)
  <2>1. CallerSound(a)
      BY <1>1, <1>2, <1>4 DEF CallerSound, Resting
  <2>2. CallerMoves(c, a, m)
      BY <1>2, <1>3, <1>4, <2>1, NoneHas DEF CallerMoves
  <2>3. QED
      BY <1>5, <2>2
<1>6. CASE a.types \subseteq a.started
  <2> DEFINE o == <<[kind |-> "session-initiate", media |-> a.types]>>
             s == [a EXCEPT !.out = o, !.named = a.types, !.waiting = TRUE]
  <2>1. AfterIceStarted("caller", a) = s
    <3>1. Say(a, "session-initiate", a.types) = [a EXCEPT !.out = o]
        BY <1>3, Said
    <3>2. QED
        BY <1>3, <3>1 DEF AfterIceStarted, Session
  <2>2. "audio" \in a.types /\ a.types \in SUBSET Media
      BY <1>1, <1>3, <1>4 DEF CallerSound, Session
  <2>3. o \in Seq(ToCallee) /\ o \in Seq(Stanza)
    <3>1. [kind |-> "session-initiate", media |-> a.types] \in ToCallee
        BY <2>2 DEF ToCallee
    <3>2. QED
        BY <3>1, StanzaKinds
  <2>4. Has(o, "session-initiate") /\ ~Has(o, "transport-info")
      BY OneHas
  <2> HIDE DEF o
  <2>5. s \in Session
    <3>1. ASSUME NEW t \in Session, NEW n \in SUBSET Media, NEW q \in Seq(Stanza)
          PROVE  [t EXCEPT !.out = q, !.named = n, !.waiting = TRUE] \in Session
        BY <3>1 DEF Session
    <3>2. QED
        BY <1>3, <2>2, <2>3, <3>1
  <2>6. s.out = o
      BY <1>3 DEF Session
  <2>7. /\ s.dlg = a.dlg /\ s.rtp = a.rtp /\ s.types = a.types /\ s.named = a.types
        /\ s.resolving = a.resolving /\ s.waiting = TRUE /\ s.ice = a.ice
        /\ s.started = a.started /\ s.gathered = a.gathered /\ s.locals = a.locals
        /\ s.added = a.added /\ s.prov = a.prov /\ s.accepted = a.accepted
        /\ s.activated = a.activated /\ s.timer = a.timer
      BY <1>3 DEF Session
  <2> HIDE DEF s
  <2>8. CallerSound(s)
      BY <1>1, <1>2, <1>4, <1>6, <2>2, <2>7 DEF CallerSound, Resting
  <2>9. CallerMoves(c, s, m)
      BY <1>2, <1>4, <2>2, <2>3, <2>4, <2>5, <2>6, <2>7, <2>8 DEF CallerMoves
  <2>10. QED
      BY <1>6, <2>1, <2>9
<1>7. QED
    BY <1>5, <1>6

\* What the caller does not go by.
LEMMA CallerAside ==
    ASSUME NEW c \in Session, CallerSound(c), NEW s \in Session, s.out = <<>>,
           s.dlg = c.dlg, Resting(c) => Resting(s), s.rtp = c.rtp, s.types = c.types, s.named = c.named
          , s.resolving = c.resolving, s.waiting = c.waiting, s.ice = c.ice
          , s.started = c.started, s.gathered = c.gathered, s.locals = c.locals
          , s.added = c.added, s.prov = c.prov, s.accepted = c.accepted
          , s.activated = c.activated, s.timer = c.timer,
           NEW m, m.kind = "nothing"
    PROVE  CallerMoves(c, s, m)
<1>1. CallerSound(s)
  <2>1. Resting(c) => (c.dlg \in {"none", "ended", "dropped"} => c = Rest(c.dlg, c.out))
      BY DEF Resting
  <2>2. QED
      BY DEF CallerSound
<1>2. QED
    BY <1>1, NoneHas DEF CallerMoves

\* A call that is connected and accepted is active.
LEMMA CallerActivated ==
    ASSUME NEW c, NEW a, NEW m, CallerMoves(c, a, m)
    PROVE  CallerMoves(c, tryActivated(a), m)
<1> SUFFICES ASSUME a.accepted /\ a.connected /\ ~a.activated
             PROVE  CallerMoves(c, tryActivated(a), m)
    BY DEF tryActivated
<1> DEFINE s == [a EXCEPT !.activated = TRUE, !.timer = FALSE, !.ice = {}, !.dlg = "active"]
<1>1. a \in Session /\ CallerSound(a) /\ a.out \in Seq(ToCallee)
    BY DEF CallerMoves
<1>2. a.dlg \in {"calling", "active"}
  <2>1. a.dlg \in {"none", "ended", "dropped"} => a = Rest(a.dlg, a.out)
      BY <1>1 DEF CallerSound, Resting
  <2>2. QED
      BY <1>1, <2>1, RestFields DEF CallerSound
<1>3. s \in Session /\ s.out = a.out
    BY <1>1 DEF Session
<1>4. /\ s.dlg = "active" /\ s.rtp = a.rtp /\ s.types = a.types /\ s.named = a.named
      /\ s.resolving = a.resolving /\ s.waiting = a.waiting /\ s.ice = {}
      /\ s.started = a.started /\ s.gathered = a.gathered /\ s.locals = a.locals
      /\ s.added = a.added /\ s.prov = a.prov /\ s.accepted = a.accepted
      /\ s.activated = TRUE /\ s.timer = FALSE
    BY <1>1 DEF Session
<1>5. tryActivated(a) = s
    BY DEF tryActivated
<1> HIDE DEF s
<1>6. CallerSound(s)
    BY <1>1, <1>2, <1>4 DEF CallerSound, Resting
<1>7. CallerMoves(c, s, m)
    BY <1>1, <1>2, <1>3, <1>4, <1>6 DEF CallerMoves
<1>8. QED
    BY <1>5, <1>7

--------------------------------------------------------------------------------
(* Candidates.                                                                 *)

\* Local candidates are sent.
LEMMA LocalsFlushed ==
    ASSUME NEW a \in Session, a.out = <<>>
    PROVE  LET s == flushLocalCandidates(a)
           IN  /\ s \in Session /\ s.out \in Seq(ToCaller) /\ s.out \in Seq(ToCallee)
               /\ HasAudio(s.out) <=> "audio" \in a.types \cap a.locals
               /\ \A k : Has(s.out, k) => k = "transport-info"
               /\ Once(s.out, "session-accept")
               /\ s.dlg = a.dlg /\ s.rtp = a.rtp /\ s.types = a.types /\ s.named = a.named
               /\ s.resolving = a.resolving /\ s.waiting = a.waiting /\ s.ice = a.ice
               /\ s.started = a.started /\ s.ready = a.ready /\ s.gathered = a.gathered
               /\ s.locals = a.locals \ a.types /\ s.remotes = a.remotes
               /\ s.known = a.known /\ s.peer = a.peer /\ s.added = a.added
               /\ s.prov = a.prov /\ s.media = a.media /\ s.connected = a.connected
               /\ s.accepted = a.accepted /\ s.activated = a.activated /\ s.timer = a.timer
               /\ s.posted = a.posted
<1> DEFINE w == a.types \cap a.locals
           x == [kind |-> "transport-info", media |-> w]
           s == flushLocalCandidates(a)
<1>1. w \in SUBSET Media
    BY DEF Session
<1>2. CASE w = {}
  <2>1. s = a
      BY <1>2 DEF flushLocalCandidates
  <2> HIDE DEF s
  <2>2. s.out = <<>>
      BY <2>1
  <2>3. QED
      BY <1>2, <2>1, <2>2, NoneHas DEF s
<1>3. CASE w # {}
  <2> DEFINE o == <<x>>
             l == a.locals \ w
             t == [a EXCEPT !.out = o, !.locals = l]
  <2>1. s = t
    <3>1. Say(a, "transport-info", w) = [a EXCEPT !.out = o]
        BY Said
    <3>2. flushLocalCandidates(a) = [Say(a, "transport-info", w) EXCEPT !.locals = @ \ w]
        BY <1>3 DEF flushLocalCandidates
    <3>3. QED
        BY <3>1, <3>2 DEF Session
  <2>2. x \in ToCaller /\ x \in ToCallee /\ x.kind = "transport-info" /\ x.media = w
      BY <1>1 DEF ToCaller, ToCallee
  <2>3. o \in Seq(ToCaller) /\ o \in Seq(ToCallee) /\ o \in Seq(Stanza)
    <3>1. x \in Stanza
        BY <2>2, StanzaKinds
    <3> HIDE DEF x
    <3>2. QED
        BY <2>2, <3>1
  <2>4. /\ HasAudio(o) <=> "audio" \in w
        /\ \A k : Has(o, k) => k = "transport-info"
        /\ Once(o, "session-accept")
      BY <2>2, OneHas
  <2>5. l \in SUBSET Media
      BY DEF Session
  <2> HIDE DEF o, l
  <2>6. t \in Session
      BY <2>3, <2>5 DEF Session
  <2>7. /\ t.out = o
        /\ t.dlg = a.dlg /\ t.rtp = a.rtp /\ t.types = a.types /\ t.named = a.named
        /\ t.resolving = a.resolving /\ t.waiting = a.waiting /\ t.ice = a.ice
        /\ t.started = a.started /\ t.ready = a.ready /\ t.gathered = a.gathered
        /\ t.locals = l /\ t.remotes = a.remotes /\ t.known = a.known /\ t.peer = a.peer
        /\ t.added = a.added /\ t.prov = a.prov /\ t.media = a.media
        /\ t.connected = a.connected /\ t.accepted = a.accepted /\ t.activated = a.activated
        /\ t.timer = a.timer /\ t.posted = a.posted
      BY DEF Session
  <2> HIDE DEF t, s
  <2>8. QED
      BY <2>1, <2>3, <2>4, <2>6, <2>7 DEF l, s
<1>4. QED
    BY <1>2, <1>3

\* Remote candidates are given to ICE.
LEMMA RemotesFlushed ==
    ASSUME NEW a \in Session
    PROVE  LET s == flushRemoteCandidates(a)
               m == a.types \cap a.ice
           IN  /\ s \in Session /\ s.out = a.out
               /\ s.dlg = a.dlg /\ s.rtp = a.rtp /\ s.types = a.types /\ s.named = a.named
               /\ s.resolving = a.resolving /\ s.waiting = a.waiting /\ s.ice = a.ice
               /\ s.started = a.started /\ s.ready = a.ready /\ s.gathered = a.gathered
               /\ s.locals = a.locals /\ s.remotes = a.remotes \ m /\ s.known = a.known
               /\ s.peer = a.peer \cup (m \cap a.known)
               /\ s.added = a.added \cup (m \cap a.remotes) /\ s.prov = a.prov
               /\ s.media = a.media /\ s.connected = a.connected /\ s.accepted = a.accepted
               /\ s.activated = a.activated /\ s.timer = a.timer /\ s.posted = a.posted
<1> DEFINE m == a.types \cap a.ice
           p == a.peer \cup (m \cap a.known)
           b == a.added \cup (m \cap a.remotes)
           r == a.remotes \ m
           t == [a EXCEPT !.peer = p, !.added = b, !.remotes = r]
<1>1. flushRemoteCandidates(a) = t
    BY DEF flushRemoteCandidates
<1>2. p \in SUBSET Media /\ b \in SUBSET Media /\ r \in SUBSET Media
    BY DEF Session
<1> HIDE DEF p, b, r
<1>3. t \in Session
    BY <1>2 DEF Session
<1>4. /\ t.out = a.out
      /\ t.dlg = a.dlg /\ t.rtp = a.rtp /\ t.types = a.types /\ t.named = a.named
      /\ t.resolving = a.resolving /\ t.waiting = a.waiting /\ t.ice = a.ice
      /\ t.started = a.started /\ t.ready = a.ready /\ t.gathered = a.gathered
      /\ t.locals = a.locals /\ t.remotes = r /\ t.known = a.known /\ t.peer = p
      /\ t.added = b /\ t.prov = a.prov /\ t.media = a.media /\ t.connected = a.connected
      /\ t.accepted = a.accepted /\ t.activated = a.activated /\ t.timer = a.timer
      /\ t.posted = a.posted
    BY DEF Session
<1> HIDE DEF t
<1>5. QED
    BY <1>1, <1>3, <1>4 DEF p, b, r

--------------------------------------------------------------------------------
(* The caller's candidates, and what it hears.                                 *)

LEMMA CallerLocal ==
    ASSUME NEW c \in Session, CallerSound(c), c.out = <<>>, NEW i \in c.ice \cap c.started,
           NEW m, m.kind = "nothing"
    PROVE  LET a == [c EXCEPT !.gathered = @ \cup {i}, !.locals = @ \cup {i}]
           IN  CallerMoves(c, IF a.prov THEN flushLocalCandidates(a) ELSE a, m)
<1> DEFINE g == c.gathered \cup {i}
           l == c.locals \cup {i}
           a == [c EXCEPT !.gathered = g, !.locals = l]
<1>1. c.dlg \in {"calling", "active"} /\ "audio" \in c.types
    BY NotResting DEF CallerSound
<1>2. g \in SUBSET Media /\ l \in SUBSET Media
    BY DEF Session
<1>3. "audio" \in g <=> "audio" \in c.gathered \/ i = "audio"
    OBVIOUS
<1>4. "audio" \in l <=> "audio" \in c.locals \/ i = "audio"
    OBVIOUS
<1> HIDE DEF g, l
<1>5. a \in Session /\ a.out = <<>>
    BY <1>2 DEF Session
<1>6. /\ a.dlg = c.dlg /\ a.rtp = c.rtp /\ a.types = c.types /\ a.named = c.named
      /\ a.resolving = c.resolving /\ a.waiting = c.waiting /\ a.ice = c.ice
      /\ a.started = c.started /\ a.gathered = g /\ a.locals = l /\ a.added = c.added
      /\ a.prov = c.prov /\ a.accepted = c.accepted /\ a.activated = c.activated
      /\ a.timer = c.timer
    BY DEF Session
<1> SUFFICES CallerMoves(c, IF a.prov THEN flushLocalCandidates(a) ELSE a, m)
    BY DEF g, l
<1> HIDE DEF a
<1>7. CASE ~a.prov
  <2>1. CallerSound(a)
      BY <1>1, <1>6 DEF CallerSound, Resting
  <2>2. CallerMoves(c, a, m)
      BY <1>3, <1>4, <1>5, <1>6, <1>7, <2>1, NoneHas DEF CallerMoves
  <2>3. QED
      BY <1>7, <2>2
<1>8. CASE a.prov
  <2> DEFINE s == flushLocalCandidates(a)
  <2>1. /\ s \in Session /\ s.out \in Seq(ToCallee)
        /\ HasAudio(s.out) <=> "audio" \in a.types \cap a.locals
        /\ \A k : Has(s.out, k) => k = "transport-info"
      BY <1>5, LocalsFlushed
  <2>2. /\ s.dlg = a.dlg /\ s.rtp = a.rtp /\ s.types = a.types /\ s.named = a.named
        /\ s.resolving = a.resolving /\ s.waiting = a.waiting /\ s.ice = a.ice
        /\ s.started = a.started /\ s.gathered = a.gathered /\ s.locals = a.locals \ a.types
        /\ s.added = a.added /\ s.prov = a.prov /\ s.accepted = a.accepted
        /\ s.activated = a.activated /\ s.timer = a.timer
      BY <1>5, LocalsFlushed
  <2> HIDE DEF s
  <2>3. CallerSound(s)
      BY <1>1, <1>6, <2>2 DEF CallerSound, Resting
  <2>4. ~Has(s.out, "session-initiate") /\ c.prov
      BY <1>6, <1>8, <2>1
  <2>5. "audio" \in s.gathered => "audio" \in c.gathered \/ HasAudio(s.out)
    <3>1. i = "audio" => "audio" \in a.types \cap a.locals
        BY <1>1, <1>4, <1>6
    <3>2. QED
        BY <1>3, <1>6, <2>1, <2>2, <3>1
  <2>6. /\ s.dlg = c.dlg /\ s.named = c.named /\ s.prov = c.prov /\ s.added = c.added
        /\ s.accepted = c.accepted
      BY <1>6, <2>2
  <2>7. CallerMoves(c, s, m)
      BY <2>1, <2>3, <2>4, <2>5, <2>6 DEF CallerMoves
  <2>8. QED
      BY <1>8, <2>7 DEF s
<1>9. QED
    BY <1>7, <1>8

\* The answer to the offer.
LEMMA CallerResult ==
    ASSUME NEW c \in Session, CallerSound(c), c.out = <<>>, c.waiting, NEW m, m.kind = "result"
    PROVE  CallerMoves(c, ReceiveResult(c), m)
<1> DEFINE a == [c EXCEPT !.waiting = FALSE, !.prov = TRUE]
           s == flushLocalCandidates(a)
<1>1. /\ c.dlg \in {"calling", "active"} /\ "audio" \in c.types
      /\ c.named # {} /\ ~c.prov
    BY NotResting DEF CallerSound
<1>2. a \in Session /\ a.out = <<>>
    BY DEF Session
<1>3. /\ a.dlg = c.dlg /\ a.rtp = c.rtp /\ a.types = c.types /\ a.named = c.named
      /\ a.resolving = c.resolving /\ a.waiting = FALSE /\ a.ice = c.ice
      /\ a.started = c.started /\ a.gathered = c.gathered /\ a.locals = c.locals
      /\ a.added = c.added /\ a.prov = TRUE /\ a.accepted = c.accepted
      /\ a.activated = c.activated /\ a.timer = c.timer
    BY DEF Session
<1> HIDE DEF a
<1>4. /\ s \in Session /\ s.out \in Seq(ToCallee)
      /\ HasAudio(s.out) <=> "audio" \in a.types \cap a.locals
      /\ \A k : Has(s.out, k) => k = "transport-info"
    BY <1>2, LocalsFlushed
<1>5. /\ s.dlg = a.dlg /\ s.rtp = a.rtp /\ s.types = a.types /\ s.named = a.named
      /\ s.resolving = a.resolving /\ s.waiting = a.waiting /\ s.ice = a.ice
      /\ s.started = a.started /\ s.gathered = a.gathered /\ s.locals = a.locals \ a.types
      /\ s.added = a.added /\ s.prov = a.prov /\ s.accepted = a.accepted
      /\ s.activated = a.activated /\ s.timer = a.timer
    BY <1>2, LocalsFlushed
<1>6. ReceiveResult(c) = s
    BY DEF ReceiveResult, a
<1> HIDE DEF s
<1>7. CallerSound(s)
    BY <1>1, <1>3, <1>5 DEF CallerSound, Resting
<1>8. ~Has(s.out, "session-initiate")
    BY <1>4
<1>9. CallerMoves(c, s, m)
    BY <1>1, <1>3, <1>4, <1>5, <1>7, <1>8 DEF CallerMoves
<1>10. QED
    BY <1>6, <1>9

LEMMA FoundAudio ==
    ASSUME NEW media \in SUBSET Media, NEW wanted
    PROVE  /\ Found(media, wanted) \in SUBSET Media /\ Found(media, wanted) \subseteq wanted
           /\ "audio" \in media \cap wanted => Found(media, wanted) = {"audio"}
    BY DEF Found, Media

\* The callee accepts.
LEMMA CallerAccept ==
    ASSUME NEW c \in Session, CallerSound(c), c.out = <<>>, c.rtp = "started",
           c.named # {}, ~c.accepted,
           NEW m, m.kind = "session-accept", m.media = {"audio"}
    PROVE  CallerMoves(c, ReceiveAccept(c, m), m)
<1> DEFINE f == Found(m.media, c.types \cap c.named)
           n == c.known \cup f
           a == [c EXCEPT !.types = f, !.known = n, !.timer = TRUE, !.accepted = TRUE, !.posted = TRUE]
           s == flushRemoteCandidates(a)
<1>1. c.dlg \in {"calling", "active"} /\ "audio" \in c.types \cap c.named /\ ~c.activated
    BY NotResting DEF CallerSound
<1>2. f = {"audio"} /\ f \in SUBSET Media /\ n \in SUBSET Media
  <2>1. {"audio"} \in SUBSET Media
      BY DEF Media
  <2>2. f = {"audio"}
      BY <1>1, <2>1, FoundAudio
  <2>3. QED
      BY <2>1, <2>2 DEF Session
<1>3. ReceiveAccept(c, m) = s
    BY DEF ReceiveAccept
<1> HIDE DEF f, n
<1>4. a \in Session /\ a.out = <<>>
    BY <1>2 DEF Session
<1>5. /\ a.dlg = c.dlg /\ a.rtp = c.rtp /\ a.types = f /\ a.named = c.named
      /\ a.resolving = c.resolving /\ a.waiting = c.waiting /\ a.ice = c.ice
      /\ a.started = c.started /\ a.gathered = c.gathered /\ a.locals = c.locals
      /\ a.added = c.added /\ a.prov = c.prov /\ a.accepted = TRUE
      /\ a.activated = c.activated /\ a.timer = TRUE
    BY DEF Session
<1> HIDE DEF a
<1>6. s \in Session /\ s.out = <<>>
    BY <1>4, RemotesFlushed
<1>7. /\ s.dlg = a.dlg /\ s.rtp = a.rtp /\ s.types = a.types /\ s.named = a.named
      /\ s.resolving = a.resolving /\ s.waiting = a.waiting /\ s.ice = a.ice
      /\ s.started = a.started /\ s.gathered = a.gathered /\ s.locals = a.locals
      /\ s.added = a.added \cup ((a.types \cap a.ice) \cap a.remotes) /\ s.prov = a.prov
      /\ s.accepted = a.accepted /\ s.activated = a.activated /\ s.timer = a.timer
    BY <1>4, RemotesFlushed
<1> HIDE DEF s
<1>8. CallerSound(s)
    BY <1>1, <1>2, <1>5, <1>7 DEF CallerSound, Resting
<1>9. CallerMoves(c, s, m)
    BY <1>5, <1>6, <1>7, <1>8, NoneHas DEF CallerMoves
<1>10. QED
    BY <1>3, <1>9

\* Candidates of the callee.
LEMMA CallerCandidates ==
    ASSUME NEW c \in Session, CallerSound(c), c.out = <<>>, c.rtp = "started",
           NEW m, m.kind = "transport-info", m.media \in SUBSET Media
    PROVE  CallerMoves(c, ReceiveCandidates(c, m), m)
<1> DEFINE f == Found(m.media, c.types \cap c.named)
           n == c.known \cup f
           r == c.remotes \cup f
           a == [c EXCEPT !.known = n, !.remotes = r]
           s == IF a.prov THEN flushRemoteCandidates(a) ELSE a
<1>1. c.dlg \in {"calling", "active"}
    BY NotResting DEF CallerSound
<1>2. n \in SUBSET Media /\ r \in SUBSET Media
    BY FoundAudio DEF Session
<1>3. /\ c.prov /\ c.dlg = "calling" => "audio" \in c.types /\ "audio" \in c.ice
      /\ c.prov /\ "audio" \in m.media => "audio" \in r
  <2>1. c.prov => "audio" \in c.types \cap c.named
      BY <1>1 DEF CallerSound
  <2>2. c.prov /\ "audio" \in m.media => f = {"audio"}
      BY <2>1, FoundAudio
  <2>3. QED
      BY <2>1, <2>2 DEF CallerSound
<1>4. ReceiveCandidates(c, m) = s
    BY DEF ReceiveCandidates
<1> HIDE DEF n, r
<1>5. a \in Session /\ a.out = <<>>
    BY <1>2 DEF Session
<1>6. /\ a.remotes = r
      /\ a.dlg = c.dlg /\ a.rtp = c.rtp /\ a.types = c.types /\ a.named = c.named
      /\ a.resolving = c.resolving /\ a.waiting = c.waiting /\ a.ice = c.ice
      /\ a.started = c.started /\ a.gathered = c.gathered /\ a.locals = c.locals
      /\ a.added = c.added /\ a.prov = c.prov /\ a.accepted = c.accepted
      /\ a.activated = c.activated /\ a.timer = c.timer
    BY DEF Session
<1> HIDE DEF a
<1>7. s \in Session /\ s.out = <<>>
    BY <1>5, RemotesFlushed
<1>8. /\ s.dlg = a.dlg /\ s.rtp = a.rtp /\ s.types = a.types /\ s.named = a.named
      /\ s.resolving = a.resolving /\ s.waiting = a.waiting /\ s.ice = a.ice
      /\ s.started = a.started /\ s.gathered = a.gathered /\ s.locals = a.locals
      /\ s.prov = a.prov /\ s.accepted = a.accepted /\ s.activated = a.activated
      /\ s.timer = a.timer
    BY <1>5, RemotesFlushed
<1>9. s.added = IF a.prov THEN a.added \cup ((a.types \cap a.ice) \cap a.remotes) ELSE a.added
    BY <1>5, RemotesFlushed
<1> HIDE DEF s
<1>10. CallerSound(s)
    BY <1>1, <1>6, <1>8 DEF CallerSound, Resting
<1>11. /\ "audio" \in c.added => "audio" \in s.added
       /\ c.prov /\ c.dlg = "calling" /\ "audio" \in m.media => "audio" \in s.added
    BY <1>3, <1>6, <1>9
<1>12. CallerMoves(c, s, m)
    BY <1>1, <1>6, <1>7, <1>8, <1>10, <1>11, NoneHas DEF CallerMoves
<1>13. QED
    BY <1>4, <1>12

\* What does not concern the caller.
LEMMA CallerIgnores ==
    ASSUME NEW c \in Session, CallerSound(c), c.out = <<>>,
           NEW m, m.kind # "session-accept",
           m.kind = "result" => c.dlg \in {"active", "ended"} \/ c.prov,
           m.kind = "transport-info" => c.rtp # "started"
    PROVE  CallerMoves(c, c, m)
<1>1. c.prov => c.rtp = "started"
  <2>1. c.dlg \in {"none", "ended", "dropped"} => c = Rest(c.dlg, c.out)
      BY DEF CallerSound, Resting
  <2>2. c.dlg \in {"none", "ended", "dropped"} => ~c.prov
      BY <2>1, RestFields
  <2>3. QED
      BY <2>2 DEF CallerSound, Session
<1>2. QED
    BY <1>1, NoneHas DEF CallerMoves

--------------------------------------------------------------------------------
(* The callee.                                                                 *)

\* The offer comes.
LEMMA CalleeInitiate ==
    ASSUME NEW d \in Session, CalleeSound(d), d.out = <<>>, d.dlg = "none",
           NEW m, m.kind = "session-initiate", m.media \in SUBSET Media, "audio" \in m.media
    PROVE  CalleeMoves(d, ReceiveInitiate(d, m), m)
<1> DEFINE f == Found(m.media, Media)
           s == [d EXCEPT !.dlg = "ringing", !.types = Media, !.named = f, !.known = f]
<1>1. f = {"audio"} /\ f \in SUBSET Media /\ "audio" \in Media /\ Media \in SUBSET Media
  <2>1. "audio" \in Media
      BY DEF Media
  <2>2. QED
      BY <2>1, FoundAudio
<1>2. ReceiveInitiate(d, m) = s
    BY DEF ReceiveInitiate
<1>3. d = Rest("none", <<>>)
    BY DEF CalleeSound, Resting
<1> HIDE DEF f
<1>4. s \in Session /\ s.out = <<>>
    BY <1>1 DEF Session
<1>5. /\ s.dlg = "ringing" /\ s.rtp = d.rtp /\ s.types = Media /\ s.named = f
      /\ s.resolving = d.resolving /\ s.waiting = d.waiting /\ s.ice = d.ice
      /\ s.started = d.started /\ s.ready = d.ready /\ s.gathered = d.gathered
      /\ s.locals = d.locals /\ s.remotes = d.remotes /\ s.known = f /\ s.peer = d.peer
      /\ s.added = d.added /\ s.prov = d.prov /\ s.media = d.media
      /\ s.connected = d.connected /\ s.accepted = d.accepted /\ s.activated = d.activated
      /\ s.timer = d.timer /\ s.posted = d.posted
    BY DEF Session
<1>6. /\ d.rtp = "off" /\ ~d.resolving /\ ~d.waiting /\ d.ice = {} /\ d.started = {}
      /\ d.ready = {} /\ d.gathered = {} /\ d.remotes = {} /\ d.peer = {} /\ d.added = {}
      /\ ~d.prov /\ ~d.media /\ ~d.connected /\ ~d.accepted /\ ~d.activated /\ ~d.timer /\ ~d.posted
    BY <1>3, RestFields
<1> HIDE DEF s
<1>7. CalleeSound(s)
    BY <1>1, <1>4, <1>5, <1>6 DEF CalleeSound, Resting, Session
<1>8. CalleeMoves(d, s, m)
    BY <1>4, <1>5, <1>6, <1>7, NoneHas DEF CalleeMoves
<1>9. QED
    BY <1>2, <1>8

\* The call is answered.
LEMMA CalleeAnswers ==
    ASSUME NEW d \in Session, CalleeSound(d), d.out = <<>>, d.dlg = "ringing",
           NEW types \in Answers, NEW m, m.kind = "nothing"
    PROVE  CalleeMoves(d, [d EXCEPT !.dlg = "calling", !.types = types, !.resolving = TRUE,
                                    !.rtp = "starting"], m)
<1> DEFINE s == [d EXCEPT !.dlg = "calling", !.types = types, !.resolving = TRUE, !.rtp = "starting"]
<1>1. types \in SUBSET Media /\ "audio" \in types
    BY ConstantsAssumption
<1>2. s \in Session /\ s.out = <<>>
    BY <1>1 DEF Session
<1>3. /\ s.dlg = "calling" /\ s.rtp = "starting" /\ s.types = types /\ s.named = d.named
      /\ s.resolving = TRUE /\ s.waiting = d.waiting /\ s.ice = d.ice
      /\ s.started = d.started /\ s.ready = d.ready /\ s.gathered = d.gathered
      /\ s.locals = d.locals /\ s.remotes = d.remotes /\ s.known = d.known
      /\ s.peer = d.peer /\ s.added = d.added /\ s.prov = d.prov /\ s.media = d.media
      /\ s.connected = d.connected /\ s.accepted = d.accepted /\ s.activated = d.activated
      /\ s.timer = d.timer /\ s.posted = d.posted
    BY DEF Session
<1> HIDE DEF s
<1>4. /\ d.started = {} /\ d.ice = {} /\ d.gathered = {} /\ ~d.prov /\ ~d.connected
      /\ ~d.media /\ ~d.accepted /\ ~d.activated /\ d.named = {"audio"}
    BY DEF CalleeSound
<1>5. CalleeSound(s)
    BY <1>1, <1>2, <1>3, <1>4 DEF CalleeSound, Resting, Session
<1>6. CalleeMoves(d, s, m)
    BY <1>2, <1>3, <1>4, <1>5, NoneHas DEF CalleeMoves
<1>7. QED
    BY <1>6 DEF s

\* A callee that is connected and has its media accepts, and is active.
LEMMA CalleeAccepts ==
    ASSUME NEW d, NEW a, NEW m, CalleeMoves(d, a, m), a.out = <<>>, d.dlg = "calling", a.dlg = "calling"
    PROVE  CalleeMoves(d, tryActivated(tryAccept(a)), m)
<1>1. a \in Session /\ CalleeSound(a) /\ ~a.accepted /\ ~a.activated /\ "audio" \in a.types
    BY DEF CalleeMoves, CalleeSound
<1>2. CASE ~(a.media /\ a.connected)
    BY <1>1, <1>2 DEF tryAccept, tryActivated
<1>3. CASE a.media /\ a.connected
  <2> DEFINE x == [kind |-> "session-accept", media |-> a.types]
             o == <<x>>
             b == [a EXCEPT !.out = o, !.accepted = TRUE]
             s == [b EXCEPT !.activated = TRUE, !.timer = FALSE, !.ice = {}, !.dlg = "active"]
  <2>1. a.types = {"audio"}
      BY <1>1, <1>3 DEF CalleeSound
  <2>2. tryAccept(a) = b
    <3>1. Say(a, "session-accept", a.types) = [a EXCEPT !.out = o]
        BY <1>1, Said
    <3>2. QED
        BY <1>1, <1>3, <3>1 DEF tryAccept, Session
  <2>3. x \in ToCaller /\ x.kind = "session-accept"
      BY <2>1 DEF ToCaller
  <2>4. o \in Seq(ToCaller) /\ o \in Seq(Stanza)
    <3>1. x \in Stanza
        BY <2>3, StanzaKinds
    <3> HIDE DEF x
    <3>2. QED
        BY <2>3, <3>1
  <2>5. \A k : Has(o, k) => k = "session-accept"
      BY <2>3, OneHas
  <2>6. Once(o, "session-accept")
      BY OneHas
  <2> HIDE DEF o
  <2>7. b \in Session /\ b.accepted = TRUE /\ b.connected /\ ~b.activated
      BY <1>1, <1>3, <2>4 DEF Session
  <2>8. tryActivated(b) = s
      BY <2>7 DEF tryActivated
  <2>9. /\ b.out = o
        /\ b.dlg = a.dlg /\ b.rtp = a.rtp /\ b.types = a.types /\ b.named = a.named
        /\ b.resolving = a.resolving /\ b.waiting = a.waiting /\ b.ice = a.ice
        /\ b.started = a.started /\ b.ready = a.ready /\ b.gathered = a.gathered
        /\ b.locals = a.locals /\ b.remotes = a.remotes /\ b.known = a.known
        /\ b.peer = a.peer /\ b.added = a.added /\ b.prov = a.prov /\ b.media = a.media
        /\ b.connected = a.connected /\ b.accepted = TRUE /\ b.activated = a.activated
        /\ b.timer = a.timer /\ b.posted = a.posted
      BY <1>1 DEF Session
  <2> HIDE DEF b
  <2>10. s \in Session
      BY <2>7 DEF Session
  <2>11. /\ s.out = o
         /\ s.dlg = "active" /\ s.rtp = a.rtp /\ s.types = a.types /\ s.named = a.named
         /\ s.resolving = a.resolving /\ s.waiting = a.waiting /\ s.ice = {}
         /\ s.started = a.started /\ s.ready = a.ready /\ s.gathered = a.gathered
         /\ s.locals = a.locals /\ s.remotes = a.remotes /\ s.known = a.known
         /\ s.peer = a.peer /\ s.added = a.added /\ s.prov = a.prov /\ s.media = a.media
         /\ s.connected = a.connected /\ s.accepted = TRUE /\ s.activated = TRUE
         /\ s.timer = FALSE /\ s.posted = a.posted
      BY <2>7, <2>9 DEF Session
  <2> HIDE DEF s
  <2>12. CalleeSound(s)
      BY <1>1, <1>3, <2>1, <2>10, <2>11 DEF CalleeSound, Resting, Session
  <2>13. CalleeMoves(d, s, m)
      BY <2>4, <2>5, <2>6, <2>10, <2>11, <2>12, NoneHas DEF CalleeMoves
  <2>14. QED
      BY <2>2, <2>8, <2>13
<1>4. QED
    BY <1>2, <1>3

\* The media engine starts.
LEMMA CalleeRtpStarted ==
    ASSUME NEW d \in Session, CalleeSound(d), d.out = <<>>, d.rtp = "starting",
           NEW m, m.kind = "nothing"
    PROVE  LET s == [d EXCEPT !.rtp = "started", !.media = TRUE]
           IN  CalleeMoves(d, s, m) /\ s.out = <<>> /\ s.dlg = d.dlg /\ d.dlg = "calling"
<1> DEFINE s == [d EXCEPT !.rtp = "started", !.media = TRUE]
<1>1. s \in Session /\ s.out = <<>>
    BY DEF Session
<1>2. /\ s.dlg = d.dlg /\ s.rtp = "started" /\ s.types = d.types /\ s.named = d.named
      /\ s.resolving = d.resolving /\ s.waiting = d.waiting /\ s.ice = d.ice
      /\ s.started = d.started /\ s.ready = d.ready /\ s.gathered = d.gathered
      /\ s.locals = d.locals /\ s.remotes = d.remotes /\ s.known = d.known
      /\ s.peer = d.peer /\ s.added = d.added /\ s.prov = d.prov /\ s.media = TRUE
      /\ s.connected = d.connected /\ s.accepted = d.accepted /\ s.activated = d.activated
      /\ s.timer = d.timer /\ s.posted = d.posted
    BY DEF Session
<1> HIDE DEF s
<1>3. d.dlg = "calling"
    BY DEF CalleeSound
<1>4. CalleeSound(s)
    BY <1>1, <1>2, <1>3 DEF CalleeSound, Resting, Session
<1>5. CalleeMoves(d, s, m)
    BY <1>1, <1>2, <1>3, <1>4, NoneHas DEF CalleeMoves
<1>6. QED
    BY <1>1, <1>2, <1>3, <1>5 DEF s

\* ICE is made for all media.
LEMMA CalleeResolves ==
    ASSUME NEW d \in Session, CalleeSound(d), d.out = <<>>, d.resolving,
           NEW m, m.kind = "nothing"
    PROVE  LET s == [d EXCEPT !.resolving = FALSE, !.ice = d.types]
           IN  CalleeMoves(d, s, m) /\ s.out = <<>> /\ s.dlg = d.dlg /\ d.dlg = "calling"
<1> DEFINE s == [d EXCEPT !.resolving = FALSE, !.ice = d.types]
<1>1. s \in Session /\ s.out = <<>>
    BY DEF Session
<1>2. /\ s.dlg = d.dlg /\ s.rtp = d.rtp /\ s.types = d.types /\ s.named = d.named
      /\ s.resolving = FALSE /\ s.waiting = d.waiting /\ s.ice = d.types
      /\ s.started = d.started /\ s.ready = d.ready /\ s.gathered = d.gathered
      /\ s.locals = d.locals /\ s.remotes = d.remotes /\ s.known = d.known
      /\ s.peer = d.peer /\ s.added = d.added /\ s.prov = d.prov /\ s.media = d.media
      /\ s.connected = d.connected /\ s.accepted = d.accepted /\ s.activated = d.activated
      /\ s.timer = d.timer /\ s.posted = d.posted
    BY DEF Session
<1> HIDE DEF s
<1>3. d.dlg = "calling"
    BY DEF CalleeSound
<1>4. CalleeSound(s)
    BY <1>1, <1>2, <1>3 DEF CalleeSound, Resting, Session
<1>5. CalleeMoves(d, s, m)
    BY <1>1, <1>2, <1>3, <1>4, NoneHas DEF CalleeMoves
<1>6. QED
    BY <1>1, <1>2, <1>3, <1>5 DEF s

\* When the last ICE has started the offer is answered.
LEMMA CalleeIceStarted ==
    ASSUME NEW d \in Session, CalleeSound(d), d.out = <<>>, NEW i \in d.ice \ d.started,
           NEW m, m.kind = "nothing"
    PROVE  LET a == [d EXCEPT !.started = @ \cup {i}]
           IN  CalleeMoves(d, IF a.types \subseteq a.started THEN AfterIceStarted("callee", a) ELSE a, m)
<1> DEFINE n == d.started \cup {i}
           a == [d EXCEPT !.started = n]
<1>1. d.dlg = "calling" /\ d.ice = d.types /\ ~d.prov /\ ~d.resolving
  <2>1. d.dlg \in {"ringing", "calling", "active"}
      BY NotResting DEF CalleeSound
  <2>2. d.dlg = "calling"
      BY <2>1 DEF CalleeSound
  <2>3. QED
      BY <2>2 DEF CalleeSound
<1>2. n \in SUBSET Media /\ d.started \subseteq n
    BY DEF Session
<1> HIDE DEF n
<1>3. a \in Session /\ a.out = <<>>
    BY <1>2 DEF Session
<1>4. /\ a.dlg = d.dlg /\ a.rtp = d.rtp /\ a.types = d.types /\ a.named = d.named
      /\ a.resolving = d.resolving /\ a.waiting = d.waiting /\ a.ice = d.ice
      /\ a.started = n /\ a.ready = d.ready /\ a.gathered = d.gathered
      /\ a.locals = d.locals /\ a.remotes = d.remotes /\ a.known = d.known
      /\ a.peer = d.peer /\ a.added = d.added /\ a.prov = d.prov /\ a.media = d.media
      /\ a.connected = d.connected /\ a.accepted = d.accepted /\ a.activated = d.activated
      /\ a.timer = d.timer /\ a.posted = d.posted
    BY DEF Session
<1> SUFFICES CalleeMoves(d, IF a.types \subseteq a.started THEN AfterIceStarted("callee", a) ELSE a, m)
    BY DEF n
<1> HIDE DEF a
<1>5. CASE ~(a.types \subseteq a.started)
  <2>1. CalleeSound(a)
      BY <1>1, <1>2, <1>3, <1>4, <1>5 DEF CalleeSound, Resting, Session
  <2>2. CalleeMoves(d, a, m)
      BY <1>1, <1>3, <1>4, <2>1, NoneHas DEF CalleeMoves
  <2>3. QED
      BY <1>5, <2>2
<1>6. CASE a.types \subseteq a.started
  <2> DEFINE x == [kind |-> "result", media |-> {}]
             o == <<x>>
             b == [a EXCEPT !.out = o, !.prov = TRUE, !.timer = TRUE]
             s == flushRemoteCandidates(b)
  <2>1. AfterIceStarted("callee", a) = s
    <3>1. Say(a, "result", {}) = [a EXCEPT !.out = o]
        BY <1>3, Said
    <3>2. QED
        BY <1>3, <3>1 DEF AfterIceStarted, Session
  <2>2. x \in ToCaller /\ x.kind = "result"
      BY DEF ToCaller
  <2>3. o \in Seq(ToCaller) /\ o \in Seq(Stanza)
    <3>1. x \in Stanza
        BY <2>2, StanzaKinds
    <3> HIDE DEF x
    <3>2. QED
        BY <2>2, <3>1
  <2>4. Has(o, "result") /\ ~Has(o, "session-accept") /\ ~Has(o, "transport-info")
        /\ Once(o, "session-accept")
      BY <2>2, OneHas
  <2> HIDE DEF o
  <2>5. b \in Session
      BY <1>3, <2>3 DEF Session
  <2>6. /\ b.out = o
        /\ b.dlg = a.dlg /\ b.rtp = a.rtp /\ b.types = a.types /\ b.named = a.named
        /\ b.resolving = a.resolving /\ b.waiting = a.waiting /\ b.ice = a.ice
        /\ b.started = a.started /\ b.ready = a.ready /\ b.gathered = a.gathered
        /\ b.locals = a.locals /\ b.remotes = a.remotes /\ b.known = a.known
        /\ b.peer = a.peer /\ b.added = a.added /\ b.prov = TRUE /\ b.media = a.media
        /\ b.connected = a.connected /\ b.accepted = a.accepted /\ b.activated = a.activated
        /\ b.timer = TRUE /\ b.posted = a.posted
      BY <1>3 DEF Session
  <2> HIDE DEF b
  <2>7. s \in Session /\ s.out = o
      BY <2>5, <2>6, RemotesFlushed
  <2>8. /\ s.dlg = b.dlg /\ s.rtp = b.rtp /\ s.types = b.types /\ s.named = b.named
        /\ s.resolving = b.resolving /\ s.waiting = b.waiting /\ s.ice = b.ice
        /\ s.started = b.started /\ s.ready = b.ready /\ s.gathered = b.gathered
        /\ s.locals = b.locals /\ s.remotes = b.remotes \ (b.types \cap b.ice)
        /\ s.known = b.known /\ s.peer = b.peer \cup ((b.types \cap b.ice) \cap b.known)
        /\ s.added = b.added \cup ((b.types \cap b.ice) \cap b.remotes) /\ s.prov = b.prov
        /\ s.media = b.media /\ s.connected = b.connected /\ s.accepted = b.accepted
        /\ s.activated = b.activated /\ s.timer = b.timer /\ s.posted = b.posted
      BY <2>5, RemotesFlushed
  <2> HIDE DEF s
  <2>9. /\ s.dlg = "calling" /\ s.rtp = d.rtp /\ s.types = d.types /\ s.named = d.named
        /\ s.resolving = d.resolving /\ s.waiting = d.waiting /\ s.ice = d.ice
        /\ s.started = a.started /\ s.ready = d.ready /\ s.gathered = d.gathered
        /\ s.known = d.known /\ s.prov = TRUE /\ s.media = d.media
        /\ s.connected = d.connected /\ s.accepted = d.accepted /\ s.activated = d.activated
        /\ s.timer = TRUE /\ s.posted = d.posted
      BY <1>1, <1>4, <2>6, <2>8
  <2>10. d.started \subseteq s.started /\ s.types \subseteq s.started
      BY <1>2, <1>4, <1>6, <2>9
  <2>11. /\ s.peer \subseteq {"audio"}
         /\ "audio" \in d.added \/ "audio" \in d.remotes => "audio" \in s.added
    <3>1. "audio" \in d.types
        BY <1>1 DEF CalleeSound
    <3>2. s.peer \subseteq {"audio"}
        BY <1>4, <2>6, <2>8 DEF CalleeSound
    <3>3. "audio" \in d.added \/ "audio" \in d.remotes => "audio" \in s.added
        BY <1>1, <1>4, <2>6, <2>8, <3>1
    <3>4. QED
        BY <3>2, <3>3
  <2>12. CalleeSound(s)
      BY <1>1, <2>7, <2>9, <2>10, <2>11 DEF CalleeSound, Resting, Session
  <2>13. CalleeMoves(d, s, m)
      BY <1>1, <2>3, <2>4, <2>7, <2>9, <2>11, <2>12 DEF CalleeMoves
  <2>14. QED
      BY <1>6, <2>1, <2>13 DEF s
<1>7. QED
    BY <1>5, <1>6

\* A candidate of the callee's is sent at once if audio is all it has.
LEMMA CalleeLocal ==
    ASSUME NEW d \in Session, CalleeSound(d), d.out = <<>>, NEW i \in d.ice \cap d.started,
           NEW m, m.kind = "nothing"
    PROVE  LET a == [d EXCEPT !.gathered = @ \cup {i}, !.locals = @ \cup {i}]
           IN  CalleeMoves(d, IF a.prov THEN flushLocalCandidates(a) ELSE a, m)
<1> DEFINE g == d.gathered \cup {i}
           l == d.locals \cup {i}
           a == [d EXCEPT !.gathered = g, !.locals = l]
<1>1. d.dlg = "calling" /\ "audio" \in d.types
  <2>1. d.dlg \in {"ringing", "calling", "active"}
      BY NotResting DEF CalleeSound
  <2>2. d.dlg = "calling"
      BY <2>1 DEF CalleeSound
  <2>3. QED
      BY <2>2 DEF CalleeSound
<1>2. g \in SUBSET Media /\ l \in SUBSET Media /\ g \subseteq d.started
    BY DEF Session, CalleeSound
<1>3. /\ "audio" \in g <=> "audio" \in d.gathered \/ i = "audio"
      /\ i \in l
    OBVIOUS
<1> HIDE DEF g, l
<1>4. a \in Session /\ a.out = <<>>
    BY <1>2 DEF Session
<1>5. /\ a.dlg = d.dlg /\ a.rtp = d.rtp /\ a.types = d.types /\ a.named = d.named
      /\ a.resolving = d.resolving /\ a.waiting = d.waiting /\ a.ice = d.ice
      /\ a.started = d.started /\ a.ready = d.ready /\ a.gathered = g /\ a.locals = l
      /\ a.remotes = d.remotes /\ a.known = d.known /\ a.peer = d.peer /\ a.added = d.added
      /\ a.prov = d.prov /\ a.media = d.media /\ a.connected = d.connected
      /\ a.accepted = d.accepted /\ a.activated = d.activated /\ a.timer = d.timer
      /\ a.posted = d.posted
    BY DEF Session
<1> SUFFICES CalleeMoves(d, IF a.prov THEN flushLocalCandidates(a) ELSE a, m)
    BY DEF g, l
<1> HIDE DEF a
<1>6. CASE ~a.prov
  <2>1. CalleeSound(a)
      BY <1>1, <1>2, <1>4, <1>5 DEF CalleeSound, Resting, Session
  <2>2. "audio" \in a.gathered /\ a.types = {"audio"} => "audio" \in d.gathered /\ d.types = {"audio"}
    <3>1. ~(d.types \subseteq d.started)
        BY <1>1, <1>5, <1>6 DEF CalleeSound
    <3>2. QED
        BY <1>3, <1>5, <3>1
  <2>3. CalleeMoves(d, a, m)
      BY <1>1, <1>4, <1>5, <2>1, <2>2, NoneHas DEF CalleeMoves
  <2>4. QED
      BY <1>6, <2>3
<1>7. CASE a.prov
  <2> DEFINE s == flushLocalCandidates(a)
  <2>1. /\ s \in Session /\ s.out \in Seq(ToCaller)
        /\ HasAudio(s.out) <=> "audio" \in a.types \cap a.locals
        /\ \A k : Has(s.out, k) => k = "transport-info"
        /\ Once(s.out, "session-accept")
      BY <1>4, LocalsFlushed
  <2>2. /\ s.dlg = a.dlg /\ s.rtp = a.rtp /\ s.types = a.types /\ s.named = a.named
        /\ s.resolving = a.resolving /\ s.waiting = a.waiting /\ s.ice = a.ice
        /\ s.started = a.started /\ s.ready = a.ready /\ s.gathered = a.gathered
        /\ s.locals = a.locals \ a.types /\ s.remotes = a.remotes /\ s.known = a.known
        /\ s.peer = a.peer /\ s.added = a.added /\ s.prov = a.prov /\ s.media = a.media
        /\ s.connected = a.connected /\ s.accepted = a.accepted /\ s.activated = a.activated
        /\ s.timer = a.timer /\ s.posted = a.posted
      BY <1>4, LocalsFlushed
  <2> HIDE DEF s
  <2>3. /\ s.dlg = "calling" /\ s.types = d.types /\ s.prov = d.prov /\ d.prov
        /\ s.added = d.added /\ s.remotes = d.remotes
      BY <1>1, <1>5, <1>7, <2>2
  <2>4. CalleeSound(s)
      BY <1>1, <1>2, <1>5, <2>1, <2>2 DEF CalleeSound, Resting, Session
  <2>5. ~Has(s.out, "result") /\ ~Has(s.out, "session-accept")
      BY <2>1
  <2>6. "audio" \in s.gathered => "audio" \in d.gathered \/ HasAudio(s.out)
    <3>1. i = "audio" => "audio" \in a.types \cap a.locals
        BY <1>1, <1>3, <1>5
    <3>2. QED
        BY <1>3, <1>5, <2>1, <2>2, <3>1
  <2>7. CalleeMoves(d, s, m)
      BY <1>1, <2>1, <2>3, <2>4, <2>5, <2>6 DEF CalleeMoves
  <2>8. QED
      BY <1>7, <2>7 DEF s
<1>8. QED
    BY <1>6, <1>7

\* A component of the callee's connects.
LEMMA CalleeReady ==
    ASSUME NEW d \in Session, CalleeSound(d), d.out = <<>>, NEW i \in d.ice \cap d.peer,
           NEW n \in Component, NEW m, m.kind = "nothing"
    PROVE  LET a == [d EXCEPT !.ready = @ \cup {<<i, n>>}]
           IN  CalleeMoves(d, IF a.types \X Component \subseteq a.ready
                              THEN AfterIceConnected("callee", [a EXCEPT !.connected = TRUE])
                              ELSE a, m)
<1> DEFINE r == d.ready \cup {<<i, n>>}
           a == [d EXCEPT !.ready = r]
           b == [a EXCEPT !.connected = TRUE]
<1>1. d.dlg = "calling" /\ "audio" \in d.types /\ ~d.resolving
  <2>1. d.dlg \in {"ringing", "calling", "active"}
      BY NotResting DEF CalleeSound
  <2>2. d.dlg = "calling"
      BY <2>1 DEF CalleeSound
  <2>3. QED
      BY <2>2 DEF CalleeSound
<1>2. r \in SUBSET (Media \X Component) /\ r \subseteq {"audio"} \X Component
  <2>1. i = "audio" /\ i \in Media
      BY DEF CalleeSound, Session
  <2>2. QED
      BY <2>1 DEF CalleeSound, Session
<1> HIDE DEF r
<1>3. a \in Session /\ a.out = <<>>
    BY <1>2 DEF Session
<1>4. /\ a.dlg = d.dlg /\ a.rtp = d.rtp /\ a.types = d.types /\ a.named = d.named
      /\ a.resolving = d.resolving /\ a.waiting = d.waiting /\ a.ice = d.ice
      /\ a.started = d.started /\ a.ready = r /\ a.gathered = d.gathered
      /\ a.locals = d.locals /\ a.remotes = d.remotes /\ a.known = d.known
      /\ a.peer = d.peer /\ a.added = d.added /\ a.prov = d.prov /\ a.media = d.media
      /\ a.connected = d.connected /\ a.accepted = d.accepted /\ a.activated = d.activated
      /\ a.timer = d.timer /\ a.posted = d.posted
    BY DEF Session
<1>5. b \in Session /\ b.out = <<>>
    BY <1>3 DEF Session
<1>6. /\ b.dlg = a.dlg /\ b.rtp = a.rtp /\ b.types = a.types /\ b.named = a.named
      /\ b.resolving = a.resolving /\ b.waiting = a.waiting /\ b.ice = a.ice
      /\ b.started = a.started /\ b.ready = a.ready /\ b.gathered = a.gathered
      /\ b.locals = a.locals /\ b.remotes = a.remotes /\ b.known = a.known
      /\ b.peer = a.peer /\ b.added = a.added /\ b.prov = a.prov /\ b.media = a.media
      /\ b.connected = TRUE /\ b.accepted = a.accepted /\ b.activated = a.activated
      /\ b.timer = a.timer /\ b.posted = a.posted
    BY <1>3 DEF Session
<1> SUFFICES CalleeMoves(d, IF a.types \X Component \subseteq a.ready
                            THEN AfterIceConnected("callee", b) ELSE a, m)
    BY DEF r
<1> HIDE DEF a, b
<1>7. CASE ~(a.types \X Component \subseteq a.ready)
  <2>1. CalleeSound(a)
      BY <1>1, <1>2, <1>3, <1>4 DEF CalleeSound, Resting, Session
  <2>2. CalleeMoves(d, a, m)
      BY <1>1, <1>3, <1>4, <2>1, NoneHas DEF CalleeMoves
  <2>3. QED
      BY <1>7, <2>2
<1>8. CASE a.types \X Component \subseteq a.ready
  <2>1. d.types = {"audio"}
    <3>1. \A t \in d.types : t = "audio"
      <4>1. 0 \in Component
          BY DEF Component
      <4>2. \A t \in d.types : <<t, 0>> \in {"audio"} \X Component
          BY <1>2, <1>4, <1>8, <4>1
      <4>3. QED
          BY <4>2
    <3>2. QED
        BY <1>1, <3>1
  <2>2. CalleeSound(b)
      BY <1>1, <1>2, <1>4, <1>5, <1>6, <2>1 DEF CalleeSound, Resting, Session
  <2>3. CalleeMoves(d, b, m)
      BY <1>1, <1>4, <1>5, <1>6, <2>2, NoneHas DEF CalleeMoves
  <2>4. CalleeMoves(d, tryActivated(tryAccept(b)), m)
      BY <1>1, <1>4, <1>5, <1>6, <2>3, CalleeAccepts
  <2>5. QED
      BY <1>8, <2>4 DEF AfterIceConnected
<1>9. QED
    BY <1>7, <1>8

\* Candidates of the caller.
LEMMA CalleeCandidates ==
    ASSUME NEW d \in Session, CalleeSound(d), d.out = <<>>,
           d.dlg \in {"ringing", "calling", "active"},
           NEW m, m.kind = "transport-info", m.media \in SUBSET Media
    PROVE  CalleeMoves(d, ReceiveCandidates(d, m), m)
<1> DEFINE f == Found(m.media, d.types \cap d.named)
           n == d.known \cup f
           r == d.remotes \cup f
           a == [d EXCEPT !.known = n, !.remotes = r]
           s == IF a.prov THEN flushRemoteCandidates(a) ELSE a
<1>1. /\ f \in SUBSET Media /\ f \subseteq {"audio"}
      /\ "audio" \in m.media => f = {"audio"}
    BY FoundAudio DEF CalleeSound
<1>2. /\ n \in SUBSET Media /\ r \in SUBSET Media /\ n \subseteq {"audio"}
      /\ "audio" \in m.media \/ "audio" \in d.remotes => "audio" \in r
    BY <1>1 DEF CalleeSound, Session
<1>3. ReceiveCandidates(d, m) = s
    BY DEF ReceiveCandidates
<1> HIDE DEF n, r
<1>4. a \in Session /\ a.out = <<>>
    BY <1>2 DEF Session
<1>5. /\ a.dlg = d.dlg /\ a.rtp = d.rtp /\ a.types = d.types /\ a.named = d.named
      /\ a.resolving = d.resolving /\ a.waiting = d.waiting /\ a.ice = d.ice
      /\ a.started = d.started /\ a.ready = d.ready /\ a.gathered = d.gathered
      /\ a.locals = d.locals /\ a.remotes = r /\ a.known = n /\ a.peer = d.peer
      /\ a.added = d.added /\ a.prov = d.prov /\ a.media = d.media
      /\ a.connected = d.connected /\ a.accepted = d.accepted /\ a.activated = d.activated
      /\ a.timer = d.timer /\ a.posted = d.posted
    BY DEF Session
<1> HIDE DEF a
<1>6. s \in Session /\ s.out = <<>>
    BY <1>4, RemotesFlushed
<1>7. /\ s.dlg = a.dlg /\ s.rtp = a.rtp /\ s.types = a.types /\ s.named = a.named
      /\ s.resolving = a.resolving /\ s.waiting = a.waiting /\ s.ice = a.ice
      /\ s.started = a.started /\ s.ready = a.ready /\ s.gathered = a.gathered
      /\ s.locals = a.locals /\ s.known = a.known /\ s.prov = a.prov /\ s.media = a.media
      /\ s.connected = a.connected /\ s.accepted = a.accepted /\ s.activated = a.activated
      /\ s.timer = a.timer /\ s.posted = a.posted
    BY <1>4, RemotesFlushed
<1>8. IF a.prov THEN /\ s.peer = a.peer \cup ((a.types \cap a.ice) \cap a.known)
                     /\ s.added = a.added \cup ((a.types \cap a.ice) \cap a.remotes)
                ELSE s.peer = a.peer /\ s.added = a.added /\ s.remotes = a.remotes
    BY <1>4, RemotesFlushed
<1> HIDE DEF s
<1>9. s.peer \subseteq {"audio"}
    BY <1>2, <1>5, <1>8 DEF CalleeSound
<1>10. /\ "audio" \in d.added => "audio" \in s.added
       /\ d.prov /\ d.dlg \in {"ringing", "calling"} /\ "audio" \in r => "audio" \in s.added
       /\ ~d.prov => s.remotes = r
  <2>1. d.prov /\ d.dlg \in {"ringing", "calling"} => "audio" \in d.types \cap d.ice
      BY DEF CalleeSound
  <2>2. QED
      BY <1>5, <1>8, <2>1
<1>11. /\ s.dlg = d.dlg /\ s.rtp = d.rtp /\ s.types = d.types /\ s.named = d.named
       /\ s.resolving = d.resolving /\ s.waiting = d.waiting /\ s.ice = d.ice
       /\ s.started = d.started /\ s.ready = d.ready /\ s.gathered = d.gathered
       /\ s.known = n /\ s.prov = d.prov /\ s.media = d.media
       /\ s.connected = d.connected /\ s.accepted = d.accepted /\ s.activated = d.activated
       /\ s.timer = d.timer /\ s.posted = d.posted
    BY <1>5, <1>7
<1>12. CalleeSound(s)
    BY <1>2, <1>6, <1>9, <1>11 DEF CalleeSound, Resting, Session
<1>13. CalleeMoves(d, s, m)
    BY <1>2, <1>6, <1>10, <1>11, <1>12, NoneHas DEF CalleeMoves
<1>14. QED
    BY <1>3, <1>13

\* A call that is over, whatever is read.
LEMMA CallerEnded ==
    ASSUME NEW c \in Session, CallerSound(c), c.out = <<>>, c.dlg = "ended", NEW m
    PROVE  CallerMoves(c, c, m)
<1>1. c = Rest("ended", <<>>)
    BY DEF CallerSound, Resting
<1>2. QED
    BY <1>1, NoneHas, CallerOver

\* What does not concern the callee.
LEMMA CalleeIgnores ==
    ASSUME NEW d \in Session, CalleeSound(d), d.out = <<>>,
           NEW m, m.kind = "session-initiate" => d.dlg # "none",
           m.kind = "transport-info" => d.dlg \notin {"ringing", "calling", "active"}
    PROVE  CalleeMoves(d, d, m)
    BY NoneHas DEF CalleeMoves, Session

--------------------------------------------------------------------------------
(* The actions.                                                                *)

Nothing == [kind |-> "nothing", media |-> {}]

LEMMA Parts ==
    ASSUME CallSound
    PROVE  /\ side["caller"] \in Session /\ side["callee"] \in Session
           /\ side["caller"].out = <<>> /\ side["callee"].out = <<>>
           /\ CallerSound(side["caller"]) /\ CalleeSound(side["callee"])
           /\ net["caller"] \in Seq(ToCaller) /\ net["callee"] \in Seq(ToCallee)
           /\ Side = {"caller", "callee"}
           /\ Linked(side["caller"], side["callee"], net["caller"], net["callee"])
    BY DEF CallSound, Side

\* A step without reading.
LEMMA CallerActs ==
    ASSUME CallSound, NEW s, Becomes("caller", s), CallerMoves(side["caller"], s, Nothing)
    PROVE  CallSound'
<1>1. Reads(net["caller"], 0, Nothing, net["caller"])
    BY DEF Reads, Nothing
<1>2. QED
    BY <1>1, CallerStep DEF Becomes

LEMMA CalleeActs ==
    ASSUME CallSound, NEW s, Becomes("callee", s), CalleeMoves(side["callee"], s, Nothing)
    PROVE  CallSound'
<1>1. Reads(net["callee"], 0, Nothing, net["callee"])
    BY DEF Reads, Nothing
<1>2. QED
    BY <1>1, CalleeStep DEF Becomes

LEMMA CallerRejects ==
    ASSUME CallSound, AvReject("caller")
    PROVE  CallSound'
<1> DEFINE c == side["caller"]
<1>1. c \in Session /\ c.out = <<>>
    BY Parts
<1>2. PICK s \in (IF HasSession("caller") THEN Reject("caller", c) ELSE {c}) :
          Becomes("caller", Over(s, "ended"))
    BY DEF AvReject
<1>3. \/ s.out = <<>>
      \/ \E k \in {"session-terminate", "terminate-nothing"} : s.out = <<[kind |-> k, media |-> {}]>>
  <2>1. s \in {c, Say(c, "terminate-nothing", {}), Say(c, "session-terminate", {})}
      BY <1>2 DEF Reject
  <2>2. ASSUME NEW k PROVE Say(c, k, {}).out = <<[kind |-> k, media |-> {}]>>
    <3>1. Say(c, k, {}) = [c EXCEPT !.out = <<[kind |-> k, media |-> {}]>>]
        BY <1>1, Said
    <3>2. QED
        BY <1>1, <3>1 DEF Session
  <2>3. QED
      BY <1>1, <2>1, <2>2
<1>4. /\ s.out \in Seq(ToCallee)
      /\ ~Has(s.out, "session-initiate") /\ ~Has(s.out, "transport-info")
  <2>1. CASE s.out = <<>>
      BY <2>1, NoneHas
  <2>2. ASSUME NEW k \in {"session-terminate", "terminate-nothing"},
               s.out = <<[kind |-> k, media |-> {}]>>
        PROVE  /\ s.out \in Seq(ToCallee)
               /\ ~Has(s.out, "session-initiate") /\ ~Has(s.out, "transport-info")
    <3> DEFINE x == [kind |-> k, media |-> {}]
    <3>1. x \in ToCallee /\ x.kind = k
        BY DEF ToCallee
    <3>2. s.out = <<x>>
        BY <2>2
    <3> HIDE DEF x
    <3>3. s.out \in Seq(ToCallee)
        BY <3>1, <3>2
    <3>4. ~Has(s.out, "session-initiate") /\ ~Has(s.out, "transport-info")
        BY <3>1, <3>2, OneHas
    <3>5. QED
        BY <3>3, <3>4
  <2>3. QED
      BY <1>3, <2>1, <2>2
<1>5. Over(s, "ended") = Rest("ended", s.out)
    BY OverRests
<1>6. CallerMoves(c, Over(s, "ended"), Nothing)
    BY <1>4, <1>5, CallerOver
<1>7. QED
    BY <1>2, <1>6, CallerActs

LEMMA CalleeRejects ==
    ASSUME CallSound, AvReject("callee"), side["callee"].dlg \in {"ringing", "calling", "active"}
    PROVE  CallSound'
<1> DEFINE d == side["callee"]
           r == [kind |-> "result", media |-> {}]
           t == [kind |-> "session-terminate", media |-> {}]
<1>1. d \in Session /\ d.out = <<>>
    BY Parts
<1>2. PICK s \in Reject("callee", d) : Becomes("callee", Over(s, "ended"))
    BY DEF AvReject, HasSession
<1>3. s = Say(IF d.prov THEN d ELSE Say(d, "result", {}), "session-terminate", {})
    BY <1>2 DEF Reject
<1>4. /\ r \in ToCaller /\ t \in ToCaller /\ r.kind = "result" /\ t.kind = "session-terminate"
    BY DEF ToCaller
<1>5. s.out \in {<<t>>, <<r>> \o <<t>>}
  <2>1. CASE d.prov
    <3>1. s = [d EXCEPT !.out = <<t>>]
        BY <1>1, <1>3, <2>1, Said
    <3>2. QED
        BY <1>1, <3>1 DEF Session
  <2>2. CASE ~d.prov
    <3> DEFINE e == [d EXCEPT !.out = <<r>>]
    <3>1. Say(d, "result", {}) = e
        BY <1>1, Said
    <3>2. s = [e EXCEPT !.out = Append(@, t)]
        BY <1>3, <2>2, <3>1 DEF Say
    <3>3. e \in Session /\ e.out = <<r>>
      <4>1. <<r>> \in Seq(Stanza)
          BY <1>4, StanzaKinds
      <4> HIDE DEF r
      <4>2. QED
          BY <1>1, <4>1 DEF Session
    <3> HIDE DEF e
    <3>4. s.out = Append(<<r>>, t)
        BY <3>2, <3>3 DEF Session
    <3> HIDE DEF r, t
    <3>5. Append(<<r>>, t) = <<r>> \o <<t>>
        BY <1>4, AppendIsConcat
    <3>6. QED
        BY <3>4, <3>5
  <2>3. QED
      BY <2>1, <2>2
<1> HIDE DEF r, t
<1>6. /\ s.out \in Seq(ToCaller)
      /\ ~Has(s.out, "session-accept") /\ ~Has(s.out, "transport-info")
  <2>1. CASE s.out = <<t>>
      BY <1>4, <2>1, OneHas
  <2>2. CASE s.out = <<r>> \o <<t>>
    <3>1. <<r>> \in Seq(ToCaller) /\ <<t>> \in Seq(ToCaller)
        BY <1>4
    <3>2. s.out \in Seq(ToCaller)
        BY <2>2, <3>1, ConcatProperties
    <3>3. \A k : Has(<<r>> \o <<t>>, k) <=> Has(<<r>>, k) \/ Has(<<t>>, k)
        BY <3>1, JoinedHas
    <3>4. \A k : (Has(<<r>>, k) <=> k = "result") /\ (Has(<<t>>, k) <=> k = "session-terminate")
        BY <1>4, OneHas
    <3>5. QED
        BY <2>2, <3>2, <3>3, <3>4
  <2>3. QED
      BY <1>5, <2>1, <2>2
<1>7. Over(s, "ended") = Rest("ended", s.out)
    BY OverRests
<1>8. CalleeMoves(d, Over(s, "ended"), Nothing)
    BY <1>6, <1>7, CalleeOver
<1>9. QED
    BY <1>2, <1>8, CalleeActs

\* Either side rejects.
LEMMA Rejects ==
    ASSUME CallSound, NEW p \in Side, AvReject(p),
           p = "callee" => side[p].dlg \in {"ringing", "calling", "active"}
    PROVE  CallSound'
    BY Parts, CallerRejects, CalleeRejects

LEMMA Busy ==
    ASSUME CallSound, NEW p \in Side,
           side[p].rtp # "off" \/ side[p].ice # {} \/ side[p].timer \/ side[p].posted \/ side[p].resolving
    PROVE  side[p].dlg \in {"ringing", "calling", "active"}
<1>1. side[p] \in Session /\ Resting(side[p])
    BY Parts DEF CallerSound, CalleeSound
<1>2. QED
    BY <1>1, NotResting

LEMMA StepCall == CallSound /\ Call => CallSound'
<1> SUFFICES ASSUME CallSound, Call PROVE CallSound'
    OBVIOUS
<1> DEFINE c == side["caller"]
<1>1. c \in Session /\ c.out = <<>> /\ CallerSound(c)
    BY Parts
<1>2. c.dlg = "none" /\ Nothing.kind = "nothing"
    BY DEF Call, Nothing
<1>3. CASE \E offer \in Offers :
               Becomes("caller", [c EXCEPT !.dlg = "calling", !.rtp = "starting", !.types = offer])
    BY <1>1, <1>2, <1>3, CallerCalls, CallerActs
<1>4. CASE Becomes("caller", Over(Idle, "ended"))
  <2>1. Idle.out = <<>>
      BY DEF Idle
  <2>2. Over(Idle, "ended") = Rest("ended", <<>>)
      BY <2>1, OverRests
  <2>3. CallerMoves(c, Over(Idle, "ended"), Nothing)
      BY <2>2, NoneHas, CallerOver
  <2>4. QED
      BY <1>4, <2>3, CallerActs
<1>5. QED
    BY <1>3, <1>4 DEF Call

LEMMA StepAnswer == CallSound /\ Answer => CallSound'
<1> SUFFICES ASSUME CallSound, Answer PROVE CallSound'
    OBVIOUS
<1> DEFINE d == side["callee"]
<1>1. d \in Session /\ d.out = <<>> /\ CalleeSound(d)
    BY Parts
<1>2. d.dlg = "ringing" /\ Nothing.kind = "nothing"
    BY DEF Answer, Nothing
<1>3. CASE \E types \in Answers :
               Becomes("callee", [d EXCEPT !.dlg = "calling", !.types = types,
                                           !.resolving = TRUE, !.rtp = "starting"])
    BY <1>1, <1>2, <1>3, CalleeAnswers, CalleeActs
<1>4. CASE Becomes("callee", Over(d, "dropped"))
  <2>1. Over(d, "dropped") = Rest("dropped", <<>>)
      BY <1>1, OverRests
  <2>2. CalleeMoves(d, Over(d, "dropped"), Nothing)
      BY <1>2, <2>1, NoneHas, CalleeOver
  <2>3. QED
      BY <1>4, <2>2, CalleeActs
<1>5. QED
    BY <1>3, <1>4 DEF Answer

LEMMA StepCloseUnanswered == CallSound /\ CloseUnanswered => CallSound'
<1> SUFFICES ASSUME CallSound, CloseUnanswered PROVE CallSound'
    OBVIOUS
<1> DEFINE d == side["callee"]
<1>1. d \in Session /\ d.out = <<>> /\ d.dlg = "ringing" /\ Becomes("callee", Over(d, "dropped"))
    BY Parts DEF CloseUnanswered
<1>2. Over(d, "dropped") = Rest("dropped", <<>>)
    BY <1>1, OverRests
<1>3. CalleeMoves(d, Over(d, "dropped"), Nothing)
    BY <1>1, <1>2, NoneHas, CalleeOver
<1>4. QED
    BY <1>1, <1>3, CalleeActs

\* All the ways a call is rejected.
LEMMA StepRejects ==
    ASSUME CallSound, NEW p \in Side,
           \/ Decline /\ p = "callee"
           \/ HangUp(p) \/ RtpError(p) \/ IceError(p) \/ HandshakeTimeout(p)
    PROVE  CallSound'
<1>1. AvReject(p)
    BY DEF Decline, HangUp, RtpError, IceError, HandshakeTimeout
<1>2. side[p].dlg \in {"ringing", "calling", "active"}
  <2>1. CASE Decline /\ p = "callee"
      BY <2>1 DEF Decline
  <2>2. CASE HangUp(p)
      BY <2>2 DEF HangUp
  <2>3. CASE RtpError(p) \/ IceError(p) \/ HandshakeTimeout(p)
      BY <2>3, Busy DEF RtpError, IceError, HandshakeTimeout
  <2>4. QED
      BY <2>1, <2>2, <2>3
<1>3. QED
    BY <1>1, <1>2, Rejects

LEMMA StepRtpStarted == \A p \in Side : CallSound /\ RtpStarted(p) => CallSound'
<1> SUFFICES ASSUME CallSound, NEW p \in Side, RtpStarted(p) PROVE CallSound'
    OBVIOUS
<1> DEFINE c == side["caller"]
           d == side["callee"]
<1>1. /\ c \in Session /\ c.out = <<>> /\ CallerSound(c)
      /\ d \in Session /\ d.out = <<>> /\ CalleeSound(d)
      /\ p \in {"caller", "callee"} /\ Nothing.kind = "nothing"
    BY Parts DEF Nothing
<1>2. CASE p = "caller"
  <2> DEFINE s == [c EXCEPT !.rtp = "started", !.media = TRUE, !.resolving = TRUE]
  <2>1. c.rtp = "starting" /\ Becomes("caller", s)
      BY <1>2 DEF RtpStarted
  <2>2. CallerMoves(c, s, Nothing)
      BY <1>1, <2>1, CallerRtpStarted
  <2>3. QED
      BY <2>1, <2>2, CallerActs
<1>3. CASE p = "callee"
  <2> DEFINE a == [d EXCEPT !.rtp = "started", !.media = TRUE]
  <2>1. d.rtp = "starting" /\ Becomes("callee", tryActivated(tryAccept(a)))
      BY <1>3 DEF RtpStarted
  <2>2. CalleeMoves(d, a, Nothing) /\ a.out = <<>> /\ a.dlg = d.dlg /\ d.dlg = "calling"
      BY <1>1, <2>1, CalleeRtpStarted
  <2> HIDE DEF a
  <2>3. CalleeMoves(d, tryActivated(tryAccept(a)), Nothing)
      BY <2>2, CalleeAccepts
  <2>4. QED
      BY <2>1, <2>3, CalleeActs
<1>4. QED
    BY <1>1, <1>2, <1>3

LEMMA StepResolverFinished == \A p \in Side : CallSound /\ ResolverFinished(p) => CallSound'
<1> SUFFICES ASSUME CallSound, NEW p \in Side, ResolverFinished(p) PROVE CallSound'
    OBVIOUS
<1> DEFINE c == side["caller"]
           d == side["callee"]
<1>1. /\ c \in Session /\ c.out = <<>> /\ CallerSound(c)
      /\ d \in Session /\ d.out = <<>> /\ CalleeSound(d)
      /\ p \in {"caller", "callee"} /\ Nothing.kind = "nothing"
    BY Parts DEF Nothing
<1>2. CASE p = "caller"
  <2> DEFINE s == [c EXCEPT !.resolving = FALSE, !.ice = c.types]
  <2>1. c.resolving /\ Becomes("caller", s)
      BY <1>2 DEF ResolverFinished
  <2>2. CallerMoves(c, s, Nothing)
      BY <1>1, <2>1, CallerResolves
  <2>3. QED
      BY <2>1, <2>2, CallerActs
<1>3. CASE p = "callee"
  <2> DEFINE s == [d EXCEPT !.resolving = FALSE, !.ice = d.types]
  <2>1. d.resolving /\ Becomes("callee", s)
      BY <1>3 DEF ResolverFinished
  <2>2. CalleeMoves(d, s, Nothing)
      BY <1>1, <2>1, CalleeResolves
  <2>3. QED
      BY <2>1, <2>2, CalleeActs
<1>4. QED
    BY <1>1, <1>2, <1>3

LEMMA StepIceStarted == \A p \in Side, m \in Media : CallSound /\ IceStarted(p, m) => CallSound'
<1> SUFFICES ASSUME CallSound, NEW p \in Side, NEW m \in Media, IceStarted(p, m) PROVE CallSound'
    OBVIOUS
<1> DEFINE c == side["caller"]
           d == side["callee"]
<1>1. /\ c \in Session /\ c.out = <<>> /\ CallerSound(c)
      /\ d \in Session /\ d.out = <<>> /\ CalleeSound(d)
      /\ p \in {"caller", "callee"} /\ Nothing.kind = "nothing"
    BY Parts DEF Nothing
<1>2. CASE p = "caller"
  <2> DEFINE a == [c EXCEPT !.started = @ \cup {m}]
             s == IF a.types \subseteq a.started THEN AfterIceStarted("caller", a) ELSE a
  <2>1. m \in c.ice \ c.started /\ Becomes("caller", s)
      BY <1>2 DEF IceStarted
  <2>2. CallerMoves(c, s, Nothing)
      BY <1>1, <2>1, CallerIceStarted
  <2>3. QED
      BY <2>1, <2>2, CallerActs
<1>3. CASE p = "callee"
  <2> DEFINE a == [d EXCEPT !.started = @ \cup {m}]
             s == IF a.types \subseteq a.started THEN AfterIceStarted("callee", a) ELSE a
  <2>1. m \in d.ice \ d.started /\ Becomes("callee", s)
      BY <1>3 DEF IceStarted
  <2>2. CalleeMoves(d, s, Nothing)
      BY <1>1, <2>1, CalleeIceStarted
  <2>3. QED
      BY <2>1, <2>2, CalleeActs
<1>4. QED
    BY <1>1, <1>2, <1>3

LEMMA StepLocalCandidatesReady ==
    \A p \in Side, m \in Media : CallSound /\ LocalCandidatesReady(p, m) => CallSound'
<1> SUFFICES ASSUME CallSound, NEW p \in Side, NEW m \in Media, LocalCandidatesReady(p, m)
             PROVE  CallSound'
    OBVIOUS
<1> DEFINE c == side["caller"]
           d == side["callee"]
<1>1. /\ c \in Session /\ c.out = <<>> /\ CallerSound(c)
      /\ d \in Session /\ d.out = <<>> /\ CalleeSound(d)
      /\ p \in {"caller", "callee"} /\ Nothing.kind = "nothing"
    BY Parts DEF Nothing
<1>2. CASE p = "caller"
  <2> DEFINE a == [c EXCEPT !.gathered = @ \cup {m}, !.locals = @ \cup {m}]
             s == IF a.prov THEN flushLocalCandidates(a) ELSE a
  <2>1. m \in c.ice \cap c.started /\ Becomes("caller", s)
      BY <1>2 DEF LocalCandidatesReady
  <2>2. CallerMoves(c, s, Nothing)
      BY <1>1, <2>1, CallerLocal
  <2>3. QED
      BY <2>1, <2>2, CallerActs
<1>3. CASE p = "callee"
  <2> DEFINE a == [d EXCEPT !.gathered = @ \cup {m}, !.locals = @ \cup {m}]
             s == IF a.prov THEN flushLocalCandidates(a) ELSE a
  <2>1. m \in d.ice \cap d.started /\ Becomes("callee", s)
      BY <1>3 DEF LocalCandidatesReady
  <2>2. CalleeMoves(d, s, Nothing)
      BY <1>1, <2>1, CalleeLocal
  <2>3. QED
      BY <2>1, <2>2, CalleeActs
<1>4. QED
    BY <1>1, <1>2, <1>3

\* The connections of the caller's ICE.
LEMMA CallerReady ==
    ASSUME NEW c \in Session, CallerSound(c), c.out = <<>>, NEW i \in c.ice, NEW n \in Component,
           NEW m, m.kind = "nothing"
    PROVE  LET a == [c EXCEPT !.ready = @ \cup {<<i, n>>}]
           IN  CallerMoves(c, IF a.types \X Component \subseteq a.ready
                              THEN AfterIceConnected("caller", [a EXCEPT !.connected = TRUE])
                              ELSE a, m)
<1> DEFINE r == c.ready \cup {<<i, n>>}
           a == [c EXCEPT !.ready = r]
           b == [a EXCEPT !.connected = TRUE]
<1>1. c.dlg \in {"calling", "active"}
    BY NotResting DEF CallerSound
<1>2. r \in SUBSET (Media \X Component)
    BY DEF Session
<1> HIDE DEF r
<1>3. a \in Session /\ a.out = <<>>
    BY <1>2 DEF Session
<1>4. /\ a.dlg = c.dlg /\ a.rtp = c.rtp /\ a.types = c.types /\ a.named = c.named
      /\ a.resolving = c.resolving /\ a.waiting = c.waiting /\ a.ice = c.ice
      /\ a.started = c.started /\ a.gathered = c.gathered /\ a.locals = c.locals
      /\ a.added = c.added /\ a.prov = c.prov /\ a.accepted = c.accepted
      /\ a.activated = c.activated /\ a.timer = c.timer
    BY DEF Session
<1> SUFFICES CallerMoves(c, IF a.types \X Component \subseteq a.ready
                            THEN AfterIceConnected("caller", b) ELSE a, m)
    BY DEF r
<1> HIDE DEF a
<1>5. b \in Session /\ b.out = <<>>
    BY <1>3 DEF Session
<1>6. /\ b.dlg = a.dlg /\ b.rtp = a.rtp /\ b.types = a.types /\ b.named = a.named
      /\ b.resolving = a.resolving /\ b.waiting = a.waiting /\ b.ice = a.ice
      /\ b.started = a.started /\ b.gathered = a.gathered /\ b.locals = a.locals
      /\ b.added = a.added /\ b.prov = a.prov /\ b.accepted = a.accepted
      /\ b.activated = a.activated /\ b.timer = a.timer
    BY <1>3 DEF Session
<1> HIDE DEF b
<1>7. Resting(a) /\ Resting(b)
    BY <1>1, <1>4, <1>6 DEF Resting
<1>8. CallerMoves(c, a, m)
    BY <1>3, <1>4, <1>7, CallerAside
<1>9. CallerMoves(c, b, m)
    BY <1>4, <1>5, <1>6, <1>7, CallerAside
<1>10. CallerMoves(c, AfterIceConnected("caller", b), m)
    BY <1>9, CallerActivated DEF AfterIceConnected
<1>11. QED
    BY <1>8, <1>10

LEMMA StepComponentReady ==
    \A p \in Side, m \in Media, i \in Component : CallSound /\ ComponentReady(p, m, i) => CallSound'
<1> SUFFICES ASSUME CallSound, NEW p \in Side, NEW m \in Media, NEW i \in Component,
                    ComponentReady(p, m, i)
             PROVE  CallSound'
    OBVIOUS
<1> DEFINE c == side["caller"]
           d == side["callee"]
<1>1. /\ c \in Session /\ c.out = <<>> /\ CallerSound(c)
      /\ d \in Session /\ d.out = <<>> /\ CalleeSound(d)
      /\ p \in {"caller", "callee"} /\ Nothing.kind = "nothing"
    BY Parts DEF Nothing
<1>2. m \in side[p].ice \cap side[p].peer
    BY DEF ComponentReady, Reachable
<1>3. CASE p = "caller"
  <2> DEFINE a == [c EXCEPT !.ready = @ \cup {<<m, i>>}]
             s == IF a.types \X Component \subseteq a.ready
                  THEN AfterIceConnected("caller", [a EXCEPT !.connected = TRUE]) ELSE a
  <2>1. m \in c.ice /\ Becomes("caller", s)
      BY <1>2, <1>3 DEF ComponentReady
  <2>2. CallerMoves(c, s, Nothing)
      BY <1>1, <2>1, CallerReady
  <2>3. QED
      BY <2>1, <2>2, CallerActs
<1>4. CASE p = "callee"
  <2> DEFINE a == [d EXCEPT !.ready = @ \cup {<<m, i>>}]
             s == IF a.types \X Component \subseteq a.ready
                  THEN AfterIceConnected("callee", [a EXCEPT !.connected = TRUE]) ELSE a
  <2>1. m \in d.ice \cap d.peer /\ Becomes("callee", s)
      BY <1>2, <1>4 DEF ComponentReady
  <2>2. CalleeMoves(d, s, Nothing)
      BY <1>1, <2>1, CalleeReady
  <2>3. QED
      BY <2>1, <2>2, CalleeActs
<1>5. QED
    BY <1>1, <1>3, <1>4

\* Only a caller has it posted.
LEMMA StepPosted == \A p \in Side : CallSound /\ Posted(p) => CallSound'
<1> SUFFICES ASSUME CallSound, NEW p \in Side, Posted(p) PROVE CallSound'
    OBVIOUS
<1> DEFINE c == side["caller"]
           a == [c EXCEPT !.posted = FALSE]
<1>1. /\ c \in Session /\ c.out = <<>> /\ CallerSound(c)
      /\ p \in {"caller", "callee"} /\ Nothing.kind = "nothing"
    BY Parts DEF Nothing
<1>2. p = "caller"
    BY <1>1, Parts DEF Posted, CalleeSound
<1>3. c.posted /\ Becomes("caller", tryActivated(a))
    BY <1>2 DEF Posted
<1>4. c.dlg \in {"calling", "active"}
    BY <1>1, <1>3, NotResting DEF CallerSound
<1>5. a \in Session /\ a.out = <<>>
    BY <1>1 DEF Session
<1>6. /\ a.dlg = c.dlg /\ a.rtp = c.rtp /\ a.types = c.types /\ a.named = c.named
      /\ a.resolving = c.resolving /\ a.waiting = c.waiting /\ a.ice = c.ice
      /\ a.started = c.started /\ a.gathered = c.gathered /\ a.locals = c.locals
      /\ a.added = c.added /\ a.prov = c.prov /\ a.accepted = c.accepted
      /\ a.activated = c.activated /\ a.timer = c.timer
    BY <1>1 DEF Session
<1> HIDE DEF a, c
<1>7. Resting(a)
    BY <1>4, <1>6 DEF Resting
<1>8. CallerMoves(c, a, Nothing)
    BY <1>1, <1>5, <1>6, <1>7, CallerAside
<1>9. CallerMoves(c, tryActivated(a), Nothing)
    BY <1>8, CallerActivated
<1>10. QED
    BY <1>3, <1>9, CallerActs DEF c

--------------------------------------------------------------------------------
(* Stanzas arrive, return, and are lost.                                       *)

\* The stanza at the head of a queue is read.
LEMMA Taken ==
    ASSUME NEW S, NEW q \in Seq(S), q # <<>>
    PROVE  /\ Reads(q, 1, Head(q), Tail(q)) /\ Head(q) \in S
           /\ \A k : Head(q).kind = k => Has(q, k)
    BY TakenHas, HeadTailProperties DEF Reads

LEMMA StepReceiveCaller == CallSound /\ Receive("caller") => CallSound'
<1> SUFFICES ASSUME CallSound, Receive("caller") PROVE CallSound'
    OBVIOUS
<1> DEFINE c == side["caller"]
           d == side["callee"]
           q == net["caller"]
           m == Head(q)
           s == IF Concerns("caller", m) THEN Handled(c, m) ELSE c
<1>1. /\ c \in Session /\ c.out = <<>> /\ CallerSound(c) /\ d \in Session /\ CalleeSound(d)
      /\ q \in Seq(ToCaller) /\ Linked(c, d, q, net["callee"])
    BY Parts
<1>2. q # <<>> /\ Step("caller", s, 1)
    BY DEF Receive
<1>3. Reads(q, 1, m, Tail(q)) /\ m \in ToCaller /\ Has(q, m.kind)
    BY <1>1, <1>2, Taken
<1>4. HasSession("caller") <=> c.rtp = "started"
    BY DEF HasSession
<1> HIDE DEF s
<1> SUFFICES CallerMoves(c, s, m)
    BY <1>2, <1>3, CallerStep
<1> HIDE DEF c, d, q, m
<1>5. Offered(c, d, net["callee"]) /\ Heard(c, d, q, net["callee"]) /\ AcceptedOnce(c, d, q)
    BY <1>1 DEF Linked
<1>6. \/ c.dlg \in {"none", "ended"} /\ c.rtp = "off" /\ c.named = {}
      \/ c.dlg \in {"calling", "active"} /\ c.rtp \in {"starting", "started"}
  <2>1. c.dlg \in {"none", "ended", "dropped"} => c = Rest(c.dlg, c.out)
      BY <1>1 DEF CallerSound, Resting
  <2>2. c.dlg \in {"none", "ended", "dropped"} => c.rtp = "off" /\ c.named = {}
      BY <2>1, RestFields
  <2>3. QED
      BY <1>1, <2>2 DEF CallerSound, Session
<1>7. CASE m.kind = "result"
  <2>1. Concerns("caller", m) <=> c.waiting
      BY <1>7 DEF Concerns, c
  <2>2. CASE c.waiting
    <3>1. s = ReceiveResult(c)
        BY <1>7, <2>1, <2>2 DEF s, Handled
    <3>2. QED
        BY <1>1, <1>7, <2>2, <3>1, CallerResult
  <2>3. CASE ~c.waiting
    <3>1. s = c
        BY <2>1, <2>3 DEF s
    <3>2. d.dlg # "none"
        BY <1>3, <1>5, <1>7 DEF Heard
    <3>3. c.dlg = "ended" \/ c.named # {}
        BY <1>5, <3>2 DEF Offered
    <3>4. c.dlg \in {"active", "ended"} \/ c.prov
        BY <1>1, <2>3, <3>3 DEF CallerSound
    <3>5. QED
        BY <1>1, <1>7, <3>1, <3>4, CallerIgnores
  <2>4. QED
      BY <2>2, <2>3
<1>8. CASE m.kind = "session-accept"
  <2>1. d.dlg \in {"active", "ended"} /\ ~c.accepted
      BY <1>3, <1>5, <1>8 DEF AcceptedOnce
  <2>2. c.dlg = "ended" \/ c.named # {}
      BY <1>5, <2>1 DEF Offered
  <2>3. m.media = {"audio"}
      BY <1>3, <1>8 DEF ToCaller
  <2>4. Concerns("caller", m) <=> c.rtp = "started"
      BY <1>4, <1>8 DEF Concerns
  <2>5. CASE c.rtp = "started"
    <3>1. s = ReceiveAccept(c, m)
        BY <1>8, <2>4, <2>5 DEF s, Handled
    <3>2. c.named # {}
        BY <1>6, <2>2, <2>5
    <3>3. QED
        BY <1>1, <1>8, <2>1, <2>3, <2>5, <3>1, <3>2, CallerAccept
  <2>6. CASE c.rtp # "started"
    <3>1. s = c
        BY <2>4, <2>6 DEF s
    <3>2. c.dlg = "ended"
        BY <1>1, <1>6, <2>2, <2>6 DEF CallerSound
    <3>3. QED
        BY <1>1, <1>8, <3>1, <3>2, CallerEnded
  <2>7. QED
      BY <2>5, <2>6
<1>9. CASE m.kind = "transport-info"
  <2>1. Concerns("caller", m) <=> c.rtp = "started"
      BY <1>4, <1>9 DEF Concerns
  <2>2. m.media \in SUBSET Media
      BY <1>3, <1>9 DEF ToCaller
  <2>3. CASE c.rtp = "started"
    <3>1. s = ReceiveCandidates(c, m)
        BY <1>9, <2>1, <2>3 DEF s, Handled
    <3>2. QED
        BY <1>1, <1>9, <2>2, <2>3, <3>1, CallerCandidates
  <2>4. CASE c.rtp # "started"
    <3>1. s = c
        BY <2>1, <2>4 DEF s
    <3>2. QED
        BY <1>1, <1>9, <2>4, <3>1, CallerIgnores
  <2>5. QED
      BY <2>3, <2>4
<1>10. CASE m.kind \in {"error", "session-terminate"}
  <2>1. CASE Concerns("caller", m)
    <3>1. s = Over(c, "ended")
        BY <1>10, <2>1 DEF s, Handled
    <3>2. s = Rest("ended", <<>>)
        BY <1>1, <3>1, OverRests
    <3>3. QED
        BY <3>2, NoneHas, CallerOver
  <2>2. CASE ~Concerns("caller", m)
    <3>1. s = c
        BY <2>2 DEF s
    <3>2. QED
        BY <1>1, <1>10, <3>1, CallerIgnores
  <2>3. QED
      BY <2>1, <2>2
<1>11. QED
    BY <1>3, <1>7, <1>8, <1>9, <1>10 DEF ToCaller

LEMMA StepReceiveCallee == CallSound /\ Receive("callee") => CallSound'
<1> SUFFICES ASSUME CallSound, Receive("callee") PROVE CallSound'
    OBVIOUS
<1> DEFINE d == side["callee"]
           q == net["callee"]
           m == Head(q)
           s == IF Concerns("callee", m) THEN Handled(d, m) ELSE d
<1>1. d \in Session /\ d.out = <<>> /\ CalleeSound(d) /\ q \in Seq(ToCallee)
    BY Parts
<1>2. q # <<>> /\ Step("callee", s, 1)
    BY DEF Receive
<1>3. Reads(q, 1, m, Tail(q)) /\ m \in ToCallee
    BY <1>1, <1>2, Taken
<1>4. HasSession("callee") <=> d.dlg \in {"ringing", "calling", "active"}
    BY DEF HasSession
<1> HIDE DEF s
<1> SUFFICES CalleeMoves(d, s, m)
    BY <1>2, <1>3, CalleeStep
<1> HIDE DEF q, m
<1>5. CASE m.kind = "session-initiate"
  <2>1. Concerns("callee", m) <=> d.dlg = "none"
      BY <1>5 DEF Concerns
  <2>2. m.media \in SUBSET Media /\ "audio" \in m.media
      BY <1>3, <1>5 DEF ToCallee
  <2>3. CASE d.dlg = "none"
    <3>1. s = ReceiveInitiate(d, m)
        BY <1>5, <2>1, <2>3 DEF s, Handled
    <3>2. QED
        BY <1>1, <1>5, <2>2, <2>3, <3>1, CalleeInitiate
  <2>4. CASE d.dlg # "none"
    <3>1. s = d
        BY <2>1, <2>4 DEF s
    <3>2. QED
        BY <1>1, <1>5, <2>4, <3>1, CalleeIgnores
  <2>5. QED
      BY <2>3, <2>4
<1>6. CASE m.kind = "transport-info"
  <2>1. Concerns("callee", m) <=> d.dlg \in {"ringing", "calling", "active"}
      BY <1>4, <1>6 DEF Concerns
  <2>2. m.media \in SUBSET Media
      BY <1>3, <1>6 DEF ToCallee
  <2>3. CASE d.dlg \in {"ringing", "calling", "active"}
    <3>1. s = ReceiveCandidates(d, m)
        BY <1>6, <2>1, <2>3 DEF s, Handled
    <3>2. QED
        BY <1>1, <1>6, <2>2, <2>3, <3>1, CalleeCandidates
  <2>4. CASE d.dlg \notin {"ringing", "calling", "active"}
    <3>1. s = d
        BY <2>1, <2>4 DEF s
    <3>2. QED
        BY <1>1, <1>6, <2>4, <3>1, CalleeIgnores
  <2>5. QED
      BY <2>3, <2>4
<1>7. CASE m.kind \in {"session-terminate", "terminate-nothing"}
  <2>1. CASE Concerns("callee", m)
    <3>1. s = Over(d, "ended")
        BY <1>7, <2>1 DEF s, Handled
    <3>2. s = Rest("ended", <<>>)
        BY <1>1, <3>1, OverRests
    <3>3. d.dlg # "none"
        BY <1>4, <1>7, <2>1 DEF Concerns
    <3>4. QED
        BY <3>2, <3>3, NoneHas, CalleeOver
  <2>2. CASE ~Concerns("callee", m)
    <3>1. s = d
        BY <2>2 DEF s
    <3>2. QED
        BY <1>1, <1>7, <3>1, CalleeIgnores
  <2>3. QED
      BY <2>1, <2>2
<1>8. QED
    BY <1>3, <1>5, <1>6, <1>7 DEF ToCallee

LEMMA StepReceive == \A p \in Side : CallSound /\ Receive(p) => CallSound'
    BY StepReceiveCaller, StepReceiveCallee DEF Side

\* What a server returns: an error, which nobody goes by before it is read.
LEMMA StepBounce == CallSound /\ Bounce => CallSound'
<1> SUFFICES ASSUME CallSound, Bounce PROVE CallSound'
    OBVIOUS
<1> DEFINE c == side["caller"]
           d == side["callee"]
           nc == net["caller"]
           nd == net["callee"]
           x == [kind |-> "error", media |-> {}]
           ne == nc \o <<x>>
           nt == Tail(nd)
<1>1. /\ nc \in Seq(ToCaller) /\ nd \in Seq(ToCallee) /\ Linked(c, d, nc, nd)
      /\ (losses = 0 => Arriving(c, d, nc, nd)) /\ net \in [Side -> Seq(Stanza)]
    BY DEF CallSound
<1>2. /\ nd # <<>> /\ Head(nd).kind = "session-initiate"
      /\ net' = [net EXCEPT !["callee"] = nt, !["caller"] = Append(nc, x)]
      /\ side' = side /\ losses' = losses
    BY DEF Bounce
<1>3. x \in ToCaller /\ x.kind = "error"
    BY DEF ToCaller
<1> HIDE DEF x
<1>4. <<x>> \in Seq(ToCaller) /\ ne \in Seq(ToCaller) /\ Append(nc, x) = ne
  <2>1. <<x>> \in Seq(ToCaller)
      BY <1>3
  <2>2. QED
      BY <1>1, <1>3, <2>1, AppendIsConcat, ConcatProperties
<1>5. nt \in Seq(ToCallee)
    BY <1>1, <1>2, HeadTailProperties
<1>6. /\ \A k : k # "error" => ~Has(<<x>>, k)
      /\ ~HasAudio(<<x>>)
    BY <1>3, OneHas
<1>7. /\ \A k : k # "error" => (Has(ne, k) <=> Has(nc, k)) /\ (Once(nc, k) => Once(ne, k))
      /\ HasAudio(ne) <=> HasAudio(nc)
      /\ ResultFirst(nc) => ResultFirst(ne)
    BY <1>1, <1>4, <1>6, JoinedHas
<1>8. /\ \A k : Has(nt, k) => Has(nd, k)
      /\ HasAudio(nd) => HasAudio(nt)
    BY <1>1, <1>2, TakenHas
<1>9. net'["caller"] = ne /\ net'["callee"] = nt /\ net' \in [Side -> Seq(Stanza)]
  <2>1. "caller" \in Side /\ "callee" \in Side /\ "caller" # "callee"
      BY DEF Side
  <2>2. ne \in Seq(Stanza) /\ nt \in Seq(Stanza)
      BY <1>4, <1>5, StanzaKinds
  <2>3. QED
      BY <1>1, <1>2, <1>4, <2>1, <2>2
<1> HIDE DEF c, d, nc, nd, ne, nt
<1>10. Linked(c, d, ne, nt)
    BY <1>1, <1>7, <1>8 DEF Linked, Offered, Heard, AcceptedOnce
<1>11. losses = 0 => Arriving(c, d, ne, nt)
    BY <1>1, <1>7, <1>8 DEF Arriving, Answered, FromCaller, FromCallee
<1>12. QED
    BY <1>2, <1>4, <1>5, <1>9, <1>10, <1>11 DEF CallSound, c, d

\* A lost connection takes stanzas with it, and ends a call whose offer is unanswered.
LEMMA StepLoseConnection == \A p \in Side : CallSound /\ LoseConnection(p) => CallSound'
<1> SUFFICES ASSUME CallSound, NEW p \in Side, LoseConnection(p) PROVE CallSound'
    OBVIOUS
<1> DEFINE c == side["caller"]
           d == side["callee"]
           nc == net["caller"]
           nd == net["callee"]
           r == side'["caller"]
           ne == net'["caller"]
           nf == net'["callee"]
<1>1. /\ nc \in Seq(ToCaller) /\ nd \in Seq(ToCallee) /\ Linked(c, d, nc, nd)
      /\ side \in [Side -> Session] /\ net \in [Side -> Seq(Stanza)] /\ losses \in 0 .. MaxLosses
      /\ c.out = <<>> /\ d.out = <<>> /\ CallerSound(c) /\ CalleeSound(d)
    BY DEF CallSound
<1>2. /\ Side = {"caller", "callee"} /\ Other("caller") = "callee" /\ Other("callee") = "caller"
      /\ MaxLosses \in Nat
    BY ConstantsAssumption DEF Side, Other
<1>3. /\ losses < MaxLosses /\ losses' = losses + 1
      /\ side' = [side EXCEPT ![p] = IF @.waiting THEN Over(Idle, "ended") ELSE @]
    BY DEF LoseConnection
<1>4. losses' \in 0 .. MaxLosses /\ losses' # 0
    BY <1>1, <1>2, <1>3
<1>5. PICK k \in 0 .. Len(net[Other(p)]) :
          net' = [net EXCEPT ![p] = <<>>, ![Other(p)] = SubSeq(net[Other(p)], 1, k)]
    BY DEF LoseConnection
<1>6. /\ ne \in Seq(ToCaller) /\ \A w : (Has(ne, w) => Has(nc, w)) /\ (Once(nc, w) => Once(ne, w))
      /\ nf \in Seq(ToCallee) /\ \A w : Has(nf, w) => Has(nd, w)
  <2>1. CASE p = "caller"
    <3>1. k \in 0 .. Len(nd) /\ ne = <<>> /\ nf = SubSeq(nd, 1, k)
        BY <1>1, <1>2, <1>5, <2>1
    <3>2. QED
        BY <1>1, <3>1, CutHas, NoneHas
  <2>2. CASE p = "callee"
    <3>1. k \in 0 .. Len(nc) /\ nf = <<>> /\ ne = SubSeq(nc, 1, k)
        BY <1>1, <1>2, <1>5, <2>2
    <3>2. QED
        BY <1>1, <3>1, CutHas, NoneHas
  <2>3. QED
      BY <1>2, <2>1, <2>2
<1>7. net' \in [Side -> Seq(Stanza)]
  <2>1. ne \in Seq(Stanza) /\ nf \in Seq(Stanza)
      BY <1>6, StanzaKinds
  <2>2. QED
      BY <1>1, <1>2, <1>5, <2>1
<1>8. Over(Idle, "ended") = Rest("ended", <<>>)
  <2>1. Idle.out = <<>>
      BY DEF Idle
  <2>2. QED
      BY <2>1, OverRests
<1>9. /\ side'["callee"] = d
      /\ r = c \/ r = Rest("ended", <<>>)
      /\ side' \in [Side -> Session]
  <2>1. ~d.waiting
      BY <1>1 DEF CalleeSound
  <2>2. Rest("ended", <<>>) \in Session
      BY RestSession, NoneHas
  <2>3. QED
      BY <1>1, <1>2, <1>3, <1>8, <2>1, <2>2
<1>10. /\ CallerSound(r) /\ r.out = <<>>
       /\ c.dlg = "ended" \/ c.named # {} => r.dlg = "ended" \/ r.named # {}
       /\ r.prov => c.prov
       /\ r.accepted => c.accepted
  <2>1. CASE r = c
      BY <1>1, <2>1
  <2>2. CASE r = Rest("ended", <<>>)
    <3>1. CallerMoves(c, r, Nothing)
        BY <2>2, NoneHas, CallerOver
    <3>2. CallerSound(r)
        BY <3>1 DEF CallerMoves
    <3>3. QED
        BY <2>2, <3>2, RestFields
  <2>3. QED
      BY <1>9, <2>1, <2>2
<1> HIDE DEF c, d, nc, nd, r, ne, nf
<1>11. Linked(r, d, ne, nf)
    BY <1>1, <1>6, <1>10 DEF Linked, Offered, Heard, AcceptedOnce
<1>12. QED
    BY <1>1, <1>4, <1>6, <1>7, <1>9, <1>10, <1>11 DEF CallSound, d, r, ne, nf

--------------------------------------------------------------------------------
(* The theorems.                                                               *)

LEMMA InitCallSound == Init => CallSound
<1> SUFFICES ASSUME Init PROVE CallSound
    OBVIOUS
<1>1. Idle = Rest("none", <<>>)
    BY DEF Idle, Rest
<1> DEFINE c == Rest("none", <<>>)
<1>2. /\ side["caller"] = c /\ side["callee"] = c
      /\ net["caller"] = <<>> /\ net["callee"] = <<>> /\ losses = 0
    BY <1>1 DEF Init, Side
<1>3. c \in Session
    BY RestSession, NoneHas
<1>4. /\ side \in [Side -> Session] /\ net \in [Side -> Seq(Stanza)] /\ losses \in 0 .. MaxLosses
    BY <1>1, <1>3, ConstantsAssumption DEF Init
<1>5. /\ c.dlg = "none" /\ c.out = <<>> /\ c.rtp = "off" /\ c.types = {} /\ c.named = {}
      /\ ~c.resolving /\ ~c.waiting /\ c.ice = {} /\ c.started = {} /\ c.ready = {}
      /\ c.gathered = {} /\ c.known = {} /\ c.peer = {} /\ ~c.prov /\ ~c.connected
      /\ ~c.media /\ ~c.accepted /\ ~c.activated /\ ~c.timer /\ ~c.posted
    BY RestFields
<1>6. Resting(c)
    BY <1>5 DEF Resting
<1> HIDE DEF c
<1>7. CallerSound(c)
    BY <1>3, <1>5, <1>6 DEF CallerSound, Session
<1>8. CalleeSound(c)
    BY <1>3, <1>5, <1>6 DEF CalleeSound, Session
<1>9. Linked(c, c, <<>>, <<>>) /\ Arriving(c, c, <<>>, <<>>)
    BY <1>5, NoneHas DEF Linked, Offered, Heard, AcceptedOnce,
                         Arriving, Answered, FromCaller, FromCallee
<1>10. QED
    BY <1>2, <1>4, <1>5, <1>7, <1>8, <1>9, NoneHas DEF CallSound

LEMMA NextCallSound == CallSound /\ [Next]_vars => CallSound'
<1> SUFFICES ASSUME CallSound, [Next]_vars PROVE CallSound'
    OBVIOUS
<1>1. CASE Call
    BY <1>1, StepCall
<1>2. CASE Answer
    BY <1>2, StepAnswer
<1>3. CASE Decline
    BY <1>3, StepRejects DEF Side
<1>4. CASE CloseUnanswered
    BY <1>4, StepCloseUnanswered
<1>5. CASE Bounce
    BY <1>5, StepBounce
<1>6. ASSUME NEW p \in Side, HangUp(p) \/ Environment(p) \/ Posted(p) \/ Receive(p)
      PROVE  CallSound'
  <2>1. CASE HangUp(p) \/ RtpError(p) \/ IceError(p) \/ HandshakeTimeout(p)
      BY <2>1, StepRejects
  <2>2. CASE RtpStarted(p) \/ ResolverFinished(p) \/ LoseConnection(p)
      BY <2>2, StepRtpStarted, StepResolverFinished, StepLoseConnection
  <2>3. CASE \E m \in Media : \/ IceStarted(p, m) \/ LocalCandidatesReady(p, m)
                              \/ \E i \in Component : ComponentReady(p, m, i)
      BY <2>3, StepIceStarted, StepLocalCandidatesReady, StepComponentReady
  <2>4. CASE Posted(p) \/ Receive(p)
      BY <2>4, StepPosted, StepReceive
  <2>5. QED
      BY <1>6, <2>1, <2>2, <2>3, <2>4 DEF Environment
<1>7. CASE UNCHANGED vars
    BY <1>7 DEF CallSound, vars
<1>8. QED
    BY <1>1, <1>2, <1>3, <1>4, <1>5, <1>6, <1>7 DEF Next

\* The two clients of src/avcall never disagree about the order in which a call
\* goes: an offer, an answer, candidates only after it, and one acceptance; each
\* session is consistent in itself; and while no connection is lost every stanza
\* that the other side depends on is under way.
THEOREM CallIsSound == Spec => []CallSound
<1>1. QED
    BY InitCallSound, NextCallSound, PTL DEF Spec

LEMMA CallersTalk == CallSound => CallersTalkToCallees
<1> SUFFICES ASSUME CallSound, side["caller"].dlg = "active"
             PROVE  /\ side["callee"].dlg \in {"active", "ended"}
                    /\ side["callee"].dlg = "active" => side["callee"].types = side["caller"].types
    BY DEF CallersTalkToCallees
<1>1. side["caller"].accepted /\ side["caller"].types = {"audio"}
    BY DEF CallSound, CallerSound
<1>2. side["callee"].dlg \in {"active", "ended"}
    BY <1>1 DEF CallSound, Linked, AcceptedOnce
<1>3. QED
    BY <1>1, <1>2 DEF CallSound, CalleeSound

LEMMA Timed == CallSound => HandshakeIsTimed
<1> SUFFICES ASSUME CallSound PROVE HandshakeIsTimed
    OBVIOUS
<1>1. side["caller"].timer = (side["caller"].accepted /\ ~side["caller"].activated)
    BY DEF CallSound, CallerSound
<1>2. side["callee"].timer = (side["callee"].prov /\ ~side["callee"].activated)
    BY DEF CallSound, CalleeSound
<1>3. QED
    BY <1>1, <1>2 DEF HandshakeIsTimed, Side

LEMMA Arrive == CallSound => AudioCandidatesArrive
<1> SUFFICES ASSUME CallSound, losses = 0, NEW p \in Side,
                    "audio" \in side[p].gathered, p = "caller" \/ side[p].types = {"audio"},
                    side[Other(p)].dlg \in {"ringing", "calling"}
             PROVE  \/ "audio" \in side[p].locals /\ ~side[p].prov
                    \/ "audio" \in side[Other(p)].added
                    \/ "audio" \in side[Other(p)].remotes /\ ~side[Other(p)].prov
                    \/ \E msg \in ToSet(net[Other(p)]) :
                           msg.kind = "transport-info" /\ "audio" \in msg.media
    BY DEF AudioCandidatesArrive
<1>1. ASSUME NEW q, HasAudio(q)
      PROVE  \E msg \in ToSet(q) : msg.kind = "transport-info" /\ "audio" \in msg.media
    BY <1>1 DEF HasAudio, ToSet
<1>2. Arriving(side["caller"], side["callee"], net["caller"], net["callee"])
    BY DEF CallSound
<1>3. CASE p = "caller"
  <2>1. Other(p) = "callee"
      BY <1>3 DEF Other
  <2>2. QED
      BY <1>1, <1>2, <1>3, <2>1 DEF Arriving, FromCaller
<1>4. CASE p = "callee"
  <2>1. Other(p) = "caller"
      BY <1>4 DEF Other
  <2>2. side["caller"].dlg = "calling"
      BY <2>1 DEF CallSound, CallerSound
  <2>3. QED
      BY <1>1, <1>2, <1>4, <2>1, <2>2 DEF Arriving, FromCallee
<1>5. QED
    BY <1>3, <1>4 DEF Side

LEMMA Typed == CallSound => TypeOK
<1> SUFFICES ASSUME CallSound PROVE TypeOK
    OBVIOUS
<1>1. /\ side \in [Side -> Session] /\ net \in [Side -> Seq(Stanza)] /\ losses \in 0 .. MaxLosses
      /\ \A p \in Side : side[p].out = <<>> /\ Resting(side[p])
    BY DEF CallSound, CallerSound, CalleeSound, Side
<1>2. ASSUME NEW p \in Side
      PROVE  /\ side[p].dlg \in {"none", "ringing", "calling", "active", "ended", "dropped"}
             /\ side[p].rtp \in {"off", "starting", "started"}
             /\ side[p].ready \subseteq Media \X Component
    BY <1>1 DEF Session
<1>3. ASSUME NEW p \in Side, NEW f \in MediaFields PROVE side[p][f] \subseteq Media
  <2>1. side[p] \in Session
      BY <1>1
  <2>2. QED
      BY <2>1 DEF Session, MediaFields
<1>4. ASSUME NEW p \in Side, NEW f \in Flags PROVE side[p][f] \in BOOLEAN
  <2>1. side[p] \in Session
      BY <1>1
  <2>2. QED
      BY <2>1 DEF Session, Flags
<1>5. ASSUME NEW p \in Side, side[p].dlg \in {"none", "ended", "dropped"}
      PROVE  side[p] = [Idle EXCEPT !.dlg = side[p].dlg]
  <2>1. side[p] = Rest(side[p].dlg, <<>>)
      BY <1>1, <1>5 DEF Resting
  <2>2. ASSUME NEW how, NEW t, t = [Idle EXCEPT !.dlg = how] PROVE t = Rest(how, <<>>)
      BY <2>2 DEF Rest, Idle
  <2>3. QED
      BY <2>1, <2>2
<1>6. QED
    BY <1>1, <1>2, <1>3, <1>4, <1>5 DEF TypeOK

\* "Call active" is shown to a caller (CallDlg) only when the callee has accepted,
\* and then both use the same media; a call that was answered or accepted and is
\* not up yet is timed (JingleRtp's handshakeTimer), one that is up is not; and no
\* candidate for the audio of a call is lost between the two clients.
THEOREM CallInvariantHolds == Spec => []CallInvariant
<1>1. CallSound => CallInvariant
    BY CallersTalk, Timed, Arrive, Typed DEF CallInvariant
<1>2. QED
    BY <1>1, CallIsSound, PTL
=============================================================================
