-------------------------- MODULE SxeRecord_proofs --------------------------
(***************************************************************************)
(* Theorems about SxeRecord for any number of participants and edits: what *)
(* versions and relays keep, that participants who know the same edits     *)
(* show the same record, that an edit takes effect only on the record its  *)
(* author saw, and that SxeRecord implements ResolvedRecord.               *)
(***************************************************************************)
EXTENDS SxeRecord, Recursion, SequenceTheorems

-----------------------------------------------------------------------------
(* The fields of a record.                                                 *)

LEMMA ZeroType == Zero \in Record
    BY PositionAssumption, DataAssumption DEF Zero, Record, Text

\* A change made on a record gives a record.
LEMMA ApplyChangeType ==
    ASSUME NEW r \in Record, NEW c \in Change
    PROVE  ApplyChange(r, c) \in Record
<1>1. CASE c \in [key : {"position"}, pos : Position]
    BY <1>1 DEF ApplyChange, Record
<1>2. CASE c \in [key : {"chdata"}, text : Text]
    BY <1>2 DEF ApplyChange, Record
<1>3. CASE c \in [key : {"replace"}, from : Nat, n : Nat, text : Text]
  <2>1. CASE c.from + c.n <= Len(r.data)
    <3>1. r.data \in Seq(Char) /\ c.text \in Seq(Char) /\ c.from \in Nat /\ c.n \in Nat
        BY <1>3 DEF Record, Text
    <3>2. SubSeq(r.data, 1, c.from) \in Seq(Char)
      <4>1. \A i \in 1 .. c.from : r.data[i] \in Char
          BY <2>1, <3>1, ElementOfSeq
      <4>2. QED
          BY <3>1, <4>1, SubSeqProperties
    <3>3. SubSeq(r.data, c.from + c.n + 1, Len(r.data)) \in Seq(Char)
      <4>1. \A i \in c.from + c.n + 1 .. Len(r.data) : r.data[i] \in Char
          BY <3>1, ElementOfSeq
      <4>2. QED
          BY <3>1, <4>1, SubSeqProperties
    <3>4. Splice(r.data, c.from, c.n, c.text) \in Seq(Char)
        BY <3>1, <3>2, <3>3, ConcatProperties DEF Splice
    <3>5. QED
        BY <1>3, <2>1, <3>4 DEF ApplyChange, Record, Text
  <2>2. CASE ~(c.from + c.n <= Len(r.data))
      BY <1>3, <2>2 DEF ApplyChange
  <2>3. QED
      BY <2>1, <2>2
<1>4. CASE c = NoChange
    BY <1>4 DEF ApplyChange, NoChange
<1>5. QED
    BY <1>1, <1>2, <1>3, <1>4 DEF Change

-----------------------------------------------------------------------------
(* Replaying a list of edits.                                              *)

\* What the edit at i of s does to a record.
Step(s) == [i \in 1 .. Len(s) |->
               [r \in Record |-> IF Effective(s, i) THEN ApplyChange(r, s[i].change)
                                 ELSE r]]

LEMMA StepType ==
    ASSUME NEW s \in Seq(Edit)
    PROVE  Step(s) \in [1 .. Len(s) -> [Record -> Record]]
<1>1. ASSUME NEW i \in 1 .. Len(s) PROVE s[i].change \in Change
  <2>1. s[i] \in Edit
      BY ElementOfSeq
  <2>2. QED
      BY <2>1 DEF Edit
<1>2. ASSUME NEW i \in 1 .. Len(s), NEW r \in Record
      PROVE  ApplyChange(r, s[i].change) \in Record
    BY <1>1, ApplyChangeType
<1>3. QED
    BY <1>2 DEF Step

\* ReplayTo(s, k) is the k-th value of the iteration of Step(s) from Zero.
LEMMA ReplayIterates ==
    ASSUME NEW s \in Seq(Edit)
    PROVE  \E f \in [0 .. Len(s) -> Record] :
              /\ Iterates(f, Len(s), Zero, Step(s))
              /\ \A k \in 0 .. Len(s) : ReplayTo(s, k) = f[k]
<1> DEFINE F(v) == [i \in 0 .. Len(s) |->
                       IF i = 0 THEN Zero
                       ELSE IF Effective(s, i) THEN ApplyChange(v[i - 1], s[i].change)
                       ELSE v[i - 1]]
           val == CHOOSE v : v = F(v)
<1>1. PICK f \in [0 .. Len(s) -> Record] : Iterates(f, Len(s), Zero, Step(s))
    BY ZeroType, StepType, RecursionExists, LenProperties
<1>2. f = F(f)
  <2>1. ASSUME NEW i \in 0 .. Len(s) PROVE f[i] = F(f)[i]
    <3>1. CASE i = 0
        BY <1>1, <3>1 DEF Iterates
    <3>2. CASE i # 0
      <4>1. i \in 1 .. Len(s) /\ f[i - 1] \in Record
          BY <3>2, LenProperties
      <4>2. f[i] = Step(s)[i][f[i - 1]]
          BY <1>1, <4>1 DEF Iterates
      <4>3. QED
          BY <3>2, <4>1, <4>2 DEF Step
    <3>3. QED
        BY <3>1, <3>2
  <2>2. QED
      BY <2>1
<1>3. val = F(val)
    BY <1>2
<1>4. ASSUME NEW k \in 0 .. Len(s) PROVE val[k] = f[k]
  <2> DEFINE Bad == {i \in 0 .. Len(s) : val[i] # f[i]}
  <2>1. SUFFICES ASSUME Bad # {} PROVE FALSE
      OBVIOUS
  <2>2. Bad \in SUBSET Nat
      BY LenProperties
  <2>3. PICK m \in Bad : \A i \in Bad : m <= i
      BY <2>1, <2>2, LeastNumber
  <2>4. m \in 0 .. Len(s) /\ val[m] = F(val)[m] /\ f[m] = F(f)[m]
      BY <1>2, <1>3
  <2>5. m # 0
      BY <2>3, <2>4
  <2>6. m - 1 \in 0 .. Len(s) /\ m - 1 \notin Bad
      BY <2>3, <2>5, LenProperties
  <2>7. QED
      BY <2>3, <2>4, <2>5, <2>6
<1>5. \A k \in 0 .. Len(s) : ReplayTo(s, k) = val[k]
    BY DEF ReplayTo
<1>6. QED
    BY <1>1, <1>4, <1>5

LEMMA ReplayType ==
    ASSUME NEW s \in Seq(Edit), NEW k \in 0 .. Len(s)
    PROVE  ReplayTo(s, k) \in Record
    BY ReplayIterates

-----------------------------------------------------------------------------
(* Adding an edit to a list.                                               *)

\* Shuffling keeps the length and the type.
LEMMA ShuffleType ==
    ASSUME NEW s \in Seq(Edit), NEW f \in [1 .. Len(s) -> 1 .. Len(s)]
    PROVE  /\ Shuffle(s, f) \in Seq(Edit)
           /\ Len(Shuffle(s, f)) = Len(s)
           /\ \A i \in 1 .. Len(s) : Shuffle(s, f)[i] = s[f[i]]
<1>1. Len(s) \in Nat
    BY LenProperties
<1>2. \A i \in 1 .. Len(s) : s[f[i]] \in Edit
    BY ElementOfSeq
<1>3. Shuffle(s, f) \in [1 .. Len(s) -> Edit]
    BY <1>2 DEF Shuffle
<1>4. Shuffle(s, f) \in Seq(Edit)
    BY <1>1, <1>3, SeqDef
<1>5. QED
    BY <1>1, <1>3, <1>4, LenProperties DEF Shuffle

\* Nullifying keeps the length, the authors and the versions.
LEMMA NullifyType ==
    ASSUME NEW s \in Seq(Edit)
    PROVE  /\ NullifyPassed(s) \in Seq(Edit)
           /\ Len(NullifyPassed(s)) = Len(s)
           /\ \A i \in 1 .. Len(s) : /\ NullifyPassed(s)[i].version = s[i].version
                                     /\ NullifyPassed(s)[i].by = s[i].by
<1>1. Len(s) \in Nat
    BY LenProperties
<1>2. ASSUME NEW i \in 1 .. Len(s)
      PROVE  /\ NullifyPassed(s)[i] \in Edit
             /\ NullifyPassed(s)[i].version = s[i].version
             /\ NullifyPassed(s)[i].by = s[i].by
  <2>1. s[i] \in Edit
      BY ElementOfSeq
  <2>2. NoChange \in Change
      BY DEF Change
  <2>3. QED
      BY <2>1, <2>2 DEF NullifyPassed, Edit
<1>3. NullifyPassed(s) \in [1 .. Len(s) -> Edit]
    BY <1>2 DEF NullifyPassed
<1>4. NullifyPassed(s) \in Seq(Edit)
    BY <1>1, <1>3, SeqDef
<1>5. QED
    BY <1>1, <1>2, <1>3, <1>4, LenProperties

\* A sorted arrangement of a gapless list is gapless: an edit of version above
\* its place i would leave the i edits of versions up to i only i - 1 places.
LEMMA SortedIsGapless ==
    ASSUME NEW s \in Seq(Edit), Gapless(s), NEW f \in Orders(s)
    PROVE  Gapless(Shuffle(s, f))
<1> DEFINE n == Len(s)
           t == Shuffle(s, f)
<1>1. n \in Nat /\ f \in [1 .. n -> 1 .. n]
    BY LenProperties DEF Orders
<1>2. Len(t) = n /\ \A i \in 1 .. n : t[i] = s[f[i]]
    BY <1>1, ShuffleType
<1>3. \A i \in 1 .. n : s[i].version \in Nat
  <2>1. \A i \in 1 .. n : s[i] \in Edit
      BY ElementOfSeq
  <2>2. QED
      BY <2>1 DEF Edit
<1>4. \A j \in 1 .. n : \E i \in 1 .. n : f[i] = j
  <2>1. IsFiniteSet(1 .. n)
      BY <1>1, FS_Interval
  <2>2. f \in Injection(1 .. n, 1 .. n)
      BY <1>1 DEF Orders, Injection, IsInjective
  <2>3. f \in Surjection(1 .. n, 1 .. n)
      BY <2>1, <2>2, FS_Injection
  <2>4. QED
      BY <2>3 DEF Surjection
<1>5. SUFFICES ASSUME NEW i \in 1 .. n, ~(t[i].version <= i) PROVE FALSE
    BY <1>2 DEF Gapless
<1> DEFINE g == [j \in 1 .. i |-> CHOOSE k \in 1 .. n : f[k] = j]
<1>6. ASSUME NEW j \in 1 .. i PROVE g[j] \in 1 .. i - 1 /\ f[g[j]] = j
  <2>1. j \in 1 .. n
      BY <1>1
  <2>2. g[j] \in 1 .. n /\ f[g[j]] = j
      BY <1>4, <2>1
  <2>3. t[g[j]].version <= i
    <3>1. t[g[j]] = s[j]
        BY <1>2, <2>2
    <3>2. s[j].version <= j
        BY <2>1 DEF Gapless
    <3>3. QED
        BY <1>3, <2>1, <3>1, <3>2
  <2>4. CASE g[j] >= i
    <3>1. t[i].version <= t[g[j]].version
      <4>1. CASE g[j] = i
        <5>1. t[i].version \in Nat /\ t[g[j]] = t[i]
            BY <4>1, <1>1, <1>2, <1>3
        <5>2. QED
            BY <5>1
      <4>2. CASE g[j] > i
          BY <4>2, <1>2, <2>2 DEF Orders, Sorted
      <4>3. QED
          BY <4>1, <4>2, <2>2, <2>4
    <3>2. t[i].version \in Nat /\ t[g[j]].version \in Nat
        BY <1>1, <1>2, <1>3, <2>2
    <3>3. QED
        BY <1>5, <2>3, <3>1, <3>2
  <2>5. QED
      BY <1>1, <2>2, <2>4
<1>7. g \in [1 .. i -> 1 .. i - 1]
    BY <1>6
<1>8. /\ IsFiniteSet(1 .. i) /\ Cardinality(1 .. i) = i
      /\ IsFiniteSet(1 .. i - 1) /\ Cardinality(1 .. i - 1) = i - 1
  <2>1. 1 \in Int /\ i \in Int /\ i - 1 \in Int /\ i >= 1
      BY <1>1
  <2>2. IsFiniteSet(1 .. i) /\ Cardinality(1 .. i) = i
      BY <2>1, FS_Interval
  <2>3. IsFiniteSet(1 .. i - 1) /\ Cardinality(1 .. i - 1) = i - 1
      BY <2>1, FS_Interval
  <2>4. QED
      BY <2>2, <2>3
<1>9. PICK x, y \in 1 .. i : x # y /\ g[x] = g[y]
  <2>1. Cardinality(1 .. i - 1) < Cardinality(1 .. i)
      BY <1>1, <1>8
  <2> HIDE DEF g
  <2>2. QED
      BY <1>7, <1>8, <2>1, FS_PigeonHole
<1>10. QED
    BY <1>6, <1>9

\* A list an edit has been added to, in order or not, stays sorted and gapless
\* when the edit's version is at most the new length.
LEMMA AddInOrder ==
    ASSUME NEW s \in Seq(Edit), Sorted(s), Gapless(s), NEW e \in Edit, InOrder(s, e)
    PROVE  Sorted(Append(s, e)) /\ Gapless(Append(s, e))
<1> DEFINE t == Append(s, e)
<1>1. /\ Len(s) \in Nat /\ Len(t) = Len(s) + 1
      /\ \A i \in 1 .. Len(s) : t[i] = s[i]
      /\ t[Len(s) + 1] = e
    BY LenProperties, AppendProperties
<1>2. \A i \in 1 .. Len(s) : s[i].version \in Nat /\ s[i].version <= i
  <2>1. \A i \in 1 .. Len(s) : s[i] \in Edit
      BY ElementOfSeq
  <2>2. QED
      BY <2>1 DEF Edit, Gapless
<1>3. e.version = Len(s) + 1
    BY DEF InOrder
<1> HIDE DEF t
<1>4. Gapless(t)
    BY <1>1, <1>2, <1>3 DEF Gapless
<1>5. ASSUME NEW i \in 1 .. Len(t), NEW j \in 1 .. Len(t), i < j
      PROVE  t[i].version <= t[j].version
  <2>1. i \in 1 .. Len(s)
      BY <1>1, <1>5
  <2>2. CASE j \in 1 .. Len(s)
      BY <1>1, <1>5, <2>1, <2>2 DEF Sorted
  <2>3. CASE j = Len(s) + 1
      BY <1>1, <1>2, <1>3, <2>1, <2>3
  <2>4. QED
      BY <1>1, <2>2, <2>3
<1>6. QED
    BY <1>4, <1>5 DEF Sorted, t

LEMMA AddShuffled ==
    ASSUME NEW s \in Seq(Edit), Gapless(s), NEW e \in Edit, e.version <= Len(s) + 1,
           NEW f \in Orders(Append(s, e))
    PROVE  LET t == NullifyPassed(Shuffle(Append(s, e), f))
           IN  /\ t \in Seq(Edit)
               /\ Len(t) = Len(s) + 1
               /\ Sorted(t) /\ Gapless(t)
               /\ Shuffle(Append(s, e), f) \in Seq(Edit)
               /\ Len(Shuffle(Append(s, e), f)) = Len(s) + 1
<1> DEFINE all == Append(s, e)
           u   == Shuffle(all, f)
           t   == NullifyPassed(u)
<1>1. /\ Len(s) \in Nat /\ Len(all) = Len(s) + 1 /\ all \in Seq(Edit)
      /\ \A i \in 1 .. Len(s) : all[i] = s[i]
      /\ all[Len(s) + 1] = e
    BY LenProperties, AppendProperties
<1>2. Gapless(all)
  <2> HIDE DEF all
  <2>1. QED
      BY <1>1 DEF Gapless
<1>3. f \in [1 .. Len(all) -> 1 .. Len(all)] /\ Sorted(u)
    BY DEF Orders
<1>4. u \in Seq(Edit) /\ Len(u) = Len(all)
    BY <1>1, <1>3, ShuffleType
<1>5. Gapless(u)
    BY <1>1, <1>2, SortedIsGapless
<1>6. /\ t \in Seq(Edit) /\ Len(t) = Len(u)
      /\ \A i \in 1 .. Len(u) : t[i].version = u[i].version
    BY <1>4, NullifyType
<1>7. Sorted(t) /\ Gapless(t)
  <2> HIDE DEF t, u
  <2>1. QED
      BY <1>3, <1>5, <1>6 DEF Sorted, Gapless
<1>8. QED
    BY <1>1, <1>4, <1>6, <1>7

\* What applySxeRecordEdit does to the list and the fields of p, and to nobody
\* else's.
LEMMA ApplyRecordEditFacts ==
    ASSUME TypeOK, NEW p \in Peer, NEW e \in Edit, ApplyRecordEdit(p, e),
           Sorted(edits[p]), Gapless(edits[p]), e.version <= Len(edits[p]) + 1
    PROVE  /\ edits' \in [Peer -> Seq(Edit)]
           /\ rec' \in [Peer -> Record]
           /\ dom' \in [Peer -> Record]
           /\ Len(edits'[p]) = Len(edits[p]) + 1
           /\ Sorted(edits'[p]) /\ Gapless(edits'[p])
           /\ \A q \in Peer \ {p} : edits'[q] = edits[q]
<1> DEFINE Listing == /\ edits' \in [Peer -> Seq(Edit)]
                       /\ rec' \in [Peer -> Record]
                       /\ Len(edits'[p]) = Len(edits[p]) + 1
                       /\ Sorted(edits'[p]) /\ Gapless(edits'[p])
                       /\ \A q \in Peer \ {p} : edits'[q] = edits[q]
<1>1. edits[p] \in Seq(Edit) /\ rec[p] \in Record /\ dom[p] \in Record
    BY DEF TypeOK
<1>2. ASSUME InOrder(edits[p], e) PROVE Listing
  <2>1. /\ edits' = [edits EXCEPT ![p] = Append(@, e)]
        /\ rec' = [rec EXCEPT ![p] = ApplyChange(@, e.change)]
      BY <1>2 DEF ApplyRecordEdit
  <2>2. /\ Append(edits[p], e) \in Seq(Edit)
        /\ Len(Append(edits[p], e)) = Len(edits[p]) + 1
      BY <1>1, AppendProperties
  <2>3. Sorted(Append(edits[p], e)) /\ Gapless(Append(edits[p], e))
      BY <1>1, <1>2, AddInOrder
  <2>4. ApplyChange(rec[p], e.change) \in Record
      BY <1>1, ApplyChangeType DEF Edit
  <2>5. QED
      BY <2>1, <2>2, <2>3, <2>4 DEF TypeOK
<1>3. ASSUME ~InOrder(edits[p], e) PROVE Listing
  <2> DEFINE all  == Append(edits[p], e)
  <2>1. PICK f \in Orders(all) :
            /\ edits' = [edits EXCEPT ![p] = NullifyPassed(Shuffle(all, f))]
            /\ rec' = [rec EXCEPT ![p] = ReplayTo(Shuffle(all, f), Len(Shuffle(all, f)))]
      BY <1>3 DEF ApplyRecordEdit
  <2> DEFINE u == Shuffle(all, f)
             t == NullifyPassed(u)
  <2>2. /\ t \in Seq(Edit) /\ Len(t) = Len(edits[p]) + 1 /\ Sorted(t) /\ Gapless(t)
        /\ u \in Seq(Edit)
      BY <1>1, AddShuffled
  <2>3. ReplayTo(u, Len(u)) \in Record
      BY <2>2, LenProperties, ReplayType
  <2> HIDE DEF all, u, t
  <2>4. edits' = [edits EXCEPT ![p] = t] /\ rec' = [rec EXCEPT ![p] = ReplayTo(u, Len(u))]
      BY <2>1 DEF u, t
  <2>5. QED
      BY <2>2, <2>3, <2>4 DEF TypeOK
<1>4. rec' \in [Peer -> Record] /\ dom' = [dom EXCEPT ![p] = UpdateNode(@, rec'[p])]
    BY <1>2, <1>3 DEF ApplyRecordEdit
<1>5. dom' \in [Peer -> Record]
  <2>1. UpdateNode(dom[p], rec'[p]) \in Record
      BY <1>1, <1>4 DEF UpdateNode, Record
  <2>2. QED
      BY <1>4, <2>1 DEF TypeOK
<1>6. QED
    BY <1>2, <1>3, <1>4, <1>5

-----------------------------------------------------------------------------
(* VersionInvariant is inductive.                                          *)

LEMMA InitVersionInvariant == Init => VersionInvariant
<1> SUFFICES ASSUME Init PROVE VersionInvariant
    OBVIOUS
<1>1. TypeOK
    BY ZeroType, EmptySeq DEF Init, TypeOK
<1>2. Listed
  <2>1. ASSUME NEW p \in Peer PROVE OwnAhead(p) = {}
      BY DEF Init, OwnAhead
  <2>2. QED
      BY <2>1, FS_EmptySet DEF Init, Listed
<1>3. OutboxOwn /\ LogBound /\ ListsSorted /\ NoGap
    BY DEF Init, OutboxOwn, LogBound, ListsSorted, NoGap, Sorted, Gapless
<1>4. QED
    BY <1>1, <1>2, <1>3 DEF VersionInvariant

\* There are at most as many relayed edits ahead of p as the log has beyond rd[p].
LEMMA OwnAheadBound ==
    ASSUME TypeOK, NEW p \in Peer
    PROVE  /\ IsFiniteSet(OwnAhead(p))
           /\ Cardinality(OwnAhead(p)) \in Nat
           /\ Cardinality(OwnAhead(p)) <= Len(log) - rd[p]
<1>1. Len(log) \in Nat /\ rd[p] \in 0 .. Len(log)
    BY LenProperties DEF TypeOK
<1>2. rd[p] + 1 \in Int /\ Len(log) \in Int
    BY <1>1
<1>3. /\ IsFiniteSet(rd[p] + 1 .. Len(log))
      /\ Cardinality(rd[p] + 1 .. Len(log)) =
            IF rd[p] + 1 > Len(log) THEN 0 ELSE Len(log) - (rd[p] + 1) + 1
    BY <1>2, FS_Interval
<1>4. OwnAhead(p) \in SUBSET (rd[p] + 1 .. Len(log))
    BY DEF OwnAhead
<1>5. /\ IsFiniteSet(OwnAhead(p))
      /\ Cardinality(OwnAhead(p)) <= Cardinality(rd[p] + 1 .. Len(log))
    BY <1>3, <1>4, FS_Subset
<1>6. Cardinality(OwnAhead(p)) \in Nat
    BY <1>5, FS_CardinalityType
<1>7. QED
    BY <1>1, <1>3, <1>5, <1>6

LEMMA EditLocallyPreserves ==
    ASSUME VersionInvariant, NEW p \in Peer, NEW c \in Wanted, EditLocally(p, c)
    PROVE  VersionInvariant'
<1> DEFINE e == [by |-> p, kind |-> "set", version |-> NextVersion(p),
                 change |-> c, base |-> rec[p]]
<1>1. /\ TypeOK /\ present[p]
      /\ edits[p] \in Seq(Edit) /\ Len(edits[p]) \in Nat
      /\ outbox[p] \in Seq(Edit) /\ Len(outbox[p]) \in Nat
      /\ log \in Seq(Edit \cup Removal) /\ Len(log) \in Nat
    BY LenProperties DEF VersionInvariant, TypeOK, EditLocally
<1>2. e \in Edit
    BY <1>1, WantedAssumption DEF TypeOK, Edit, NextVersion
<1>3. /\ ApplyRecordEdit(p, e)
      /\ outbox' = [outbox EXCEPT ![p] = Append(@, e)]
      /\ UNCHANGED <<present, log, rd>>
    BY DEF EditLocally
<1>4. e.version = Len(edits[p]) + 1
    BY DEF NextVersion
<1> HIDE DEF e
<1>5. /\ edits' \in [Peer -> Seq(Edit)]
      /\ rec' \in [Peer -> Record]
      /\ dom' \in [Peer -> Record]
      /\ Len(edits'[p]) = Len(edits[p]) + 1
      /\ Sorted(edits'[p]) /\ Gapless(edits'[p])
      /\ \A q \in Peer \ {p} : edits'[q] = edits[q]
  <2>1. Sorted(edits[p]) /\ Gapless(edits[p]) /\ e.version <= Len(edits[p]) + 1
      BY <1>1, <1>4 DEF VersionInvariant, ListsSorted, NoGap
  <2>2. QED
      BY <1>1, <1>2, <1>3, <2>1, ApplyRecordEditFacts
<1>6. /\ outbox'[p] \in Seq(Edit)
      /\ Len(outbox'[p]) = Len(outbox[p]) + 1
      /\ \A k \in 1 .. Len(outbox[p]) : outbox'[p][k] = outbox[p][k]
      /\ outbox'[p][Len(outbox[p]) + 1] = e
      /\ \A q \in Peer \ {p} : outbox'[q] = outbox[q]
  <2>1. outbox'[p] = Append(outbox[p], e)
      BY <1>1, <1>3 DEF TypeOK
  <2>2. QED
      BY <1>1, <1>2, <1>3, <2>1, AppendProperties DEF TypeOK
<1>7. TypeOK'
    BY <1>1, <1>3, <1>5, <1>6 DEF TypeOK
<1>8. Listed'
  <2>1. ASSUME NEW q \in Peer, present'[q]
        PROVE  Len(edits'[q]) = rd'[q] + Cardinality(OwnAhead(q)') + Len(outbox'[q])
    <3>1. OwnAhead(q)' = OwnAhead(q) /\ rd'[q] = rd[q] /\ present[q]
        BY <1>3, <2>1 DEF OwnAhead
    <3>2. Len(edits[q]) = rd[q] + Cardinality(OwnAhead(q)) + Len(outbox[q])
        BY <3>1 DEF VersionInvariant, Listed
    <3>3. CASE q = p
      <4> DEFINE a == Cardinality(OwnAhead(p))
      <4>1. a \in Nat /\ rd[p] \in Nat
          BY <1>1, OwnAheadBound DEF TypeOK
      <4>2. Cardinality(OwnAhead(q)') = a
          BY <3>1, <3>3, Zenon
      <4>3. Len(edits[p]) = rd[p] + a + Len(outbox[p])
          BY <3>2, <3>3
      <4> DEFINE l == Len(edits[p])
                 o == Len(outbox[p])
      <4>4. rd'[p] = rd[p] /\ Len(edits'[p]) = l + 1 /\ Len(outbox'[p]) = o + 1
          BY <1>3, <1>5, <1>6
      <4>5. l \in Nat /\ o \in Nat /\ l = rd[p] + a + o
          BY <1>1, <4>3
      <4> HIDE DEF a, l, o
      <4>6. l + 1 = rd[p] + a + (o + 1)
          BY <4>1, <4>5
      <4>7. QED
          BY <3>3, <4>2, <4>4, <4>6, Zenon
    <3>4. CASE q # p
        BY <1>5, <1>6, <3>1, <3>2, <3>4
    <3>5. QED
        BY <3>3, <3>4
  <2>2. QED
      BY <2>1 DEF Listed
<1>9. OutboxOwn'
  <2>1. ASSUME NEW q \in Peer, NEW k \in 1 .. Len(outbox'[q])
        PROVE  outbox'[q][k].by = q /\ outbox'[q][k].version <= Len(log') + k
    <3>1. CASE q = p /\ k = Len(outbox[p]) + 1
      <4>1. Len(edits[p]) = rd[p] + Cardinality(OwnAhead(p)) + Len(outbox[p])
          BY <1>1 DEF VersionInvariant, Listed
      <4>2. /\ Cardinality(OwnAhead(p)) \in Nat /\ rd[p] \in Nat
            /\ Cardinality(OwnAhead(p)) <= Len(log) - rd[p]
          BY <1>1, OwnAheadBound DEF TypeOK
      <4>3. e.version <= Len(log) + k
          BY <1>1, <1>4, <3>1, <4>1, <4>2
      <4>4. e.by = p
          BY DEF e
      <4>5. QED
          BY <1>3, <1>6, <3>1, <4>3, <4>4
    <3>2. CASE q = p /\ k # Len(outbox[p]) + 1
      <4>1. k \in 1 .. Len(outbox[p])
          BY <1>1, <1>6, <3>2
      <4>2. QED
          BY <1>3, <1>6, <3>2, <4>1 DEF VersionInvariant, OutboxOwn
    <3>3. CASE q # p
        BY <1>3, <1>6, <2>1, <3>3 DEF VersionInvariant, OutboxOwn
    <3>4. QED
        BY <3>1, <3>2, <3>3
  <2>2. QED
      BY <2>1 DEF OutboxOwn
<1>10. LogBound'
    BY <1>3 DEF VersionInvariant, LogBound
<1>11. ListsSorted' /\ NoGap'
    BY <1>5 DEF VersionInvariant, ListsSorted, NoGap
<1>12. QED
    BY <1>7, <1>8, <1>9, <1>10, <1>11 DEF VersionInvariant

\* The elements of three sequences in a row.
LEMMA ConcatThree ==
    ASSUME NEW S, NEW s \in Seq(S), NEW t \in Seq(S), NEW u \in Seq(S),
           NEW l, l = (s \o t) \o u
    PROVE  /\ l \in Seq(S)
           /\ Len(l) = Len(s) + Len(t) + Len(u)
           /\ \A i \in 1 .. Len(s) : l[i] = s[i]
           /\ \A k \in 1 .. Len(t) : l[Len(s) + k] = t[k]
           /\ \A k \in 1 .. Len(u) : l[Len(s) + Len(t) + k] = u[k]
<1>1. Len(s) \in Nat /\ Len(t) \in Nat /\ Len(u) \in Nat
    BY LenProperties
<1>2. /\ s \o t \in Seq(S) /\ Len(s \o t) = Len(s) + Len(t)
      /\ \A i \in 1 .. Len(s) + Len(t) :
            (s \o t)[i] = IF i <= Len(s) THEN s[i] ELSE t[i - Len(s)]
    BY ConcatProperties
<1> DEFINE both == s \o t
<1> HIDE DEF both
<1>3. /\ both \o u \in Seq(S) /\ Len(both \o u) = Len(both) + Len(u)
      /\ \A i \in 1 .. Len(both) + Len(u) :
            (both \o u)[i] = IF i <= Len(both) THEN both[i] ELSE u[i - Len(both)]
    BY <1>2, ConcatProperties DEF both
<1>4. ASSUME NEW i \in 1 .. Len(s) PROVE (both \o u)[i] = s[i]
    BY <1>1, <1>2, <1>3 DEF both
<1>5. ASSUME NEW k \in 1 .. Len(t) PROVE (both \o u)[Len(s) + k] = t[k]
  <2>1. /\ Len(s) + k \in 1 .. Len(s) + Len(t)
        /\ ~(Len(s) + k <= Len(s)) /\ (Len(s) + k) - Len(s) = k
      BY <1>1
  <2>2. QED
      BY <1>1, <1>2, <1>3, <2>1 DEF both
<1>6. ASSUME NEW k \in 1 .. Len(u) PROVE (both \o u)[Len(s) + Len(t) + k] = u[k]
  <2>1. /\ Len(s) + Len(t) + k \in 1 .. Len(s) + Len(t) + Len(u)
        /\ ~(Len(s) + Len(t) + k <= Len(s) + Len(t))
        /\ (Len(s) + Len(t) + k) - (Len(s) + Len(t)) = k
      BY <1>1
  <2>2. QED
      BY <1>1, <1>2, <1>3, <2>1 DEF both
<1>7. QED
    BY <1>1, <1>2, <1>3, <1>4, <1>5, <1>6 DEF both

\* The log after p's queue, and maybe a removal, has been relayed.
LEMMA RelayedLog ==
    ASSUME TypeOK, NEW p \in Peer, NEW last \in Seq(Removal),
           log' = (log \o outbox[p]) \o last
    PROVE  /\ log' \in Seq(Edit \cup Removal)
           /\ Len(log') = Len(log) + Len(outbox[p]) + Len(last)
           /\ \A i \in 1 .. Len(log) : log'[i] = log[i]
           /\ \A k \in 1 .. Len(outbox[p]) : log'[Len(log) + k] = outbox[p][k]
           /\ \A k \in 1 .. Len(last) : log'[Len(log) + Len(outbox[p]) + k] = last[k]
<1>1. outbox[p] \in Seq(Edit \cup Removal) /\ last \in Seq(Edit \cup Removal)
    BY SeqMonotonic DEF TypeOK
<1> DEFINE D == Edit \cup Removal
<1>2. log \in Seq(D) /\ outbox[p] \in Seq(D) /\ last \in Seq(D)
    BY <1>1 DEF TypeOK
<1> HIDE DEF D
<1>3. /\ log' \in Seq(D)
      /\ Len(log') = Len(log) + Len(outbox[p]) + Len(last)
      /\ \A i \in 1 .. Len(log) : log'[i] = log[i]
      /\ \A k \in 1 .. Len(outbox[p]) : log'[Len(log) + k] = outbox[p][k]
      /\ \A k \in 1 .. Len(last) : log'[Len(log) + Len(outbox[p]) + k] = last[k]
  <2> DEFINE a == log
             b == outbox[p]
             l == log'
  <2>1. a \in Seq(D) /\ b \in Seq(D) /\ last \in Seq(D) /\ l = (a \o b) \o last
      BY <1>2
  <2> HIDE DEF a, b, l
  <2>2. /\ l \in Seq(D)
        /\ Len(l) = Len(a) + Len(b) + Len(last)
        /\ \A i \in 1 .. Len(a) : l[i] = a[i]
        /\ \A k \in 1 .. Len(b) : l[Len(a) + k] = b[k]
        /\ \A k \in 1 .. Len(last) : l[Len(a) + Len(b) + k] = last[k]
      BY <2>1, ConcatThree
  <2>3. QED
      BY <2>2, Zenon DEF a, b, l
<1>4. QED
    BY <1>3 DEF D

\* Relaying p's queue, with p's removal behind it or not.
LEMMA RelayPreserves ==
    ASSUME VersionInvariant, NEW p \in Peer, NEW last \in Seq(Removal),
           \A k \in 1 .. Len(last) : last[k].by = p,
           log' = (log \o outbox[p]) \o last,
           outbox' = [outbox EXCEPT ![p] = <<>>],
           present' \in [Peer -> BOOLEAN],
           \A q \in Peer : present'[q] => present[q],
           present'[p] => last = <<>>,
           UNCHANGED <<edits, rec, dom, rd>>
    PROVE  VersionInvariant'
<1> DEFINE n == Len(log)
           m == Len(outbox[p])
<1>1. /\ TypeOK
      /\ outbox[p] \in Seq(Edit) /\ m \in Nat
      /\ log \in Seq(Edit \cup Removal) /\ n \in Nat
      /\ Len(last) \in Nat
    BY LenProperties DEF VersionInvariant, TypeOK
<1>2. /\ log' \in Seq(Edit \cup Removal)
      /\ Len(log') = n + m + Len(last)
      /\ \A i \in 1 .. n : log'[i] = log[i]
      /\ \A k \in 1 .. m : log'[n + k] = outbox[p][k]
      /\ \A k \in 1 .. Len(last) : log'[n + m + k] = last[k]
    BY <1>1, RelayedLog
<1>3. /\ outbox' \in [Peer -> Seq(Edit)]
      /\ outbox'[p] = <<>> /\ Len(outbox'[p]) = 0
      /\ \A q \in Peer \ {p} : outbox'[q] = outbox[q]
    BY <1>1, EmptySeq DEF TypeOK
<1>4. TypeOK'
    BY <1>1, <1>2, <1>3 DEF TypeOK
<1>5. \A i \in n + 1 .. Len(log') : log'[i].by = p
  <2>1. ASSUME NEW i \in n + 1 .. Len(log') PROVE log'[i].by = p
    <3>1. CASE i <= n + m
      <4>1. i - n \in 1 .. m /\ n + (i - n) = i
          BY <1>1, <1>2, <3>1
      <4>2. QED
          BY <1>2, <4>1 DEF VersionInvariant, OutboxOwn
    <3>2. CASE ~(i <= n + m)
      <4>1. i - (n + m) \in 1 .. Len(last) /\ n + m + (i - (n + m)) = i
          BY <1>1, <1>2, <3>2
      <4>2. QED
          BY <1>2, <4>1
    <3>3. QED
        BY <3>1, <3>2
  <2>2. QED
      BY <2>1
<1>6. Listed'
  <2>1. ASSUME NEW q \in Peer, present'[q]
        PROVE  Len(edits'[q]) = rd'[q] + Cardinality(OwnAhead(q)') + Len(outbox'[q])
    <3>1. Len(edits[q]) = rd[q] + Cardinality(OwnAhead(q)) + Len(outbox[q])
        BY <2>1 DEF VersionInvariant, Listed
    <3>2. rd[q] \in 0 .. n
        BY <1>1 DEF TypeOK
    <3>3. CASE q # p
      <4>1. OwnAhead(q)' = OwnAhead(q)
        <5>1. ASSUME NEW i \in Nat
              PROVE  i \in OwnAhead(q)' <=> i \in OwnAhead(q)
          <6>1. CASE i \in 1 .. n
              BY <1>1, <1>2, <3>2, <6>1 DEF OwnAhead
          <6>2. CASE i \notin 1 .. n
              BY <1>1, <1>2, <1>5, <3>2, <3>3, <6>2 DEF OwnAhead
          <6>3. QED
              BY <6>1, <6>2
        <5>2. OwnAhead(q) \subseteq Nat /\ OwnAhead(q)' \subseteq Nat
            BY <1>1, <1>2, <3>2 DEF OwnAhead
        <5>3. QED
            BY <5>1, <5>2
      <4>2. QED
          BY <1>3, <3>1, <3>3, <4>1
    <3>4. CASE q = p
      <4>1. Len(log') = n + m
          BY <1>1, <1>2, <2>1, <3>4, EmptySeq
      <4> DEFINE new == n + 1 .. n + m
      <4>2. OwnAhead(p)' = OwnAhead(p) \cup new
        <5>1. ASSUME NEW i \in Nat
              PROVE  i \in OwnAhead(p)' <=> i \in OwnAhead(p) \cup new
          <6>1. CASE i \in 1 .. n
              BY <1>1, <1>2, <3>2, <3>4, <4>1, <6>1 DEF OwnAhead
          <6>2. CASE i \in new
              BY <1>1, <1>2, <1>5, <3>2, <3>4, <4>1, <6>2 DEF OwnAhead
          <6>3. CASE i \notin 1 .. n /\ i \notin new
              BY <1>1, <3>2, <3>4, <4>1, <6>3 DEF OwnAhead
          <6>4. QED
              BY <6>1, <6>2, <6>3
        <5>2. OwnAhead(p) \subseteq Nat /\ OwnAhead(p)' \subseteq Nat /\ new \subseteq Nat
            BY <1>1, <1>2, <3>2, <3>4 DEF OwnAhead
        <5>3. QED
            BY <5>1, <5>2
      <4>3. IsFiniteSet(new) /\ Cardinality(new) = m
        <5>1. n + 1 \in Int /\ n + m \in Int
            BY <1>1
        <5>2. /\ IsFiniteSet(new)
              /\ Cardinality(new) = IF n + 1 > n + m THEN 0 ELSE (n + m) - (n + 1) + 1
            BY <5>1, FS_Interval
        <5>3. QED
            BY <1>1, <5>2
      <4>4. OwnAhead(p) \cap new = {}
          BY <1>1 DEF OwnAhead
      <4>5. IsFiniteSet(OwnAhead(p)) /\ Cardinality(OwnAhead(p)) \in Nat
          BY <1>1, OwnAheadBound
      <4> HIDE DEF new
      <4>6. Cardinality(OwnAhead(p) \cup new) = Cardinality(OwnAhead(p)) + m
        <5>1. Cardinality(OwnAhead(p) \cup new) =
                Cardinality(OwnAhead(p)) + Cardinality(new) - Cardinality(OwnAhead(p) \cap new)
            BY <4>3, <4>5, FS_Union
        <5>2. Cardinality(OwnAhead(p) \cap new) = 0
            BY <4>4, FS_EmptySet
        <5>3. QED
            BY <1>1, <4>3, <4>5, <5>1, <5>2
      <4>7. Cardinality(OwnAhead(q)') = Cardinality(OwnAhead(p)) + m
          BY <3>4, <4>2, <4>6
      <4>8. QED
          BY <1>1, <1>3, <3>1, <3>2, <3>4, <4>5, <4>7
    <3>5. QED
        BY <3>3, <3>4
  <2>2. QED
      BY <2>1 DEF Listed
<1>7. OutboxOwn'
  <2>1. ASSUME NEW q \in Peer, NEW k \in 1 .. Len(outbox'[q])
        PROVE  outbox'[q][k].by = q /\ outbox'[q][k].version <= Len(log') + k
    <3>1. q # p
        BY <1>3
    <3>2. outbox[q] \in Seq(Edit) /\ outbox'[q] = outbox[q] /\ k \in 1 .. Len(outbox[q])
        BY <1>1, <1>3, <3>1 DEF TypeOK
    <3>3. outbox[q][k].version \in Nat
      <4>1. outbox[q][k] \in Edit
          BY <3>2, ElementOfSeq
      <4>2. QED
          BY <4>1 DEF Edit
    <3>4. outbox[q][k].by = q /\ outbox[q][k].version <= n + k
        BY <3>2 DEF VersionInvariant, OutboxOwn
    <3>5. k \in Nat
        BY <3>2, LenProperties
    <3>6. QED
        BY <1>1, <1>2, <3>2, <3>3, <3>4, <3>5
  <2>2. QED
      BY <2>1 DEF OutboxOwn
<1>8. LogBound'
  <2>1. ASSUME NEW i \in 1 .. Len(log'), log'[i].kind = "set" PROVE log'[i].version <= i
    <3>1. CASE i <= n
        BY <1>1, <1>2, <2>1, <3>1 DEF VersionInvariant, LogBound
    <3>2. CASE n < i /\ i <= n + m
      <4>1. i - n \in 1 .. m /\ n + (i - n) = i
          BY <1>1, <1>2, <3>2
      <4>2. outbox[p][i - n].version <= n + (i - n)
          BY <4>1 DEF VersionInvariant, OutboxOwn
      <4>3. QED
          BY <1>2, <4>1, <4>2
    <3>3. CASE n + m < i
      <4>1. i - (n + m) \in 1 .. Len(last) /\ n + m + (i - (n + m)) = i
          BY <1>1, <1>2, <3>3
      <4>2. log'[i] = last[i - (n + m)]
          BY <1>2, <4>1
      <4>3. last[i - (n + m)] \in Removal
          BY <4>1, ElementOfSeq
      <4>4. QED
          BY <2>1, <4>2, <4>3 DEF Removal
    <3>4. QED
        BY <1>1, <1>2, <3>1, <3>2, <3>3
  <2>2. QED
      BY <2>1 DEF LogBound
<1>9. ListsSorted' /\ NoGap'
    BY DEF VersionInvariant, ListsSorted, NoGap
<1>10. QED
    BY <1>4, <1>6, <1>7, <1>8, <1>9 DEF VersionInvariant

LEMMA RemoveNodePreserves ==
    ASSUME VersionInvariant, NEW p \in Peer, RemoveNode(p)
    PROVE  VersionInvariant'
<1> DEFINE r    == [by |-> p, kind |-> "remove"]
           last == <<r>>
<1>1. /\ last \in Seq(Removal) /\ Len(last) = 1
      /\ \A k \in 1 .. Len(last) : last[k].by = p
  <2>1. r \in Removal /\ r.by = p
      BY DEF Removal
  <2> HIDE DEF r
  <2>2. QED
      BY <2>1
<1>2. /\ present' = [present EXCEPT ![p] = FALSE]
      /\ log' = (log \o outbox[p]) \o last
      /\ outbox' = [outbox EXCEPT ![p] = <<>>]
      /\ UNCHANGED <<edits, rec, dom, rd>>
    BY DEF RemoveNode
<1>3. /\ present' \in [Peer -> BOOLEAN] /\ ~present'[p]
      /\ \A q \in Peer : present'[q] => present[q]
    BY <1>2 DEF VersionInvariant, TypeOK
<1> HIDE DEF last
<1>4. QED
    BY <1>1, <1>2, <1>3, RelayPreserves

LEMMA FlushPreserves ==
    ASSUME VersionInvariant, NEW p \in Peer, Flush(p)
    PROVE  VersionInvariant'
<1>1. /\ log' = log \o outbox[p]
      /\ outbox' = [outbox EXCEPT ![p] = <<>>]
      /\ UNCHANGED <<present, edits, rec, dom, rd>>
    BY DEF Flush
<1>2. log' = (log \o outbox[p]) \o <<>>
  <2>1. log \in Seq(Edit \cup Removal) /\ outbox[p] \in Seq(Edit \cup Removal)
      BY SeqMonotonic DEF VersionInvariant, TypeOK
  <2>2. log \o outbox[p] \in Seq(Edit \cup Removal)
      BY <2>1, ConcatProperties
  <2>3. QED
      BY <1>1, <2>2, ConcatEmptySeq
<1> DEFINE last == <<>>
<1>3. /\ last \in Seq(Removal) /\ \A k \in 1 .. Len(last) : last[k].by = p
      /\ present'[p] => last = <<>>
    BY EmptySeq
<1>4. /\ present' \in [Peer -> BOOLEAN]
      /\ \A q \in Peer : present'[q] => present[q]
    BY <1>1 DEF VersionInvariant, TypeOK
<1>5. log' = (log \o outbox[p]) \o last
    BY <1>2
<1> HIDE DEF last
<1>6. QED
    BY <1>1, <1>3, <1>4, <1>5, RelayPreserves

\* Reading one entry of the log; Listed is the part it can disturb.
LEMMA ReadingPreserves ==
    ASSUME VersionInvariant, NEW p \in Peer, rd[p] < Len(log),
           rd' = [rd EXCEPT ![p] = @ + 1],
           UNCHANGED <<outbox, log>>,
           TypeOK', ListsSorted', NoGap',
           \A q \in Peer \ {p} : present'[q] = present[q] /\ edits'[q] = edits[q],
           present'[p] => /\ present[p]
                          /\ Len(edits'[p]) = IF log[rd[p] + 1].by = p
                                              THEN Len(edits[p]) ELSE Len(edits[p]) + 1
    PROVE  VersionInvariant'
<1>1. /\ TypeOK /\ Len(log) \in Nat /\ rd[p] \in 0 .. Len(log)
      /\ edits[p] \in Seq(Edit) /\ outbox[p] \in Seq(Edit)
    BY LenProperties DEF VersionInvariant, TypeOK
<1>2. Len(edits[p]) \in Nat /\ Len(outbox[p]) \in Nat
    BY <1>1, LenProperties
<1>3. rd'[p] = rd[p] + 1 /\ \A q \in Peer \ {p} : rd'[q] = rd[q]
    BY <1>1 DEF TypeOK
<1>4. Listed'
  <2>1. ASSUME NEW q \in Peer, present'[q]
        PROVE  Len(edits'[q]) = rd'[q] + Cardinality(OwnAhead(q)') + Len(outbox'[q])
    <3>1. CASE q # p
      <4>1. /\ OwnAhead(q)' = OwnAhead(q) /\ rd'[q] = rd[q]
            /\ present[q] /\ edits'[q] = edits[q]
          BY <1>3, <2>1, <3>1 DEF OwnAhead
      <4>2. Len(edits[q]) = rd[q] + Cardinality(OwnAhead(q)) + Len(outbox[q])
          BY <4>1 DEF VersionInvariant, Listed
      <4>3. QED
          BY <4>1, <4>2
    <3>2. CASE q = p
      <4> DEFINE next == rd[p] + 1
                 a    == Cardinality(OwnAhead(p))
                 b    == Cardinality(OwnAhead(p)')
                 l    == Len(edits[p])
                 o    == Len(outbox[p])
                 new  == Len(edits'[p])
      <4>1. present[p] /\ next \in 1 .. Len(log)
          BY <1>1, <2>1, <3>2
      <4>2. /\ l = rd[p] + a + o /\ IsFiniteSet(OwnAhead(p)) /\ a \in Nat
            /\ l \in Nat /\ o \in Nat /\ rd[p] \in Nat
          BY <1>1, <1>2, <4>1, OwnAheadBound DEF VersionInvariant, Listed
      <4>3. CASE log[next].by = p
        <5>1. next \in OwnAhead(p) /\ OwnAhead(p)' = OwnAhead(p) \ {next}
            BY <1>1, <1>3, <4>1, <4>3 DEF OwnAhead
        <5>2. b = a - 1
          <6>1. Cardinality(OwnAhead(p) \ {next}) = a - 1
              BY <4>2, <5>1, FS_RemoveElement
          <6>2. QED
              BY <5>1, <6>1, Zenon
        <5>3. new = l
            BY <2>1, <3>2, <4>3
        <5> HIDE DEF a, b, l, o, new
        <5>4. new = (rd[p] + 1) + b + o
            BY <4>2, <5>2, <5>3
        <5>5. QED
            BY <1>3, <3>2, <5>4, Zenon DEF b, o, new
      <4>4. CASE log[next].by # p
        <5>1. OwnAhead(p)' = OwnAhead(p)
            BY <1>1, <1>3, <4>1, <4>4 DEF OwnAhead
        <5>2. b = a
            BY <5>1, Zenon
        <5>3. new = l + 1
            BY <2>1, <3>2, <4>4
        <5> HIDE DEF a, b, l, o, new
        <5>4. new = (rd[p] + 1) + b + o
            BY <4>2, <5>2, <5>3
        <5>5. QED
            BY <1>3, <3>2, <5>4, Zenon DEF b, o, new
      <4>5. QED
          BY <4>3, <4>4
    <3>3. QED
        BY <3>1, <3>2
  <2>2. QED
      BY <2>1 DEF Listed
<1>5. OutboxOwn' /\ LogBound'
    BY DEF VersionInvariant, OutboxOwn, LogBound
<1>6. QED
    BY <1>4, <1>5 DEF VersionInvariant

LEMMA SkipPreserves ==
    ASSUME VersionInvariant, NEW p \in Peer, Skip(p)
    PROVE  VersionInvariant'
<1>1. /\ rd[p] < Len(log) /\ (log[rd[p] + 1].by = p \/ ~present[p])
      /\ rd' = [rd EXCEPT ![p] = @ + 1]
      /\ UNCHANGED <<present, edits, rec, dom, outbox, log>>
    BY DEF Skip
<1>2. TypeOK'
  <2>1. Len(log) \in Nat /\ rd[p] \in 0 .. Len(log) /\ rd \in [Peer -> 0 .. Len(log)]
      BY LenProperties DEF VersionInvariant, TypeOK
  <2>2. rd' \in [Peer -> 0 .. Len(log)]
      BY <1>1, <2>1
  <2>3. QED
      BY <1>1, <2>2 DEF VersionInvariant, TypeOK
<1>3. ListsSorted' /\ NoGap'
    BY <1>1 DEF VersionInvariant, ListsSorted, NoGap
<1>4. QED
    BY <1>1, <1>2, <1>3, ReadingPreserves

\* An edit received has a version no larger than its place at the end of the list.
LEMMA ReceivedVersion ==
    ASSUME VersionInvariant, NEW p \in Peer, present[p], rd[p] < Len(log),
           log[rd[p] + 1].kind = "set"
    PROVE  /\ log[rd[p] + 1] \in Edit
           /\ log[rd[p] + 1].version <= Len(edits[p]) + 1
<1> DEFINE e == log[rd[p] + 1]
           l == Len(edits[p])
           o == Len(outbox[p])
           a == Cardinality(OwnAhead(p))
           v == e.version
<1>1. /\ TypeOK /\ Len(log) \in Nat /\ rd[p] \in 0 .. Len(log) /\ l \in Nat /\ o \in Nat
    BY LenProperties DEF VersionInvariant, TypeOK
<1>2. rd[p] + 1 \in 1 .. Len(log)
    BY <1>1
<1>3. e \in Edit
  <2>1. e \in Edit \cup Removal
      BY <1>2, ElementOfSeq DEF VersionInvariant, TypeOK
  <2>2. QED
      BY <2>1 DEF Removal
<1>4. v <= rd[p] + 1
    BY <1>2 DEF VersionInvariant, LogBound
<1>5. l = rd[p] + a + o
    BY DEF VersionInvariant, Listed
<1>6. a \in Nat /\ v \in Nat /\ rd[p] \in Nat
    BY <1>1, <1>3, OwnAheadBound DEF Edit
<1> HIDE DEF l, o, a, v
<1>7. v <= l + 1
    BY <1>1, <1>4, <1>5, <1>6
<1>8. QED
    BY <1>3, <1>7 DEF v, l

LEMMA ReceiveEditPreserves ==
    ASSUME VersionInvariant, NEW p \in Peer, ReceiveEdit(p)
    PROVE  VersionInvariant'
<1> DEFINE e == log[rd[p] + 1]
<1>1. /\ rd[p] < Len(log) /\ present[p] /\ e.by # p /\ e.kind = "set"
      /\ ApplyRecordEdit(p, e)
      /\ rd' = [rd EXCEPT ![p] = @ + 1]
      /\ UNCHANGED <<present, outbox, log>>
    BY DEF ReceiveEdit
<1>2. /\ TypeOK /\ Len(log) \in Nat /\ rd[p] \in 0 .. Len(log)
      /\ edits[p] \in Seq(Edit) /\ Len(edits[p]) \in Nat
      /\ outbox[p] \in Seq(Edit) /\ Len(outbox[p]) \in Nat
    BY LenProperties DEF VersionInvariant, TypeOK
<1>4. e \in Edit /\ e.version <= Len(edits[p]) + 1
    BY <1>1, ReceivedVersion
<1> HIDE DEF e
<1>6. /\ edits' \in [Peer -> Seq(Edit)]
      /\ rec' \in [Peer -> Record]
      /\ dom' \in [Peer -> Record]
      /\ Len(edits'[p]) = Len(edits[p]) + 1
      /\ Sorted(edits'[p]) /\ Gapless(edits'[p])
      /\ \A q \in Peer \ {p} : edits'[q] = edits[q]
  <2>1. Sorted(edits[p]) /\ Gapless(edits[p])
      BY DEF VersionInvariant, ListsSorted, NoGap
  <2>2. QED
      BY <1>1, <1>2, <1>4, <2>1, ApplyRecordEditFacts
<1>7. TypeOK'
  <2>1. rd' \in [Peer -> 0 .. Len(log)]
      BY <1>1, <1>2 DEF TypeOK
  <2>2. QED
      BY <1>1, <1>2, <1>6, <2>1 DEF TypeOK
<1>8. ListsSorted' /\ NoGap'
    BY <1>6 DEF VersionInvariant, ListsSorted, NoGap
<1>9. Len(edits'[p]) = IF log[rd[p] + 1].by = p THEN Len(edits[p]) ELSE Len(edits[p]) + 1
    BY <1>1, <1>6 DEF e
<1>10. QED
    BY <1>1, <1>6, <1>7, <1>8, <1>9, ReadingPreserves

LEMMA ReceiveRemovalPreserves ==
    ASSUME VersionInvariant, NEW p \in Peer, ReceiveRemoval(p)
    PROVE  VersionInvariant'
<1>1. /\ rd[p] < Len(log)
      /\ present' = [present EXCEPT ![p] = FALSE]
      /\ rd' = [rd EXCEPT ![p] = @ + 1]
      /\ UNCHANGED <<edits, rec, dom, outbox, log>>
    BY DEF ReceiveRemoval
<1>2. TypeOK'
  <2>1. Len(log) \in Nat /\ rd[p] \in 0 .. Len(log) /\ rd \in [Peer -> 0 .. Len(log)]
      BY LenProperties DEF VersionInvariant, TypeOK
  <2>2. rd' \in [Peer -> 0 .. Len(log)]
      BY <1>1, <2>1
  <2>3. QED
      BY <1>1, <2>2 DEF VersionInvariant, TypeOK
<1>3. ListsSorted' /\ NoGap'
    BY <1>1 DEF VersionInvariant, ListsSorted, NoGap
<1>4. ~present'[p] /\ \A q \in Peer \ {p} : present'[q] = present[q]
    BY <1>1 DEF VersionInvariant, TypeOK
<1>5. QED
    BY <1>1, <1>2, <1>3, <1>4, ReadingPreserves

LEMMA LocalEditIsEditLocally ==
    ASSUME NEW p \in Peer, LocalEdit(p)
    PROVE  \E c \in Wanted : EditLocally(p, c)
    BY DEF LocalEdit, MoveNode, SetNodeValue, ReplaceNodeValue

LEMMA NextVersionInvariant == VersionInvariant /\ [Next]_vars => VersionInvariant'
<1> SUFFICES ASSUME VersionInvariant, [Next]_vars PROVE VersionInvariant'
    OBVIOUS
<1>1. ASSUME NEW p \in Peer, LocalEdit(p) PROVE VersionInvariant'
    BY <1>1, LocalEditIsEditLocally, EditLocallyPreserves
<1>2. ASSUME NEW p \in Peer, RemoveNode(p) PROVE VersionInvariant'
    BY <1>2, RemoveNodePreserves
<1>3. ASSUME NEW p \in Peer, Flush(p) PROVE VersionInvariant'
    BY <1>3, FlushPreserves
<1>4. ASSUME NEW p \in Peer, Receive(p) PROVE VersionInvariant'
    BY <1>4, SkipPreserves, ReceiveEditPreserves, ReceiveRemovalPreserves DEF Receive
<1>5. CASE UNCHANGED vars
  <2>1. \A p \in Peer : OwnAhead(p)' = OwnAhead(p)
      BY <1>5 DEF vars, OwnAhead
  <2>2. Listed'
      BY <1>5, <2>1 DEF VersionInvariant, Listed, vars
  <2>3. QED
      BY <1>5, <2>2 DEF VersionInvariant, vars, TypeOK, OutboxOwn, LogBound, ListsSorted, NoGap
<1>6. QED
    BY <1>1, <1>2, <1>3, <1>4, <1>5 DEF Next

\* Every variable keeps its type and every participant's list of a record agrees
\* with what it has made and received: the inductive invariant holds of every
\* behaviour, for any number of participants, edits, positions and texts.
THEOREM VersionsConsistent == Spec => []VersionInvariant
<1>1. Init => VersionInvariant
    BY InitVersionInvariant
<1>2. VersionInvariant /\ [Next]_vars => VersionInvariant'
    BY NextVersionInvariant
<1>3. QED
    BY <1>1, <1>2, PTL DEF Spec

\* An edit never stands in a list before its version, so an edit that
\* reorderEdits passed over can be nullified.
THEOREM NoGapHolds == Spec => []NoGap
<1>1. VersionInvariant => NoGap
    BY DEF VersionInvariant
<1>2. QED
    BY <1>1, VersionsConsistent, PTL

-----------------------------------------------------------------------------
(* Local edits.                                                            *)

\* An edit of version() + 1 is in order: the last edit of a gapless list cannot
\* override it.
LEMMA LocalEditInOrder ==
    ASSUME VersionInvariant, NEW p \in Peer, NEW e, e.version = Len(edits[p]) + 1
    PROVE  InOrder(edits[p], e)
<1>1. edits[p] \in Seq(Edit) /\ Len(edits[p]) \in Nat
    BY LenProperties DEF VersionInvariant, TypeOK
<1>2. SUFFICES ASSUME edits[p] # <<>>
              PROVE  ~OverriddenBy(edits[p][Len(edits[p])], e)
    BY DEF InOrder
<1>3. Len(edits[p]) \in 1 .. Len(edits[p])
    BY <1>1, <1>2, EmptySeq
<1>4. edits[p][Len(edits[p])].version <= Len(edits[p])
    BY <1>3 DEF VersionInvariant, NoGap, Gapless
<1>5. edits[p][Len(edits[p])].version \in Nat
  <2>1. edits[p][Len(edits[p])] \in Edit
      BY <1>1, <1>3, ElementOfSeq
  <2>2. QED
      BY <2>1 DEF Edit
<1>6. QED
    BY <1>1, <1>4, <1>5 DEF OverriddenBy

LEMMA LocalEditEffect ==
    ASSUME VersionInvariant, NEW p \in Peer, NEW c \in Wanted, EditLocally(p, c)
    PROVE  /\ \A q \in Peer \ {p} : outbox'[q] = outbox[q]
           /\ rec'[p] = ApplyChange(rec[p], outbox'[p][Len(outbox'[p])].change)
<1> DEFINE e == [by |-> p, kind |-> "set", version |-> NextVersion(p),
                 change |-> c, base |-> rec[p]]
<1>1. /\ ApplyRecordEdit(p, e)
      /\ outbox' = [outbox EXCEPT ![p] = Append(@, e)]
      /\ e.change = c /\ e.version = Len(edits[p]) + 1
    BY DEF EditLocally, NextVersion
<1>2. outbox[p] \in Seq(Edit) /\ rec[p] \in Record /\ rec \in [Peer -> Record]
      /\ outbox \in [Peer -> Seq(Edit)]
    BY DEF VersionInvariant, TypeOK
<1>3. e \in Edit
    BY <1>2, WantedAssumption, LenProperties
       DEF VersionInvariant, TypeOK, Edit, NextVersion
<1> HIDE DEF e
<1>4. InOrder(edits[p], e)
    BY <1>1, LocalEditInOrder
<1>5. rec'[p] = ApplyChange(rec[p], e.change)
    BY <1>1, <1>2, <1>4 DEF ApplyRecordEdit
<1>6. outbox'[p] = Append(outbox[p], e)
    BY <1>1, <1>2
<1>7. outbox'[p][Len(outbox'[p])] = e
    BY <1>2, <1>3, <1>6, AppendProperties
<1>8. QED
    BY <1>1, <1>2, <1>5, <1>7

LEMMA StepLocalEditTakesEffect ==
    ASSUME VersionInvariant, [Next]_vars, NEW p \in Peer,
           Len(outbox'[p]) > Len(outbox[p])
    PROVE  rec'[p] = ApplyChange(rec[p], outbox'[p][Len(outbox'[p])].change)
<1>1. /\ outbox \in [Peer -> Seq(Edit)]
      /\ \A q \in Peer : Len(outbox[q]) \in Nat
    BY LenProperties DEF VersionInvariant, TypeOK
<1>2. ASSUME NEW q \in Peer, LocalEdit(q)
      PROVE  rec'[p] = ApplyChange(rec[p], outbox'[p][Len(outbox'[p])].change)
  <2>1. PICK c \in Wanted : EditLocally(q, c)
      BY <1>2, LocalEditIsEditLocally
  <2>2. CASE q = p
      BY <2>1, <2>2, LocalEditEffect
  <2>3. CASE q # p
    <3>1. outbox'[p] = outbox[p]
        BY <2>1, <2>3, LocalEditEffect
    <3>2. QED
        BY <1>1, <3>1
  <2>4. QED
      BY <2>2, <2>3
<1>3. ASSUME NEW q \in Peer, outbox' = [outbox EXCEPT ![q] = <<>>] PROVE FALSE
  <2>1. CASE q = p
      BY <1>1, <1>3, <2>1, EmptySeq
  <2>2. CASE q # p
      BY <1>1, <1>3, <2>2
  <2>3. QED
      BY <2>1, <2>2
<1>4. ASSUME NEW q \in Peer, RemoveNode(q) \/ Flush(q) PROVE FALSE
    BY <1>3, <1>4 DEF RemoveNode, Flush
<1>5. ASSUME NEW q \in Peer, Receive(q) \/ UNCHANGED vars PROVE FALSE
    BY <1>1, <1>5 DEF Receive, Skip, ReceiveEdit, ReceiveRemoval, vars
<1>6. QED
    BY <1>2, <1>4, <1>5 DEF Next

\* A user's edit of a record shows at once in the user's own fields, however
\* many conflicting edits the record has been through.
THEOREM LocalEditTakesEffectHolds == Spec => LocalEditTakesEffect
<1> DEFINE A == \A p \in Peer :
                   Len(outbox'[p]) > Len(outbox[p]) =>
                      rec'[p] = ApplyChange(rec[p], outbox'[p][Len(outbox'[p])].change)
<1>1. VersionInvariant /\ [Next]_vars => [A]_vars
    BY StepLocalEditTakesEffect
<1>2. QED
    BY <1>1, VersionsConsistent, PTL DEF Spec, LocalEditTakesEffect

-----------------------------------------------------------------------------
(* The operators ResolvedRecord shares with this module.                   *)

LEMMA SharedCardinality == \A S : Resolved!Cardinality(S) = Cardinality(S)
    BY DEF Resolved!Cardinality, Cardinality

LEMMA SharedZero == Resolved!Zero = Zero
    BY DEF Resolved!Zero, Zero

LEMMA SharedApplyChange ==
    \A r, c : Resolved!ApplyChange(r, c) = ApplyChange(r, c)
    BY DEF Resolved!ApplyChange, ApplyChange, Resolved!Splice, Splice

-----------------------------------------------------------------------------
(* Lists and sets of edits.                                                *)

\* A set of positions that holds every position before one of its own is an
\* initial interval.
LEMMA LeadingPositions ==
    ASSUME NEW n \in Nat, NEW D \in SUBSET (1 .. n),
           \A i, j \in 1 .. n : i < j /\ j \in D => i \in D
    PROVE  /\ IsFiniteSet(D)
           /\ Cardinality(D) \in 0 .. n
           /\ D = 1 .. Cardinality(D)
<1> DEFINE Out == {i \in 1 .. n + 1 : i \notin D}
<1>1. n + 1 \in Out /\ Out \in SUBSET Nat
    OBVIOUS
<1>2. PICK m \in Out : \A i \in Out : m <= i
    BY <1>1, LeastNumber
<1>3. m \in 1 .. n + 1 /\ m \notin D
    BY <1>2
<1>4. D = 1 .. m - 1
  <2>1. ASSUME NEW i \in 1 .. m - 1 PROVE i \in D
      BY <1>2, <1>3
  <2>2. ASSUME NEW i \in D PROVE i \in 1 .. m - 1
    <3>1. ~(m < i)
        BY <1>3
    <3>2. QED
        BY <1>3, <3>1
  <2>3. QED
      BY <2>1, <2>2
<1>5. IsFiniteSet(1 .. m - 1) /\ Cardinality(1 .. m - 1) = m - 1
  <2>1. m - 1 \in Int /\ 1 \in Int /\ m - 1 >= 0
      BY <1>3
  <2>2. /\ IsFiniteSet(1 .. m - 1)
        /\ Cardinality(1 .. m - 1) = IF 1 > m - 1 THEN 0 ELSE m - 1 - 1 + 1
      BY <2>1, FS_Interval
  <2>3. QED
      BY <2>1, <2>2
<1>6. QED
    BY <1>3, <1>4, <1>5

\* s lists the edits of K, each once and with its own version; b[i] is the edit
\* at i.  What else an entry says of its edit is left open.
Arrangement(s, K, b) ==
    /\ b \in Bijection(1 .. Len(s), K)
    /\ \A i \in 1 .. Len(s) : s[i].version = b[i].version

LEMMA VersionType ==
    ASSUME NEW s \in Seq(Edit), NEW i \in 1 .. Len(s)
    PROVE  s[i] \in Edit /\ s[i].version \in Nat /\ s[i].change \in Change
<1>1. s[i] \in Edit
    BY ElementOfSeq
<1>2. QED
    BY <1>1 DEF Edit

LEMMA ArrangementSize ==
    ASSUME NEW s \in Seq(Edit), NEW K, NEW b, Arrangement(s, K, b)
    PROVE  IsFiniteSet(K) /\ Cardinality(K) = Len(s)
<1>1. Len(s) \in Nat
    BY LenProperties
<1>2. IsFiniteSet(1 .. Len(s)) /\ Cardinality(1 .. Len(s)) = Len(s)
    BY <1>1, FS_Interval
<1>3. ExistsBijection(1 .. Len(s), K)
    BY DEF Arrangement, ExistsBijection
<1>4. QED
    BY <1>2, <1>3, FS_Bijection

\* In a sorted list the edits of versions below v come first, and there are as
\* many of them as K has.
LEMMA BelowIsLeading ==
    ASSUME NEW s \in Seq(Edit), Sorted(s), NEW K, NEW b, Arrangement(s, K, b),
           NEW v \in Nat
    PROVE  /\ IsFiniteSet(Resolved!Below(K, v))
           /\ Cardinality(Resolved!Below(K, v)) \in 0 .. Len(s)
           /\ \A i \in 1 .. Len(s) :
                 s[i].version < v <=> i <= Cardinality(Resolved!Below(K, v))
<1> DEFINE n == Len(s)
           D == {i \in 1 .. n : s[i].version < v}
           B == Resolved!Below(K, v)
           c == [i \in D |-> b[i]]
<1>1. n \in Nat /\ \A i \in 1 .. n : s[i].version \in Nat
    BY LenProperties, VersionType
<1>2. ASSUME NEW i \in 1 .. n, NEW j \in 1 .. n, i < j, j \in D PROVE i \in D
    BY <1>1, <1>2 DEF Sorted
<1>3. IsFiniteSet(D) /\ Cardinality(D) \in 0 .. n /\ D = 1 .. Cardinality(D)
  <2> HIDE DEF n, D
  <2>1. n \in Nat /\ D \in SUBSET (1 .. n)
      BY <1>1 DEF D
  <2>2. QED
      BY <1>2, <2>1, LeadingPositions
<1>4. c \in Bijection(D, B)
  <2>1. /\ b \in [1 .. n -> K]
        /\ \A i, j \in 1 .. n : b[i] = b[j] => i = j
        /\ \A e \in K : \E i \in 1 .. n : b[i] = e
        /\ \A i \in 1 .. n : s[i].version = b[i].version
      BY DEF Arrangement, Bijection, Injection, Surjection, IsInjective
  <2>2. c \in [D -> B]
      BY <2>1 DEF Resolved!Below
  <2>3. \A i, j \in D : c[i] = c[j] => i = j
      BY <2>1
  <2>4. ASSUME NEW e \in B PROVE \E i \in D : c[i] = e
    <3>1. e \in K /\ e.version < v
        BY DEF Resolved!Below
    <3>2. PICK i \in 1 .. n : b[i] = e
        BY <2>1, <3>1
    <3>3. i \in D
        BY <2>1, <3>1, <3>2
    <3>4. QED
        BY <3>2, <3>3
  <2>5. QED
      BY <2>2, <2>3, <2>4 DEF Bijection, Injection, Surjection, IsInjective
<1>5. IsFiniteSet(B) /\ Cardinality(B) = Cardinality(D)
    BY <1>3, <1>4, FS_Bijection DEF ExistsBijection
<1>6. ASSUME NEW i \in 1 .. n PROVE s[i].version < v <=> i <= Cardinality(D)
  <2>1. i \in D <=> i \in 1 .. Cardinality(D)
      BY <1>3
  <2>2. QED
      BY <1>1, <1>3, <2>1
<1>7. QED
    BY <1>3, <1>5, <1>6

\* The edits of version v are those below v + 1 that are not below v.
LEMMA AtAndBelow ==
    ASSUME NEW K \in SUBSET Edit, NEW v \in Nat, IsFiniteSet(Resolved!Below(K, v + 1))
    PROVE  /\ IsFiniteSet(Resolved!Below(K, v)) /\ IsFiniteSet(Resolved!At(K, v))
           /\ Cardinality(Resolved!Below(K, v + 1)) =
                 Cardinality(Resolved!Below(K, v)) + Cardinality(Resolved!At(K, v))
<1> DEFINE B == Resolved!Below(K, v)
           A == Resolved!At(K, v)
           C == Resolved!Below(K, v + 1)
<1>1. \A e \in K : e.version \in Nat
    BY DEF Edit
<1>2. C = B \cup A /\ B \cap A = {}
    BY <1>1 DEF Resolved!Below, Resolved!At
<1>3. IsFiniteSet(B) /\ IsFiniteSet(A)
    BY <1>2, FS_Subset
<1>4. Cardinality(B \cup A) = Cardinality(B) + Cardinality(A) - Cardinality(B \cap A)
    BY <1>3, FS_Union
<1>5. Cardinality(B) \in Nat /\ Cardinality(A) \in Nat /\ Cardinality(B \cap A) = 0
    BY <1>2, <1>3, FS_CardinalityType, FS_EmptySet
<1> HIDE DEF A, B, C
<1>6. Cardinality(C) = Cardinality(B) + Cardinality(A)
    BY <1>2, <1>4, <1>5
<1>7. QED
    BY <1>3, <1>6 DEF A, B, C

\* The edit at i of a sorted gapless list takes effect exactly when version i is
\* undisputed in the set.
LEMMA EffectiveIsUndisputed ==
    ASSUME NEW s \in Seq(Edit), Sorted(s), Gapless(s), NEW K \in SUBSET Edit, NEW b,
           Arrangement(s, K, b), NEW i \in 1 .. Len(s)
    PROVE  /\ Effective(s, i) <=> Resolved!Undisputed(K, i)
           /\ Effective(s, i) => Resolved!At(K, i) = {b[i]}
           /\ Resolved!Undisputed(K, s[i].version) => s[i].version = i
<1> DEFINE n == Len(s)
           lo(v) == Cardinality(Resolved!Below(K, v))
           at(v) == Cardinality(Resolved!At(K, v))
<1>1. /\ n \in Nat
      /\ \A j \in 1 .. n : s[j].version \in Nat /\ s[j].version <= j
    BY LenProperties, VersionType DEF Gapless
<1>2. ASSUME NEW v \in Nat
      PROVE  /\ lo(v) \in 0 .. n /\ lo(v + 1) \in 0 .. n
             /\ lo(v + 1) = lo(v) + at(v) /\ at(v) \in Nat
             /\ \A j \in 1 .. n : s[j].version < v <=> j <= lo(v)
             /\ \A j \in 1 .. n : s[j].version < v + 1 <=> j <= lo(v + 1)
  <2>1. v + 1 \in Nat
      OBVIOUS
  <2>2. /\ lo(v) \in 0 .. n
        /\ \A j \in 1 .. n : s[j].version < v <=> j <= lo(v)
      BY BelowIsLeading
  <2>3. /\ IsFiniteSet(Resolved!Below(K, v + 1)) /\ lo(v + 1) \in 0 .. n
        /\ \A j \in 1 .. n : s[j].version < v + 1 <=> j <= lo(v + 1)
      BY <2>1, BelowIsLeading
  <2>4. IsFiniteSet(Resolved!At(K, v)) /\ lo(v + 1) = lo(v) + at(v)
      BY <2>3, AtAndBelow
  <2>5. at(v) \in Nat
      BY <2>4, FS_CardinalityType
  <2>6. QED
      BY <2>2, <2>3, <2>4, <2>5
<1>3. ASSUME NEW v \in Nat
      PROVE  Resolved!Undisputed(K, v) <=> lo(v) = v - 1 /\ lo(v + 1) = v
  <2>1. Resolved!Undisputed(K, v) <=> at(v) = 1 /\ lo(v) = v - 1
      BY SharedCardinality DEF Resolved!Undisputed
  <2> DEFINE l == lo(v)
             a == at(v)
             m == lo(v + 1)
  <2>2. l \in 0 .. n /\ m = l + a /\ a \in Nat
      BY <1>2
  <2>3. Resolved!Undisputed(K, v) <=> a = 1 /\ l = v - 1
      BY <2>1
  <2> HIDE DEF l, a, m
  <2>4. Resolved!Undisputed(K, v) <=> l = v - 1 /\ m = v
      BY <1>1, <2>2, <2>3
  <2>5. QED
      BY <2>4 DEF l, m
<1>4. Effective(s, i) <=> s[i].version = i /\ (i < n => i < s[i + 1].version)
  <2>1. i < n => i + 1 \in 1 .. n
      BY <1>1
  <2>2. QED
      BY <1>1, <2>1 DEF Effective, OverriddenBy
<1>5. /\ lo(i) \in 0 .. n /\ lo(i + 1) \in 0 .. n
      /\ \A j \in 1 .. n : s[j].version < i <=> j <= lo(i)
      /\ \A j \in 1 .. n : s[j].version < i + 1 <=> j <= lo(i + 1)
  <2>1. i \in Nat
      BY <1>1
  <2> HIDE DEF lo, at
  <2>2. QED
      BY <1>2, <2>1
<1>6. lo(i) >= i - 1
  <2>1. CASE i = 1
      BY <1>5, <2>1
  <2>2. CASE i # 1
    <3>1. i - 1 \in 1 .. n /\ s[i - 1].version < i
        BY <1>1, <2>2
    <3>2. QED
        BY <1>5, <3>1
  <2>3. QED
      BY <2>1, <2>2
<1>7. ASSUME Effective(s, i) PROVE lo(i) = i - 1 /\ lo(i + 1) = i
  <2> HIDE DEF lo
  <2>1. ~(i <= lo(i)) /\ i <= lo(i + 1)
      BY <1>1, <1>4, <1>5, <1>7
  <2>2. i < n => ~(i + 1 <= lo(i + 1))
    <3>1. ASSUME i < n PROVE i + 1 \in 1 .. n /\ ~(s[i + 1].version < i + 1)
      <4>1. i + 1 \in 1 .. n
          BY <1>1, <3>1
      <4>2. s[i + 1].version \in Nat /\ i < s[i + 1].version
          BY <1>1, <1>4, <1>7, <3>1, <4>1
      <4>3. QED
          BY <4>1, <4>2
    <3>2. QED
        BY <1>5, <3>1
  <2>3. QED
      BY <1>1, <1>5, <1>6, <2>1, <2>2
<1>8. ASSUME lo(i) = i - 1, lo(i + 1) = i PROVE Effective(s, i)
  <2> HIDE DEF lo
  <2>1. s[i].version < i + 1 /\ ~(s[i].version < i)
      BY <1>1, <1>5, <1>8
  <2>2. i < n => i + 1 \in 1 .. n /\ ~(s[i + 1].version < i + 1)
      BY <1>1, <1>5, <1>8
  <2>3. QED
      BY <1>1, <1>4, <2>1, <2>2
<1>9. Effective(s, i) <=> Resolved!Undisputed(K, i)
    BY <1>3, <1>7, <1>8
<1>10. ASSUME Effective(s, i) PROVE Resolved!At(K, i) = {b[i]}
  <2>1. /\ b \in [1 .. n -> K]
        /\ \A e \in K : \E j \in 1 .. n : b[j] = e
        /\ \A j \in 1 .. n : s[j].version = b[j].version
      BY DEF Arrangement, Bijection, Injection, Surjection, IsInjective
  <2>2. b[i] \in Resolved!At(K, i)
      BY <1>4, <1>10, <2>1 DEF Resolved!At
  <2>3. ASSUME NEW e \in Resolved!At(K, i) PROVE e = b[i]
    <3>1. PICK j \in 1 .. n : b[j] = e /\ s[j].version = i
        BY <2>1 DEF Resolved!At
    <3>2. ~(j <= lo(i)) /\ j <= lo(i + 1)
        BY <1>1, <1>5, <3>1
    <3>3. j = i
        BY <1>1, <1>7, <1>10, <3>2
    <3>4. QED
        BY <3>1, <3>3
  <2>4. QED
      BY <2>2, <2>3
<1>11. ASSUME Resolved!Undisputed(K, s[i].version) PROVE s[i].version = i
  <2> DEFINE v == s[i].version
  <2>1. v \in Nat /\ v <= i
      BY <1>1
  <2>2. lo(v + 1) = v
      BY <1>3, <1>11, <2>1
  <2>3. s[i].version < v + 1 <=> i <= lo(v + 1)
      BY <1>2, <2>1
  <2> HIDE DEF lo
  <2>4. QED
      BY <2>1, <2>2, <2>3
<1>12. QED
    BY <1>9, <1>10, <1>11

-----------------------------------------------------------------------------
(* Replaying a list and resolving a set.                                   *)

\* What version v of the set K does to a record.
SetStep(K) ==
    [v \in 1 .. Cardinality(K) |->
        [r \in Record |->
            IF Resolved!Undisputed(K, v)
            THEN ApplyChange(r, (CHOOSE e \in Resolved!At(K, v) : TRUE).change)
            ELSE r]]

LEMMA SetStepType ==
    ASSUME NEW K \in SUBSET Edit
    PROVE  SetStep(K) \in [1 .. Cardinality(K) -> [Record -> Record]]
<1>1. ASSUME NEW v, NEW r \in Record, Resolved!Undisputed(K, v)
      PROVE  ApplyChange(r, (CHOOSE e \in Resolved!At(K, v) : TRUE).change) \in Record
  <2> DEFINE A == Resolved!At(K, v)
             d == CHOOSE e \in A : TRUE
  <2>1. Cardinality(A) = 1
      BY <1>1, SharedCardinality DEF Resolved!Undisputed
  <2>2. A # {}
      BY <2>1, FS_EmptySet
  <2>3. d \in A
      BY <2>2
  <2>4. d.change \in Change
      BY <2>3 DEF Resolved!At, Edit
  <2> HIDE DEF d
  <2>5. ApplyChange(r, d.change) \in Record
      BY <2>4, ApplyChangeType
  <2>6. QED
      BY <2>5 DEF d
<1>2. QED
    BY <1>1 DEF SetStep

\* Resolve(K) is the last value of the iteration of SetStep(K) from Zero.
LEMMA ResolveIterates ==
    ASSUME NEW K \in SUBSET Edit, IsFiniteSet(K)
    PROVE  \E f \in [0 .. Cardinality(K) -> Record] :
              /\ Iterates(f, Cardinality(K), Zero, SetStep(K))
              /\ Resolved!Resolve(K) = f[Cardinality(K)]
<1> DEFINE n == Cardinality(K)
           F(g) == [v \in 0 .. n |->
                       IF v = 0 THEN Zero
                       ELSE IF Resolved!Undisputed(K, v)
                            THEN ApplyChange(g[v - 1],
                                             (CHOOSE e \in Resolved!At(K, v) : TRUE).change)
                            ELSE g[v - 1]]
           after == CHOOSE g : g = F(g)
<1>1. n \in Nat
    BY FS_CardinalityType
<1>2. PICK f \in [0 .. n -> Record] : Iterates(f, n, Zero, SetStep(K))
    BY <1>1, ZeroType, SetStepType, RecursionExists
<1>3. f = F(f)
  <2>1. ASSUME NEW v \in 0 .. n PROVE f[v] = F(f)[v]
    <3>1. CASE v = 0
        BY <1>2, <3>1 DEF Iterates
    <3>2. CASE v # 0
      <4>1. v \in 1 .. n /\ f[v - 1] \in Record
          BY <1>1, <3>2
      <4>2. f[v] = SetStep(K)[v][f[v - 1]]
          BY <1>2, <4>1 DEF Iterates
      <4>3. QED
          BY <3>2, <4>1, <4>2 DEF SetStep
    <3>3. QED
        BY <3>1, <3>2
  <2>2. QED
      BY <2>1
<1>4. after = F(after)
    BY <1>3
<1>5. ASSUME NEW k \in 0 .. n PROVE after[k] = f[k]
  <2> DEFINE Bad == {v \in 0 .. n : after[v] # f[v]}
  <2>1. SUFFICES ASSUME Bad # {} PROVE FALSE
      OBVIOUS
  <2>2. Bad \in SUBSET Nat
      BY <1>1
  <2>3. PICK m \in Bad : \A v \in Bad : m <= v
      BY <2>1, <2>2, LeastNumber
  <2>4. m \in 0 .. n /\ after[m] = F(after)[m] /\ f[m] = F(f)[m]
      BY <1>3, <1>4
  <2>5. m # 0
      BY <2>3, <2>4
  <2>6. m - 1 \in 0 .. n /\ m - 1 \notin Bad
    <3> HIDE DEF n, Bad
    <3>1. m \in 0 .. n /\ n \in Nat
        BY <1>1, <2>4
    <3>2. m - 1 \in 0 .. n /\ ~(m <= m - 1)
        BY <2>5, <3>1
    <3>3. QED
        BY <2>3, <3>2
  <2>7. after[m - 1] = f[m - 1]
      BY <2>6
  <2>8. after[m] = f[m]
      BY <2>4, <2>5, <2>7
  <2>9. QED
      BY <2>3, <2>8
<1>6. Resolved!Resolve(K) = after[n]
    BY SharedCardinality, SharedZero, SharedApplyChange DEF Resolved!Resolve
<1>7. Resolved!Resolve(K) = f[n]
  <2>1. n \in 0 .. n
      BY <1>1
  <2> HIDE DEF n, after
  <2>2. QED
      BY <1>5, <1>6, <2>1
<1>8. QED
    BY <1>2, <1>7

LEMMA ResolveType ==
    ASSUME NEW K \in SUBSET Edit, IsFiniteSet(K)
    PROVE  Resolved!Resolve(K) \in Record
<1>1. PICK f \in [0 .. Cardinality(K) -> Record] :
          Resolved!Resolve(K) = f[Cardinality(K)]
    BY ResolveIterates
<1>2. Cardinality(K) \in 0 .. Cardinality(K)
    BY FS_CardinalityType
<1>3. QED
    BY <1>1, <1>2

\* What SetStep does at version v depends only on the edits up to version v.
LEMMA PrefixUndisputed ==
    ASSUME NEW K \in SUBSET Edit, NEW k \in Nat, NEW v \in 1 .. k
    PROVE  LET L == Resolved!Below(K, k + 1)
           IN  /\ Resolved!At(L, v) = Resolved!At(K, v)
               /\ Resolved!Undisputed(L, v) <=> Resolved!Undisputed(K, v)
<1> DEFINE L == Resolved!Below(K, k + 1)
<1>1. \A e \in K : e.version \in Nat
    BY DEF Edit
<1>2. Resolved!At(L, v) = Resolved!At(K, v)
    BY <1>1 DEF Resolved!At, Resolved!Below
<1>3. Resolved!Below(L, v) = Resolved!Below(K, v)
    BY <1>1 DEF Resolved!Below
<1> HIDE DEF L
<1>4. QED
    BY <1>2, <1>3 DEF Resolved!Undisputed, L

\* Where an entry that takes effect says what its edit says, replaying the first
\* k entries resolves the edits of versions up to k, if there are k of them.
LEMMA ReplayIsResolve ==
    ASSUME NEW s \in Seq(Edit), Sorted(s), Gapless(s), NEW K \in SUBSET Edit, NEW b,
           Arrangement(s, K, b),
           \A i \in 1 .. Len(s) : Effective(s, i) => s[i].change = b[i].change,
           NEW k \in 0 .. Len(s), Cardinality(Resolved!Below(K, k + 1)) = k
    PROVE  ReplayTo(s, k) = Resolved!Resolve(Resolved!Below(K, k + 1))
<1> DEFINE L == Resolved!Below(K, k + 1)
<1>1. Len(s) \in Nat /\ k \in Nat /\ k + 1 \in Nat
    BY LenProperties
<1>2. L \in SUBSET Edit /\ IsFiniteSet(L) /\ Cardinality(L) = k
    BY <1>1, BelowIsLeading DEF Resolved!Below
<1>3. PICK f \in [0 .. Len(s) -> Record] :
          /\ Iterates(f, Len(s), Zero, Step(s))
          /\ \A j \in 0 .. Len(s) : ReplayTo(s, j) = f[j]
    BY ReplayIterates
<1>4. PICK h \in [0 .. Cardinality(L) -> Record] :
          /\ Iterates(h, Cardinality(L), Zero, SetStep(L))
          /\ Resolved!Resolve(L) = h[Cardinality(L)]
  <2> HIDE DEF L
  <2>1. QED
      BY <1>2, ResolveIterates
<1>5. ASSUME NEW v \in 1 .. k PROVE f[v] = SetStep(L)[v][f[v - 1]]
  <2>1. v \in 1 .. Len(s) /\ v - 1 \in 0 .. Len(s) /\ f[v - 1] \in Record
      BY <1>1
  <2>2. f[v] = IF Effective(s, v) THEN ApplyChange(f[v - 1], s[v].change) ELSE f[v - 1]
    <3>1. f[v] = Step(s)[v][f[v - 1]]
        BY <1>3, <2>1 DEF Iterates
    <3>2. QED
        BY <2>1, <3>1 DEF Step
  <2>3. /\ Effective(s, v) <=> Resolved!Undisputed(K, v)
        /\ Effective(s, v) => Resolved!At(K, v) = {b[v]}
      BY <2>1, EffectiveIsUndisputed
  <2>4. /\ Resolved!At(L, v) = Resolved!At(K, v)
        /\ Resolved!Undisputed(L, v) <=> Resolved!Undisputed(K, v)
      BY <1>1, PrefixUndisputed
  <2> HIDE DEF L
  <2>5. SetStep(L)[v][f[v - 1]] =
           IF Resolved!Undisputed(L, v)
           THEN ApplyChange(f[v - 1], (CHOOSE e \in Resolved!At(L, v) : TRUE).change)
           ELSE f[v - 1]
      BY <1>2, <2>1 DEF SetStep
  <2>6. CASE Effective(s, v)
    <3>1. Resolved!At(L, v) = {b[v]} /\ s[v].change = b[v].change
        BY <2>1, <2>3, <2>4, <2>6
    <3>2. (CHOOSE e \in Resolved!At(L, v) : TRUE) = b[v]
        BY <3>1
    <3>3. QED
        BY <2>2, <2>3, <2>4, <2>5, <2>6, <3>1, <3>2
  <2>7. CASE ~Effective(s, v)
      BY <2>2, <2>3, <2>4, <2>5, <2>7
  <2>8. QED
      BY <2>6, <2>7
<1>6. Iterates(f, k, Zero, SetStep(L))
    BY <1>3, <1>5 DEF Iterates
<1>7. Iterates(h, k, Zero, SetStep(L)) /\ Resolved!Resolve(L) = h[k]
    BY <1>2, <1>4
<1>8. f[k] = h[k]
  <2> DEFINE g == SetStep(L)
  <2>1. k \in Nat /\ k \in 0 .. k
      BY <1>1
  <2>2. Iterates(f, k, Zero, g) /\ Iterates(h, k, Zero, g)
      BY <1>6, <1>7
  <2> HIDE DEF g
  <2>3. QED
      BY <2>1, <2>2, RecursionUnique
<1>9. ReplayTo(s, k) = f[k]
    BY <1>3
<1>10. QED
    BY <1>7, <1>8, <1>9, Zenon

\* All of a gapless list is below its length plus one.
LEMMA ReplayAllIsResolve ==
    ASSUME NEW s \in Seq(Edit), Sorted(s), Gapless(s), NEW K \in SUBSET Edit, NEW b,
           Arrangement(s, K, b),
           \A i \in 1 .. Len(s) : Effective(s, i) => s[i].change = b[i].change
    PROVE  ReplayTo(s, Len(s)) = Resolved!Resolve(K)
<1> DEFINE n == Len(s)
<1>1. n \in Nat /\ n \in 0 .. n
    BY LenProperties
<1>2. IsFiniteSet(K) /\ Cardinality(K) = n
    BY ArrangementSize
<1>3. Resolved!Below(K, n + 1) = K
  <2>1. ASSUME NEW e \in K PROVE e.version < n + 1
    <3>1. PICK i \in 1 .. n : b[i] = e /\ s[i].version = e.version
        BY DEF Arrangement, Bijection, Surjection
    <3>2. s[i].version \in Nat /\ s[i].version <= i
        BY <3>1, VersionType DEF Gapless
    <3>3. QED
        BY <1>1, <3>1, <3>2
  <2>2. QED
      BY <2>1 DEF Resolved!Below
<1>4. QED
    BY <1>1, <1>2, <1>3, ReplayIsResolve

\* A last edit in order takes effect on what the others make of the record.
LEMMA ReplayLast ==
    ASSUME NEW s \in Seq(Edit), s # <<>>, Effective(s, Len(s))
    PROVE  ReplayTo(s, Len(s)) = ApplyChange(ReplayTo(s, Len(s) - 1), s[Len(s)].change)
<1> DEFINE n == Len(s)
<1>1. n \in Nat /\ n # 0
    BY LenProperties, EmptySeq
<1>2. n \in 1 .. n /\ n \in 0 .. n /\ n - 1 \in 0 .. n
    BY <1>1
<1>3. PICK f \in [0 .. n -> Record] :
          /\ Iterates(f, n, Zero, Step(s))
          /\ \A j \in 0 .. n : ReplayTo(s, j) = f[j]
    BY ReplayIterates
<1>4. f[n] = Step(s)[n][f[n - 1]] /\ f[n - 1] \in Record
    BY <1>2, <1>3 DEF Iterates
<1>5. f[n] = ApplyChange(f[n - 1], s[n].change)
    BY <1>2, <1>4 DEF Step
<1>6. QED
    BY <1>2, <1>3, <1>5

\* More edits do not settle a disputed version when there are no fewer of lower
\* versions than there should be.
LEMMA StaysDisputed ==
    ASSUME NEW K, NEW M, K \subseteq M, IsFiniteSet(M), NEW e \in K,
           NEW v \in Nat, e.version = v,
           Cardinality(Resolved!Below(K, v)) >= v - 1,
           Resolved!Undisputed(M, v)
    PROVE  Resolved!Undisputed(K, v)
<1> DEFINE BK == Resolved!Below(K, v)
           BM == Resolved!Below(M, v)
           AK == Resolved!At(K, v)
           AM == Resolved!At(M, v)
<1>1. BK \subseteq BM /\ AK \subseteq AM /\ BM \subseteq M /\ AM \subseteq M /\ e \in AK
    BY DEF Resolved!Below, Resolved!At
<1>2. Cardinality(AM) = 1 /\ Cardinality(BM) = v - 1
    BY SharedCardinality DEF Resolved!Undisputed
<1>3. Cardinality(BK) >= v - 1
    OBVIOUS
<1> HIDE DEF BK, BM, AK, AM
<1>4. IsFiniteSet(BM) /\ IsFiniteSet(AM)
    BY <1>1, FS_Subset
<1>5. /\ IsFiniteSet(BK) /\ IsFiniteSet(AK)
      /\ Cardinality(BK) <= Cardinality(BM) /\ Cardinality(AK) <= Cardinality(AM)
    BY <1>1, <1>4, FS_Subset
<1>6. Cardinality(AK) \in Nat /\ Cardinality(BK) \in Nat
    BY <1>5, FS_CardinalityType
<1>7. Cardinality(AK) # 0
    BY <1>1, <1>5, FS_EmptySet
<1>8. Cardinality(AK) = 1 /\ Cardinality(BK) = v - 1
    BY <1>2, <1>3, <1>5, <1>6, <1>7
<1>9. QED
    BY <1>8, SharedCardinality DEF Resolved!Undisputed, AK, BK

-----------------------------------------------------------------------------
(* A list as a record of a set of edits.                                   *)

Id(e) == <<e.by, e.version>>
Ids(s) == {Id(s[i]) : i \in 1 .. Len(s)}
UniqueIds(A) == \A d, e \in A : Id(d) = Id(e) => d = e

\* The edits of A that s names.
Of(s, A) == {e \in A : Id(e) \in Ids(s)}

\* s names edits of A, none of them twice, and an entry whose edit can still
\* take effect is the edit as its author wrote it.
Lists(s, A) ==
    /\ \A i, j \in 1 .. Len(s) : Id(s[i]) = Id(s[j]) => i = j
    /\ \A i \in 1 .. Len(s) : \E e \in A :
          /\ Id(e) = Id(s[i])
          /\ Resolved!Undisputed(Of(s, A), e.version) => s[i] = e

LEMMA ListsArranged ==
    ASSUME NEW s \in Seq(Edit), Sorted(s), Gapless(s),
           NEW A \in SUBSET Edit, UniqueIds(A), Lists(s, A)
    PROVE  \E b : /\ Arrangement(s, Of(s, A), b)
                  /\ \A i \in 1 .. Len(s) : Effective(s, i) => s[i] = b[i]
<1> DEFINE n == Len(s)
           W == Of(s, A)
           b == [i \in 1 .. n |-> CHOOSE e \in A : Id(e) = Id(s[i])]
<1>1. ASSUME NEW i \in 1 .. n
      PROVE  /\ b[i] \in A /\ Id(b[i]) = Id(s[i]) /\ b[i] \in W
             /\ Resolved!Undisputed(W, b[i].version) => s[i] = b[i]
  <2>1. PICK e \in A : Id(e) = Id(s[i]) /\ (Resolved!Undisputed(W, e.version) => s[i] = e)
      BY DEF Lists
  <2>2. b[i] \in A /\ Id(b[i]) = Id(s[i])
      BY <2>1
  <2>3. b[i] = e
      BY <2>1, <2>2 DEF UniqueIds
  <2>4. b[i] \in W
      BY <2>2 DEF Of, Ids
  <2> HIDE DEF b, W
  <2>5. QED
      BY <2>1, <2>2, <2>3, <2>4
<1>2. \A i \in 1 .. n : s[i].version = b[i].version
    BY <1>1 DEF Id
<1>3. \A i, j \in 1 .. n : b[i] = b[j] => i = j
  <2>1. \A i \in 1 .. n : Id(b[i]) = Id(s[i])
      BY <1>1
  <2> HIDE DEF b
  <2>2. QED
      BY <2>1 DEF Lists
<1>4. ASSUME NEW e \in W PROVE \E i \in 1 .. n : b[i] = e
  <2>1. PICK i \in 1 .. n : Id(e) = Id(s[i])
      BY DEF Of, Ids
  <2>2. b[i] \in A /\ Id(b[i]) = Id(e) /\ e \in A
      BY <1>1, <2>1 DEF Of
  <2>3. QED
      BY <2>2 DEF UniqueIds
<1>5. b \in [1 .. n -> W]
    BY <1>1
<1> HIDE DEF b, W
<1>6. Arrangement(s, W, b)
    BY <1>2, <1>3, <1>4, <1>5 DEF Arrangement, Bijection, Injection, Surjection, IsInjective
<1>7. ASSUME NEW i \in 1 .. n, Effective(s, i) PROVE s[i] = b[i]
  <2>1. W \in SUBSET Edit
      BY DEF W, Of
  <2>2. Resolved!Undisputed(W, i)
      BY <1>6, <1>7, <2>1, EffectiveIsUndisputed
  <2>3. b[i].version = i
      BY <1>2, <1>7 DEF Effective
  <2>4. QED
      BY <1>1, <2>2, <2>3
<1>8. QED
    BY <1>6, <1>7 DEF W

\* Replaying such a list resolves the set.
LEMMA ListsReplay ==
    ASSUME NEW s \in Seq(Edit), Sorted(s), Gapless(s),
           NEW A \in SUBSET Edit, UniqueIds(A), Lists(s, A)
    PROVE  /\ IsFiniteSet(Of(s, A)) /\ Cardinality(Of(s, A)) = Len(s)
           /\ Of(s, A) \in SUBSET Edit
           /\ ReplayTo(s, Len(s)) = Resolved!Resolve(Of(s, A))
<1>1. PICK b : /\ Arrangement(s, Of(s, A), b)
               /\ \A i \in 1 .. Len(s) : Effective(s, i) => s[i] = b[i]
    BY ListsArranged
<1>2. Of(s, A) \in SUBSET Edit
    BY DEF Of
<1>3. QED
    BY <1>1, <1>2, ArrangementSize, ReplayAllIsResolve

\* A version the list names is disputed for ever once it is.
LEMMA ListsStaysDisputed ==
    ASSUME NEW s \in Seq(Edit), Sorted(s), Gapless(s),
           NEW A \in SUBSET Edit, UniqueIds(A), Lists(s, A),
           NEW M, Of(s, A) \subseteq M, IsFiniteSet(M), NEW e \in Of(s, A),
           Resolved!Undisputed(M, e.version)
    PROVE  Resolved!Undisputed(Of(s, A), e.version)
<1> DEFINE W == Of(s, A)
           v == e.version
<1>1. PICK b : Arrangement(s, W, b)
    BY ListsArranged
<1>2. W \in SUBSET Edit
    BY DEF Of
<1>3. PICK j \in 1 .. Len(s) : b[j] = e /\ s[j].version = v
    BY <1>1 DEF Arrangement, Bijection, Surjection
<1>4. Len(s) \in Nat /\ \A i \in 1 .. Len(s) : s[i].version \in Nat /\ s[i].version <= i
    BY LenProperties, VersionType DEF Gapless
<1>5. v \in Nat /\ v <= j
    BY <1>3, <1>4
<1> DEFINE m == Cardinality(Resolved!Below(W, v))
<1>6. m \in 0 .. Len(s) /\ \A i \in 1 .. Len(s) : s[i].version < v <=> i <= m
    BY <1>1, <1>5, BelowIsLeading
<1> HIDE DEF m, v
<1>7. m >= v - 1
  <2>1. CASE v <= 1
      BY <1>4, <1>5, <1>6, <2>1
  <2>2. CASE v > 1
    <3>1. v - 1 \in 1 .. Len(s)
        BY <1>4, <1>5, <2>2
    <3>2. s[v - 1].version < v
        BY <1>4, <1>5, <3>1
    <3>3. QED
        BY <1>6, <3>1, <3>2
  <2>3. QED
      BY <1>5, <2>1, <2>2
<1>8. Resolved!Undisputed(M, v)
    BY DEF v
<1>9. Resolved!Undisputed(W, v)
  <2>1. e \in W /\ e.version = v /\ W \subseteq M
      BY DEF v
  <2> HIDE DEF W
  <2>2. QED
      BY <1>5, <1>7, <1>8, <2>1, StaysDisputed DEF m
<1>10. QED
    BY <1>9 DEF v

\* The list of one more edit, before sorting.
LEMMA ListsAppended ==
    ASSUME NEW s \in Seq(Edit), Sorted(s), Gapless(s),
           NEW A \in SUBSET Edit, Lists(s, A),
           NEW e \in Edit, Id(e) \notin Ids(s), UniqueIds(A \cup {e})
    PROVE  /\ Lists(Append(s, e), A \cup {e})
           /\ Of(Append(s, e), A \cup {e}) = Of(s, A) \cup {e}
           /\ Ids(Append(s, e)) = Ids(s) \cup {Id(e)}
<1> DEFINE n == Len(s)
           t == Append(s, e)
           B == A \cup {e}
           W == Of(s, A)
           M == Of(t, B)
<1>1. /\ n \in Nat /\ Len(t) = n + 1
      /\ \A i \in 1 .. n : t[i] = s[i]
      /\ t[n + 1] = e
    BY LenProperties, AppendProperties
<1>2. UniqueIds(A)
    BY DEF UniqueIds
<1> HIDE DEF t
<1>3. Ids(t) = Ids(s) \cup {Id(e)}
  <2>1. ASSUME NEW x \in Ids(t) PROVE x \in Ids(s) \cup {Id(e)}
    <3>1. PICK i \in 1 .. n + 1 : x = Id(t[i])
        BY <1>1 DEF Ids
    <3>2. CASE i = n + 1
        BY <1>1, <3>1, <3>2
    <3>3. CASE i # n + 1
      <4>1. i \in 1 .. n
          BY <1>1, <3>3
      <4>2. QED
          BY <1>1, <3>1, <4>1 DEF Ids
    <3>4. QED
        BY <3>2, <3>3
  <2>2. ASSUME NEW x \in Ids(s) PROVE x \in Ids(t)
    <3>1. PICK i \in 1 .. n : x = Id(s[i])
        BY DEF Ids
    <3>2. i \in 1 .. Len(t) /\ t[i] = s[i]
        BY <1>1
    <3>3. QED
        BY <3>1, <3>2 DEF Ids
  <2>3. Id(e) \in Ids(t)
    <3>1. n + 1 \in 1 .. Len(t)
        BY <1>1
    <3>2. QED
        BY <1>1, <3>1 DEF Ids
  <2>4. QED
      BY <2>1, <2>2, <2>3
<1>4. M = W \cup {e}
  <2>1. ASSUME NEW d \in B PROVE d \in M <=> d \in W \cup {e}
    <3>1. CASE d = e
        BY <1>3, <3>1 DEF Of
    <3>2. CASE d # e
      <4>1. Id(d) # Id(e)
          BY <3>2 DEF UniqueIds
      <4>2. QED
          BY <1>3, <3>2, <4>1 DEF Of
    <3>3. QED
        BY <3>1, <3>2
  <2>2. M \subseteq B /\ W \cup {e} \subseteq B
      BY DEF Of
  <2>3. QED
      BY <2>1, <2>2
<1>5. IsFiniteSet(M) /\ W \subseteq M
  <2>1. IsFiniteSet(W)
      BY <1>2, ListsReplay
  <2> HIDE DEF M, W
  <2>2. QED
      BY <1>4, <2>1, FS_AddElement
<1>6. ASSUME NEW i \in 1 .. Len(t), NEW j \in 1 .. Len(t), Id(t[i]) = Id(t[j])
      PROVE  i = j
  <2>1. ASSUME NEW k \in 1 .. n PROVE Id(t[k]) # Id(e)
      BY <1>1 DEF Ids
  <2>2. CASE i \in 1 .. n /\ j \in 1 .. n
      BY <1>1, <1>6, <2>2 DEF Lists
  <2>3. CASE i = n + 1 /\ j # n + 1
    <3>1. j \in 1 .. n /\ Id(t[i]) = Id(e)
        BY <1>1, <2>3
    <3>2. QED
        BY <1>6, <2>1, <3>1
  <2>4. CASE i # n + 1 /\ j = n + 1
    <3>1. i \in 1 .. n /\ Id(t[j]) = Id(e)
        BY <1>1, <2>4
    <3>2. QED
        BY <1>6, <2>1, <3>1
  <2>5. QED
    <3>1. i \in 1 .. n \/ i = n + 1
        BY <1>1
    <3>2. j \in 1 .. n \/ j = n + 1
        BY <1>1
    <3>3. QED
        BY <2>2, <2>3, <2>4, <3>1, <3>2
<1>7. ASSUME NEW i \in 1 .. Len(t)
      PROVE  \E d \in B : /\ Id(d) = Id(t[i])
                          /\ Resolved!Undisputed(M, d.version) => t[i] = d
  <2>1. CASE i = n + 1
      BY <1>1, <2>1
  <2>2. CASE i # n + 1
    <3>1. i \in 1 .. n /\ t[i] = s[i]
        BY <1>1, <2>2
    <3>2. PICK d \in A : Id(d) = Id(s[i]) /\ (Resolved!Undisputed(W, d.version) => s[i] = d)
        BY <3>1 DEF Lists
    <3>3. d \in W
        BY <3>1, <3>2 DEF Of, Ids
    <3>4. Resolved!Undisputed(M, d.version) => Resolved!Undisputed(W, d.version)
      <4> HIDE DEF M
      <4>1. QED
          BY <1>2, <1>5, <3>3, ListsStaysDisputed
    <3>5. QED
        BY <3>1, <3>2, <3>4
  <2>3. QED
      BY <2>1, <2>2
<1>8. Lists(t, B)
    BY <1>6, <1>7 DEF Lists
<1>9. QED
    BY <1>3, <1>4, <1>8 DEF t

\* Sorting a list.
LEMMA ListsShuffled ==
    ASSUME NEW s \in Seq(Edit), NEW A, Lists(s, A), NEW f \in Orders(s)
    PROVE  /\ Lists(Shuffle(s, f), A)
           /\ Ids(Shuffle(s, f)) = Ids(s)
           /\ Of(Shuffle(s, f), A) = Of(s, A)
<1> DEFINE n == Len(s)
           u == Shuffle(s, f)
<1>1. n \in Nat /\ f \in [1 .. n -> 1 .. n]
    BY LenProperties DEF Orders
<1>2. \A i, j \in 1 .. n : f[i] = f[j] => i = j
    BY DEF Orders
<1>3. Len(u) = n /\ \A i \in 1 .. n : u[i] = s[f[i]]
    BY <1>1, ShuffleType
<1>4. \A j \in 1 .. n : \E i \in 1 .. n : f[i] = j
  <2>1. IsFiniteSet(1 .. n)
      BY <1>1, FS_Interval
  <2>2. f \in Injection(1 .. n, 1 .. n)
      BY <1>1, <1>2 DEF Injection, IsInjective
  <2>3. f \in Surjection(1 .. n, 1 .. n)
      BY <2>1, <2>2, FS_Injection
  <2>4. QED
      BY <2>3 DEF Surjection
<1> HIDE DEF u
<1>5. Ids(u) = Ids(s)
  <2>1. ASSUME NEW x \in Ids(u) PROVE x \in Ids(s)
    <3>1. PICK i \in 1 .. n : x = Id(u[i])
        BY <1>3 DEF Ids
    <3>2. f[i] \in 1 .. n /\ u[i] = s[f[i]]
        BY <1>1, <1>3
    <3>3. QED
        BY <3>1, <3>2 DEF Ids
  <2>2. ASSUME NEW x \in Ids(s) PROVE x \in Ids(u)
    <3>1. PICK j \in 1 .. n : x = Id(s[j])
        BY DEF Ids
    <3>2. PICK i \in 1 .. n : f[i] = j
        BY <1>4
    <3>3. i \in 1 .. Len(u) /\ x = Id(u[i])
        BY <1>3, <3>1, <3>2
    <3>4. QED
        BY <3>3 DEF Ids
  <2>3. QED
      BY <2>1, <2>2
<1>6. Of(u, A) = Of(s, A)
    BY <1>5 DEF Of
<1>7. ASSUME NEW i \in 1 .. Len(u), NEW j \in 1 .. Len(u), Id(u[i]) = Id(u[j])
      PROVE  i = j
  <2>1. i \in 1 .. n /\ j \in 1 .. n /\ f[i] \in 1 .. n /\ f[j] \in 1 .. n
      BY <1>1, <1>3
  <2>2. Id(s[f[i]]) = Id(s[f[j]])
      BY <1>3, <1>7, <2>1
  <2>3. f[i] = f[j]
      BY <2>1, <2>2 DEF Lists
  <2>4. QED
      BY <1>2, <2>1, <2>3
<1>8. ASSUME NEW i \in 1 .. Len(u)
      PROVE  \E e \in A : /\ Id(e) = Id(u[i])
                          /\ Resolved!Undisputed(Of(u, A), e.version) => u[i] = e
  <2>1. f[i] \in 1 .. n /\ u[i] = s[f[i]]
      BY <1>1, <1>3
  <2>2. PICK e \in A : /\ Id(e) = Id(s[f[i]])
                       /\ Resolved!Undisputed(Of(s, A), e.version) => s[f[i]] = e
      BY <2>1 DEF Lists
  <2>3. QED
      BY <1>6, <2>1, <2>2
<1>9. QED
    BY <1>5, <1>6, <1>7, <1>8 DEF Lists, u

\* Nullifying the edits that were passed over.
LEMMA ListsNullified ==
    ASSUME NEW s \in Seq(Edit), Sorted(s), Gapless(s),
           NEW A \in SUBSET Edit, UniqueIds(A), Lists(s, A)
    PROVE  /\ Lists(NullifyPassed(s), A)
           /\ Ids(NullifyPassed(s)) = Ids(s)
           /\ Of(NullifyPassed(s), A) = Of(s, A)
<1> DEFINE n == Len(s)
           t == NullifyPassed(s)
           W == Of(s, A)
<1>1. /\ Len(t) = n
      /\ \A i \in 1 .. n : Id(t[i]) = Id(s[i])
    BY NullifyType DEF Id
<1>2. \A i \in 1 .. n : Effective(s, i) => t[i] = s[i]
    BY DEF NullifyPassed
<1> HIDE DEF t
<1>3. Ids(t) = Ids(s)
  <2>1. ASSUME NEW x \in Ids(t) PROVE x \in Ids(s)
      BY <1>1 DEF Ids
  <2>2. ASSUME NEW x \in Ids(s) PROVE x \in Ids(t)
      BY <1>1 DEF Ids
  <2>3. QED
      BY <2>1, <2>2
<1>4. Of(t, A) = W
    BY <1>3 DEF Of
<1>5. PICK b : Arrangement(s, W, b)
    BY ListsArranged
<1>6. ASSUME NEW i \in 1 .. Len(t)
      PROVE  \E e \in A : /\ Id(e) = Id(t[i])
                          /\ Resolved!Undisputed(Of(t, A), e.version) => t[i] = e
  <2>1. i \in 1 .. n
      BY <1>1
  <2>2. PICK e \in A : Id(e) = Id(s[i]) /\ (Resolved!Undisputed(W, e.version) => s[i] = e)
      BY <2>1 DEF Lists
  <2>3. ASSUME Resolved!Undisputed(W, e.version) PROVE t[i] = s[i]
    <3>1. e.version = s[i].version
        BY <2>2 DEF Id
    <3>2. W \in SUBSET Edit
        BY DEF Of
    <3> HIDE DEF W
    <3>3. s[i].version = i /\ Resolved!Undisputed(W, i)
        BY <1>5, <2>1, <2>3, <3>1, <3>2, EffectiveIsUndisputed
    <3>4. Effective(s, i)
        BY <1>5, <2>1, <3>2, <3>3, EffectiveIsUndisputed
    <3>5. QED
        BY <1>2, <2>1, <3>4
  <2>4. QED
      BY <1>1, <1>4, <2>1, <2>2, <2>3
<1>7. ASSUME NEW i \in 1 .. Len(t), NEW j \in 1 .. Len(t), Id(t[i]) = Id(t[j])
      PROVE  i = j
    BY <1>1, <1>7 DEF Lists
<1>8. QED
    BY <1>3, <1>4, <1>6, <1>7 DEF Lists, t

\* applySxeRecordEdit, whichever way it takes, adds the edit to the set and
\* leaves the record the set resolves to.
LEMMA ApplyAdds ==
    ASSUME TypeOK, NEW p \in Peer, NEW e \in Edit, ApplyRecordEdit(p, e),
           Sorted(edits[p]), Gapless(edits[p]), e.version <= Len(edits[p]) + 1,
           NEW A \in SUBSET Edit, Lists(edits[p], A),
           Id(e) \notin Ids(edits[p]), UniqueIds(A \cup {e}),
           rec[p] = Resolved!Resolve(Of(edits[p], A))
    PROVE  /\ Lists(edits'[p], A \cup {e})
           /\ Ids(edits'[p]) = Ids(edits[p]) \cup {Id(e)}
           /\ Of(edits'[p], A \cup {e}) = Of(edits[p], A) \cup {e}
           /\ rec' = [rec EXCEPT ![p] = Resolved!Resolve(Of(edits[p], A) \cup {e})]
           /\ \A q \in Peer \ {p} : edits'[q] = edits[q]
<1> DEFINE s   == edits[p]
           B   == A \cup {e}
           W   == Of(s, A)
           all == Append(s, e)
           Added(t) == Lists(t, B) /\ Ids(t) = Ids(s) \cup {Id(e)} /\ Of(t, B) = W \cup {e}
<1>1. s \in Seq(Edit) /\ edits \in [Peer -> Seq(Edit)] /\ rec \in [Peer -> Record]
    BY DEF TypeOK
<1>2. B \in SUBSET Edit /\ UniqueIds(A) /\ UniqueIds(B)
    BY DEF UniqueIds
<1>3. Added(all)
  <2>1. /\ s \in Seq(Edit) /\ Sorted(s) /\ Gapless(s) /\ Lists(s, A)
        /\ Id(e) \notin Ids(s) /\ UniqueIds(A \cup {e})
      BY <1>1
  <2> HIDE DEF s
  <2>2. /\ Lists(Append(s, e), A \cup {e})
        /\ Of(Append(s, e), A \cup {e}) = Of(s, A) \cup {e}
        /\ Ids(Append(s, e)) = Ids(s) \cup {Id(e)}
      BY <2>1, ListsAppended
  <2>3. QED
      BY <2>2
<1>4. ASSUME InOrder(s, e)
      PROVE  /\ edits' = [edits EXCEPT ![p] = all]
             /\ rec' = [rec EXCEPT ![p] = Resolved!Resolve(W \cup {e})]
  <2> DEFINE n == Len(s)
  <2>1. /\ edits' = [edits EXCEPT ![p] = all]
        /\ rec' = [rec EXCEPT ![p] = ApplyChange(rec[p], e.change)]
      BY <1>1, <1>4 DEF ApplyRecordEdit
  <2>2. /\ n \in Nat /\ Len(all) = n + 1 /\ all \in Seq(Edit) /\ all # <<>>
        /\ \A i \in 1 .. n : all[i] = s[i]
        /\ all[n + 1] = e
      BY <1>1, LenProperties, AppendProperties
  <2>3. Sorted(all) /\ Gapless(all)
      BY <1>1, <1>4, AddInOrder
  <2>4. e.version = n + 1
      BY <1>4 DEF InOrder
  <2> HIDE DEF all, B
  <2>5. Effective(all, Len(all))
      BY <2>2, <2>4 DEF Effective
  <2>6. ReplayTo(all, n + 1) = ApplyChange(ReplayTo(all, n), e.change)
    <3>1. ReplayTo(all, Len(all)) =
            ApplyChange(ReplayTo(all, Len(all) - 1), all[Len(all)].change)
        BY <2>2, <2>5, ReplayLast
    <3>2. Len(all) = n + 1 /\ Len(all) - 1 = n /\ all[Len(all)] = e
        BY <2>2
    <3>3. QED
        BY <3>1, <3>2
  <2>7. ReplayTo(all, n + 1) = Resolved!Resolve(W \cup {e})
    <3>1. ReplayTo(all, Len(all)) = Resolved!Resolve(Of(all, B))
        BY <1>2, <1>3, <2>2, <2>3, ListsReplay
    <3>2. QED
        BY <1>3, <2>2, <3>1
  <2>8. ReplayTo(all, n) = Resolved!Resolve(W)
    <3> DEFINE M == Of(all, B)
    <3>1. PICK b : /\ Arrangement(all, M, b)
                   /\ \A i \in 1 .. Len(all) : Effective(all, i) => all[i] = b[i]
        BY <1>2, <1>3, <2>2, <2>3, ListsArranged
    <3>2. M = W \cup {e} /\ M \in SUBSET Edit
        BY <1>2, <1>3 DEF Of
    <3>3. \A d \in W : d.version \in Nat /\ d.version <= n
      <4>1. ASSUME NEW d \in W PROVE d.version \in Nat /\ d.version <= n
        <5>1. PICK i \in 1 .. n : Id(d) = Id(s[i])
            BY DEF Of, Ids
        <5>2. d.version = s[i].version
            BY <5>1 DEF Id
        <5>3. s[i].version \in Nat /\ s[i].version <= i
            BY <1>1, VersionType DEF Gapless
        <5>4. QED
            BY <2>2, <5>2, <5>3
      <4>2. QED
          BY <4>1
    <3>4. Resolved!Below(M, n + 1) = W
        BY <2>2, <2>4, <3>2, <3>3 DEF Resolved!Below
    <3>5. Cardinality(W) = n
        BY <1>1, <1>2, ListsReplay
    <3>6. n \in 0 .. Len(all)
        BY <2>2
    <3>7. \A i \in 1 .. Len(all) : Effective(all, i) => all[i].change = b[i].change
        BY <3>1
    <3> HIDE DEF M, W, n
    <3>8. ReplayTo(all, n) = Resolved!Resolve(Resolved!Below(M, n + 1))
        BY <2>2, <2>3, <3>1, <3>2, <3>4, <3>5, <3>6, <3>7, ReplayIsResolve
    <3>9. QED
        BY <3>4, <3>8
  <2>9. QED
      BY <2>1, <2>6, <2>7, <2>8
<1>5. ASSUME ~InOrder(s, e)
      PROVE  \E t : /\ Added(t)
                    /\ edits' = [edits EXCEPT ![p] = t]
                    /\ rec' = [rec EXCEPT ![p] = Resolved!Resolve(W \cup {e})]
  <2>1. PICK f \in Orders(all) :
            /\ edits' = [edits EXCEPT ![p] = NullifyPassed(Shuffle(all, f))]
            /\ rec' = [rec EXCEPT ![p] = ReplayTo(Shuffle(all, f), Len(Shuffle(all, f)))]
      BY <1>5 DEF ApplyRecordEdit
  <2> DEFINE u == Shuffle(all, f)
             t == NullifyPassed(u)
  <2>2. all \in Seq(Edit)
      BY <1>1, AppendProperties
  <2>3. u \in Seq(Edit) /\ Gapless(all) /\ Sorted(u)
    <3>1. u \in Seq(Edit)
        BY <1>1, AddShuffled
    <3>2. Sorted(u)
        BY DEF Orders
    <3>3. Gapless(all)
      <4>1. /\ Len(s) \in Nat /\ Len(all) = Len(s) + 1
            /\ \A i \in 1 .. Len(s) : all[i] = s[i]
            /\ all[Len(s) + 1] = e
          BY <1>1, LenProperties, AppendProperties
      <4> HIDE DEF all
      <4>2. QED
          BY <4>1 DEF Gapless
    <3>4. QED
        BY <3>1, <3>2, <3>3
  <2>4. Gapless(u)
      BY <2>2, <2>3, SortedIsGapless
  <2>5. Added(u)
    <3> HIDE DEF all, B
    <3>1. Lists(u, B) /\ Ids(u) = Ids(all) /\ Of(u, B) = Of(all, B)
        BY <1>3, <2>2, ListsShuffled
    <3>2. QED
        BY <1>3, <3>1
  <2> HIDE DEF u, B
  <2>6. Added(t)
    <3>1. Lists(t, B) /\ Ids(t) = Ids(u) /\ Of(t, B) = Of(u, B)
        BY <1>2, <2>3, <2>4, <2>5, ListsNullified
    <3>2. QED
        BY <2>5, <3>1
  <2>7. ReplayTo(u, Len(u)) = Resolved!Resolve(W \cup {e})
    <3>1. ReplayTo(u, Len(u)) = Resolved!Resolve(Of(u, B))
        BY <1>2, <2>3, <2>4, <2>5, ListsReplay
    <3>2. QED
        BY <2>5, <3>1
  <2>8. /\ edits' = [edits EXCEPT ![p] = t]
        /\ rec' = [rec EXCEPT ![p] = ReplayTo(u, Len(u))]
      BY <2>1 DEF u
  <2> HIDE DEF t
  <2>9. QED
      BY <2>6, <2>7, <2>8
<1>6. \E t : /\ Added(t)
             /\ edits' = [edits EXCEPT ![p] = t]
             /\ rec' = [rec EXCEPT ![p] = Resolved!Resolve(W \cup {e})]
    BY <1>3, <1>4, <1>5
<1>7. PICK t : /\ Added(t)
               /\ edits' = [edits EXCEPT ![p] = t]
               /\ rec' = [rec EXCEPT ![p] = Resolved!Resolve(W \cup {e})]
    BY <1>6
<1>8. edits'[p] = t /\ \A q \in Peer \ {p} : edits'[q] = edits[q]
    BY <1>1, <1>7
<1>9. QED
    BY <1>7, <1>8, Zenon

-----------------------------------------------------------------------------
(* HistoryInvariant: what the participants know and what their edits rest on. *)

AllEdits == InFlight \cup Relayed

\* The edits among the first n entries of a log, and of a queue.
SetsIn(l, n)  == {e \in {l[i] : i \in 1 .. n} : e.kind = "set"}
FirstOf(s, n) == {s[k] : k \in 1 .. n}

\* The edits that have reached p: those it received and those it made.
Heard(p) == SetsIn(log, rd[p]) \cup {e \in Relayed : e.by = p}
                \cup FirstOf(outbox[p], Len(outbox[p]))

\* e was made on the record that some edits, no more than its version leaves
\* room for, resolve to; its author, who has heard H, had heard them, and they go
\* before it (are in B); there its author's edits have smaller versions.
Placed(e, B, H) ==
    /\ \E K \in SUBSET (B \cap H) :
          /\ Cardinality(K) = e.version - 1
          /\ \A d \in K : d.version < e.version
          /\ Resolved!Resolve(K) = e.base
    /\ \A d \in B : d.by = e.by => d.version < e.version

LogPlaced == \A q \in Peer : \A i \in 1 .. Len(log) :
    log[i].kind = "set" /\ log[i].by = q => Placed(log[i], SetsIn(log, i - 1), Heard(q))
OutboxPlaced == \A q \in Peer : \A k \in 1 .. Len(outbox[q]) :
    Placed(outbox[q][k], Relayed \cup FirstOf(outbox[q], k - 1), Heard(q))

ListsTrue   == \A p \in Peer : Lists(edits[p], AllEdits)
HeardListed == \A p \in Peer : present[p] => Written(p) = Heard(p)
AuthorKnows == \A e \in AllEdits : Id(e) \in Known(e.by)
Resolves    == \A p \in Peer : rec[p] = Resolved!Resolve(Written(p))

HistoryInvariant ==
    /\ VersionInvariant
    /\ LogPlaced /\ OutboxPlaced
    /\ ListsTrue /\ HeardListed /\ AuthorKnows /\ Resolves

LEMMA WrittenIsOf ==
    \A p \in Peer : Written(p) = Of(edits[p], AllEdits) /\ Known(p) = Ids(edits[p])
    BY DEF Written, Known, Of, Ids, Id, AllEdits

LEMMA AllEditsType ==
    ASSUME TypeOK
    PROVE  /\ AllEdits \in SUBSET Edit
           /\ \A q \in Peer : \A k \in 1 .. Len(outbox[q]) : outbox[q][k] \in Edit
           /\ \A i \in 1 .. Len(log) : log[i].kind = "set" => log[i] \in Edit
<1>1. ASSUME NEW q \in Peer, NEW k \in 1 .. Len(outbox[q]) PROVE outbox[q][k] \in Edit
  <2>1. outbox[q] \in Seq(Edit)
      BY DEF TypeOK
  <2>2. QED
      BY <2>1, ElementOfSeq
<1>2. ASSUME NEW i \in 1 .. Len(log), log[i].kind = "set" PROVE log[i] \in Edit
  <2>1. log[i] \in Edit \cup Removal
      BY ElementOfSeq DEF TypeOK
  <2>2. QED
      BY <1>2, <2>1 DEF Removal
<1>3. InFlight \subseteq Edit
    BY <1>1 DEF InFlight
<1>4. Relayed \subseteq Edit
    BY <1>2 DEF Relayed
<1>5. QED
    BY <1>1, <1>2, <1>3, <1>4 DEF AllEdits

\* Where an edit is, in the log or in its author's queue.
LEMMA WhereEdits ==
    ASSUME VersionInvariant
    PROVE  /\ \A e \in AllEdits : e \in Relayed \/ (e.by \in Peer /\ e \in FirstOf(outbox[e.by], Len(outbox[e.by])))
           /\ \A q \in Peer : FirstOf(outbox[q], Len(outbox[q])) \subseteq AllEdits
           /\ \A q \in Peer : \A e \in FirstOf(outbox[q], Len(outbox[q])) : e.by = q
           /\ Relayed = SetsIn(log, Len(log))
<1>1. \A q \in Peer : \A e \in FirstOf(outbox[q], Len(outbox[q])) : e.by = q
    BY DEF VersionInvariant, OutboxOwn, FirstOf
<1>2. InFlight = UNION {FirstOf(outbox[q], Len(outbox[q])) : q \in Peer}
    BY DEF InFlight, FirstOf
<1>3. Relayed = SetsIn(log, Len(log))
    BY DEF Relayed, SetsIn
<1>4. QED
    BY <1>1, <1>2, <1>3 DEF AllEdits

\* An author's edits have different versions.
LEMMA EditsUnique ==
    ASSUME VersionInvariant, LogPlaced, OutboxPlaced
    PROVE  UniqueIds(AllEdits)
<1>1. TypeOK
    BY DEF VersionInvariant
<1>2. SUFFICES ASSUME NEW d \in AllEdits, NEW e \in AllEdits, Id(d) = Id(e) PROVE d = e
    BY DEF UniqueIds
<1>3. d.by = e.by /\ d.version = e.version /\ d.version \in Nat /\ d.by \in Peer
    BY <1>1, <1>2, AllEditsType DEF Id, Edit
<1>4. ASSUME NEW x \in AllEdits, NEW y \in AllEdits, x.by = y.by, x.version = y.version,
             y.version \in Nat, x \in Relayed, y \notin Relayed
      PROVE  FALSE
  <2>1. y.by \in Peer /\ y \in FirstOf(outbox[y.by], Len(outbox[y.by]))
      BY <1>4, WhereEdits
  <2>2. PICK k \in 1 .. Len(outbox[y.by]) : y = outbox[y.by][k]
      BY <2>1 DEF FirstOf
  <2>3. Placed(y, Relayed \cup FirstOf(outbox[y.by], k - 1), Heard(y.by))
      BY <2>1, <2>2 DEF OutboxPlaced
  <2>4. x.version < y.version
      BY <1>4, <2>3 DEF Placed
  <2>5. QED
      BY <1>4, <2>4
<1>5. CASE d \in Relayed /\ e \in Relayed
  <2>1. PICK i \in 1 .. Len(log), j \in 1 .. Len(log) :
            d = log[i] /\ e = log[j] /\ log[i].kind = "set" /\ log[j].kind = "set"
      BY <1>5 DEF Relayed
  <2>2. Len(log) \in Nat
      BY <1>1, LenProperties DEF TypeOK
  <2>3. ASSUME NEW a \in 1 .. Len(log), NEW b \in 1 .. Len(log), a < b,
               log[a].kind = "set", log[b].kind = "set",
               log[a].by = log[b].by, log[a].version = log[b].version,
               log[a].version \in Nat, log[a].by \in Peer
        PROVE  FALSE
    <3>1. a \in 1 .. b - 1
        BY <2>2, <2>3
    <3>2. log[a] \in SetsIn(log, b - 1)
        BY <2>3, <3>1 DEF SetsIn
    <3>3. Placed(log[b], SetsIn(log, b - 1), Heard(log[a].by))
        BY <2>3 DEF LogPlaced
    <3>4. log[a].version < log[b].version
        BY <2>3, <3>2, <3>3 DEF Placed
    <3>5. QED
        BY <2>3, <3>4
  <2>4. i = j
      BY <1>3, <2>1, <2>2, <2>3
  <2>5. QED
      BY <2>1, <2>4
<1>6. CASE d \notin Relayed /\ e \notin Relayed
  <2> DEFINE q == d.by
  <2>1. PICK i \in 1 .. Len(outbox[q]), j \in 1 .. Len(outbox[q]) :
            d = outbox[q][i] /\ e = outbox[q][j]
    <3>1. d \in FirstOf(outbox[q], Len(outbox[q])) /\ e \in FirstOf(outbox[q], Len(outbox[q]))
        BY <1>3, <1>6, WhereEdits
    <3>2. QED
        BY <3>1 DEF FirstOf
  <2>2. Len(outbox[q]) \in Nat
      BY <1>1, <1>3, LenProperties DEF TypeOK
  <2>3. ASSUME NEW a \in 1 .. Len(outbox[q]), NEW b \in 1 .. Len(outbox[q]), a < b,
               outbox[q][a].version = outbox[q][b].version,
               outbox[q][a].by = outbox[q][b].by,
               outbox[q][a].version \in Nat
        PROVE  FALSE
    <3>1. a \in 1 .. b - 1
        BY <2>2, <2>3
    <3>2. outbox[q][a] \in Relayed \cup FirstOf(outbox[q], b - 1)
        BY <3>1 DEF FirstOf
    <3>3. Placed(outbox[q][b], Relayed \cup FirstOf(outbox[q], b - 1), Heard(q))
        BY <1>3 DEF OutboxPlaced
    <3>4. outbox[q][a].version < outbox[q][b].version
        BY <2>3, <3>2, <3>3 DEF Placed
    <3>5. QED
        BY <2>3, <3>4
  <2>4. i = j
    <3>1. /\ outbox[q][i].version = outbox[q][j].version
          /\ outbox[q][i].by = outbox[q][j].by
          /\ outbox[q][i].version \in Nat /\ outbox[q][j].version \in Nat
        BY <1>3, <2>1
    <3>2. ~(i < j) /\ ~(j < i)
        BY <2>3, <3>1
    <3>3. QED
        BY <2>2, <3>2
  <2>5. QED
      BY <2>1, <2>4
<1>7. QED
    BY <1>3, <1>4, <1>5, <1>6

\* Placed survives more edits by others and more that its author hears.
LEMMA PlacedGrows ==
    ASSUME NEW e, NEW B, NEW H, NEW C, NEW G, Placed(e, B, H),
           B \subseteq C, H \subseteq G, \A d \in C \ B : d.by # e.by
    PROVE  Placed(e, C, G)
<1>1. PICK K \in SUBSET (B \cap H) : /\ Cardinality(K) = e.version - 1
                                     /\ \A d \in K : d.version < e.version
                                     /\ Resolved!Resolve(K) = e.base
    BY DEF Placed
<1>2. K \in SUBSET (C \cap G)
    OBVIOUS
<1>3. \A d \in C : d.by = e.by => d.version < e.version
    BY DEF Placed
<1>4. QED
    BY <1>1, <1>2, <1>3 DEF Placed

\* A step that makes no edit and applies none.
LEMMA SameEdits ==
    ASSUME HistoryInvariant, AllEdits' = AllEdits, UNCHANGED <<edits, rec>>
    PROVE  /\ ListsTrue' /\ AuthorKnows' /\ Resolves'
           /\ \A p \in Peer : Written(p)' = Written(p)
<1>1. ASSUME NEW p \in Peer PROVE Written(p)' = Written(p) /\ Known(p)' = Known(p)
  <2>1. Known(p)' = Known(p)
      BY DEF Known
  <2>2. QED
      BY <2>1 DEF Written, AllEdits
<1>2. ListsTrue'
    BY DEF HistoryInvariant, ListsTrue
<1>3. AuthorKnows'
  <2>1. ASSUME NEW e \in AllEdits PROVE Id(e) \in Known(e.by)'
    <3>1. Known(e.by)' = Known(e.by)
        BY DEF Known
    <3>2. QED
        BY <3>1 DEF HistoryInvariant, AuthorKnows
  <2>2. QED
      BY <2>1 DEF AuthorKnows
<1>4. Resolves'
    BY <1>1 DEF HistoryInvariant, Resolves
<1>5. QED
    BY <1>1, <1>2, <1>3, <1>4

\* Relaying p's queue moves edits to the log; nobody hears anything.
LEMMA RelayKeeps ==
    ASSUME HistoryInvariant, NEW p \in Peer, NEW last \in Seq(Removal),
           log' = (log \o outbox[p]) \o last,
           outbox' = [outbox EXCEPT ![p] = <<>>],
           UNCHANGED <<edits, rec, rd>>
    PROVE  /\ AllEdits' = AllEdits
           /\ \A q \in Peer : Heard(q)' = Heard(q)
           /\ LogPlaced' /\ OutboxPlaced'
<1> DEFINE n == Len(log)
           m == Len(outbox[p])
<1>1. /\ VersionInvariant /\ TypeOK
      /\ n \in Nat /\ m \in Nat /\ Len(last) \in Nat
      /\ \A q \in Peer : Len(outbox[q]) \in Nat
    BY LenProperties DEF HistoryInvariant, VersionInvariant, TypeOK
<1>2. /\ Len(log') = n + m + Len(last)
      /\ \A i \in 1 .. n : log'[i] = log[i]
      /\ \A k \in 1 .. m : log'[n + k] = outbox[p][k]
      /\ \A k \in 1 .. Len(last) : log'[n + m + k] = last[k]
    BY <1>1, RelayedLog
<1>3. \A k \in 1 .. Len(last) : log'[n + m + k].kind = "remove"
  <2>1. \A k \in 1 .. Len(last) : last[k] \in Removal
      BY ElementOfSeq
  <2>2. QED
      BY <1>2, <2>1 DEF Removal
<1>4. \A k \in 1 .. m : outbox[p][k].kind = "set" /\ outbox[p][k].by = p
    BY <1>1, AllEditsType DEF Edit, VersionInvariant, OutboxOwn
<1>5. /\ outbox'[p] = <<>> /\ Len(outbox'[p]) = 0
      /\ \A q \in Peer \ {p} : outbox'[q] = outbox[q]
    BY <1>1, EmptySeq DEF TypeOK
<1> HIDE DEF n, m
<1>6. ASSUME NEW j \in 0 .. n PROVE SetsIn(log', j) = SetsIn(log, j)
  <2>1. \A i \in 1 .. j : log'[i] = log[i]
      BY <1>1, <1>2
  <2>2. QED
      BY <2>1 DEF SetsIn
<1>7. Relayed = SetsIn(log, n)
    BY <1>1, WhereEdits DEF n
<1>8. ASSUME NEW k \in 0 .. m PROVE SetsIn(log', n + k) = Relayed \cup FirstOf(outbox[p], k)
  <2>1. ASSUME NEW e \in SetsIn(log', n + k) PROVE e \in Relayed \cup FirstOf(outbox[p], k)
    <3>1. PICK i \in 1 .. n + k : e = log'[i] /\ e.kind = "set"
        BY DEF SetsIn
    <3>2. CASE i <= n
      <4>1. i \in 1 .. n /\ e = log[i]
          BY <1>1, <1>2, <3>1, <3>2
      <4>2. QED
          BY <1>7, <3>1, <4>1 DEF SetsIn
    <3>3. CASE ~(i <= n)
      <4>1. i - n \in 1 .. k /\ i - n \in 1 .. m /\ n + (i - n) = i
          BY <1>1, <3>1, <3>3
      <4>2. e = outbox[p][i - n]
          BY <1>2, <3>1, <4>1
      <4>3. QED
          BY <4>1, <4>2 DEF FirstOf
    <3>4. QED
        BY <3>2, <3>3
  <2>2. ASSUME NEW e \in Relayed PROVE e \in SetsIn(log', n + k)
    <3>1. PICK i \in 1 .. n : e = log[i] /\ e.kind = "set"
        BY <1>7 DEF SetsIn
    <3>2. n \in Nat /\ k \in Nat /\ e = log'[i]
        BY <1>1, <1>2, <3>1
    <3>3. i \in 1 .. n + k
        BY <3>2
    <3>4. QED
        BY <3>1, <3>2, <3>3 DEF SetsIn
  <2>3. ASSUME NEW e \in FirstOf(outbox[p], k) PROVE e \in SetsIn(log', n + k)
    <3>1. PICK i \in 1 .. k : e = outbox[p][i]
        BY DEF FirstOf
    <3>2. i \in 1 .. m /\ n + i \in 1 .. n + k
        BY <1>1, <3>1
    <3>3. e = log'[n + i] /\ e.kind = "set"
        BY <1>2, <1>4, <3>1, <3>2
    <3>4. QED
        BY <3>2, <3>3 DEF SetsIn
  <2>4. QED
      BY <2>1, <2>2, <2>3
<1>9. Relayed' = Relayed \cup FirstOf(outbox[p], m)
  <2>1. ASSUME NEW e \in Relayed' PROVE e \in SetsIn(log', n + m)
    <3>1. PICK i \in 1 .. Len(log') : e = log'[i] /\ e.kind = "set"
        BY DEF Relayed
    <3>2. ASSUME ~(i <= n + m) PROVE FALSE
      <4>1. i - (n + m) \in 1 .. Len(last) /\ n + m + (i - (n + m)) = i
          BY <1>1, <1>2, <3>1, <3>2
      <4>2. log'[i].kind = "remove"
          BY <1>3, <4>1
      <4>3. QED
          BY <3>1, <4>2
    <3>3. i \in 1 .. n + m
        BY <1>1, <1>2, <3>1, <3>2
    <3>4. QED
        BY <3>1, <3>3 DEF SetsIn
  <2>2. ASSUME NEW e \in SetsIn(log', n + m) PROVE e \in Relayed'
    <3>1. PICK i \in 1 .. n + m : e = log'[i] /\ e.kind = "set"
        BY DEF SetsIn
    <3>2. i \in 1 .. Len(log')
        BY <1>1, <1>2
    <3>3. QED
        BY <3>1, <3>2 DEF Relayed
  <2>3. SetsIn(log', n + m) = Relayed \cup FirstOf(outbox[p], m)
      BY <1>1, <1>8
  <2>4. QED
      BY <2>1, <2>2, <2>3
<1>10. /\ \A q \in Peer \ {p} : \A k : FirstOf(outbox'[q], k) = FirstOf(outbox[q], k)
       /\ \A q \in Peer \ {p} : FirstOf(outbox'[q], Len(outbox'[q])) = FirstOf(outbox[q], Len(outbox[q]))
       /\ FirstOf(outbox'[p], Len(outbox'[p])) = {}
    BY <1>5 DEF FirstOf
<1>11. AllEdits' = AllEdits
  <2>1. InFlight' = UNION {FirstOf(outbox'[q], Len(outbox'[q])) : q \in Peer}
      BY DEF InFlight, FirstOf
  <2>2. InFlight = UNION {FirstOf(outbox[q], Len(outbox[q])) : q \in Peer}
      BY DEF InFlight, FirstOf
  <2>3. InFlight = InFlight' \cup FirstOf(outbox[p], m)
    <3>1. ASSUME NEW e \in InFlight PROVE e \in InFlight' \cup FirstOf(outbox[p], m)
      <4>1. PICK q \in Peer : e \in FirstOf(outbox[q], Len(outbox[q]))
          BY <2>2
      <4>2. CASE q = p
          BY <4>1, <4>2 DEF m
      <4>3. CASE q # p
          BY <1>10, <2>1, <4>1, <4>3
      <4>4. QED
          BY <4>2, <4>3
    <3>2. ASSUME NEW e \in InFlight' PROVE e \in InFlight
      <4>1. PICK q \in Peer : e \in FirstOf(outbox'[q], Len(outbox'[q]))
          BY <2>1
      <4>2. q # p
          BY <1>10, <4>1
      <4>3. QED
          BY <1>10, <2>2, <4>1, <4>2
    <3>3. FirstOf(outbox[p], m) \subseteq InFlight
        BY <2>2 DEF m
    <3>4. QED
        BY <3>1, <3>2, <3>3
  <2>4. QED
      BY <1>9, <2>3 DEF AllEdits
<1>12. ASSUME NEW q \in Peer PROVE Heard(q)' = Heard(q)
  <2>1. rd' = rd /\ rd[q] \in 0 .. n
      BY <1>1 DEF TypeOK, n
  <2>2. SetsIn(log', rd[q]) = SetsIn(log, rd[q])
      BY <1>6, <2>1
  <2>3. \A e \in FirstOf(outbox[p], m) : e.by = p
      BY <1>4 DEF FirstOf
  <2>4. Heard(q)' = SetsIn(log', rd[q]) \cup {e \in Relayed' : e.by = q}
                       \cup FirstOf(outbox'[q], Len(outbox'[q]))
      BY <2>1 DEF Heard
  <2>5. CASE q = p
    <3>1. {e \in Relayed' : e.by = p} = {e \in Relayed : e.by = p} \cup FirstOf(outbox[p], m)
        BY <1>9, <2>3
    <3>2. QED
        BY <1>10, <2>2, <2>4, <2>5, <3>1 DEF Heard, m
  <2>6. CASE q # p
    <3>1. {e \in Relayed' : e.by = q} = {e \in Relayed : e.by = q}
        BY <1>9, <2>3, <2>6
    <3>2. QED
        BY <1>10, <2>2, <2>4, <2>6, <3>1 DEF Heard
  <2>7. QED
      BY <2>5, <2>6
<1>13. LogPlaced'
  <2>1. ASSUME NEW q \in Peer, NEW i \in 1 .. Len(log'),
               log'[i].kind = "set", log'[i].by = q
        PROVE  Placed(log'[i], SetsIn(log', i - 1), Heard(q)')
    <3>1. CASE i <= n
      <4>1. i \in 1 .. n /\ i - 1 \in 0 .. n /\ log'[i] = log[i]
          BY <1>1, <1>2, <3>1
      <4>2. Placed(log[i], SetsIn(log, i - 1), Heard(q))
          BY <2>1, <4>1 DEF HistoryInvariant, LogPlaced, n
      <4>3. SetsIn(log', i - 1) = SetsIn(log, i - 1)
          BY <1>6, <4>1
      <4>4. QED
          BY <1>12, <4>1, <4>2, <4>3
    <3>2. CASE ~(i <= n) /\ i <= n + m
      <4> DEFINE k == i - n
      <4>1. k \in 1 .. m /\ n + k = i /\ k - 1 \in 0 .. m /\ n + (k - 1) = i - 1
          BY <1>1, <1>2, <3>2
      <4>2. log'[i] = outbox[p][k] /\ q = p
          BY <1>2, <1>4, <2>1, <4>1
      <4>3. Placed(outbox[p][k], Relayed \cup FirstOf(outbox[p], k - 1), Heard(p))
          BY <4>1 DEF HistoryInvariant, OutboxPlaced, m
      <4> HIDE DEF k
      <4>4. SetsIn(log', n + (k - 1)) = Relayed \cup FirstOf(outbox[p], k - 1)
          BY <1>8, <4>1
      <4>5. SetsIn(log', i - 1) = Relayed \cup FirstOf(outbox[p], k - 1)
          BY <4>1, <4>4
      <4>6. Heard(q)' = Heard(p)
          BY <1>12, <4>2
      <4>7. QED
          BY <4>2, <4>3, <4>5, <4>6
    <3>3. CASE ~(i <= n + m)
      <4>1. i - (n + m) \in 1 .. Len(last) /\ n + m + (i - (n + m)) = i
          BY <1>1, <1>2, <3>3
      <4>2. QED
          BY <1>3, <2>1, <4>1
    <3>4. QED
        BY <1>1, <3>1, <3>2, <3>3
  <2>2. QED
      BY <2>1 DEF LogPlaced
<1>14. OutboxPlaced'
  <2>1. ASSUME NEW q \in Peer, NEW k \in 1 .. Len(outbox'[q])
        PROVE  Placed(outbox'[q][k], Relayed' \cup FirstOf(outbox'[q], k - 1), Heard(q)')
    <3>1. q # p /\ outbox'[q] = outbox[q]
        BY <1>5
    <3>2. Placed(outbox[q][k], Relayed \cup FirstOf(outbox[q], k - 1), Heard(q))
        BY <3>1 DEF HistoryInvariant, OutboxPlaced
    <3>3. FirstOf(outbox'[q], k - 1) = FirstOf(outbox[q], k - 1) /\ Heard(q)' = Heard(q)
        BY <1>10, <1>12, <3>1
    <3>4. outbox[q][k].by = q
        BY <1>1, <3>1 DEF VersionInvariant, OutboxOwn
    <3>5. \A d \in FirstOf(outbox[p], m) : d.by = p
        BY <1>4 DEF FirstOf
    <3>6. QED
        BY <1>9, <3>1, <3>2, <3>3, <3>4, <3>5, PlacedGrows
  <2>2. QED
      BY <2>1 DEF OutboxPlaced
<1>15. QED
    BY <1>11, <1>12, <1>13, <1>14

\* p applies an edit it has not listed: everybody's list stays true, and p knows
\* one more edit.
LEMMA AppliedKeeps ==
    ASSUME HistoryInvariant, NEW p \in Peer, NEW e \in Edit, ApplyRecordEdit(p, e),
           e.version <= Len(edits[p]) + 1, Id(e) \notin Known(p),
           AllEdits' = AllEdits \cup {e}, UniqueIds(AllEdits \cup {e}),
           \/ e \in AllEdits
           \/ e.by = p /\ \A d \in AllEdits : Id(d) # Id(e)
    PROVE  /\ ListsTrue' /\ AuthorKnows' /\ Resolves'
           /\ Written(p)' = Written(p) \cup {e}
           /\ \A q \in Peer \ {p} : Written(q)' = Written(q)
           /\ rec' = [rec EXCEPT ![p] = Resolved!Resolve(Written(p) \cup {e})]
<1>1. /\ TypeOK /\ Sorted(edits[p]) /\ Gapless(edits[p])
      /\ rec \in [Peer -> Record]
    BY DEF HistoryInvariant, VersionInvariant, TypeOK, ListsSorted, NoGap
<1>2. /\ AllEdits \in SUBSET Edit
      /\ Lists(edits[p], AllEdits)
      /\ Id(e) \notin Ids(edits[p])
      /\ rec[p] = Resolved!Resolve(Of(edits[p], AllEdits))
    BY <1>1, AllEditsType, WrittenIsOf DEF HistoryInvariant, ListsTrue, Resolves
<1> DEFINE A == AllEdits
<1>3. /\ Lists(edits'[p], A \cup {e})
      /\ Ids(edits'[p]) = Ids(edits[p]) \cup {Id(e)}
      /\ Of(edits'[p], A \cup {e}) = Of(edits[p], A) \cup {e}
      /\ rec' = [rec EXCEPT ![p] = Resolved!Resolve(Of(edits[p], A) \cup {e})]
      /\ \A q \in Peer \ {p} : edits'[q] = edits[q]
  <2>1. /\ A \in SUBSET Edit /\ Lists(edits[p], A) /\ UniqueIds(A \cup {e})
        /\ rec[p] = Resolved!Resolve(Of(edits[p], A))
      BY <1>2
  <2> HIDE DEF A
  <2>2. QED
      BY <1>1, <1>2, <2>1, ApplyAdds
<1>4. \A q \in Peer : Written(q)' = Of(edits'[q], A \cup {e}) /\ Known(q)' = Ids(edits'[q])
  <2>1. ASSUME NEW q \in Peer PROVE Known(q)' = Ids(edits'[q])
      BY DEF Known, Ids, Id
  <2>2. ASSUME NEW q \in Peer PROVE Written(q)' = {d \in AllEdits' : Id(d) \in Known(q)'}
      BY DEF Written, AllEdits, Id
  <2>3. QED
      BY <2>1, <2>2 DEF Of
<1>5. ASSUME NEW q \in Peer \ {p}
      PROVE  Of(edits[q], A \cup {e}) = Of(edits[q], A) /\ Lists(edits[q], A \cup {e})
  <2>1. Lists(edits[q], A)
      BY DEF HistoryInvariant, ListsTrue
  <2>2. CASE e \in AllEdits
    <3>1. A \cup {e} = A
        BY <2>2
    <3>2. QED
        BY <2>1, <3>1
  <2>3. CASE \A d \in AllEdits : Id(d) # Id(e)
    <3>1. Id(e) \notin Ids(edits[q])
        BY <2>1, <2>3 DEF Lists, Ids
    <3>2. Of(edits[q], A \cup {e}) = Of(edits[q], A)
        BY <3>1 DEF Of
    <3>3. QED
        BY <2>1, <3>2 DEF Lists
  <2>4. QED
      BY <2>2, <2>3
<1>6. /\ Written(p)' = Written(p) \cup {e}
      /\ \A q \in Peer \ {p} : Written(q)' = Written(q)
      /\ \A q \in Peer : Known(q) \subseteq Known(q)'
    BY <1>3, <1>4, <1>5, WrittenIsOf
<1>7. rec' = [rec EXCEPT ![p] = Resolved!Resolve(Written(p) \cup {e})]
    BY <1>3, WrittenIsOf
<1>8. ListsTrue'
  <2>1. ASSUME NEW q \in Peer PROVE Lists(edits'[q], A \cup {e})
      BY <1>3, <1>5
  <2>2. QED
      BY <2>1 DEF ListsTrue
<1>9. AuthorKnows'
  <2>1. ASSUME NEW d \in A \cup {e} PROVE Id(d) \in Known(d.by)'
    <3>1. d.by \in Peer
        BY <1>2 DEF Edit
    <3>2. CASE d \in A
        BY <1>6, <3>1, <3>2 DEF HistoryInvariant, AuthorKnows
    <3>3. CASE d = e /\ e.by = p
        BY <1>3, <1>4, <3>3
    <3>4. QED
        BY <3>2, <3>3
  <2>2. QED
      BY <2>1 DEF AuthorKnows
<1>10. Resolves'
  <2>1. ASSUME NEW q \in Peer PROVE rec'[q] = Resolved!Resolve(Written(q)')
    <3>1. CASE q = p
        BY <1>1, <1>6, <1>7, <3>1
    <3>2. CASE q # p
      <4>1. rec'[q] = rec[q] /\ Written(q)' = Written(q)
          BY <1>1, <1>6, <1>7, <3>2
      <4>2. QED
          BY <4>1 DEF HistoryInvariant, Resolves
    <3>3. QED
        BY <3>1, <3>2
  <2>2. QED
      BY <2>1 DEF Resolves
<1>11. QED
    BY <1>6, <1>7, <1>8, <1>9, <1>10

\* p reads an entry of the log: what others have heard stays the same.
LEMMA ReadKeeps ==
    ASSUME HistoryInvariant, NEW p \in Peer, rd[p] < Len(log),
           rd' = [rd EXCEPT ![p] = @ + 1], UNCHANGED <<outbox, log>>
    PROVE  /\ AllEdits' = AllEdits
           /\ \A q \in Peer \ {p} : Heard(q)' = Heard(q)
           /\ Heard(p)' = Heard(p) \cup {e \in {log[rd[p] + 1]} : e.kind = "set"}
           /\ LogPlaced' /\ OutboxPlaced'
<1>1. rd \in [Peer -> 0 .. Len(log)] /\ Len(log) \in Nat
    BY LenProperties DEF HistoryInvariant, VersionInvariant, TypeOK
<1>2. AllEdits' = AllEdits /\ Relayed' = Relayed
    BY DEF AllEdits, InFlight, Relayed
<1>3. \A q \in Peer \ {p} : Heard(q)' = Heard(q)
    BY <1>1, <1>2 DEF Heard
<1>4. Heard(p)' = Heard(p) \cup {e \in {log[rd[p] + 1]} : e.kind = "set"}
  <2>1. rd'[p] = rd[p] + 1 /\ rd[p] \in Nat
      BY <1>1
  <2>2. 1 .. rd[p] + 1 = (1 .. rd[p]) \cup {rd[p] + 1}
      BY <2>1
  <2>3. SetsIn(log, rd[p] + 1) = SetsIn(log, rd[p]) \cup {e \in {log[rd[p] + 1]} : e.kind = "set"}
      BY <2>2 DEF SetsIn
  <2>4. Heard(p)' = SetsIn(log, rd[p] + 1) \cup {e \in Relayed : e.by = p}
                       \cup FirstOf(outbox[p], Len(outbox[p]))
      BY <1>2, <2>1 DEF Heard
  <2>5. QED
      BY <2>3, <2>4 DEF Heard
<1>5. \A q \in Peer : Heard(q) \subseteq Heard(q)'
    BY <1>3, <1>4
<1>6. LogPlaced'
  <2>1. ASSUME NEW q \in Peer, NEW i \in 1 .. Len(log), log[i].kind = "set", log[i].by = q
        PROVE  Placed(log[i], SetsIn(log, i - 1), Heard(q)')
    <3>1. Placed(log[i], SetsIn(log, i - 1), Heard(q))
        BY <2>1 DEF HistoryInvariant, LogPlaced
    <3>2. QED
        BY <1>5, <3>1, PlacedGrows
  <2>2. QED
      BY <2>1 DEF LogPlaced
<1>7. OutboxPlaced'
  <2>1. ASSUME NEW q \in Peer, NEW k \in 1 .. Len(outbox[q])
        PROVE  Placed(outbox[q][k], Relayed \cup FirstOf(outbox[q], k - 1), Heard(q)')
    <3>1. Placed(outbox[q][k], Relayed \cup FirstOf(outbox[q], k - 1), Heard(q))
        BY DEF HistoryInvariant, OutboxPlaced
    <3>2. QED
        BY <1>5, <3>1, PlacedGrows
  <2>2. QED
      BY <1>2, <2>1 DEF OutboxPlaced
<1>8. QED
    BY <1>2, <1>3, <1>4, <1>6, <1>7

-----------------------------------------------------------------------------
(* HistoryInvariant is inductive.                                          *)

LEMMA InitHistoryInvariant == Init => HistoryInvariant
<1> SUFFICES ASSUME Init PROVE HistoryInvariant
    OBVIOUS
<1>1. VersionInvariant
    BY InitVersionInvariant
<1>2. AllEdits = {}
    BY DEF Init, AllEdits, InFlight, Relayed
<1>3. LogPlaced /\ OutboxPlaced
    BY DEF Init, LogPlaced, OutboxPlaced
<1>4. ListsTrue
    BY DEF Init, ListsTrue, Lists
<1>5. HeardListed
  <2>1. ASSUME NEW p \in Peer PROVE Heard(p) = {}
      BY DEF Init, Heard, SetsIn, FirstOf, Relayed
  <2>2. ASSUME NEW p \in Peer PROVE Written(p) = {}
      BY <1>2 DEF Written, AllEdits
  <2>3. QED
      BY <2>1, <2>2 DEF HeardListed
<1>6. AuthorKnows
    BY <1>2 DEF AuthorKnows
<1>7. Resolves
  <2>1. ASSUME NEW p \in Peer PROVE rec[p] = Resolved!Resolve(Written(p))
    <3>1. Written(p) = {} /\ rec[p] = Zero
        BY <1>2 DEF Written, AllEdits, Init
    <3>2. IsFiniteSet({}) /\ Cardinality({}) = 0
        BY FS_EmptySet
    <3>3. PICK f \in [0 .. Cardinality({}) -> Record] :
              /\ Iterates(f, Cardinality({}), Zero, SetStep({}))
              /\ Resolved!Resolve({}) = f[Cardinality({})]
        BY <3>2, ResolveIterates
    <3>4. f[0] = Zero
        BY <3>3 DEF Iterates
    <3>5. QED
        BY <3>1, <3>2, <3>3, <3>4
  <2>2. QED
      BY <2>1 DEF Resolves
<1>8. QED
    BY <1>1, <1>3, <1>4, <1>5, <1>6, <1>7 DEF HistoryInvariant

LEMMA RemoveOrFlushKeeps ==
    ASSUME HistoryInvariant, VersionInvariant', NEW p \in Peer, RemoveNode(p) \/ Flush(p)
    PROVE  /\ HistoryInvariant'
           /\ \A q \in Peer : Written(q)' = Written(q)
<1>1. /\ outbox' = [outbox EXCEPT ![p] = <<>>]
      /\ UNCHANGED <<edits, rec, rd>>
      /\ \A q \in Peer : present'[q] => present[q]
    BY DEF RemoveNode, Flush, HistoryInvariant, VersionInvariant, TypeOK
<1>2. \E last \in Seq(Removal) : log' = (log \o outbox[p]) \o last
  <2>1. CASE RemoveNode(p)
    <3> DEFINE r == [by |-> p, kind |-> "remove"]
    <3>1. r \in Removal
        BY DEF Removal
    <3>2. <<r>> \in Seq(Removal)
      <4> HIDE DEF r
      <4>1. QED
          BY <3>1
    <3>3. log' = (log \o outbox[p]) \o <<r>>
        BY <2>1 DEF RemoveNode
    <3>4. QED
        BY <3>2, <3>3
  <2>2. CASE Flush(p)
    <3>1. log \in Seq(Edit \cup Removal) /\ outbox[p] \in Seq(Edit \cup Removal)
        BY SeqMonotonic DEF HistoryInvariant, VersionInvariant, TypeOK
    <3>2. log \o outbox[p] \in Seq(Edit \cup Removal)
        BY <3>1, ConcatProperties
    <3>3. log' = (log \o outbox[p]) \o <<>>
        BY <2>2, <3>2, ConcatEmptySeq DEF Flush
    <3>4. <<>> \in Seq(Removal)
        BY EmptySeq
    <3>5. QED
        BY <3>3, <3>4
  <2>3. QED
      BY <2>1, <2>2
<1>3. PICK last \in Seq(Removal) : log' = (log \o outbox[p]) \o last
    BY <1>2
<1>4. /\ AllEdits' = AllEdits
      /\ \A q \in Peer : Heard(q)' = Heard(q)
      /\ LogPlaced' /\ OutboxPlaced'
    BY <1>1, <1>3, RelayKeeps
<1>5. /\ ListsTrue' /\ AuthorKnows' /\ Resolves'
      /\ \A q \in Peer : Written(q)' = Written(q)
    BY <1>1, <1>4, SameEdits
<1>6. HeardListed'
    BY <1>1, <1>4, <1>5 DEF HistoryInvariant, HeardListed
<1>7. QED
    BY <1>4, <1>5, <1>6 DEF HistoryInvariant

LEMMA SkipOrRemovalKeeps ==
    ASSUME HistoryInvariant, VersionInvariant', NEW p \in Peer,
           Skip(p) \/ ReceiveRemoval(p)
    PROVE  /\ HistoryInvariant'
           /\ \A q \in Peer : Written(q)' = Written(q)
<1>1. /\ rd[p] < Len(log)
      /\ rd' = [rd EXCEPT ![p] = @ + 1]
      /\ UNCHANGED <<outbox, log>> /\ UNCHANGED <<edits, rec>>
      /\ \A q \in Peer : present'[q] => present[q]
      /\ present'[p] => log[rd[p] + 1].by = p
    BY DEF Skip, ReceiveRemoval, HistoryInvariant, VersionInvariant, TypeOK
<1>2. rd[p] + 1 \in 1 .. Len(log)
  <2>1. rd[p] \in 0 .. Len(log) /\ Len(log) \in Nat
      BY LenProperties DEF HistoryInvariant, VersionInvariant, TypeOK
  <2>2. QED
      BY <1>1, <2>1
<1>3. /\ AllEdits' = AllEdits
      /\ \A q \in Peer \ {p} : Heard(q)' = Heard(q)
      /\ Heard(p)' = Heard(p) \cup {e \in {log[rd[p] + 1]} : e.kind = "set"}
      /\ LogPlaced' /\ OutboxPlaced'
    BY <1>1, ReadKeeps
<1>4. /\ ListsTrue' /\ AuthorKnows' /\ Resolves'
      /\ \A q \in Peer : Written(q)' = Written(q)
    BY <1>1, <1>3, SameEdits
<1>5. HeardListed'
  <2>1. ASSUME NEW q \in Peer, present'[q] PROVE Heard(q)' = Heard(q)
    <3>1. CASE q # p
        BY <1>3, <3>1
    <3>2. CASE q = p
      <4>1. {e \in {log[rd[p] + 1]} : e.kind = "set"} \subseteq {e \in Relayed : e.by = p}
          BY <1>1, <1>2, <2>1, <3>2 DEF Relayed
      <4>2. {e \in Relayed : e.by = p} \subseteq Heard(p)
          BY DEF Heard
      <4>3. QED
          BY <1>3, <3>2, <4>1, <4>2
    <3>3. QED
        BY <3>1, <3>2
  <2>2. QED
      BY <1>1, <1>4, <2>1 DEF HistoryInvariant, HeardListed
<1>6. QED
    BY <1>3, <1>4, <1>5 DEF HistoryInvariant

\* The edit a participant is about to receive is one it has not listed.
LEMMA NextIsUnheard ==
    ASSUME HistoryInvariant, NEW p \in Peer, present[p], rd[p] < Len(log),
           log[rd[p] + 1].by # p, log[rd[p] + 1].kind = "set"
    PROVE  Id(log[rd[p] + 1]) \notin Known(p)
<1> DEFINE e == log[rd[p] + 1]
<1>1. /\ VersionInvariant /\ TypeOK /\ rd[p] \in 0 .. Len(log) /\ Len(log) \in Nat
      /\ UniqueIds(AllEdits)
    BY LenProperties, EditsUnique DEF HistoryInvariant, VersionInvariant, TypeOK
<1>2. rd[p] + 1 \in 1 .. Len(log) /\ (rd[p] + 1) - 1 = rd[p]
    BY <1>1
<1>3. e \in Relayed /\ e \in AllEdits /\ e \in Edit
    BY <1>1, <1>2, AllEditsType DEF Relayed, AllEdits
<1>4. e.by \in Peer /\ e.version \in Nat
    BY <1>3 DEF Edit
<1>5. Placed(e, SetsIn(log, rd[p]), Heard(e.by))
  <2>1. Placed(e, SetsIn(log, (rd[p] + 1) - 1), Heard(e.by))
      BY <1>2, <1>4 DEF HistoryInvariant, LogPlaced
  <2>2. QED
      BY <1>2, <2>1
<1> HIDE DEF e
<1>6. SUFFICES ASSUME Id(e) \in Known(p) PROVE FALSE
    BY DEF e
<1>7. e \in Written(p)
    BY <1>3, <1>6 DEF Written, AllEdits, Id
<1>8. e \in Heard(p)
    BY <1>7 DEF HistoryInvariant, HeardListed
<1>9. e \notin SetsIn(log, rd[p])
    BY <1>4, <1>5 DEF Placed
<1>10. e.by # p
    BY DEF e
<1>11. e \notin FirstOf(outbox[p], Len(outbox[p]))
    BY <1>1, <1>10, WhereEdits
<1>12. QED
    BY <1>8, <1>9, <1>10, <1>11 DEF Heard

LEMMA ReceiveEditKeeps ==
    ASSUME HistoryInvariant, VersionInvariant', NEW p \in Peer, ReceiveEdit(p)
    PROVE  /\ HistoryInvariant'
           /\ \E e \in AllEdits \ Written(p) :
                 /\ e.by # p /\ e \in Written(e.by)
                 /\ Written(p)' = Written(p) \cup {e}
                 /\ \A q \in Peer \ {p} : Written(q)' = Written(q)
                 /\ rec' = [rec EXCEPT ![p] = Resolved!Resolve(Written(p) \cup {e})]
<1> DEFINE e == log[rd[p] + 1]
<1>1. /\ rd[p] < Len(log) /\ present[p] /\ e.by # p /\ e.kind = "set"
      /\ ApplyRecordEdit(p, e)
      /\ rd' = [rd EXCEPT ![p] = @ + 1]
      /\ UNCHANGED <<outbox, log>> /\ UNCHANGED present
    BY DEF ReceiveEdit
<1>2. /\ VersionInvariant /\ TypeOK /\ rd[p] \in 0 .. Len(log) /\ Len(log) \in Nat
      /\ UniqueIds(AllEdits) /\ OutboxPlaced /\ LogPlaced
    BY LenProperties, EditsUnique DEF HistoryInvariant, VersionInvariant, TypeOK
<1>3. rd[p] + 1 \in 1 .. Len(log)
    BY <1>1, <1>2
<1>4. e \in Edit /\ e \in Relayed /\ e \in AllEdits
    BY <1>1, <1>2, <1>3, AllEditsType DEF Relayed, AllEdits
<1>5. e.version <= Len(edits[p]) + 1
    BY <1>1, <1>2, ReceivedVersion
<1>6. Id(e) \notin Known(p)
    BY <1>1, NextIsUnheard
<1>7. /\ AllEdits' = AllEdits
      /\ \A q \in Peer \ {p} : Heard(q)' = Heard(q)
      /\ Heard(p)' = Heard(p) \cup {d \in {e} : d.kind = "set"}
      /\ LogPlaced' /\ OutboxPlaced'
    BY <1>1, ReadKeeps
<1> HIDE DEF e
<1>8. AllEdits' = AllEdits \cup {e} /\ UniqueIds(AllEdits \cup {e})
  <2>1. AllEdits \cup {e} = AllEdits
      BY <1>4
  <2>2. QED
      BY <1>2, <1>7, <2>1
<1>9. /\ ListsTrue' /\ AuthorKnows' /\ Resolves'
      /\ Written(p)' = Written(p) \cup {e}
      /\ \A q \in Peer \ {p} : Written(q)' = Written(q)
      /\ rec' = [rec EXCEPT ![p] = Resolved!Resolve(Written(p) \cup {e})]
    BY <1>1, <1>4, <1>5, <1>6, <1>8, AppliedKeeps
<1>10. HeardListed'
  <2>1. Heard(p)' = Heard(p) \cup {e}
      BY <1>1, <1>7
  <2>2. ASSUME NEW q \in Peer, present'[q] PROVE Written(q)' = Heard(q)'
    <3>1. Written(q) = Heard(q)
        BY <1>1, <2>2 DEF HistoryInvariant, HeardListed
    <3>2. QED
        BY <1>7, <1>9, <2>1, <3>1
  <2>3. QED
      BY <2>2 DEF HeardListed
<1>11. e \notin Written(p) /\ e \in Written(e.by)
    BY <1>4, <1>6 DEF Written, AllEdits, Id, HistoryInvariant, AuthorKnows
<1>12. QED
    BY <1>1, <1>4, <1>7, <1>9, <1>10, <1>11 DEF HistoryInvariant

\* Every edit p knows has a version no larger than p's list is long.
LEMMA WrittenVersions ==
    ASSUME HistoryInvariant, NEW p \in Peer
    PROVE  /\ \A d \in Written(p) : d.version \in Nat /\ d.version <= Len(edits[p])
           /\ Written(p) \in SUBSET AllEdits /\ Written(p) \in SUBSET Edit
           /\ IsFiniteSet(Written(p)) /\ Cardinality(Written(p)) = Len(edits[p])
<1>1. /\ VersionInvariant /\ TypeOK /\ edits[p] \in Seq(Edit) /\ Len(edits[p]) \in Nat
      /\ Sorted(edits[p]) /\ Gapless(edits[p])
    BY LenProperties DEF HistoryInvariant, VersionInvariant, TypeOK, ListsSorted, NoGap
<1>2. /\ AllEdits \in SUBSET Edit /\ UniqueIds(AllEdits)
      /\ Lists(edits[p], AllEdits)
      /\ Written(p) = Of(edits[p], AllEdits)
    BY <1>1, AllEditsType, EditsUnique, WrittenIsOf DEF HistoryInvariant, ListsTrue
<1>3. ASSUME NEW d \in Written(p) PROVE d.version \in Nat /\ d.version <= Len(edits[p])
  <2>1. PICK i \in 1 .. Len(edits[p]) : Id(d) = Id(edits[p][i])
      BY <1>2 DEF Of, Ids
  <2>2. edits[p][i].version \in Nat /\ edits[p][i].version <= i
      BY <1>1, VersionType DEF Gapless
  <2>3. d.version = edits[p][i].version
      BY <2>1 DEF Id
  <2>4. QED
      BY <1>1, <2>2, <2>3
<1>4. Written(p) \in SUBSET AllEdits
    BY <1>2 DEF Of
<1>5. IsFiniteSet(Of(edits[p], AllEdits)) /\ Cardinality(Of(edits[p], AllEdits)) = Len(edits[p])
  <2> DEFINE A == AllEdits
  <2>1. A \in SUBSET Edit /\ UniqueIds(A) /\ Lists(edits[p], A)
      BY <1>2
  <2> HIDE DEF A
  <2>2. IsFiniteSet(Of(edits[p], A)) /\ Cardinality(Of(edits[p], A)) = Len(edits[p])
      BY <1>1, <2>1, ListsReplay
  <2>3. QED
      BY <2>2 DEF A
<1>6. QED
    BY <1>2, <1>3, <1>4, <1>5

LEMMA LocalEditKeeps ==
    ASSUME HistoryInvariant, VersionInvariant', NEW p \in Peer, NEW c \in Wanted,
           EditLocally(p, c)
    PROVE  /\ HistoryInvariant'
           /\ \E e \in Edit \ Written(p) :
                 /\ e.by = p /\ e.version = Cardinality(Written(p)) + 1 /\ e.base = rec[p]
                 /\ Written(p)' = Written(p) \cup {e}
                 /\ \A q \in Peer \ {p} : Written(q)' = Written(q)
                 /\ rec' = [rec EXCEPT ![p] = Resolved!Resolve(Written(p) \cup {e})]
                 /\ rec'[p] = ApplyChange(rec[p], e.change)
<1> DEFINE e == [by |-> p, kind |-> "set", version |-> NextVersion(p),
                 change |-> c, base |-> rec[p]]
           m == Len(outbox[p])
           W == Written(p)
<1>1. /\ present[p] /\ ApplyRecordEdit(p, e)
      /\ outbox' = [outbox EXCEPT ![p] = Append(@, e)]
      /\ UNCHANGED <<present, log, rd>>
    BY DEF EditLocally
<1>2. /\ VersionInvariant /\ TypeOK
      /\ outbox \in [Peer -> Seq(Edit)] /\ rec \in [Peer -> Record]
      /\ \A q \in Peer : Len(outbox[q]) \in Nat
      /\ Len(edits[p]) \in Nat
      /\ LogPlaced /\ OutboxPlaced
    BY LenProperties DEF HistoryInvariant, VersionInvariant, TypeOK
<1>3. e \in Edit
    BY <1>2, WantedAssumption DEF TypeOK, Edit, NextVersion
<1>4. /\ e.by = p /\ e.version = Len(edits[p]) + 1 /\ e.base = rec[p]
      /\ e.kind = "set"
    BY DEF NextVersion
<1> HIDE DEF e, m, W
<1>5. /\ W = Heard(p) /\ IsFiniteSet(W) /\ Cardinality(W) = Len(edits[p])
      /\ \A d \in W : d.version \in Nat /\ d.version <= Len(edits[p])
      /\ rec[p] = Resolved!Resolve(W)
    BY <1>1, WrittenVersions DEF HistoryInvariant, HeardListed, Resolves, W
<1>6. ASSUME NEW d \in Relayed \cup FirstOf(outbox[p], m), d.by = p
      PROVE  d.version < e.version
  <2>1. d \in W
      BY <1>5, <1>6 DEF Heard, m
  <2>2. d.version \in Nat /\ d.version <= Len(edits[p])
      BY <1>5, <2>1
  <2>3. QED
      BY <1>2, <1>4, <2>2
<1>7. ASSUME NEW d \in AllEdits PROVE Id(d) # Id(e)
  <2>1. SUFFICES ASSUME d.by = p, d.version = e.version PROVE FALSE
      BY <1>4 DEF Id
  <2>2. d \in Relayed \cup FirstOf(outbox[p], m)
      BY <1>2, <2>1, WhereEdits DEF m
  <2>3. d.version < e.version
      BY <1>6, <2>1, <2>2
  <2>4. e.version \in Nat
      BY <1>3 DEF Edit
  <2>5. QED
      BY <2>1, <2>3, <2>4
<1>8. /\ Len(outbox'[p]) = m + 1 /\ m \in Nat
      /\ \A k \in 1 .. m : outbox'[p][k] = outbox[p][k]
      /\ outbox'[p][m + 1] = e
      /\ \A q \in Peer \ {p} : outbox'[q] = outbox[q]
  <2>1. outbox'[p] = Append(outbox[p], e)
      BY <1>1, <1>2
  <2>2. QED
      BY <1>1, <1>2, <1>3, <2>1, AppendProperties DEF m
<1>9. FirstOf(outbox'[p], Len(outbox'[p])) = FirstOf(outbox[p], m) \cup {e}
  <2>1. 1 .. m + 1 = (1 .. m) \cup {m + 1}
      BY <1>8
  <2>2. QED
      BY <1>8, <2>1 DEF FirstOf
<1>10. Relayed' = Relayed
    BY <1>1 DEF Relayed
<1>11. AllEdits' = AllEdits \cup {e}
  <2>1. InFlight' = UNION {FirstOf(outbox'[q], Len(outbox'[q])) : q \in Peer}
      BY DEF InFlight, FirstOf
  <2>2. InFlight = UNION {FirstOf(outbox[q], Len(outbox[q])) : q \in Peer}
      BY DEF InFlight, FirstOf
  <2>3. ASSUME NEW d \in InFlight' PROVE d \in InFlight \cup {e}
    <3>1. PICK q \in Peer : d \in FirstOf(outbox'[q], Len(outbox'[q]))
        BY <2>1
    <3>2. CASE q = p
        BY <1>9, <2>2, <3>1, <3>2 DEF m
    <3>3. CASE q # p
        BY <1>8, <2>2, <3>1, <3>3
    <3>4. QED
        BY <3>2, <3>3
  <2>4. ASSUME NEW d \in InFlight PROVE d \in InFlight'
    <3>1. PICK q \in Peer : d \in FirstOf(outbox[q], Len(outbox[q]))
        BY <2>2
    <3>2. CASE q = p
        BY <1>9, <2>1, <3>1, <3>2 DEF m
    <3>3. CASE q # p
        BY <1>8, <2>1, <3>1, <3>3
    <3>4. QED
        BY <3>2, <3>3
  <2>5. e \in InFlight'
      BY <1>9, <2>1
  <2>6. QED
      BY <1>10, <2>3, <2>4, <2>5 DEF AllEdits
<1>12. UniqueIds(AllEdits \cup {e})
  <2>1. UniqueIds(AllEdits)
      BY <1>2, EditsUnique
  <2>2. QED
      BY <1>7, <2>1 DEF UniqueIds
<1>13. Id(e) \notin Known(p)
  <2>1. Lists(edits[p], AllEdits) /\ Known(p) = Ids(edits[p])
      BY WrittenIsOf DEF HistoryInvariant, ListsTrue
  <2>2. QED
      BY <1>7, <2>1 DEF Lists, Ids
<1>14. /\ ListsTrue' /\ AuthorKnows' /\ Resolves'
       /\ Written(p)' = Written(p) \cup {e}
       /\ \A q \in Peer \ {p} : Written(q)' = Written(q)
       /\ rec' = [rec EXCEPT ![p] = Resolved!Resolve(Written(p) \cup {e})]
  <2>1. e.version <= Len(edits[p]) + 1
      BY <1>2, <1>4
  <2>2. QED
      BY <1>1, <1>3, <1>4, <1>7, <1>11, <1>12, <1>13, <2>1, AppliedKeeps
<1>15. Heard(p)' = Heard(p) \cup {e} /\ \A q \in Peer \ {p} : Heard(q)' = Heard(q)
  <2>1. \A q \in Peer : Heard(q)' = SetsIn(log, rd[q]) \cup {d \in Relayed : d.by = q}
                                       \cup FirstOf(outbox'[q], Len(outbox'[q]))
      BY <1>1, <1>10 DEF Heard
  <2>2. QED
      BY <1>8, <1>9, <2>1 DEF Heard, m
<1>16. HeardListed'
    BY <1>1, <1>14, <1>15 DEF HistoryInvariant, HeardListed
<1>17. LogPlaced'
  <2>1. ASSUME NEW q \in Peer, NEW i \in 1 .. Len(log), log[i].kind = "set", log[i].by = q
        PROVE  Placed(log[i], SetsIn(log, i - 1), Heard(q)')
    <3>1. Placed(log[i], SetsIn(log, i - 1), Heard(q))
        BY <1>2, <2>1 DEF LogPlaced
    <3>2. Heard(q) \subseteq Heard(q)'
        BY <1>15
    <3>3. QED
        BY <3>1, <3>2, PlacedGrows
  <2>2. QED
      BY <1>1, <2>1 DEF LogPlaced
<1>18. Placed(e, Relayed \cup FirstOf(outbox[p], m), Heard(p)')
  <2>1. W \in SUBSET ((Relayed \cup FirstOf(outbox[p], m)) \cap Heard(p)')
    <3>1. SetsIn(log, rd[p]) \subseteq Relayed
      <4>1. rd[p] \in 0 .. Len(log) /\ Len(log) \in Nat
          BY <1>2, LenProperties DEF TypeOK
      <4>2. QED
          BY <4>1 DEF SetsIn, Relayed
    <3>2. Heard(p) \subseteq Relayed \cup FirstOf(outbox[p], m)
        BY <3>1 DEF Heard, m
    <3>3. QED
        BY <1>5, <1>15, <3>2
  <2>2. Cardinality(W) = e.version - 1 /\ \A d \in W : d.version < e.version
      BY <1>2, <1>4, <1>5
  <2>3. Resolved!Resolve(W) = e.base
      BY <1>4, <1>5
  <2>4. \A d \in Relayed \cup FirstOf(outbox[p], m) : d.by = e.by => d.version < e.version
      BY <1>4, <1>6
  <2>5. QED
      BY <2>1, <2>2, <2>3, <2>4 DEF Placed
<1>19. OutboxPlaced'
  <2>1. ASSUME NEW q \in Peer, NEW k \in 1 .. Len(outbox'[q])
        PROVE  Placed(outbox'[q][k], Relayed \cup FirstOf(outbox'[q], k - 1), Heard(q)')
    <3>1. Heard(q) \subseteq Heard(q)'
        BY <1>15
    <3>2. CASE q # p
      <4>1. Placed(outbox[q][k], Relayed \cup FirstOf(outbox[q], k - 1), Heard(q))
          BY <1>2, <1>8, <3>2 DEF OutboxPlaced
      <4>2. QED
          BY <1>8, <3>1, <3>2, <4>1, PlacedGrows
    <3>3. CASE q = p /\ k \in 1 .. m
      <4>1. Placed(outbox[p][k], Relayed \cup FirstOf(outbox[p], k - 1), Heard(p))
          BY <1>2, <3>3 DEF OutboxPlaced, m
      <4>2. FirstOf(outbox'[p], k - 1) = FirstOf(outbox[p], k - 1)
        <5>1. \A j \in 1 .. k - 1 : outbox'[p][j] = outbox[p][j]
            BY <1>8, <3>3
        <5>2. QED
            BY <5>1 DEF FirstOf
      <4>3. outbox'[p][k] = outbox[p][k]
          BY <1>8, <3>3
      <4>4. QED
          BY <3>1, <3>3, <4>1, <4>2, <4>3, PlacedGrows
    <3>4. CASE q = p /\ k = m + 1
      <4>1. FirstOf(outbox'[p], k - 1) = FirstOf(outbox[p], m)
        <5>1. k - 1 = m
            BY <1>8, <3>4
        <5>2. QED
            BY <1>8, <5>1 DEF FirstOf
      <4>2. outbox'[q][k] = e
          BY <1>8, <3>4
      <4>3. QED
          BY <1>18, <3>4, <4>1, <4>2
    <3>5. QED
        BY <1>8, <3>2, <3>3, <3>4
  <2>2. QED
      BY <1>10, <2>1 DEF OutboxPlaced
<1>20. HistoryInvariant'
    BY <1>14, <1>16, <1>17, <1>19 DEF HistoryInvariant
<1>21. rec'[p] = ApplyChange(rec[p], e.change)
  <2>1. InOrder(edits[p], e)
      BY <1>2, <1>4, LocalEditInOrder
  <2>2. QED
      BY <1>1, <1>2, <2>1 DEF ApplyRecordEdit
<1>22. e \notin Written(p)
    BY <1>13 DEF Written, Id
<1>23. QED
  <2>1. e.version = Cardinality(Written(p)) + 1
      BY <1>4, <1>5 DEF W
  <2>2. QED
      BY <1>3, <1>4, <1>14, <1>20, <1>21, <1>22, <2>1

LEMMA NextHistoryInvariant ==
    VersionInvariant' /\ HistoryInvariant /\ [Next]_vars => HistoryInvariant'
<1> SUFFICES ASSUME VersionInvariant', HistoryInvariant, [Next]_vars PROVE HistoryInvariant'
    OBVIOUS
<1>1. ASSUME NEW p \in Peer, LocalEdit(p) PROVE HistoryInvariant'
    BY <1>1, LocalEditIsEditLocally, LocalEditKeeps
<1>2. ASSUME NEW p \in Peer, RemoveNode(p) \/ Flush(p) PROVE HistoryInvariant'
    BY <1>2, RemoveOrFlushKeeps
<1>3. ASSUME NEW p \in Peer, Receive(p) PROVE HistoryInvariant'
    BY <1>3, SkipOrRemovalKeeps, ReceiveEditKeeps DEF Receive
<1>4. CASE UNCHANGED vars
  <2>1. AllEdits' = AllEdits /\ Relayed' = Relayed
      BY <1>4 DEF vars, AllEdits, InFlight, Relayed
  <2>2. \A p \in Peer : Heard(p)' = Heard(p)
      BY <1>4, <2>1 DEF vars, Heard
  <2>3. /\ ListsTrue' /\ AuthorKnows' /\ Resolves'
        /\ \A p \in Peer : Written(p)' = Written(p)
      BY <1>4, <2>1, SameEdits DEF vars
  <2>4. HeardListed'
      BY <1>4, <2>2, <2>3 DEF HistoryInvariant, HeardListed, vars
  <2>5. LogPlaced' /\ OutboxPlaced'
      BY <1>4, <2>1, <2>2 DEF HistoryInvariant, LogPlaced, OutboxPlaced, vars
  <2>6. QED
      BY <2>3, <2>4, <2>5 DEF HistoryInvariant
<1>5. QED
    BY <1>1, <1>2, <1>3, <1>4 DEF Next

\* What every participant lists, has heard and shows fits the edits made: the
\* inductive invariant behind convergence.
THEOREM HistoryConsistent == Spec => []HistoryInvariant
<1>1. Init => HistoryInvariant
    BY InitHistoryInvariant
<1>2. VersionInvariant' /\ HistoryInvariant /\ [Next]_vars => HistoryInvariant'
    BY NextHistoryInvariant
<1>3. QED
    BY <1>1, <1>2, VersionsConsistent, PTL DEF Spec

\* Participants that know the same edits show the same record, whatever the
\* order in which the edits reached them.
THEOREM StrongConvergenceHolds == Spec => []StrongConvergence
<1>1. HistoryInvariant => StrongConvergence
  <2> SUFFICES ASSUME HistoryInvariant, NEW p \in Peer, NEW q \in Peer, Known(p) = Known(q)
               PROVE  rec[p] = rec[q]
      BY DEF StrongConvergence
  <2>1. Written(p) = Written(q)
      BY DEF Written
  <2>2. QED
      BY <2>1 DEF HistoryInvariant, Resolves
<1>2. QED
    BY <1>1, HistoryConsistent, PTL

\* What an edit that has reached p was made on has reached p too.
LEMMA BaseIsHeard ==
    ASSUME HistoryInvariant, NEW p \in Peer, NEW e \in Heard(p)
    PROVE  \E K \in SUBSET Heard(p) : /\ Cardinality(K) = e.version - 1
                                      /\ \A d \in K : d.version < e.version
                                      /\ Resolved!Resolve(K) = e.base
<1>1. /\ TypeOK /\ LogPlaced /\ OutboxPlaced
      /\ Len(log) \in Nat /\ rd[p] \in 0 .. Len(log)
    BY LenProperties DEF HistoryInvariant, VersionInvariant, TypeOK
<1>2. SUFFICES ASSUME NEW B, NEW H, Placed(e, B, H), B \cap H \subseteq Heard(p)
               PROVE  \E K \in SUBSET Heard(p) : /\ Cardinality(K) = e.version - 1
                                                 /\ \A d \in K : d.version < e.version
                                                 /\ Resolved!Resolve(K) = e.base
  <2>1. CASE e \in SetsIn(log, rd[p])
    <3>1. PICK j \in 1 .. rd[p] : e = log[j] /\ log[j].kind = "set"
        BY <2>1 DEF SetsIn
    <3>2. j \in 1 .. Len(log)
        BY <1>1
    <3>3. log[j].by \in Peer
        BY <1>1, <3>1, <3>2, AllEditsType DEF Edit
    <3>4. Placed(e, SetsIn(log, j - 1), Heard(log[j].by))
        BY <1>1, <3>1, <3>2, <3>3 DEF LogPlaced
    <3>5. SetsIn(log, j - 1) \subseteq Heard(p)
        BY <1>1 DEF SetsIn, Heard
    <3>6. QED
        BY <1>2, <3>4, <3>5
  <2>2. CASE e \in Relayed /\ e.by = p
    <3>1. PICK j \in 1 .. Len(log) : e = log[j] /\ log[j].kind = "set"
        BY <2>2 DEF Relayed
    <3>2. Placed(e, SetsIn(log, j - 1), Heard(p))
        BY <1>1, <2>2, <3>1 DEF LogPlaced
    <3>3. QED
        BY <1>2, <3>2
  <2>3. CASE e \in FirstOf(outbox[p], Len(outbox[p]))
    <3>1. PICK k \in 1 .. Len(outbox[p]) : e = outbox[p][k]
        BY <2>3 DEF FirstOf
    <3>2. Placed(e, Relayed \cup FirstOf(outbox[p], k - 1), Heard(p))
        BY <1>1, <3>1 DEF OutboxPlaced
    <3>3. QED
        BY <1>2, <3>2
  <2>4. QED
      BY <2>1, <2>2, <2>3 DEF Heard
<1>3. QED
    BY <1>2 DEF Placed

\* An edit in effect was made on what the entries before it replay to.
LEMMA BaseIsReplayed ==
    ASSUME HistoryInvariant, NEW p \in Peer, present[p],
           NEW i \in 1 .. Len(edits[p]), Effective(edits[p], i)
    PROVE  edits[p][i].base = ReplayTo(edits[p], i - 1)
<1> DEFINE s == edits[p]
           A == AllEdits
           W == Of(s, A)
<1>1. /\ VersionInvariant /\ TypeOK /\ s \in Seq(Edit) /\ Len(s) \in Nat
      /\ Sorted(s) /\ Gapless(s)
    BY LenProperties DEF HistoryInvariant, VersionInvariant, TypeOK, ListsSorted, NoGap
<1>2. /\ A \in SUBSET Edit /\ UniqueIds(A) /\ Lists(s, A)
      /\ W = Heard(p) /\ IsFiniteSet(W) /\ W \in SUBSET Edit
    BY <1>1, AllEditsType, EditsUnique, WrittenIsOf, WrittenVersions
    DEF HistoryInvariant, ListsTrue, HeardListed
<1>3. i \in 1 .. Len(s) /\ Effective(s, i) /\ i \in Nat /\ i - 1 \in 0 .. Len(s)
      /\ (i - 1) + 1 = i
    BY <1>1
<1> HIDE DEF A, s
<1>4. PICK b : /\ Arrangement(s, W, b)
               /\ \A j \in 1 .. Len(s) : Effective(s, j) => s[j] = b[j]
    BY <1>1, <1>2, ListsArranged
<1>5. s[i] = b[i] /\ b[i] \in W /\ s[i].version = i
    BY <1>3, <1>4 DEF Arrangement, Bijection, Surjection, Effective
<1> HIDE DEF W
<1>6. PICK K \in SUBSET W : /\ Cardinality(K) = i - 1
                            /\ \A d \in K : d.version < i
                            /\ Resolved!Resolve(K) = s[i].base
    BY <1>2, <1>5, BaseIsHeard
<1> DEFINE B == Resolved!Below(W, i)
<1>7. Cardinality(B) = i - 1
  <2>1. Resolved!Undisputed(W, i)
      BY <1>1, <1>2, <1>3, <1>4, EffectiveIsUndisputed
  <2>2. QED
      BY <2>1, SharedCardinality DEF Resolved!Undisputed
<1>8. K \subseteq B /\ B \subseteq W
    BY <1>6 DEF Resolved!Below
<1> HIDE DEF B
<1>9. K = B
    BY <1>2, <1>6, <1>7, <1>8, FS_Subset
<1>10. ReplayTo(s, i - 1) = Resolved!Resolve(B)
  <2>1. Resolved!Below(W, (i - 1) + 1) = B
      BY <1>3 DEF B
  <2>2. Cardinality(Resolved!Below(W, (i - 1) + 1)) = i - 1
      BY <1>7, <2>1
  <2>3. \A j \in 1 .. Len(s) : Effective(s, j) => s[j].change = b[j].change
      BY <1>4
  <2>4. ReplayTo(s, i - 1) = Resolved!Resolve(Resolved!Below(W, (i - 1) + 1))
      BY <1>1, <1>2, <1>3, <1>4, <2>2, <2>3, ReplayIsResolve
  <2>5. QED
      BY <2>1, <2>4
<1>11. QED
    BY <1>6, <1>9, <1>10 DEF s

\* An edit takes effect only on the very record its author saw.
THEOREM AppliedAsWrittenHolds == Spec => []AppliedAsWritten
<1>1. HistoryInvariant => AppliedAsWritten
    BY BaseIsReplayed DEF AppliedAsWritten
<1>2. QED
    BY <1>1, HistoryConsistent, PTL

-----------------------------------------------------------------------------
(* Refinement.                                                             *)

\* Each step of SxeRecord is one of the record resolved from a set of edits, or
\* a stutter of it.
LEMMA StepIsResolvedStep ==
    ASSUME HistoryInvariant, VersionInvariant', [Next]_vars
    PROVE  [Resolved!Next]_(Resolved!vars)
<1> DEFINE known == [p \in Peer |-> Written(p)]
<1>1. /\ TypeOK /\ present \in [Peer -> BOOLEAN] /\ rec \in [Peer -> Record]
    BY DEF HistoryInvariant, VersionInvariant, TypeOK
<1>2. /\ \A q \in Peer : known[q] = Written(q)
      /\ \A q \in Peer : known'[q] = Written(q)'
    OBVIOUS
<1>3. ASSUME \A q \in Peer : Written(q)' = Written(q) PROVE known' = known
    BY <1>3
<1>4. ASSUME NEW p \in Peer, NEW e, Written(p)' = Written(p) \cup {e},
             \A q \in Peer \ {p} : Written(q)' = Written(q)
      PROVE  known' = [known EXCEPT ![p] = @ \cup {e}]
    BY <1>4
<1> HIDE DEF known
<1>5. ASSUME NEW p \in Peer, LocalEdit(p) PROVE Resolved!Next
  <2>1. PICK c \in Wanted : EditLocally(p, c)
      BY <1>5, LocalEditIsEditLocally
  <2>2. PICK e \in Edit \ Written(p) :
            /\ e.by = p /\ e.version = Cardinality(Written(p)) + 1 /\ e.base = rec[p]
            /\ Written(p)' = Written(p) \cup {e}
            /\ \A q \in Peer \ {p} : Written(q)' = Written(q)
            /\ rec' = [rec EXCEPT ![p] = Resolved!Resolve(Written(p) \cup {e})]
            /\ rec'[p] = ApplyChange(rec[p], e.change)
      BY <2>1, LocalEditKeeps
  <2>3. present[p] /\ UNCHANGED present
      BY <2>1 DEF EditLocally
  <2>4. e \in known'[p] \ known[p]
      BY <1>2, <2>2
  <2>5. known' = [known EXCEPT ![p] = @ \cup {e}]
      BY <1>4, <2>2
  <2>6. rec' = [rec EXCEPT ![p] = Resolved!Resolve(known'[p])]
      BY <1>2, <2>2
  <2>7. Resolved!Adopt(p, e)
      BY <2>3, <2>4, <2>5, <2>6 DEF Resolved!Adopt, known
  <2>8. Resolved!Write(p, e)
      BY <1>2, <2>2, <2>7, SharedCardinality, SharedApplyChange DEF Resolved!Write, known
  <2>9. QED
      BY <2>4, <2>8 DEF Resolved!Next, known
<1>6. ASSUME NEW p \in Peer, ReceiveEdit(p) PROVE Resolved!Next
  <2>1. PICK e \in AllEdits \ Written(p) :
            /\ e.by # p /\ e \in Written(e.by)
            /\ Written(p)' = Written(p) \cup {e}
            /\ \A q \in Peer \ {p} : Written(q)' = Written(q)
            /\ rec' = [rec EXCEPT ![p] = Resolved!Resolve(Written(p) \cup {e})]
      BY <1>6, ReceiveEditKeeps
  <2>2. present[p] /\ UNCHANGED present
      BY <1>6 DEF ReceiveEdit
  <2>3. e \in known'[p] \ known[p]
      BY <1>2, <2>1
  <2>4. known' = [known EXCEPT ![p] = @ \cup {e}]
      BY <1>4, <2>1
  <2>5. rec' = [rec EXCEPT ![p] = Resolved!Resolve(known'[p])]
      BY <1>2, <2>1
  <2>6. Resolved!Adopt(p, e)
      BY <2>2, <2>3, <2>4, <2>5 DEF Resolved!Adopt, known
  <2>7. e.by \in Peer /\ e \in known[e.by]
      BY <1>1, <1>2, <2>1, AllEditsType DEF Edit
  <2>8. Resolved!Learn(p, e)
      BY <2>1, <2>6, <2>7 DEF Resolved!Learn, known
  <2>9. QED
      BY <2>3, <2>8 DEF Resolved!Next, known
<1>7. ASSUME NEW p \in Peer, RemoveNode(p) \/ ReceiveRemoval(p) PROVE Resolved!Next
  <2>1. \A q \in Peer : Written(q)' = Written(q)
      BY <1>7, RemoveOrFlushKeeps, SkipOrRemovalKeeps
  <2>2. known' = known
      BY <1>3, <2>1
  <2>3. present[p] /\ present' = [present EXCEPT ![p] = FALSE] /\ UNCHANGED rec
      BY <1>7 DEF RemoveNode, ReceiveRemoval
  <2>4. Resolved!Drop(p)
      BY <2>2, <2>3 DEF Resolved!Drop, known
  <2>5. QED
      BY <2>4 DEF Resolved!Next
<1>8. ASSUME NEW p \in Peer, Flush(p) \/ Skip(p) PROVE UNCHANGED Resolved!vars
  <2>1. \A q \in Peer : Written(q)' = Written(q)
      BY <1>8, RemoveOrFlushKeeps, SkipOrRemovalKeeps
  <2>2. known' = known
      BY <1>3, <2>1
  <2>3. UNCHANGED <<present, rec>>
      BY <1>8 DEF Flush, Skip
  <2>4. QED
      BY <2>2, <2>3 DEF Resolved!vars, known
<1>9. CASE UNCHANGED vars
  <2>1. \A q \in Peer : Written(q)' = Written(q)
      BY <1>9 DEF vars, Written, InFlight, Relayed, Known
  <2>2. known' = known
      BY <1>3, <2>1
  <2>3. QED
      BY <1>9, <2>2 DEF vars, Resolved!vars, known
<1>10. QED
    BY <1>5, <1>6, <1>7, <1>8, <1>9 DEF Next, Receive

\* The lists, their sorting and replay, and the queues implement a record that
\* is a function of the set of known edits.
THEOREM ResolvedRecordImplemented == Spec => ImplementsResolvedRecord
<1>1. Init => Resolved!Init
  <2>1. SUFFICES ASSUME Init PROVE Resolved!Init
      OBVIOUS
  <2>2. \A p \in Peer : Written(p) = {}
      BY <2>1 DEF Init, Written, InFlight, Relayed
  <2>3. QED
      BY <2>1, <2>2, SharedZero DEF Init, Resolved!Init
<1>2. HistoryInvariant /\ VersionInvariant' /\ [Next]_vars => [Resolved!Next]_(Resolved!vars)
    BY StepIsResolvedStep
<1>3. QED
    BY <1>1, <1>2, HistoryConsistent, VersionsConsistent, PTL
    DEF Spec, Resolved!Spec, ImplementsResolvedRecord
=============================================================================
