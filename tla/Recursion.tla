----------------------------- MODULE Recursion -----------------------------
(***************************************************************************)
(* The least number principle, which the proofs of this project use in the *)
(* place of induction over the natural numbers, and what follows from it   *)
(* for functions defined by recursion on an interval 0 .. n.               *)
(***************************************************************************)
EXTENDS Integers, FiniteSets, Selection, FiniteSetTheorems, SequenceTheorems,
        WellFoundedInduction, TLAPS

\* A set of natural numbers that is not empty has a least element.  From the
\* well-foundedness of the strict subset order on the intervals 0 .. x.
LEMMA LeastNumber ==
    ASSUME NEW S \in SUBSET Nat, S # {}
    PROVE  \E m \in S : \A k \in S : m <= k
<1> DEFINE Upto == {0 .. x : x \in S}
           R    == StrictSubsetOrdering(Nat)
<1>1. IsWellFoundedOn(R, FiniteSubsetsOf(Nat))
    BY FS_StrictSubsetOrderingWellFounded
<1>2. Upto \subseteq FiniteSubsetsOf(Nat)
  <2>1. ASSUME NEW x \in S PROVE 0 .. x \in FiniteSubsetsOf(Nat)
      BY FS_Interval, 0 .. x \subseteq Nat DEF FiniteSubsetsOf
  <2>2. QED
      BY <2>1
<1>3. Upto # {}
    OBVIOUS
<1>4. PICK u \in Upto : \A v \in Upto : ~ (<<v, u>> \in R)
    BY <1>1, <1>2, <1>3, WFMin
<1>5. PICK m \in S : u = 0 .. m
    OBVIOUS
<1>6. ASSUME NEW k \in S PROVE m <= k
  <2>1. SUFFICES ASSUME k < m PROVE FALSE
      OBVIOUS
  <2>2. 0 .. k \in SUBSET Nat /\ 0 .. m \in SUBSET Nat
      OBVIOUS
  <2>3. 0 .. k \subseteq 0 .. m /\ 0 .. k # 0 .. m
      BY <2>1
  <2>4. <<0 .. k, 0 .. m>> \in R
      BY <2>2, <2>3 DEF StrictSubsetOrdering
  <2>5. QED
      BY <1>4, <1>5, <2>4
<1>7. QED
    BY <1>6

\* f is the function that starts at z and whose i-th step is g[i].
Iterates(f, n, z, g) == f[0] = z /\ \A i \in 1 .. n : f[i] = g[i][f[i - 1]]

\* Such a function exists, with its values in D.
LEMMA RecursionExists ==
    ASSUME NEW D, NEW z \in D, NEW n \in Nat, NEW g \in [1 .. n -> [D -> D]]
    PROVE  \E f \in [0 .. n -> D] : Iterates(f, n, z, g)
<1> DEFINE Bad == {k \in 0 .. n : ~ \E f \in [0 .. k -> D] : Iterates(f, k, z, g)}
<1>1. SUFFICES ASSUME Bad # {} PROVE FALSE
    OBVIOUS
<1>2. Bad \in SUBSET Nat
    OBVIOUS
<1>3. PICK m \in Bad : \A k \in Bad : m <= k
    BY <1>1, <1>2, LeastNumber
<1>4. CASE m = 0
  <2> DEFINE f == [i \in 0 .. 0 |-> z]
  <2>1. f \in [0 .. 0 -> D] /\ Iterates(f, 0, z, g)
      BY DEF Iterates
  <2>2. QED
      BY <1>4, <2>1
<1>5. CASE m # 0
  <2>1. m - 1 \in 0 .. n /\ m - 1 \notin Bad /\ m \in 1 .. n
      BY <1>3, <1>5
  <2>2. PICK f \in [0 .. (m - 1) -> D] : Iterates(f, m - 1, z, g)
      BY <2>1
  <2> DEFINE h == [i \in 0 .. m |-> IF i = m THEN g[m][f[m - 1]] ELSE f[i]]
  <2>3. g[m] \in [D -> D] /\ f[m - 1] \in D
      BY <2>1
  <2>4. h \in [0 .. m -> D]
      BY <2>1, <2>3
  <2>5. Iterates(h, m, z, g)
    <3>1. h[0] = z
        BY <2>1, <2>2 DEF Iterates
    <3>2. ASSUME NEW i \in 1 .. m PROVE h[i] = g[i][h[i - 1]]
      <4>1. CASE i = m
          BY <4>1, <2>1
      <4>2. CASE i # m
          BY <4>2, <2>1, <2>2 DEF Iterates
      <4>3. QED
          BY <4>1, <4>2
    <3>3. QED
        BY <3>1, <3>2 DEF Iterates
  <2>6. QED
      BY <2>4, <2>5
<1>6. QED
    BY <1>4, <1>5

\* And there is only one.
LEMMA RecursionUnique ==
    ASSUME NEW n \in Nat, NEW z, NEW g, NEW f, NEW h,
           Iterates(f, n, z, g), Iterates(h, n, z, g),
           NEW k \in 0 .. n
    PROVE  f[k] = h[k]
<1> DEFINE Bad == {i \in 0 .. n : f[i] # h[i]}
<1>1. SUFFICES ASSUME Bad # {} PROVE FALSE
    OBVIOUS
<1>2. Bad \in SUBSET Nat
    OBVIOUS
<1>3. PICK m \in Bad : \A i \in Bad : m <= i
    BY <1>1, <1>2, LeastNumber
<1>4. m # 0
    BY <1>3 DEF Iterates
<1>5. m - 1 \in 0 .. n /\ m - 1 \notin Bad /\ m \in 1 .. n
    BY <1>3, <1>4
<1>6. QED
    BY <1>5 DEF Iterates

-----------------------------------------------------------------------------
(* What is taken out of a sequence (Selection).                            *)

LEMMA SelectedSteps ==
    ASSUME NEW S, NEW s \in Seq(S), NEW K
    PROVE  /\ SelectedTo(s, K, 0) = <<>>
           /\ \A i \in 1 .. Len(s) :
                  SelectedTo(s, K, i) = IF i \in K THEN Append(SelectedTo(s, K, i - 1), s[i])
                                        ELSE SelectedTo(s, K, i - 1)
<1> DEFINE F(v) == [i \in 0 .. Len(s) |-> IF i = 0 THEN <<>>
                                          ELSE IF i \in K THEN Append(v[i - 1], s[i])
                                          ELSE v[i - 1]]
           val == CHOOSE v : v = F(v)
           g == [i \in 1 .. Len(s) |->
                    [y \in Seq(S) |-> IF i \in K THEN Append(y, s[i]) ELSE y]]
<1>1. Len(s) \in Nat /\ <<>> \in Seq(S)
    BY LenProperties, EmptySeq
<1>2. g \in [1 .. Len(s) -> [Seq(S) -> Seq(S)]]
  <2>1. ASSUME NEW i \in 1 .. Len(s), NEW y \in Seq(S)
        PROVE  (IF i \in K THEN Append(y, s[i]) ELSE y) \in Seq(S)
    <3>1. s[i] \in S
        BY ElementOfSeq
    <3>2. QED
        BY <3>1, AppendProperties
  <2>2. QED
      BY <2>1
<1> HIDE DEF g
<1>3. PICK f \in [0 .. Len(s) -> Seq(S)] : Iterates(f, Len(s), <<>>, g)
    BY <1>1, <1>2, RecursionExists, Zenon
<1>4. f = F(f)
  <2>1. ASSUME NEW i \in 0 .. Len(s) PROVE f[i] = F(f)[i]
    <3>1. CASE i = 0
        BY <1>3, <3>1 DEF Iterates
    <3>2. CASE i # 0
      <4>1. i \in 1 .. Len(s) /\ i - 1 \in 0 .. Len(s)
          BY <1>1, <3>2
      <4>2. f[i] = g[i][f[i - 1]] /\ f[i - 1] \in Seq(S)
          BY <1>3, <4>1 DEF Iterates
      <4>3. g[i][f[i - 1]] = IF i \in K THEN Append(f[i - 1], s[i]) ELSE f[i - 1]
          BY <4>1, <4>2 DEF g
      <4>4. QED
          BY <3>2, <4>1, <4>2, <4>3
    <3>3. QED
        BY <3>1, <3>2
  <2>2. QED
      BY <2>1
<1>5. val = F(val)
    BY <1>4
<1>6. \A k : SelectedTo(s, K, k) = val[k]
    BY DEF SelectedTo
<1> HIDE DEF val
<1>7. \A i \in 0 .. Len(s) : val[i] = IF i = 0 THEN <<>>
                                       ELSE IF i \in K THEN Append(val[i - 1], s[i])
                                       ELSE val[i - 1]
    BY <1>5
<1>8. 0 \in 0 .. Len(s) /\ \A i \in 1 .. Len(s) : i \in 0 .. Len(s) /\ i # 0
    BY <1>1
<1>9. QED
    BY <1>6, <1>7, <1>8

LEMMA SelectedType ==
    ASSUME NEW S, NEW s \in Seq(S), NEW K, NEW n \in 0 .. Len(s)
    PROVE  SelectedTo(s, K, n) \in Seq(S)
<1> DEFINE Bad == {i \in 0 .. Len(s) : SelectedTo(s, K, i) \notin Seq(S)}
<1>1. SUFFICES ASSUME Bad # {} PROVE FALSE
    OBVIOUS
<1>2. Len(s) \in Nat /\ Bad \in SUBSET Nat
    BY LenProperties
<1>3. PICK m \in Bad : \A i \in Bad : m <= i
    BY <1>1, <1>2, LeastNumber
<1>0. /\ SelectedTo(s, K, 0) = <<>> /\ <<>> \in Seq(S)
      /\ \A i \in 1 .. Len(s) :
             SelectedTo(s, K, i) = IF i \in K THEN Append(SelectedTo(s, K, i - 1), s[i])
                                   ELSE SelectedTo(s, K, i - 1)
    BY SelectedSteps, EmptySeq, Zenon
<1>4. m # 0
    BY <1>0, <1>3
<1>5. m - 1 \in 0 .. Len(s) /\ m - 1 \notin Bad /\ m \in 1 .. Len(s)
    BY <1>2, <1>3, <1>4
<1>6. SelectedTo(s, K, m - 1) \in Seq(S) /\ s[m] \in S
    BY <1>5, ElementOfSeq
<1>7. Append(SelectedTo(s, K, m - 1), s[m]) \in Seq(S)
    BY <1>6, AppendProperties
<1>8. SelectedTo(s, K, m) \in Seq(S)
    BY <1>0, <1>5, <1>6, <1>7
<1>9. QED
    BY <1>3, <1>8

LEMMA SelectedStep ==
    ASSUME NEW S, NEW s \in Seq(S), NEW K
    PROVE  /\ s \in Seq(S) /\ SelectedTo(s, K, 0) = <<>>
           /\ \A i \in 1 .. Len(s) :
                  SelectedTo(s, K, i) = IF i \in K THEN Append(SelectedTo(s, K, i - 1), s[i])
                                        ELSE SelectedTo(s, K, i - 1)
    BY SelectedSteps, Zenon

\* What is taken from the first n entries depends on these and on their places.
LEMMA SelectedSame ==
    ASSUME NEW S, NEW s \in Seq(S), NEW t \in Seq(S), NEW K, NEW L, NEW n \in Nat,
           n <= Len(s), n <= Len(t), \A i \in 1 .. n : s[i] = t[i] /\ (i \in K <=> i \in L)
    PROVE  SelectedTo(s, K, n) = SelectedTo(t, L, n)
<1> DEFINE Bad == {i \in 0 .. n : SelectedTo(s, K, i) # SelectedTo(t, L, i)}
<1>1. SUFFICES ASSUME Bad # {} PROVE FALSE
    OBVIOUS
<1>2. Bad \in SUBSET Nat
    OBVIOUS
<1>3. PICK m \in Bad : \A i \in Bad : m <= i
    BY <1>1, <1>2, LeastNumber
<1>0. /\ s \in Seq(S) /\ SelectedTo(s, K, 0) = <<>>
      /\ \A i \in 1 .. Len(s) :
             SelectedTo(s, K, i) = IF i \in K THEN Append(SelectedTo(s, K, i - 1), s[i])
                                   ELSE SelectedTo(s, K, i - 1)
    BY SelectedStep, Zenon
<1>9. /\ t \in Seq(S) /\ SelectedTo(t, L, 0) = <<>>
      /\ \A i \in 1 .. Len(t) :
             SelectedTo(t, L, i) = IF i \in L THEN Append(SelectedTo(t, L, i - 1), t[i])
                                   ELSE SelectedTo(t, L, i - 1)
    BY SelectedStep, Zenon
<1>4. m # 0
    BY <1>0, <1>3, <1>9
<1>5. m - 1 \in 0 .. n /\ m - 1 \notin Bad /\ m \in 1 .. n
    BY <1>3, <1>4
<1>6. m \in 1 .. Len(s) /\ m \in 1 .. Len(t)
    BY <1>5, LenProperties
<1>7. SelectedTo(s, K, m - 1) = SelectedTo(t, L, m - 1)
    BY <1>5
<1>8. SelectedTo(s, K, m) = SelectedTo(t, L, m)
    BY <1>0, <1>5, <1>6, <1>7, <1>9
<1>10. QED
    BY <1>3, <1>8

LEMMA ConcatIsAssociative ==
    ASSUME NEW S
    PROVE  \A u, v, w \in Seq(S) : (u \o v) \o w = u \o (v \o w)
    BY ConcatAssociative

\* The places in K of those n that follow the first m.
Places(K, m, n) == {i \in 1 .. n : m + i \in K}

\* What is taken from s \o t: what is taken from s, and what from t.
LEMMA SelectedConcat ==
    ASSUME NEW S, NEW s \in Seq(S), NEW t \in Seq(S), NEW L
    PROVE  Selected(s \o t, L) =
               Selected(s, Places(L, 0, Len(s))) \o Selected(t, Places(L, Len(s), Len(t)))
<1>7. \A q \in Seq(S) : \A N :
          /\ SelectedTo(q, N, 0) = <<>>
          /\ \A i \in 1 .. Len(q) :
                 SelectedTo(q, N, i) = IF i \in N THEN Append(SelectedTo(q, N, i - 1), q[i])
                                       ELSE SelectedTo(q, N, i - 1)
    BY SelectedSteps, Zenon
<1>8. \A u, v, w \in Seq(S) : (u \o v) \o w = u \o (v \o w)
    BY ConcatIsAssociative, Z3
<1>12. /\ SelectedTo(t, Places(L, Len(s), Len(t)), 0) = <<>>
       /\ \A i \in 1 .. Len(t) :
             SelectedTo(t, Places(L, Len(s), Len(t)), i) =
                 IF i \in Places(L, Len(s), Len(t))
                 THEN Append(SelectedTo(t, Places(L, Len(s), Len(t)), i - 1), t[i])
                 ELSE SelectedTo(t, Places(L, Len(s), Len(t)), i - 1)
    BY <1>7
<1>13. \A i \in 1 .. Len(s \o t) :
          SelectedTo(s \o t, L, i) =
              IF i \in L THEN Append(SelectedTo(s \o t, L, i - 1), (s \o t)[i])
              ELSE SelectedTo(s \o t, L, i - 1)
  <2> DEFINE u == s \o t
  <2>1. u \in Seq(S)
      BY ConcatProperties
  <2> HIDE DEF u
  <2>2. /\ SelectedTo(u, L, 0) = <<>>
        /\ \A i \in 1 .. Len(u) :
               SelectedTo(u, L, i) = IF i \in L THEN Append(SelectedTo(u, L, i - 1), u[i])
                                     ELSE SelectedTo(u, L, i - 1)
      BY <1>7, <2>1, Zenon
  <2>3. QED
      BY <2>2 DEF u
<1> DEFINE K == Places(L, 0, Len(s))
           M == Places(L, Len(s), Len(t))
<1>11. /\ \A i \in 1 .. Len(s) : i \in K <=> i \in L
       /\ \A i \in 1 .. Len(t) : i \in M <=> Len(s) + i \in L
  <2>1. \A i \in 1 .. Len(s) : 0 + i = i
      OBVIOUS
  <2>2. QED
      BY <2>1 DEF Places
<1> HIDE DEF K, M
<1> DEFINE r == s \o t
           a == Selected(s, K)
           Bad == {j \in 0 .. Len(t) : SelectedTo(r, L, Len(s) + j) # a \o SelectedTo(t, M, j)}
<1>1. /\ Len(s) \in Nat /\ Len(t) \in Nat /\ Len(r) = Len(s) + Len(t) /\ r \in Seq(S)
      /\ \A i \in 1 .. Len(s) : r[i] = s[i]
      /\ \A i \in 1 .. Len(t) : r[Len(s) + i] = t[i]
    BY LenProperties, ConcatProperties
<1>2. a \in Seq(S)
    BY <1>1, SelectedType DEF Selected
<1> HIDE DEF a, r
<1>3. SelectedTo(r, L, Len(s)) = a
  <2>1. \A i \in 1 .. Len(s) : r[i] = s[i] /\ (i \in L <=> i \in K)
      BY <1>1, <1>11
  <2>2. Len(s) <= Len(r) /\ Len(s) <= Len(s)
      BY <1>1
  <2>3. SelectedTo(r, L, Len(s)) = SelectedTo(s, K, Len(s))
      BY <1>1, <2>1, <2>2, SelectedSame
  <2>4. QED
      BY <2>3 DEF Selected, a
<1>4. Bad = {}
  <2>1. SUFFICES ASSUME Bad # {} PROVE FALSE
      OBVIOUS
  <2>2. Bad \in SUBSET Nat
      BY <1>1
  <2>3. PICK m \in Bad : \A i \in Bad : m <= i
      BY <2>1, <2>2, LeastNumber
  <2>4. m # 0
    <3>1. a \o <<>> = a /\ Len(s) + 0 = Len(s)
        BY <1>1, <1>2, ConcatEmptySeq
    <3>2. QED
        BY <1>3, <1>12, <2>3, <3>1 DEF M
  <2>5. m - 1 \in 0 .. Len(t) /\ m - 1 \notin Bad /\ m \in 1 .. Len(t)
    <3>1. m \in 0 .. Len(t)
        BY <2>3
    <3>2. m - 1 \in 0 .. Len(t) /\ m \in 1 .. Len(t) /\ ~(m <= m - 1)
        BY <1>1, <2>4, <3>1
    <3>3. QED
        BY <2>3, <3>2
  <2>6. Len(s) + m \in 1 .. Len(r) /\ Len(s) + m - 1 = Len(s) + (m - 1)
      BY <1>1, <2>5
  <2> DEFINE b == SelectedTo(t, M, m - 1)
  <2>7. b \in Seq(S) /\ t[m] \in S
      BY <2>5, SelectedType, ElementOfSeq
  <2>8. SelectedTo(r, L, Len(s) + (m - 1)) = a \o b
      BY <2>5
  <2> HIDE DEF b
  <2> DEFINE x == t[m]
  <2>9. a \o Append(b, t[m]) = Append(a \o b, t[m])
    <3>1. x \in S
        BY <2>7
    <3> HIDE DEF x
    <3>2. /\ Append(b, x) = b \o <<x>> /\ <<x>> \in Seq(S) /\ a \o b \in Seq(S)
          /\ Append(a \o b, x) = (a \o b) \o <<x>>
        BY <1>2, <2>7, <3>1, AppendIsConcat, ConcatProperties
    <3>4. (a \o b) \o <<x>> = a \o (b \o <<x>>)
        BY <1>2, <1>8, <2>7, <3>2
    <3>5. QED
        BY <3>2, <3>4 DEF x
  <2>10. SelectedTo(r, L, Len(s) + m) =
           IF Len(s) + m \in L THEN Append(a \o b, r[Len(s) + m]) ELSE a \o b
    <3> DEFINE k == Len(s) + m
    <3>1. k \in 1 .. Len(r) /\ SelectedTo(r, L, k - 1) = a \o b
        BY <2>6, <2>8
    <3> HIDE DEF k
    <3>4. \A i \in 1 .. Len(r) :
              SelectedTo(r, L, i) = IF i \in L THEN Append(SelectedTo(r, L, i - 1), r[i])
                                    ELSE SelectedTo(r, L, i - 1)
        BY <1>13 DEF r
    <3>2. SelectedTo(r, L, k) = IF k \in L THEN Append(a \o b, r[k]) ELSE a \o b
        BY <3>1, <3>4
    <3>3. QED
        BY <3>2 DEF k
  <2>11. SelectedTo(t, M, m) = IF m \in M THEN Append(b, t[m]) ELSE b
      BY <1>12, <2>5 DEF b, M
  <2>12. SelectedTo(r, L, Len(s) + m) = a \o SelectedTo(t, M, m)
      BY <1>1, <1>11, <2>5, <2>9, <2>10, <2>11
  <2>13. QED
      BY <2>3, <2>12
<1>15. Len(t) \in 0 .. Len(t) => Len(t) \notin Bad
    BY <1>4, Zenon
<1>5. Len(t) \notin Bad /\ Len(t) \in 0 .. Len(t)
  <2>1. Len(t) \in 0 .. Len(t)
      BY <1>1
  <2>2. QED
      BY <1>15, <2>1, Zenon
<1>6. QED
    BY <1>1, <1>5 DEF Selected, a, r, K, M

\* Nothing is taken from a sequence with no entry at a place in K.
LEMMA SelectedNone ==
    ASSUME NEW S, NEW s \in Seq(S), NEW K, \A i \in 1 .. Len(s) : i \notin K
    PROVE  Selected(s, K) = <<>>
<1>1. \A q \in Seq(S) : \A N :
          /\ SelectedTo(q, N, 0) = <<>>
          /\ \A i \in 1 .. Len(q) :
                 SelectedTo(q, N, i) = IF i \in N THEN Append(SelectedTo(q, N, i - 1), q[i])
                                       ELSE SelectedTo(q, N, i - 1)
    BY SelectedSteps, Zenon
<1>2. Len(s) \in Nat /\ s \in Seq(S)
    BY LenProperties
<1>9. /\ SelectedTo(s, K, 0) = <<>>
      /\ \A i \in 1 .. Len(s) :
             SelectedTo(s, K, i) = IF i \in K THEN Append(SelectedTo(s, K, i - 1), s[i])
                                   ELSE SelectedTo(s, K, i - 1)
    BY <1>1, <1>2, Zenon
<1> DEFINE Bad == {i \in 0 .. Len(s) : SelectedTo(s, K, i) # <<>>}
<1>3. SUFFICES ASSUME Bad # {} PROVE FALSE
    BY <1>2 DEF Selected
<1>4. Bad \in SUBSET Nat
    BY <1>2
<1>5. PICK m \in Bad : \A i \in Bad : m <= i
    BY <1>3, <1>4, LeastNumber
<1>6. m # 0
    BY <1>5, <1>9
<1>7. m - 1 \in 0 .. Len(s) /\ m \in 1 .. Len(s) /\ m - 1 \notin Bad
    BY <1>2, <1>5, <1>6
<1>8. SelectedTo(s, K, m - 1) = <<>>
    BY <1>7

<1>10. QED
    BY <1>5, <1>7, <1>8, <1>9

\* What is taken from a sequence of one entry.
LEMMA SelectedOne ==
    ASSUME NEW S, NEW x \in S, NEW K
    PROVE  Selected(<<x>>, K) = IF 1 \in K THEN <<x>> ELSE <<>>
<1>1. \A r \in Seq(S) : \A N :
          /\ SelectedTo(r, N, 0) = <<>>
          /\ \A i \in 1 .. Len(r) :
                 SelectedTo(r, N, i) = IF i \in N THEN Append(SelectedTo(r, N, i - 1), r[i])
                                       ELSE SelectedTo(r, N, i - 1)
    BY SelectedSteps, Zenon
<1> DEFINE q == <<x>>
<1>2. Len(q) = 1 /\ q[1] = x /\ 1 \in 1 .. Len(q) /\ 1 - 1 = 0
    OBVIOUS
<1>4. q \in Seq(S)
    OBVIOUS
<1> HIDE DEF q
<1>3. /\ SelectedTo(q, K, 0) = <<>>
      /\ \A i \in 1 .. Len(q) :
             SelectedTo(q, K, i) = IF i \in K THEN Append(SelectedTo(q, K, i - 1), q[i])
                                   ELSE SelectedTo(q, K, i - 1)
    BY <1>1, <1>4, Zenon
<1>5. Selected(q, K) = IF 1 \in K THEN Append(<<>>, x) ELSE <<>>
    BY <1>2, <1>3 DEF Selected
<1>6. Append(<<>>, x) = <<x>>
    OBVIOUS
<1>7. QED
    BY <1>5, <1>6 DEF q

\* What is taken are the entries at the places in K, in the order of the places:
\* the i-th is that at place f[i].
Takes(r, s, K, n, f) ==
    /\ f \in [1 .. Len(r) -> 1 .. n]
    /\ \A i \in 1 .. Len(r) : f[i] \in K /\ r[i] = s[f[i]]
    /\ \A i, j \in 1 .. Len(r) : i < j => f[i] < f[j]
    /\ \A k \in 1 .. n : k \in K => \E i \in 1 .. Len(r) : f[i] = k

LEMMA SelectedTakes ==
    ASSUME NEW S, NEW s \in Seq(S), NEW K
    PROVE  /\ Selected(s, K) \in Seq(S)
           /\ \E f : Takes(Selected(s, K), s, K, Len(s), f)
<1> DEFINE Good(m) == \E f : Takes(SelectedTo(s, K, m), s, K, m, f)
           Bad == {m \in 0 .. Len(s) : ~Good(m)}
<1>1. Len(s) \in Nat /\ Bad \in SUBSET Nat
    BY LenProperties
<1>0. \A q \in Seq(S) : \A N :
          /\ SelectedTo(q, N, 0) = <<>>
          /\ \A i \in 1 .. Len(q) :
                 SelectedTo(q, N, i) = IF i \in N THEN Append(SelectedTo(q, N, i - 1), q[i])
                                       ELSE SelectedTo(q, N, i - 1)
    BY SelectedSteps, Zenon
<1>2. /\ SelectedTo(s, K, 0) = <<>>
      /\ \A i \in 1 .. Len(s) :
             SelectedTo(s, K, i) = IF i \in K THEN Append(SelectedTo(s, K, i - 1), s[i])
                                   ELSE SelectedTo(s, K, i - 1)
    BY <1>0, Zenon
<1>3. Good(0)
  <2> DEFINE f == [i \in {} |-> 0]
  <2>1. f \in [1 .. Len(<<>>) -> 1 .. 0]
      OBVIOUS
  <2>2. Takes(<<>>, s, K, 0, f)
      BY <2>1 DEF Takes
  <2>3. QED
      BY <1>2, <2>2
<1>4. ASSUME NEW m \in 1 .. Len(s), Good(m - 1) PROVE Good(m)
  <2> DEFINE r == SelectedTo(s, K, m - 1)
  <2>1. PICK f : Takes(r, s, K, m - 1, f)
      BY <1>4
  <2>2. r \in Seq(S) /\ s[m] \in S /\ m - 1 \in Nat
    <3>1. m - 1 \in 0 .. Len(s)
        BY <1>1
    <3>2. QED
        BY <3>1, SelectedType, ElementOfSeq
  <2>3. SelectedTo(s, K, m) = IF m \in K THEN Append(r, s[m]) ELSE r
      BY <1>2
  <2> HIDE DEF r
  <2>4. Len(r) \in Nat
      BY <2>2, LenProperties
  <2>5. CASE m \in K
    <3> DEFINE t == Append(r, s[m])
               g == [i \in 1 .. Len(r) + 1 |-> IF i = Len(r) + 1 THEN m ELSE f[i]]
    <3>1. /\ Len(t) = Len(r) + 1 /\ t[Len(r) + 1] = s[m]
          /\ \A i \in 1 .. Len(r) : t[i] = r[i]
        BY <2>2, AppendProperties
    <3> HIDE DEF t
    <3>2. \A i \in 1 .. Len(r) : g[i] = f[i] /\ f[i] \in 1 .. (m - 1) /\ f[i] < m
        BY <2>1, <2>4 DEF Takes
    <3>3. g[Len(r) + 1] = m /\ Len(r) + 1 \in 1 .. Len(t)
        BY <2>4, <3>1
    <3>4. \A i \in 1 .. Len(t) : i \in 1 .. Len(r) \/ i = Len(r) + 1
        BY <2>4, <3>1
    <3>11. 1 .. Len(t) = 1 .. Len(r) + 1 /\ m \in 1 .. m /\ \A i \in 1 .. (m - 1) : i \in 1 .. m
        BY <2>4, <3>1
    <3>5. g \in [1 .. Len(t) -> 1 .. m]
        BY <2>4, <3>2, <3>4, <3>11
    <3> HIDE DEF g
    <3>6. \A i \in 1 .. Len(t) : g[i] \in K /\ t[i] = s[g[i]]
        BY <2>1, <2>5, <3>1, <3>2, <3>3, <3>4 DEF Takes
    <3>7. \A i, j \in 1 .. Len(t) : i < j => g[i] < g[j]
      <4>1. ASSUME NEW i \in 1 .. Len(t), NEW j \in 1 .. Len(t), i < j PROVE g[i] < g[j]
        <5>1. i \in 1 .. Len(r)
            BY <2>4, <3>1, <4>1
        <5>2. QED
            BY <2>1, <3>2, <3>3, <3>4, <4>1, <5>1 DEF Takes
      <4>2. QED
          BY <4>1
    <3>8. \A k \in 1 .. m : k \in K => \E i \in 1 .. Len(t) : g[i] = k
      <4>1. ASSUME NEW k \in 1 .. m, k \in K PROVE \E i \in 1 .. Len(t) : g[i] = k
        <5>1. CASE k = m
            BY <3>3, <5>1
        <5>2. CASE k # m
          <6>1. k \in 1 .. (m - 1)
              BY <5>2
          <6>2. PICK i \in 1 .. Len(r) : f[i] = k
              BY <2>1, <4>1, <6>1 DEF Takes
          <6>3. i \in 1 .. Len(t)
              BY <2>4, <3>1
          <6>4. g[i] = k
              BY <3>2, <6>2
          <6>5. QED
              BY <6>3, <6>4
        <5>3. QED
            BY <5>1, <5>2
      <4>2. QED
          BY <4>1
    <3>9. Takes(t, s, K, m, g)
        BY <3>5, <3>6, <3>7, <3>8 DEF Takes
    <3>10. QED
        BY <2>3, <2>5, <3>9 DEF t
  <2>6. CASE m \notin K
    <3>1. \A i \in 1 .. Len(r) : f[i] \in 1 .. m
        BY <2>1 DEF Takes
    <3>2. f \in [1 .. Len(r) -> 1 .. m]
        BY <2>1, <3>1 DEF Takes
    <3>3. \A k \in 1 .. m : k \in K => k \in 1 .. (m - 1)
        BY <2>6
    <3>4. Takes(r, s, K, m, f)
        BY <2>1, <3>2, <3>3 DEF Takes
    <3>5. QED
        BY <2>3, <2>6, <3>4
  <2>7. QED
      BY <2>5, <2>6
<1> HIDE DEF Good
<1>5. Bad = {}
  <2>1. SUFFICES ASSUME Bad # {} PROVE FALSE
      OBVIOUS
  <2>2. PICK m \in Bad : \A i \in Bad : m <= i
      BY <1>1, <2>1, LeastNumber
  <2>3. m \in 1 .. Len(s) /\ m - 1 \in 0 .. Len(s) /\ m - 1 \notin Bad
      BY <1>1, <1>3, <2>2
  <2>4. QED
      BY <1>4, <2>2, <2>3
<1>6. Len(s) \in 0 .. Len(s)
    BY <1>1
<1>7. Good(Len(s))
    BY <1>5, <1>6
<1>8. QED
    BY <1>6, <1>7, SelectedType DEF Selected, Good
=============================================================================
