------------------------------ MODULE SliceProofs ------------------------------
(***************************************************************************)
(* Proofs about SegmentSlice: the binary searches, the compaction and the  *)
(* insertion that the code does on its slice compute what Stream says with *)
(* sets of indices, for a list of any length.                              *)
(*                                                                         *)
(* Each recursive function is shown to have a solution, written down or    *)
(* built up step by step, and to have only one, by a least argument at     *)
(* which two solutions would differ.                                       *)
(***************************************************************************)
EXTENDS RenderSlice, LiveStreamProofs, SequenceTheorems

-------------------------------------------------------------------------------
(* sort.Search *)

\* One turn of the search's loop, for what the rest of the loop finds.
SearchTurn(rest, test, r) ==
    LET i == r[1]
        j == r[2]
        h == (i + j) \div 2
    IN  IF i >= j THEN i ELSE IF test[h + 1] THEN rest[<<i, h>>] ELSE rest[<<h + 1, j>>]

\* What a search of the positions between i and j finds, if a comes before the
\* first position that passes the test.
Found(a, i, j) == IF i >= j \/ a <= i THEN i ELSE IF a >= j THEN j ELSE a

\* The middle of an interval is in it.
LEMMA Middle ==
    ASSUME NEW i \in Nat, NEW j \in Nat, i < j
    PROVE  (i + j) \div 2 \in Nat /\ i <= (i + j) \div 2 /\ (i + j) \div 2 < j
OBVIOUS

\* For a test that holds of every position after one that it holds of, the search
\* finds how many positions come before the first of them.
LEMMA SearchFinds ==
    ASSUME NEW n \in Nat, NEW test, Len(test) = n,
           \A p \in 1..n : test[p] \in BOOLEAN,
           \A p, q \in 1..n : p <= q /\ test[p] => test[q]
    PROVE  SortSearch(test) \in 0..n /\ \A p \in 1..n : test[p] <=> p > SortSearch(test)
<1> DEFINE R == (0..n) \X (0..n)
           Solves(f) == f = [r \in R |-> SearchTurn(f, test, r)]
<1>1. PICK a \in 0..n : \A p \in 1..n : test[p] <=> p > a
  <2> DEFINE T == {p \in 1..n : test[p]}
  <2>1. CASE T = {}
    <3>1. n \in 0..n /\ \A p \in 1..n : ~test[p] /\ ~(p > n)
      BY <2>1
    <3>2. QED
      BY <3>1
  <2>2. CASE T # {}
    <3>1. T \in SUBSET Nat
      OBVIOUS
    <3>2. PICK x \in T : \A y \in T : x <= y
      BY <2>2, <3>1, LeastNatural
    <3>3. x \in 1..n /\ test[x] /\ x - 1 \in 0..n
      BY <3>2
    <3>4. ASSUME NEW p \in 1..n PROVE test[p] <=> p > x - 1
      <4>1. test[p] => p >= x
        BY <3>2
      <4>2. p >= x => test[p]
        BY <3>3
      <4>3. p >= x <=> p > x - 1
        BY <3>3
      <4>4. QED
        BY <4>1, <4>2, <4>3
    <3>5. QED
      BY <3>3, <3>4
  <2>3. QED
    BY <2>1, <2>2
<1> DEFINE F == [r \in R |-> Found(a, r[1], r[2])]
<1>2. \A i, j \in 0..n : <<i, j>> \in R /\ F[<<i, j>>] = Found(a, i, j)
  OBVIOUS
<1>3. \A r \in R : r[1] \in 0..n /\ r[2] \in 0..n /\ r = <<r[1], r[2]>>
  OBVIOUS
<1>4. \A i, j \in 0..n : i < j =>
         (i + j) \div 2 \in 0..n /\ (i + j) \div 2 + 1 \in 0..n
  <2>1. TAKE i, j \in 0..n
  <2>2. HAVE i < j
  <2>3. (i + j) \div 2 \in Nat /\ (i + j) \div 2 < j
    BY <2>2, Middle
  <2>4. QED
    BY <2>3
<1>5. ASSUME NEW rest, NEW i \in 0..n, NEW j \in 0..n,
             i < j => /\ rest[<<i, (i + j) \div 2>>] = Found(a, i, (i + j) \div 2)
                      /\ rest[<<(i + j) \div 2 + 1, j>>] = Found(a, (i + j) \div 2 + 1, j)
      PROVE  SearchTurn(rest, test, <<i, j>>) = Found(a, i, j)
  <2>1. CASE i >= j
    BY <2>1 DEF SearchTurn, Found
  <2>2. CASE i < j
    <3> DEFINE h == (i + j) \div 2
    <3>1. h \in Nat /\ i <= h /\ h < j /\ i \in Nat /\ j \in Nat /\ a \in Nat /\ h + 1 \in 1..n
      BY <2>2, Middle
    <3>2. SearchTurn(rest, test, <<i, j>>) =
             IF test[h + 1] THEN rest[<<i, h>>] ELSE rest[<<h + 1, j>>]
      BY <2>2, <3>1 DEF SearchTurn
    <3>3. rest[<<i, h>>] = Found(a, i, h) /\ rest[<<h + 1, j>>] = Found(a, h + 1, j)
      BY <1>5, <2>2
    <3>4. test[h + 1] <=> h + 1 > a
      BY <1>1, <3>1
    <3> HIDE DEF h
    <3>5. CASE h + 1 > a
      <4>1. Found(a, i, h) = Found(a, i, j)
        BY <2>2, <3>1, <3>5 DEF Found
      <4>2. QED
        BY <3>2, <3>3, <3>4, <3>5, <4>1
    <3>6. CASE ~(h + 1 > a)
      <4>1. Found(a, h + 1, j) = Found(a, i, j)
        BY <2>2, <3>1, <3>6 DEF Found
      <4>2. QED
        BY <3>2, <3>3, <3>4, <3>6, <4>1
    <3>7. QED
      BY <3>5, <3>6
  <2>3. QED
    BY <2>1, <2>2
<1> HIDE DEF R, F
<1>6. Solves(F)
  <2>1. \A i, j \in 0..n : SearchTurn(F, test, <<i, j>>) = Found(a, i, j)
    <3>1. TAKE i, j \in 0..n
    <3>2. i < j => /\ F[<<i, (i + j) \div 2>>] = Found(a, i, (i + j) \div 2)
                   /\ F[<<(i + j) \div 2 + 1, j>>] = Found(a, (i + j) \div 2 + 1, j)
      BY <1>2, <1>4
    <3>3. QED
      BY <1>5, <3>2
  <2>2. \A r \in R : SearchTurn(F, test, r) = Found(a, r[1], r[2])
    BY <1>3, <2>1
  <2>3. QED
    BY <2>2 DEF F
<1>7. ASSUME NEW f, Solves(f) PROVE f = F
  <2> DEFINE Size(i, j) == IF i >= j THEN 0 ELSE j - i
             Wrong == {k \in Nat : \E i, j \in 0..n : f[<<i, j>>] # Found(a, i, j) /\ k = Size(i, j)}
  <2>1. ASSUME Wrong # {} PROVE FALSE
    <3>1. PICK k \in Wrong : \A l \in Wrong : k <= l
      BY <2>1, LeastNatural
    <3>2. PICK i \in 0..n, j \in 0..n : f[<<i, j>>] # Found(a, i, j) /\ k = Size(i, j)
      BY <3>1
    <3>3. \A x, y \in 0..n : Size(x, y) \in Nat /\ (Size(x, y) < k => f[<<x, y>>] = Found(a, x, y))
      <4>1. TAKE x, y \in 0..n
      <4>2. Size(x, y) \in Nat
        OBVIOUS
      <4>3. ASSUME f[<<x, y>>] # Found(a, x, y) PROVE k <= Size(x, y)
        <5>1. Size(x, y) \in Wrong
          BY <4>2, <4>3
        <5>2. QED
          BY <3>1, <5>1
      <4>4. QED
        BY <4>2, <4>3
    <3>4. i < j => /\ Size(i, (i + j) \div 2) < k
                   /\ Size((i + j) \div 2 + 1, j) < k
      <4>1. SUFFICES ASSUME i < j
                     PROVE  /\ Size(i, (i + j) \div 2) < k
                            /\ Size((i + j) \div 2 + 1, j) < k
        OBVIOUS
      <4> DEFINE h == (i + j) \div 2
      <4>2. h \in Nat /\ i <= h /\ h < j
        BY <4>1, Middle
      <4> HIDE DEF h
      <4>3. Size(i, h) < k /\ Size(h + 1, j) < k
        BY <3>2, <4>1, <4>2
      <4>4. QED
        BY <4>3 DEF h
    <3>5. i < j => /\ f[<<i, (i + j) \div 2>>] = Found(a, i, (i + j) \div 2)
                   /\ f[<<(i + j) \div 2 + 1, j>>] = Found(a, (i + j) \div 2 + 1, j)
      BY <1>4, <3>3, <3>4
    <3> HIDE DEF Wrong, Size, Solves
    <3>6. f[<<i, j>>] = SearchTurn(f, test, <<i, j>>)
      BY <1>2, <1>7 DEF Solves
    <3>7. SearchTurn(f, test, <<i, j>>) = Found(a, i, j)
      BY <1>5, <3>5
    <3>8. QED
      BY <3>2, <3>6, <3>7
  <2>2. \A i, j \in 0..n : f[<<i, j>>] = Found(a, i, j)
    <3>1. \A i, j \in 0..n : Size(i, j) \in Nat
      OBVIOUS
    <3>2. QED
      BY <2>1, <3>1
  <2>3. f = [r \in R |-> f[r]]
    BY <1>7
  <2>4. \A r \in R : f[r] = Found(a, r[1], r[2])
    BY <1>3, <2>2
  <2>5. QED
    BY <2>3, <2>4 DEF F
<1>8. SortSearch(test) = F[<<0, n>>]
  <2> DEFINE search == CHOOSE f : f = [r \in (0..Len(test)) \X (0..Len(test)) |->
                                          SearchTurn(f, test, r)]
  <2>1. search = F
    BY <1>6, <1>7 DEF R
  <2>2. SortSearch(test) = search[<<0, Len(test)>>]
    BY DEF SortSearch, SearchTurn
  <2>3. QED
    BY <2>1, <2>2
<1>9. F[<<0, n>>] = a
  <2>1. Found(a, 0, n) = a
    BY DEF Found
  <2>2. QED
    BY <1>2, <2>1
<1>10. QED
  BY <1>1, <1>8, <1>9

-------------------------------------------------------------------------------
(* The list of a set of segments. *)

Element == [index : Nat, ts : Int, gen : Nat, data : Slots]

EntryOf(segs, i) == [index |-> i, ts |-> segs[i].ts, gen |-> segs[i].gen, data |-> segs[i].data]

\* A list in the order of its indices.
Sorted(s) ==
    /\ s \in Seq(Element)
    /\ \A p, q \in 1..Len(s) : p < q => s[p].index < s[q].index

\* s is the list of the segments segs.
Lists(s, segs) ==
    /\ Sorted(s)
    /\ \A p \in 1..Len(s) : s[p].index \in DOMAIN segs /\ s[p] = EntryOf(segs, s[p].index)
    /\ \A i \in DOMAIN segs : \E p \in 1..Len(s) : s[p].index = i

\* Segments as the buffer holds them.
Buffered(segs) ==
    /\ DOMAIN segs \in SUBSET Nat /\ IsFiniteSet(DOMAIN segs)
    /\ \A i \in DOMAIN segs : EntryOf(segs, i) \in Element

\* How many elements of D there are up to i.
Rank(D, i) == Cardinality({j \in D : j <= i})

\* Ranks are in order, and each of them is taken.
LEMMA Ranks ==
    ASSUME NEW D \in SUBSET Nat, IsFiniteSet(D)
    PROVE  /\ Cardinality(D) \in Nat
           /\ \A i \in D : Rank(D, i) \in 1..Cardinality(D)
           /\ \A i, j \in D : i < j => Rank(D, i) < Rank(D, j)
           /\ \A p \in 1..Cardinality(D) : \E i \in D : Rank(D, i) = p
<1> DEFINE UpTo(i) == {j \in D : j <= i}
<1>1. Cardinality(D) \in Nat /\ \A i \in D : i \in Nat
  BY FS_CardinalityType
<1>2. \A i \in D : IsFiniteSet(UpTo(i)) /\ Cardinality(UpTo(i)) <= Cardinality(D)
  BY FS_Subset
<1>3. \A i \in D : Cardinality(UpTo(i)) \in Nat /\ (Cardinality(UpTo(i)) = 0 => UpTo(i) = {})
  BY <1>2, FS_CardinalityType, FS_EmptySet
<1>4. \A i \in D : i \in UpTo(i)
  BY <1>1
<1>5. ASSUME NEW i \in D PROVE Rank(D, i) \in 1..Cardinality(D)
  <2>1. UpTo(i) # {}
    BY <1>4
  <2>2. Cardinality(UpTo(i)) # 0
    BY <1>3, <2>1
  <2> HIDE DEF UpTo
  <2>3. Cardinality(UpTo(i)) \in 1..Cardinality(D)
    BY <1>1, <1>2, <1>3, <2>2
  <2>4. QED
    BY <2>3 DEF Rank, UpTo
<1>6. ASSUME NEW i \in D, NEW j \in D, i < j PROVE Rank(D, i) < Rank(D, j)
  <2>1. \A k \in D : k <= i => k <= j
    <3>1. i \in Nat /\ j \in Nat /\ \A k \in D : k \in Nat
      BY <1>1
    <3>2. QED
      BY <1>6, <3>1
  <2>2. UpTo(i) \subseteq UpTo(j) /\ j \in UpTo(j) /\ j \notin UpTo(i)
    <3>1. i \in Nat /\ j \in Nat
      BY <1>1
    <3>2. j <= j /\ ~(j <= i)
      BY <1>6, <3>1
    <3>3. QED
      BY <2>1, <3>2
  <2>3. Cardinality(UpTo(i)) <= Cardinality(UpTo(j)) /\ Cardinality(UpTo(i)) # Cardinality(UpTo(j))
    BY <1>2, <2>2, FS_Subset
  <2> HIDE DEF UpTo
  <2>4. Cardinality(UpTo(i)) < Cardinality(UpTo(j))
    BY <1>3, <2>3
  <2>5. QED
    BY <2>4 DEF Rank, UpTo
<1>7. ASSUME NEW p \in 1..Cardinality(D) PROVE \E i \in D : Rank(D, i) = p
  <2> DEFINE T == {i \in D : Rank(D, i) >= p}
  <2>1. T # {}
    <3>1. D # {}
      BY <1>7, FS_EmptySet
    <3>2. PICK m \in D : \A i \in D : i <= m
      BY <3>1, GreatestNatural
    <3>3. UpTo(m) = D
      BY <3>2
    <3>4. Rank(D, m) = Cardinality(D)
      BY <3>3 DEF Rank
    <3>5. QED
      BY <1>1, <1>7, <3>4
  <2>2. PICK i \in T : \A j \in T : i <= j
    BY <2>1, LeastNatural
  <2>3. i \in D /\ i \in Nat /\ Rank(D, i) \in Nat /\ Rank(D, i) >= p
    BY <1>5, <2>2
  <2>4. ASSUME Rank(D, i) > p PROVE FALSE
    <3> DEFINE B == UpTo(i) \ {i}
    <3>1. IsFiniteSet(B) /\ Cardinality(B) = Rank(D, i) - 1
      BY <1>2, <1>4, <2>3, FS_RemoveElement DEF Rank
    <3>2. B # {}
      BY <1>7, <2>3, <2>4, <3>1, FS_EmptySet
    <3>3. B \in SUBSET Nat
      BY <1>1
    <3>4. PICK k \in B : \A j \in B : j <= k
      BY <3>1, <3>2, <3>3, GreatestNatural
    <3>5. k \in D /\ k < i /\ UpTo(k) = B
      <4>1. k \in D /\ k < i /\ k \in Nat
        BY <1>1, <2>3, <3>4
      <4>2. \A j \in D : j <= k <=> j \in B
        BY <1>1, <2>3, <3>4, <4>1
      <4>3. QED
        BY <4>1, <4>2
    <3>6. Rank(D, k) = Rank(D, i) - 1
      BY <3>1, <3>5 DEF Rank
    <3>7. k \in T
      BY <1>7, <2>3, <2>4, <3>5, <3>6
    <3>8. k \in Nat /\ i <= k
      BY <2>2, <3>3, <3>7
    <3>9. QED
      BY <2>3, <3>5, <3>8
  <2>5. QED
    BY <1>7, <2>3, <2>4
<1>8. QED
  BY <1>1, <1>5, <1>6, <1>7

\* In a list, positions are ranks.
LEMMA PositionsAreRanks ==
    ASSUME NEW segs, Buffered(segs), NEW s, Lists(s, segs)
    PROVE  /\ Len(s) = Cardinality(DOMAIN segs) /\ Len(s) \in Nat
           /\ \A p \in 1..Len(s) : Rank(DOMAIN segs, s[p].index) = p
<1> DEFINE D == DOMAIN segs
<1>1. /\ Len(s) \in Nat
      /\ \A p \in 1..Len(s) : s[p].index \in D /\ s[p].index \in Nat
      /\ \A p, q \in 1..Len(s) : p < q => s[p].index < s[q].index
      /\ \A i \in D : \E p \in 1..Len(s) : s[p].index = i
      /\ IsFiniteSet(D)
  BY LenProperties DEF Lists, Sorted, Buffered
<1> HIDE DEF D
<1>2. \A p, q \in 1..Len(s) : s[p].index <= s[q].index <=> p <= q
  <2>1. TAKE p, q \in 1..Len(s)
  <2>2. p < q \/ p = q \/ q < p
    OBVIOUS
  <2>3. QED
    BY <1>1, <2>2
<1>3. ASSUME NEW p \in 1..Len(s) PROVE Rank(D, s[p].index) = p
  <2> DEFINE f == [q \in 1..p |-> s[q].index]
             T == {j \in D : j <= s[p].index}
  <2>1. \A q \in 1..p : q \in 1..Len(s)
    OBVIOUS
  <2>2. \A q \in 1..p : f[q] \in T
    BY <1>1, <1>2, <2>1
  <2>3. \A q, r \in 1..p : f[q] = f[r] => q = r
    <3>1. TAKE q, r \in 1..p
    <3>2. HAVE f[q] = f[r]
    <3>3. q <= r /\ r <= q
      BY <1>1, <1>2, <2>1, <3>2
    <3>4. QED
      BY <3>3
  <2>4. \A j \in T : \E q \in 1..p : f[q] = j
    <3>1. TAKE j \in T
    <3>2. PICK q \in 1..Len(s) : s[q].index = j
      BY <1>1
    <3>3. q <= p
      BY <1>2, <3>2
    <3>4. QED
      BY <3>2, <3>3
  <2>5. f \in Bijection(1..p, T)
    <3>1. f \in [1..p -> T]
      BY <2>2
    <3> HIDE DEF f, T
    <3>2. QED
      BY <2>3, <2>4, <3>1 DEF Bijection, Injection, Surjection, IsInjective
  <2>6. Cardinality(T) = Cardinality(1..p)
    BY <2>5, FS_Interval, FS_Bijection DEF ExistsBijection
  <2>7. Cardinality(1..p) = p
    BY FS_Interval
  <2>8. QED
    BY <2>6, <2>7 DEF Rank
<1>4. Len(s) = Cardinality(D)
  <2> DEFINE f == [q \in 1..Len(s) |-> s[q].index]
  <2>1. f \in [1..Len(s) -> D]
    BY <1>1
  <2>2. \A q, r \in 1..Len(s) : f[q] = f[r] => q = r
    <3>1. TAKE q, r \in 1..Len(s)
    <3>2. HAVE f[q] = f[r]
    <3>3. q <= r /\ r <= q
      BY <1>1, <1>2, <3>2
    <3>4. QED
      BY <3>3
  <2>3. \A j \in D : \E q \in 1..Len(s) : f[q] = j
    BY <1>1
  <2>4. f \in Bijection(1..Len(s), D)
    <3> HIDE DEF f
    <3>1. QED
      BY <2>1, <2>2, <2>3 DEF Bijection, Injection, Surjection, IsInjective
  <2>5. Cardinality(D) = Cardinality(1..Len(s))
    BY <2>4, FS_Interval, FS_Bijection DEF ExistsBijection
  <2>6. Cardinality(1..Len(s)) = Len(s)
    <3> DEFINE n == Len(s)
    <3>1. n \in Nat /\ n \in Int /\ 1 \in Int
      BY <1>1
    <3> HIDE DEF n
    <3>2. Cardinality(1..n) = IF 1 > n THEN 0 ELSE n - 1 + 1
      BY <3>1, FS_Interval
    <3>3. Cardinality(1..n) = n
      BY <3>1, <3>2
    <3>4. QED
      BY <3>3 DEF n
  <2>7. QED
    BY <2>5, <2>6
<1>5. QED
  BY <1>1, <1>3, <1>4 DEF D

\* A set of segments has one list, and it is Listed.
LEMMA ListedLists == ASSUME NEW segs, Buffered(segs) PROVE Lists(Listed(segs), segs)
<1> DEFINE D == DOMAIN segs
           n == Cardinality(D)
           at(p) == CHOOSE i \in D : Rank(D, i) = p
<1>1. /\ n \in Nat
      /\ \A i \in D : Rank(D, i) \in 1..n /\ i \in Nat
      /\ \A i, j \in D : i < j => Rank(D, i) < Rank(D, j)
      /\ \A p \in 1..n : \E i \in D : Rank(D, i) = p
  BY Ranks DEF Buffered
<1>2. \A p \in 1..n : at(p) \in D /\ Rank(D, at(p)) = p
  BY <1>1
<1>3. Listed(segs) = [p \in 1..n |-> EntryOf(segs, at(p))]
  BY DEF Listed, EntryOf, Rank
<1> HIDE DEF D, n, at
<1>4. \A p \in 1..n : EntryOf(segs, at(p)) \in Element
  BY <1>2 DEF Buffered, D
<1>5. Listed(segs) \in Seq(Element) /\ Len(Listed(segs)) = n
  BY <1>1, <1>3, <1>4
<1>6. \A p \in 1..n : Listed(segs)[p] = EntryOf(segs, at(p)) /\ Listed(segs)[p].index = at(p)
  BY <1>3 DEF EntryOf
<1>7. \A p, q \in 1..n : p < q => at(p) < at(q)
  <2>1. TAKE p, q \in 1..n
  <2>2. HAVE p < q
  <2>3. at(p) \in D /\ at(q) \in D /\ at(p) \in Nat /\ at(q) \in Nat
        /\ Rank(D, at(p)) = p /\ Rank(D, at(q)) = q
    BY <1>1, <1>2
  <2>4. ~(at(q) < at(p)) /\ at(q) # at(p)
    BY <1>1, <2>2, <2>3
  <2>5. QED
    BY <2>3, <2>4
<1>8. \A i \in D : \E p \in 1..n : at(p) = i
  <2>1. TAKE i \in D
  <2>2. Rank(D, i) \in 1..n
    BY <1>1
  <2>3. at(Rank(D, i)) \in D /\ Rank(D, at(Rank(D, i))) = Rank(D, i)
    BY <1>2, <2>2
  <2>4. at(Rank(D, i)) = i
    <3>1. i \in Nat /\ at(Rank(D, i)) \in Nat
      BY <1>1, <2>3
    <3>2. ~(at(Rank(D, i)) < i) /\ ~(i < at(Rank(D, i)))
      BY <1>1, <2>2, <2>3
    <3>3. QED
      BY <3>1, <3>2
  <2>5. QED
    BY <2>2, <2>4
<1>9. QED
  BY <1>2, <1>5, <1>6, <1>7, <1>8 DEF Lists, Sorted, D

\* There is no other list of the same segments.
LEMMA ListIsListed ==
    ASSUME NEW segs, Buffered(segs), NEW s, Lists(s, segs)
    PROVE  s = Listed(segs)
<1> DEFINE D == DOMAIN segs
           t == Listed(segs)
<1>1. Lists(t, segs)
  BY ListedLists
<1>2. /\ Len(s) = Cardinality(D) /\ Len(t) = Cardinality(D)
      /\ \A p \in 1..Len(s) : Rank(D, s[p].index) = p
      /\ \A p \in 1..Len(t) : Rank(D, t[p].index) = p
  BY <1>1, PositionsAreRanks
<1>3. ASSUME NEW p \in 1..Len(s) PROVE s[p] = t[p]
  <2>1. /\ s[p].index \in D /\ t[p].index \in D
        /\ s[p] = EntryOf(segs, s[p].index) /\ t[p] = EntryOf(segs, t[p].index)
        /\ s[p].index \in Nat /\ t[p].index \in Nat
    BY <1>1, <1>2, <1>3 DEF Lists, Buffered
  <2>2. Rank(D, s[p].index) = p /\ Rank(D, t[p].index) = p /\ p \in Nat
    BY <1>2, <1>3
  <2>3. \A i, j \in D : i < j => Rank(D, i) < Rank(D, j)
    BY Ranks DEF Buffered
  <2>4. ~(s[p].index < t[p].index) /\ ~(t[p].index < s[p].index)
    BY <2>1, <2>2, <2>3
  <2>5. QED
    BY <2>1, <2>4
<1>4. s \in Seq(Element) /\ t \in Seq(Element)
  BY <1>1 DEF Lists, Sorted
<1>5. QED
  BY <1>2, <1>3, <1>4, SeqEqual

\* Part of the segments.
Only(segs, K) == [i \in K |-> segs[i]]

\* A list of a part of the segments holds their entries.
LEMMA OnlyLists ==
    ASSUME NEW segs, NEW K \in SUBSET DOMAIN segs, NEW s, Sorted(s),
           \A p \in 1..Len(s) : s[p].index \in K /\ s[p] = EntryOf(segs, s[p].index),
           \A i \in K : \E p \in 1..Len(s) : s[p].index = i
    PROVE  Lists(s, Only(segs, K))
<1>1. DOMAIN Only(segs, K) = K /\ \A i \in K : EntryOf(Only(segs, K), i) = EntryOf(segs, i)
  BY DEF Only, EntryOf
<1>2. QED
  BY <1>1 DEF Lists

\* A part of the segments is buffered as the whole is.
LEMMA OnlyBuffered ==
    ASSUME NEW segs, Buffered(segs), NEW K \in SUBSET DOMAIN segs
    PROVE  Buffered(Only(segs, K))
<1>1. DOMAIN Only(segs, K) = K /\ \A i \in K : EntryOf(Only(segs, K), i) = EntryOf(segs, i)
  BY DEF Only, EntryOf
<1>2. IsFiniteSet(K)
  BY FS_Subset DEF Buffered
<1>3. QED
  BY <1>1, <1>2 DEF Buffered

\* What is known of a list.
LEMMA ListFacts ==
    ASSUME NEW segs, Buffered(segs), NEW s, Lists(s, segs)
    PROVE  /\ s \in Seq(Element) /\ Len(s) \in Nat /\ DOMAIN s = 1..Len(s)
           /\ \A p \in 1..Len(s) : /\ s[p].index \in DOMAIN segs /\ s[p] = EntryOf(segs, s[p].index)
                                   /\ s[p] \in Element
                                   /\ s[p].index \in Nat /\ s[p].ts \in Int /\ s[p].gen \in Nat
           /\ \A p, q \in 1..Len(s) : s[p].index <= s[q].index <=> p <= q
           /\ \A p, q \in 1..Len(s) : s[p].index < s[q].index <=> p < q
           /\ \A i \in DOMAIN segs : \E p \in 1..Len(s) : s[p].index = i
<1>1. s \in Seq(Element) /\ Len(s) \in Nat /\ DOMAIN s = 1..Len(s)
  BY LenProperties DEF Lists, Sorted
<1>2. \A p \in 1..Len(s) : s[p] \in Element
  BY <1>1, ElementOfSeq
<1>3. \A p \in 1..Len(s) : s[p].index \in Nat /\ s[p].ts \in Int /\ s[p].gen \in Nat
  BY <1>2 DEF Element
<1>4. \A p, q \in 1..Len(s) : p < q => s[p].index < s[q].index
  BY DEF Lists, Sorted
<1>5. ASSUME NEW p \in 1..Len(s), NEW q \in 1..Len(s)
      PROVE  (s[p].index <= s[q].index <=> p <= q) /\ (s[p].index < s[q].index <=> p < q)
  <2>1. p \in Nat /\ q \in Nat /\ (p < q \/ p = q \/ q < p)
    BY <1>1
  <2>2. p = q => s[p].index = s[q].index
    OBVIOUS
  <2>3. s[p].index \in Nat /\ s[q].index \in Nat
    BY <1>3
  <2>4. QED
    BY <1>4, <2>1, <2>2, <2>3
<1>6. QED
  BY <1>1, <1>2, <1>3, <1>5 DEF Lists

-------------------------------------------------------------------------------
(* The two binary searches. *)

\* The insertion point separates the smaller indices from the others.
LEMMA InsertionPointSeparates ==
    ASSUME NEW segs, Buffered(segs), NEW s, Lists(s, segs), NEW index \in Nat
    PROVE  /\ InsertionPoint(s, index) \in 0..Len(s)
           /\ \A p \in 1..Len(s) : s[p].index >= index <=> p > InsertionPoint(s, index)
<1> DEFINE test == [p \in 1..Len(s) |-> s[p].index >= index]
<1>1. /\ Len(s) \in Nat /\ DOMAIN s = 1..Len(s)
      /\ \A p \in 1..Len(s) : s[p].index \in Nat
      /\ \A p, q \in 1..Len(s) : s[p].index <= s[q].index <=> p <= q
  BY ListFacts
<1>2. Len(test) = Len(s) /\ \A p \in 1..Len(s) : test[p] = (s[p].index >= index)
  BY <1>1
<1>3. \A p \in 1..Len(s) : test[p] \in BOOLEAN
  BY <1>2
<1>4. \A p, q \in 1..Len(s) : p <= q /\ test[p] => test[q]
  <2>1. TAKE p, q \in 1..Len(s)
  <2>2. s[p].index \in Nat /\ s[q].index \in Nat /\ (p <= q => s[p].index <= s[q].index)
    BY <1>1
  <2>3. (test[p] <=> s[p].index >= index) /\ (test[q] <=> s[q].index >= index)
    BY <1>2
  <2> HIDE DEF test
  <2>4. QED
    BY <2>2, <2>3
<1>5. InsertionPoint(s, index) = SortSearch(test)
  BY <1>1 DEF InsertionPoint
<1> HIDE DEF test
<1>6. SortSearch(test) \in 0..Len(s) /\ \A p \in 1..Len(s) : test[p] <=> p > SortSearch(test)
  BY <1>1, <1>2, <1>3, <1>4, SearchFinds
<1>7. QED
  BY <1>2, <1>5, <1>6

\* A lookup finds exactly the segments that are there.
LEMMA LookupFinds ==
    ASSUME NEW segs, Buffered(segs), NEW s, Lists(s, segs), NEW index \in Nat
    PROVE  FoundInSlice(s, index) <=> index \in DOMAIN segs
<1> DEFINE at == InsertionPoint(s, index)
<1>1. at \in 0..Len(s) /\ \A p \in 1..Len(s) : s[p].index >= index <=> p > at
  BY InsertionPointSeparates
<1>2. /\ Len(s) \in Nat
      /\ \A p \in 1..Len(s) : s[p].index \in DOMAIN segs /\ s[p].index \in Nat
      /\ \A p, q \in 1..Len(s) : s[p].index <= s[q].index <=> p <= q
      /\ \A i \in DOMAIN segs : \E p \in 1..Len(s) : s[p].index = i
  <2>1. Len(s) \in Nat
    BY ListFacts
  <2>2. \A p \in 1..Len(s) : s[p].index \in DOMAIN segs /\ s[p].index \in Nat
    BY ListFacts
  <2>3. \A p, q \in 1..Len(s) : s[p].index <= s[q].index <=> p <= q
    BY ListFacts
  <2>4. \A i \in DOMAIN segs : \E p \in 1..Len(s) : s[p].index = i
    BY ListFacts
  <2>5. QED
    BY <2>1, <2>2, <2>3, <2>4
<1>3. FoundInSlice(s, index) <=> at < Len(s) /\ s[at + 1].index = index
  BY DEF FoundInSlice
<1> HIDE DEF at
<1>4. ASSUME at < Len(s), s[at + 1].index = index PROVE index \in DOMAIN segs
  <2>1. at + 1 \in 1..Len(s)
    BY <1>1, <1>2, <1>4
  <2>2. QED
    BY <1>2, <1>4, <2>1
<1>5. ASSUME index \in DOMAIN segs PROVE at < Len(s) /\ s[at + 1].index = index
  <2>1. PICK p \in 1..Len(s) : s[p].index = index
    BY <1>2, <1>5
  <2>2. p > at
    BY <1>1, <2>1
  <2>3. at + 1 \in 1..Len(s) /\ at + 1 <= p /\ at < Len(s) /\ at + 1 > at
    BY <1>1, <1>2, <2>2
  <2>4. s[at + 1].index >= index
    BY <1>1, <2>3
  <2>5. s[at + 1].index <= index
    BY <1>2, <2>1, <2>3
  <2>6. s[at + 1].index \in Nat
    BY <1>2, <2>3
  <2>7. QED
    BY <2>3, <2>4, <2>5, <2>6
<1>6. QED
  BY <1>3, <1>4, <1>5

-------------------------------------------------------------------------------
(* Eviction. *)

\* The segments of the buffer are buffered.
LEMMA SegmentsBuffered == ASSUME IInv PROVE Buffered(segments)
<1>1. DOMAIN segments \in SUBSET Nat /\ IsFiniteSet(DOMAIN segments)
  BY BufferFacts
<1>2. \A i \in DOMAIN segments : i \in Nat /\ segments[i].ts \in Int /\ segments[i].gen \in Nat
  BY BufferFacts
<1>3. \A i \in DOMAIN segments : segments[i].data \in Slots
  BY DEF IInv, TypeOK, Segment
<1>4. QED
  BY <1>1, <1>2, <1>3 DEF Buffered, EntryOf, Element

\* A count upwards that ends at the first stop: it exists, and ends there.
LEMMA CountsToStop ==
    ASSUME NEW lo \in Nat, NEW n \in Nat, lo <= n, NEW stops,
           \A i \in lo..n : stops[i] \in BOOLEAN, stops[n]
    PROVE  /\ \E f : f = [i \in lo..n |-> IF stops[i] THEN i ELSE f[i + 1]]
           /\ \A f : f = [i \in lo..n |-> IF stops[i] THEN i ELSE f[i + 1]] =>
                 /\ f[lo] \in lo..n /\ stops[f[lo]]
                 /\ \A k \in lo..n : k < f[lo] => ~stops[k]
<1> DEFINE Ends(i, m) == /\ m \in i..n /\ stops[m]
                         /\ \A k \in i..n : stops[k] => m <= k
           F == [i \in lo..n |-> CHOOSE m \in Nat : Ends(i, m)]
<1>1. \A i \in lo..n : \E m \in Nat : Ends(i, m)
  <2>1. TAKE i \in lo..n
  <2> DEFINE T == {k \in i..n : stops[k]}
  <2>2. n \in T /\ T \in SUBSET Nat
    OBVIOUS
  <2>3. PICK m \in T : \A k \in T : m <= k
    BY <2>2, LeastNatural
  <2>4. m \in Nat /\ Ends(i, m)
    BY <2>2, <2>3
  <2>5. QED
    BY <2>4
<1>2. \A i \in lo..n : \A l, m \in Nat : Ends(i, l) /\ Ends(i, m) => l = m
  <2>1. TAKE i \in lo..n
  <2>2. TAKE l, m \in Nat
  <2>3. HAVE Ends(i, l) /\ Ends(i, m)
  <2>4. l <= m /\ m <= l
    BY <2>3
  <2>5. QED
    BY <2>4
<1>3. \A i \in lo..n : stops[i] => Ends(i, i)
  OBVIOUS
<1>4. \A i \in lo..n : \A m \in Nat : ~stops[i] => i + 1 \in lo..n /\ (Ends(i + 1, m) <=> Ends(i, m))
  <2>1. TAKE i \in lo..n
  <2>2. TAKE m \in Nat
  <2>3. HAVE ~stops[i]
  <2>4. i # n /\ i + 1 \in lo..n
    BY <2>3
  <2>5. \A k \in i..n : stops[k] => k \in (i + 1)..n
    BY <2>3
  <2>6. \A k \in (i + 1)..n : k \in i..n
    BY <2>4
  <2>7. QED
    BY <2>4, <2>5, <2>6
<1> HIDE DEF Ends
<1>5. \A i \in lo..n : F[i] \in Nat /\ Ends(i, F[i])
  BY <1>1
<1> HIDE DEF F
<1>6. F = [i \in lo..n |-> IF stops[i] THEN i ELSE F[i + 1]]
  <2>1. ASSUME NEW i \in lo..n PROVE F[i] = IF stops[i] THEN i ELSE F[i + 1]
    <3>1. CASE stops[i]
      BY <1>2, <1>3, <1>5, <3>1
    <3>2. CASE ~stops[i]
      <4>1. i + 1 \in lo..n /\ (Ends(i + 1, F[i]) <=> Ends(i, F[i]))
        BY <1>4, <1>5, <3>2
      <4>2. F[i] = F[i + 1]
        BY <1>2, <1>5, <4>1
      <4>3. QED
        BY <3>2, <4>2
    <3>3. QED
      BY <3>1, <3>2
  <2>2. F = [i \in lo..n |-> F[i]]
    BY DEF F
  <2>3. QED
    BY <2>1, <2>2
<1>7. ASSUME NEW f, f = [i \in lo..n |-> IF stops[i] THEN i ELSE f[i + 1]]
      PROVE  f[lo] \in Nat /\ Ends(lo, f[lo])
  <2> DEFINE Wrong == {i \in lo..n : ~(f[i] \in Nat /\ Ends(i, f[i]))}
  <2>1. ASSUME Wrong # {} PROVE FALSE
    <3>1. Wrong \in SUBSET Nat /\ IsFiniteSet(Wrong)
      <4>1. IsFiniteSet(lo..n)
        BY FS_Interval
      <4>2. Wrong \in SUBSET (lo..n) /\ Wrong \in SUBSET Nat
        OBVIOUS
      <4>3. QED
        BY <4>1, <4>2, FS_Subset
    <3>2. PICK i \in Wrong : \A k \in Wrong : k <= i
      BY <2>1, <3>1, GreatestNatural
    <3>3. i \in lo..n /\ f[i] = IF stops[i] THEN i ELSE f[i + 1]
      BY <1>7, <3>2
    <3>4. ~stops[i]
      BY <1>3, <3>2, <3>3
    <3>5. i + 1 \in lo..n /\ \A m \in Nat : Ends(i + 1, m) <=> Ends(i, m)
      BY <1>4, <3>3, <3>4
    <3>6. i + 1 \notin Wrong
      BY <3>1, <3>2, <3>3
    <3>7. f[i + 1] \in Nat /\ Ends(i + 1, f[i + 1])
      BY <3>5, <3>6
    <3>8. f[i] \in Nat /\ Ends(i, f[i])
      BY <3>3, <3>4, <3>5, <3>7
    <3>9. QED
      BY <3>2, <3>8
  <2>2. lo \in lo..n
    OBVIOUS
  <2>3. QED
    BY <2>1, <2>2
<1>8. QED
  <2>1. ASSUME NEW f, f = [i \in lo..n |-> IF stops[i] THEN i ELSE f[i + 1]]
        PROVE  /\ f[lo] \in lo..n /\ stops[f[lo]]
               /\ \A k \in lo..n : k < f[lo] => ~stops[k]
    <3>1. f[lo] \in Nat /\ Ends(lo, f[lo])
      BY <1>7, <2>1
    <3>2. f[lo] \in lo..n /\ stops[f[lo]] /\ \A k \in lo..n : stops[k] => f[lo] <= k
      BY <3>1 DEF Ends
    <3>3. \A k \in lo..n : k \in Nat
      OBVIOUS
    <3>4. QED
      BY <3>1, <3>2, <3>3
  <2>2. QED
    BY <1>6, <2>1

\* Cutting off the front of a list leaves a list.
LEMMA TailLists ==
    ASSUME NEW segs, Buffered(segs), NEW s, Lists(s, segs), NEW c \in 0..Len(s),
           NEW K \in SUBSET DOMAIN segs, \A p \in 1..Len(s) : s[p].index \in K <=> p > c
    PROVE  Lists(SubSeq(s, c + 1, Len(s)), Only(segs, K))
<1> DEFINE n == Len(s)
           t == SubSeq(s, c + 1, n)
<1>1. /\ s \in Seq(Element) /\ n \in Nat
      /\ \A p \in 1..n : s[p] = EntryOf(segs, s[p].index)
      /\ \A p, q \in 1..n : s[p].index < s[q].index <=> p < q
      /\ \A i \in DOMAIN segs : \E p \in 1..n : s[p].index = i
  BY ListFacts
<1>2. t \in Seq(Element) /\ Len(t) = n - c /\ \A p \in 1..(n - c) : t[p] = s[c + p]
  <2>1. \A p \in (c + 1)..n : s[p] \in Element
    BY <1>1, ElementOfSeq
  <2>2. t = [p \in 1..(n - c) |-> s[c + p]]
    <3>1. n - (c + 1) + 1 = n - c /\ \A p \in 1..(n - c) : (c + 1) + p - 1 = c + p
      BY <1>1
    <3>2. t = [p \in 1..(n - (c + 1) + 1) |-> s[p + (c + 1) - 1]]
      OBVIOUS
    <3>3. QED
      BY <1>1, <3>1, <3>2
  <2>3. \A p \in 1..(n - c) : c + p \in (c + 1)..n
    BY <1>1
  <2>4. n - c \in Nat
    BY <1>1
  <2> HIDE DEF t, n
  <2>5. QED
    BY <2>1, <2>2, <2>3, <2>4
<1>3. \A p \in 1..(n - c) : c + p \in 1..n /\ c + p > c
  BY <1>1
<1>4. Sorted(t)
  <2>1. \A p, q \in 1..(n - c) : p < q => t[p].index < t[q].index
    <3>1. TAKE p, q \in 1..(n - c)
    <3>2. HAVE p < q
    <3>3. c + p < c + q
      BY <3>2
    <3>4. s[c + p].index < s[c + q].index
      BY <1>1, <1>3, <3>3
    <3> HIDE DEF t, n
    <3>5. QED
      BY <1>2, <3>4
  <2>2. QED
    BY <1>2, <2>1 DEF Sorted
<1> HIDE DEF t
<1>5. \A p \in 1..Len(t) : t[p].index \in K /\ t[p] = EntryOf(segs, t[p].index)
  BY <1>1, <1>2, <1>3
<1>6. \A i \in K : \E p \in 1..Len(t) : t[p].index = i
  <2>1. TAKE i \in K
  <2>2. PICK p \in 1..n : s[p].index = i
    BY <1>1
  <2>3. p > c
    BY <2>2
  <2>4. p - c \in 1..(n - c) /\ c + (p - c) = p
    BY <1>1, <2>3
  <2>5. t[p - c].index = i
    BY <1>2, <2>2, <2>4
  <2>6. QED
    BY <1>2, <2>4, <2>5
<1>7. QED
  BY <1>4, <1>5, <1>6, OnlyLists DEF t

\* The list is in the order of the timestamps too.
LEMMA TimesSorted ==
    ASSUME IInv, NEW s, Lists(s, segments), NEW p \in 1..Len(s), NEW q \in 1..Len(s), p < q
    PROVE  s[p].ts < s[q].ts
<1>1. /\ s[p].index \in DOMAIN segments /\ s[q].index \in DOMAIN segments
      /\ s[p] = EntryOf(segments, s[p].index) /\ s[q] = EntryOf(segments, s[q].index)
      /\ s[p].index < s[q].index
  BY SegmentsBuffered, ListFacts
<1>2. segments[s[p].index].ts < segments[s[q].index].ts
  BY <1>1 DEF IInv, Ordered
<1>3. \A i : EntryOf(segments, i).ts = segments[i].ts
  BY DEF EntryOf
<1>4. QED
  BY <1>1, <1>2, <1>3

\* The number of segments between two positions of a list.
LEMMA CountBetween ==
    ASSUME NEW segs, Buffered(segs), NEW s, Lists(s, segs), NEW p \in 1..Len(s), NEW b \in 0..Len(s),
           p <= b, NEW T, \A i \in T : \E q \in 1..Len(s) : s[q].index = i,
           \A q \in 1..Len(s) : s[q].index \in T <=> p <= q /\ q <= b
    PROVE  Cardinality(T) = b - p + 1
<1> DEFINE f == [q \in p..b |-> s[q].index]
<1>1. Len(s) \in Nat /\ \A q, r \in 1..Len(s) : s[q].index <= s[r].index <=> q <= r
  BY ListFacts
<1>2. \A q \in 1..Len(s) : s[q].index \in Nat
  BY ListFacts
<1>3. \A q \in p..b : q \in 1..Len(s) /\ p <= q /\ q <= b
  BY <1>1
<1>4. f \in [p..b -> T]
  BY <1>3
<1>5. \A q, r \in p..b : f[q] = f[r] => q = r
  <2>1. TAKE q, r \in p..b
  <2>2. HAVE f[q] = f[r]
  <2>3. s[q].index <= s[r].index /\ s[r].index <= s[q].index
    BY <1>2, <1>3, <2>2
  <2>4. q <= r /\ r <= q
    BY <1>1, <1>3, <2>3
  <2>5. QED
    BY <2>4
<1>6. \A i \in T : \E q \in p..b : f[q] = i
  <2>1. TAKE i \in T
  <2>2. PICK q \in 1..Len(s) : s[q].index = i
    OBVIOUS
  <2>3. q \in p..b
    BY <1>1, <2>2
  <2>4. QED
    BY <2>2, <2>3
<1>7. f \in Bijection(p..b, T)
  <2> HIDE DEF f
  <2>1. QED
    BY <1>4, <1>5, <1>6 DEF Bijection, Injection, Surjection, IsInjective
<1>8. IsFiniteSet(p..b) /\ Cardinality(p..b) = b - p + 1
  BY FS_Interval
<1>9. QED
  BY <1>7, <1>8, FS_Bijection DEF ExistsBijection

\* Eviction leaves a list of exactly the segments that Stream retains.
LEMMA EvictedLists ==
    ASSUME IInv, NEW s, Lists(s, segments)
    PROVE  Lists(EvictedSlice(s), Only(segments, Retained))
<1> DEFINE n == Len(s)
           test == [p \in 1..n |-> s[p].ts >= now]
           b == SortSearch(test)
           excess == b - BackwardBufferSize
           unread(p) == readers[s[p].data] = 0
<1>1. /\ n \in Nat /\ DOMAIN s = 1..n /\ Sorted(s)
      /\ \A p \in 1..n : /\ s[p].index \in DOMAIN segments /\ s[p] = EntryOf(segments, s[p].index)
                         /\ s[p].index \in Nat /\ s[p].ts \in Int
      /\ \A p, q \in 1..n : s[p].index <= s[q].index <=> p <= q
      /\ \A p, q \in 1..n : s[p].index < s[q].index <=> p < q
      /\ \A i \in DOMAIN segments : \E p \in 1..n : s[p].index = i
  BY SegmentsBuffered, ListFacts DEF Lists
<1>2. /\ now \in Int /\ BackwardBufferSize \in Nat \ {0}
      /\ \A p \in 1..n : /\ segments[s[p].index].ts = s[p].ts /\ segments[s[p].index].data = s[p].data
                         /\ readers[s[p].data] \in Nat
  <2>1. \A p \in 1..n : segments[s[p].index].ts = s[p].ts /\ segments[s[p].index].data = s[p].data
    BY <1>1 DEF EntryOf
  <2>2. \A i \in DOMAIN segments : readers[segments[i].data] \in Nat
    BY DEF IInv, TypeOK, Segment
  <2>3. now \in Int /\ BackwardBufferSize \in Nat \ {0}
    BY BufferFacts
  <2>4. \A p \in 1..n : readers[s[p].data] \in Nat
    <3>1. TAKE p \in 1..n
    <3>2. s[p].index \in DOMAIN segments
      BY <1>1
    <3>3. readers[segments[s[p].index].data] \in Nat
      BY <2>2, <3>2
    <3>4. QED
      BY <2>1, <3>3
  <2>5. QED
    BY <2>1, <2>3, <2>4
<1>3. Len(test) = n /\ \A p \in 1..n : test[p] = (s[p].ts >= now)
  BY <1>1
<1>4. \A p, q \in 1..n : p <= q /\ test[p] => test[q]
  <2>1. TAKE p, q \in 1..n
  <2>2. HAVE p <= q /\ test[p]
  <2>3. CASE p = q
    BY <2>2, <2>3
  <2>4. CASE p # q
    <3>1. p < q
      BY <1>1, <2>2, <2>4
    <3>2. s[p].ts < s[q].ts
      BY <3>1, TimesSorted
    <3>3. s[p].ts >= now
      BY <1>3, <2>2
    <3>4. s[q].ts >= now
      BY <1>1, <1>2, <3>2, <3>3
    <3>5. QED
      BY <1>3, <3>4
  <2>5. QED
    BY <2>3, <2>4
<1>5. b \in 0..n /\ \A p \in 1..n : s[p].ts >= now <=> p > b
  <2>1. \A p \in 1..n : test[p] \in BOOLEAN
    BY <1>3
  <2> HIDE DEF test
  <2>2. b \in 0..n /\ \A p \in 1..n : test[p] <=> p > b
    BY <1>1, <1>3, <1>4, <2>1, SearchFinds
  <2>3. QED
    BY <1>3, <2>2
<1>6. EvictedSlice(s) =
         LET evictCount[i \in 0..excess] ==
                 IF i = excess \/ readers[s[i + 1].data] > 0 THEN i ELSE evictCount[i + 1]
         IN  IF excess <= 0 THEN s ELSE SubSeq(s, evictCount[0] + 1, n)
  BY <1>1 DEF EvictedSlice
<1> HIDE DEF n, test, b
<1>7. \A p \in 1..n : s[p].index \in Backward <=> p <= b
  <2>1. TAKE p \in 1..n
  <2>2. s[p].index \in Backward <=> s[p].ts < now
    BY <1>1, <1>2 DEF Backward
  <2>3. s[p].ts < now <=> ~(s[p].ts >= now)
    BY <1>1, <1>2
  <2>4. QED
    BY <1>5, <2>2, <2>3
<1>8. \A p \in 1..n : p <= b => Cardinality({j \in Backward : j >= s[p].index}) = b - p + 1
  <2>1. TAKE p \in 1..n
  <2>2. HAVE p <= b
  <2> DEFINE T == {j \in Backward : j >= s[p].index}
  <2>3. \A i \in T : \E q \in 1..n : s[q].index = i
    BY <1>1 DEF Backward
  <2>4. \A q \in 1..n : s[q].index \in T <=> p <= q /\ q <= b
    BY <1>1, <1>7
  <2> HIDE DEF T
  <2>5. Cardinality(T) = b - p + 1
    <3>1. Buffered(segments) /\ p \in 1..Len(s) /\ b \in 0..Len(s) /\ p <= b
      BY <1>5, <2>2, SegmentsBuffered DEF n
    <3>2. /\ \A i \in T : \E q \in 1..Len(s) : s[q].index = i
          /\ \A q \in 1..Len(s) : s[q].index \in T <=> p <= q /\ q <= b
      BY <2>3, <2>4 DEF n
    <3>3. QED
      BY <3>1, <3>2, CountBetween
  <2>6. QED
    BY <2>5 DEF T
<1>9. \A p \in 1..n : s[p].index \in Evicted <=> p <= excess /\ \A q \in 1..p : unread(q)
  <2>1. TAKE p \in 1..n
  <2>2. s[p].index \in Evicted
          <=> /\ p <= b
              /\ Cardinality({j \in Backward : j >= s[p].index}) > BackwardBufferSize
              /\ \A j \in Backward : j <= s[p].index => readers[segments[j].data] = 0
    BY <1>7 DEF Evicted
  <2>3. p <= b => (Cardinality({j \in Backward : j >= s[p].index}) > BackwardBufferSize
                     <=> p <= excess)
    <3>1. HAVE p <= b
    <3>2. Cardinality({j \in Backward : j >= s[p].index}) = b - p + 1
      BY <1>8, <3>1
    <3>3. b - p + 1 > BackwardBufferSize <=> p <= excess
      BY <1>1, <1>2, <1>5
    <3>4. QED
      BY <3>2, <3>3
  <2>4. p <= excess => p <= b
    BY <1>1, <1>2, <1>5
  <2>5. p <= b => ((\A j \in Backward : j <= s[p].index => readers[segments[j].data] = 0)
                     <=> \A q \in 1..p : unread(q))
    <3>1. HAVE p <= b
    <3>2. ASSUME \A j \in Backward : j <= s[p].index => readers[segments[j].data] = 0,
                 NEW q \in 1..p
          PROVE  unread(q)
      <4>1. q \in 1..n /\ q <= p /\ q <= b
        BY <1>1, <1>5, <3>1
      <4>2. s[q].index \in Backward /\ s[q].index <= s[p].index
        BY <1>1, <1>7, <4>1
      <4>3. QED
        BY <1>2, <3>2, <4>1, <4>2
    <3>3. ASSUME \A q \in 1..p : unread(q), NEW j \in Backward, j <= s[p].index
          PROVE  readers[segments[j].data] = 0
      <4>1. PICK q \in 1..n : s[q].index = j
        BY <1>1 DEF Backward
      <4>2. q <= p
        BY <1>1, <3>3, <4>1
      <4>3. q \in 1..p
        BY <1>1, <4>2
      <4>4. QED
        BY <1>2, <3>3, <4>1, <4>3
    <3>4. QED
      BY <3>2, <3>3
  <2>6. QED
    BY <2>2, <2>3, <2>4, <2>5
<1>10. ASSUME NEW c \in 0..n, \A p \in 1..n : s[p].index \in Evicted <=> p <= c
       PROVE  Lists(SubSeq(s, c + 1, n), Only(segments, Retained))
  <2>1. Retained \in SUBSET DOMAIN segments
    BY DEF Retained
  <2>2. \A p \in 1..n : s[p].index \in Retained <=> p > c
    <3>1. TAKE p \in 1..n
    <3>2. s[p].index \in Retained <=> ~(s[p].index \in Evicted)
      BY <1>1 DEF Retained
    <3>3. p > c <=> ~(p <= c)
      OBVIOUS
    <3>4. QED
      BY <1>10, <3>2, <3>3
  <2>3. QED
    BY <2>1, <2>2, TailLists, SegmentsBuffered DEF n
<1> HIDE DEF excess
<1>11. excess \in Int /\ excess <= b
  BY <1>1, <1>2, <1>5 DEF excess
<1>12. CASE excess <= 0
  <2>1. \A p \in 1..n : ~(p <= excess)
    BY <1>11, <1>12
  <2>2. \A p \in 1..n : s[p].index \notin Evicted
    BY <1>9, <2>1
  <2>3. Evicted \subseteq DOMAIN segments
    BY DEF Evicted, Backward
  <2>4. Evicted = {}
    BY <1>1, <2>2, <2>3
  <2>5. Retained = DOMAIN segments
    BY <2>4 DEF Retained
  <2>6. Lists(s, Only(segments, Retained))
    <3>1. Only(segments, Retained) = [i \in DOMAIN segments |-> segments[i]]
      BY <2>5 DEF Only
    <3>2. segments = [i \in DOMAIN segments |-> segments[i]]
      BY DEF IInv, TypeOK
    <3>3. QED
      BY <3>1, <3>2
  <2>7. QED
    BY <1>6, <1>12, <2>6
<1>13. CASE ~(excess <= 0)
  <2> DEFINE stops == [i \in 0..excess |-> i = excess \/ readers[s[i + 1].data] > 0]
             Counts(f) == f = [i \in 0..excess |-> IF stops[i] THEN i ELSE f[i + 1]]
             evictCount == CHOOSE f : f = [i \in 0..excess |->
                              IF i = excess \/ readers[s[i + 1].data] > 0 THEN i ELSE f[i + 1]]
  <2>1. excess \in Nat
    BY <1>11, <1>13
  <2>2. /\ \A i \in 0..excess :
              /\ stops[i] \in BOOLEAN
              /\ stops[i] <=> (i = excess \/ readers[s[i + 1].data] > 0)
        /\ stops[excess]
    <3>1. \A i \in 0..excess : stops[i] = (i = excess \/ readers[s[i + 1].data] > 0)
      OBVIOUS
    <3> HIDE DEF stops
    <3>2. excess \in 0..excess
      BY <2>1
    <3>3. QED
      BY <3>1, <3>2
  <2>3. \A f : (f = [i \in 0..excess |->
                        IF i = excess \/ readers[s[i + 1].data] > 0 THEN i ELSE f[i + 1]])
               <=> Counts(f)
    BY <2>2
  <2> HIDE DEF stops
  <2>4. /\ \E f : Counts(f)
        /\ \A f : Counts(f) => /\ f[0] \in 0..excess /\ stops[f[0]]
                               /\ \A k \in 0..excess : k < f[0] => ~stops[k]
    BY <2>1, <2>2, CountsToStop
  <2> HIDE DEF Counts
  <2>5. Counts(evictCount)
    BY <2>3, <2>4
  <2>6. EvictedSlice(s) = SubSeq(s, evictCount[0] + 1, n)
    BY <1>6, <1>13
  <2> HIDE DEF evictCount
  <2> DEFINE c == evictCount[0]
  <2>7. c \in 0..excess /\ stops[c] /\ \A k \in 0..excess : k < c => ~stops[k]
    BY <2>4, <2>5
  <2>8. c \in 0..n
    BY <1>1, <1>5, <1>11, <2>1, <2>7
  <2> HIDE DEF c
  <2>9. ASSUME NEW p \in 1..n PROVE s[p].index \in Evicted <=> p <= c
    <3>1. ASSUME p <= c PROVE p <= excess /\ \A q \in 1..p : unread(q)
      <4>1. p <= excess
        BY <2>1, <2>7, <3>1
      <4>2. ASSUME NEW q \in 1..p PROVE unread(q)
        <5>1. q - 1 \in 0..excess /\ q - 1 < c /\ q - 1 # excess /\ (q - 1) + 1 = q /\ q \in 1..n
          BY <1>1, <2>1, <2>7, <3>1
        <5>2. ~stops[q - 1]
          BY <2>7, <5>1
        <5>3. ~(readers[s[q].data] > 0)
          BY <2>2, <5>1, <5>2
        <5>4. readers[s[q].data] \in Nat
          BY <1>2, <5>1
        <5>5. QED
          BY <5>3, <5>4
      <4>3. QED
        BY <4>1, <4>2
    <3>2. ASSUME p <= excess, \A q \in 1..p : unread(q) PROVE p <= c
      <4>1. ASSUME ~(p <= c) PROVE FALSE
        <5>1. c + 1 \in 1..p /\ c # excess
          BY <2>1, <2>7, <3>2, <4>1
        <5>2. readers[s[c + 1].data] = 0
          BY <3>2, <5>1
        <5>3. readers[s[c + 1].data] > 0
          BY <2>2, <2>7, <5>1
        <5>4. QED
          BY <5>2, <5>3
      <4>2. QED
        BY <4>1
    <3>3. QED
      BY <1>9, <3>1, <3>2
  <2>10. QED
    BY <1>10, <2>6, <2>8, <2>9 DEF c
<1>14. QED
  BY <1>12, <1>13

-------------------------------------------------------------------------------
(* The drop of a stale generation. *)

\* One turn of the pass: the backing array and the write cursor, from what the
\* turn before left.
DropTurn(n, before, r, generation) ==
    IF before.s[r].gen < generation THEN before
    ELSE [s |-> [p \in 1..n |-> before.s[IF p = before.w + 1 THEN r ELSE p]],
          w |-> before.w + 1]

Kept(s, q, from, generation) == q <= from \/ s[q].gen >= generation

\* K holds the indices of the segments kept, of those s lists.
Keeps(s, K, from, generation) ==
    \A p \in 1..Len(s) : s[p].index \in K <=> Kept(s, p, from, generation)

\* What the pass has done when its read cursor is at r: the entries up to the
\* write cursor are the kept ones in their order, the others are untouched.
PassedTo(s, x, r, from, generation) ==
    /\ x.s \in [1..Len(s) -> Element] /\ x.w \in from..r
    /\ \A p \in 1..Len(s) : p <= from \/ p > x.w => x.s[p] = s[p]
    /\ \A p, q \in 1..x.w : p < q => x.s[p].index < x.s[q].index
    /\ \A p \in 1..x.w : \E q \in 1..r : Kept(s, q, from, generation) /\ x.s[p] = s[q]
    /\ \A q \in 1..r : Kept(s, q, from, generation) => \E p \in 1..x.w : x.s[p] = s[q]

\* The pass starts with nothing done, and each turn does its part.
LEMMA DropTurnPasses ==
    ASSUME NEW segs, Buffered(segs), NEW s, Lists(s, segs), NEW from \in 0..Len(s),
           NEW generation \in Nat
    PROVE  /\ PassedTo(s, [s |-> s, w |-> from], from, from, generation)
           /\ \A r \in (from + 1)..Len(s) : \A x : PassedTo(s, x, r - 1, from, generation)
                 => PassedTo(s, DropTurn(Len(s), x, r, generation), r, from, generation)
<1> DEFINE n == Len(s)
           K(q) == Kept(s, q, from, generation)
<1>1. /\ n \in Nat /\ s \in Seq(Element)
      /\ \A p \in 1..n : s[p] \in Element /\ s[p].index \in Nat /\ s[p].gen \in Nat
      /\ \A p, q \in 1..n : s[p].index < s[q].index <=> p < q
  BY ListFacts
<1>2. s \in [1..n -> Element]
  BY <1>1
<1>3. PassedTo(s, [s |-> s, w |-> from], from, from, generation)
  <2>1. /\ \A p \in 1..from : p \in 1..n /\ K(p)
        /\ from \in from..from
    BY <1>1 DEF Kept
  <2>2. \A p, q \in 1..from : p < q => s[p].index < s[q].index
    BY <1>1, <2>1
  <2>3. QED
    BY <1>2, <2>1, <2>2 DEF PassedTo
<1>4. ASSUME NEW r \in (from + 1)..n, NEW x, PassedTo(s, x, r - 1, from, generation)
      PROVE  PassedTo(s, DropTurn(n, x, r, generation), r, from, generation)
  <2>1. /\ x.s \in [1..n -> Element] /\ x.w \in from..(r - 1)
        /\ \A p \in 1..n : p <= from \/ p > x.w => x.s[p] = s[p]
        /\ \A p, q \in 1..x.w : p < q => x.s[p].index < x.s[q].index
        /\ \A p \in 1..x.w : \E q \in 1..(r - 1) : K(q) /\ x.s[p] = s[q]
        /\ \A q \in 1..(r - 1) : K(q) => \E p \in 1..x.w : x.s[p] = s[q]
    BY <1>4 DEF PassedTo
  <2>2. /\ n \in Nat /\ r \in 1..n /\ r \in Nat /\ ~(r <= from)
        /\ x.w \in Nat /\ x.w + 1 \in 1..r /\ r > x.w
    BY <1>1, <2>1
  <2>3. x.s[r] = s[r]
    BY <2>1, <2>2
  <2>4. s[r].gen \in Nat /\ (K(r) <=> ~(s[r].gen < generation))
    BY <1>1, <2>2 DEF Kept
  <2>5. \A q \in 1..r : q \in 1..(r - 1) \/ q = r
    BY <2>2
  <2>6. \A q \in 1..(r - 1) : q \in 1..r
    BY <2>2
  <2> HIDE DEF K, n
  <2>7. CASE s[r].gen < generation
    <3>1. DropTurn(n, x, r, generation) = x
      BY <2>3, <2>7 DEF DropTurn
    <3>2. x.w \in from..r
      BY <2>1
    <3>3. \A p \in 1..x.w : \E q \in 1..r : K(q) /\ x.s[p] = s[q]
      BY <2>1, <2>6
    <3>4. \A q \in 1..r : K(q) => \E p \in 1..x.w : x.s[p] = s[q]
      BY <2>1, <2>4, <2>5, <2>7
    <3>5. PassedTo(s, x, r, from, generation)
      BY <2>1, <3>2, <3>3, <3>4 DEF PassedTo, K, n
    <3>6. QED
      BY <3>1, <3>5
  <2>8. CASE ~(s[r].gen < generation)
    <3> DEFINE ys == [p \in 1..n |-> x.s[IF p = x.w + 1 THEN r ELSE p]]
               yw == x.w + 1
               y == [s |-> ys, w |-> yw]
    <3>1. DropTurn(n, x, r, generation) = y
      BY <2>3, <2>8 DEF DropTurn
    <3>2. yw \in from..r /\ yw \in Nat /\ yw \in 1..n
      BY <1>1, <2>1, <2>2 DEF n
    <3>3. ys \in [1..n -> Element]
      BY <2>1, <2>2
    <3>4. /\ ys[yw] = s[r]
          /\ \A p \in 1..n : p # yw => ys[p] = x.s[p]
      BY <2>3, <3>2
    <3>5. \A p \in 1..yw : p \in 1..n /\ (p # yw => p \in 1..x.w)
      BY <2>2, <3>2
    <3>6. \A p \in 1..x.w : p \in 1..yw /\ p # yw /\ p \in 1..n
      BY <2>2, <3>2
    <3>7. \A p \in 1..n : p <= from \/ p > yw => p # yw /\ (p <= from \/ p > x.w)
      BY <2>1, <2>2
    <3>8. K(r)
      BY <2>4, <2>8
    <3> HIDE DEF ys, yw
    <3>9. \A p \in 1..n : p <= from \/ p > yw => ys[p] = s[p]
      BY <2>1, <3>4, <3>7
    <3>10. \A p \in 1..yw : \E q \in 1..r : K(q) /\ ys[p] = s[q]
      <4>1. TAKE p \in 1..yw
      <4>2. CASE p = yw
        <5>1. r \in 1..r
          BY <2>2
        <5>2. QED
          BY <3>4, <3>8, <4>2, <5>1
      <4>3. CASE p # yw
        <5>1. p \in 1..x.w /\ ys[p] = x.s[p]
          BY <3>4, <3>5, <4>3
        <5>2. QED
          BY <2>1, <2>6, <5>1
      <4>4. QED
        BY <4>2, <4>3
    <3>11. \A q \in 1..r : K(q) => \E p \in 1..yw : ys[p] = s[q]
      <4>1. TAKE q \in 1..r
      <4>2. HAVE K(q)
      <4>3. CASE q = r
        <5>1. yw \in 1..yw
          BY <3>2
        <5>2. QED
          BY <3>4, <4>3, <5>1
      <4>4. CASE q # r
        <5>1. PICK p \in 1..x.w : x.s[p] = s[q]
          BY <2>1, <2>5, <4>2, <4>4
        <5>2. p \in 1..yw /\ ys[p] = x.s[p]
          BY <3>4, <3>6, <5>1
        <5>3. QED
          BY <5>1, <5>2
      <4>5. QED
        BY <4>3, <4>4
    <3>12. \A p, q \in 1..yw : p < q => ys[p].index < ys[q].index
      <4>1. TAKE p, q \in 1..yw
      <4>2. HAVE p < q
      <4>3. p # yw
        BY <3>2, <4>2
      <4>4. p \in 1..x.w /\ ys[p] = x.s[p]
        BY <3>4, <3>5, <4>3
      <4>5. CASE q # yw
        BY <2>1, <3>4, <3>5, <4>2, <4>4, <4>5
      <4>6. CASE q = yw
        <5>1. PICK k \in 1..(r - 1) : x.s[p] = s[k]
          BY <2>1, <4>4
        <5>2. k \in 1..n /\ k < r
          BY <1>1, <2>2, <5>1 DEF n
        <5>3. s[k].index < s[r].index
          BY <1>1, <2>2, <5>2 DEF n
        <5>4. QED
          BY <3>4, <4>4, <4>6, <5>1, <5>3
      <4>7. QED
        BY <4>5, <4>6
    <3>13. y.s = ys /\ y.w = yw
      OBVIOUS
    <3> HIDE DEF y
    <3>14. PassedTo(s, y, r, from, generation)
      BY <3>2, <3>3, <3>9, <3>10, <3>11, <3>12, <3>13 DEF PassedTo, K, n
    <3>15. QED
      BY <3>1, <3>14
  <2>9. QED
    BY <2>7, <2>8
<1>5. QED
  BY <1>3, <1>4

\* f is the pass up to the read cursor m.
Passes(f, s, m, from, generation) ==
    f = [r \in from..m |-> IF r = from THEN [s |-> s, w |-> from]
                           ELSE DropTurn(Len(s), f[r - 1], r, generation)]

\* The pass exists: a pass to m - 1 goes on to m.
LEMMA PassExists ==
    ASSUME NEW s, NEW from \in Nat, NEW generation, NEW n \in Nat, from <= n
    PROVE  \E f : Passes(f, s, n, from, generation)
<1> DEFINE Missing == {m \in from..n : ~\E f : Passes(f, s, m, from, generation)}
           start == [s |-> s, w |-> from]
<1>1. ASSUME Missing # {} PROVE FALSE
  <2>1. Missing \in SUBSET Nat
    OBVIOUS
  <2>2. PICK m \in Missing : \A k \in Missing : m <= k
    BY <1>1, <2>1, LeastNatural
  <2>3. CASE m = from
    <3> DEFINE f == [r \in from..m |-> start]
    <3>1. \A r \in from..m : r = from
      BY <2>3
    <3>2. Passes(f, s, m, from, generation)
      BY <3>1 DEF Passes
    <3>3. QED
      BY <2>2, <3>2
  <2>4. CASE m # from
    <3>1. m \in Nat /\ m - 1 \in from..n /\ m \in from..n /\ m - 1 < m
      BY <2>2, <2>4
    <3>2. m - 1 \notin Missing
      BY <2>1, <2>2, <3>1
    <3>3. PICK f : Passes(f, s, m - 1, from, generation)
      BY <3>1, <3>2
    <3> DEFINE Turn(h, r) == IF r = from THEN start ELSE DropTurn(Len(s), h[r - 1], r, generation)
               g == [r \in from..m |-> IF r = m THEN Turn(f, m) ELSE f[r]]
    <3> HIDE DEF start
    <3>4. \A r \in from..m : r # from => r - 1 \in from..m /\ r - 1 # m
      BY <3>1
    <3>5. \A r \in from..m : r # m => r \in from..(m - 1)
      BY <3>1
    <3>6. \A r \in from..(m - 1) : f[r] = Turn(f, r)
      BY <3>3 DEF Passes, start
    <3>7. \A r \in from..m : r # from => g[r - 1] = f[r - 1]
      BY <3>4
    <3>8. \A r \in from..m : Turn(g, r) = Turn(f, r)
      BY <3>7
    <3>9. \A r \in from..m : g[r] = Turn(f, r)
      BY <3>5, <3>6
    <3>10. g = [r \in from..m |-> g[r]]
      OBVIOUS
    <3> HIDE DEF g
    <3>11. g = [r \in from..m |-> Turn(g, r)]
      BY <3>8, <3>9, <3>10
    <3>12. Passes(g, s, m, from, generation)
      BY <3>11 DEF Passes, start
    <3>13. QED
      BY <2>2, <3>12
  <2>5. QED
    BY <2>3, <2>4
<1>2. n \in from..n
  OBVIOUS
<1>3. QED
  BY <1>1, <1>2

\* Whatever its length, the pass keeps what PassedTo says.
LEMMA PassSound ==
    ASSUME NEW segs, Buffered(segs), NEW s, Lists(s, segs), NEW from \in 0..Len(s),
           NEW generation \in Nat, NEW f, Passes(f, s, Len(s), from, generation)
    PROVE  PassedTo(s, f[Len(s)], Len(s), from, generation)
<1> DEFINE n == Len(s)
           P(r) == PassedTo(s, f[r], r, from, generation)
           Wrong == {r \in from..n : ~P(r)}
<1>1. n \in Nat /\ from \in Nat /\ from <= n
  BY ListFacts
<1>2. /\ PassedTo(s, [s |-> s, w |-> from], from, from, generation)
      /\ \A r \in (from + 1)..n : \A x : PassedTo(s, x, r - 1, from, generation)
                 => PassedTo(s, DropTurn(n, x, r, generation), r, from, generation)
  BY DropTurnPasses
<1>3. \A r \in from..n : f[r] = IF r = from THEN [s |-> s, w |-> from]
                                ELSE DropTurn(n, f[r - 1], r, generation)
  BY DEF Passes
<1> HIDE DEF n
<1>4. P(from)
  BY <1>1, <1>2, <1>3
<1>5. ASSUME NEW r \in (from + 1)..n, P(r - 1) PROVE P(r)
  <2>1. r \in from..n /\ r # from
    BY <1>1
  <2>2. f[r] = DropTurn(n, f[r - 1], r, generation)
    BY <1>3, <2>1
  <2>3. PassedTo(s, DropTurn(n, f[r - 1], r, generation), r, from, generation)
    BY <1>2, <1>5
  <2>4. QED
    BY <2>2, <2>3
<1> HIDE DEF P
<1>6. ASSUME Wrong # {} PROVE FALSE
  <2>1. Wrong \in SUBSET Nat
    BY <1>1
  <2>2. PICK r \in Wrong : \A k \in Wrong : r <= k
    BY <1>6, <2>1, LeastNatural
  <2>3. r \in from..n /\ r # from
    BY <1>4, <2>2
  <2>4. r \in (from + 1)..n /\ r - 1 \in from..n /\ ~(r <= r - 1)
    BY <1>1, <2>3
  <2>5. r - 1 \notin Wrong
    BY <2>2, <2>4
  <2>6. P(r)
    BY <1>5, <2>4, <2>5
  <2>7. QED
    BY <2>2, <2>6
<1>7. n \in from..n
  BY <1>1
<1>8. P(n)
  BY <1>6, <1>7
<1>9. QED
  BY <1>8 DEF P, n

\* The compaction leaves a list of the segments that are kept, and the ones
\* before the position that it starts at where they are.
LEMMA DroppedLists ==
    ASSUME NEW segs, Buffered(segs), NEW s, Lists(s, segs), NEW from \in 0..Len(s),
           NEW generation \in Nat, NEW K \in SUBSET DOMAIN segs,
           Keeps(s, K, from, generation)
    PROVE  /\ Lists(DroppedSlice(s, from, generation), Only(segs, K))
           /\ from <= Len(DroppedSlice(s, from, generation))
           /\ \A p \in 1..from : DroppedSlice(s, from, generation)[p] = s[p]
<1> DEFINE n == Len(s)
           pass == CHOOSE f : Passes(f, s, n, from, generation)
           x == pass[n]
           t == SubSeq(x.s, 1, x.w)
<1>1. /\ n \in Nat /\ DOMAIN s = 1..n /\ from \in Nat /\ from <= n
      /\ \A p \in 1..n : s[p].index \in DOMAIN segs /\ s[p] = EntryOf(segs, s[p].index)
      /\ \A i \in DOMAIN segs : \E p \in 1..n : s[p].index = i
  BY ListFacts
<1>2. DroppedSlice(s, from, generation) = t
  BY <1>1 DEF DroppedSlice, Passes, DropTurn
<1>3. Passes(pass, s, n, from, generation)
  <2>1. \E f : Passes(f, s, n, from, generation)
    BY <1>1, PassExists
  <2>2. QED
    BY <2>1
<1> HIDE DEF pass
<1>4. \A p \in 1..n : s[p].index \in K <=> Kept(s, p, from, generation)
  BY DEF Keeps
<1>5. PassedTo(s, x, n, from, generation)
  BY <1>3, PassSound
<1> HIDE DEF x, n
<1>6. /\ x.s \in [1..n -> Element] /\ x.w \in from..n
      /\ \A p \in 1..n : p <= from \/ p > x.w => x.s[p] = s[p]
      /\ \A p, q \in 1..x.w : p < q => x.s[p].index < x.s[q].index
      /\ \A p \in 1..x.w : \E q \in 1..n : Kept(s, q, from, generation) /\ x.s[p] = s[q]
      /\ \A q \in 1..n : Kept(s, q, from, generation) => \E p \in 1..x.w : x.s[p] = s[q]
  BY <1>5 DEF PassedTo, n
<1>7. t \in Seq(Element) /\ Len(t) = x.w /\ \A p \in 1..x.w : t[p] = x.s[p]
  <2>1. \A p \in 1..x.w : p \in 1..n
    BY <1>1, <1>6
  <2>2. \A p \in 1..x.w : x.s[p] \in Element
    BY <1>6, <2>1
  <2>3. x.w \in Nat
    BY <1>1, <1>6
  <2>4. /\ t \in Seq(Element)
        /\ Len(t) = IF 1 <= x.w THEN x.w - 1 + 1 ELSE 0
        /\ \A p \in 1..(x.w - 1 + 1) : t[p] = x.s[1 + p - 1]
    BY <2>2, <2>3, SubSeqProperties
  <2> HIDE DEF t
  <2>5. x.w - 1 + 1 = x.w /\ \A p \in 1..x.w : 1 + p - 1 = p
    BY <2>3
  <2>6. QED
    BY <2>3, <2>4, <2>5
<1> HIDE DEF t
<1>8. Sorted(t)
  BY <1>6, <1>7 DEF Sorted
<1>9. \A p \in 1..Len(t) : t[p].index \in K /\ t[p] = EntryOf(segs, t[p].index)
  <2>1. TAKE p \in 1..Len(t)
  <2>2. PICK q \in 1..n : Kept(s, q, from, generation) /\ x.s[p] = s[q]
    BY <1>6, <1>7
  <2>3. s[q].index \in K
    BY <1>4, <2>2
  <2>4. t[p] = s[q]
    BY <1>7, <2>2
  <2>5. s[q] = EntryOf(segs, s[q].index)
    BY <1>1
  <2>6. QED
    BY <2>3, <2>4, <2>5
<1>10. \A i \in K : \E p \in 1..Len(t) : t[p].index = i
  <2>1. TAKE i \in K
  <2>2. PICK q \in 1..n : s[q].index = i
    BY <1>1
  <2>3. Kept(s, q, from, generation)
    BY <1>4, <2>2
  <2>4. PICK p \in 1..x.w : x.s[p] = s[q]
    BY <1>6, <2>3
  <2>5. QED
    BY <1>7, <2>2, <2>4
<1>11. from <= Len(t) /\ \A p \in 1..from : t[p] = s[p]
  <2>1. \A p \in 1..from : p \in 1..x.w /\ p \in 1..n /\ p <= from
    BY <1>1, <1>6
  <2>2. from <= x.w
    BY <1>1, <1>6
  <2>3. QED
    BY <1>6, <1>7, <2>1, <2>2
<1>12. Lists(t, Only(segs, K))
  BY <1>8, <1>9, <1>10, OnlyLists
<1>13. QED
  BY <1>2, <1>11, <1>12

-------------------------------------------------------------------------------
(* The checks against the neighbours, and the insertion. *)

\* The positions after at are those of the indices that are not smaller.
Separates(s, at, index) ==
    at \in 0..Len(s) /\ \A p \in 1..Len(s) : s[p].index >= index <=> p > at

\* The checks on the two positions around the insertion point are those on the
\* new segment's neighbours.
LEMMA RefusedMatches ==
    ASSUME NEW K \in SUBSET DOMAIN segments, Buffered(Only(segments, K)),
           NEW s, Lists(s, Only(segments, K)), NEW index \in Nat, NEW timestamp \in Int,
           NEW at, Separates(s, at, index)
    PROVE  RefusedAt(s, at, index, timestamp) <=> RejectedLate(index, timestamp, K)
<1> DEFINE n == Len(s)
<1>1. DOMAIN Only(segments, K) = K /\ \A i \in K : EntryOf(Only(segments, K), i) = EntryOf(segments, i)
  BY DEF Only, EntryOf
<1>2. /\ n \in Nat /\ at \in 0..n
      /\ \A p \in 1..n : s[p].index >= index <=> p > at
      /\ \A p \in 1..n : s[p].index \in K /\ s[p].index \in Nat
      /\ \A p, q \in 1..n : s[p].index <= s[q].index <=> p <= q
      /\ \A i \in K : \E p \in 1..n : s[p].index = i
  <2>1. /\ n \in Nat
        /\ \A p \in 1..n : s[p].index \in DOMAIN Only(segments, K) /\ s[p].index \in Nat
        /\ \A p, q \in 1..n : s[p].index <= s[q].index <=> p <= q
        /\ \A i \in DOMAIN Only(segments, K) : \E p \in 1..n : s[p].index = i
    BY ListFacts
  <2>2. at \in 0..n /\ \A p \in 1..n : s[p].index >= index <=> p > at
    BY DEF Separates
  <2> HIDE DEF n
  <2>3. QED
    BY <1>1, <2>1, <2>2
<1>3. \A p \in 1..n : segments[s[p].index].ts = s[p].ts
  <2>1. \A p \in 1..n : s[p] = EntryOf(Only(segments, K), s[p].index)
    BY ListFacts
  <2>2. \A p \in 1..n : s[p] = EntryOf(segments, s[p].index)
    BY <1>1, <1>2, <2>1
  <2>3. \A i : EntryOf(segments, i).ts = segments[i].ts
    BY DEF EntryOf
  <2>4. QED
    BY <2>2, <2>3
<1>4. n = Cardinality(K)
  BY <1>1, PositionsAreRanks
<1> HIDE DEF n
<1>5. at < n => at + 1 \in 1..n /\ at + 1 > at
  BY <1>2
<1>6. at > 0 => at \in 1..n /\ ~(at > at)
  BY <1>2
<1>7. index \in K <=> at < n /\ s[at + 1].index = index
  <2>1. ASSUME index \in K PROVE at < n /\ s[at + 1].index = index
    <3>1. PICK p \in 1..n : s[p].index = index
      BY <1>2, <2>1
    <3>2. p > at
      BY <1>2, <3>1
    <3>3. at < n /\ at + 1 <= p /\ at + 1 \in 1..n /\ at + 1 > at
      BY <1>2, <3>2
    <3>4. s[at + 1].index <= index /\ s[at + 1].index >= index /\ s[at + 1].index \in Nat
      BY <1>2, <3>1, <3>3
    <3>5. QED
      BY <3>3, <3>4
  <2>2. QED
    BY <1>2, <1>5, <2>1
<1>8. LeftNeighbours(index, K) = IF at > 0 THEN {s[at].index} ELSE {}
  <2>1. ASSUME NEW j \in LeftNeighbours(index, K) PROVE at > 0 /\ j = s[at].index
    <3>1. PICK p \in 1..n : s[p].index = j
      BY <1>2, <2>1 DEF LeftNeighbours
    <3>2. p <= at
      <4>1. j < index /\ j \in Nat
        BY <1>2, <2>1, <3>1 DEF LeftNeighbours
      <4>2. ~(j >= index)
        BY <4>1
      <4>3. QED
        BY <1>2, <3>1, <4>2
    <3>3. at > 0 /\ at \in 1..n
      BY <1>2, <3>2
    <3>4. s[at].index \in K /\ s[at].index < index
      BY <1>2, <1>6, <3>3
    <3>5. s[at].index <= j
      BY <2>1, <3>4 DEF LeftNeighbours
    <3>6. at <= p
      BY <1>2, <3>1, <3>3, <3>5
    <3>7. QED
      BY <1>2, <3>1, <3>2, <3>3, <3>6
  <2>2. ASSUME at > 0 PROVE s[at].index \in LeftNeighbours(index, K)
    <3>1. at \in 1..n /\ s[at].index \in K /\ s[at].index < index
      BY <1>2, <1>6, <2>2
    <3>2. ASSUME NEW k \in K, k < index PROVE k <= s[at].index
      <4>1. PICK p \in 1..n : s[p].index = k
        BY <1>2
      <4>2. k \in Nat /\ ~(k >= index)
        BY <1>2, <3>2, <4>1
      <4>3. p <= at
        BY <1>2, <4>1, <4>2
      <4>4. QED
        BY <1>2, <3>1, <4>1, <4>3
    <3>3. QED
      BY <3>1, <3>2 DEF LeftNeighbours
  <2>3. QED
    BY <2>1, <2>2
<1>9. RightNeighbours(index, K) = IF at < n THEN {s[at + 1].index} ELSE {}
  <2>1. ASSUME NEW j \in RightNeighbours(index, K) PROVE at < n /\ j = s[at + 1].index
    <3>1. PICK p \in 1..n : s[p].index = j
      BY <1>2, <2>1 DEF RightNeighbours
    <3>2. p > at
      BY <1>2, <2>1, <3>1 DEF RightNeighbours
    <3>3. at < n /\ at + 1 \in 1..n /\ at + 1 > at /\ at + 1 <= p
      BY <1>2, <3>2
    <3>4. s[at + 1].index \in K /\ s[at + 1].index >= index
      BY <1>2, <3>3
    <3>5. j <= s[at + 1].index
      BY <2>1, <3>4 DEF RightNeighbours
    <3>6. p <= at + 1
      BY <1>2, <3>1, <3>3, <3>5
    <3>7. p = at + 1
      BY <1>2, <3>3, <3>6
    <3>8. QED
      BY <3>1, <3>3, <3>7
  <2>2. ASSUME at < n PROVE s[at + 1].index \in RightNeighbours(index, K)
    <3>1. at + 1 \in 1..n /\ s[at + 1].index \in K /\ s[at + 1].index >= index
      BY <1>2, <1>5, <2>2
    <3>2. ASSUME NEW k \in K, k >= index PROVE s[at + 1].index <= k
      <4>1. PICK p \in 1..n : s[p].index = k
        BY <1>2
      <4>2. p > at
        BY <1>2, <3>2, <4>1
      <4>3. at + 1 <= p
        BY <1>2, <4>2
      <4>4. QED
        BY <1>2, <3>1, <4>1, <4>3
    <3>3. QED
      BY <3>1, <3>2 DEF RightNeighbours
  <2>3. QED
    BY <2>1, <2>2
<1>10. (\E j \in LeftNeighbours(index, K) : segments[j].ts >= timestamp)
          <=> at > 0 /\ s[at].ts >= timestamp
  BY <1>3, <1>6, <1>8
<1>11. (\E j \in RightNeighbours(index, K) : segments[j].ts <= timestamp)
          <=> at < n /\ s[at + 1].ts <= timestamp
  BY <1>3, <1>5, <1>9
<1>12. QED
  BY <1>4, <1>7, <1>10, <1>11 DEF RefusedAt, RejectedLate, n

\* The list with a segment put in after the position at.
InsertedAt(s, at, segment) == SubSeq(s, 1, at) \o <<segment>> \o SubSeq(s, at + 1, Len(s))

\* Putting a new segment where it belongs leaves a list.
LEMMA InsertedLists ==
    ASSUME NEW segs, Buffered(segs), NEW s, Lists(s, segs), NEW segment \in Element,
           NEW at, Separates(s, at, segment.index), segment.index \notin DOMAIN segs,
           NEW new, DOMAIN new = DOMAIN segs \cup {segment.index},
           EntryOf(new, segment.index) = segment,
           \A i \in DOMAIN segs : new[i] = segs[i]
    PROVE  Lists(InsertedAt(s, at, segment), new)
<1> DEFINE n == Len(s)
           front == SubSeq(s, 1, at)
           back == SubSeq(s, at + 1, n)
           t == front \o <<segment>> \o back
<1>1. /\ n \in Nat /\ at \in 0..n
      /\ \A p \in 1..n : s[p] \in Element
      /\ \A p \in 1..n : s[p].index \in DOMAIN segs /\ s[p].index \in Nat
                         /\ s[p] = EntryOf(segs, s[p].index)
      /\ \A p, q \in 1..n : s[p].index < s[q].index <=> p < q
      /\ \A i \in DOMAIN segs : \E p \in 1..n : s[p].index = i
  BY ListFacts DEF Separates
<1>2. \A p \in 1..n : s[p].index >= segment.index <=> p > at
  BY DEF Separates
<1>3. segment.index \in Nat
  BY DEF Element
<1> HIDE DEF n
<1>4. front \in Seq(Element) /\ Len(front) = at /\ \A p \in 1..at : front[p] = s[p]
  <2>1. \A p \in 1..at : s[p] \in Element /\ 1 + p - 1 = p
    BY <1>1
  <2>2. at \in Nat /\ at - 1 + 1 = at
    BY <1>1
  <2>3. /\ front \in Seq(Element)
        /\ Len(front) = IF 1 <= at THEN at - 1 + 1 ELSE 0
        /\ \A p \in 1..(at - 1 + 1) : front[p] = s[1 + p - 1]
    BY <2>1, <2>2, SubSeqProperties
  <2> HIDE DEF front
  <2>4. QED
    BY <2>1, <2>2, <2>3
<1>5. /\ back \in Seq(Element) /\ Len(back) = n - at
      /\ \A p \in 1..(n - at) : back[p] = s[at + p]
  <2>1. \A p \in (at + 1)..n : s[p] \in Element
    BY <1>1
  <2>2. at + 1 \in Int /\ n \in Int
    BY <1>1
  <2>3. /\ back \in Seq(Element)
        /\ Len(back) = IF at + 1 <= n THEN n - (at + 1) + 1 ELSE 0
        /\ \A p \in 1..(n - (at + 1) + 1) : back[p] = s[(at + 1) + p - 1]
    BY <2>1, <2>2, SubSeqProperties
  <2> HIDE DEF back
  <2>4. n - (at + 1) + 1 = n - at /\ \A p \in 1..(n - at) : (at + 1) + p - 1 = at + p
    BY <1>1
  <2>5. QED
    BY <1>1, <2>3, <2>4
<1> HIDE DEF front, back
<1>6. /\ t \in Seq(Element) /\ Len(t) = n + 1
      /\ \A p \in 1..(n + 1) : t[p] = IF p <= at THEN s[p]
                                      ELSE IF p = at + 1 THEN segment ELSE s[p - 1]
  <2> DEFINE left == front \o <<segment>>
  <2>1. <<segment>> \in Seq(Element) /\ Len(<<segment>>) = 1 /\ <<segment>>[1] = segment
    OBVIOUS
  <2>2. /\ left \in Seq(Element) /\ Len(left) = at + 1
        /\ \A p \in 1..(at + 1) : left[p] = IF p <= at THEN front[p] ELSE <<segment>>[p - at]
    BY <1>4, <2>1, ConcatProperties
  <2>3. \A p \in 1..(at + 1) : left[p] = IF p <= at THEN s[p] ELSE segment
    <3>1. TAKE p \in 1..(at + 1)
    <3>2. CASE p <= at
      <4>1. p \in 1..at
        BY <1>1, <3>2
      <4>2. QED
        BY <1>4, <2>2, <3>2, <4>1
    <3>3. CASE ~(p <= at)
      <4>1. p - at = 1
        BY <1>1, <3>3
      <4>2. QED
        BY <2>1, <2>2, <3>3, <4>1
    <3>4. QED
      BY <3>2, <3>3
  <2> HIDE DEF left
  <2>4. /\ left \o back \in Seq(Element) /\ Len(left \o back) = (at + 1) + (n - at)
        /\ \A p \in 1..((at + 1) + (n - at)) :
              (left \o back)[p] = IF p <= at + 1 THEN left[p] ELSE back[p - (at + 1)]
    <3>1. left \in Seq(Element) /\ back \in Seq(Element) /\ Len(left) = at + 1 /\ Len(back) = n - at
      BY <1>5, <2>2
    <3>2. /\ left \o back \in Seq(Element) /\ Len(left \o back) = Len(left) + Len(back)
          /\ \A p \in 1..(Len(left) + Len(back)) :
                (left \o back)[p] = IF p <= Len(left) THEN left[p] ELSE back[p - Len(left)]
      BY <3>1, ConcatProperties
    <3>3. QED
      BY <3>1, <3>2
  <2>5. (at + 1) + (n - at) = n + 1
    BY <1>1
  <2>6. ASSUME NEW p \in 1..(n + 1)
        PROVE  (left \o back)[p] = IF p <= at THEN s[p]
                                   ELSE IF p = at + 1 THEN segment ELSE s[p - 1]
    <3>1. (left \o back)[p] = IF p <= at + 1 THEN left[p] ELSE back[p - (at + 1)]
      BY <2>4, <2>5
    <3>2. CASE p <= at + 1
      <4>1. p \in 1..(at + 1) /\ (p <= at \/ p = at + 1) /\ (p = at + 1 => ~(p <= at))
        BY <1>1, <3>2
      <4>2. QED
        BY <2>3, <3>1, <3>2, <4>1
    <3>3. CASE ~(p <= at + 1)
      <4>1. p - (at + 1) \in 1..(n - at) /\ at + (p - (at + 1)) = p - 1
            /\ ~(p <= at) /\ p # at + 1
        BY <1>1, <3>3
      <4>2. QED
        BY <1>5, <3>1, <3>3, <4>1
    <3>4. QED
      BY <3>2, <3>3
  <2>7. QED
    BY <2>4, <2>5, <2>6 DEF left
<1> HIDE DEF t
<1>7. \A p \in 1..(n + 1) : \/ p \in 1..n /\ p <= at /\ t[p] = s[p] /\ s[p].index < segment.index
                            \/ p = at + 1 /\ t[p] = segment
                            \/ /\ p - 1 \in 1..n /\ p - 1 > at /\ t[p] = s[p - 1]
                               /\ segment.index < s[p - 1].index
  <2>1. TAKE p \in 1..(n + 1)
  <2>2. CASE p <= at
    <3>1. p \in 1..n /\ ~(p > at)
      BY <1>1, <2>2
    <3>2. s[p].index < segment.index
      BY <1>1, <1>2, <1>3, <3>1
    <3>3. QED
      BY <1>6, <2>2, <3>1, <3>2
  <2>3. CASE p = at + 1
    <3>1. ~(p <= at)
      BY <1>1, <2>3
    <3>2. QED
      BY <1>6, <2>3, <3>1
  <2>4. CASE ~(p <= at) /\ p # at + 1
    <3>1. p - 1 \in 1..n /\ p - 1 > at
      BY <1>1, <2>4
    <3>2. s[p - 1].index >= segment.index /\ s[p - 1].index \in DOMAIN segs
          /\ s[p - 1].index \in Nat
      BY <1>1, <1>2, <3>1
    <3>3. segment.index < s[p - 1].index
      BY <1>3, <3>2
    <3>4. QED
      BY <1>6, <2>4, <3>1, <3>3
  <2>5. QED
    BY <2>2, <2>3, <2>4
<1>8. \A p, q \in 1..(n + 1) : p < q => t[p].index < t[q].index
  <2>1. TAKE p, q \in 1..(n + 1)
  <2>2. HAVE p < q
  <2>3. CASE p \in 1..n /\ p <= at /\ t[p] = s[p] /\ s[p].index < segment.index
    <3>1. CASE q \in 1..n /\ q <= at /\ t[q] = s[q]
      BY <1>1, <2>2, <2>3, <3>1
    <3>2. CASE q = at + 1 /\ t[q] = segment
      BY <2>3, <3>2
    <3>3. CASE q - 1 \in 1..n /\ q - 1 > at /\ t[q] = s[q - 1] /\ segment.index < s[q - 1].index
      <4>1. s[p].index < s[q - 1].index
        BY <1>1, <1>3, <2>3, <3>3
      <4>2. QED
        BY <2>3, <3>3, <4>1
    <3>4. QED
      BY <1>7, <3>1, <3>2, <3>3
  <2>4. CASE p = at + 1 /\ t[p] = segment
    <3>1. ~(q <= at) /\ q # at + 1
      BY <1>1, <2>2, <2>4
    <3>2. t[q] = s[q - 1] /\ segment.index < s[q - 1].index
      BY <1>7, <3>1
    <3>3. QED
      BY <2>4, <3>2
  <2>5. CASE p - 1 \in 1..n /\ p - 1 > at /\ t[p] = s[p - 1]
    <3>1. ~(q <= at) /\ q # at + 1 /\ p - 1 < q - 1
      BY <1>1, <2>2, <2>5
    <3>2. q - 1 \in 1..n /\ t[q] = s[q - 1]
      BY <1>7, <3>1
    <3>3. s[p - 1].index < s[q - 1].index
      BY <1>1, <2>5, <3>1, <3>2
    <3>4. QED
      BY <2>5, <3>2, <3>3
  <2>6. QED
    BY <1>7, <2>3, <2>4, <2>5
<1>9. Sorted(t)
  BY <1>6, <1>8 DEF Sorted
<1>10. \A i \in DOMAIN segs : EntryOf(new, i) = EntryOf(segs, i)
  BY DEF EntryOf
<1>11. \A p \in 1..(n + 1) : t[p].index \in DOMAIN new /\ t[p] = EntryOf(new, t[p].index)
  BY <1>1, <1>7, <1>10
<1>12. \A i \in DOMAIN new : \E p \in 1..(n + 1) : t[p].index = i
  <2>1. TAKE i \in DOMAIN new
  <2>2. CASE i = segment.index
    <3>1. at + 1 \in 1..(n + 1) /\ ~(at + 1 <= at)
      BY <1>1
    <3>2. t[at + 1] = segment
      BY <1>6, <3>1
    <3>3. QED
      BY <2>2, <3>1, <3>2
  <2>3. CASE i # segment.index
    <3>1. PICK p \in 1..n : s[p].index = i
      BY <1>1, <2>3
    <3>2. CASE p <= at
      <4>1. p \in 1..(n + 1) /\ t[p] = s[p]
        BY <1>1, <1>6, <3>2
      <4>2. QED
        BY <3>1, <4>1
    <3>3. CASE ~(p <= at)
      <4>1. p + 1 \in 1..(n + 1) /\ ~(p + 1 <= at) /\ p + 1 # at + 1 /\ (p + 1) - 1 = p
        BY <1>1, <3>3
      <4>2. t[p + 1] = s[p]
        BY <1>6, <4>1
      <4>3. QED
        BY <3>1, <4>1, <4>2
    <3>4. QED
      BY <3>2, <3>3
  <2>4. QED
    BY <2>2, <2>3
<1>13. Lists(t, new)
  BY <1>6, <1>9, <1>11, <1>12 DEF Lists
<1>14. QED
  BY <1>13 DEF t, front, back, n, InsertedAt

-------------------------------------------------------------------------------
(* A commit as a whole. *)

\* What the search, the eviction and the drop leave for the insertion: a list of
\* the segments that are kept, and the insertion point still in its place.
LEMMA CommitPrepared ==
    ASSUME IInv, NEW s, Lists(s, segments), NEW segment \in Element
    PROVE  LET kept == EvictedSlice(s)
               at == InsertionPoint(kept, segment.index)
               rest == DroppedSlice(kept, at, segment.gen)
               K == Retained \ Dropped(segment.index, segment.gen)
           IN  Lists(rest, Only(segments, K)) /\ Separates(rest, at, segment.index)
<1> DEFINE kept == EvictedSlice(s)
           index == segment.index
           generation == segment.gen
           at == InsertionPoint(kept, index)
           rest == DroppedSlice(kept, at, generation)
           A == Only(segments, Retained)
           K == Retained \ Dropped(index, generation)
<1>1. Retained \in SUBSET DOMAIN segments /\ K \in SUBSET Retained /\ K \in SUBSET DOMAIN segments
  BY DEF Retained
<1>2. DOMAIN A = Retained /\ \A i \in Retained : A[i] = segments[i]
  BY DEF Only
<1>3. Lists(kept, A) /\ Buffered(A)
  BY <1>1, EvictedLists, OnlyBuffered, SegmentsBuffered
<1>4. index \in Nat /\ generation \in Nat
  BY DEF Element
<1> HIDE DEF kept, A, index, generation
<1>5. at \in 0..Len(kept) /\ \A p \in 1..Len(kept) : kept[p].index >= index <=> p > at
  BY <1>3, <1>4, InsertionPointSeparates
<1> HIDE DEF at
<1>6. \A p \in 1..Len(kept) : kept[p].index \in K <=> Kept(kept, p, at, generation)
  <2>1. TAKE p \in 1..Len(kept)
  <2>2. kept[p].index \in Retained /\ kept[p] = EntryOf(A, kept[p].index)
        /\ kept[p].gen \in Nat /\ Len(kept) \in Nat
    BY <1>2, <1>3, ListFacts
  <2>3. EntryOf(A, kept[p].index).gen = segments[kept[p].index].gen
    BY <1>2, <2>2 DEF EntryOf
  <2>4. segments[kept[p].index].gen = kept[p].gen
    BY <2>2, <2>3
  <2>5. kept[p].index \in K <=> ~(kept[p].index >= index /\ kept[p].gen < generation)
    BY <2>2, <2>4 DEF Dropped
  <2>6. kept[p].index >= index <=> ~(p <= at)
    <3>1. p \in Nat /\ at \in Nat
      BY <1>5, <2>2
    <3>2. p > at <=> ~(p <= at)
      BY <3>1
    <3>3. QED
      BY <1>5, <3>2
  <2>7. kept[p].gen < generation <=> ~(kept[p].gen >= generation)
    BY <1>4, <2>2
  <2>8. QED
    BY <2>5, <2>6, <2>7 DEF Kept
<1> HIDE DEF K
<1>7. /\ Lists(rest, Only(A, K))
      /\ at <= Len(rest)
      /\ \A p \in 1..at : rest[p] = kept[p]
  <2>1. /\ Buffered(A) /\ Lists(kept, A) /\ at \in 0..Len(kept)
        /\ generation \in Nat /\ K \in SUBSET DOMAIN A
        /\ Keeps(kept, K, at, generation)
    BY <1>1, <1>2, <1>3, <1>4, <1>5, <1>6 DEF Keeps
  <2>2. Lists(rest, Only(A, K))
    BY <2>1, DroppedLists
  <2>3. at <= Len(rest) /\ \A p \in 1..at : rest[p] = kept[p]
    BY <2>1, DroppedLists
  <2>4. QED
    BY <2>2, <2>3
<1>8. Only(A, K) = Only(segments, K)
  BY <1>1, <1>2 DEF Only
<1> HIDE DEF rest
<1>9. Separates(rest, at, index)
  <2>1. /\ Len(kept) \in Nat
        /\ \A i \in Retained : \E q \in 1..Len(kept) : kept[q].index = i
    BY <1>2, <1>3, ListFacts
  <2>2. DOMAIN Only(segments, K) = K
    BY DEF Only
  <2>3. Buffered(Only(segments, K))
    BY <1>1, OnlyBuffered, SegmentsBuffered
  <2>4. Lists(rest, Only(segments, K))
    BY <1>7, <1>8
  <2>5. /\ Len(rest) \in Nat
        /\ \A p \in 1..Len(rest) : rest[p].index \in K
        /\ \A p, q \in 1..Len(rest) : rest[p].index <= rest[q].index <=> p <= q
    BY <2>2, <2>3, <2>4, ListFacts
  <2>6. \A p \in 1..at : p \in 1..Len(kept) /\ p \in 1..Len(rest) /\ ~(p > at)
    BY <1>5, <1>7, <2>1, <2>5
  <2>7. ASSUME NEW p \in 1..Len(rest) PROVE rest[p].index >= index <=> p > at
    <3>1. CASE p > at
      <4>1. PICK q \in 1..Len(kept) : kept[q].index = rest[p].index
        BY <1>1, <2>1, <2>5
      <4>2. ASSUME ~(q > at) PROVE FALSE
        <5>1. q \in 1..at
          BY <1>5, <2>1, <4>2
        <5>2. rest[q].index = rest[p].index /\ q \in 1..Len(rest)
          BY <1>7, <2>6, <4>1, <5>1
        <5>3. rest[p].index \in Nat
          BY <1>1, <2>5, BufferFacts
        <5>4. p <= q
          BY <2>5, <5>2, <5>3
        <5>5. QED
          BY <1>5, <2>1, <2>5, <3>1, <4>2, <5>4
      <4>3. kept[q].index >= index
        BY <1>5, <4>2
      <4>4. QED
        BY <3>1, <4>1, <4>3
    <3>2. CASE ~(p > at)
      <4>1. p \in 1..at
        BY <1>5, <2>1, <2>5, <3>2
      <4>2. rest[p] = kept[p] /\ p \in 1..Len(kept)
        BY <1>7, <2>6, <4>1
      <4>3. QED
        BY <1>5, <3>2, <4>2
    <3>3. QED
      BY <3>1, <3>2
  <2>8. at \in 0..Len(rest)
    BY <1>5, <1>7, <2>1, <2>5
  <2>9. QED
    BY <2>7, <2>8 DEF Separates
<1>10. QED
  BY <1>7, <1>8, <1>9 DEF rest, at, kept, K, index, generation

\* Past its early rejections CommitSlot leaves exactly the list of the segments
\* that Stream's CommitSlot leaves.
LEMMA CommitMatches ==
    ASSUME IInv, NEW s, Lists(s, segments), NEW segment \in Element
    PROVE  CommittedSlice(s, segment) = Listed(Committed(segment))
<1> DEFINE index == segment.index
           at == InsertionPoint(EvictedSlice(s), index)
           rest == DroppedSlice(EvictedSlice(s), at, segment.gen)
           K == Retained \ Dropped(index, segment.gen)
           t == InsertedAt(rest, at, segment)
           R == Only(segments, K)
<1>1. index \in Nat /\ segment.ts \in Int /\ segment.gen \in Nat /\ segment.data \in Slots
      /\ segment = [index |-> index, ts |-> segment.ts, gen |-> segment.gen, data |-> segment.data]
  BY DEF Element
<1>2. K \in SUBSET DOMAIN segments
  BY DEF Retained
<1>3. CommittedSlice(s, segment) =
         IF RefusedAt(rest, at, index, segment.ts) THEN rest ELSE t
  BY DEF CommittedSlice, InsertedAt
<1>4. Lists(rest, R) /\ Separates(rest, at, index)
  BY CommitPrepared
<1>5. Committed(segment) =
         IF RejectedLate(index, segment.ts, K) THEN R
         ELSE [i \in K \cup {index} |->
                  IF i = index
                  THEN [ts |-> segment.ts, gen |-> segment.gen, data |-> segment.data]
                  ELSE segments[i]]
  BY DEF Committed, Only
<1> HIDE DEF at, rest, K, index, t
<1>6. Buffered(R)
  BY <1>2, OnlyBuffered, SegmentsBuffered
<1>7. RefusedAt(rest, at, index, segment.ts) <=> RejectedLate(index, segment.ts, K)
  BY <1>1, <1>2, <1>4, <1>6, RefusedMatches
<1>8. CASE RejectedLate(index, segment.ts, K)
  <2>1. rest = Listed(R)
    BY <1>4, <1>6, ListIsListed
  <2>2. QED
    BY <1>3, <1>5, <1>7, <1>8, <2>1
<1>9. CASE ~RejectedLate(index, segment.ts, K)
  <2> DEFINE new == [i \in K \cup {index} |->
                        IF i = index
                        THEN [ts |-> segment.ts, gen |-> segment.gen, data |-> segment.data]
                        ELSE segments[i]]
  <2>1. index \notin K
    BY <1>9 DEF RejectedLate
  <2>2. DOMAIN R = K /\ \A i \in K : R[i] = segments[i]
    BY DEF Only
  <2>3. /\ DOMAIN new = DOMAIN R \cup {index}
        /\ new[index] = [ts |-> segment.ts, gen |-> segment.gen, data |-> segment.data]
        /\ \A i \in DOMAIN R : new[i] = R[i]
    BY <2>1, <2>2
  <2> HIDE DEF new, R
  <2>4. EntryOf(new, index) = segment
    BY <1>1, <2>3 DEF EntryOf
  <2>5. Lists(t, new)
    <3>1. /\ Buffered(R) /\ Lists(rest, R) /\ segment \in Element
          /\ Separates(rest, at, segment.index) /\ segment.index \notin DOMAIN R
          /\ DOMAIN new = DOMAIN R \cup {segment.index}
          /\ EntryOf(new, segment.index) = segment
          /\ \A i \in DOMAIN R : new[i] = R[i]
      BY <1>4, <1>6, <2>1, <2>2, <2>3, <2>4 DEF index
    <3>2. QED
      BY <3>1, InsertedLists DEF t
  <2>6. Buffered(new)
    <3>1. \A i \in DOMAIN R : EntryOf(new, i) = EntryOf(R, i)
      BY <2>3 DEF EntryOf
    <3>2. IsFiniteSet(DOMAIN R \cup {index})
      BY <1>6, FS_AddElement DEF Buffered
    <3>3. QED
      BY <1>1, <1>6, <2>3, <2>4, <3>1, <3>2 DEF Buffered
  <2>7. t = Listed(new)
    BY <2>5, <2>6, ListIsListed
  <2>8. QED
    BY <1>3, <1>5, <1>7, <1>9, <2>7 DEF new
<1>10. QED
  BY <1>8, <1>9

-------------------------------------------------------------------------------
(* renderPlaylistCache *)

\* The search by time separates the segments within the look-ahead from the
\* later ones.
LEMMA EligibleCountSeparates ==
    ASSUME IInv, NEW s, Lists(s, segments), NEW t \in Nat
    PROVE  /\ EligibleCount(s, t) \in 0..Len(s)
           /\ \A p \in 1..Len(s) : s[p].ts > t + MaxLookaheadMs <=> p > EligibleCount(s, t)
           /\ \A p \in 1..Len(s) : s[p].index \in EligibleAt(t) <=> p <= EligibleCount(s, t)
<1> DEFINE limit == t + MaxLookaheadMs
           n == Len(s)
           test == [p \in 1..n |-> s[p].ts > limit]
           e == EligibleCount(s, t)
<1>1. /\ n \in Nat /\ DOMAIN s = 1..n
      /\ \A p \in 1..n : s[p].ts \in Int /\ s[p].index \in DOMAIN segments
                         /\ s[p] = EntryOf(segments, s[p].index)
  BY SegmentsBuffered, ListFacts
<1>2. limit \in Int
  BY BufferFacts
<1>3. \A p, q \in 1..n : p < q => s[p].ts < s[q].ts
  BY TimesSorted
<1>4. e = SortSearch(test)
  BY <1>1 DEF EligibleCount
<1>5. Len(test) = n /\ \A p \in 1..n : test[p] = (s[p].ts > limit)
  BY <1>1
<1>6. \A p \in 1..n : test[p] \in BOOLEAN
  BY <1>5
<1> HIDE DEF test, limit, e
<1>7. \A p, q \in 1..n : p <= q /\ test[p] => test[q]
  <2>1. TAKE p, q \in 1..n
  <2>2. HAVE p <= q /\ test[p]
  <2>3. CASE p = q
    BY <2>2, <2>3
  <2>4. CASE p # q
    <3>1. s[p].ts < s[q].ts
      BY <1>1, <1>3, <2>2, <2>4
    <3>2. s[p].ts > limit
      BY <1>5, <2>2
    <3>3. s[q].ts > limit
      BY <1>1, <1>2, <3>1, <3>2
    <3>4. QED
      BY <1>5, <3>3
  <2>5. QED
    BY <2>3, <2>4
<1>8. e \in 0..n /\ \A p \in 1..n : test[p] <=> p > e
  BY <1>1, <1>4, <1>5, <1>6, <1>7, SearchFinds
<1>9. \A p \in 1..n : s[p].ts > limit <=> p > e
  BY <1>5, <1>8
<1>10. ASSUME NEW p \in 1..n PROVE s[p].index \in EligibleAt(t) <=> p <= e
  <2>1. segments[s[p].index].ts = s[p].ts
    <3>1. EntryOf(segments, s[p].index).ts = segments[s[p].index].ts
      BY DEF EntryOf
    <3>2. QED
      BY <1>1, <3>1
  <2>2. s[p].index \in EligibleAt(t) <=> s[p].ts <= limit
    BY <1>1, <2>1 DEF EligibleAt, limit
  <2>3. s[p].ts <= limit <=> ~(s[p].ts > limit)
    BY <1>1, <1>2
  <2>4. p > e <=> ~(p <= e)
    BY <1>1, <1>8
  <2>5. QED
    BY <1>9, <2>2, <2>3, <2>4
<1>11. QED
  BY <1>8, <1>9, <1>10 DEF limit, n, e

\* The segment after the last one within the look-ahead is the next to wait for.
LEMMA NextEligibleMatches ==
    ASSUME IInv, NEW s, Lists(s, segments), NEW t \in Nat
    PROVE  NextEligibleInSlice(s, t) = NextEligibleAt(t)
<1> DEFINE n == Len(s)
           e == EligibleCount(s, t)
           later == {segments[i].ts : i \in DOMAIN segments \ EligibleAt(t)}
<1>1. /\ n \in Nat
      /\ \A p \in 1..n : s[p].ts \in Int /\ s[p].index \in DOMAIN segments
      /\ \A i \in DOMAIN segments : \E p \in 1..n : s[p].index = i
  BY SegmentsBuffered, ListFacts
<1>2. \A p \in 1..n : segments[s[p].index].ts = s[p].ts
  <2>1. \A p \in 1..n : s[p] = EntryOf(segments, s[p].index)
    BY SegmentsBuffered, ListFacts
  <2>2. \A i : EntryOf(segments, i).ts = segments[i].ts
    BY DEF EntryOf
  <2>3. QED
    BY <2>1, <2>2
<1>3. \A p, q \in 1..n : p < q => s[p].ts < s[q].ts
  BY TimesSorted
<1>4. e \in 0..n /\ \A p \in 1..n : s[p].index \in EligibleAt(t) <=> p <= e
  BY EligibleCountSeparates
<1>5. /\ NextEligibleInSlice(s, t) = IF e < n THEN s[e + 1].ts ELSE 0
      /\ NextEligibleAt(t) = IF later = {} THEN 0
                             ELSE CHOOSE x \in later : \A y \in later : x <= y
  BY DEF NextEligibleInSlice, NextEligibleAt
<1> HIDE DEF n, e
<1>6. \A x \in later : \E p \in 1..n : p > e /\ x = s[p].ts
  <2>1. TAKE x \in later
  <2>2. PICK i \in DOMAIN segments \ EligibleAt(t) : x = segments[i].ts
    OBVIOUS
  <2>3. PICK p \in 1..n : s[p].index = i
    BY <1>1, <2>2
  <2>4. ~(p <= e) /\ p \in Nat /\ e \in Nat
    BY <1>1, <1>4, <2>2, <2>3
  <2>5. QED
    BY <1>2, <2>2, <2>3, <2>4
<1>7. \A p \in 1..n : p > e => s[p].ts \in later
  <2>1. TAKE p \in 1..n
  <2>2. HAVE p > e
  <2>3. ~(p <= e)
    BY <1>1, <1>4, <2>2
  <2>4. s[p].index \in DOMAIN segments \ EligibleAt(t)
    BY <1>1, <1>4, <2>3
  <2>5. QED
    BY <1>2, <2>4
<1> HIDE DEF later
<1>8. CASE e < n
  <2>1. e + 1 \in 1..n /\ e + 1 > e
    BY <1>1, <1>4, <1>8
  <2>2. s[e + 1].ts \in later
    BY <1>7, <2>1
  <2>3. \A y \in later : y \in Int /\ s[e + 1].ts <= y
    <3>1. TAKE y \in later
    <3>2. PICK p \in 1..n : p > e /\ y = s[p].ts
      BY <1>6
    <3>3. p = e + 1 \/ e + 1 < p
      BY <1>1, <1>4, <3>2
    <3>4. s[p].ts \in Int /\ s[e + 1].ts \in Int
      BY <1>1, <2>1
    <3>5. e + 1 < p => s[e + 1].ts < s[p].ts
      BY <1>3, <2>1
    <3>6. QED
      BY <3>2, <3>3, <3>4, <3>5
  <2>4. \A x \in later : (\A y \in later : x <= y) => x = s[e + 1].ts
    BY <2>2, <2>3
  <2>5. (CHOOSE x \in later : \A y \in later : x <= y) = s[e + 1].ts
    BY <2>2, <2>3, <2>4
  <2>6. QED
    BY <1>5, <1>8, <2>2, <2>5
<1>9. CASE ~(e < n)
  <2>1. \A p \in 1..n : ~(p > e)
    BY <1>1, <1>4, <1>9
  <2>2. later = {}
    BY <1>6, <2>1
  <2>3. QED
    BY <1>5, <1>9, <2>2
<1>10. QED
  BY <1>8, <1>9

\* Where the run of indices that starts after the position a ends: no gap up to
\* a + g, and one after it unless the list of candidates ends there.
RunEnds(s, a, b, g) ==
    /\ g \in 1..(b - a)
    /\ \A k \in 1..(g - 1) : s[a + k + 1].index = s[a + k].index + 1
    /\ g < b - a => s[a + g + 1].index # s[a + g].index + 1

\* The code's gate cuts the candidates where the unbroken run of indices ends.
LEMMA RunIsGated ==
    ASSUME NEW segs, Buffered(segs), NEW s, Lists(s, segs), NEW a \in Nat, NEW b \in 0..Len(s),
           NEW g, RunEnds(s, a, b, g),
           NEW last \in SUBSET DOMAIN segs,
           \A p \in 1..Len(s) : s[p].index \in last <=> p > a /\ p <= b
    PROVE  \A p \in 1..Len(s) :
              (s[p].index \in last /\ \A j \in last : j <= s[p].index => j..(s[p].index) \subseteq last)
                 <=> p > a /\ p <= a + g
<1> DEFINE n == Len(s)
<1>1. /\ n \in Nat /\ b \in Nat /\ b <= n
      /\ \A p \in 1..n : s[p].index \in Nat
      /\ \A p, q \in 1..n : s[p].index <= s[q].index <=> p <= q
      /\ \A p, q \in 1..n : s[p].index < s[q].index <=> p < q
      /\ \A i \in DOMAIN segs : \E p \in 1..n : s[p].index = i
  BY ListFacts
<1>2. /\ g \in Nat /\ g >= 1 /\ a + g <= b
      /\ \A p \in 1..n : p > a /\ p < a + g => p + 1 \in 1..n /\ s[p + 1].index = s[p].index + 1
      /\ a + g < b => a + g \in 1..n /\ a + g + 1 \in 1..n /\ s[a + g + 1].index # s[a + g].index + 1
  <2>1. g \in Nat /\ g >= 1 /\ a + g <= b
    BY <1>1 DEF RunEnds
  <2>2. ASSUME NEW p \in 1..n, p > a, p < a + g
        PROVE  p + 1 \in 1..n /\ s[p + 1].index = s[p].index + 1
    <3>1. p - a \in 1..(g - 1) /\ a + (p - a) = p /\ p + 1 \in 1..n
      BY <1>1, <2>1, <2>2
    <3>2. s[a + (p - a) + 1].index = s[a + (p - a)].index + 1
      BY <3>1 DEF RunEnds
    <3>3. QED
      BY <3>1, <3>2
  <2>3. a + g < b => g < b - a /\ a + g \in 1..n /\ a + g + 1 \in 1..n
    BY <1>1, <2>1
  <2>4. QED
    BY <2>1, <2>2, <2>3 DEF RunEnds
<1> HIDE DEF n
<1>3. \A i \in last : i \in Nat /\ \E p \in 1..n : s[p].index = i /\ p > a /\ p <= b
  <2>1. TAKE i \in last
  <2>2. PICK p \in 1..n : s[p].index = i
    BY <1>1
  <2>3. QED
    BY <1>1, <2>2 DEF n
<1>4. ASSUME NEW p \in 1..n
      PROVE  (s[p].index \in last /\ \A j \in last : j <= s[p].index => j..(s[p].index) \subseteq last)
                 <=> p > a /\ p <= a + g
  <2> DEFINE i == s[p].index
  <2>0. i \in Nat /\ p \in Nat
    BY <1>1
  <2>1. ASSUME i \in last, \A j \in last : j <= i => j..i \subseteq last
        PROVE  p > a /\ p <= a + g
    <3>1. p > a /\ p <= b
      BY <2>1 DEF n
    <3>2. ASSUME ~(p <= a + g) PROVE FALSE
      <4> DEFINE q == a + g
      <4>1. q \in 1..n /\ q + 1 \in 1..n /\ s[q + 1].index # s[q].index + 1 /\ q < p /\ q + 1 <= p
            /\ q > a /\ q <= b
        BY <1>1, <1>2, <2>0, <3>1, <3>2
      <4> HIDE DEF q, i
      <4>2. s[q].index \in last
        BY <4>1 DEF n
      <4>3. /\ s[q].index \in Nat /\ s[q + 1].index \in Nat
            /\ s[q].index < s[q + 1].index /\ s[q + 1].index <= i
        <5>1. q < q + 1
          BY <4>1
        <5>2. QED
          BY <1>1, <4>1, <5>1 DEF i
      <4>4. s[q].index + 1 \in (s[q].index)..i /\ s[q].index <= i
        BY <2>0, <4>3
      <4>5. s[q].index + 1 \in last
        BY <2>1, <4>2, <4>4
      <4>6. PICK r \in 1..n : s[r].index = s[q].index + 1
        BY <1>3, <4>5
      <4>7. q < r
        <5>1. s[q].index < s[r].index
          BY <4>3, <4>6
        <5>2. QED
          BY <1>1, <4>1, <5>1
      <4>8. r < q + 1
        <5> DEFINE x == s[q].index
                   y == s[q + 1].index
        <5>1. x \in Nat /\ y \in Nat /\ x < y /\ y # x + 1 /\ s[r].index = x + 1
          BY <4>1, <4>3, <4>6
        <5> HIDE DEF x, y
        <5>2. s[r].index < y
          BY <5>1
        <5>3. QED
          BY <1>1, <4>1, <5>2 DEF y
      <4>9. QED
        BY <4>1, <4>7, <4>8
    <3>3. QED
      BY <3>1, <3>2
  <2>2. ASSUME p > a, p <= a + g PROVE i \in last /\ \A j \in last : j <= i => j..i \subseteq last
    <3>1. p <= b
      BY <1>1, <1>2, <2>0, <2>2
    <3>2. i \in last
      BY <2>2, <3>1 DEF n
    <3>3. ASSUME NEW j \in last, j <= i, NEW k \in j..i PROVE k \in last
      <4>1. PICK q \in 1..n : s[q].index = j /\ q > a /\ q <= b
        BY <1>3
      <4>2. j \in Nat /\ k \in Nat /\ j <= k /\ k <= i
        BY <1>3, <2>0, <3>3
      <4>3. q <= p
        BY <1>1, <3>3, <4>1
      <4> DEFINE T == {r \in 1..n : s[r].index <= k}
      <4>4. q \in T /\ T \in SUBSET Nat /\ IsFiniteSet(T)
        <5>1. q \in T
          BY <4>1, <4>2
        <5>2. IsFiniteSet(1..n)
          BY <1>1, FS_Interval
        <5>3. T \in SUBSET (1..n) /\ T \in SUBSET Nat
          BY <1>1
        <5>4. QED
          BY <5>1, <5>2, <5>3, FS_Subset
      <4>5. PICK r \in T : \A x \in T : x <= r
        BY <4>4, GreatestNatural
      <4>6. r \in 1..n /\ r \in Nat /\ s[r].index <= k /\ s[r].index \in Nat /\ q <= r
        BY <1>1, <4>4, <4>5
      <4>7. r <= p
        <5>1. s[r].index <= i
          BY <2>0, <4>2, <4>6
        <5>2. QED
          BY <1>1, <4>6, <5>1
      <4>8. s[r].index = k
        <5>1. CASE r = p
          BY <2>0, <4>2, <4>6, <5>1
        <5>2. CASE r # p
          <6>1. r > a /\ r < a + g /\ r < p
            BY <1>1, <1>2, <2>0, <2>2, <4>1, <4>6, <4>7, <5>2
          <6>2. r + 1 \in 1..n /\ s[r + 1].index = s[r].index + 1
            BY <1>2, <4>6, <6>1
          <6>3. r + 1 \notin T
            BY <4>5, <4>6
          <6>4. ~(s[r].index + 1 <= k)
            BY <6>2, <6>3
          <6>5. QED
            BY <4>2, <4>6, <6>4
        <5>3. QED
          BY <5>1, <5>2
      <4>9. r > a /\ r <= b
        BY <1>1, <2>0, <3>1, <4>1, <4>6, <4>7
      <4>10. QED
        BY <4>6, <4>8, <4>9 DEF n
    <3>4. QED
      BY <3>2, <3>3
  <2>3. QED
    BY <2>1, <2>2
<1>5. QED
  BY <1>4 DEF n

\* The code's window lists exactly the indices of LiveStream's, in order.
LEMMA WindowMatches ==
    ASSUME IInv, NEW s, Lists(s, segments), NEW t \in Nat
    PROVE  /\ {WindowSlice(s, t)[p].index : p \in DOMAIN WindowSlice(s, t)} = WindowAt(t)
           /\ \A p, q \in DOMAIN WindowSlice(s, t) :
                 p < q => WindowSlice(s, t)[p].index < WindowSlice(s, t)[q].index
<1> DEFINE n == Len(s)
           W == PlaylistWindowSize
           e == EligibleCount(s, t)
           start == IF e > W THEN e - W ELSE 0
           window == SubSeq(s, start + 1, e)
           m == e - start
           last == {i \in EligibleAt(t) :
                       Cardinality({j \in EligibleAt(t) : j >= i}) <= W}
           Gate(f) == f = [i \in 1..(Len(window) + 1) |->
                              IF i >= Len(window) \/ window[i + 1].index # window[i].index + 1 THEN i
                              ELSE f[i + 1]]
           gate == CHOOSE f : Gate(f)
<1>1. /\ n \in Nat
      /\ \A p \in 1..n : s[p] \in Element /\ s[p].index \in DOMAIN segments /\ s[p].index \in Nat
      /\ \A p, q \in 1..n : s[p].index <= s[q].index <=> p <= q
      /\ \A p, q \in 1..n : s[p].index < s[q].index <=> p < q
      /\ \A i \in DOMAIN segments : \E p \in 1..n : s[p].index = i
  BY SegmentsBuffered, ListFacts
<1>2. W \in Nat /\ W >= 1
  BY BufferFacts
<1>3. e \in 0..n /\ \A p \in 1..n : s[p].index \in EligibleAt(t) <=> p <= e
  BY EligibleCountSeparates
<1>4. WindowSlice(s, t) = IF window = <<>> THEN <<>> ELSE SubSeq(window, 1, gate[1])
  BY DEF WindowSlice
<1>5. WindowAt(t) = {i \in last : \A j \in last : j <= i => j..i \subseteq last}
  BY DEF WindowAt
<1> HIDE DEF n, W, e
<1>6. start \in Nat /\ m \in Nat /\ start <= e /\ e \in Nat /\ m <= W /\ (m = 0 => e = 0)
  BY <1>1, <1>2, <1>3
<1>7. ASSUME NEW p \in 1..n, p <= e
      PROVE  Cardinality({j \in EligibleAt(t) : j >= s[p].index}) = e - p + 1
  <2> DEFINE T == {j \in EligibleAt(t) : j >= s[p].index}
  <2>1. \A i \in T : \E q \in 1..n : s[q].index = i
    BY <1>1 DEF EligibleAt
  <2>2. \A q \in 1..n : s[q].index \in T <=> p <= q /\ q <= e
    BY <1>1, <1>3
  <2> HIDE DEF T
  <2>3. Cardinality(T) = e - p + 1
    <3>1. Buffered(segments) /\ p \in 1..Len(s) /\ e \in 0..Len(s) /\ p <= e
      BY <1>3, <1>7, SegmentsBuffered DEF n
    <3>2. /\ \A i \in T : \E q \in 1..Len(s) : s[q].index = i
          /\ \A q \in 1..Len(s) : s[q].index \in T <=> p <= q /\ q <= e
      BY <2>1, <2>2 DEF n
    <3>3. QED
      BY <3>1, <3>2, CountBetween
  <2>4. QED
    BY <2>3 DEF T
<1>8. \A p \in 1..n : s[p].index \in last <=> p > start /\ p <= e
  <2>1. TAKE p \in 1..n
  <2>2. s[p].index \in last
          <=> p <= e /\ Cardinality({j \in EligibleAt(t) : j >= s[p].index}) <= W
    BY <1>3
  <2>3. p <= e => (e - p + 1 <= W <=> p > start)
    BY <1>1, <1>2, <1>3
  <2>4. QED
    BY <1>7, <2>2, <2>3
<1>9. last \in SUBSET DOMAIN segments
  BY DEF EligibleAt
<1>10. /\ window \in Seq(Element) /\ Len(window) = m
       /\ \A p \in 1..m : start + p \in 1..n /\ window[p] = s[start + p]
  <2>1. \A p \in (start + 1)..e : p \in 1..n
    BY <1>1, <1>3, <1>6
  <2>2. \A p \in 1..m : start + p \in (start + 1)..e /\ (start + 1) + p - 1 = start + p
    BY <1>6
  <2>3. e - (start + 1) + 1 = m /\ start + 1 \in Int /\ e \in Int /\ (start + 1 <= e <=> m # 0)
    BY <1>6
  <2> HIDE DEF start, m
  <2>4. \A p \in (start + 1)..e : s[p] \in Element
    BY <1>1, <2>1
  <2>5. /\ window \in Seq(Element)
        /\ Len(window) = IF start + 1 <= e THEN e - (start + 1) + 1 ELSE 0
        /\ \A p \in 1..(e - (start + 1) + 1) : window[p] = s[(start + 1) + p - 1]
    BY <2>3, <2>4, SubSeqProperties
  <2> HIDE DEF window
  <2>6. QED
    BY <2>1, <2>2, <2>3, <2>5
<1>11. start + m = e
  BY <1>6
<1> HIDE DEF start, m, window, last
<1>12. CASE m = 0
  <2>1. Len(window) = 0
    BY <1>10, <1>12
  <2>2. window = <<>>
    BY <1>10, <2>1, EmptySeq
  <2>3. WindowSlice(s, t) = <<>> /\ DOMAIN WindowSlice(s, t) = {}
    BY <1>4, <2>2
  <2>4. \A p \in 1..n : ~(p <= e)
    BY <1>1, <1>6, <1>12
  <2>5. last = {}
    BY <1>1, <1>8, <1>9, <2>4
  <2>6. WindowAt(t) = {}
    BY <1>5, <2>5
  <2>7. QED
    BY <2>3, <2>6
<1>13. CASE m # 0
  <2> DEFINE stops == [i \in 1..(m + 1) |-> i >= m \/ window[i + 1].index # window[i].index + 1]
             g == gate[1]
  <2>1. m \in Nat /\ m >= 1 /\ m + 1 \in Nat /\ 1 <= m + 1 /\ m \in 1..(m + 1) /\ m + 1 \in 1..(m + 1)
    BY <1>6, <1>13
  <2>2. \A i \in 1..(m + 1) :
           /\ stops[i] \in BOOLEAN
           /\ stops[i] <=> (i >= m \/ window[i + 1].index # window[i].index + 1)
    <3>1. \A i \in 1..(m + 1) :
             stops[i] = (i >= m \/ window[i + 1].index # window[i].index + 1)
      OBVIOUS
    <3> HIDE DEF stops
    <3>2. QED
      BY <3>1
  <2>3. \A f : Gate(f) <=> f = [i \in 1..(m + 1) |-> IF stops[i] THEN i ELSE f[i + 1]]
    BY <1>10, <2>2
  <2> HIDE DEF stops
  <2>4. stops[m] /\ stops[m + 1]
    <3>1. m >= m /\ m + 1 >= m
      BY <2>1
    <3>2. QED
      BY <2>1, <2>2, <3>1
  <2>5. /\ \E f : Gate(f)
        /\ \A f : Gate(f) => /\ f[1] \in 1..(m + 1) /\ stops[f[1]]
                             /\ \A k \in 1..(m + 1) : k < f[1] => ~stops[k]
    <3>1. /\ \E f : f = [i \in 1..(m + 1) |-> IF stops[i] THEN i ELSE f[i + 1]]
          /\ \A f : f = [i \in 1..(m + 1) |-> IF stops[i] THEN i ELSE f[i + 1]] =>
                /\ f[1] \in 1..(m + 1) /\ stops[f[1]]
                /\ \A k \in 1..(m + 1) : k < f[1] => ~stops[k]
      BY <2>1, <2>2, <2>4, CountsToStop
    <3> HIDE DEF Gate
    <3>2. QED
      BY <2>3, <3>1
  <2> HIDE DEF Gate
  <2>6. Gate(gate)
    BY <2>5
  <2> HIDE DEF gate
  <2>7. g \in 1..(m + 1) /\ stops[g] /\ \A k \in 1..(m + 1) : k < g => ~stops[k]
    BY <2>5, <2>6
  <2> HIDE DEF g
  <2>8. g \in 1..m
    <3>1. ~(m < g)
      BY <2>1, <2>4, <2>7
    <3>2. QED
      BY <2>1, <2>7, <3>1
  <2>9. RunEnds(s, start, e, g)
    <3>1. e - start = m
      BY <1>6, <1>11
    <3>2. ASSUME NEW k \in 1..(g - 1) PROVE s[start + k + 1].index = s[start + k].index + 1
      <4>1. k \in 1..(m + 1) /\ k < g /\ k \in 1..m /\ k + 1 \in 1..m /\ start + (k + 1) = start + k + 1
        BY <1>6, <2>1, <2>8
      <4>2. ~stops[k]
        BY <2>7, <4>1
      <4>3. window[k + 1].index = window[k].index + 1
        BY <2>2, <4>1, <4>2
      <4>4. window[k + 1] = s[start + (k + 1)] /\ window[k] = s[start + k]
        BY <1>10, <4>1
      <4>5. QED
        BY <4>1, <4>3, <4>4
    <3>3. ASSUME g < m PROVE s[start + g + 1].index # s[start + g].index + 1
      <4>1. ~(g >= m) /\ g + 1 \in 1..m /\ start + (g + 1) = start + g + 1
        BY <1>6, <2>1, <2>8, <3>3
      <4>2. window[g + 1].index # window[g].index + 1
        BY <2>2, <2>7, <4>1
      <4>3. window[g + 1] = s[start + (g + 1)] /\ window[g] = s[start + g]
        BY <1>10, <2>8, <4>1
      <4>4. QED
        BY <4>1, <4>2, <4>3
    <3>4. QED
      BY <2>8, <3>1, <3>2, <3>3 DEF RunEnds
  <2>10. \A p \in 1..n : s[p].index \in WindowAt(t) <=> p > start /\ p <= start + g
    <3>1. \A p \in 1..Len(s) :
              (s[p].index \in last /\ \A j \in last : j <= s[p].index => j..(s[p].index) \subseteq last)
                 <=> p > start /\ p <= start + g
      <4>1. Buffered(segments) /\ start \in Nat /\ e \in 0..Len(s) /\ last \in SUBSET DOMAIN segments
        BY <1>3, <1>6, <1>9, SegmentsBuffered DEF n
      <4>2. \A p \in 1..Len(s) : s[p].index \in last <=> p > start /\ p <= e
        BY <1>8 DEF n
      <4>3. QED
        BY <2>9, <4>1, <4>2, RunIsGated
    <3>2. QED
      BY <1>5, <3>1 DEF n
  <2>11. LET w == WindowSlice(s, t)
         IN  /\ DOMAIN w = 1..g
             /\ \A p \in 1..g : w[p] = s[start + p] /\ start + p \in 1..n
    <3>1. window # <<>>
      BY <1>10, <1>13, EmptySeq
    <3>2. WindowSlice(s, t) = SubSeq(window, 1, g)
      BY <1>4, <3>1 DEF g
    <3>3. \A p \in 1..g : p \in 1..m /\ 1 + p - 1 = p
      BY <2>1, <2>8
    <3>4. \A p \in 1..g : window[p] \in Element
      BY <1>1, <1>10, <3>3
    <3>5. g \in Int /\ g - 1 + 1 = g /\ 1 <= g
      BY <2>1, <2>8
    <3>6. /\ SubSeq(window, 1, g) \in Seq(Element)
          /\ Len(SubSeq(window, 1, g)) = IF 1 <= g THEN g - 1 + 1 ELSE 0
          /\ \A p \in 1..(g - 1 + 1) : SubSeq(window, 1, g)[p] = window[1 + p - 1]
      BY <3>4, <3>5, SubSeqProperties
    <3>7. DOMAIN SubSeq(window, 1, g) = 1..g
      BY <3>5, <3>6, LenProperties
    <3>8. \A p \in 1..g : SubSeq(window, 1, g)[p] = window[p]
      BY <3>3, <3>5, <3>6
    <3>9. QED
      BY <1>10, <3>2, <3>3, <3>7, <3>8
  <2>12. ASSUME NEW p \in 1..g PROVE s[start + p].index \in WindowAt(t)
    <3>1. start + p \in 1..n /\ start + p > start /\ start + p <= start + g
      BY <1>6, <2>1, <2>8, <2>11
    <3>2. QED
      BY <2>10, <3>1
  <2>13. ASSUME NEW i \in WindowAt(t) PROVE \E p \in 1..g : s[start + p].index = i
    <3>1. i \in DOMAIN segments
      BY <1>5, <1>9
    <3>2. PICK p \in 1..n : s[p].index = i
      BY <1>1, <3>1
    <3>3. p > start /\ p <= start + g
      BY <2>10, <3>2
    <3>4. p - start \in 1..g /\ start + (p - start) = p
      BY <1>1, <1>6, <2>1, <2>8, <3>3
    <3>5. QED
      BY <3>2, <3>4
  <2>14. ASSUME NEW p \in 1..g, NEW q \in 1..g, p < q PROVE s[start + p].index < s[start + q].index
    <3>1. start + p < start + q /\ start + p \in 1..n /\ start + q \in 1..n
      BY <1>6, <2>1, <2>8, <2>11, <2>14
    <3>2. QED
      BY <1>1, <3>1
  <2>15. QED
    BY <2>11, <2>12, <2>13, <2>14
<1>14. QED
  BY <1>12, <1>13

-------------------------------------------------------------------------------
(* The theorems. *)

\* In every state, for buffers of any size, the binary searches of a commit and
\* of a lookup, the compaction in place and the insertion find the positions and
\* leave the list that Stream says with sets.
THEOREM SlicesMatch == Spec => []SliceMatches
<1>1. IInv => SliceMatches
  <2> SUFFICES ASSUME IInv PROVE SliceMatches
    OBVIOUS
  <2> DEFINE s == Listed(segments)
  <2>1. Lists(s, segments) /\ Buffered(segments)
    BY SegmentsBuffered, ListedLists
  <2> HIDE DEF s
  <2>2. \A i \in Indices : FoundInSlice(s, i) <=> i \in DOMAIN segments
    <3>1. Indices \subseteq Nat
      BY ConstantsAssumption
    <3>2. QED
      BY <2>1, <3>1, LookupFinds
  <2>3. ASSUME NEW u \in {x \in Uploaders : upload[x] = "filled"}, NEW i \in Indices,
               NEW t \in Timestamps, NEW g \in Generations
        PROVE  LET segment == [index |-> i, ts |-> t, gen |-> g, data |-> held[u]]
               IN  CommittedSlice(s, segment) = Listed(Committed(segment))
    <3>1. held[u] \in Slots
      BY DEF IInv, TypeOK, HandlersOwn
    <3>2. i \in Nat /\ t \in Int /\ g \in Nat
      BY ConstantsAssumption
    <3>3. [index |-> i, ts |-> t, gen |-> g, data |-> held[u]] \in Element
      BY <3>1, <3>2 DEF Element
    <3>4. QED
      BY <2>1, <3>3, CommitMatches
  <2>4. QED
    BY <2>2, <2>3 DEF SliceMatches, s
<1>2. QED
  BY <1>1, InvariantHolds, PTL

\* In every state in which the renderer is about to read the list, for buffers
\* and windows of any size, its two binary searches, the window and the gate find
\* exactly the playlist and the next segment to wait for that LiveStream says.
THEOREM RendersMatch == LiveSpec => []RenderMatches
<1>1. IInv /\ FormInv => RenderMatches
  <2> SUFFICES ASSUME IInv, FormInv PROVE RenderMatches
    OBVIOUS
  <2> DEFINE s == Listed(segments)
  <2>1. Lists(s, segments)
    BY SegmentsBuffered, ListedLists
  <2>2. nowMs \in Nat
    BY DEF FormInv
  <2> HIDE DEF s
  <2>3. /\ NextEligibleInSlice(s, nowMs) = NextEligibleAt(nowMs)
        /\ {WindowSlice(s, nowMs)[p].index : p \in DOMAIN WindowSlice(s, nowMs)} = WindowAt(nowMs)
        /\ \A p, q \in DOMAIN WindowSlice(s, nowMs) :
              p < q => WindowSlice(s, nowMs)[p].index < WindowSlice(s, nowMs)[q].index
    BY <2>1, <2>2, NextEligibleMatches, WindowMatches
  <2>4. QED
    BY <2>3 DEF RenderMatches, s
<1>2. QED
  BY <1>1, LiveInvariantHolds, FormInvariantHolds, PTL

===============================================================================
