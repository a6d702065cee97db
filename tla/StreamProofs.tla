----------------------------- MODULE StreamProofs -----------------------------
(***************************************************************************)
(* Proofs about Stream, for every number of uploads, fetches and buffers   *)
(* and every value of the limits that Store.Init accepts.                  *)
(***************************************************************************)
EXTENDS Stream, FiniteSetTheorems, TLAPS

-------------------------------------------------------------------------------
(* Facts about the parts of a commit. *)

\* A buffer with a zero reader count is read by no fetch.
LEMMA UnreadBuffer ==
    ASSUME ReadersMatch, NEW s \in Slots, readers[s] = 0, NEW v \in Viewers
    PROVE  reading[v] # s
<1> DEFINE R == {w \in Viewers : reading[w] = s}
<1>1. IsFiniteSet(R) /\ Cardinality(R) = 0
  BY ConstantsAssumption, FS_Subset DEF ReadersMatch
<1>2. R = {}
  BY <1>1, FS_EmptySet
<1>3. QED
  BY <1>2

\* A buffer that a fetch reads has a positive reader count.
LEMMA ReadBuffer ==
    ASSUME TypeOK, ReadersMatch, NEW v \in Viewers, reading[v] # NoSlot
    PROVE  reading[v] \in Slots /\ readers[reading[v]] > 0
<1>1. reading[v] \in Slots /\ readers[reading[v]] \in Nat
  BY DEF TypeOK
<1>2. readers[reading[v]] # 0
  BY <1>1, UnreadBuffer
<1>3. QED
  BY <1>1, <1>2

\* What eviction and the drop take away are two disjoint parts of the list, and
\* nothing evicted is being read.
LEMMA CommitParts ==
    ASSUME TypeOK, NEW index, NEW generation
    PROVE  /\ Evicted \subseteq DOMAIN segments
           /\ Dropped(index, generation) \subseteq DOMAIN segments
           /\ Evicted \cap Dropped(index, generation) = {}
           /\ Retained \ Dropped(index, generation)
                = DOMAIN segments \ (Evicted \cup Dropped(index, generation))
           /\ \A i \in Evicted : readers[segments[i].data] = 0
<1>1. Evicted \subseteq DOMAIN segments
  BY DEF Evicted, Backward
<1>2. /\ Dropped(index, generation) \subseteq DOMAIN segments
      /\ Evicted \cap Dropped(index, generation) = {}
  BY DEF Dropped, Retained
<1>3. Retained \ Dropped(index, generation)
        = DOMAIN segments \ (Evicted \cup Dropped(index, generation))
  BY DEF Retained
<1>4. \A i \in Evicted : i <= i
  BY <1>1, ConstantsAssumption DEF TypeOK
<1>5. \A i \in Evicted : readers[segments[i].data] = 0
  BY <1>4 DEF Evicted
<1>6. QED
  BY <1>1, <1>2, <1>3, <1>5

\* The pool's checks hold throughout a commit: the buffers it returns are
\* checked out, distinct and unread.
LEMMA CommitSound ==
    ASSUME IInv, NEW index, NEW generation
    PROVE  SweepSound /\ ReclaimSound(Evicted, Dropped(index, generation))
<1> DEFINE D == Dropped(index, generation)
<1> USE CommitParts DEF IInv, TypeOK, Segment
<1>1. SweepSound
  BY DEF SweepSound, Swept, CheckedOut, SlotPartition
<1>2. \A i \in DOMAIN segments :
         /\ segments[i].data \in Slots
         /\ segments[i].data \notin free \cup Swept
  BY DEF SlotPartition, DataOf, Swept
<1>3. \A i, j \in DOMAIN segments : segments[i].data = segments[j].data => i = j
  BY DEF SlotPartition
<1>4. Returnable(Evicted, free \cup Swept)
  BY <1>2, <1>3 DEF Returnable, CheckedOut
<1>5. \A i \in D : CheckedOut(segments[i].data, free \cup Swept \cup DataOf(Evicted))
  BY <1>2, <1>3 DEF CheckedOut, DataOf
<1>6. Returnable(Unread(D), free \cup Swept \cup DataOf(Evicted))
  BY <1>3, <1>5 DEF Returnable, Unread
<1>7. QED
  BY <1>1, <1>4, <1>5, <1>6 DEF ReclaimSound

-------------------------------------------------------------------------------
(* Type correctness. *)

\* Init satisfies the type invariant.
LEMMA InitTypeOK == Init => TypeOK
<1> SUFFICES ASSUME Init PROVE TypeOK
  OBVIOUS
<1>1. DOMAIN segments = {} /\ segments \in [DOMAIN segments -> Segment]
  BY DEF Init
<1>2. now \in 0..MaxNow /\ currentGeneration \in Nat /\ DOMAIN segments \subseteq Indices
  BY <1>1, ConstantsAssumption DEF Init
<1>3. /\ free \subseteq Slots /\ pendingFree \subseteq Slots
      /\ readers \in [Slots -> Nat]
      /\ upload \in [Uploaders -> {"idle", "reading", "filled", "rejected"}]
      /\ held \in [Uploaders -> Slots \cup {NoSlot}]
      /\ reading \in [Viewers -> Slots \cup {NoSlot}]
      /\ notifyCh \in BOOLEAN /\ panicked \in BOOLEAN
  BY DEF Init
<1>4. QED
  BY <1>1, <1>2, <1>3 DEF TypeOK

\* A commit keeps the type of the buffer's state, whichever its outcome.
LEMMA CommitTypeOK ==
    ASSUME TypeOK, HandlersOwn, NEW u \in Uploaders, NEW i \in Indices, NEW t \in Timestamps,
           NEW g \in Generations, CommitSlot(u, i, t, g)
    PROVE  TypeOK'
<1> DEFINE K == Retained \ Dropped(i, g)
<1>1. held[u] \in Slots
  BY DEF CommitSlot, HandlersOwn, TypeOK
<1>2. K \subseteq DOMAIN segments /\ \A j \in DOMAIN segments : segments[j] \in Segment
  BY DEF Retained, TypeOK
<1>3. /\ free' \subseteq Slots /\ pendingFree' \subseteq Slots
      /\ upload' \in [Uploaders -> {"idle", "reading", "filled", "rejected"}]
      /\ held' \in [Uploaders -> Slots \cup {NoSlot}]
      /\ currentGeneration' \in Nat /\ notifyCh' \in BOOLEAN /\ panicked' \in BOOLEAN
  <2>1. \A I : I \subseteq DOMAIN segments => DataOf(I) \subseteq Slots
    BY <1>2 DEF DataOf, Segment
  <2>2. \A E, D : E \subseteq DOMAIN segments /\ D \subseteq DOMAIN segments /\ Reclaim(E, D)
           => free' \subseteq Slots /\ pendingFree' \subseteq Slots
    BY <2>1 DEF Reclaim, Swept, Unread, TypeOK
  <2>3. free' \subseteq Slots /\ pendingFree' \subseteq Slots
    BY <2>2, CommitParts DEF CommitSlot
  <2>4. QED
    BY <2>3, ConstantsAssumption DEF CommitSlot, TypeOK
<1>4. DOMAIN segments' \subseteq Indices /\ segments' \in [DOMAIN segments' -> Segment]
  BY <1>1, <1>2 DEF CommitSlot, TypeOK, Segment
<1>5. QED
  BY <1>3, <1>4 DEF CommitSlot, TypeOK

\* Every step keeps the type invariant.  The handlers' ownership says that what
\* is committed or released is a buffer, the matching of readers with fetches
\* that no count falls below zero.
LEMMA NextTypeOK == TypeOK /\ HandlersOwn /\ ReadersMatch /\ [Next]_vars => TypeOK'
<1> SUFFICES ASSUME TypeOK, HandlersOwn, ReadersMatch, [Next]_vars
             PROVE  TypeOK'
  OBVIOUS
<1> USE DEF TypeOK
<1>1. ASSUME NEW u \in Uploaders, AcquireSlot(u)
      PROVE  TypeOK'
  BY <1>1 DEF AcquireSlot, Swept
<1>2. ASSUME NEW u \in Uploaders, ReadFrom(u)
      PROVE  TypeOK'
  BY <1>2 DEF ReadFrom, bufferVars
<1>3. ASSUME NEW u \in Uploaders, NEW i \in Indices, NEW t \in Timestamps,
             NEW g \in Generations, CommitSlot(u, i, t, g)
      PROVE  TypeOK'
  BY <1>3, CommitTypeOK
<1>4. ASSUME NEW u \in Uploaders, ReleaseSlot(u)
      PROVE  TypeOK'
  BY <1>4 DEF ReleaseSlot, HandlersOwn
<1>5. ASSUME NEW v \in Viewers, NEW i \in Indices, Fetch(v, i)
      PROVE  TypeOK'
  BY <1>5 DEF Fetch, Segment
<1>6. ASSUME NEW v \in Viewers, FinishFetch(v)
      PROVE  TypeOK'
  BY <1>6, ReadBuffer DEF FinishFetch
<1>7. CASE Tick
  BY <1>7, ConstantsAssumption DEF Tick, bufferVars, handlerVars
<1>8. CASE UNCHANGED vars
  BY <1>8 DEF vars, bufferVars, handlerVars
<1>9. QED
  BY <1>1, <1>2, <1>3, <1>4, <1>5, <1>6, <1>7, <1>8 DEF Next, Upload, ServeSegment

-------------------------------------------------------------------------------
(* Ownership of the buffers. *)

\* A commit moves the buffers of the segments it removes to the free and the
\* parked list and touches no other: the three stay disjoint and complete.
LEMMA ReclaimMoves ==
    ASSUME IInv, NEW E \in SUBSET DOMAIN segments, NEW D \in SUBSET DOMAIN segments,
           E \cap D = {}, Reclaim(E, D)
    PROVE  LET K == DOMAIN segments \ (E \cup D)
           IN  /\ free' \cap pendingFree' = {}
               /\ DataOf(K) \cap (free' \cup pendingFree') = {}
               /\ free' \cup pendingFree' \cup DataOf(K)
                    = free \cup pendingFree \cup DataOf(DOMAIN segments)
<1> DEFINE K == DOMAIN segments \ (E \cup D)
<1> USE DEF IInv, SlotPartition
<1>1. \A I, J \in SUBSET DOMAIN segments :
         I \cap J = {} => DataOf(I) \cap DataOf(J) = {}
  BY DEF DataOf
<1>2. Unread(D) \subseteq D /\ Swept \subseteq pendingFree
  BY DEF Unread, Swept
<1>3. /\ DataOf(K) \cap DataOf(E) = {} /\ DataOf(K) \cap DataOf(D) = {}
      /\ DataOf(E) \cap DataOf(D) = {}
      /\ DataOf(Unread(D)) \cap DataOf(D \ Unread(D)) = {}
  BY <1>1, <1>2
<1>4. \A I \in SUBSET DOMAIN segments : DataOf(I) \subseteq DataOf(DOMAIN segments)
  BY DEF DataOf
<1>5. /\ DataOf(D) = DataOf(Unread(D)) \cup DataOf(D \ Unread(D))
      /\ DataOf(DOMAIN segments) = DataOf(K) \cup DataOf(E) \cup DataOf(D)
  BY <1>2 DEF DataOf
<1> HIDE DEF K
<1>6. free' \cap pendingFree' = {}
  BY <1>2, <1>3, <1>4, <1>5 DEF Reclaim
<1>7. DataOf(K) \cap (free' \cup pendingFree') = {}
  BY <1>2, <1>3, <1>4, <1>5 DEF Reclaim
<1>8. free' \cup pendingFree' \cup DataOf(K)
        = free \cup pendingFree \cup DataOf(DOMAIN segments)
  BY <1>2, <1>5 DEF Reclaim
<1>9. QED
  BY <1>6, <1>7, <1>8 DEF K

\* A commit's effect on the list and on its upload: the segments E are evicted
\* and D dropped, the rest K stays as it is, and the new segment either joins it
\* with the upload's buffer or is rejected and leaves the buffer to the upload.
Rest(E, D) == DOMAIN segments \ (E \cup D)

Rejected(u, K) ==
    /\ segments' = [j \in K |-> segments[j]]
    /\ held' = held
    /\ upload' = [upload EXCEPT ![u] = "rejected"]

Inserted(u, i, t, g, K) ==
    /\ i \notin K
    /\ segments' = [j \in K \cup {i} |->
                       IF j = i THEN [ts |-> t, gen |-> g, data |-> held[u]]
                                ELSE segments[j]]
    /\ held' = [held EXCEPT ![u] = NoSlot]
    /\ upload' = [upload EXCEPT ![u] = "idle"]

CommitResult(u, i, t, g, E, D) ==
    /\ E \cap D = {}
    /\ \A j \in E : readers[segments[j].data] = 0
    /\ Reclaim(E, D)
    /\ Rejected(u, Rest(E, D)) \/ Inserted(u, i, t, g, Rest(E, D))

\* Every outcome of a commit has such an effect.
LEMMA CommitEffect ==
    ASSUME TypeOK, NEW u \in Uploaders, NEW i \in Indices, NEW t \in Timestamps,
           NEW g \in Generations, CommitSlot(u, i, t, g)
    PROVE  \E E, D \in SUBSET DOMAIN segments : CommitResult(u, i, t, g, E, D)
<1>1. CASE RejectedEarly(t, g)
  <2>1. Rest({}, {}) = DOMAIN segments
    BY DEF Rest
  <2>2. Rejected(u, DOMAIN segments)
    BY <1>1 DEF CommitSlot, Rejected, TypeOK
  <2>3. Reclaim({}, {})
    BY <1>1 DEF CommitSlot
  <2>4. CommitResult(u, i, t, g, {}, {})
    BY <2>1, <2>2, <2>3 DEF CommitResult
  <2>5. QED
    BY <2>4
<1>2. CASE ~RejectedEarly(t, g)
  <2> DEFINE D == Dropped(i, g)
             K == Rest(Evicted, D)
  <2>1. /\ Evicted \in SUBSET DOMAIN segments /\ D \in SUBSET DOMAIN segments
        /\ Evicted \cap D = {} /\ Retained \ D = K
        /\ \A j \in Evicted : readers[segments[j].data] = 0
    BY CommitParts DEF Rest
  <2>2. Reclaim(Evicted, D)
    BY <1>2 DEF CommitSlot
  <2>3. Rejected(u, K) \/ Inserted(u, i, t, g, K)
    <3>1. RejectedLate(i, t, K) => Rejected(u, K)
      BY <1>2, <2>1 DEF CommitSlot, Rejected
    <3>2. ~RejectedLate(i, t, K) => Inserted(u, i, t, g, K)
      BY <1>2, <2>1 DEF CommitSlot, Inserted, RejectedLate
    <3>3. QED
      BY <3>1, <3>2
  <2>4. CommitResult(u, i, t, g, Evicted, D)
    BY <2>1, <2>2, <2>3 DEF CommitResult
  <2>5. QED
    BY <2>1, <2>4
<1>3. QED
  BY <1>1, <1>2

\* A commit keeps every buffer in one place: the upload's buffer moves into the
\* new segment or stays with the upload.
LEMMA CommitPartition ==
    ASSUME IInv, NEW u \in Uploaders, NEW i \in Indices, NEW t \in Timestamps,
           NEW g \in Generations, CommitSlot(u, i, t, g)
    PROVE  SlotPartition' /\ HandlersOwn'
<1>1. PICK E \in SUBSET DOMAIN segments, D \in SUBSET DOMAIN segments :
         CommitResult(u, i, t, g, E, D)
  BY CommitEffect DEF IInv
<1> DEFINE K == Rest(E, D)
           owned == free \cup pendingFree \cup DataOf(DOMAIN segments)
<1>2. /\ free' \cap pendingFree' = {}
      /\ DataOf(K) \cap (free' \cup pendingFree') = {}
      /\ free' \cup pendingFree' \cup DataOf(K) = owned
  BY <1>1, ReclaimMoves DEF CommitResult, Rest
<1>3. /\ \A j, k \in K : segments[j].data = segments[k].data => j = k
      /\ \A w, x \in Holding : held[w] = held[x] => w = x
      /\ SlotsOf(Holding, held) \cap owned = {}
      /\ Slots = owned \cup SlotsOf(Holding, held)
      /\ u \in Holding /\ held \in [Uploaders -> Slots \cup {NoSlot}]
      /\ upload \in [Uploaders -> {"idle", "reading", "filled", "rejected"}]
      /\ HandlersOwn
  BY DEF IInv, SlotPartition, Rest, CommitSlot, HandlersOwn, Holding, TypeOK
<1> HIDE DEF K, owned
<1>4. CASE Rejected(u, K)
  <2>1. DOMAIN segments' = K /\ \A j \in K : segments'[j].data = segments[j].data
    BY <1>4 DEF Rejected
  <2>2. DataOf(DOMAIN segments)' = DataOf(K)
    BY <2>1 DEF DataOf
  <2>3. Holding' = Holding /\ SlotsOf(Holding, held)' = SlotsOf(Holding, held)
    BY <1>4 DEF Rejected, Holding, SlotsOf
  <2>4. SlotPartition'
    BY <1>2, <1>3, <1>4, <2>1, <2>2, <2>3 DEF SlotPartition, Rejected
  <2>5. HandlersOwn'
    BY <1>3, <1>4 DEF Rejected, HandlersOwn, Holding
  <2>6. QED
    BY <2>4, <2>5
<1>5. CASE Inserted(u, i, t, g, K)
  <2>1. /\ DOMAIN segments' = K \cup {i} /\ i \notin K
        /\ segments'[i].data = held[u]
        /\ \A j \in K : segments'[j].data = segments[j].data
    BY <1>5 DEF Inserted
  <2>2. DataOf(DOMAIN segments)' = DataOf(K) \cup {held[u]}
    BY <2>1 DEF DataOf
  <2>3. Holding' = Holding \ {u} /\ \A w \in Holding' : held'[w] = held[w]
    BY <1>3, <1>5, ConstantsAssumption DEF Inserted, Holding
  <2>4. SlotsOf(Holding, held)' = SlotsOf(Holding, held) \ {held[u]}
    BY <1>3, <2>3 DEF SlotsOf
  <2>5. held[u] \in SlotsOf(Holding, held)
    BY <1>3 DEF SlotsOf
  <2>6. SlotPartition'
    <3>1. \A j, k \in DOMAIN segments' : segments'[j].data = segments'[k].data => j = k
      <4>1. \A j \in K : segments[j].data \in owned
        BY <1>2 DEF DataOf
      <4>2. QED
        BY <1>3, <2>1, <2>5, <4>1
    <3>2. \A w, x \in Holding' : held'[w] = held'[x] => w = x
      BY <1>3, <2>3
    <3>3. QED
      BY <1>2, <1>3, <2>2, <2>4, <2>5, <3>1, <3>2 DEF SlotPartition
  <2>7. HandlersOwn'
    BY <1>3, <1>5 DEF Inserted, HandlersOwn, Holding
  <2>8. QED
    BY <2>6, <2>7
<1>6. QED
  BY <1>1, <1>4, <1>5 DEF CommitResult, K

-------------------------------------------------------------------------------
(* The order of the list. *)

\* A set of naturals that is not empty has a least element.
LEMMA LeastNatural ==
    ASSUME NEW T \in SUBSET Nat, T # {}
    PROVE  \E x \in T : \A y \in T : x <= y
<1>1. PICK x \in T : \A y \in T : <<y, x>> \notin OpToRel(<, Nat)
  BY WFMin, NatLessThanWellFounded, Zenon
<1>2. \A y \in T : ~(y < x)
  BY <1>1, Zenon DEF OpToRel
<1>3. \A y \in T : x <= y
  BY <1>2
<1>4. QED
  BY <1>3

\* A finite set of naturals that is not empty has a greatest element.
LEMMA GreatestNatural ==
    ASSUME NEW T \in SUBSET Nat, T # {}, IsFiniteSet(T)
    PROVE  \E x \in T : \A y \in T : y <= x
<1> DEFINE Above(x) == {y \in T : y > x}
           C == {Cardinality(Above(x)) : x \in T}
<1>1. \A x \in T : IsFiniteSet(Above(x)) /\ Cardinality(Above(x)) \in Nat
  <2>1. \A x \in T : IsFiniteSet(Above(x))
    BY FS_Subset
  <2>2. QED
    BY <2>1, FS_CardinalityType
<1>2. PICK x \in T : \A y \in T : Cardinality(Above(x)) <= Cardinality(Above(y))
  <2>1. C \in SUBSET Nat /\ C # {}
    BY <1>1
  <2>2. PICK c \in C : \A d \in C : c <= d
    BY <2>1, LeastNatural
  <2>3. QED
    BY <2>2
<1>3. ASSUME NEW y \in T, y > x PROVE FALSE
  <2>1. /\ \A z \in T : z > y => z > x
        /\ ~(y > y)
    <3>1. \A z \in T : z \in Nat
      OBVIOUS
    <3>2. QED
      BY <1>3, <3>1
  <2>2. Above(y) \subseteq Above(x) /\ y \in Above(x) /\ y \notin Above(y)
    BY <1>3, <2>1
  <2>3. Cardinality(Above(y)) <= Cardinality(Above(x))
        /\ Cardinality(Above(y)) # Cardinality(Above(x))
    BY <1>1, <2>2, FS_Subset
  <2>4. QED
    BY <1>1, <1>2, <2>3
<1>4. QED
  BY <1>3

\* The insertion point has a left neighbour when any segment precedes it, and
\* a right neighbour when any follows.
LEMMA NeighboursExist ==
    ASSUME NEW K \in SUBSET Nat, NEW i \in Nat
    PROVE  /\ (\E j \in K : j < i) => LeftNeighbours(i, K) # {}
           /\ (\E j \in K : j >= i) => RightNeighbours(i, K) # {}
<1>1. ASSUME NEW j \in K, j < i
      PROVE  LeftNeighbours(i, K) # {}
  <2> DEFINE T == {i - k : k \in {x \in K : x < i}}
  <2>1. T \in SUBSET Nat
    OBVIOUS
  <2>2. i - j \in T
    BY <1>1
  <2>3. PICK x \in T : \A y \in T : x <= y
    BY <2>1, <2>2, LeastNatural
  <2>4. PICK m \in K : m < i /\ x = i - m
    BY <2>3
  <2>5. \A k \in K : k < i => k <= m
    BY <2>3, <2>4
  <2>6. QED
    BY <2>4, <2>5 DEF LeftNeighbours
<1>2. ASSUME NEW j \in K, j >= i
      PROVE  RightNeighbours(i, K) # {}
  <2> DEFINE T == {k \in K : k >= i}
  <2>1. PICK x \in T : \A y \in T : x <= y
    BY <1>2, LeastNatural
  <2>2. QED
    BY <2>1 DEF RightNeighbours
<1>3. QED
  BY <1>1, <1>2

\* A segment that passes the two neighbour checks fits between all the segments
\* kept, not only between its neighbours.
LEMMA NeighboursSuffice ==
    ASSUME TypeOK, Ordered, NEW K \in SUBSET DOMAIN segments, NEW i \in Indices,
           NEW t \in Timestamps, ~RejectedLate(i, t, K)
    PROVE  /\ \A j \in K : j < i => segments[j].ts < t
           /\ \A j \in K : i < j => t < segments[j].ts
<1>1. /\ K \in SUBSET Nat /\ i \in Nat /\ t \in Int
      /\ \A j \in K : j \in DOMAIN segments /\ segments[j].ts \in Int
  BY ConstantsAssumption DEF TypeOK, Segment
<1>2. ASSUME NEW j \in K, j < i
      PROVE  segments[j].ts < t
  <2>1. PICK m \in LeftNeighbours(i, K) : TRUE
    BY <1>1, <1>2, NeighboursExist
  <2>2. m \in K /\ j <= m /\ segments[m].ts < t
    BY <1>1, <1>2, <2>1 DEF LeftNeighbours, RejectedLate
  <2>3. segments[j].ts <= segments[m].ts
    BY <1>1, <2>2 DEF Ordered
  <2>4. QED
    BY <1>1, <2>2, <2>3
<1>3. ASSUME NEW j \in K, i < j
      PROVE  t < segments[j].ts
  <2> j >= i
    BY <1>1, <1>3
  <2>1. PICK m \in RightNeighbours(i, K) : TRUE
    BY <1>1, NeighboursExist
  <2>2. m \in K /\ m <= j /\ t < segments[m].ts
    BY <1>1, <1>3, <2>1 DEF RightNeighbours, RejectedLate
  <2>3. segments[m].ts <= segments[j].ts
    BY <1>1, <2>2 DEF Ordered
  <2>4. QED
    BY <1>1, <2>2, <2>3
<1>4. QED
  BY <1>2, <1>3

\* What a commit keeps at or after the insertion point is of its own generation.
LEMMA KeptGeneration ==
    ASSUME TypeOK, GenerationMonotone, NEW i \in Indices, NEW t \in Timestamps,
           NEW g \in Generations, ~RejectedEarly(t, g)
    PROVE  \A j \in Retained \ Dropped(i, g) :
              /\ segments[j].gen \in Nat /\ segments[j].gen <= g
              /\ j >= i => segments[j].gen = g
<1>1. currentGeneration \in Nat /\ g \in Nat /\ currentGeneration <= g
  BY ConstantsAssumption DEF RejectedEarly, TypeOK
<1>2. ASSUME NEW j \in Retained \ Dropped(i, g)
      PROVE  segments[j].gen \in Nat /\ segments[j].gen <= currentGeneration
  BY <1>2, ConstantsAssumption DEF Retained, GenerationMonotone, TypeOK, Segment
<1>3. ASSUME NEW j \in Retained \ Dropped(i, g), j >= i
      PROVE  ~(segments[j].gen < g)
  BY <1>3 DEF Dropped
<1>4. QED
  BY <1>1, <1>2, <1>3

\* A commit keeps the list ordered and its generations monotone, and finite.
LEMMA CommitOrder ==
    ASSUME TypeOK, IsFiniteSet(DOMAIN segments), Ordered, GenerationMonotone,
           NEW u \in Uploaders, NEW i \in Indices, NEW t \in Timestamps, NEW g \in Generations,
           CommitSlot(u, i, t, g)
    PROVE  IsFiniteSet(DOMAIN segments)' /\ Ordered' /\ GenerationMonotone'
<1> DEFINE K == Retained \ Dropped(i, g)
<1>1. K \in SUBSET DOMAIN segments /\ IsFiniteSet(K) /\ K \subseteq Nat /\ i \in Nat
  BY FS_Subset, ConstantsAssumption DEF Retained, TypeOK
<1>2. CASE RejectedEarly(t, g)
  BY <1>2 DEF CommitSlot, Ordered, GenerationMonotone
<1>3. CASE ~RejectedEarly(t, g) /\ RejectedLate(i, t, K)
  <2>1. segments' = [j \in K |-> segments[j]] /\ currentGeneration' = g
    BY <1>3 DEF CommitSlot
  <2>2. Ordered'
    BY <1>1, <2>1 DEF Ordered
  <2>3. GenerationMonotone'
    BY <1>1, <1>3, <2>1, KeptGeneration DEF GenerationMonotone
  <2>4. QED
    BY <1>1, <2>1, <2>2, <2>3
<1>4. CASE ~RejectedEarly(t, g) /\ ~RejectedLate(i, t, K)
  <2>1. /\ segments' = [j \in K \cup {i} |->
              IF j = i THEN [ts |-> t, gen |-> g, data |-> held[u]] ELSE segments[j]]
        /\ currentGeneration' = g
    BY <1>4 DEF CommitSlot
  <2> HIDE DEF K
  <2>2. /\ DOMAIN segments' = K \cup {i}
        /\ segments'[i].ts = t /\ segments'[i].gen = g
        /\ \A j \in K \ {i} : segments'[j] = segments[j]
    BY <2>1
  <2>3. i \notin K
    BY <1>4 DEF RejectedLate
  <2>4. /\ \A j \in K : j < i => segments[j].ts < t
        /\ \A j \in K : i < j => t < segments[j].ts
    BY <1>1, <1>4, NeighboursSuffice
  <2>5. Ordered'
    BY <1>1, <2>2, <2>3, <2>4 DEF Ordered
  <2>6. \A j \in K : /\ segments[j].gen \in Nat /\ segments[j].gen <= g
                     /\ j >= i => segments[j].gen = g
    BY <1>4, KeptGeneration DEF K
  <2>7. \A j, k \in K : j < k => segments[j].gen <= segments[k].gen
    BY <1>1 DEF GenerationMonotone
  <2>8. g \in Nat
    BY ConstantsAssumption
  <2>9. GenerationMonotone'
    BY <1>1, <2>1, <2>2, <2>3, <2>6, <2>7, <2>8 DEF GenerationMonotone
  <2>10. IsFiniteSet(DOMAIN segments')
    BY <1>1, <2>2, FS_AddElement
  <2>11. QED
    BY <2>5, <2>9, <2>10
<1>5. QED
  BY <1>2, <1>3, <1>4

-------------------------------------------------------------------------------
(* The inductive invariant, step by step. *)

\* A commit strands no reader: the buffers it frees are unread, those of dropped
\* segments that are read it parks.
LEMMA CommitReaders ==
    ASSUME IInv, NEW u \in Uploaders, NEW i \in Indices, NEW t \in Timestamps,
           NEW g \in Generations, CommitSlot(u, i, t, g)
    PROVE  ReadersMatch'
<1>1. PICK E \in SUBSET DOMAIN segments, D \in SUBSET DOMAIN segments :
         CommitResult(u, i, t, g, E, D)
  BY CommitEffect DEF IInv
<1>2. readers' = readers /\ reading' = reading
  BY DEF CommitSlot
<1>3. \A j \in Rest(E, D) : j \in DOMAIN segments' /\ segments'[j].data = segments[j].data
  BY <1>1 DEF CommitResult, Rejected, Inserted
<1>4. ASSUME NEW v \in Viewers, reading[v] # NoSlot
      PROVE  reading[v] \in DataOf(DOMAIN segments)' \cup pendingFree'
  <2>1. reading[v] \in Slots /\ readers[reading[v]] > 0
    BY <1>4, ReadBuffer DEF IInv
  <2>2. CASE reading[v] \in pendingFree
    BY <1>1, <2>1, <2>2 DEF CommitResult, Reclaim, Swept
  <2>3. CASE reading[v] \in DataOf(DOMAIN segments)
    <3>1. PICK j \in DOMAIN segments : reading[v] = segments[j].data
      BY <2>3 DEF DataOf
    <3>2. j \notin E
      BY <1>1, <2>1, <3>1 DEF CommitResult
    <3>3. CASE j \in D
      <4>1. j \in D \ Unread(D)
        BY <2>1, <3>1, <3>3 DEF Unread
      <4>2. reading[v] \in pendingFree'
        BY <1>1, <3>1, <4>1 DEF CommitResult, Reclaim, DataOf
      <4>3. QED
        BY <4>2
    <3>4. CASE j \notin D
      BY <1>3, <3>1, <3>2, <3>4 DEF Rest, DataOf
    <3>5. QED
      BY <3>3, <3>4
  <2>4. QED
    BY <1>4, <2>2, <2>3 DEF IInv, ReadersMatch
<1>5. QED
  BY <1>2, <1>4 DEF IInv, ReadersMatch

\* CommitSlot keeps the inductive invariant.
LEMMA CommitSlotInv ==
    ASSUME IInv, NEW u \in Uploaders, NEW i \in Indices, NEW t \in Timestamps,
           NEW g \in Generations, CommitSlot(u, i, t, g)
    PROVE  IInv'
<1>1. NoPanic'
  <2>1. held[u] \in Slots /\ held[u] \notin free \cup Swept
    BY DEF CommitSlot, IInv, TypeOK, HandlersOwn, SlotPartition, Holding, SlotsOf, Swept
  <2>2. QED
    BY <2>1, CommitSound DEF CommitSlot, CheckedOut, NoPanic
<1>2. QED
  BY <1>1, CommitTypeOK, CommitPartition, CommitOrder, CommitReaders DEF IInv

\* AcquireSlot keeps the inductive invariant.
LEMMA AcquireSlotInv ==
    ASSUME IInv, NEW u \in Uploaders, AcquireSlot(u)
    PROVE  IInv'
<1> USE DEF IInv
<1>1. TypeOK'
  BY DEF AcquireSlot, TypeOK, Swept
<1>2. PICK s \in free \cup Swept : free' = (free \cup Swept) \ {s} /\ held' = [held EXCEPT ![u] = s]
  BY DEF AcquireSlot
<1>3. pendingFree' = pendingFree \ Swept /\ segments' = segments /\ held[u] = NoSlot
  BY DEF AcquireSlot, HandlersOwn
<1>4. /\ Holding' = Holding \cup {u} /\ u \notin Holding
      /\ held'[u] = s /\ \A w \in Holding : held'[w] = held[w]
  BY <1>2, <1>3, ConstantsAssumption DEF Holding, TypeOK, Swept
<1>5. SlotsOf(Holding, held)' = SlotsOf(Holding, held) \cup {s}
  BY <1>4 DEF SlotsOf
<1>6. DataOf(DOMAIN segments)' = DataOf(DOMAIN segments)
  BY <1>3 DEF DataOf
<1>7. SlotPartition'
  <2>1. \A w \in Holding : held[w] # s
    BY <1>2 DEF SlotPartition, SlotsOf, Swept
  <2>2. \A w, x \in Holding' : held'[w] = held'[x] => w = x
    BY <1>4, <2>1 DEF SlotPartition
  <2>3. \A i, j \in DOMAIN segments' : segments'[i].data = segments'[j].data => i = j
    BY <1>3 DEF SlotPartition
  <2>4. /\ s \notin SlotsOf(Holding, held) \cup DataOf(DOMAIN segments)
        /\ Swept \subseteq pendingFree
    BY <1>2 DEF SlotPartition, Swept
  <2>5. /\ free' \cap pendingFree' = {}
        /\ DataOf(DOMAIN segments) \cap (free' \cup pendingFree') = {}
        /\ (SlotsOf(Holding, held) \cup {s})
              \cap (free' \cup pendingFree' \cup DataOf(DOMAIN segments)) = {}
    BY <1>2, <1>3, <2>4 DEF SlotPartition
  <2>6. Slots = free' \cup pendingFree' \cup DataOf(DOMAIN segments)
                  \cup SlotsOf(Holding, held) \cup {s}
    BY <1>2, <1>3, <2>4 DEF SlotPartition
  <2>7. QED
    BY <1>5, <1>6, <2>2, <2>3, <2>5, <2>6 DEF SlotPartition
<1>8. HandlersOwn'
  BY <1>1, <1>2, <1>4, ConstantsAssumption DEF HandlersOwn, AcquireSlot, TypeOK, Swept, Holding
<1>9. ReadersMatch'
  <2>1. \A v \in Viewers : reading[v] # NoSlot => reading[v] \notin Swept
    BY ReadBuffer DEF Swept
  <2>2. QED
    BY <1>3, <1>6, <2>1 DEF AcquireSlot, ReadersMatch
<1>10. Ordered' /\ GenerationMonotone' /\ IsFiniteSet(DOMAIN segments)'
  BY DEF AcquireSlot, Ordered, GenerationMonotone
<1>11. NoPanic'
  BY CommitSound DEF AcquireSlot, NoPanic
<1>12. QED
  BY <1>1, <1>7, <1>8, <1>9, <1>10, <1>11

\* ReleaseSlot keeps the inductive invariant.
LEMMA ReleaseSlotInv ==
    ASSUME IInv, NEW u \in Uploaders, ReleaseSlot(u)
    PROVE  IInv'
<1> USE DEF IInv
<1> DEFINE s == held[u]
<1>1. s \in Slots /\ u \in Holding /\ s \in SlotsOf(Holding, held)
  BY DEF ReleaseSlot, HandlersOwn, TypeOK, Holding, SlotsOf
<1>2. TypeOK'
  BY <1>1 DEF ReleaseSlot, TypeOK
<1>3. /\ free' = free \cup {s} /\ pendingFree' = pendingFree /\ segments' = segments
      /\ held' = [held EXCEPT ![u] = NoSlot]
  BY DEF ReleaseSlot
<1>4. Holding' = Holding \ {u} /\ \A w \in Holding' : held'[w] = held[w]
  BY <1>1, <1>3, ConstantsAssumption DEF Holding, TypeOK
<1>5. SlotsOf(Holding, held)' = SlotsOf(Holding, held) \ {s}
  BY <1>1, <1>4 DEF SlotsOf, SlotPartition
<1>6. DataOf(DOMAIN segments)' = DataOf(DOMAIN segments)
  BY <1>3 DEF DataOf
<1>7. SlotPartition'
  <2>1. /\ \A w, x \in Holding' : held'[w] = held'[x] => w = x
        /\ \A i, j \in DOMAIN segments' : segments'[i].data = segments'[j].data => i = j
    BY <1>3, <1>4 DEF SlotPartition
  <2>2. s \notin free \cup pendingFree \cup DataOf(DOMAIN segments)
    BY <1>1 DEF SlotPartition
  <2>3. /\ free' \cap pendingFree' = {}
        /\ DataOf(DOMAIN segments) \cap (free' \cup pendingFree') = {}
    BY <1>3, <2>2 DEF SlotPartition
  <2>4. (SlotsOf(Holding, held) \ {s})
              \cap (free' \cup pendingFree' \cup DataOf(DOMAIN segments)) = {}
    BY <1>3 DEF SlotPartition
  <2>5. Slots = free' \cup pendingFree' \cup DataOf(DOMAIN segments)
                  \cup (SlotsOf(Holding, held) \ {s})
    BY <1>1, <1>3 DEF SlotPartition
  <2> HIDE DEF s
  <2>6. QED
    BY <1>5, <1>6, <2>1, <2>3, <2>4, <2>5 DEF SlotPartition
<1>8. HandlersOwn'
  BY <1>2, ConstantsAssumption DEF HandlersOwn, ReleaseSlot, TypeOK
<1>9. ReadersMatch'
  BY <1>3, <1>6 DEF ReleaseSlot, ReadersMatch
<1>10. Ordered' /\ GenerationMonotone' /\ IsFiniteSet(DOMAIN segments)'
  BY DEF ReleaseSlot, Ordered, GenerationMonotone
<1>11. NoPanic'
  <2>1. s \notin free \cup pendingFree \cup DataOf(DOMAIN segments)
    BY <1>1 DEF SlotPartition
  <2>2. {v \in Viewers : reading[v] = s} = {}
    BY <1>1, <2>1, ConstantsAssumption DEF ReadersMatch
  <2>3. readers[s] = 0
    BY <1>1, <2>2, FS_EmptySet DEF ReadersMatch
  <2>4. QED
    BY <1>1, <2>1, <2>3 DEF ReleaseSlot, CheckedOut, NoPanic
<1>12. QED
  BY <1>2, <1>7, <1>8, <1>9, <1>10, <1>11

\* Fetch keeps the inductive invariant: it counts one more reader of a buffer
\* that a segment owns.
LEMMA FetchInv ==
    ASSUME IInv, NEW v \in Viewers, NEW i \in Indices, Fetch(v, i)
    PROVE  IInv'
<1> USE DEF IInv
<1> DEFINE s == segments[i].data
           R(x) == {w \in Viewers : reading[w] = x}
<1>1. i \in DOMAIN segments /\ s \in Slots /\ s \in DataOf(DOMAIN segments) /\ reading[v] = NoSlot
  BY DEF Fetch, TypeOK, Segment, DataOf
<1>2. TypeOK'
  BY <1>1 DEF Fetch, TypeOK
<1>3. UNCHANGED <<segments, currentGeneration, free, pendingFree, upload, held>>
  BY DEF Fetch
<1>4. SlotPartition' /\ HandlersOwn' /\ Ordered' /\ GenerationMonotone' /\ IsFiniteSet(DOMAIN segments)'
  BY <1>3 DEF SlotPartition, DataOf, SlotsOf, Holding, HandlersOwn, Ordered, GenerationMonotone
<1>5. ReadersMatch'
  <2>1. ASSUME NEW x \in Slots
        PROVE  readers'[x] = Cardinality({w \in Viewers : reading'[w] = x})
    <3>1. IsFiniteSet(R(x)) /\ readers[x] = Cardinality(R(x)) /\ v \notin R(x)
      BY <1>1, ConstantsAssumption, FS_Subset DEF ReadersMatch
    <3>2. {w \in Viewers : reading'[w] = x} = IF x = s THEN R(x) \cup {v} ELSE R(x)
      BY <1>1, ConstantsAssumption DEF Fetch, TypeOK
    <3>3. readers'[x] = IF x = s THEN readers[x] + 1 ELSE readers[x]
      BY <1>1 DEF Fetch, TypeOK
    <3>4. Cardinality(R(x) \cup {v}) = Cardinality(R(x)) + 1
      BY <3>1, FS_AddElement
    <3>5. QED
      BY <3>1, <3>2, <3>3, <3>4
  <2>2. \A w \in Viewers : reading'[w] = IF w = v THEN s ELSE reading[w]
    BY DEF Fetch, TypeOK
  <2>3. \A w \in Viewers : reading'[w] # NoSlot =>
           reading'[w] \in DataOf(DOMAIN segments) \cup pendingFree
    BY <1>1, <2>2 DEF ReadersMatch
  <2>4. DataOf(DOMAIN segments)' = DataOf(DOMAIN segments)
    BY <1>3 DEF DataOf
  <2>5. QED
    BY <1>3, <2>1, <2>3, <2>4 DEF ReadersMatch
<1>6. NoPanic'
  BY <1>1 DEF Fetch, CheckedOut, NoPanic, SlotPartition
<1>7. QED
  BY <1>2, <1>4, <1>5, <1>6

\* FinishFetch keeps the inductive invariant: the count it lowers is positive.
LEMMA FinishFetchInv ==
    ASSUME IInv, NEW v \in Viewers, FinishFetch(v)
    PROVE  IInv'
<1> USE DEF IInv
<1> DEFINE s == reading[v]
           R(x) == {w \in Viewers : reading[w] = x}
<1>1. s \in Slots /\ readers[s] > 0 /\ s # NoSlot
  BY ReadBuffer DEF FinishFetch
<1>2. TypeOK'
  BY <1>1 DEF FinishFetch, TypeOK
<1>3. UNCHANGED <<segments, currentGeneration, free, pendingFree, upload, held>>
  BY DEF FinishFetch
<1>4. SlotPartition' /\ HandlersOwn' /\ Ordered' /\ GenerationMonotone' /\ IsFiniteSet(DOMAIN segments)'
  BY <1>3 DEF SlotPartition, DataOf, SlotsOf, Holding, HandlersOwn, Ordered, GenerationMonotone
<1>5. ReadersMatch'
  <2>1. ASSUME NEW x \in Slots
        PROVE  readers'[x] = Cardinality({w \in Viewers : reading'[w] = x})
    <3>1. IsFiniteSet(R(x)) /\ readers[x] = Cardinality(R(x))
      BY ConstantsAssumption, FS_Subset DEF ReadersMatch
    <3>2. {w \in Viewers : reading'[w] = x} = IF x = s THEN R(x) \ {v} ELSE R(x)
      BY <1>1, ConstantsAssumption DEF FinishFetch, TypeOK
    <3>3. readers'[x] = IF x = s THEN readers[x] - 1 ELSE readers[x]
      BY <1>1 DEF FinishFetch, TypeOK
    <3>4. v \in R(x) => Cardinality(R(x) \ {v}) = Cardinality(R(x)) - 1
      BY <3>1, FS_RemoveElement
    <3>5. QED
      BY <3>1, <3>2, <3>3, <3>4
  <2>2. \A w \in Viewers : reading'[w] # NoSlot => reading'[w] = reading[w]
    BY ConstantsAssumption DEF FinishFetch, TypeOK
  <2>3. DataOf(DOMAIN segments)' = DataOf(DOMAIN segments)
    BY <1>3 DEF DataOf
  <2>4. QED
    BY <1>3, <2>1, <2>2, <2>3 DEF ReadersMatch
<1>6. NoPanic'
  <2>1. readers[s] # 0
    BY <1>1
  <2>2. panicked' = (readers[s] = 0)
    BY DEF FinishFetch
  <2>3. QED
    BY <2>1, <2>2 DEF NoPanic
<1>7. QED
  BY <1>2, <1>4, <1>5, <1>6

\* An evicted segment has more than BackwardBufferSize eligible segments after
\* it, so no playlist window reaches back to it.
LEMMA EvictionBeyondWindow ==
    ASSUME IInv, NEW i \in PublishableWindow
    PROVE  i \notin Evicted
<1> DEFINE B == {j \in Backward : j >= i}
           F == {j \in Eligible : j >= i}
<1>1. B \subseteq F /\ IsFiniteSet(F)
  <2>1. now \in Int /\ MaxLookaheadMs \in Nat /\ \A j \in DOMAIN segments : segments[j].ts \in Int
    BY ConstantsAssumption DEF IInv, TypeOK, Segment
  <2>2. Backward \subseteq Eligible /\ F \subseteq DOMAIN segments
    BY <2>1 DEF Backward, Eligible
  <2>3. QED
    BY <2>2, FS_Subset DEF IInv
<1>2. /\ Cardinality(B) \in Nat /\ Cardinality(F) \in Nat
      /\ Cardinality(B) <= Cardinality(F)
  BY <1>1, FS_Subset, FS_CardinalityType
<1>3. Cardinality(F) <= PlaylistWindowSize
  BY DEF PublishableWindow
<1>4. ~(Cardinality(B) > BackwardBufferSize)
  BY <1>2, <1>3, ConstantsAssumption
<1>5. QED
  BY <1>4 DEF Evicted

\* Reading the body moves one handler on without touching what it holds.
LEMMA ReadFromInv ==
    ASSUME IInv, NEW u \in Uploaders, ReadFrom(u)
    PROVE  IInv'
<1> USE DEF IInv
<1>1. PICK result \in {"filled", "rejected"} : upload' = [upload EXCEPT ![u] = result]
  BY DEF ReadFrom
<1>2. UNCHANGED <<now, segments, currentGeneration, free, pendingFree, readers, held, reading,
                  notifyCh, panicked>>
  BY DEF ReadFrom, bufferVars
<1>3. TypeOK'
  BY <1>1, <1>2 DEF TypeOK, Segment
<1>4. HandlersOwn'
  BY <1>1, <1>2 DEF HandlersOwn, TypeOK, ReadFrom
<1>5. SlotPartition' /\ ReadersMatch' /\ Ordered' /\ GenerationMonotone'
         /\ IsFiniteSet(DOMAIN segments)' /\ NoPanic'
  BY <1>2 DEF SlotPartition, DataOf, SlotsOf, Holding, ReadersMatch, Ordered,
              GenerationMonotone, NoPanic
<1>6. QED
  BY <1>3, <1>4, <1>5

\* A tick moves only the clock.
LEMMA TickInv == ASSUME IInv, Tick PROVE IInv'
<1> USE DEF IInv
<1>1. UNCHANGED <<segments, currentGeneration, free, pendingFree, readers, upload, held, reading,
                  notifyCh, panicked>>
  BY DEF Tick, bufferVars, handlerVars
<1>2. now' \in 0..MaxNow
  BY ConstantsAssumption DEF Tick, TypeOK
<1>3. TypeOK'
  BY <1>1, <1>2 DEF TypeOK, Segment
<1>4. SlotPartition' /\ HandlersOwn' /\ ReadersMatch' /\ Ordered' /\ GenerationMonotone'
         /\ IsFiniteSet(DOMAIN segments)' /\ NoPanic'
  BY <1>1 DEF SlotPartition, DataOf, SlotsOf, Holding, HandlersOwn, ReadersMatch, Ordered,
              GenerationMonotone, NoPanic
<1>5. QED
  BY <1>3, <1>4

\* A stream starts with every buffer in the pool and nobody holding or reading one.
LEMMA InitIInv == ASSUME Init PROVE IInv
<1>1. DOMAIN segments = {} /\ IsFiniteSet(DOMAIN segments)
  BY FS_EmptySet DEF Init
<1>2. DataOf(DOMAIN segments) = {}
  BY <1>1 DEF DataOf
<1>3. Holding = {} /\ SlotsOf(Holding, held) = {}
  BY DEF Init, Holding, SlotsOf
<1>4. SlotPartition
  BY <1>1, <1>2, <1>3 DEF Init, SlotPartition
<1>5. ReadersMatch
  <2>1. ASSUME NEW s \in Slots PROVE readers[s] = Cardinality({v \in Viewers : reading[v] = s})
    <3>1. {v \in Viewers : reading[v] = s} = {}
      BY ConstantsAssumption DEF Init
    <3>2. QED
      BY <3>1, FS_EmptySet DEF Init
  <2>2. QED
    BY <2>1 DEF Init, ReadersMatch
<1>6. Ordered /\ GenerationMonotone /\ HandlersOwn /\ NoPanic
  BY <1>1 DEF Init, Ordered, GenerationMonotone, HandlersOwn, NoPanic
<1>7. QED
  BY <1>1, <1>4, <1>5, <1>6, InitTypeOK DEF IInv

\* Every step of every handler, fetch and tick keeps the inductive invariant.
LEMMA NextIInv == ASSUME IInv, [Next]_vars PROVE IInv'
<1>1. CASE UNCHANGED vars
  <2>1. UNCHANGED <<now, segments, currentGeneration, free, pendingFree, readers, upload, held,
                    reading, notifyCh, panicked>>
    BY <1>1 DEF vars, bufferVars, handlerVars
  <2>2. QED
    BY <2>1 DEF IInv, TypeOK, Segment, SlotPartition, DataOf, SlotsOf, Holding, HandlersOwn,
                ReadersMatch, Ordered, GenerationMonotone, NoPanic
<1>2. ASSUME NEW u \in Uploaders, Upload(u)
      PROVE  IInv'
  <2>1. CASE AcquireSlot(u)
    BY <2>1, AcquireSlotInv
  <2>2. CASE ReadFrom(u)
    BY <2>2, ReadFromInv
  <2>3. ASSUME NEW i \in Indices, NEW t \in Timestamps, NEW g \in Generations, CommitSlot(u, i, t, g)
        PROVE  IInv'
    BY <2>3, CommitSlotInv
  <2>4. CASE ReleaseSlot(u)
    BY <2>4, ReleaseSlotInv
  <2>5. QED
    BY <1>2, <2>1, <2>2, <2>3, <2>4 DEF Upload
<1>3. ASSUME NEW v \in Viewers, FinishFetch(v)
      PROVE  IInv'
  BY <1>3, FinishFetchInv
<1>4. ASSUME NEW v \in Viewers, NEW i \in Indices, Fetch(v, i)
      PROVE  IInv'
  BY <1>4, FetchInv
<1>5. QED
  BY <1>1, <1>2, <1>3, <1>4, TickInv DEF Next, ServeSegment

\* What is known of the segments in the buffer.
LEMMA BufferFacts ==
    ASSUME IInv
    PROVE  /\ DOMAIN segments \in SUBSET Nat /\ IsFiniteSet(DOMAIN segments)
           /\ \A i \in DOMAIN segments : segments[i].ts \in Int /\ segments[i].gen \in Nat
           /\ now \in Nat /\ now <= MaxNow /\ MaxNow \in Nat
           /\ MaxLookaheadMs \in Nat /\ MaxFutureTimestampMs \in Nat
           /\ PlaylistWindowSize \in Nat \ {0} /\ BackwardBufferSize \in Nat \ {0}
           /\ currentGeneration \in Nat
BY ConstantsAssumption DEF IInv, TypeOK, Segment

-------------------------------------------------------------------------------
(* The theorems. *)

\* In every order of the critical sections, for any number of buffers, uploads
\* and viewers, the inductive invariant holds.
THEOREM InvariantHolds == Spec => []IInv
<1>1. Init => IInv
  BY InitIInv
<1>2. IInv /\ [Next]_vars => IInv'
  BY NextIInv
<1>3. QED
  BY <1>1, <1>2, PTL DEF Spec

\* Every variable keeps its type.
THEOREM TypeCorrect == Spec => []TypeOK
<1>1. IInv => TypeOK
  BY DEF IInv
<1>2. QED
  BY <1>1, InvariantHolds, PTL

\* A buffer always has exactly one owner and none is leaked (pool.go's Get and
\* Put against CommitSlot, ReleaseSlot and the sweep).
THEOREM BuffersHaveOneOwner == Spec => []SlotPartition
<1>1. IInv => SlotPartition
  BY DEF IInv
<1>2. QED
  BY <1>1, InvariantHolds, PTL

\* A buffer that a segment fetch is writing out is never in the pool nor being
\* filled by an upload.
THEOREM ReadersKeepTheirBuffer == Spec => []NoReadAfterRecycle
<1>1. IInv => NoReadAfterRecycle
  <2> SUFFICES ASSUME IInv, NEW v \in Viewers, reading[v] # NoSlot
               PROVE  reading[v] \notin free /\ \A u \in Uploaders : held[u] # reading[v]
    BY DEF NoReadAfterRecycle
  <2>1. reading[v] \in DataOf(DOMAIN segments) \cup pendingFree
    BY DEF IInv, ReadersMatch
  <2>2. \A u \in Uploaders : held[u] # NoSlot => held[u] \in SlotsOf(Holding, held)
    BY DEF Holding, SlotsOf
  <2>3. QED
    BY <2>1, <2>2 DEF IInv, SlotPartition
<1>2. QED
  BY <1>1, InvariantHolds, PTL

\* None of the checks of pool.go ever fails, so UnrecoverableGuard never exits
\* the process.
THEOREM PoolChecksHold == Spec => []NoPanic
<1>1. IInv => NoPanic
  BY DEF IInv
<1>2. QED
  BY <1>1, InvariantHolds, PTL

\* CommitSlot keeps index order and timestamp order the same, which every
\* sort.Search over the list presumes.
THEOREM OrderKept == Spec => []Ordered
<1>1. IInv => Ordered
  BY DEF IInv
<1>2. QED
  BY <1>1, InvariantHolds, PTL

\* CommitSlot never lets an older encoding generation follow a newer one.
THEOREM GenerationsKept == Spec => []GenerationMonotone
<1>1. IInv => GenerationMonotone
  BY DEF IInv
<1>2. QED
  BY <1>1, InvariantHolds, PTL

\* No eviction takes a segment that a playlist may list now: only the advance
\* of the generation does.
THEOREM WindowKept == Spec => WindowRetained
<1> DEFINE A == \A i \in PublishableWindow :
                   i \notin DOMAIN segments' => segments[i].gen < currentGeneration'
<1>1. ASSUME IInv, [Next]_vars, NEW i \in PublishableWindow, i \notin DOMAIN segments'
      PROVE  segments[i].gen < currentGeneration'
  <2>1. i \in DOMAIN segments
    BY <1>1 DEF PublishableWindow, Eligible
  <2>2. PICK u \in Uploaders, k \in Indices, t \in Timestamps, g \in Generations :
           CommitSlot(u, k, t, g)
    BY <1>1, <2>1 DEF Next, Upload, ServeSegment, AcquireSlot, ReadFrom, ReleaseSlot, Fetch, FinishFetch, Tick,
                      vars, bufferVars
  <2>3. ~RejectedEarly(t, g) /\ currentGeneration' = g
    BY <1>1, <2>1, <2>2 DEF CommitSlot
  <2>4. i \notin Retained \ Dropped(k, g)
    BY <1>1, <2>1, <2>2, <2>3 DEF CommitSlot
  <2>5. i \notin Evicted
    BY <1>1, EvictionBeyondWindow
  <2>6. QED
    BY <2>1, <2>3, <2>4, <2>5 DEF Retained, Dropped
<1>2. IInv /\ [Next]_vars => A
  BY <1>1
<1>3. IInv /\ [Next]_vars => [A]_vars
  BY <1>2
<1>4. QED
  BY <1>3, InvariantHolds, PTL DEF Spec, WindowRetained

===============================================================================
