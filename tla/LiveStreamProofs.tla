--------------------------- MODULE LiveStreamProofs ---------------------------
(***************************************************************************)
(* Proofs about LiveStream: the buffer keeps its invariant with a renderer *)
(* at work, and buffer and renderer together implement StreamLife.         *)
(***************************************************************************)
EXTENDS LiveStream, StreamProofs

-------------------------------------------------------------------------------
(* The buffer under the renderer. *)

\* The renderer's own steps touch nothing of the buffer but its notification.
LEMMA LoopLeavesBuffer ==
    ASSUME IInv, Loop \/ CloseDone \/ UNCHANGED liveVars
    PROVE  IInv'
<1> USE DEF IInv
<1>1. UNCHANGED <<now, segments, currentGeneration, free, pendingFree, readers, upload, held,
                  reading, panicked>>
  BY DEF Loop, ReadClock, Render, StoreSnapshot, Announce, Arm, Wake, Stop, Drain, CloseDone,
         streamVars, liveVars, vars, bufferVars, handlerVars
<1>2. notifyCh' \in BOOLEAN
  <2>1. notifyCh' = notifyCh \/ notifyCh' = FALSE
    BY DEF Loop, ReadClock, Render, StoreSnapshot, Announce, Arm, Wake, Stop, Drain, CloseDone,
           liveVars, vars
  <2>2. QED
    BY <2>1 DEF TypeOK
<1>3. TypeOK'
  BY <1>1, <1>2 DEF TypeOK, Segment
<1>4. SlotPartition' /\ HandlersOwn' /\ ReadersMatch' /\ Ordered' /\ GenerationMonotone'
         /\ IsFiniteSet(DOMAIN segments)' /\ NoPanic'
  BY <1>1 DEF SlotPartition, DataOf, SlotsOf, Holding, HandlersOwn, ReadersMatch, Ordered,
              GenerationMonotone, NoPanic
<1>5. QED
  BY <1>3, <1>4

\* With the renderer and Store.Delete at work, the buffer's invariant holds all
\* the same.
THEOREM LiveInvariantHolds == LiveSpec => []IInv
<1>1. LiveInit => IInv
  BY InitIInv DEF LiveInit
<1>2. IInv /\ [LiveNext]_liveVars => IInv'
  BY NextIInv, LoopLeavesBuffer DEF LiveNext
<1>3. QED
  BY <1>1, <1>2, PTL DEF LiveSpec

-------------------------------------------------------------------------------
(* The refinement. *)

\* Where the renderer is in its loop tells what has been announced: a snapshot
\* is cached and hasPlaylist still open only just before Announce, which tests
\* the very snapshot that was cached.
LifeInv ==
    /\ hasPlaylist \in BOOLEAN /\ done \in BOOLEAN
    /\ renderer = "announce" => cachedPlaylist = snap
    /\ renderer # "announce" /\ cachedPlaylist # NoPlaylist => hasPlaylist
    /\ renderer = "stopped" => done

\* LifeInv holds from the start.
LEMMA LifeInvInit == ASSUME LiveInit PROVE LifeInv
BY DEF LiveInit, LifeInv

\* Every step of LiveStream keeps LifeInv.
LEMMA LifeInvNext == ASSUME LifeInv, [LiveNext]_liveVars PROVE LifeInv'
<1> USE DEF LifeInv
<1>1. CASE UNCHANGED liveVars \/ UNCHANGED rendererVars
  BY <1>1 DEF liveVars, rendererVars
<1>2. CASE ReadClock \/ Render \/ Arm \/ Wake \/ Drain
  BY <1>2 DEF ReadClock, Render, Arm, Wake, Drain
<1>3. CASE StoreSnapshot
  BY <1>3 DEF StoreSnapshot
<1>4. CASE Announce
  BY <1>4 DEF Announce
<1>5. CASE Stop
  BY <1>5 DEF Stop
<1>6. CASE CloseDone
  BY <1>6 DEF CloseDone
<1>7. QED
  BY <1>1, <1>2, <1>3, <1>4, <1>5, <1>6 DEF LiveNext, Loop

\* Every step of LiveStream is a step of a stream's life or leaves it alone.
LEMMA StepImplementsLife ==
    ASSUME LifeInv, [LiveNext]_liveVars
    PROVE  [Life!Next]_Life!lifeVars
<1> USE DEF LifeInv, Life!lifeVars
<1>1. CASE UNCHANGED liveVars \/ UNCHANGED rendererVars
  BY <1>1 DEF liveVars, rendererVars
<1>2. CASE ReadClock \/ Render \/ Arm \/ Wake \/ Drain
  BY <1>2 DEF ReadClock, Render, Arm, Wake, Drain
<1>3. CASE StoreSnapshot
  BY <1>3 DEF StoreSnapshot, Life!Next, Life!Store
<1>4. CASE Announce
  BY <1>4 DEF Announce, Life!Next, Life!Announce
<1>5. CASE Stop
  BY <1>5 DEF Stop, Life!Next, Life!Stop
<1>6. CASE CloseDone
  BY <1>6 DEF CloseDone, Life!Next, Life!CloseDone
<1>7. QED
  BY <1>1, <1>2, <1>3, <1>4, <1>5, <1>6 DEF LiveNext, Loop

\* Buffer and renderer implement the life of a stream that Store.Delete and the
\* long-poll rely on.
THEOREM LifeImplemented == LiveSpec => ImplementsLife
<1>1. LiveInit => LifeInv
  BY LifeInvInit
<1>2. LifeInv /\ [LiveNext]_liveVars => LifeInv'
  BY LifeInvNext
<1>3. LiveInit => Life!Init
  BY DEF LiveInit, Life!Init
<1>4. LifeInv /\ [LiveNext]_liveVars => [Life!Next]_Life!lifeVars
  BY StepImplementsLife
<1>5. QED
  BY <1>1, <1>2, <1>3, <1>4, PTL DEF LiveSpec, ImplementsLife, Life!Spec

-------------------------------------------------------------------------------
(* The window of a playlist. *)

\* The first and the last index of a playlist that lists something.
LEMMA FirstAndLast ==
    ASSUME NEW p, DOMAIN p \in SUBSET Nat, IsFiniteSet(DOMAIN p), DOMAIN p # {}
    PROVE  /\ FirstOf(p) \in DOMAIN p /\ \A i \in DOMAIN p : FirstOf(p) <= i
           /\ LastOf(p) \in DOMAIN p /\ \A i \in DOMAIN p : LastOf(p) >= i
<1>1. \E i \in DOMAIN p : \A j \in DOMAIN p : i <= j
  BY LeastNatural
<1>2. \E i \in DOMAIN p : \A j \in DOMAIN p : i >= j
  BY GreatestNatural
<1>3. FirstOf(p) \in DOMAIN p /\ \A i \in DOMAIN p : FirstOf(p) <= i
  BY <1>1 DEF FirstOf
<1>4. LastOf(p) \in DOMAIN p /\ \A i \in DOMAIN p : LastOf(p) >= i
  BY <1>2 DEF LastOf
<1>5. QED
  BY <1>3, <1>4

\* The candidates of a render: the last eligible segments, gaps included.
LastAt(t) ==
    {i \in EligibleAt(t) : Cardinality({j \in EligibleAt(t) : j >= i}) <= PlaylistWindowSize}

\* They are the topmost eligible segments, and no more than the window holds.
LEMMA Candidates ==
    ASSUME IInv, NEW t \in Int
    PROVE  /\ LastAt(t) \subseteq EligibleAt(t) /\ EligibleAt(t) \subseteq DOMAIN segments
           /\ EligibleAt(t) \in SUBSET Nat /\ IsFiniteSet(EligibleAt(t))
           /\ IsFiniteSet(LastAt(t)) /\ Cardinality(LastAt(t)) <= PlaylistWindowSize
           /\ \A i \in LastAt(t), j \in EligibleAt(t) : j >= i => j \in LastAt(t)
           /\ EligibleAt(t) # {} => LastAt(t) # {}
<1> DEFINE E == EligibleAt(t)
           From(i) == {j \in E : j >= i}
<1>1. E \subseteq DOMAIN segments /\ E \in SUBSET Nat /\ IsFiniteSet(E) /\ LastAt(t) \subseteq E
  BY BufferFacts, FS_Subset DEF EligibleAt, LastAt
<1>2. \A i \in LastAt(t) : Cardinality(From(i)) <= PlaylistWindowSize
  BY DEF LastAt
<1>3. \A i \in E : Cardinality(From(i)) <= PlaylistWindowSize => i \in LastAt(t)
  BY DEF LastAt
<1> HIDE DEF E
<1>4. \A i \in Nat : IsFiniteSet(From(i)) /\ Cardinality(From(i)) \in Nat
  <2>1. \A i \in Nat : IsFiniteSet(From(i))
    BY <1>1, FS_Subset
  <2>2. QED
    BY <2>1, FS_CardinalityType
<1>5. IsFiniteSet(LastAt(t))
  BY <1>1, FS_Subset
<1>6. Cardinality(LastAt(t)) <= PlaylistWindowSize
  <2>1. CASE LastAt(t) = {}
    BY <2>1, FS_EmptySet, BufferFacts
  <2>2. CASE LastAt(t) # {}
    <3>1. PICK m \in LastAt(t) : \A i \in LastAt(t) : m <= i
      BY <1>1, <2>2, LeastNatural
    <3>2. LastAt(t) \subseteq From(m) /\ m \in Nat
      BY <1>1, <3>1
    <3>3. Cardinality(LastAt(t)) <= Cardinality(From(m)) /\ Cardinality(LastAt(t)) \in Nat
      BY <1>4, <1>5, <3>2, FS_Subset, FS_CardinalityType
    <3>4. QED
      BY <1>2, <1>4, <3>2, <3>3, BufferFacts
  <2>3. QED
    BY <2>1, <2>2
<1>7. ASSUME NEW i \in LastAt(t), NEW j \in E, j >= i PROVE j \in LastAt(t)
  <2>1. i \in Nat /\ j \in Nat /\ \A k \in E : k \in Nat
    BY <1>1
  <2>2. From(j) \subseteq From(i)
    <3>1. \A k \in E : k >= j => k >= i
      BY <1>7, <2>1
    <3>2. QED
      BY <3>1
  <2>3. Cardinality(From(j)) <= Cardinality(From(i))
    BY <1>4, <2>1, <2>2, FS_Subset
  <2>4. Cardinality(From(i)) \in Nat /\ Cardinality(From(j)) \in Nat
        /\ Cardinality(From(i)) <= PlaylistWindowSize /\ PlaylistWindowSize \in Nat
    BY <1>2, <1>4, <2>1, BufferFacts
  <2> HIDE DEF From
  <2>5. Cardinality(From(j)) <= PlaylistWindowSize
    BY <2>3, <2>4
  <2>6. QED
    BY <1>3, <2>5 DEF From
<1>8. ASSUME E # {} PROVE LastAt(t) # {}
  <2>1. PICK m \in E : \A i \in E : i <= m
    BY <1>1, <1>8, GreatestNatural
  <2>2. From(m) = {m}
    BY <1>1, <2>1
  <2>3. Cardinality(From(m)) = 1
    BY <2>2, FS_Singleton
  <2>4. QED
    BY <1>3, <2>3, BufferFacts
<1>9. QED
  BY <1>1, <1>5, <1>6, <1>7, <1>8 DEF E

\* The window is the run of candidates from the first one on.
LEMMA WindowIsRun ==
    ASSUME IInv, NEW t \in Int
    PROVE  /\ WindowAt(t) \subseteq LastAt(t)
           /\ EligibleAt(t) # {} =>
                \E m \in WindowAt(t) :
                   /\ \A i \in LastAt(t) : m <= i
                   /\ \A i \in LastAt(t) : i \in WindowAt(t) <=> m..i \subseteq LastAt(t)
<1> DEFINE R == LastAt(t)
<1>1. WindowAt(t) = {i \in R : \A j \in R : j <= i => j..i \subseteq R}
  BY DEF WindowAt, LastAt
<1>2. R \in SUBSET Nat /\ (EligibleAt(t) # {} => R # {})
  BY Candidates
<1> HIDE DEF R
<1>3. ASSUME EligibleAt(t) # {}
      PROVE  \E m \in WindowAt(t) :
                /\ \A i \in R : m <= i
                /\ \A i \in R : i \in WindowAt(t) <=> m..i \subseteq R
  <2>1. PICK m \in R : \A i \in R : m <= i
    BY <1>2, <1>3, LeastNatural
  <2>2. \A j \in R : j <= m => j..m \subseteq R
    BY <1>2, <2>1
  <2>3. \A i \in R : i \in WindowAt(t) <=> m..i \subseteq R
    BY <1>1, <1>2, <2>1
  <2>4. QED
    BY <1>1, <2>1, <2>2, <2>3
<1>4. QED
  BY <1>1, <1>3 DEF R

\* An unbroken run of at most PlaylistWindowSize indices in time order.
WellFormed(p) ==
    /\ DOMAIN p \subseteq Nat /\ IsFiniteSet(DOMAIN p)
    /\ Cardinality(DOMAIN p) <= PlaylistWindowSize
    /\ \A i \in DOMAIN p : p[i] \in [ts : Int, gen : Nat]
    /\ DOMAIN p = {} => p = NoPlaylist
    /\ DOMAIN p # {} => DOMAIN p = FirstOf(p)..LastOf(p)
    /\ \A i, j \in DOMAIN p : i < j => p[i].ts < p[j].ts

\* What a render produces is such a run, for any reading of the clock.
LEMMA SnapshotWellFormed ==
    ASSUME IInv, NEW t \in Int
    PROVE  WellFormed(SnapshotAt(t)) /\ DOMAIN SnapshotAt(t) = WindowAt(t)
<1> DEFINE p == SnapshotAt(t)
           R == LastAt(t)
           W == WindowAt(t)
<1>1. /\ DOMAIN p = W /\ (W = {} => p = NoPlaylist)
      /\ \A i \in W : p[i].ts = segments[i].ts
  BY DEF SnapshotAt, NoPlaylist
<1>2. W \subseteq R /\ R \subseteq DOMAIN segments /\ R \in SUBSET Nat
      /\ IsFiniteSet(R) /\ Cardinality(R) <= PlaylistWindowSize
  BY WindowIsRun, Candidates
<1>3. IsFiniteSet(W) /\ W \in SUBSET Nat /\ Cardinality(W) <= Cardinality(R)
      /\ Cardinality(W) \in Nat /\ Cardinality(R) \in Nat
  BY <1>2, FS_Subset, FS_CardinalityType
<1>4. \A i, j \in W : i < j => p[i].ts < p[j].ts
  BY <1>1, <1>2 DEF IInv, Ordered
<1>5. ASSUME W # {} PROVE W = FirstOf(p)..LastOf(p)
  <2>1. EligibleAt(t) # {}
    BY <1>2, <1>5, Candidates
  <2>2. PICK m \in W : /\ \A i \in R : m <= i
                       /\ \A i \in R : i \in W <=> m..i \subseteq R
    BY <2>1, WindowIsRun
  <2>3. /\ FirstOf(p) \in W /\ \A i \in W : FirstOf(p) <= i
        /\ LastOf(p) \in W /\ \A i \in W : LastOf(p) >= i
    BY <1>1, <1>3, <1>5, FirstAndLast
  <2> DEFINE a == FirstOf(p)
             b == LastOf(p)
  <2> HIDE DEF a, b, W, R, p
  <2>4. m = a /\ a \in Nat /\ b \in Nat
    <3>1. a \in W /\ b \in W /\ m \in W /\ m <= a /\ a <= m
      BY <1>2, <2>2, <2>3 DEF a, b
    <3>2. \A k \in W : k \in Nat
      BY <1>3
    <3>3. QED
      BY <3>1, <3>2
  <2>5. m..b \subseteq R
    BY <1>2, <2>2, <2>3 DEF b
  <2>6. ASSUME NEW k \in a..b PROVE k \in W
    <3>1. k \in R /\ m..k \subseteq m..b
      BY <2>4, <2>5, <2>6
    <3>2. QED
      BY <2>2, <2>5, <3>1
  <2>7. W \subseteq a..b
    BY <1>3, <2>3 DEF a, b
  <2>8. QED
    BY <2>6, <2>7 DEF a, b
<1>6. Cardinality(W) <= PlaylistWindowSize
  BY <1>2, <1>3, BufferFacts
<1>7. \A i \in W : p[i] \in [ts : Int, gen : Nat]
  BY <1>1, <1>2, BufferFacts DEF SnapshotAt
<1>8. QED
  BY <1>1, <1>3, <1>4, <1>5, <1>6, <1>7 DEF WellFormed

-------------------------------------------------------------------------------
(* What the buffer's steps do to the list. *)

\* A commit that gets past the early rejections: what it keeps stays as it is,
\* and the new segment joins it, with a notification, or is rejected.
CommitsTo(u, i, t, g, K) ==
    /\ K = Retained \ Dropped(i, g)
    /\ now' = now /\ currentGeneration' = g /\ currentGeneration <= g
    /\ t >= now \/ DOMAIN segments = {}
    /\ \/ segments' = [j \in K |-> segments[j]] /\ notifyCh' = notifyCh
       \/ /\ ~RejectedLate(i, t, K) /\ i \notin K /\ notifyCh' = TRUE
          /\ segments' = [j \in K \cup {i} |->
                             IF j = i THEN [ts |-> t, gen |-> g, data |-> held[u]]
                                      ELSE segments[j]]

\* Only commits and the clock change what a render sees.
LEMMA NextOnBuffer ==
    ASSUME IInv, [Next]_vars
    PROVE  \/ UNCHANGED <<now, segments, currentGeneration, notifyCh>>
           \/ Tick
           \/ \E u \in Uploaders, i \in Indices, t \in Timestamps, g \in Generations :
                 \E K \in SUBSET DOMAIN segments : CommitsTo(u, i, t, g, K)
<1>1. CASE UNCHANGED vars \/ \E v \in Viewers : ServeSegment(v)
  BY <1>1 DEF vars, bufferVars, ServeSegment, Fetch, FinishFetch
<1>2. ASSUME NEW u \in Uploaders, AcquireSlot(u) \/ ReadFrom(u) \/ ReleaseSlot(u)
      PROVE  UNCHANGED <<now, segments, currentGeneration, notifyCh>>
  BY <1>2 DEF AcquireSlot, ReadFrom, ReleaseSlot, bufferVars
<1>3. ASSUME NEW u \in Uploaders, NEW i \in Indices, NEW t \in Timestamps, NEW g \in Generations,
             CommitSlot(u, i, t, g)
      PROVE  \/ UNCHANGED <<now, segments, currentGeneration, notifyCh>>
             \/ \E K \in SUBSET DOMAIN segments : CommitsTo(u, i, t, g, K)
  <2> DEFINE K == Retained \ Dropped(i, g)
  <2>1. CASE RejectedEarly(t, g)
    BY <1>3, <2>1 DEF CommitSlot
  <2>2. CASE ~RejectedEarly(t, g)
    <3>1. K \in SUBSET DOMAIN segments
      BY DEF Retained
    <3>2. currentGeneration <= g /\ (t >= now \/ DOMAIN segments = {})
      <4>1. t \in Int /\ g \in Nat /\ now \in Nat /\ currentGeneration \in Nat
        BY ConstantsAssumption, BufferFacts
      <4>2. ~(currentGeneration > g) /\ (~(t < now) \/ DOMAIN segments = {})
        BY <2>2 DEF RejectedEarly
      <4>3. QED
        BY <4>1, <4>2
    <3>3. ~RejectedLate(i, t, K) => i \notin K
      BY DEF RejectedLate
    <3>4. CommitsTo(u, i, t, g, K)
      BY <1>3, <2>2, <3>2, <3>3 DEF CommitSlot, CommitsTo
    <3>5. QED
      BY <3>1, <3>4
  <2>3. QED
    BY <2>1, <2>2
<1>4. QED
  BY <1>1, <1>2, <1>3 DEF Next, Upload

\* With one generation, a commit drops nothing.
LEMMA NothingDropped ==
    ASSUME IInv, currentGeneration = 0, NEW i
    PROVE  Dropped(i, 0) = {}
BY BufferFacts DEF Dropped, Retained, IInv, GenerationMonotone

\* Eviction takes the oldest segments, all of them of the past.
LEMMA EvictedOldest ==
    ASSUME IInv, NEW i \in Evicted
    PROVE  /\ i \in DOMAIN segments /\ segments[i].ts < now
           /\ \A j \in DOMAIN segments : j < i => j \in Evicted
<1> DEFINE From(j) == {k \in Backward : k >= j}
<1>1. /\ i \in DOMAIN segments /\ segments[i].ts < now
      /\ Backward \subseteq DOMAIN segments /\ IsFiniteSet(Backward)
      /\ Cardinality(From(i)) > BackwardBufferSize
      /\ \A j \in Backward : j <= i => readers[segments[j].data] = 0
  BY BufferFacts, FS_Subset DEF Evicted, Backward
<1>2. ASSUME NEW j \in DOMAIN segments, j < i PROVE j \in Evicted
  <2>1. \A k \in DOMAIN segments : k \in Nat /\ segments[k].ts \in Int
    BY BufferFacts
  <2>2. j \in Backward
    BY <1>1, <1>2, <2>1, BufferFacts DEF Backward, IInv, Ordered
  <2>3. From(i) \subseteq From(j) /\ IsFiniteSet(From(j))
    <3>1. \A k \in Backward : k >= i => k >= j
      BY <1>1, <1>2, <2>1
    <3>2. QED
      BY <1>1, <3>1, FS_Subset
  <2>4. /\ Cardinality(From(i)) <= Cardinality(From(j))
        /\ Cardinality(From(i)) \in Nat /\ Cardinality(From(j)) \in Nat
    BY <2>3, FS_Subset, FS_CardinalityType
  <2>5. Cardinality(From(j)) > BackwardBufferSize
    <3> HIDE DEF From
    <3>1. QED
      BY <1>1, <2>4, BufferFacts
  <2>6. \A k \in Backward : k <= j => readers[segments[k].data] = 0
    BY <1>1, <1>2, <2>1
  <2>7. QED
    BY <2>2, <2>5, <2>6 DEF Evicted
<1>3. QED
  BY <1>1, <1>2

\* The latest segment of the past is not evicted.
LEMMA PastRemains ==
    ASSUME IInv, NEW i \in Backward
    PROVE  \E k \in Retained : segments[k].ts < now /\ k >= i
<1>1. Backward \in SUBSET Nat /\ IsFiniteSet(Backward)
  BY BufferFacts, FS_Subset DEF Backward
<1>2. PICK k \in Backward : \A j \in Backward : j <= k
  BY <1>1, GreatestNatural
<1>3. {j \in Backward : j >= k} = {k}
  <2>1. \A j \in Backward : j \in Nat /\ (j >= k <=> j = k)
    BY <1>1, <1>2
  <2>2. QED
    BY <2>1
<1>4. k \notin Evicted
  <2>1. Cardinality({j \in Backward : j >= k}) = 1
    BY <1>3, FS_Singleton
  <2>2. QED
    BY <2>1, BufferFacts DEF Evicted
<1>5. QED
  BY <1>1, <1>2, <1>4 DEF Retained, Backward

\* What a commit evicts, no playlist of the present lists: a render would
\* produce the same without it.
LEMMA EvictionKeepsSnapshot ==
    ASSUME IInv, now' = now, segments' = [j \in Retained |-> segments[j]]
    PROVE  SnapshotAt(now)' = SnapshotAt(now)
<1> DEFINE E == EligibleAt(now)
           Em == EligibleAt(now)'
<1>1. now \in Int /\ E \in SUBSET Nat /\ E \subseteq DOMAIN segments
  BY BufferFacts, Candidates
<1>2. Em = E \ Evicted
  BY DEF EligibleAt, Retained
<1>3. \A i \in Em : {j \in Em : j >= i} = {j \in E : j >= i}
  <2>1. SUFFICES ASSUME NEW i \in Em, NEW j \in E, j >= i PROVE j \in Em
    BY <1>2
  <2>2. j \in Evicted => i \in Evicted
    <3>1. i \in Nat /\ j \in Nat /\ i \in DOMAIN segments
      BY <1>1, <1>2, <2>1
    <3>2. CASE i = j
      BY <3>2
    <3>3. CASE i < j
      BY <3>1, <3>3, EvictedOldest
    <3>4. QED
      BY <2>1, <3>1, <3>2, <3>3
  <2>3. QED
    BY <1>2, <2>1, <2>2
<1>4. LastAt(now) \cap Evicted = {}
  BY EvictionBeyondWindow DEF PublishableWindow, Eligible, LastAt, EligibleAt
<1>5. LastAt(now)' = LastAt(now)
  <2>1. LastAt(now)' = {i \in Em : Cardinality({j \in Em : j >= i}) <= PlaylistWindowSize}
    BY DEF LastAt
  <2>2. LastAt(now) = {i \in E : Cardinality({j \in E : j >= i}) <= PlaylistWindowSize}
    BY DEF LastAt
  <2> HIDE DEF E, Em
  <2>3. QED
    BY <1>2, <1>3, <1>4, <2>1, <2>2
<1>6. /\ WindowAt(now) = {i \in LastAt(now) : \A j \in LastAt(now) : j <= i => j..i \subseteq LastAt(now)}
      /\ WindowAt(now)' = {i \in LastAt(now)' : \A j \in LastAt(now)' : j <= i => j..i \subseteq LastAt(now)'}
  BY DEF WindowAt, LastAt
<1>7. WindowAt(now)' = WindowAt(now) /\ WindowAt(now) \subseteq LastAt(now)
  BY <1>5, <1>6
<1>8. \A i \in WindowAt(now) : segments'[i] = segments[i]
  <2>1. \A i \in WindowAt(now) : i \in Retained
    BY <1>1, <1>4, <1>7, Candidates DEF Retained
  <2>2. QED
    BY <2>1
<1>9. QED
  BY <1>7, <1>8 DEF SnapshotAt

-------------------------------------------------------------------------------
(* No lost wake-up. *)

\* What a render is due to be repeated for: the next segment's crossing.
Due == IF nextEligible = 0 THEN Never ELSE nextEligible - MaxLookaheadMs

\* Until due, a render now would produce p, and so would one at any time before:
\* no segment crosses the look-ahead in between.
Fresh(p, due) ==
    now < due =>
        /\ p = SnapshotAt(now)
        /\ \A i \in DOMAIN segments :
              segments[i].ts <= now + MaxLookaheadMs \/ segments[i].ts - MaxLookaheadMs >= due

\* A renderer that nobody has notified has what a render would produce, from the
\* render on to the end of the sleep, as long as there is one generation.
WakeInv ==
    /\ nowMs \in Nat /\ nextEligible \in Nat /\ wakeAt \in Int
    /\ renderer = "render" => nowMs <= now
    /\ OneGeneration /\ ~notifyCh =>
          /\ renderer = "store" => Fresh(snap, Due)
          /\ renderer \in {"announce", "arm"} => Fresh(cachedPlaylist, Due)
          /\ renderer = "wait" => Fresh(cachedPlaylist, wakeAt)

\* The clock, if it is not set back, only moves forward.
LEMMA ClockForward ==
    ASSUME IInv, ~ClockStepsBack, Tick
    PROVE  now' = now + 1 /\ UNCHANGED <<segments, currentGeneration, notifyCh>>
BY DEF Tick, bufferVars

\* No step of the buffer turns time back.
LEMMA TimeForward ==
    ASSUME IInv, ~ClockStepsBack, [Next]_vars
    PROVE  now' \in Nat /\ now <= now'
<1>1. now \in Nat
  BY BufferFacts
<1>2. CASE Tick
  BY <1>1, <1>2, ClockForward
<1>3. CASE now' = now
  BY <1>1, <1>3
<1>4. QED
  BY <1>2, <1>3, NextOnBuffer DEF CommitsTo

\* Generations only grow.
LEMMA GenerationForward ==
    ASSUME IInv, [Next]_vars
    PROVE  currentGeneration' \in Nat /\ currentGeneration <= currentGeneration'
<1>1. currentGeneration \in Nat
  BY BufferFacts
<1>2. CASE \E u \in Uploaders, i \in Indices, t \in Timestamps, g \in Generations :
              \E K \in SUBSET DOMAIN segments : CommitsTo(u, i, t, g, K)
  BY <1>2, ConstantsAssumption DEF CommitsTo
<1>3. CASE Tick \/ UNCHANGED currentGeneration
  BY <1>1, <1>3 DEF Tick, bufferVars
<1>4. QED
  BY <1>2, <1>3, NextOnBuffer

\* The eligible segments decide what a render produces.
LEMMA EligibleDecide ==
    ASSUME NEW s, NEW t, EligibleAt(s) = EligibleAt(t)
    PROVE  SnapshotAt(s) = SnapshotAt(t)
BY DEF SnapshotAt, WindowAt

\* Until a notification, the due time or a new generation, no step of the buffer
\* changes what a render produces.
LEMMA ViewKept ==
    ASSUME IInv, IInv', [Next]_vars, ~ClockStepsBack,
           OneGeneration', ~notifyCh', NEW due \in Int, now' < due,
           \A i \in DOMAIN segments :
              segments[i].ts <= now + MaxLookaheadMs \/ segments[i].ts - MaxLookaheadMs >= due
    PROVE  /\ now < due
           /\ SnapshotAt(now)' = SnapshotAt(now)
           /\ \A i \in DOMAIN segments' :
                 segments'[i].ts <= now' + MaxLookaheadMs \/ segments'[i].ts - MaxLookaheadMs >= due
<1>1. /\ now \in Nat /\ MaxLookaheadMs \in Nat
      /\ \A i \in DOMAIN segments : segments[i].ts \in Int
  BY BufferFacts
<1>2. CASE UNCHANGED <<now, segments, currentGeneration, notifyCh>>
  BY <1>2 DEF SnapshotAt, WindowAt, EligibleAt
<1>3. CASE Tick
  <2>1. now' = now + 1 /\ segments' = segments
    BY <1>3, ClockForward
  <2>2. now < due
    BY <1>1, <2>1
  <2>3. \A i \in DOMAIN segments :
           segments[i].ts <= now + MaxLookaheadMs <=> segments[i].ts <= now' + MaxLookaheadMs
    BY <1>1, <2>1
  <2>4. EligibleAt(now) = EligibleAt(now')
    BY <2>3 DEF EligibleAt
  <2>5. SnapshotAt(now)' = SnapshotAt(now')
    BY <2>1 DEF SnapshotAt, WindowAt, EligibleAt
  <2>6. QED
    BY <2>1, <2>2, <2>3, <2>4, <2>5, EligibleDecide
<1>4. ASSUME NEW u \in Uploaders, NEW i \in Indices, NEW t \in Timestamps, NEW g \in Generations,
             NEW K \in SUBSET DOMAIN segments, CommitsTo(u, i, t, g, K)
      PROVE  /\ now < due
             /\ SnapshotAt(now)' = SnapshotAt(now)
             /\ \A j \in DOMAIN segments' :
                   segments'[j].ts <= now' + MaxLookaheadMs \/ segments'[j].ts - MaxLookaheadMs >= due
  <2>1. g = 0 /\ currentGeneration = 0
    BY <1>4, BufferFacts DEF CommitsTo, OneGeneration
  <2>2. now' = now /\ K = Retained /\ segments' = [j \in K |-> segments[j]]
    BY <1>4, <2>1, NothingDropped DEF CommitsTo
  <2>3. SnapshotAt(now)' = SnapshotAt(now)
    BY <2>2, EvictionKeepsSnapshot
  <2>4. QED
    BY <2>2, <2>3
<1>5. QED
  BY <1>2, <1>3, <1>4, NextOnBuffer

\* What a render leaves to wait for: the next segment past the look-ahead, so
\* that until it is due a render produces the same.
LEMMA RenderIsFresh ==
    ASSUME IInv, nowMs \in Nat, nowMs <= now
    PROVE  /\ NextEligibleAt(nowMs) \in Nat
           /\ LET due == IF NextEligibleAt(nowMs) = 0 THEN Never
                         ELSE NextEligibleAt(nowMs) - MaxLookaheadMs
              IN  Fresh(SnapshotAt(nowMs), due)
<1> DEFINE later == {segments[i].ts : i \in DOMAIN segments \ EligibleAt(nowMs)}
           ne == NextEligibleAt(nowMs)
           due == IF ne = 0 THEN Never ELSE ne - MaxLookaheadMs
<1>1. /\ now \in Nat /\ MaxLookaheadMs \in Nat
      /\ \A i \in DOMAIN segments : segments[i].ts \in Int
  BY BufferFacts
<1>2. \A i \in DOMAIN segments \ EligibleAt(nowMs) :
         segments[i].ts > nowMs + MaxLookaheadMs /\ segments[i].ts \in Nat \ {0}
  BY <1>1 DEF EligibleAt
<1>3. /\ ne \in Nat
      /\ later # {} => ne > 0 /\ \A i \in DOMAIN segments \ EligibleAt(nowMs) : ne <= segments[i].ts
  <2>1. CASE later = {}
    BY <2>1 DEF NextEligibleAt
  <2>2. CASE later # {}
    <3>1. later \in SUBSET Nat
      BY <1>2
    <3>2. \E x \in later : \A y \in later : x <= y
      BY <2>2, <3>1, LeastNatural
    <3>3. ne \in later /\ \A y \in later : ne <= y
      BY <2>2, <3>2 DEF NextEligibleAt
    <3>4. ne \in Nat \ {0}
      BY <1>2, <3>3
    <3>5. QED
      BY <3>3, <3>4
  <2>3. QED
    BY <2>1, <2>2
<1>4. ASSUME now < due PROVE EligibleAt(nowMs) = EligibleAt(now)
  <2>1. ASSUME NEW i \in DOMAIN segments, segments[i].ts <= nowMs + MaxLookaheadMs
        PROVE  segments[i].ts <= now + MaxLookaheadMs
    BY <1>1, <2>1
  <2>2. ASSUME NEW i \in DOMAIN segments, segments[i].ts <= now + MaxLookaheadMs
        PROVE  segments[i].ts <= nowMs + MaxLookaheadMs
    <3>1. SUFFICES ASSUME i \notin EligibleAt(nowMs) PROVE FALSE
      BY DEF EligibleAt
    <3>2. ne > 0 /\ ne <= segments[i].ts /\ ne \in Nat
      BY <1>3, <3>1
    <3>3. now < ne - MaxLookaheadMs
      BY <1>4, <3>2
    <3> HIDE DEF ne
    <3>4. QED
      BY <1>1, <2>2, <3>2, <3>3
  <2>3. QED
    BY <2>1, <2>2 DEF EligibleAt
<1>5. ASSUME now < due, NEW i \in DOMAIN segments
      PROVE  segments[i].ts <= now + MaxLookaheadMs \/ segments[i].ts - MaxLookaheadMs >= due
  <2>1. CASE i \in EligibleAt(nowMs)
    BY <1>4, <1>5, <2>1 DEF EligibleAt
  <2>2. CASE i \notin EligibleAt(nowMs)
    <3>1. ne > 0 /\ ne <= segments[i].ts /\ ne \in Nat
      BY <1>3, <2>2
    <3>2. due = ne - MaxLookaheadMs
      BY <3>1
    <3> HIDE DEF ne, due
    <3>3. QED
      BY <1>1, <3>1, <3>2
  <2>3. QED
    BY <2>1, <2>2
<1>6. now < due => SnapshotAt(nowMs) = SnapshotAt(now)
  BY <1>4, EligibleDecide
<1>7. Fresh(SnapshotAt(nowMs), due)
  <2> HIDE DEF due
  <2>1. QED
    BY <1>5, <1>6 DEF Fresh
<1>8. QED
  BY <1>3, <1>7

\* The buffer takes no notification back.
LEMMA NotificationStays ==
    ASSUME IInv, [Next]_vars, ~notifyCh'
    PROVE  ~notifyCh
<1>1. CASE \E u \in Uploaders, i \in Indices, t \in Timestamps, g \in Generations :
              \E K \in SUBSET DOMAIN segments : CommitsTo(u, i, t, g, K)
  BY <1>1 DEF CommitsTo
<1>2. CASE Tick \/ UNCHANGED notifyCh
  BY <1>2 DEF Tick
<1>3. QED
  BY <1>1, <1>2, NextOnBuffer

\* A step that leaves buffer and clock alone leaves what a render produces.
LEMMA ViewUnchanged ==
    ASSUME UNCHANGED streamVars
    PROVE  /\ segments' = segments /\ now' = now /\ currentGeneration' = currentGeneration
           /\ SnapshotAt(now)' = SnapshotAt(now)
BY DEF streamVars, bufferVars, SnapshotAt, WindowAt, EligibleAt

\* Every step keeps WakeInv.
LEMMA WakeInvNext ==
    ASSUME IInv, IInv', WakeInv, ~ClockStepsBack, [LiveNext]_liveVars
    PROVE  WakeInv'
<1> USE DEF WakeInv
<1>1. /\ now \in Nat /\ MaxLookaheadMs \in Nat /\ Never \in Int
      /\ Due \in Int
  BY BufferFacts DEF Never, Due
<1>2. CASE Next /\ UNCHANGED rendererVars
  <2>1. now' \in Nat /\ now <= now'
    BY <1>2, TimeForward
  <2>2. ASSUME OneGeneration', ~notifyCh' PROVE OneGeneration /\ ~notifyCh
    <3>1. currentGeneration \in Nat /\ currentGeneration <= currentGeneration'
      BY <1>2, GenerationForward, BufferFacts
    <3>2. QED
      BY <1>2, <2>2, <3>1, NotificationStays DEF OneGeneration
  <2>3. \A due \in Int :
           /\ OneGeneration' /\ ~notifyCh' /\ now' < due
           /\ \A i \in DOMAIN segments :
                 segments[i].ts <= now + MaxLookaheadMs \/ segments[i].ts - MaxLookaheadMs >= due
           => /\ now < due
              /\ SnapshotAt(now)' = SnapshotAt(now)
              /\ \A i \in DOMAIN segments' :
                    segments'[i].ts <= now' + MaxLookaheadMs
                       \/ segments'[i].ts - MaxLookaheadMs >= due
    BY <1>2, ViewKept
  <2>4. /\ Due' = Due /\ snap' = snap /\ cachedPlaylist' = cachedPlaylist
        /\ wakeAt' = wakeAt /\ renderer' = renderer /\ nowMs' = nowMs
        /\ nextEligible' = nextEligible
    BY <1>2 DEF rendererVars, Due, Never
  <2>5. ASSUME OneGeneration', ~notifyCh', NEW due \in Int, NEW p, Fresh(p, due)
        PROVE  now' < due =>
                  /\ p = SnapshotAt(now)'
                  /\ \A i \in DOMAIN segments' :
                        segments'[i].ts <= now' + MaxLookaheadMs
                           \/ segments'[i].ts - MaxLookaheadMs >= due
    <3>1. SUFFICES ASSUME now' < due
                   PROVE  /\ p = SnapshotAt(now)'
                          /\ \A i \in DOMAIN segments' :
                                segments'[i].ts <= now' + MaxLookaheadMs
                                   \/ segments'[i].ts - MaxLookaheadMs >= due
      OBVIOUS
    <3>2. now < due
      BY <1>1, <2>1, <3>1
    <3>3. p = SnapshotAt(now)
          /\ \A i \in DOMAIN segments :
                segments[i].ts <= now + MaxLookaheadMs \/ segments[i].ts - MaxLookaheadMs >= due
      BY <2>5, <3>2 DEF Fresh
    <3>4. QED
      BY <2>3, <2>5, <3>1, <3>3
  <2>6. ASSUME OneGeneration', ~notifyCh', renderer = "store" PROVE Fresh(snap, Due)'
    <3>1. Fresh(snap, Due)
      BY <2>2, <2>6
    <3>2. QED
      BY <1>1, <2>4, <2>5, <2>6, <3>1 DEF Fresh
  <2>7. ASSUME OneGeneration', ~notifyCh', renderer \in {"announce", "arm"}
        PROVE  Fresh(cachedPlaylist, Due)'
    <3>1. Fresh(cachedPlaylist, Due)
      BY <2>2, <2>7
    <3>2. QED
      BY <1>1, <2>4, <2>5, <2>7, <3>1 DEF Fresh
  <2>8. ASSUME OneGeneration', ~notifyCh', renderer = "wait"
        PROVE  Fresh(cachedPlaylist, wakeAt)'
    <3>1. Fresh(cachedPlaylist, wakeAt)
      BY <2>2, <2>8
    <3>2. QED
      BY <1>1, <2>4, <2>5, <2>8, <3>1 DEF Fresh
  <2>9. QED
    BY <1>1, <2>1, <2>4, <2>6, <2>7, <2>8
<1>3. CASE ReadClock
  BY <1>1, <1>3, ViewUnchanged DEF ReadClock
<1>4. CASE Render
  <2>1. /\ renderer' = "store" /\ snap' = SnapshotAt(nowMs)
        /\ nextEligible' = NextEligibleAt(nowMs) /\ nowMs' = 0 /\ wakeAt' = wakeAt
        /\ nowMs \in Nat /\ nowMs <= now
    BY <1>4 DEF Render
  <2>2. /\ segments' = segments /\ now' = now /\ SnapshotAt(now)' = SnapshotAt(now)
    BY <1>4, ViewUnchanged DEF Render
  <2>3. /\ NextEligibleAt(nowMs) \in Nat
        /\ Fresh(SnapshotAt(nowMs), IF NextEligibleAt(nowMs) = 0 THEN Never
                                    ELSE NextEligibleAt(nowMs) - MaxLookaheadMs)
    BY <2>1, RenderIsFresh
  <2>4. Due' = IF NextEligibleAt(nowMs) = 0 THEN Never ELSE NextEligibleAt(nowMs) - MaxLookaheadMs
    BY <2>1 DEF Due, Never
  <2>5. Fresh(snap, Due)'
    BY <2>1, <2>2, <2>3, <2>4 DEF Fresh
  <2>6. QED
    BY <2>1, <2>3, <2>5
<1>5. CASE StoreSnapshot
  <2>1. /\ renderer = "store" /\ renderer' = "announce" /\ cachedPlaylist' = snap
        /\ UNCHANGED <<notifyCh, nowMs, nextEligible, wakeAt>>
        /\ segments' = segments /\ now' = now /\ SnapshotAt(now)' = SnapshotAt(now)
        /\ currentGeneration' = currentGeneration /\ Due' = Due
    BY <1>5, ViewUnchanged DEF StoreSnapshot, Due, Never
  <2>2. Fresh(snap, Due) => Fresh(cachedPlaylist, Due)'
    BY <2>1 DEF Fresh
  <2>3. QED
    BY <2>1, <2>2 DEF OneGeneration
<1>6. CASE Announce
  <2>1. /\ renderer = "announce" /\ renderer' = "arm"
        /\ UNCHANGED <<notifyCh, nowMs, nextEligible, wakeAt, cachedPlaylist>>
        /\ segments' = segments /\ now' = now /\ SnapshotAt(now)' = SnapshotAt(now)
        /\ currentGeneration' = currentGeneration /\ Due' = Due
    BY <1>6, ViewUnchanged DEF Announce, Due, Never
  <2>2. Fresh(cachedPlaylist, Due) => Fresh(cachedPlaylist, Due)'
    BY <2>1 DEF Fresh
  <2>3. QED
    BY <2>1, <2>2 DEF OneGeneration
<1>7. CASE Arm
  <2>1. /\ renderer = "arm" /\ renderer' \in {"wait", "shortWait"}
        /\ UNCHANGED <<notifyCh, nowMs, cachedPlaylist>> /\ nextEligible' = 0
        /\ segments' = segments /\ now' = now /\ SnapshotAt(now)' = SnapshotAt(now)
        /\ currentGeneration' = currentGeneration
    BY <1>7, ViewUnchanged DEF Arm
  <2>2. /\ wakeAt' \in Int
        /\ renderer' = "wait" => wakeAt' = Due
    BY <1>1, <1>7 DEF Arm, Due
  <2>3. Fresh(cachedPlaylist, Due) /\ renderer' = "wait" => Fresh(cachedPlaylist, wakeAt)'
    BY <2>1, <2>2 DEF Fresh
  <2>4. QED
    BY <2>1, <2>2, <2>3 DEF OneGeneration
<1>8. CASE Wake \/ Stop \/ Drain
  BY <1>1, <1>8 DEF Wake, Stop, Drain
<1>9. CASE CloseDone \/ UNCHANGED liveVars
  <2>1. /\ UNCHANGED <<renderer, notifyCh, nowMs, nextEligible, wakeAt, cachedPlaylist, snap>>
        /\ UNCHANGED streamVars
    BY <1>9 DEF CloseDone, liveVars, rendererVars, streamVars, vars
  <2>2. /\ segments' = segments /\ now' = now /\ SnapshotAt(now)' = SnapshotAt(now)
        /\ currentGeneration' = currentGeneration /\ Due' = Due
    BY <2>1, ViewUnchanged DEF Due, Never
  <2>3. QED
    BY <2>1, <2>2 DEF Fresh, OneGeneration
<1>10. QED
  BY <1>2, <1>3, <1>4, <1>5, <1>6, <1>7, <1>8, <1>9 DEF LiveNext, Loop

\* No wake-up is ever lost, for any number of uploads and whatever order they
\* commit in, on a clock that is not set back.
THEOREM NoWakeupLost == ASSUME ~ClockStepsBack PROVE LiveSpec => []NoLostWakeup
<1>1. LiveInit => WakeInv
  BY ConstantsAssumption DEF LiveInit, WakeInv, Never
<1>2. IInv /\ IInv' /\ WakeInv /\ [LiveNext]_liveVars => WakeInv'
  BY WakeInvNext
<1>3. WakeInv => NoLostWakeup
  BY DEF WakeInv, NoLostWakeup, Asleep, Fresh
<1>4. QED
  BY <1>1, <1>2, <1>3, LiveInvariantHolds, PTL DEF LiveSpec

-------------------------------------------------------------------------------
(* The shape of what is published. *)

\* What has been rendered, published or not, is well formed.
FormInv == nowMs \in Nat /\ WellFormed(cachedPlaylist) /\ WellFormed(snap)

\* The empty playlist is.
LEMMA EmptyWellFormed == WellFormed(NoPlaylist)
<1>1. DOMAIN NoPlaylist = {}
  BY DEF NoPlaylist
<1>2. QED
  BY <1>1, FS_EmptySet, ConstantsAssumption DEF WellFormed

\* Every step keeps FormInv, however the clock runs.
LEMMA FormInvNext == ASSUME IInv, FormInv, [LiveNext]_liveVars PROVE FormInv'
<1>1. CASE UNCHANGED <<nowMs, snap, cachedPlaylist>>
  BY <1>1 DEF FormInv, WellFormed
<1>2. CASE ReadClock
  BY <1>2, BufferFacts DEF ReadClock, FormInv, WellFormed
<1>3. CASE Render
  <2>1. nowMs \in Int
    BY DEF FormInv
  <2>2. WellFormed(SnapshotAt(nowMs))
    BY <2>1, SnapshotWellFormed
  <2>3. QED
    BY <1>3, <2>2 DEF Render, FormInv, WellFormed
<1>4. CASE StoreSnapshot
  BY <1>4 DEF StoreSnapshot, FormInv, WellFormed
<1>5. CASE Announce
  BY <1>5, EmptyWellFormed DEF Announce, FormInv, WellFormed
<1>6. CASE (Next /\ UNCHANGED rendererVars) \/ Arm \/ Wake \/ Stop \/ Drain \/ CloseDone \/ UNCHANGED liveVars
  BY <1>1, <1>6 DEF Arm, Wake, Stop, Drain, CloseDone, liveVars, rendererVars
<1>7. QED
  BY <1>2, <1>3, <1>4, <1>5, <1>6 DEF LiveNext, Loop

\* FormInv holds in every state, however the clock is set.
LEMMA FormInvariantHolds == LiveSpec => []FormInv
<1>1. LiveInit => FormInv
  BY EmptyWellFormed DEF LiveInit, FormInv
<1>2. IInv /\ FormInv /\ [LiveNext]_liveVars => FormInv'
  BY FormInvNext
<1>3. QED
  BY <1>1, <1>2, LiveInvariantHolds, PTL DEF LiveSpec

\* Every playlist is an unbroken run of indices in time order, no longer than the
\* window, whatever the pushers send and however the clock is set.
THEOREM PlaylistsWellFormed == LiveSpec => []WellFormedPlaylist
<1>1. WellFormed(cachedPlaylist) => WellFormedPlaylist
  <2>1. DOMAIN NoPlaylist = {}
    BY DEF NoPlaylist
  <2>2. QED
    BY <2>1 DEF WellFormed, WellFormedPlaylist
<1>2. FormInv => WellFormedPlaylist
  BY <1>1 DEF FormInv
<1>3. QED
  BY <1>2, FormInvariantHolds, PTL

-------------------------------------------------------------------------------
(* How far ahead a playlist lists. *)

\* Nothing beyond the look-ahead is listed.
Reached(p, t) == \A i \in DOMAIN p : p[i].ts <= t + MaxLookaheadMs

ReachInv ==
    /\ Reached(cachedPlaylist, now) /\ Reached(snap, now)
    /\ renderer = "render" => Reached(cachedPlaylist, nowMs)

\* What is within the look-ahead stays within it.
LEMMA ReachGrows ==
    ASSUME NEW p, WellFormed(p), NEW s \in Int, NEW t \in Int, s <= t, Reached(p, s)
    PROVE  Reached(p, t)
BY ConstantsAssumption DEF WellFormed, Reached

\* Every step keeps ReachInv, on a clock that is not set back.
LEMMA ReachInvNext ==
    ASSUME IInv, WakeInv, FormInv, ReachInv, ~ClockStepsBack, [LiveNext]_liveVars
    PROVE  ReachInv'
<1> USE DEF ReachInv
<1>1. now \in Int /\ nowMs \in Int /\ WellFormed(cachedPlaylist) /\ WellFormed(snap)
  BY BufferFacts DEF FormInv
<1>2. CASE Next /\ UNCHANGED rendererVars
  <2>1. now' \in Int /\ now <= now'
    BY <1>2, TimeForward
  <2>2. Reached(cachedPlaylist, now') /\ Reached(snap, now')
    BY <1>1, <2>1, ReachGrows
  <2>3. QED
    BY <1>2, <2>2 DEF rendererVars, Reached
<1>3. CASE ReadClock
  BY <1>3 DEF ReadClock, streamVars, Reached
<1>4. CASE Render
  <2>1. /\ snap' = SnapshotAt(nowMs) /\ now' = now /\ cachedPlaylist' = cachedPlaylist
        /\ renderer' = "store" /\ nowMs <= now
    BY <1>4 DEF Render, streamVars, WakeInv
  <2>2. Reached(SnapshotAt(nowMs), nowMs)
    <3>1. WindowAt(nowMs) \subseteq EligibleAt(nowMs)
      BY <1>1, WindowIsRun, Candidates
    <3>2. QED
      BY <3>1 DEF Reached, SnapshotAt, EligibleAt
  <2>3. WellFormed(SnapshotAt(nowMs))
    BY <1>1, SnapshotWellFormed
  <2>4. Reached(SnapshotAt(nowMs), now)
    BY <1>1, <2>1, <2>2, <2>3, ReachGrows
  <2>5. QED
    BY <2>1, <2>4 DEF Reached
<1>5. CASE StoreSnapshot
  BY <1>5 DEF StoreSnapshot, streamVars, Reached
<1>6. CASE Announce
  BY <1>6 DEF Announce, streamVars, NoPlaylist, Reached
<1>7. CASE Arm \/ Wake \/ Stop \/ Drain
  BY <1>7 DEF Arm, Wake, Stop, Drain, streamVars, Reached
<1>8. CASE CloseDone \/ UNCHANGED liveVars
  BY <1>8 DEF CloseDone, liveVars, rendererVars, streamVars, vars, Reached
<1>9. QED
  BY <1>2, <1>3, <1>4, <1>5, <1>6, <1>7, <1>8 DEF LiveNext, Loop

-------------------------------------------------------------------------------
(* What becomes of a segment that was listed. *)

\* A segment that was evicted does not come back: everything in the buffer is
\* later, and some of it is of the past, before which nothing is accepted any
\* more.
Evaded(i, gen) ==
    /\ \A j \in DOMAIN segments : i < j
    /\ \E k \in DOMAIN segments : segments[k].ts < now /\ segments[k].gen >= gen

\* What has become of a listed segment: it is still there, a newer generation
\* has superseded it, or it was evicted.
Traced(i, e) ==
    \/ i \in DOMAIN segments /\ segments[i].ts = e.ts /\ segments[i].gen = e.gen
    \/ currentGeneration > e.gen /\ (i \in DOMAIN segments => segments[i].gen > e.gen)
    \/ Evaded(i, e.gen)

\* What is left for a segment that has been evicted: it stays evicted, or a newer
\* generation takes over.
Outlived(i, gen) ==
    \/ currentGeneration > gen /\ (i \in DOMAIN segments => segments[i].gen > gen)
    \/ Evaded(i, gen)

\* A commit into a buffer where everything that survives the eviction is later
\* than i, and some of it of the past, does not put i back.
LEMMA CommitEvades ==
    ASSUME IInv, NEW u \in Uploaders, NEW j \in Indices, NEW t \in Timestamps, NEW g \in Generations,
           NEW K \in SUBSET DOMAIN segments, CommitsTo(u, j, t, g, K),
           NEW i \in Nat, NEW gen \in Nat,
           \A x \in Retained : i < x,
           NEW k \in Retained, segments[k].ts < now, segments[k].gen >= gen
    PROVE  Outlived(i, gen)'
<1>1. /\ K = Retained \ Dropped(j, g) /\ now' = now /\ currentGeneration' = g
      /\ t >= now
      /\ k \in DOMAIN segments /\ i \notin K
      /\ j \in Nat /\ g \in Nat /\ t \in Int /\ now \in Int
      /\ \A x \in DOMAIN segments : x \in Nat /\ segments[x].ts \in Int /\ segments[x].gen \in Nat
  BY BufferFacts, ConstantsAssumption DEF CommitsTo, Retained
<1>2. \/ DOMAIN segments' = K
      \/ /\ ~RejectedLate(j, t, K) /\ j \notin K /\ DOMAIN segments' = K \cup {j}
         /\ segments'[j].gen = g
  BY DEF CommitsTo
<1>3. \A x \in K : x \in DOMAIN segments' /\ segments'[x] = segments[x]
  BY DEF CommitsTo
<1>4. CASE k \in Dropped(j, g)
  <2>1. g > gen
    BY <1>1, <1>4 DEF Dropped
  <2>2. i \in DOMAIN segments' => segments'[i].gen > gen
    BY <1>1, <1>2, <2>1
  <2>3. QED
    BY <1>1, <2>1, <2>2 DEF Outlived
<1>5. CASE k \in K
  <2>1. \A x \in DOMAIN segments' : i < x
    <3>1. \A x \in K : i < x
      BY <1>1
    <3>2. ASSUME ~RejectedLate(j, t, K) PROVE i < j
      <4>1. \A x \in K : j < x => t < segments[x].ts
        BY <3>2, NeighboursSuffice DEF IInv
      <4>2. ~(j < k)
        BY <1>1, <1>5, <4>1
      <4>3. i < k /\ k \in Nat
        BY <1>1
      <4>4. QED
        BY <1>1, <4>2, <4>3
    <3>3. QED
      BY <1>2, <3>1, <3>2
  <2>2. k \in DOMAIN segments' /\ segments'[k].ts < now' /\ segments'[k].gen >= gen
    BY <1>1, <1>3, <1>5
  <2>3. QED
    BY <2>1, <2>2 DEF Outlived, Evaded
<1>6. QED
  BY <1>1, <1>4, <1>5

\* Where something of the past is left in the buffer, what survives the next
\* eviction has something of the past that is no older.
LEMMA PastOutlasts ==
    ASSUME IInv, NEW k \in DOMAIN segments, segments[k].ts < now
    PROVE  \E m \in Retained : /\ segments[m].ts < now /\ m >= k
                               /\ segments[m].gen >= segments[k].gen
<1>1. k \in Backward
  BY DEF Backward
<1>2. PICK m \in Retained : segments[m].ts < now /\ m >= k
  BY <1>1, PastRemains
<1>3. m \in DOMAIN segments /\ \A x \in DOMAIN segments : x \in Nat /\ segments[x].gen \in Nat
  BY BufferFacts DEF Retained
<1>4. segments[m].gen >= segments[k].gen
  <2>1. CASE m = k
    BY <1>3, <2>1
  <2>2. CASE k < m
    BY <1>3, <2>2 DEF IInv, GenerationMonotone
  <2>3. QED
    BY <1>2, <1>3, <2>1, <2>2
<1>5. QED
  BY <1>2, <1>4

\* An evicted segment stays away, or a newer generation takes over.
LEMMA EvadedKept ==
    ASSUME IInv, [Next]_vars, ~ClockStepsBack, NEW i \in Nat, NEW gen \in Nat, Outlived(i, gen)
    PROVE  Outlived(i, gen)'
<1>1. /\ now \in Nat /\ currentGeneration \in Nat
      /\ \A x \in DOMAIN segments : x \in Nat /\ segments[x].ts \in Int /\ segments[x].gen \in Nat
  BY BufferFacts
<1>2. CASE UNCHANGED <<now, segments, currentGeneration, notifyCh>>
  BY <1>2 DEF Outlived, Evaded
<1>3. CASE Tick
  <2>1. now' = now + 1 /\ UNCHANGED <<segments, currentGeneration>>
    BY <1>3, ClockForward
  <2>2. \A k \in DOMAIN segments : segments[k].ts < now => segments[k].ts < now'
    BY <1>1, <2>1
  <2>3. QED
    BY <2>1, <2>2 DEF Outlived, Evaded
<1>4. ASSUME NEW u \in Uploaders, NEW j \in Indices, NEW t \in Timestamps, NEW g \in Generations,
             NEW K \in SUBSET DOMAIN segments, CommitsTo(u, j, t, g, K)
      PROVE  Outlived(i, gen)'
  <2>1. CASE Evaded(i, gen)
    <3>1. PICK k \in DOMAIN segments : segments[k].ts < now /\ segments[k].gen >= gen
      BY <2>1 DEF Evaded
    <3>2. PICK m \in Retained : segments[m].ts < now /\ segments[m].gen >= segments[k].gen
      BY <3>1, PastOutlasts
    <3>3. segments[m].gen >= gen /\ \A x \in Retained : i < x
      BY <1>1, <2>1, <3>1, <3>2 DEF Evaded, Retained
    <3>4. QED
      BY <1>4, <3>2, <3>3, CommitEvades
  <2>2. CASE currentGeneration > gen /\ (i \in DOMAIN segments => segments[i].gen > gen)
    <3>1. currentGeneration' = g /\ currentGeneration <= g /\ g \in Nat
      BY <1>4, ConstantsAssumption DEF CommitsTo
    <3>2. g > gen
      BY <1>1, <2>2, <3>1
    <3>3. i \in DOMAIN segments' => segments'[i].gen > gen
      BY <1>4, <2>2, <3>2 DEF CommitsTo
    <3>4. QED
      BY <3>1, <3>2, <3>3 DEF Outlived
  <2>3. QED
    BY <2>1, <2>2 DEF Outlived
<1>5. QED
  BY <1>2, <1>3, <1>4, NextOnBuffer

\* A listed segment stays where it is, is superseded, or is evicted for good.
LEMMA TracedKept ==
    ASSUME IInv, [Next]_vars, ~ClockStepsBack, NEW i \in Nat, NEW e \in [ts : Int, gen : Nat],
           Traced(i, e)
    PROVE  Traced(i, e)'
<1>1. /\ now \in Nat /\ currentGeneration \in Nat /\ e.gen \in Nat
      /\ \A x \in DOMAIN segments : x \in Nat /\ segments[x].ts \in Int /\ segments[x].gen \in Nat
  BY BufferFacts
<1>2. Outlived(i, e.gen)' => Traced(i, e)'
  BY DEF Outlived, Traced, Evaded
<1>3. CASE Outlived(i, e.gen)
  BY <1>1, <1>2, <1>3, EvadedKept
<1>4. CASE i \in DOMAIN segments /\ segments[i].ts = e.ts /\ segments[i].gen = e.gen
  <2>1. CASE segments' = segments
    BY <1>4, <2>1 DEF Traced
  <2>2. ASSUME NEW u \in Uploaders, NEW j \in Indices, NEW t \in Timestamps, NEW g \in Generations,
               NEW K \in SUBSET DOMAIN segments, CommitsTo(u, j, t, g, K)
        PROVE  Traced(i, e)'
    <3>1. /\ K = Retained \ Dropped(j, g) /\ currentGeneration' = g
          /\ \A x \in K : x \in DOMAIN segments' /\ segments'[x] = segments[x]
          /\ \A x \in DOMAIN segments' : x \in K \/ segments'[x].gen = g
          /\ g \in Nat
      BY <2>2, ConstantsAssumption DEF CommitsTo
    <3>2. CASE i \in K
      BY <1>4, <3>1, <3>2 DEF Traced
    <3>3. CASE i \in Dropped(j, g)
      <4>1. g > e.gen
        BY <1>4, <3>3 DEF Dropped
      <4>2. i \notin K
        BY <3>1, <3>3
      <4>3. QED
        BY <3>1, <4>1, <4>2 DEF Traced
    <3>4. CASE i \in Evicted
      <4>1. segments[i].ts < now /\ \A x \in DOMAIN segments : x < i => x \in Evicted
        BY <3>4, EvictedOldest
      <4>2. PICK m \in Retained : segments[m].ts < now /\ segments[m].gen >= segments[i].gen
        BY <1>4, <4>1, PastOutlasts
      <4>3. \A x \in Retained : i < x
        <5>1. SUFFICES ASSUME NEW x \in Retained PROVE i < x
          OBVIOUS
        <5>2. x \in DOMAIN segments /\ x \notin Evicted /\ x \in Nat
          BY <1>1, <5>1 DEF Retained
        <5>3. ~(x < i) /\ x # i
          BY <3>4, <4>1, <5>2
        <5>4. QED
          BY <5>2, <5>3
      <4>4. Outlived(i, e.gen)'
        BY <1>1, <1>4, <2>2, <4>2, <4>3, CommitEvades
      <4>5. QED
        BY <1>2, <4>4
    <3>5. QED
      BY <1>4, <3>1, <3>2, <3>3, <3>4 DEF Retained
  <2>3. QED
    BY <2>1, <2>2, NextOnBuffer DEF Tick, bufferVars
<1>5. QED
  BY <1>3, <1>4 DEF Traced, Outlived

-------------------------------------------------------------------------------
(* How one playlist follows another. *)

\* A segment that both list is the same, or a newer generation's.
Follows(old, new) ==
    \A i \in DOMAIN old \cap DOMAIN new : new[i] = old[i] \/ new[i].gen > old[i].gen

\* A full window moves forward, or leaves the buffer as a whole.
Advances(old, new) ==
    OneGeneration /\ Cardinality(DOMAIN old) = PlaylistWindowSize =>
        \/ new = NoPlaylist /\ \A i \in DOMAIN old : Outlived(i, 0)
        \/ /\ new # NoPlaylist
           /\ FirstOf(new) >= FirstOf(old) /\ LastOf(new) >= LastOf(old)

\* All that is listed can be traced, and what is about to be published follows
\* what has been.
TraceInv ==
    /\ \A i \in DOMAIN cachedPlaylist : Traced(i, cachedPlaylist[i])
    /\ \A i \in DOMAIN snap : Traced(i, snap[i])
    /\ renderer = "store" => Follows(cachedPlaylist, snap) /\ Advances(cachedPlaylist, snap)

\* With one generation, a traced segment is there or evicted.
LEMMA TracedInOne ==
    ASSUME IInv, OneGeneration, NEW i, NEW e \in [ts : Int, gen : Nat], Traced(i, e)
    PROVE  \/ i \in DOMAIN segments /\ segments[i].ts = e.ts
           \/ Outlived(i, 0) /\ \A j \in DOMAIN segments : i < j
<1>1. e.gen \in Nat /\ ~(currentGeneration > e.gen)
  BY DEF OneGeneration
<1>2. CASE i \in DOMAIN segments /\ segments[i].ts = e.ts /\ segments[i].gen = e.gen
  BY <1>2
<1>3. CASE Evaded(i, e.gen)
  <2>1. Evaded(i, 0)
    <3>1. PICK k \in DOMAIN segments : segments[k].ts < now /\ segments[k].gen >= e.gen
      BY <1>3 DEF Evaded
    <3>2. segments[k].gen >= 0
      BY <3>1, BufferFacts
    <3>3. QED
      BY <1>3, <3>1, <3>2 DEF Evaded
  <2>2. QED
    BY <1>3, <2>1 DEF Outlived, Evaded
<1>4. QED
  BY <1>1, <1>2, <1>3 DEF Traced

\* A render follows the playlist before: what it lists is in the buffer now.
LEMMA RenderFollows ==
    ASSUME IInv, NEW t \in Int, NEW p, WellFormed(p), \A i \in DOMAIN p : Traced(i, p[i])
    PROVE  Follows(p, SnapshotAt(t)) /\ \A i \in DOMAIN SnapshotAt(t) : Traced(i, SnapshotAt(t)[i])
<1> DEFINE q == SnapshotAt(t)
<1>1. \A i \in DOMAIN q : /\ i \in DOMAIN segments
                          /\ q[i] = [ts |-> segments[i].ts, gen |-> segments[i].gen]
  BY WindowIsRun, Candidates DEF SnapshotAt
<1>2. ASSUME NEW i \in DOMAIN p \cap DOMAIN q
      PROVE  q[i] = p[i] \/ q[i].gen > p[i].gen
  <2>1. Traced(i, p[i]) /\ p[i] \in [ts : Int, gen : Nat] /\ i \in Nat
    BY DEF WellFormed
  <2>2. CASE segments[i].ts = p[i].ts /\ segments[i].gen = p[i].gen
    BY <1>1, <2>1, <2>2
  <2>3. CASE segments[i].gen > p[i].gen
    BY <1>1, <2>3
  <2>4. ~Evaded(i, p[i].gen)
    <3>1. i \in DOMAIN segments /\ ~(i < i)
      BY <1>1, <2>1
    <3>2. QED
      BY <3>1 DEF Evaded
  <2>5. QED
    BY <1>1, <2>1, <2>2, <2>3, <2>4 DEF Traced
<1>3. \A i \in DOMAIN q : Traced(i, q[i])
  BY <1>1 DEF Traced
<1>4. QED
  BY <1>2, <1>3 DEF Follows

\* A set of naturals with more than n elements from m on has more from below m.
LEMMA OneMoreBelow ==
    ASSUME NEW E \in SUBSET Nat, IsFiniteSet(E), NEW P \in SUBSET E, NEW m \in E, m \notin P
    PROVE  Cardinality(P \cup {m}) = Cardinality(P) + 1 /\ Cardinality(P) \in Nat
           /\ IsFiniteSet(P \cup {m})
<1>1. IsFiniteSet(P)
  BY FS_Subset
<1>2. QED
  BY <1>1, FS_AddElement, FS_CardinalityType

\* A render moves a full window forward, unless all of the window has been
\* evicted and nothing is eligible any more.
LEMMA RenderAdvances ==
    ASSUME IInv, NEW t \in Int, NEW p, WellFormed(p), Reached(p, t),
           \A i \in DOMAIN p : Traced(i, p[i])
    PROVE  Advances(p, SnapshotAt(t))
<1> DEFINE q == SnapshotAt(t)
           E == EligibleAt(t)
           D == DOMAIN p
           a == FirstOf(p)
           b == LastOf(p)
<1>1. SUFFICES ASSUME OneGeneration, Cardinality(D) = PlaylistWindowSize
               PROVE  \/ q = NoPlaylist /\ \A i \in D : Outlived(i, 0)
                      \/ q # NoPlaylist /\ FirstOf(q) >= a /\ LastOf(q) >= b
  BY DEF Advances
<1>2. D # {} /\ D = a..b /\ D \in SUBSET Nat /\ a \in D /\ b \in D
  <2>1. D # {} /\ D \in SUBSET Nat /\ IsFiniteSet(D)
    BY <1>1, FS_EmptySet, BufferFacts DEF WellFormed
  <2>2. QED
    BY <2>1, FirstAndLast DEF WellFormed
<1>3. \A i \in D : \/ i \in E
                   \/ Outlived(i, 0) /\ \A j \in DOMAIN segments : i < j
  <2>1. TAKE i \in D
  <2>2. p[i] \in [ts : Int, gen : Nat] /\ Traced(i, p[i]) /\ p[i].ts <= t + MaxLookaheadMs
    BY DEF WellFormed, Reached
  <2>3. \/ i \in DOMAIN segments /\ segments[i].ts = p[i].ts
        \/ Outlived(i, 0) /\ \A j \in DOMAIN segments : i < j
    BY <1>1, <2>2, TracedInOne
  <2>4. QED
    BY <2>2, <2>3 DEF EligibleAt
<1>4. /\ E \subseteq DOMAIN segments /\ E \in SUBSET Nat /\ IsFiniteSet(E)
      /\ LastAt(t) \subseteq E
      /\ \A i \in LastAt(t), j \in E : j >= i => j \in LastAt(t)
      /\ WindowAt(t) \subseteq LastAt(t)
      /\ DOMAIN q = WindowAt(t) /\ WellFormed(q)
  BY Candidates, WindowIsRun, SnapshotWellFormed
<1>5. CASE E = {}
  <2>1. q = NoPlaylist
    BY <1>4, <1>5 DEF WellFormed
  <2>2. QED
    BY <1>3, <1>5, <2>1
<1>6. CASE E # {}
  <2>1. PICK m \in WindowAt(t) : /\ \A i \in LastAt(t) : m <= i
                                 /\ \A i \in LastAt(t) : i \in WindowAt(t) <=> m..i \subseteq LastAt(t)
    BY <1>6, WindowIsRun
  <2>2. /\ q # NoPlaylist
        /\ FirstOf(q) \in WindowAt(t) /\ LastOf(q) \in WindowAt(t)
        /\ \A i \in WindowAt(t) : LastOf(q) >= i
    <3>1. DOMAIN q # {} /\ DOMAIN q \in SUBSET Nat /\ IsFiniteSet(DOMAIN q)
      BY <1>4, <2>1 DEF WellFormed
    <3>2. q # NoPlaylist
      BY <3>1 DEF NoPlaylist
    <3>3. QED
      BY <1>4, <3>1, <3>2, FirstAndLast
  <2> DEFINE first == FirstOf(q)
             last == LastOf(q)
  <2> HIDE DEF q, a, b, E, first, last
  <2>3. /\ m \in E /\ m \in DOMAIN segments
        /\ m \in Nat /\ a \in Nat /\ b \in Nat /\ first \in Nat /\ last \in Nat
        /\ m <= first /\ m <= last /\ \A i \in E : i \in Nat
    <3>1. \A i \in E : i \in Nat
      BY <1>4
    <3>2. m \in E /\ first \in E /\ last \in E /\ m <= first /\ m <= last
      BY <1>4, <2>1, <2>2 DEF first, last
    <3>3. QED
      BY <1>2, <1>4, <3>1, <3>2
  <2>4. m >= a
    <3>1. CASE a \in E
      <4>1. \A i \in D : i \in E
        <5>1. SUFFICES ASSUME NEW i \in D, \A j \in DOMAIN segments : i < j PROVE FALSE
          BY <1>3
        <5>2. i < a /\ a <= i /\ i \in Nat
          BY <1>2, <1>4, <3>1, <5>1
        <5>3. QED
          BY <2>3, <5>2
      <4>2. SUFFICES ASSUME m < a PROVE FALSE
        BY <2>3
      <4>3. D \cup {m} \subseteq {j \in E : j >= m}
        BY <1>2, <2>3, <4>1, <4>2
      <4>4. m \notin D
        BY <1>2, <2>3, <4>2
      <4>5. /\ Cardinality(D \cup {m}) = PlaylistWindowSize + 1
        BY <1>1, <1>4, <2>3, <4>1, <4>4, OneMoreBelow
      <4>6. IsFiniteSet({j \in E : j >= m}) /\ Cardinality({j \in E : j >= m}) \in Nat
            /\ Cardinality(D \cup {m}) <= Cardinality({j \in E : j >= m})
        <5>1. IsFiniteSet({j \in E : j >= m})
          BY <1>4, FS_Subset
        <5>2. QED
          BY <4>3, <5>1, FS_Subset, FS_CardinalityType
      <4>7. Cardinality({j \in E : j >= m}) <= PlaylistWindowSize
        BY <1>4, <2>1 DEF LastAt, E
      <4>8. QED
        BY <4>5, <4>6, <4>7, BufferFacts
    <3>2. CASE a \notin E
      BY <1>2, <1>3, <2>3, <3>2
    <3>3. QED
      BY <3>1, <3>2
  <2>5. last >= b
    <3>1. CASE m > b
      BY <2>3, <3>1
    <3>2. CASE m <= b
      <4>1. m..b \subseteq E
        <5>1. SUFFICES ASSUME NEW i \in m..b PROVE i \in E
          OBVIOUS
        <5>2. i \in D /\ i >= m /\ i \in Nat
          BY <1>2, <2>3, <2>4, <5>1
        <5>3. ~(i < m)
          BY <2>3, <5>2
        <5>4. QED
          BY <1>3, <2>3, <5>2, <5>3
      <4>2. m..b \subseteq LastAt(t) /\ b \in m..b
        <5>1. \A i \in m..b : i >= m
          BY <2>3
        <5>2. QED
          BY <1>4, <2>1, <2>3, <3>2, <4>1, <5>1
      <4>3. b \in WindowAt(t)
        BY <2>1, <4>2
      <4>4. QED
        BY <2>2, <4>3 DEF last
    <3>3. QED
      BY <2>3, <3>1, <3>2
  <2>6. first >= a
    BY <2>3, <2>4
  <2>7. QED
    BY <2>2, <2>5, <2>6 DEF first, last
<1>7. QED
  BY <1>5, <1>6

\* A playlist keeps following another, as neither changes by itself.
LEMMA AdvancesKept ==
    ASSUME IInv, [Next]_vars, ~ClockStepsBack, NEW p, WellFormed(p), NEW q, Advances(p, q)
    PROVE  OneGeneration' /\ Cardinality(DOMAIN p) = PlaylistWindowSize =>
              \/ q = NoPlaylist /\ \A i \in DOMAIN p : Outlived(i, 0)'
              \/ /\ q # NoPlaylist
                 /\ FirstOf(q) >= FirstOf(p) /\ LastOf(q) >= LastOf(p)
<1>1. SUFFICES ASSUME OneGeneration', Cardinality(DOMAIN p) = PlaylistWindowSize,
                      q = NoPlaylist, \A i \in DOMAIN p : Outlived(i, 0)
               PROVE  \A i \in DOMAIN p : Outlived(i, 0)'
  <2>1. OneGeneration' => OneGeneration
    BY GenerationForward, BufferFacts DEF OneGeneration
  <2>2. QED
    BY <2>1 DEF Advances
<1>2. TAKE i \in DOMAIN p
<1>3. i \in Nat /\ Outlived(i, 0)
  BY <1>1 DEF WellFormed
<1>4. QED
  BY <1>3, EvadedKept

\* Every step keeps TraceInv, on a clock that is not set back.
LEMMA TraceInvNext ==
    ASSUME IInv, WakeInv, FormInv, ReachInv, TraceInv, ~ClockStepsBack, [LiveNext]_liveVars
    PROVE  TraceInv'
<1>1. WellFormed(cachedPlaylist) /\ WellFormed(snap) /\ nowMs \in Int
  BY DEF FormInv
<1>2. /\ \A i \in DOMAIN cachedPlaylist : Traced(i, cachedPlaylist[i])
      /\ \A i \in DOMAIN snap : Traced(i, snap[i])
      /\ renderer = "store" => Follows(cachedPlaylist, snap) /\ Advances(cachedPlaylist, snap)
  BY DEF TraceInv
<1>3. CASE Next /\ UNCHANGED rendererVars
  <2>1. UNCHANGED <<renderer, cachedPlaylist, snap>>
    BY <1>3 DEF rendererVars
  <2>2. ASSUME NEW i \in DOMAIN cachedPlaylist PROVE Traced(i, cachedPlaylist[i])'
    <3>1. i \in Nat /\ cachedPlaylist[i] \in [ts : Int, gen : Nat] /\ Traced(i, cachedPlaylist[i])
      BY <1>1, <1>2 DEF WellFormed
    <3> DEFINE e == cachedPlaylist[i]
    <3>2. e' = e
      BY <2>1
    <3>3. \A f \in [ts : Int, gen : Nat] : Traced(i, f) =>
             \/ i \in DOMAIN segments' /\ segments'[i].ts = f.ts /\ segments'[i].gen = f.gen
             \/ currentGeneration' > f.gen /\ (i \in DOMAIN segments' => segments'[i].gen > f.gen)
             \/ /\ \A j \in DOMAIN segments' : i < j
                /\ \E k \in DOMAIN segments' : segments'[k].ts < now' /\ segments'[k].gen >= f.gen
      BY <1>3, <3>1, TracedKept DEF Traced, Evaded
    <3>4. QED
      BY <3>1, <3>2, <3>3 DEF Traced, Evaded
  <2>3. ASSUME NEW i \in DOMAIN snap PROVE Traced(i, snap[i])'
    <3>1. i \in Nat /\ snap[i] \in [ts : Int, gen : Nat] /\ Traced(i, snap[i])
      BY <1>1, <1>2 DEF WellFormed
    <3> DEFINE e == snap[i]
    <3>2. e' = e
      BY <2>1
    <3>3. \A f \in [ts : Int, gen : Nat] : Traced(i, f) =>
             \/ i \in DOMAIN segments' /\ segments'[i].ts = f.ts /\ segments'[i].gen = f.gen
             \/ currentGeneration' > f.gen /\ (i \in DOMAIN segments' => segments'[i].gen > f.gen)
             \/ /\ \A j \in DOMAIN segments' : i < j
                /\ \E k \in DOMAIN segments' : segments'[k].ts < now' /\ segments'[k].gen >= f.gen
      BY <1>3, <3>1, TracedKept DEF Traced, Evaded
    <3>4. QED
      BY <3>1, <3>2, <3>3 DEF Traced, Evaded
  <2>4. (renderer = "store" => Follows(cachedPlaylist, snap))'
    BY <1>2, <2>1 DEF Follows
  <2>5. ASSUME renderer' = "store" PROVE Advances(cachedPlaylist, snap)'
    <3>1. Advances(cachedPlaylist, snap)
      BY <1>2, <2>1, <2>5
    <3>2. OneGeneration' /\ Cardinality(DOMAIN cachedPlaylist) = PlaylistWindowSize =>
              \/ snap = NoPlaylist /\ \A i \in DOMAIN cachedPlaylist : Outlived(i, 0)'
              \/ /\ snap # NoPlaylist
                 /\ FirstOf(snap) >= FirstOf(cachedPlaylist)
                 /\ LastOf(snap) >= LastOf(cachedPlaylist)
      BY <1>1, <1>3, <3>1, AdvancesKept
    <3>3. QED
      BY <2>1, <3>2 DEF Advances
  <2>6. QED
    BY <2>1, <2>2, <2>3, <2>4, <2>5 DEF TraceInv
<1>4. ASSUME UNCHANGED streamVars
      PROVE  /\ \A i, e : Traced(i, e) =>
                  \/ i \in DOMAIN segments' /\ segments'[i].ts = e.ts /\ segments'[i].gen = e.gen
                  \/ currentGeneration' > e.gen /\ (i \in DOMAIN segments' => segments'[i].gen > e.gen)
                  \/ /\ \A j \in DOMAIN segments' : i < j
                     /\ \E k \in DOMAIN segments' : segments'[k].ts < now' /\ segments'[k].gen >= e.gen
             /\ UNCHANGED <<segments, now, currentGeneration>>
  BY <1>4, ViewUnchanged DEF Traced, Evaded
<1>5. CASE Render
  <2>1. /\ renderer' = "store" /\ snap' = SnapshotAt(nowMs) /\ cachedPlaylist' = cachedPlaylist
        /\ UNCHANGED streamVars /\ renderer = "render"
    BY <1>5 DEF Render
  <2>2. Follows(cachedPlaylist, SnapshotAt(nowMs))
        /\ \A i \in DOMAIN SnapshotAt(nowMs) : Traced(i, SnapshotAt(nowMs)[i])
    BY <1>1, <1>2, RenderFollows
  <2>3. Advances(cachedPlaylist, SnapshotAt(nowMs))
    BY <1>1, <1>2, <2>1, RenderAdvances DEF ReachInv
  <2>4. Follows(cachedPlaylist, snap)' /\ Advances(cachedPlaylist, snap)'
    <3>1. Follows(cachedPlaylist, snap)'
      BY <2>1, <2>2 DEF Follows
    <3>2. Advances(cachedPlaylist, snap)'
      BY <1>4, <2>1, <2>3 DEF Advances, OneGeneration, Outlived, Evaded
    <3>3. QED
      BY <3>1, <3>2
  <2>5. \A i \in DOMAIN snap' : Traced(i, snap[i])'
    <3> DEFINE q == SnapshotAt(nowMs)
    <3> HIDE DEF q
    <3>1. snap' = q /\ \A i \in DOMAIN q : Traced(i, q[i])
      BY <2>1, <2>2 DEF q
    <3>2. QED
      BY <1>4, <2>1, <3>1 DEF Traced, Evaded
  <2>6. \A i \in DOMAIN cachedPlaylist' : Traced(i, cachedPlaylist[i])'
    BY <1>2, <1>4, <2>1 DEF Traced, Evaded
  <2>7. QED
    BY <2>4, <2>5, <2>6 DEF TraceInv
<1>6. CASE StoreSnapshot
  <2>1. renderer' = "announce" /\ cachedPlaylist' = snap /\ snap' = snap /\ UNCHANGED streamVars
    BY <1>6 DEF StoreSnapshot
  <2>2. \A i \in DOMAIN snap : Traced(i, snap[i])'
    BY <1>2, <1>4, <2>1 DEF Traced, Evaded
  <2>3. \A i \in DOMAIN cachedPlaylist' : Traced(i, cachedPlaylist[i])'
    BY <1>2, <1>4, <2>1 DEF Traced, Evaded
  <2>4. QED
    BY <2>1, <2>2, <2>3 DEF TraceInv
<1>7. CASE Announce
  <2>1. renderer' = "arm" /\ cachedPlaylist' = cachedPlaylist /\ snap' = NoPlaylist
        /\ UNCHANGED streamVars
    BY <1>7 DEF Announce
  <2>2. \A i \in DOMAIN cachedPlaylist' : Traced(i, cachedPlaylist[i])'
    BY <1>2, <1>4, <2>1 DEF Traced, Evaded
  <2>3. DOMAIN snap' = {}
    BY <2>1 DEF NoPlaylist
  <2>4. QED
    BY <2>1, <2>2, <2>3 DEF TraceInv
<1>8. CASE ReadClock \/ Arm \/ Wake \/ Stop \/ Drain \/ CloseDone \/ UNCHANGED liveVars
  <2>1. /\ renderer' = "store" => renderer = "store"
        /\ UNCHANGED <<cachedPlaylist, snap>> /\ UNCHANGED streamVars
    BY <1>8 DEF ReadClock, Arm, Wake, Stop, Drain, CloseDone, liveVars, rendererVars, vars, streamVars
  <2>2. \A i \in DOMAIN cachedPlaylist' : Traced(i, cachedPlaylist[i])'
    BY <1>2, <1>4, <2>1 DEF Traced, Evaded
  <2>3. \A i \in DOMAIN snap' : Traced(i, snap[i])'
    BY <1>2, <1>4, <2>1 DEF Traced, Evaded
  <2>4. (renderer = "store" => Follows(cachedPlaylist, snap) /\ Advances(cachedPlaylist, snap))'
    BY <1>2, <1>4, <2>1 DEF Follows, Advances, OneGeneration, Outlived, Evaded
  <2>5. QED
    BY <2>2, <2>3, <2>4 DEF TraceInv
<1>9. QED
  BY <1>3, <1>5, <1>6, <1>7, <1>8 DEF LiveNext, Loop

-------------------------------------------------------------------------------
(* There is always something to list. *)

\* Once something has been rendered, there is something to render, as long as
\* there is one generation.
ServedInv ==
    (hasPlaylist \/ cachedPlaylist # NoPlaylist \/ snap # NoPlaylist) /\ OneGeneration =>
        EligibleAt(now) # {}

\* With one generation, eviction leaves something eligible.
LEMMA EligibleRemains ==
    ASSUME IInv, [Next]_vars, ~ClockStepsBack, OneGeneration', EligibleAt(now) # {}
    PROVE  EligibleAt(now)' # {}
<1>1. /\ now \in Nat /\ MaxLookaheadMs \in Nat /\ currentGeneration \in Nat
      /\ \A i \in DOMAIN segments : segments[i].ts \in Int
  BY BufferFacts
<1>2. CASE UNCHANGED <<now, segments, currentGeneration, notifyCh>>
  BY <1>2 DEF EligibleAt
<1>3. CASE Tick
  <2>1. now' = now + 1 /\ segments' = segments
    BY <1>3, ClockForward
  <2>2. \A i \in DOMAIN segments :
           segments[i].ts <= now + MaxLookaheadMs => segments[i].ts <= now' + MaxLookaheadMs
    BY <1>1, <2>1
  <2>3. QED
    BY <2>1, <2>2 DEF EligibleAt
<1>4. ASSUME NEW u \in Uploaders, NEW i \in Indices, NEW t \in Timestamps, NEW g \in Generations,
             NEW K \in SUBSET DOMAIN segments, CommitsTo(u, i, t, g, K)
      PROVE  EligibleAt(now)' # {}
  <2>1. g = 0 /\ currentGeneration = 0
    BY <1>1, <1>4, ConstantsAssumption DEF CommitsTo, OneGeneration
  <2>2. /\ now' = now /\ K = Retained
        /\ \A j \in K : j \in DOMAIN segments' /\ segments'[j] = segments[j]
    BY <1>4, <2>1, NothingDropped DEF CommitsTo
  <2>3. PICK j \in LastAt(now) : TRUE
    BY <1>1, Candidates
  <2>4. j \notin Evicted
    BY <2>3, EvictionBeyondWindow DEF PublishableWindow, Eligible, LastAt, EligibleAt
  <2>5. j \in DOMAIN segments /\ segments[j].ts <= now + MaxLookaheadMs
    BY <2>3 DEF LastAt, EligibleAt
  <2>6. QED
    BY <2>2, <2>4, <2>5 DEF Retained, EligibleAt
<1>5. QED
  BY <1>2, <1>3, <1>4, NextOnBuffer

\* Every step keeps ServedInv, on a clock that is not set back.
LEMMA ServedInvNext ==
    ASSUME IInv, WakeInv, ServedInv, ~ClockStepsBack, [LiveNext]_liveVars
    PROVE  ServedInv'
<1>1. CASE Next /\ UNCHANGED rendererVars
  <2>1. OneGeneration' => OneGeneration
    BY <1>1, GenerationForward, BufferFacts DEF OneGeneration
  <2>2. UNCHANGED <<hasPlaylist, cachedPlaylist, snap>>
    BY <1>1 DEF rendererVars
  <2>3. OneGeneration' /\ EligibleAt(now) # {} => EligibleAt(now)' # {}
    BY <1>1, EligibleRemains
  <2>4. QED
    BY <2>1, <2>2, <2>3 DEF ServedInv
<1>2. ASSUME UNCHANGED streamVars
      PROVE  (OneGeneration' => OneGeneration) /\ EligibleAt(now)' = EligibleAt(now)
  BY <1>2, ViewUnchanged DEF EligibleAt, OneGeneration
<1>3. CASE Render
  <2>1. /\ snap' = SnapshotAt(nowMs) /\ UNCHANGED <<hasPlaylist, cachedPlaylist>>
        /\ UNCHANGED streamVars /\ nowMs \in Int /\ nowMs <= now
    BY <1>3 DEF Render, WakeInv
  <2>2. ASSUME SnapshotAt(nowMs) # NoPlaylist PROVE EligibleAt(now) # {}
    <3>1. WindowAt(nowMs) # {}
      BY <2>1, <2>2, SnapshotWellFormed DEF WellFormed
    <3>2. PICK i \in EligibleAt(nowMs) : TRUE
      BY <2>1, <3>1, WindowIsRun, Candidates
    <3>3. i \in DOMAIN segments /\ segments[i].ts <= nowMs + MaxLookaheadMs
      BY <3>2 DEF EligibleAt
    <3>4. segments[i].ts <= now + MaxLookaheadMs
      BY <2>1, <3>3, BufferFacts
    <3>5. QED
      BY <3>3, <3>4 DEF EligibleAt
  <2>3. QED
    BY <1>2, <2>1, <2>2 DEF ServedInv
<1>4. CASE StoreSnapshot
  BY <1>2, <1>4 DEF StoreSnapshot, ServedInv
<1>5. CASE Announce
  BY <1>2, <1>5 DEF Announce, ServedInv
<1>6. CASE ReadClock \/ Arm \/ Wake \/ Stop \/ Drain \/ CloseDone \/ UNCHANGED liveVars
  <2>1. UNCHANGED <<hasPlaylist, cachedPlaylist, snap>> /\ UNCHANGED streamVars
    BY <1>6 DEF ReadClock, Arm, Wake, Stop, Drain, CloseDone, liveVars, rendererVars, vars, streamVars
  <2>2. QED
    BY <1>2, <2>1 DEF ServedInv
<1>7. QED
  BY <1>1, <1>3, <1>4, <1>5, <1>6 DEF LiveNext, Loop

-------------------------------------------------------------------------------
(* What a viewer can rely on. *)

PublishInv == WakeInv /\ FormInv /\ ReachInv /\ TraceInv /\ ServedInv

\* On a clock that is not set back, the renderer keeps all of them.
LEMMA PublishInvariantHolds == ASSUME ~ClockStepsBack PROVE LiveSpec => []PublishInv
<1>1. LiveInit => PublishInv
  <2>1. ASSUME LiveInit PROVE PublishInv
    <3>1. DOMAIN NoPlaylist = {}
      BY DEF NoPlaylist
    <3>2. /\ renderer = "clock" /\ cachedPlaylist = NoPlaylist /\ snap = NoPlaylist
          /\ ~hasPlaylist /\ nowMs = 0 /\ nextEligible = 0 /\ wakeAt = Never
      BY <2>1 DEF LiveInit
    <3>3. WakeInv
      BY <3>2, ConstantsAssumption DEF WakeInv, Never
    <3>4. FormInv
      BY <3>2, EmptyWellFormed DEF FormInv
    <3>5. ReachInv
      BY <3>1, <3>2 DEF ReachInv, Reached
    <3>6. TraceInv
      BY <3>1, <3>2 DEF TraceInv
    <3>7. ServedInv
      BY <3>2 DEF ServedInv
    <3>8. QED
      BY <3>3, <3>4, <3>5, <3>6, <3>7 DEF PublishInv
  <2>2. QED
    BY <2>1
<1>2. IInv /\ IInv' /\ PublishInv /\ [LiveNext]_liveVars => PublishInv'
  BY WakeInvNext, FormInvNext, ReachInvNext, TraceInvNext, ServedInvNext DEF PublishInv
<1>3. QED
  BY <1>1, <1>2, LiveInvariantHolds, PTL DEF LiveSpec

\* Where something is eligible, a render lists something.
LEMMA EligibleIsListed ==
    ASSUME IInv, NEW t \in Int, EligibleAt(t) # {}
    PROVE  SnapshotAt(t) # NoPlaylist
<1>1. WindowAt(t) # {} /\ DOMAIN SnapshotAt(t) = WindowAt(t)
  BY WindowIsRun, SnapshotWellFormed
<1>2. DOMAIN NoPlaylist = {}
  BY DEF NoPlaylist
<1>3. QED
  BY <1>1, <1>2

\* A waiter that hasPlaylist released is served, for any number of uploads and
\* evictions, until the encoder restarts.
THEOREM WaitersAreServed == ASSUME ~ClockStepsBack PROVE LiveSpec => []AnnouncedPlaylistServed
<1>1. IInv /\ PublishInv => AnnouncedPlaylistServed
  <2>1. SUFFICES ASSUME IInv, PublishInv, hasPlaylist, OneGeneration
                 PROVE  SnapshotAt(now) # NoPlaylist /\ (Asleep => cachedPlaylist # NoPlaylist)
    BY DEF AnnouncedPlaylistServed
  <2>2. SnapshotAt(now) # NoPlaylist
    BY <2>1, BufferFacts, EligibleIsListed DEF PublishInv, ServedInv
  <2>3. Asleep => cachedPlaylist = SnapshotAt(now)
    BY <2>1 DEF PublishInv, WakeInv, Asleep, Fresh
  <2>4. QED
    BY <2>2, <2>3
<1>2. QED
  BY <1>1, LiveInvariantHolds, PublishInvariantHolds, PTL

\* Only the renderer's publication changes what is published.
LEMMA OnlyStorePublishes ==
    ASSUME [LiveNext]_liveVars, cachedPlaylist' # cachedPlaylist
    PROVE  renderer = "store" /\ cachedPlaylist' = snap
BY DEF LiveNext, Loop, ReadClock, Render, StoreSnapshot, Announce, Arm, Wake, Stop, Drain, CloseDone,
       liveVars, rendererVars

\* A full playlist only moves forward or, overtaken by evictions, gives way as a
\* whole, for any number of uploads in any order, until the encoder restarts.
THEOREM FullWindowsAdvance == ASSUME ~ClockStepsBack PROVE LiveSpec => FullWindowAdvances
<1> DEFINE Moved ==
        OneGeneration /\ Cardinality(DOMAIN cachedPlaylist) = PlaylistWindowSize =>
          \/ /\ cachedPlaylist' = NoPlaylist
             /\ DOMAIN cachedPlaylist \cap DOMAIN segments = {}
          \/ /\ cachedPlaylist' # NoPlaylist
             /\ FirstOf(cachedPlaylist') >= FirstOf(cachedPlaylist)
             /\ LastOf(cachedPlaylist') >= LastOf(cachedPlaylist)
<1>1. IInv /\ PublishInv /\ [LiveNext]_liveVars => [Moved]_cachedPlaylist
  <2>1. SUFFICES ASSUME IInv, PublishInv, [LiveNext]_liveVars, cachedPlaylist' # cachedPlaylist,
                        OneGeneration, Cardinality(DOMAIN cachedPlaylist) = PlaylistWindowSize
                 PROVE  \/ /\ cachedPlaylist' = NoPlaylist
                           /\ DOMAIN cachedPlaylist \cap DOMAIN segments = {}
                        \/ /\ cachedPlaylist' # NoPlaylist
                           /\ FirstOf(cachedPlaylist') >= FirstOf(cachedPlaylist)
                           /\ LastOf(cachedPlaylist') >= LastOf(cachedPlaylist)
    OBVIOUS
  <2>2. renderer = "store" /\ cachedPlaylist' = snap
    BY <2>1, OnlyStorePublishes
  <2>3. Advances(cachedPlaylist, snap)
    BY <2>1, <2>2 DEF PublishInv, TraceInv
  <2>4. ASSUME NEW i \in DOMAIN cachedPlaylist, Outlived(i, 0) PROVE i \notin DOMAIN segments
    <3>1. \A j \in DOMAIN segments : i < j
      BY <2>1, <2>4 DEF OneGeneration, Outlived, Evaded
    <3>2. i \in Nat
      BY <2>1 DEF PublishInv, FormInv, WellFormed
    <3>3. QED
      BY <3>1, <3>2
  <2>5. QED
    BY <2>1, <2>2, <2>3, <2>4 DEF Advances
<1>2. QED
  BY <1>1, LiveInvariantHolds, PublishInvariantHolds, PTL DEF LiveSpec, FullWindowAdvances

\* Two successive playlists agree on every segment both list, unless a newer
\* generation has replaced it, whatever is uploaded, dropped and evicted.
THEOREM PublishedSegmentsStable == ASSUME ~ClockStepsBack PROVE LiveSpec => PublishedSegmentStable
<1> DEFINE Agree ==
        \A i \in DOMAIN cachedPlaylist \cap DOMAIN cachedPlaylist' :
          \/ cachedPlaylist'[i] = cachedPlaylist[i]
          \/ cachedPlaylist'[i].gen > cachedPlaylist[i].gen
<1>1. PublishInv /\ [LiveNext]_liveVars => [Agree]_cachedPlaylist
  BY OnlyStorePublishes DEF PublishInv, TraceInv, Follows
<1>2. QED
  BY <1>1, PublishInvariantHolds, PTL DEF LiveSpec, PublishedSegmentStable

===============================================================================
