---------------------------- MODULE InitRequestProofs ---------------------------
(***************************************************************************)
(* Proofs about InitRequest: the checks of POST /init, over ints that wrap *)
(* around, mean what their limits say, for an int of any width and any     *)
(* headers and settings.                                                   *)
(***************************************************************************)
EXTENDS InitRequest, TLAPS

-------------------------------------------------------------------------------
(* Arithmetic. *)

\* What the quotient of a division is.
LEMMA QuotientBounds ==
    ASSUME NEW n \in Nat, NEW d \in Nat \ {0}
    PROVE  n \div d \in Nat /\ (n \div d) * d <= n /\ n < (n \div d) * d + d
OBVIOUS

\* A product may be checked by a division.
LEMMA QuotientCheck ==
    ASSUME NEW n \in Nat, NEW d \in Nat \ {0}, NEW x \in Int
    PROVE  x <= n \div d <=> x * d <= n
<1> DEFINE q == n \div d
<1>1. q \in Nat /\ q * d <= n /\ n < (q + 1) * d
  BY QuotientBounds
<1>2. \A a, b \in Int : a <= b => a * d <= b * d
  OBVIOUS
<1> HIDE DEF q
<1>3. CASE x <= q
  BY <1>1, <1>2, <1>3
<1>4. CASE ~(x <= q)
  <2>1. q + 1 <= x
    BY <1>1, <1>4
  <2>2. (q + 1) * d <= x * d
    BY <1>1, <1>2, <2>1
  <2>3. n < x * d
    BY <1>1, <2>2
  <2>4. x * d \in Int
    OBVIOUS
  <2>5. QED
    BY <1>4, <2>3, <2>4
<1>5. QED
  BY <1>3, <1>4 DEF q

\* An int holds what is in its range.
LEMMA WrappedInRange ==
    ASSUME NEW x \in -(MaxInt + 1)..MaxInt
    PROVE  Wrapped(x) = x
<1>1. MaxInt \in Nat
  BY InitAssumption
<1> DEFINE m == 2 * (MaxInt + 1)
<1>2. x + MaxInt + 1 \in 0..(m - 1) /\ m \in Nat \ {0}
  BY <1>1
<1>3. \A y \in 0..(m - 1) : y % m = y
  BY <1>2
<1>4. QED
  BY <1>1, <1>2, <1>3 DEF Wrapped

\* The sum of two positive ints that does not fit is negative.
LEMMA WrappedSum ==
    ASSUME NEW a \in 0..MaxInt, NEW b \in 0..MaxInt, a + b > MaxInt
    PROVE  Wrapped(a + b) = a + b - 2 * (MaxInt + 1) /\ Wrapped(a + b) < 0
<1>1. MaxInt \in Nat
  BY InitAssumption
<1> DEFINE m == 2 * (MaxInt + 1)
           y == a + b + MaxInt + 1
<1>2. y - m \in 0..(m - 1) /\ m \in Nat \ {0}
  BY <1>1
<1>3. y % m = y - m
  <2>1. \A z \in 0..(m - 1) : (z + m) % m = z
    BY <1>2
  <2>2. QED
    BY <1>2, <2>1, <1>1
<1>4. QED
  BY <1>1, <1>2, <1>3 DEF Wrapped

\* A product grows with a factor.
LEMMA ProductGrows ==
    ASSUME NEW a \in Int, NEW b \in Int, NEW d \in Nat, a <= b
    PROVE  a * d \in Int /\ b * d \in Int /\ a * d <= b * d
OBVIOUS

-------------------------------------------------------------------------------
(* The checks, one by one. *)

\* The size of the pool: the quotient guards a product that would wrap, and the
\* sum is the one that Store.Init checks.
LEMMA BufferCheck ==
    ASSUME NEW r \in InitRequests, NEW e \in Environments,
           r.segmentBytes > 0, r.segmentCap > 0, r.segmentCap <= MaxInt - e.workingSpace
    PROVE  BufferAllowed(r, e) <=> PoolFits(r, e)
<1> DEFINE T == r.segmentCap + e.workingSpace
           B == r.segmentBytes
<1>1. /\ MaxInt \in Nat /\ T \in 1..MaxInt /\ B \in 1..MaxInt
      /\ e.maxBufferBytes \in 1..MaxInt
  BY InitAssumption
<1>2. TotalSlots(r, e) = T
  BY <1>1, WrappedInRange DEF TotalSlots
<1>3. T <= MaxInt \div B <=> T * B <= MaxInt
  BY <1>1, QuotientCheck
<1>4. T * B \in Nat
  BY <1>1
<1>5. T * B <= MaxInt => Wrapped(T * B) = T * B
  BY <1>1, <1>4, WrappedInRange
<1>6. BufferAllowed(r, e) <=> T <= MaxInt \div B /\ Wrapped(T * B) <= e.maxBufferBytes
  BY <1>2 DEF BufferAllowed
<1>7. PoolFits(r, e) <=> T * B <= e.maxBufferBytes
  BY <1>1 DEF PoolFits
<1> HIDE DEF T, B
<1>8. QED
  BY <1>1, <1>3, <1>4, <1>5, <1>6, <1>7

\* A pool that fits needs no sum that wraps.
LEMMA PoolFitsInt ==
    ASSUME NEW r \in InitRequests, NEW e \in Environments, PoolFits(r, e)
    PROVE  r.segmentCap <= MaxInt - e.workingSpace
<1> DEFINE T == r.segmentCap + e.workingSpace
<1>1. /\ MaxInt \in Nat /\ T \in Nat /\ r.segmentBytes \in Nat \ {0}
      /\ r.segmentCap \in Int /\ e.workingSpace \in Int
      /\ T * r.segmentBytes <= MaxInt
  BY InitAssumption DEF PoolFits
<1>2. 1 * T <= r.segmentBytes * T
  BY <1>1, ProductGrows
<1>3. T <= T * r.segmentBytes /\ T * r.segmentBytes \in Int
  BY <1>1, <1>2
<1>4. QED
  BY <1>1, <1>3

\* The span of a window.
LEMMA SpanCheck ==
    ASSUME NEW w \in Int, NEW t \in Int, t > 0
    PROVE  WindowSpanAllowed(w, t) <=> w * t <= MaxPlaylistWindowSpan
BY QuotientCheck, InitAssumption DEF WindowSpanAllowed

\* A target that a window of the allowed span has room for does not wrap in
\* milliseconds, and neither does the default look-ahead.
LEMMA TargetFits ==
    ASSUME NEW r \in InitRequests, NEW w \in Int, w >= 1,
           r.target > 0, w * r.target <= MaxPlaylistWindowSpan
    PROVE  /\ TargetMs(r) = r.target * MsPerSecond
           /\ TargetMs(r) \in Nat
           /\ Wrapped(DefaultMaxLookaheadMultiplier * TargetMs(r)) \in 0..MaxLookaheadCeilingMs
<1> DEFINE t == r.target
           M == MsPerSecond
           S == MaxPlaylistWindowSpan
<1>1. /\ t \in Nat /\ M \in Nat /\ S \in Nat /\ MaxInt \in Nat
      /\ MaxLookaheadCeilingMs <= MaxInt /\ 3 * S * M <= MaxLookaheadCeilingMs
      /\ MaxLookaheadCeilingMs \in Int
  BY InitAssumption DEF DefaultMaxLookaheadMultiplier
<1>2. 1 * t <= w * t
  BY <1>1, ProductGrows
<1>3. t <= S
  BY <1>1, <1>2
<1>4. t * M <= S * M /\ t * M \in Nat
  BY <1>1, <1>3
<1> HIDE DEF t, M, S
<1>5. 3 * (t * M) \in 0..MaxLookaheadCeilingMs /\ t * M \in 0..MaxInt
  BY <1>1, <1>4
<1>6. TargetMs(r) = t * M
  BY <1>1, <1>5, WrappedInRange DEF TargetMs, t, M
<1>7. Wrapped(3 * (t * M)) = 3 * (t * M)
  BY <1>1, <1>5, WrappedInRange
<1>8. QED
  BY <1>4, <1>5, <1>6, <1>7 DEF DefaultMaxLookaheadMultiplier, t, M

-------------------------------------------------------------------------------
\* For one request and one environment.
LEMMA InitCheckMeansItsLimits ==
    ASSUME NEW r \in InitRequests, NEW e \in Environments
    PROVE  /\ InitAccepted(r, e) <=> Documented(r, e)
           /\ InitAccepted(r, e) => LookaheadSound(r)
<1> DEFINE w == PlaylistWindow(r)
           Common == /\ r.target > 0 /\ r.backward \in 1..(r.segmentCap - 1)
                     /\ w \in 1..r.backward /\ w * r.target <= MaxPlaylistWindowSpan
                     /\ r.segmentBytes > 0
                     /\ r.segmentCap <= MaxInt - e.workingSpace
                     /\ PoolFits(r, e)
<1>1. /\ r.segmentCap \in Int /\ r.segmentBytes \in Int /\ r.target \in Int
      /\ r.backward \in Int /\ e.workingSpace \in Nat /\ MaxInt \in Nat
      /\ r.lookahead # Absent => r.lookahead \in Int
      /\ w \in Int
      /\ Absent \notin Int
      /\ MaxLookaheadCeilingMs \in Int
  BY InitAssumption DEF PlaylistWindow
<1>2. InitAccepted(r, e) => Common
  <2>1. SUFFICES ASSUME InitAccepted(r, e) PROVE Common
    OBVIOUS
  <2>2. /\ r.target > 0 /\ r.segmentBytes > 0 /\ r.segmentCap > 0
        /\ BufferAllowed(r, e) /\ WindowSpanAllowed(w, r.target)
        /\ r.segmentCap <= MaxInt - e.workingSpace
        /\ r.backward \in 1..(r.segmentCap - 1) /\ w \in 1..r.backward
    BY <1>1, <2>1 DEF InitAccepted, HeadersAccepted, ParametersValid
  <2>3. PoolFits(r, e)
    BY <2>2, BufferCheck
  <2>4. w * r.target <= MaxPlaylistWindowSpan
    BY <1>1, <2>2, SpanCheck
  <2>5. QED
    BY <2>2, <2>3, <2>4
<1>3. Documented(r, e) => Common
  BY <1>1, PoolFitsInt DEF Documented, PoolFits
<1>4. ASSUME Common
      PROVE  /\ InitAccepted(r, e) <=> Documented(r, e)
             /\ InitAccepted(r, e) => LookaheadSound(r)
  <2>1. BufferAllowed(r, e) /\ WindowSpanAllowed(w, r.target)
    <3>1. BufferAllowed(r, e)
      BY <1>1, <1>4, BufferCheck
    <3>2. WindowSpanAllowed(w, r.target)
      BY <1>1, <1>4, SpanCheck
    <3>3. QED
      BY <3>1, <3>2
  <2>2. /\ TargetMs(r) = r.target * MsPerSecond /\ TargetMs(r) \in Nat
        /\ Wrapped(DefaultMaxLookaheadMultiplier * TargetMs(r)) \in 0..MaxLookaheadCeilingMs
    BY <1>1, <1>4, TargetFits
  <2>3. InitAccepted(r, e) <=> LookaheadAllowed(r) /\ MaxLookahead(r) >= 0
    BY <1>1, <1>4, <2>1 DEF InitAccepted, HeadersAccepted, ParametersValid
  <2>4. Documented(r, e)
          <=> r.lookahead \in {Absent, 0} \cup (r.target * MsPerSecond)..MaxLookaheadCeilingMs
    BY <1>1, <1>4 DEF Documented
  <2>5. CASE r.lookahead = Absent
    BY <1>1, <2>2, <2>3, <2>4, <2>5 DEF LookaheadAllowed, MaxLookahead, LookaheadSound
  <2>6. CASE r.lookahead # Absent
    <3>1. MaxLookahead(r) = r.lookahead /\ r.lookahead \in Int
      BY <1>1, <2>6 DEF MaxLookahead
    <3>2. LookaheadAllowed(r)
            <=> r.lookahead \in {0} \cup (r.target * MsPerSecond)..MaxLookaheadCeilingMs
      BY <1>1, <2>2, <2>6, <3>1 DEF LookaheadAllowed
    <3>3. QED
      BY <2>2, <2>3, <2>4, <2>6, <3>1, <3>2 DEF LookaheadAllowed, LookaheadSound
  <2>7. QED
    BY <2>5, <2>6
<1>5. QED
  BY <1>2, <1>3, <1>4

\* POST /init accepts exactly the requests that its documented limits admit, and
\* the look-ahead of a stream it creates is within the ceiling.
THEOREM InitChecksMeanTheirLimits ==
    \A r \in InitRequests, e \in Environments :
        /\ InitAccepted(r, e) <=> Documented(r, e)
        /\ InitAccepted(r, e) => LookaheadSound(r)
BY InitCheckMeansItsLimits

===============================================================================
