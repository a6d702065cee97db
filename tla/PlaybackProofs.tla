----------------------------- MODULE PlaybackProofs -----------------------------
(***************************************************************************)
(* Proofs about Playback: what the renderer keeps true of its playlists    *)
(* (LiveStreamProofs) is enough for a session's start offset and for the   *)
(* tokens in its segments' URIs.                                           *)
(***************************************************************************)
EXTENDS Playback, LiveStreamProofs

-------------------------------------------------------------------------------
(* The start offset. *)

\* No playlist's tail is further ahead than the look-ahead, so that the offset
\* to it is within what the media playlist accepts: at any moment, on a clock
\* that is not set back.
THEOREM StickyOffsetsKept == ASSUME ~ClockStepsBack PROVE LiveSpec => []StickyOffsetKept
<1>1. IInv /\ PublishInv => StickyOffsetKept
  <2>1. SUFFICES ASSUME IInv, PublishInv, cachedPlaylist # NoPlaylist,
                        NEW duration \in 1..MaxSegmentDurationMs
                 PROVE  LET to == FreshOffset(duration)
                        IN  StickyOffsetAccepted(to) /\ StartLineFromOffset(to) = to
    BY DEF StickyOffsetKept
  <2> DEFINE last == LastOf(cachedPlaylist)
             ts == cachedPlaylist[last].ts
  <2>2. last \in DOMAIN cachedPlaylist
    BY <2>1, FirstAndLast DEF PublishInv, FormInv, WellFormed
  <2>3. ts \in Int /\ ts <= now + MaxLookaheadMs
    BY <2>1, <2>2 DEF PublishInv, FormInv, WellFormed, ReachInv, Reached
  <2>4. EndMs(duration) = ts + duration
    BY DEF EndMs
  <2> HIDE DEF last, ts
  <2>5. /\ now \in Nat /\ MaxLookaheadMs \in Nat /\ duration \in Nat
        /\ duration <= MaxSegmentDurationMs
    BY <2>1, BufferFacts, PlaybackAssumption
  <2> DEFINE to == FreshOffset(duration)
  <2>6. to \in Int /\ to >= 3 * TargetDuration /\ to <= MaxLookaheadCeilingMs + StickySlackMs
    BY <2>3, <2>4, <2>5, PlaybackAssumption DEF FreshOffset, StartLineFromOffset, MinHoldBack
  <2> HIDE DEF to
  <2>7. StickyOffsetAccepted(to) /\ StartLineFromOffset(to) = to
    BY <2>6, PlaybackAssumption
    DEF StickyOffsetAccepted, MaxStickyOffset, StartLineFromOffset, MinHoldBack
  <2>8. QED
    BY <2>7 DEF to
<1>2. QED
  BY <1>1, LiveInvariantHolds, PublishInvariantHolds, PTL

-------------------------------------------------------------------------------
(* The tokens in the segments' URIs. *)

\* Multiplication with a natural keeps the order.
LEMMA TimesMonotone ==
    ASSUME NEW a \in Nat, NEW b \in Nat, NEW c \in Nat, a <= b
    PROVE  a * c <= b * c
<1>1. (b - a) * c >= 0 /\ b * c = a * c + (b - a) * c
  OBVIOUS
<1>2. QED
  BY <1>1

\* Truncation to a multiple takes less than one unit.
LEMMA TruncationLoss ==
    ASSUME NEW x \in Int, NEW m \in Nat \ {0}
    PROVE  (x \div m) * m > x - m
OBVIOUS

\* In a steady feed, a segment is behind the present by no more target durations
\* than there are segments from it on.
LEMMA SteadySpan ==
    ASSUME IInv, SteadyFeed, NEW i \in EligibleAt(now)
    PROVE  segments[i].ts + Cardinality({j \in EligibleAt(now) : j >= i}) * TargetDuration >= now
<1> DEFINE E == EligibleAt(now)
           From(k) == {j \in E : j >= k}
           C(k) == Cardinality(From(k))
           Behind == {k \in E : ~(segments[k].ts + C(k) * TargetDuration >= now)}
<1>1. /\ E \in SUBSET Nat /\ IsFiniteSet(E) /\ E \subseteq DOMAIN segments
      /\ now \in Nat /\ TargetDuration \in Nat
      /\ \A k \in E : k \in Nat /\ segments[k].ts \in Int
  BY BufferFacts, Candidates, PlaybackAssumption
<1>2. \A k \in E : IsFiniteSet(From(k)) /\ C(k) \in Nat
  <2>1. \A k \in E : IsFiniteSet(From(k))
    BY <1>1, FS_Subset
  <2>2. QED
    BY <2>1, FS_CardinalityType
<1>3. SUFFICES ASSUME Behind # {} PROVE FALSE
  OBVIOUS
<1>4. PICK m \in Behind : \A k \in Behind : k <= m
  <2>1. Behind \in SUBSET Nat /\ IsFiniteSet(Behind)
    BY <1>1, FS_Subset
  <2>2. QED
    BY <1>3, <2>1, GreatestNatural
<1>5. m \in E /\ m \in Nat /\ C(m) \in Nat /\ segments[m].ts \in Int
      /\ ~(segments[m].ts + C(m) * TargetDuration >= now)
  BY <1>1, <1>2, <1>4
<1>6. CASE \A k \in E : k <= m
  <2>1. PICK e \in E : segments[e].ts + TargetDuration >= now
    BY DEF SteadyFeed
  <2>2. segments[e].ts <= segments[m].ts
    <3>1. CASE e = m
      BY <1>5, <3>1
    <3>2. CASE e < m
      BY <1>1, <1>5, <3>2 DEF IInv, Ordered
    <3>3. QED
      BY <1>1, <1>5, <1>6, <3>1, <3>2
  <2>3. C(m) >= 1
    <3>1. {m} \subseteq From(m)
      BY <1>5
    <3>2. Cardinality({m}) <= C(m) /\ Cardinality({m}) = 1
      BY <1>2, <1>5, <3>1, FS_Subset, FS_Singleton
    <3>3. QED
      BY <3>2
  <2> HIDE DEF C
  <2>4. C(m) * TargetDuration >= TargetDuration
    <3>1. 1 * TargetDuration <= C(m) * TargetDuration
      BY <1>1, <1>5, <2>3, TimesMonotone
    <3>2. QED
      BY <1>1, <3>1
  <2>5. C(m) * TargetDuration \in Int
    BY <1>1, <1>5
  <2>6. segments[e].ts \in Int
    BY <1>1
  <2> DEFINE span == C(m) * TargetDuration
  <2> HIDE DEF span
  <2>7. segments[m].ts + span >= now
    BY <1>1, <1>5, <2>1, <2>2, <2>4, <2>5, <2>6 DEF span
  <2>8. QED
    BY <1>5, <2>7 DEF span
<1>7. CASE ~ \A k \in E : k <= m
  <2>1. PICK n \in E : n > m /\ \A k \in E : k > m => n <= k
    <3> DEFINE Later == {k \in E : k > m}
    <3>1. Later \in SUBSET Nat /\ Later # {}
      BY <1>1, <1>5, <1>7
    <3>2. PICK n \in Later : \A k \in Later : n <= k
      BY <3>1, LeastNatural
    <3>3. QED
      BY <3>2
  <2>2. n \in Nat /\ segments[n].ts \in Int /\ C(n) \in Nat
    BY <1>1, <1>2
  <2>3. n \in RightNeighbours(m + 1, E)
    <3>1. \A k \in E : k >= m + 1 <=> k > m
      BY <1>1, <1>5
    <3>2. QED
      BY <2>1, <3>1 DEF RightNeighbours
  <2>4. segments[n].ts - segments[m].ts <= TargetDuration
    BY <1>5, <2>3 DEF SteadyFeed
  <2>5. segments[n].ts + C(n) * TargetDuration >= now
    <3>1. n \notin Behind
      BY <1>4, <1>5, <2>1, <2>2
    <3>2. QED
      BY <3>1
  <2>6. C(m) = C(n) + 1
    <3>1. From(m) = From(n) \cup {m} /\ m \notin From(n)
      <4>1. \A k \in E : k >= m <=> k = m \/ k >= n
        BY <1>1, <1>5, <2>1, <2>2
      <4>2. ~(m >= n)
        BY <1>5, <2>1, <2>2
      <4>3. QED
        BY <1>5, <4>1, <4>2
    <3>2. QED
      BY <1>2, <3>1, FS_AddElement
  <2> HIDE DEF C, E
  <2>7. C(m) * TargetDuration = C(n) * TargetDuration + TargetDuration
        /\ C(n) * TargetDuration \in Int
    BY <1>1, <2>2, <2>6
  <2> DEFINE span == C(n) * TargetDuration
  <2> HIDE DEF span
  <2>8. C(m) * TargetDuration = span + TargetDuration /\ span \in Int
    BY <2>7 DEF span
  <2>9. segments[m].ts + (span + TargetDuration) >= now
    BY <1>1, <1>5, <2>2, <2>4, <2>5, <2>8 DEF span
  <2>10. QED
    BY <1>5, <2>8, <2>9
<1>8. QED
  BY <1>6, <1>7

\* The token of a segment that is behind by no more than a full window is live.
LEMMA TokenOutlastsWindow ==
    ASSUME NEW ts \in Int, NEW t \in Nat, ts + PlaylistWindowSize * TargetDuration >= t
    PROVE  SegmentExpiry(ts) > t
<1>1. /\ MsPerMinute \in Nat \ {0} /\ PlaylistTokenTTL \in Nat /\ MaxPlaylistWindowSpan \in Nat
      /\ PlaylistWindowSize * TargetDuration <= MaxPlaylistWindowSpan
      /\ PlaylistWindowSize * TargetDuration \in Int
      /\ MaxPlaylistWindowSpan + MsPerMinute <= PlaylistTokenTTL
  BY ConstantsAssumption, PlaybackAssumption
<1> DEFINE x == ts + PlaylistTokenTTL
           expiry == (x \div MsPerMinute) * MsPerMinute
           span == PlaylistWindowSize * TargetDuration
<1>2. x \in Int
  BY <1>1
<1> HIDE DEF x
<1>3. expiry > x - MsPerMinute /\ expiry \in Int
  BY <1>1, <1>2, TruncationLoss
<1> HIDE DEF expiry, span
<1>4. expiry > t
  BY <1>1, <1>2, <1>3 DEF x, span
<1>5. QED
  BY <1>4 DEF SegmentExpiry, expiry, x

\* A sleeping renderer lists no segment whose token has expired while the encoder
\* is steady, however the window slid to where it is, until the encoder restarts.
THEOREM ListedTokensStayLive == ASSUME ~ClockStepsBack PROVE LiveSpec => []ListedTokensLive
<1>1. IInv /\ PublishInv => ListedTokensLive
  <2>1. SUFFICES ASSUME IInv, PublishInv, Asleep, OneGeneration, SteadyFeed,
                        NEW i \in DOMAIN cachedPlaylist
                 PROVE  SegmentExpiry(cachedPlaylist[i].ts) > now
    BY DEF ListedTokensLive
  <2>2. now \in Nat /\ PlaylistWindowSize \in Nat /\ TargetDuration \in Nat
    BY <2>1, BufferFacts, PlaybackAssumption
  <2>3. cachedPlaylist = SnapshotAt(now)
    BY <2>1 DEF PublishInv, WakeInv, Asleep, Fresh
  <2>4. i \in WindowAt(now) /\ cachedPlaylist[i].ts = segments[i].ts
    BY <2>3 DEF SnapshotAt
  <2>5. i \in LastAt(now)
    BY <2>1, <2>2, <2>4, WindowIsRun
  <2>6. i \in EligibleAt(now) /\ segments[i].ts \in Int
    BY <2>1, <2>2, <2>5, Candidates, BufferFacts
  <2> DEFINE C == Cardinality({j \in EligibleAt(now) : j >= i})
  <2>7. C <= PlaylistWindowSize /\ C \in Nat
    <3>1. IsFiniteSet({j \in EligibleAt(now) : j >= i})
      BY <2>1, <2>2, Candidates, FS_Subset
    <3>2. QED
      BY <2>5, <3>1, FS_CardinalityType DEF LastAt
  <2>8. segments[i].ts + C * TargetDuration >= now
    BY <2>1, <2>6, SteadySpan
  <2> HIDE DEF C
  <2>9. /\ C * TargetDuration <= PlaylistWindowSize * TargetDuration
        /\ C * TargetDuration \in Int /\ PlaylistWindowSize * TargetDuration \in Int
    BY <2>2, <2>7, TimesMonotone
  <2> DEFINE span == C * TargetDuration
             full == PlaylistWindowSize * TargetDuration
  <2> HIDE DEF span, full
  <2>10. segments[i].ts + full >= now
    BY <2>2, <2>6, <2>8, <2>9 DEF span, full
  <2>11. SegmentExpiry(segments[i].ts) > now
    BY <2>2, <2>6, <2>10, TokenOutlastsWindow DEF full
  <2>12. QED
    BY <2>4, <2>11
<1>2. QED
  BY <1>1, LiveInvariantHolds, PublishInvariantHolds, PTL

===============================================================================
