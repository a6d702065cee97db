----------------------------- MODULE SegmentSlice -----------------------------
(***************************************************************************)
(* The slice that Stream.segments is, and how commits and fetches work on  *)
(* it (pkg/stream/stream.go): binary searches, one pass that compacts in   *)
(* place, insertion at a position found before the compaction.  Stream     *)
(* says the same with sets of indices; that rests on the list being sorted *)
(* by index and by timestamp at once, which every commit has to leave so.  *)
(*                                                                         *)
(* A slice is a sequence of [index, ts, gen, data]; positions count from 1.*)
(***************************************************************************)
EXTENDS Stream, Sequences

\* The list of the segments in a function like "segments".
Listed(segs) ==
    LET at(p) == CHOOSE i \in DOMAIN segs : Cardinality({j \in DOMAIN segs : j <= i}) = p
    IN  [p \in 1..Cardinality(DOMAIN segs) |->
            [index |-> at(p), ts |-> segs[at(p)].ts, gen |-> segs[at(p)].gen,
             data |-> segs[at(p)].data]]

\* sort.Search: how many positions come before the first one that test holds
\* of, if it holds of every position after one that it holds of.
SortSearch(test) ==
    LET search[r \in (0..Len(test)) \X (0..Len(test))] ==
            LET i == r[1]
                j == r[2]
                h == (i + j) \div 2
            IN  IF i >= j THEN i
                ELSE IF test[h + 1] THEN search[<<i, h>>] ELSE search[<<h + 1, j>>]
    IN  search[<<0, Len(test)>>]

InsertionPoint(s, index) == SortSearch([p \in DOMAIN s |-> s[p].index >= index])

\* evictOldLocked
EvictedSlice(s) ==
    LET excess == SortSearch([p \in DOMAIN s |-> s[p].ts >= now]) - BackwardBufferSize
        evictCount[i \in 0..excess] ==
            IF i = excess \/ readers[s[i + 1].data] > 0 THEN i ELSE evictCount[i + 1]
    IN  IF excess <= 0 THEN s ELSE SubSeq(s, evictCount[0] + 1, Len(s))

\* dropStaleGenerationLocked: pass[r] is the backing array and the write cursor
\* when the read cursor is at r.
DroppedSlice(s, from, generation) ==
    LET pass[r \in from..Len(s)] ==
            IF r = from THEN [s |-> s, w |-> from]
            ELSE LET before == pass[r - 1]
                 IN  IF before.s[r].gen < generation THEN before
                     ELSE [s |-> [p \in DOMAIN s |-> before.s[IF p = before.w + 1 THEN r ELSE p]],
                           w |-> before.w + 1]
    IN  SubSeq(pass[Len(s)].s, 1, pass[Len(s)].w)

RefusedAt(s, at, index, timestamp) ==
    \/ Len(s) >= SegmentCap
    \/ at < Len(s) /\ s[at + 1].index = index
    \/ at > 0 /\ s[at].ts >= timestamp
    \/ at < Len(s) /\ s[at + 1].ts <= timestamp

\* Mutant: the insertion point is found before eviction shifts the list.
CommittedSliceUnshifted(s, segment) ==
    LET at == InsertionPoint(s, segment.index)
        rest == DroppedSlice(EvictedSlice(s), at, segment.gen)
    IN  IF RefusedAt(rest, at, segment.index, segment.ts) THEN rest
        ELSE SubSeq(rest, 1, at) \o <<segment>> \o SubSeq(rest, at + 1, Len(rest))

\* CommitSlot, past its early rejections.
CommittedSlice(s, segment) ==
    LET kept == EvictedSlice(s)
        at == InsertionPoint(kept, segment.index)
        rest == DroppedSlice(kept, at, segment.gen)
    IN  IF RefusedAt(rest, at, segment.index, segment.ts) THEN rest
        ELSE SubSeq(rest, 1, at) \o <<segment>> \o SubSeq(rest, at + 1, Len(rest))

\* runWithSegmentSlot's lookup.
FoundInSlice(s, index) ==
    LET at == InsertionPoint(s, index)
    IN  at < Len(s) /\ s[at + 1].index = index

-------------------------------------------------------------------------------
\* What a commit leaves of the segments, in Stream's terms.
Committed(segment) ==
    LET K == Retained \ Dropped(segment.index, segment.gen)
    IN  IF RejectedLate(segment.index, segment.ts, K) THEN [i \in K |-> segments[i]]
        ELSE [i \in K \cup {segment.index} |->
                IF i = segment.index
                THEN [ts |-> segment.ts, gen |-> segment.gen, data |-> segment.data]
                ELSE segments[i]]

\* In every state that uploads, fetches, generations and a clock that steps back
\* can bring about, the positions that the code finds are the right ones: any
\* commit that could come next leaves exactly the segments that Stream says, in
\* order, and a lookup finds exactly the segments that are there.
SliceMatches ==
    LET s == Listed(segments)
    IN  /\ \A i \in Indices : FoundInSlice(s, i) <=> i \in DOMAIN segments
        /\ \A u \in {x \in Uploaders : upload[x] = "filled"}, i \in Indices,
              t \in Timestamps, g \in Generations :
              ~RejectedEarly(t, g) =>
                  LET segment == [index |-> i, ts |-> t, gen |-> g, data |-> held[u]]
                  IN  CommittedSlice(s, segment) = Listed(Committed(segment))

===============================================================================
