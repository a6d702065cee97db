-------------------------------- MODULE Stream --------------------------------
(***************************************************************************)
(* The segment buffer of one stream (pkg/stream/stream.go), the pool its   *)
(* buffers come from (pkg/pool), and the two kinds of goroutine that use   *)
(* it concurrently: POST /segment handlers, which fill a pooled buffer and *)
(* commit it, and segment fetches, which read a committed buffer outside   *)
(* the lock while holding a reference on it.                               *)
(*                                                                         *)
(* A step is one critical section of Stream.mu, or one step taken outside  *)
(* it.  The segment slice is a function from the indices present to        *)
(* records: the slice is sorted by index, so sort.Search over it finds     *)
(* what the definitions below quantify for.                                *)
(***************************************************************************)
EXTENDS Integers, FiniteSets

CONSTANTS
    Uploaders,           \* concurrent POST /segment requests
    Viewers,             \* concurrent segment fetches
    Slots,               \* the pool's buffers: SegmentCap + working space
    NoSlot,              \* "holds no buffer"
    Indices,             \* segment indices a pusher sends (uint32)
    Timestamps,          \* segment timestamps a pusher sends
    Generations,         \* encoding generations a pusher sends
    SegmentCap,          \* Stream.segmentCap
    BackwardBufferSize,  \* Stream.backwardBufferSize
    PlaylistWindowSize,  \* Stream.playlistWindowSize
    MaxLookaheadMs,      \* Stream.maxLookaheadMs
    MaxFutureTimestampMs,
    ClockStepsBack,      \* the wall clock may be set back
    MaxNow               \* bound: the clock stops here

\* What Store.Init guarantees of a stream that exists, and finiteness of the
\* set of requests in flight.
ASSUME ConstantsAssumption ==
    /\ NoSlot \notin Slots
    /\ IsFiniteSet(Slots) /\ IsFiniteSet(Viewers)
    /\ Indices \subseteq Nat /\ Timestamps \subseteq Int /\ Generations \subseteq Nat
    /\ SegmentCap \in Nat /\ Cardinality(Slots) >= SegmentCap
    /\ BackwardBufferSize \in 1..(SegmentCap - 1)
    /\ PlaylistWindowSize \in 1..BackwardBufferSize
    /\ MaxLookaheadMs \in Nat /\ MaxFutureTimestampMs \in Nat /\ MaxNow \in Nat
    /\ ClockStepsBack \in BOOLEAN

VARIABLES
    now,                \* clock.Now().UnixMilli(), in the model's unit
    segments,           \* index -> [ts, gen, data]
    currentGeneration,
    free,               \* BufferPool.free
    pendingFree,        \* buffers of dropped segments that still have readers
    readers,            \* BufferSlot.readers, per buffer
    upload,             \* where each POST /segment handler is
    held,               \* the buffer each handler owns
    reading,            \* the buffer each fetch reads
    notifyCh,           \* Stream.notifyCh holds a notification (capacity 1)
    panicked            \* a pool check failed: the process exits

bufferVars == <<segments, currentGeneration, free, pendingFree, readers>>
handlerVars == <<upload, held, reading>>
vars == <<now, bufferVars, handlerVars, notifyCh, panicked>>

-------------------------------------------------------------------------------
(* The pool.  Its free list is a set: which free buffer Get pops is chosen. *)

\* AssertCheckedOut's check of a buffer against the free list f.
CheckedOut(s, f) == s \in Slots /\ s \notin f

\* Put's checks, for the buffers of the segments I returned one after another
\* to the free list f: owned, not already free (nor returned twice), unread.
Returnable(I, f) ==
    /\ \A i \in I : CheckedOut(segments[i].data, f) /\ readers[segments[i].data] = 0
    /\ \A i, j \in I : segments[i].data = segments[j].data => i = j

DataOf(I) == {segments[i].data : i \in I}

\* Mutant: a dropped segment's buffer goes back to the pool, read or not.
UnreadAny(I) == I

Unread(I) == {i \in I : readers[segments[i].data] = 0}

-------------------------------------------------------------------------------
(* The parts of a commit. *)

\* Parked buffers the sweep returns to the pool.
Swept == {s \in pendingFree : readers[s] = 0}

Backward == {i \in DOMAIN segments : segments[i].ts < now}

\* Mutant: eviction keeps one backward segment too few.
EvictedOneMore ==
    {i \in Backward :
        /\ Cardinality({j \in Backward : j >= i}) >= BackwardBufferSize
        /\ \A j \in Backward : j <= i => readers[segments[j].data] = 0}

\* Mutant: eviction does not stop at a segment that has a reader.
EvictedRead == {i \in Backward : Cardinality({j \in Backward : j >= i}) > BackwardBufferSize}

\* The backward segments beyond the limit, oldest first, up to the first one
\* that has a reader.
Evicted ==
    {i \in Backward :
        /\ Cardinality({j \in Backward : j >= i}) > BackwardBufferSize
        /\ \A j \in Backward : j <= i => readers[segments[j].data] = 0}

Retained == DOMAIN segments \ Evicted

\* Mutant: stale segments are dropped only by the commit that advances the
\* generation.
DroppedOnAdvance(index, generation) ==
    {j \in Retained : currentGeneration < generation /\ j >= index /\ segments[j].gen < generation}

\* Segments of an older generation at or after the insertion point.
Dropped(index, generation) ==
    {j \in Retained : j >= index /\ segments[j].gen < generation}

\* The rejections that come before anything but the sweep has happened.
RejectedEarly(timestamp, generation) ==
    \/ currentGeneration > generation
    \/ timestamp < now /\ DOMAIN segments # {}
    \/ timestamp > now + MaxFutureTimestampMs

\* The new segment's neighbours in the segments K that are kept.
LeftNeighbours(index, K) ==
    {j \in K : j < index /\ \A k \in K : k < index => k <= j}

RightNeighbours(index, K) ==
    {j \in K : j >= index /\ \A k \in K : k >= index => j <= k}

\* Mutant: the right neighbour's timestamp is not checked.
RejectedLateLeftOnly(index, timestamp, K) ==
    \/ Cardinality(K) >= SegmentCap
    \/ index \in K
    \/ \E j \in LeftNeighbours(index, K) : segments[j].ts >= timestamp

\* Mutant: a duplicate index is not refused.
RejectedLateOverwrite(index, timestamp, K) ==
    \/ Cardinality(K) >= SegmentCap
    \/ \E j \in LeftNeighbours(index, K) : segments[j].ts >= timestamp

\* The rejections that come after eviction and the drop: full, duplicate
\* index, or index order and timestamp order would disagree.
RejectedLate(index, timestamp, K) ==
    \/ Cardinality(K) >= SegmentCap
    \/ index \in K
    \/ \E j \in LeftNeighbours(index, K) : segments[j].ts >= timestamp
    \/ \E j \in RightNeighbours(index, K) : segments[j].ts <= timestamp

\* Mutant: the sweep leaves the buffers it returns on the parked list.
ReclaimUnswept(evicted, dropped) ==
    /\ free' = free \cup Swept \cup DataOf(evicted) \cup DataOf(Unread(dropped))
    /\ pendingFree' = pendingFree \cup DataOf(dropped \ Unread(dropped))

\* The sweep, then the return of the evicted and of the dropped buffers; a
\* dropped buffer that is still read is parked instead.
Reclaim(evicted, dropped) ==
    /\ free' = free \cup Swept \cup DataOf(evicted) \cup DataOf(Unread(dropped))
    /\ pendingFree' = (pendingFree \ Swept) \cup DataOf(dropped \ Unread(dropped))

\* The pool's checks along the way, each against the free list it meets.
SweepSound == \A s \in Swept : CheckedOut(s, free)

ReclaimSound(evicted, dropped) ==
    LET afterSweep == free \cup Swept
        afterEvict == afterSweep \cup DataOf(evicted)
    IN  /\ SweepSound
        /\ Returnable(evicted, afterSweep)
        /\ \A i \in dropped : CheckedOut(segments[i].data, afterEvict)
        /\ Returnable(Unread(dropped), afterEvict)

-------------------------------------------------------------------------------
Init ==
    /\ now = 0
    /\ segments = [i \in {} |-> NoSlot]
    /\ currentGeneration = 0
    /\ free = Slots
    /\ pendingFree = {}
    /\ readers = [s \in Slots |-> 0]
    /\ upload = [u \in Uploaders |-> "idle"]
    /\ held = [u \in Uploaders |-> NoSlot]
    /\ reading = [v \in Viewers |-> NoSlot]
    /\ notifyCh = FALSE
    /\ panicked = FALSE

\* Mutant: AcquireSlot does not sweep the parked buffers.
AcquireUnswept(u) ==
    /\ upload[u] = "idle"
    /\ \E s \in free : free' = free \ {s} /\ held' = [held EXCEPT ![u] = s]
    /\ upload' = [upload EXCEPT ![u] = "reading"]
    /\ UNCHANGED <<now, segments, currentGeneration, pendingFree, readers, reading, notifyCh,
                   panicked>>

\* A handler's AcquireSlot.  With no buffer, even after the sweep, it answers
\* 503 and changes nothing.
AcquireSlot(u) ==
    /\ upload[u] = "idle"
    /\ \E s \in free \cup Swept :
          /\ free' = (free \cup Swept) \ {s}
          /\ held' = [held EXCEPT ![u] = s]
    /\ pendingFree' = pendingFree \ Swept
    /\ panicked' = ~SweepSound
    /\ upload' = [upload EXCEPT ![u] = "reading"]
    /\ UNCHANGED <<now, segments, currentGeneration, readers, reading, notifyCh>>

\* The body is read into the buffer outside the lock; an error, an oversized
\* body or an empty one sends the handler to ReleaseSlot.
ReadFrom(u) ==
    /\ upload[u] = "reading"
    /\ \E result \in {"filled", "rejected"} : upload' = [upload EXCEPT ![u] = result]
    /\ UNCHANGED <<now, bufferVars, held, reading, notifyCh, panicked>>

\* CommitSlot with each of its outcomes.  A late rejection keeps what eviction,
\* the drop and the generation advance have done, and notifies nobody.
CommitSlot(u, index, timestamp, generation) ==
    /\ upload[u] = "filled"
    /\ \/ /\ RejectedEarly(timestamp, generation)
          /\ Reclaim({}, {})
          /\ panicked' = ~SweepSound
          /\ upload' = [upload EXCEPT ![u] = "rejected"]
          /\ UNCHANGED <<segments, currentGeneration, held, notifyCh>>
       \/ LET dropped == Dropped(index, generation)
              K == Retained \ dropped
              new == [ts |-> timestamp, gen |-> generation, data |-> held[u]]
          IN  /\ ~RejectedEarly(timestamp, generation)
              /\ currentGeneration' = generation
              /\ Reclaim(Evicted, dropped)
              /\ panicked' = ~ /\ CheckedOut(held[u], free \cup Swept)
                               /\ ReclaimSound(Evicted, dropped)
              /\ \/ /\ RejectedLate(index, timestamp, K)
                    /\ segments' = [i \in K |-> segments[i]]
                    /\ upload' = [upload EXCEPT ![u] = "rejected"]
                    /\ UNCHANGED <<held, notifyCh>>
                 \/ /\ ~RejectedLate(index, timestamp, K)
                    /\ segments' = [i \in K \cup {index} |->
                                        IF i = index THEN new ELSE segments[i]]
                    /\ upload' = [upload EXCEPT ![u] = "idle"]
                    /\ held' = [held EXCEPT ![u] = NoSlot]
                    /\ notifyCh' = TRUE
    /\ UNCHANGED <<now, readers, reading>>

\* The error path's ReleaseSlot, a critical section of its own.
ReleaseSlot(u) ==
    /\ upload[u] = "rejected"
    /\ free' = free \cup {held[u]}
    /\ panicked' = ~(CheckedOut(held[u], free) /\ readers[held[u]] = 0)
    /\ upload' = [upload EXCEPT ![u] = "idle"]
    /\ held' = [held EXCEPT ![u] = NoSlot]
    /\ UNCHANGED <<now, segments, currentGeneration, pendingFree, readers, reading, notifyCh>>

\* Mutant: a fetch takes no reference.
FetchUncounted(v, index) ==
    /\ reading[v] = NoSlot
    /\ index \in DOMAIN segments
    /\ segments[index].ts <= now + MaxLookaheadMs
    /\ reading' = [reading EXCEPT ![v] = segments[index].data]
    /\ UNCHANGED <<now, bufferVars, upload, held, notifyCh, panicked>>

\* A fetch finds a published segment and takes a reference under the read
\* lock.  A missing or not yet published one is a 404 and changes nothing.
Fetch(v, index) ==
    /\ reading[v] = NoSlot
    /\ index \in DOMAIN segments
    /\ segments[index].ts <= now + MaxLookaheadMs
    /\ panicked' = ~CheckedOut(segments[index].data, free)
    /\ readers' = [readers EXCEPT ![segments[index].data] = @ + 1]
    /\ reading' = [reading EXCEPT ![v] = segments[index].data]
    /\ UNCHANGED <<now, segments, currentGeneration, free, pendingFree, upload, held, notifyCh>>

\* Mutant: a fetch never drops its reference.
FinishFetchLeaky(v) ==
    /\ reading[v] # NoSlot
    /\ reading' = [reading EXCEPT ![v] = NoSlot]
    /\ UNCHANGED <<now, bufferVars, upload, held, notifyCh, panicked>>

\* The fetch has written the buffer out and drops its reference, without any
\* lock.
FinishFetch(v) ==
    /\ reading[v] # NoSlot
    /\ readers' = [readers EXCEPT ![reading[v]] = @ - 1]
    /\ panicked' = (readers[reading[v]] = 0)
    /\ reading' = [reading EXCEPT ![v] = NoSlot]
    /\ UNCHANGED <<now, segments, currentGeneration, free, pendingFree, upload, held, notifyCh>>

\* Time passes, or the wall clock, which the code reads as UnixMilli, is set
\* back to any earlier time.
Tick ==
    /\ \/ now < MaxNow /\ now' = now + 1
       \/ ClockStepsBack /\ now' \in 0..(now - 1)
    /\ UNCHANGED <<bufferVars, handlerVars, notifyCh, panicked>>

Upload(u) ==
    \/ AcquireSlot(u)
    \/ ReadFrom(u)
    \/ \E i \in Indices, t \in Timestamps, g \in Generations : CommitSlot(u, i, t, g)
    \/ ReleaseSlot(u)

\* GET segment_N.m4s.
ServeSegment(v) ==
    \/ \E i \in Indices : Fetch(v, i)
    \/ FinishFetch(v)

Next ==
    /\ ~panicked
    /\ \/ \E u \in Uploaders : Upload(u)
       \/ \E v \in Viewers : ServeSegment(v)
       \/ Tick

Spec == Init /\ [][Next]_vars

\* The fairness of a live server: a handler that has a buffer runs to its end
\* (the HTTP server's read and write timeouts end a stuck one), a fetch ends,
\* and a pusher answered 503 with Retry-After retries.
FairSpec ==
    /\ Spec
    /\ WF_vars(\E u \in Uploaders : AcquireSlot(u))
    /\ \A u \in Uploaders :
          WF_vars(~panicked /\ (\/ ReadFrom(u)
                                \/ \E i \in Indices, t \in Timestamps, g \in Generations :
                                      CommitSlot(u, i, t, g)
                                \/ ReleaseSlot(u)))
    /\ \A v \in Viewers : WF_vars(FinishFetch(v))
    /\ WF_vars(Tick)

-------------------------------------------------------------------------------
Segment == [ts : Timestamps, gen : Generations, data : Slots]

\* Every variable keeps its type; in particular no reader count goes negative.
TypeOK ==
    /\ now \in 0..MaxNow
    /\ DOMAIN segments \subseteq Indices
    /\ segments \in [DOMAIN segments -> Segment]
    /\ currentGeneration \in Nat
    /\ free \subseteq Slots /\ pendingFree \subseteq Slots
    /\ readers \in [Slots -> Nat]
    /\ upload \in [Uploaders -> {"idle", "reading", "filled", "rejected"}]
    /\ held \in [Uploaders -> Slots \cup {NoSlot}]
    /\ reading \in [Viewers -> Slots \cup {NoSlot}]
    /\ notifyCh \in BOOLEAN /\ panicked \in BOOLEAN

Holding == {u \in Uploaders : held[u] # NoSlot}

SlotsOf(P, f) == {f[p] : p \in P}

\* A buffer has exactly one owner at a time - the free list, the parked list,
\* one segment or one upload - and none is ever leaked.
SlotPartition ==
    /\ free \cap pendingFree = {}
    /\ DataOf(DOMAIN segments) \cap (free \cup pendingFree) = {}
    /\ SlotsOf(Holding, held) \cap (free \cup pendingFree \cup DataOf(DOMAIN segments)) = {}
    /\ \A i, j \in DOMAIN segments : segments[i].data = segments[j].data => i = j
    /\ \A u, w \in Holding : held[u] = held[w] => u = w
    /\ Slots = free \cup pendingFree \cup DataOf(DOMAIN segments) \cup SlotsOf(Holding, held)

\* A buffer being served to a viewer is never back in the pool nor in the
\* hands of an upload that would overwrite it, whatever evictions, generation
\* advances and commits happen while the viewer reads.
NoReadAfterRecycle ==
    \A v \in Viewers : reading[v] # NoSlot =>
        /\ reading[v] \notin free
        /\ \A u \in Uploaders : held[u] # reading[v]

\* None of the pool's checks (double Put, use after return, Put with readers,
\* ReaderDec below zero) ever fails, so UnrecoverableGuard never exits the
\* process.
NoPanic == ~panicked

\* Index order is timestamp order, the invariant every binary search over the
\* list relies on, for out of order uploads and for failed commits too.
Ordered ==
    \A i, j \in DOMAIN segments : i < j => segments[i].ts < segments[j].ts

\* A later index never carries an older encoding generation than an earlier
\* one, and nothing is newer than the stream's current generation: the content
\* of a superseded encoding session never resurfaces after the new one's.
GenerationMonotone ==
    /\ \A i, j \in DOMAIN segments : i < j => segments[i].gen <= segments[j].gen
    /\ \A i \in DOMAIN segments : segments[i].gen <= currentGeneration

\* A handler owns a buffer exactly while its upload is in progress.
HandlersOwn == \A u \in Uploaders : held[u] = NoSlot <=> upload[u] = "idle"

\* A buffer's reader count is the number of fetches that read it, and those
\* read only buffers of segments and parked ones.
ReadersMatch ==
    /\ \A s \in Slots : readers[s] = Cardinality({v \in Viewers : reading[v] = s})
    /\ \A v \in Viewers : reading[v] # NoSlot =>
           reading[v] \in DataOf(DOMAIN segments) \cup pendingFree

\* The inductive invariant: what the buffer, its pool and its handlers keep
\* true together, in every order of their critical sections.
IInv ==
    /\ TypeOK
    /\ IsFiniteSet(DOMAIN segments)
    /\ SlotPartition
    /\ HandlersOwn
    /\ ReadersMatch
    /\ Ordered
    /\ GenerationMonotone
    /\ NoPanic

\* The segments the renderer may put in a playlist now: the last
\* PlaylistWindowSize of those within the look-ahead.
Eligible == {i \in DOMAIN segments : segments[i].ts <= now + MaxLookaheadMs}

PublishableWindow ==
    {i \in Eligible : Cardinality({j \in Eligible : j >= i}) <= PlaylistWindowSize}

\* What a playlist may list does not vanish under the viewers that read it: a
\* segment of the window leaves the buffer only when a newer generation
\* replaces it.
WindowRetained ==
    [][\A i \in PublishableWindow :
           i \notin DOMAIN segments' => segments[i].gen < currentGeneration']_vars

\* Pushers that keep retrying are never locked out for good: when every
\* handler has been answered, one of them gets a buffer again.
UploadsResume ==
    (\A u \in Uploaders : upload[u] = "idle") ~> (\E u \in Uploaders : upload[u] # "idle")

===============================================================================
