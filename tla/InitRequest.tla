------------------------------ MODULE InitRequest -----------------------------
(***************************************************************************)
(* Which streams POST /init creates: the checks of its handler             *)
(* (pkg/routes/api.go) and of Store.Init (pkg/stream/stream.go), over      *)
(* Go's int, whose additions and products wrap around.  int and int64 have *)
(* the same width; headers that are not integers, and the ones that no     *)
(* check combines with another, are left out.                              *)
(*                                                                         *)
(* A request is a record of header values, an environment the two          *)
(* settings that the handler reads.  Documented says, in integers that do  *)
(* not wrap, what the checks are documented to mean.                       *)
(***************************************************************************)
EXTENDS Integers

CONSTANTS
    MaxInt,                 \* the largest int
    Absent,                 \* an optional header that is not sent
    MaxPlaylistWindowSpan,  \* in seconds
    DefaultMediaWindowSize,
    MaxLookaheadCeilingMs,
    MsPerSecond,
    InitRequests,           \* the requests considered
    Environments            \* SL_STREAM_MAX_BUFFER_BYTES and SL_BUFFER_WORKING_SPACE

DefaultMaxLookaheadMultiplier == 3

ASSUME InitAssumption ==
    /\ MaxInt \in Nat /\ Absent \notin Int
    /\ DefaultMediaWindowSize \in Nat \ {0} /\ MsPerSecond \in Nat \ {0}
    /\ MaxPlaylistWindowSpan \in Nat \ {0}
    /\ DefaultMaxLookaheadMultiplier * MaxPlaylistWindowSpan * MsPerSecond <= MaxLookaheadCeilingMs
    /\ MaxLookaheadCeilingMs \in 0..MaxInt
    /\ \A r \in InitRequests :
          /\ r.segmentCap \in -MaxInt..MaxInt /\ r.segmentBytes \in -MaxInt..MaxInt
          /\ r.target \in -MaxInt..MaxInt /\ r.backward \in -MaxInt..MaxInt
          /\ r.window \in {Absent} \cup -MaxInt..MaxInt
          /\ r.lookahead \in {Absent} \cup -MaxInt..MaxInt
    /\ \A e \in Environments :
          e.maxBufferBytes \in 1..MaxInt /\ e.workingSpace \in 0..MaxInt

\* What an int holds of an integer result: two's complement.
Wrapped(x) == ((x + MaxInt + 1) % (2 * (MaxInt + 1))) - (MaxInt + 1)

-------------------------------------------------------------------------------
(* The handler. *)

TotalSlots(r, e) == Wrapped(r.segmentCap + e.workingSpace)

\* The pool's size, checked before any buffer is allocated.
BufferAllowed(r, e) ==
    /\ TotalSlots(r, e) <= MaxInt \div r.segmentBytes
    /\ Wrapped(TotalSlots(r, e) * r.segmentBytes) <= e.maxBufferBytes

PlaylistWindow(r) == IF r.window = Absent THEN DefaultMediaWindowSize ELSE r.window

\* The handler and Store.Init check the span alike.
WindowSpanAllowed(window, target) == window <= MaxPlaylistWindowSpan \div target

TargetMs(r) == Wrapped(r.target * MsPerSecond)

LookaheadAllowed(r) ==
    r.lookahead # Absent =>
        /\ r.lookahead >= 0
        /\ r.lookahead = 0 \/ r.lookahead >= TargetMs(r)
        /\ r.lookahead <= MaxLookaheadCeilingMs

MaxLookahead(r) ==
    IF r.lookahead = Absent THEN Wrapped(DefaultMaxLookaheadMultiplier * TargetMs(r))
    ELSE r.lookahead

HeadersAccepted(r, e) ==
    /\ r.target > 0 /\ r.segmentBytes > 0 /\ r.segmentCap > 0
    /\ BufferAllowed(r, e)
    /\ r.backward > 0
    /\ PlaylistWindow(r) > 0 /\ PlaylistWindow(r) <= r.backward
    /\ WindowSpanAllowed(PlaylistWindow(r), r.target)
    /\ LookaheadAllowed(r)

-------------------------------------------------------------------------------
(* Store.Init *)

\* Mutant: the working space is not checked again.
ParametersValidUnsized(r, e) ==
    /\ r.target > 0
    /\ r.backward >= 1 /\ r.backward < r.segmentCap
    /\ PlaylistWindow(r) > 0 /\ PlaylistWindow(r) <= r.backward
    /\ WindowSpanAllowed(PlaylistWindow(r), r.target)
    /\ MaxLookahead(r) >= 0

ParametersValid(r, e) ==
    /\ r.target > 0
    /\ r.backward >= 1 /\ r.backward < r.segmentCap
    /\ PlaylistWindow(r) > 0 /\ PlaylistWindow(r) <= r.backward
    /\ WindowSpanAllowed(PlaylistWindow(r), r.target)
    /\ e.workingSpace >= 0 /\ r.segmentCap <= MaxInt - e.workingSpace
    /\ MaxLookahead(r) >= 0

\* The request is answered 201, or 409 if the stream exists; any other, 400.
InitAccepted(r, e) == HeadersAccepted(r, e) /\ ParametersValid(r, e)

-------------------------------------------------------------------------------
\* The pool that NewBufferPool is asked for: it panics unless the count, the
\* size and their product are positive ints.
PoolFits(r, e) ==
    /\ r.segmentCap + e.workingSpace > 0 /\ r.segmentBytes > 0
    /\ (r.segmentCap + e.workingSpace) * r.segmentBytes <= e.maxBufferBytes

\* What the documented limits of POST /init mean, without wrapping.
Documented(r, e) ==
    /\ PoolFits(r, e)
    /\ r.target > 0
    /\ r.backward \in 1..(r.segmentCap - 1)
    /\ PlaylistWindow(r) \in 1..r.backward
    /\ PlaylistWindow(r) * r.target <= MaxPlaylistWindowSpan
    /\ r.lookahead \in {Absent, 0} \cup (r.target * MsPerSecond)..MaxLookaheadCeilingMs

\* The look-ahead of a stream that is created, given or by default, is one that
\* the ceiling on sticky offsets allows for.
LookaheadSound(r) == MaxLookahead(r) \in 0..MaxLookaheadCeilingMs

===============================================================================
