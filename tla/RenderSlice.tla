------------------------------ MODULE RenderSlice ------------------------------
(***************************************************************************)
(* renderPlaylistCache (pkg/stream/playlist.go) on the slice that          *)
(* Stream.segments is, next to LiveStream, which says the same with sets   *)
(* of indices.                                                             *)
(***************************************************************************)
EXTENDS LiveStream, SegmentSlice

\* How many segments from the first one on are within the look-ahead at t.
EligibleCount(s, t) == SortSearch([p \in DOMAIN s |-> s[p].ts > t + MaxLookaheadMs])

\* Mutant: the segment at the very limit of the look-ahead is left out.
WindowSliceShort(s, t) ==
    LET eligible == SortSearch([p \in DOMAIN s |-> s[p].ts >= t + MaxLookaheadMs])
        start == IF eligible > PlaylistWindowSize THEN eligible - PlaylistWindowSize ELSE 0
        window == SubSeq(s, start + 1, eligible)
        gate[i \in 1..(Len(window) + 1)] ==
            IF i >= Len(window) \/ window[i + 1].index # window[i].index + 1 THEN i
            ELSE gate[i + 1]
    IN  IF window = <<>> THEN <<>> ELSE SubSeq(window, 1, gate[1])

\* The window: the last eligible segments, up to the first gap.
WindowSlice(s, t) ==
    LET eligible == EligibleCount(s, t)
        start == IF eligible > PlaylistWindowSize THEN eligible - PlaylistWindowSize ELSE 0
        window == SubSeq(s, start + 1, eligible)
        gate[i \in 1..(Len(window) + 1)] ==
            IF i >= Len(window) \/ window[i + 1].index # window[i].index + 1 THEN i
            ELSE gate[i + 1]
    IN  IF window = <<>> THEN <<>> ELSE SubSeq(window, 1, gate[1])

NextEligibleInSlice(s, t) ==
    LET eligible == EligibleCount(s, t)
    IN  IF eligible < Len(s) THEN s[eligible + 1].ts ELSE 0

\* Whenever the renderer is about to read the list, after whatever commits and
\* drops and with a clock reading from before them, its searches find exactly
\* the window and the next segment to wait for that LiveStream says.
RenderMatches ==
    renderer = "render" =>
        LET s == Listed(segments)
            window == WindowSlice(s, nowMs)
        IN  /\ NextEligibleInSlice(s, nowMs) = NextEligibleAt(nowMs)
            /\ {window[p].index : p \in DOMAIN window} = WindowAt(nowMs)
            /\ \A p, q \in DOMAIN window : p < q => window[p].index < window[q].index

===============================================================================
