------------------------------- MODULE Playback -------------------------------
(***************************************************************************)
(* What a player does with the playlists of a live stream: it fetches      *)
(* stream.m3u8 once, whose handler bakes the present distance to the       *)
(* playlist's tail into the media URI (?to=), reloads that URI for the     *)
(* rest of the session (pkg/routes/stream.go, PlaylistSnapshot's methods   *)
(* in pkg/stream/playlist.go), and fetches the segments it finds with the  *)
(* tokens in their URIs.                                                   *)
(*                                                                         *)
(* The handlers keep no state: all they answer with is a function of the   *)
(* cached snapshot and of the clock.  Seconds and milliseconds are one     *)
(* unit here; offsets have a resolution of a millisecond in the code too.  *)
(***************************************************************************)
EXTENDS LiveStream

CONSTANTS
    TargetDuration,         \* metadata.TargetDurationSecs
    MaxSegmentDurationMs,   \* the longest X-SL-DURATION that POST /segment accepts
    MaxLookaheadCeilingMs,  \* the longest X-SL-MAX-LOOKAHEAD-MS that POST /init accepts
    StickySlackMs,          \* what maxStickyOffsetSecs adds to it
    MaxPlaylistWindowSpan,
    PlaylistTokenTTL,
    MsPerMinute             \* the resolution of a token's expiry

\* What POST /init and Store.Init guarantee of a stream's parameters, and how
\* the constants of the packages relate (5 min and a minute are below 10 min; a
\* segment of 60 s fits the slack of 60 s; three target durations, of at most 5
\* min, are below an hour).
ASSUME PlaybackAssumption ==
    /\ TargetDuration \in Nat \ {0} /\ MsPerMinute \in Nat \ {0}
    /\ MaxSegmentDurationMs \in Nat /\ StickySlackMs \in Nat /\ MaxLookaheadCeilingMs \in Nat
    /\ MaxLookaheadMs <= MaxLookaheadCeilingMs
    /\ MaxSegmentDurationMs <= StickySlackMs
    /\ 3 * TargetDuration <= MaxLookaheadCeilingMs + StickySlackMs
    /\ MaxPlaylistWindowSpan \in Nat /\ PlaylistTokenTTL \in Nat
    /\ PlaylistWindowSize * TargetDuration <= MaxPlaylistWindowSpan
    /\ MaxPlaylistWindowSpan + MsPerMinute <= PlaylistTokenTTL

-------------------------------------------------------------------------------
(* The sticky start offset, for a last segment of the given duration. *)

MinHoldBack == 3 * TargetDuration

\* The offset that a start line carries for a magnitude it is given.
StartLineFromOffset(offset) == IF offset >= MinHoldBack THEN offset ELSE MinHoldBack

EndMs(duration) == cachedPlaylist[LastOf(cachedPlaylist)].ts + duration

\* What the master playlist's handler bakes into the media URI.
FreshOffset(duration) == StartLineFromOffset(EndMs(duration) - now)

MaxStickyOffset == MaxLookaheadCeilingMs + StickySlackMs

\* The magnitudes that the media playlist's handler takes from its URI.  With
\* any other it leaves the start line out.
StickyOffsetAccepted(offset) == offset >= 0 /\ offset <= MaxStickyOffset

-------------------------------------------------------------------------------
(* The tokens in the segments' URIs. *)

\* Mutant: the token expires with the longest window, without the margin that
\* truncation to minutes needs.
SegmentExpiryBare(ts) == ((ts + MaxPlaylistWindowSpan) \div MsPerMinute) * MsPerMinute

\* When the token baked into the URI of a segment stops being accepted.
SegmentExpiry(ts) == ((ts + PlaylistTokenTTL) \div MsPerMinute) * MsPerMinute

-------------------------------------------------------------------------------
\* "a small slack so legitimate edge cases at the limit aren't bounced": at any
\* moment of the renderer and the clock, the offset that the master playlist
\* would bake is one that the media playlist accepts and repeats unchanged, so
\* that a session has its start line and the same one on every reload.
StickyOffsetKept ==
    cachedPlaylist # NoPlaylist =>
        \A duration \in 1..MaxSegmentDurationMs :
            LET to == FreshOffset(duration)
            IN  StickyOffsetAccepted(to) /\ StartLineFromOffset(to) = to

\* The encoder keeps its promises: the segments it has pushed follow each other
\* within a target duration and reach the present.
SteadyFeed ==
    /\ \A i, j \in EligibleAt(now) :
          j \in RightNeighbours(i + 1, EligibleAt(now)) =>
              segments[j].ts - segments[i].ts <= TargetDuration
    /\ \E i \in EligibleAt(now) : segments[i].ts + TargetDuration >= now

\* "keeping the span short keeps that advertised lifetime within the validity of
\* the short-lived token baked into each segment URI": while the encoder is
\* steady, a sleeping renderer's playlist lists no segment whose token has
\* expired, however the window slid to where it is, until the encoder restarts.
ListedTokensLive ==
    Asleep /\ OneGeneration /\ SteadyFeed =>
        \A i \in DOMAIN cachedPlaylist : SegmentExpiry(cachedPlaylist[i].ts) > now

===============================================================================
