----------------------------- MODULE ViewerAccess -----------------------------
(***************************************************************************)
(* Who may fetch what: viewer tokens (pkg/viewer), the endpoint that mints *)
(* them for operators (routes/viewer_token.go), the renderer's minter that *)
(* bakes short-lived ones into playlist URIs                               *)
(* (routes/playlist_token_minter.go), and the middleware that checks them  *)
(* (middleware/viewertoken.go) in front of the stream routes.              *)
(*                                                                         *)
(* A token is its signing key and its expiry minute: an HMAC is forged by  *)
(* nobody, so a token verifies under exactly the key it was minted with.   *)
(* Viewers pool what they get: "known" is every token that is out.         *)
(***************************************************************************)
EXTENDS Integers, FiniteSets

CONSTANTS
    Streams,             \* stream IDs
    Secrets,             \* values the environment gives a stream's key
    NoKey,               \* no key: the stream is open to all
    MaxInt64,            \* the largest int64
    MsPerMinute,         \* viewer.msPerMinute: the resolution of an expiry
    MaxUint32,           \* the largest minute a token can encode
    PlaylistTokenTTL,
    InitTokenBucketMs,
    MinViewerTokenTTLMs,
    MaxViewerTokenDefaultTTLMs,
    MaxLookaheadMs,      \* Stream.maxLookaheadMs
    MaxWindowSpanMs,     \* how far back a live playlist reaches
    SegmentTimes,        \* segment timestamps, in ms
    ExpiryRequests,      \* values of expires_at_ms that operators send
    MaxGrants,           \* bound: grants ever made
    MaxFetches,          \* bound: playlists ever fetched
    MaxNow               \* bound: the clock stops here

ASSUME AccessAssumption ==
    /\ NoKey \notin Secrets
    /\ MaxInt64 \in Nat /\ ExpiryRequests \subseteq (-MaxInt64 - 1)..MaxInt64
    /\ MsPerMinute \in Nat \ {0} /\ InitTokenBucketMs \in Nat \ {0}
    /\ MaxUint32 \in Nat /\ MaxLookaheadMs \in Nat /\ MaxNow \in 0..MaxInt64
    /\ PlaylistTokenTTL \in Nat /\ MinViewerTokenTTLMs \in Nat
    /\ MaxViewerTokenDefaultTTLMs \in Nat
    /\ MaxWindowSpanMs \in 0..(PlaylistTokenTTL - MsPerMinute)
    /\ SegmentTimes \subseteq Int
    /\ MaxGrants \in Nat /\ MaxFetches \in Nat

VARIABLES
    now,
    secret,    \* each stream's key since the process started, or NoKey
    grants,    \* what the mint endpoint has answered, and when
    playlist,  \* each stream's cached playlist: the tokens baked into its URIs
    known,     \* tokens in the hands of viewers
    fetches    \* playlists fetched so far

vars == <<now, secret, grants, playlist, known, fetches>>

NoToken == [key |-> <<>>, exp |-> 0]
NoPlaylist == [at |-> -1, init |-> NoToken, segments |-> {}]

-------------------------------------------------------------------------------
(* pkg/viewer *)

\* Mutant: the class is not mixed into the key.
DeriveKeyClassless(s, class) == <<secret[s], s>>

\* The signing key of a stream and token class.
DeriveKey(s, class) == <<secret[s], s, class>>

\* Go's division truncates towards zero.
Quotient(x, y) == IF x >= 0 THEN x \div y ELSE -((-x) \div y)

\* What an int64 holds of an integer result.
Wrapped(x) == ((x + MaxInt64 + 1) % (2 * (MaxInt64 + 1))) - (MaxInt64 + 1)

\* Mutant: an expiry that does not fit into 32 bits of minutes is not refused.
MintableAny(expMs) == expMs >= 0

\* Mutant: a negative expiry is not refused.
MintableNegative(expMs) == Quotient(expMs, MsPerMinute) <= MaxUint32

\* What Mint does not refuse.
Mintable(expMs) == expMs >= 0 /\ expMs \div MsPerMinute <= MaxUint32

\* Mint, for an expiry it does not refuse.
Mint(key, expMs) == [key |-> key, exp |-> expMs \div MsPerMinute]

\* Mutant: an expiry is not checked.
VerifyForever(key, token) == token # NoToken /\ token.key = key

Verify(key, token) ==
    token # NoToken /\ token.key = key /\ token.exp * MsPerMinute > now

-------------------------------------------------------------------------------
(* routes/playlist_token_minter.go: no token, and a plain URI, when Mint refuses *)
(* and on a stream without a key, which has no minter.                           *)

Baked(s, expMs) ==
    IF secret[s] # NoKey /\ Mintable(expMs)
    THEN Mint(DeriveKey(s, "segment"), expMs)
    ELSE NoToken

\* Mutant: a segment's token is anchored to the render.
SegmentTokenAtRender(s, ts) == Baked(s, now + PlaylistTokenTTL)

\* Mutant: the grace past the segment's timestamp is half as long.
SegmentTokenShort(s, ts) == Baked(s, ts + PlaylistTokenTTL \div 2)

SegmentToken(s, ts) == Baked(s, ts + PlaylistTokenTTL)

InitToken(s) ==
    LET bucketStart == Quotient(now, InitTokenBucketMs) * InitTokenBucketMs
    IN  Baked(s, bucketStart + InitTokenBucketMs + PlaylistTokenTTL)

-------------------------------------------------------------------------------
(* middleware/viewertoken.go and the route groups of routes/stream.go *)

\* ViewerTokenAuth.
Authorized(s, allowedTypes, token) ==
    secret[s] = NoKey \/ \E class \in allowedTypes : Verify(DeriveKey(s, class), token)

\* media.m3u8 and stream.m3u8; init.mp4 and segment_N.m4s.
PlaylistRoutes(s, token) == Authorized(s, {"playlist"}, token)
MediaRoutes(s, token) == Authorized(s, {"segment", "playlist"}, token)

-------------------------------------------------------------------------------
Init ==
    /\ now = 0
    /\ secret \in [Streams -> Secrets \cup {NoKey}]
    /\ grants = {}
    /\ playlist = [s \in Streams |-> NoPlaylist]
    /\ known = {NoToken}
    /\ fetches = 0

Grant(s, expMs, long) ==
    [stream |-> s, token |-> Mint(DeriveKey(s, "playlist"), expMs), secret |-> secret[s],
     expiresAt |-> expMs, at |-> now, long |-> long]

\* POST /viewer_token.  A refused request (409 without a key, 400) changes
\* nothing.
MintGrant(s, expiresAtMs, long) ==
    LET aligned == Quotient(expiresAtMs, MsPerMinute) * MsPerMinute
    IN  /\ Cardinality(grants) < MaxGrants
        /\ secret[s] # NoKey
        /\ Wrapped(aligned - now) >= MinViewerTokenTTLMs
        /\ long \/ Wrapped(aligned - now) <= MaxViewerTokenDefaultTTLMs
        /\ Mintable(aligned)
        /\ grants' = grants \cup {Grant(s, aligned, long)}
        /\ known' = known \cup {Grant(s, aligned, long).token}
        /\ UNCHANGED <<now, secret, playlist, fetches>>

\* The renderer caches a playlist of segments within the look-ahead.
Render(s, times) ==
    /\ \A ts \in times : ts <= now + MaxLookaheadMs
    /\ playlist' = [playlist EXCEPT ![s] =
          [at |-> now,
           init |-> InitToken(s),
           segments |-> {[ts |-> ts, token |-> SegmentToken(s, ts)] : ts \in times}]]
    /\ UNCHANGED <<now, secret, grants, known, fetches>>

\* A viewer fetches media.m3u8 and learns the tokens in it.
FetchPlaylist(s) ==
    /\ fetches < MaxFetches
    /\ playlist[s] # NoPlaylist
    /\ \E token \in known : PlaylistRoutes(s, token)
    /\ known' = known \cup {playlist[s].init} \cup {x.token : x \in playlist[s].segments}
    /\ fetches' = fetches + 1
    /\ UNCHANGED <<now, secret, grants, playlist>>

\* The process is restarted, with whatever keys its environment has now.  All
\* it held in memory is gone; tokens are stateless and stay out.
Restart ==
    /\ secret' \in [Streams -> Secrets \cup {NoKey}]
    /\ playlist' = [s \in Streams |-> NoPlaylist]
    /\ UNCHANGED <<now, grants, known, fetches>>

Tick ==
    /\ now < MaxNow
    /\ now' = now + 1
    /\ UNCHANGED <<secret, grants, playlist, known, fetches>>

Next ==
    \/ \E s \in Streams, e \in ExpiryRequests, long \in BOOLEAN : MintGrant(s, e, long)
    \/ \E s \in Streams, times \in SUBSET SegmentTimes : times # {} /\ Render(s, times)
    \/ \E s \in Streams : FetchPlaylist(s)
    \/ Restart
    \/ Tick

Spec == Init /\ [][Next]_vars

-------------------------------------------------------------------------------
Classes == {"segment", "playlist"}

Tokens ==
    {NoToken} \cup [key : Secrets \X Streams \X Classes, exp : 0..MaxUint32]

\* Every variable keeps its type: in particular no token encodes a minute that
\* does not fit.
TypeOK ==
    /\ now \in 0..MaxNow
    /\ secret \in [Streams -> Secrets \cup {NoKey}]
    /\ \A g \in grants :
          /\ g.stream \in Streams /\ g.secret \in Secrets /\ g.token \in Tokens
          /\ g.at \in 0..now /\ g.expiresAt \in Nat /\ g.long \in BOOLEAN
    /\ \A s \in Streams :
          /\ playlist[s].at \in -1..now /\ playlist[s].init \in Tokens
          /\ \A x \in playlist[s].segments : x.ts \in SegmentTimes /\ x.token \in Tokens
    /\ known \subseteq Tokens
    /\ fetches \in 0..MaxFetches

\* A grant of stream s that was minted under its present secret and has not
\* reached the expiry the operator was told.
Current(g, s) == g.stream = s /\ g.secret = secret[s] /\ now < g.expiresAt

\* The playlists of a stream with a key open to exactly the tokens that the
\* operator granted for it, until the expiry it was told: not to another
\* stream's, not to those that playlists carry, not after a rotation of the key;
\* but still after a restart that keeps it, or takes it away and brings it back.
PlaylistAccess ==
    \A s \in Streams : \A token \in known :
        PlaylistRoutes(s, token) <=>
            secret[s] = NoKey \/ \E g \in grants : g.token = token /\ Current(g, s)

\* Nothing that viewers can collect extends a grant for long, while the stream
\* has a key: once every grant
\* of a stream has been over for the look-ahead or the init bucket plus the
\* baked tokens' grace, no token that is out fetches anything of the stream.
LongestReach ==
    PlaylistTokenTTL +
        (IF MaxLookaheadMs > InitTokenBucketMs THEN MaxLookaheadMs ELSE InitTokenBucketMs)

ReplayBounded ==
    \A s \in Streams : secret[s] # NoKey /\ (\E token \in known : MediaRoutes(s, token)) =>
        \E g \in grants : /\ g.stream = s /\ g.secret = secret[s]
                          /\ now < g.expiresAt + LongestReach

\* The expiries that playlists carry fit into a token's minutes for as long as
\* the clock runs: beyond (after the year 10000) the minter bakes no tokens.
ExpiriesFit == (MaxNow + LongestReach) \div MsPerMinute <= MaxUint32

\* The URIs of a playlist that is served now can be fetched now: those of every
\* segment no older than a live window, and the init URI within the grace past
\* the render.
FreshPlaylistFetchable ==
    \A s \in Streams :
        /\ \A x \in playlist[s].segments :
              x.ts >= now - MaxWindowSpanMs => MediaRoutes(s, x.token)
        /\ playlist[s] # NoPlaylist /\ now <= playlist[s].at + PlaylistTokenTTL - MsPerMinute
              => MediaRoutes(s, playlist[s].init)

\* What an operator is granted is worth what the endpoint's limits say, by the
\* expiry that the token really encodes, whatever the request asks for: also
\* where the difference to the clock wraps around.
GrantLifetime ==
    \A g \in grants :
        /\ g.token.exp * MsPerMinute = g.expiresAt
        /\ g.expiresAt - g.at >= MinViewerTokenTTLMs
        /\ g.long \/ g.expiresAt - g.at <= MaxViewerTokenDefaultTTLMs

\* "the URI is byte-identical across playlist re-renders": a segment keeps its
\* token as long as the key stays, and the init URI keeps its own within an
\* hour bucket.
URIsStable ==
    [][\A s \in Streams :
          secret'[s] = secret[s] /\ playlist[s] # NoPlaylist /\ playlist'[s] # NoPlaylist =>
             /\ \A x \in playlist[s].segments, y \in playlist'[s].segments :
                   x.ts = y.ts => x.token = y.token
             /\ playlist[s].at \div InitTokenBucketMs = playlist'[s].at \div InitTokenBucketMs
                   => playlist[s].init = playlist'[s].init]_playlist

===============================================================================
