--------------------------- MODULE ViewerAccessProofs --------------------------
(***************************************************************************)
(* Proofs about ViewerAccess: who may fetch playlists and media, for any   *)
(* number of streams, keys, grants, renders and restarts, and for any      *)
(* clock, widths and lifetimes that the assumptions allow.                 *)
(***************************************************************************)
EXTENDS ViewerAccess, TLAPS

-------------------------------------------------------------------------------
(* Arithmetic of expiries. *)

\* What alignment down to a multiple of d loses.
LEMMA AlignedBelow ==
    ASSUME NEW n \in Nat, NEW d \in Nat \ {0}
    PROVE  n \div d \in Nat /\ (n \div d) * d <= n /\ n < (n \div d) * d + d
OBVIOUS

\* The quotient of a multiple.
LEMMA MultipleQuotient ==
    ASSUME NEW q \in Int, NEW d \in Nat \ {0}
    PROVE  (q * d) \div d = q
OBVIOUS

\* A larger number has no smaller quotient.
LEMMA QuotientGrows ==
    ASSUME NEW m \in Nat, NEW n \in Nat, NEW d \in Nat \ {0}, m <= n
    PROVE  m \div d <= n \div d
<1> DEFINE p == m \div d
           q == n \div d
<1>1. p \in Nat /\ q \in Nat /\ p * d <= m /\ n < q * d + d
  BY AlignedBelow
<1> HIDE DEF p, q
<1>2. p * d < (q + 1) * d
  BY <1>1
<1>3. \A a, b \in Nat : b <= a => b * d <= a * d
  OBVIOUS
<1>4. p <= q
  BY <1>1, <1>2, <1>3
<1>5. QED
  BY <1>4 DEF p, q

\* An int64 holds what is in its range.
LEMMA WrappedInRange ==
    ASSUME NEW x \in -(MaxInt64 + 1)..MaxInt64
    PROVE  Wrapped(x) = x
<1>1. MaxInt64 \in Nat
  BY AccessAssumption
<1> DEFINE m == 2 * (MaxInt64 + 1)
<1>2. x + MaxInt64 + 1 \in 0..(m - 1) /\ m \in Nat \ {0}
  BY <1>1
<1>3. \A y \in 0..(m - 1) : y % m = y
  BY <1>2
<1>4. QED
  BY <1>1, <1>2, <1>3 DEF Wrapped

\* An expiry aligned to the minute: an int64, which Mint encodes as it is.
LEMMA AlignedExpiry ==
    ASSUME NEW e \in ExpiryRequests, Quotient(e, MsPerMinute) * MsPerMinute >= 0
    PROVE  LET aligned == Quotient(e, MsPerMinute) * MsPerMinute
           IN  /\ aligned \in 0..MaxInt64
               /\ aligned \div MsPerMinute \in Nat
               /\ (aligned \div MsPerMinute) * MsPerMinute = aligned
<1> DEFINE M == MsPerMinute
           q == Quotient(e, M)
<1>1. e \in (-MaxInt64 - 1)..MaxInt64 /\ MaxInt64 \in Nat /\ M \in Nat \ {0}
  BY AccessAssumption
<1>2. q \in Int /\ q * M <= MaxInt64
  <2>1. CASE e >= 0
    BY <1>1, <2>1, AlignedBelow DEF Quotient
  <2>2. CASE e < 0
    <3>1. (-e) \div M \in Nat /\ -((-e) \div M) = q
      BY <1>1, <2>2, AlignedBelow DEF Quotient
    <3> HIDE DEF q
    <3>2. q \in Int /\ q <= 0
      BY <3>1
    <3>3. q * M <= 0
      BY <1>1, <3>2
    <3>4. q * M \in Int
      BY <1>1, <3>2
    <3>5. QED
      BY <1>1, <3>2, <3>3, <3>4
  <2>3. QED
    BY <1>1, <2>1, <2>2
<1>3. (q * M) \div M = q
  BY <1>1, <1>2, MultipleQuotient
<1>4. q >= 0
  <2> HIDE DEF q
  <2>1. q < 0 => q * M < 0
    BY <1>1, <1>2
  <2>2. q * M >= 0
    BY DEF q
  <2>3. QED
    BY <1>1, <1>2, <2>1, <2>2
<1>5. QED
  BY <1>1, <1>2, <1>3, <1>4

-------------------------------------------------------------------------------
(* The invariant. *)

\* What an operator was granted: the token of its stream and key, which expires
\* when the operator was told.
GrantsInv ==
    \A g \in grants :
        /\ g.stream \in Streams /\ g.secret \in Secrets /\ g.long \in BOOLEAN
        /\ g.at \in 0..now /\ g.expiresAt \in Nat
        /\ g.token = [key |-> <<g.secret, g.stream, "playlist">>,
                      exp |-> g.expiresAt \div MsPerMinute]
        /\ g.token.exp \in 0..MaxUint32
        /\ g.token.exp * MsPerMinute = g.expiresAt
        /\ g.expiresAt - g.at >= MinViewerTokenTTLMs
        /\ g.long \/ g.expiresAt - g.at <= MaxViewerTokenDefaultTTLMs

\* The init token that a render at a time bakes.
InitTokenAt(s, at) ==
    Baked(s, (at \div InitTokenBucketMs) * InitTokenBucketMs
                 + InitTokenBucketMs + PlaylistTokenTTL)

\* A cached playlist was rendered under the present key.
Rendered(s) ==
    /\ playlist[s].at \in 0..now
    /\ playlist[s].init = InitTokenAt(s, playlist[s].at)
    /\ \A x \in playlist[s].segments :
          /\ x.ts \in SegmentTimes /\ x.ts <= playlist[s].at + MaxLookaheadMs
          /\ x.token = SegmentToken(s, x.ts)

PlaylistsInv ==
    /\ playlist = [s \in Streams |-> playlist[s]]
    /\ \A s \in Streams : playlist[s] = NoPlaylist \/ Rendered(s)

\* A token of the media class that reaches no further than a grant, under which
\* it was fetched.
Derived(token) ==
    /\ token.exp \in 0..MaxUint32
    /\ \E g \in grants :
          /\ token.key = <<g.secret, g.stream, "segment">>
          /\ token = [key |-> token.key, exp |-> token.exp]
          /\ token.exp * MsPerMinute < g.expiresAt + LongestReach

\* A token that is out was granted, or fetched under a grant.
KnownInv ==
    \A token \in known : \/ token = NoToken
                         \/ \E g \in grants : token = g.token
                         \/ Derived(token)

AccessInv ==
    /\ now \in 0..MaxNow
    /\ secret \in [Streams -> Secrets \cup {NoKey}]
    /\ fetches \in 0..MaxFetches
    /\ GrantsInv /\ PlaylistsInv /\ KnownInv

-------------------------------------------------------------------------------
(* What the minter bakes. *)

\* A token with a key is not NoToken.
LEMMA RealKey ==
    ASSUME NEW token, NEW k, NEW s, NEW class, token.key = <<k, s, class>>
    PROVE  token # NoToken
<1>1. NoToken.key = <<>>
  BY DEF NoToken
<1>2. <<k, s, class>> # <<>>
  OBVIOUS
<1>3. QED
  BY <1>1, <1>2

\* The numbers that the reach of a token is made of.
LEMMA ReachNat ==
    /\ LongestReach \in Nat /\ MsPerMinute \in Nat \ {0} /\ InitTokenBucketMs \in Nat \ {0}
    /\ PlaylistTokenTTL + MaxLookaheadMs <= LongestReach
    /\ PlaylistTokenTTL + InitTokenBucketMs <= LongestReach
BY AccessAssumption DEF LongestReach

\* The clock does not leave its range.
LEMMA ClockNat == ASSUME AccessInv PROVE now \in Nat /\ now <= MaxNow /\ MaxNow \in Nat
BY AccessAssumption DEF AccessInv

\* What is known of a grant, field by field.
LEMMA GrantFields ==
    ASSUME AccessInv, NEW g \in grants
    PROVE  /\ g.stream \in Streams /\ g.secret \in Secrets /\ g.expiresAt \in Nat
           /\ g.token = [key |-> <<g.secret, g.stream, "playlist">>, exp |-> g.token.exp]
           /\ g.token.key = <<g.secret, g.stream, "playlist">>
           /\ g.token.exp \in 0..MaxUint32 /\ g.token.exp * MsPerMinute = g.expiresAt
<1>1. /\ g.stream \in Streams /\ g.secret \in Secrets /\ g.expiresAt \in Nat
      /\ g.token = [key |-> <<g.secret, g.stream, "playlist">>, exp |-> g.expiresAt \div MsPerMinute]
      /\ g.token.exp \in 0..MaxUint32 /\ g.token.exp * MsPerMinute = g.expiresAt
  BY DEF AccessInv, GrantsInv
<1>2. g.token.exp = g.expiresAt \div MsPerMinute /\ g.token.key = <<g.secret, g.stream, "playlist">>
  BY <1>1
<1>3. QED
  BY <1>1, <1>2

\* A baked token is none, or one of the media class of the stream's key, which
\* expires within the minute before it should.
LEMMA BakedToken ==
    ASSUME secret \in [Streams -> Secrets \cup {NoKey}], NEW s \in Streams, NEW expMs \in Int
    PROVE  \/ Baked(s, expMs) = NoToken
           \/ /\ secret[s] \in Secrets
              /\ expMs >= 0
              /\ Baked(s, expMs).key = <<secret[s], s, "segment">>
              /\ Baked(s, expMs) = [key |-> <<secret[s], s, "segment">>,
                                    exp |-> expMs \div MsPerMinute]
              /\ Baked(s, expMs).exp \in 0..MaxUint32
              /\ Baked(s, expMs).exp * MsPerMinute <= expMs
              /\ expMs < Baked(s, expMs).exp * MsPerMinute + MsPerMinute
<1>1. MsPerMinute \in Nat \ {0} /\ MaxUint32 \in Nat
  BY AccessAssumption
<1>2. CASE secret[s] # NoKey /\ Mintable(expMs)
  <2>1. secret[s] \in Secrets /\ expMs \in Nat /\ expMs \div MsPerMinute <= MaxUint32
    BY <1>2 DEF Mintable
  <2>2. Baked(s, expMs) = [key |-> <<secret[s], s, "segment">>, exp |-> expMs \div MsPerMinute]
    BY <1>2 DEF Baked, Mint, DeriveKey
  <2>3. /\ expMs \div MsPerMinute \in Nat
        /\ (expMs \div MsPerMinute) * MsPerMinute <= expMs
        /\ expMs < (expMs \div MsPerMinute) * MsPerMinute + MsPerMinute
    BY <1>1, <2>1, AlignedBelow
  <2>4. /\ Baked(s, expMs).key = <<secret[s], s, "segment">>
        /\ Baked(s, expMs).exp = expMs \div MsPerMinute
    BY <2>2
  <2>5. QED
    BY <1>1, <2>1, <2>2, <2>3, <2>4
<1>3. CASE ~(secret[s] # NoKey /\ Mintable(expMs))
  BY <1>3 DEF Baked
<1>4. QED
  BY <1>2, <1>3

\* Under a key, an expiry ahead of the clock that fits is baked into a token
\* that holds for more than the clock's minute.
LEMMA BakedVerifies ==
    ASSUME secret \in [Streams -> Secrets \cup {NoKey}], NEW s \in Streams, NEW expMs \in Nat,
           now \in Int, secret[s] # NoKey,
           expMs \div MsPerMinute <= MaxUint32, now + MsPerMinute <= expMs
    PROVE  Verify(DeriveKey(s, "segment"), Baked(s, expMs))
<1>1. MsPerMinute \in Nat \ {0}
  BY AccessAssumption
<1>2. Baked(s, expMs) = [key |-> <<secret[s], s, "segment">>, exp |-> expMs \div MsPerMinute]
  BY DEF Baked, Mintable, Mint, DeriveKey
<1>3. expMs < (expMs \div MsPerMinute) * MsPerMinute + MsPerMinute
      /\ expMs \div MsPerMinute \in Nat
  BY <1>1, AlignedBelow
<1>4. (expMs \div MsPerMinute) * MsPerMinute \in Nat
  BY <1>1, <1>3
<1>5. (expMs \div MsPerMinute) * MsPerMinute > now
  BY <1>1, <1>3, <1>4
<1>6. Baked(s, expMs) # NoToken
  <2>1. Baked(s, expMs).key = <<secret[s], s, "segment">>
    BY <1>2
  <2>2. QED
    BY <2>1, RealKey
<1>7. QED
  BY <1>2, <1>5, <1>6 DEF Verify, DeriveKey

\* Where the bucket of a render ends.
LEMMA BucketEnd ==
    ASSUME NEW at \in Nat
    PROVE  LET end == (at \div InitTokenBucketMs) * InitTokenBucketMs + InitTokenBucketMs
           IN  end \in Nat /\ at < end /\ end <= at + InitTokenBucketMs
<1>1. InitTokenBucketMs \in Nat \ {0}
  BY AccessAssumption
<1>2. QED
  BY <1>1, AlignedBelow

\* No token of a playlist reaches further than LongestReach past its render.
LEMMA ReachOfRender ==
    ASSUME AccessInv, NEW s \in Streams, Rendered(s),
           NEW token \in {playlist[s].init} \cup {x.token : x \in playlist[s].segments}
    PROVE  \/ token = NoToken
           \/ /\ secret[s] \in Secrets
              /\ token = [key |-> <<secret[s], s, "segment">>, exp |-> token.exp]
              /\ token.exp \in 0..MaxUint32
              /\ token.exp * MsPerMinute <= playlist[s].at + LongestReach
<1> DEFINE at == playlist[s].at
<1>1. /\ MsPerMinute \in Nat \ {0} /\ InitTokenBucketMs \in Nat /\ PlaylistTokenTTL \in Nat
      /\ MaxLookaheadMs \in Nat /\ SegmentTimes \subseteq Int /\ MaxUint32 \in Nat
  BY AccessAssumption
<1>2. at \in Nat
  BY DEF AccessInv, Rendered
<1>3. PICK expMs \in Int : token = Baked(s, expMs) /\ expMs <= at + LongestReach
  <2>1. CASE token = playlist[s].init
    <3> DEFINE end == (at \div InitTokenBucketMs) * InitTokenBucketMs + InitTokenBucketMs
    <3>1. end \in Nat /\ end <= at + InitTokenBucketMs
      BY <1>2, BucketEnd
    <3>2. token = Baked(s, end + PlaylistTokenTTL)
      BY <2>1 DEF Rendered, InitTokenAt
    <3> HIDE DEF end, at
    <3>3. end + PlaylistTokenTTL \in Int /\ end + PlaylistTokenTTL <= at + LongestReach
      BY <1>1, <1>2, <3>1 DEF LongestReach
    <3>4. QED
      BY <3>2, <3>3
  <2>2. CASE \E x \in playlist[s].segments : token = x.token
    <3>1. PICK x \in playlist[s].segments : token = x.token
      BY <2>2
    <3>2. x.ts \in Int /\ x.ts <= at + MaxLookaheadMs /\ token = Baked(s, x.ts + PlaylistTokenTTL)
      BY <1>1, <3>1 DEF Rendered, SegmentToken
    <3> HIDE DEF at
    <3>3. x.ts + PlaylistTokenTTL \in Int /\ x.ts + PlaylistTokenTTL <= at + LongestReach
      BY <1>1, <1>2, <3>2 DEF LongestReach
    <3>4. QED
      BY <3>2, <3>3
  <2>3. QED
    BY <2>1, <2>2
<1>4. CASE token # NoToken
  <2>1. /\ secret[s] \in Secrets
        /\ token = [key |-> <<secret[s], s, "segment">>, exp |-> expMs \div MsPerMinute]
        /\ token.exp \in 0..MaxUint32 /\ token.exp * MsPerMinute <= expMs
    BY <1>3, <1>4, BakedToken DEF AccessInv
  <2>2. token = [key |-> <<secret[s], s, "segment">>, exp |-> token.exp]
    BY <2>1
  <2>3. LongestReach \in Nat
    BY <1>1 DEF LongestReach
  <2>4. token.exp * MsPerMinute \in Int
    BY <1>1, <2>1
  <2> HIDE DEF at
  <2>5. token.exp * MsPerMinute <= at + LongestReach
    BY <1>2, <1>3, <2>1, <2>3, <2>4
  <2>6. QED
    BY <2>1, <2>2, <2>5 DEF at
<1>5. QED
  BY <1>4

-------------------------------------------------------------------------------
(* The invariant is inductive. *)

\* AccessInv holds from the start.
LEMMA InitAccessInv == Init => AccessInv
<1>1. MaxNow \in Nat /\ MaxFetches \in Nat
  BY AccessAssumption
<1>2. QED
  BY <1>1 DEF Init, AccessInv, GrantsInv, PlaylistsInv, KnownInv

\* A grant that is made keeps the endpoint's limits.
LEMMA NewGrant ==
    ASSUME AccessInv, NEW s \in Streams, NEW e \in ExpiryRequests, NEW long \in BOOLEAN,
           MintGrant(s, e, long)
    PROVE  LET g == Grant(s, Quotient(e, MsPerMinute) * MsPerMinute, long)
           IN  /\ g.stream \in Streams /\ g.secret \in Secrets /\ g.long \in BOOLEAN
               /\ g.at \in 0..now /\ g.expiresAt \in Nat
               /\ g.token = [key |-> <<g.secret, g.stream, "playlist">>,
                             exp |-> g.expiresAt \div MsPerMinute]
               /\ g.token.exp \in 0..MaxUint32
               /\ g.token.exp * MsPerMinute = g.expiresAt
               /\ g.expiresAt - g.at >= MinViewerTokenTTLMs
               /\ g.long \/ g.expiresAt - g.at <= MaxViewerTokenDefaultTTLMs
<1> DEFINE aligned == Quotient(e, MsPerMinute) * MsPerMinute
           g == Grant(s, aligned, long)
<1>1. /\ MaxInt64 \in Nat /\ MaxNow \in 0..MaxInt64 /\ MaxUint32 \in Nat
      /\ now \in 0..MaxNow /\ MinViewerTokenTTLMs \in Nat
  BY AccessAssumption DEF AccessInv
<1>2. /\ secret[s] \in Secrets
      /\ Mintable(aligned)
      /\ Wrapped(aligned - now) >= MinViewerTokenTTLMs
      /\ long \/ Wrapped(aligned - now) <= MaxViewerTokenDefaultTTLMs
  BY DEF MintGrant, AccessInv
<1>3. /\ aligned \in 0..MaxInt64
      /\ aligned \div MsPerMinute \in 0..MaxUint32
      /\ (aligned \div MsPerMinute) * MsPerMinute = aligned
  BY <1>1, <1>2, AlignedExpiry DEF Mintable
<1>4. g = [stream |-> s, secret |-> secret[s], expiresAt |-> aligned, at |-> now, long |-> long,
           token |-> [key |-> <<secret[s], s, "playlist">>, exp |-> aligned \div MsPerMinute]]
  BY DEF Grant, Mint, DeriveKey
<1> HIDE DEF aligned
<1>5. Wrapped(aligned - now) = aligned - now
  BY <1>1, <1>3, WrappedInRange
<1> HIDE DEF g
<1>6. QED
  BY <1>1, <1>2, <1>3, <1>4, <1>5 DEF g, aligned

\* A new grant disturbs nothing that viewers already hold.
LEMMA MintKeepsInv ==
    ASSUME AccessInv, NEW s \in Streams, NEW e \in ExpiryRequests, NEW long \in BOOLEAN,
           MintGrant(s, e, long)
    PROVE  AccessInv'
<1> DEFINE g == Grant(s, Quotient(e, MsPerMinute) * MsPerMinute, long)
<1>1. /\ UNCHANGED <<now, secret, playlist, fetches>>
      /\ grants' = grants \cup {g} /\ known' = known \cup {g.token}
  BY DEF MintGrant
<1>2. GrantsInv'
  <2>1. \A h \in grants' : h \in grants \/ h = g
    BY <1>1
  <2>2. QED
    BY <1>1, <2>1, NewGrant DEF AccessInv, GrantsInv
<1> HIDE DEF g
<1>3. PlaylistsInv'
  BY <1>1 DEF AccessInv, PlaylistsInv, Rendered, InitTokenAt, SegmentToken, Baked, DeriveKey
<1>4. KnownInv'
  BY <1>1 DEF AccessInv, KnownInv, Derived
<1>5. QED
  BY <1>1, <1>2, <1>3, <1>4 DEF AccessInv

\* A render keeps it: what it bakes is a token of the present key.
LEMMA RenderKeepsInv ==
    ASSUME AccessInv, NEW s \in Streams, NEW times \in SUBSET SegmentTimes, Render(s, times)
    PROVE  AccessInv'
<1>1. UNCHANGED <<now, secret, grants, known, fetches>>
  BY DEF Render
<1>2. now \in Nat
  BY AccessAssumption DEF AccessInv
<1>3. InitToken(s) = InitTokenAt(s, now)
  BY <1>2 DEF InitToken, InitTokenAt, Quotient
<1>4. PlaylistsInv'
  <2> DEFINE new == [at |-> now, init |-> InitToken(s),
                     segments |-> {[ts |-> ts, token |-> SegmentToken(s, ts)] : ts \in times}]
  <2>1. playlist' = [playlist EXCEPT ![s] = new]
    BY DEF Render
  <2>2. \A ts \in times : ts <= now + MaxLookaheadMs /\ ts \in SegmentTimes
    BY DEF Render
  <2>3. new.at = now /\ new.init = InitToken(s)
        /\ \A x \in new.segments : /\ x.ts \in SegmentTimes /\ x.ts <= now + MaxLookaheadMs
                                   /\ x.token = SegmentToken(s, x.ts)
    BY <2>2
  <2> HIDE DEF new
  <2>4. playlist'[s] = new /\ \A t \in Streams \ {s} : playlist'[t] = playlist[t]
    BY <2>1 DEF AccessInv, PlaylistsInv
  <2>5. Rendered(s)'
    BY <1>1, <1>2, <1>3, <2>3, <2>4 DEF Rendered, InitTokenAt, SegmentToken, Baked, DeriveKey
  <2>6. \A t \in Streams \ {s} : playlist'[t] = NoPlaylist \/ Rendered(t)'
    BY <1>1, <2>4
    DEF AccessInv, PlaylistsInv, Rendered, InitTokenAt, SegmentToken, Baked, DeriveKey
  <2>7. playlist' = [t \in Streams |-> playlist'[t]]
    BY <2>1 DEF AccessInv, PlaylistsInv
  <2>8. QED
    BY <2>5, <2>6, <2>7 DEF PlaylistsInv
<1>5. QED
  BY <1>1, <1>4 DEF AccessInv, GrantsInv, KnownInv, Derived

\* Who fetches the playlist of a stream with a key holds a grant under that key
\* which is not over.
LEMMA GrantOpensPlaylists ==
    ASSUME AccessInv, NEW s \in Streams, NEW token \in known, PlaylistRoutes(s, token)
    PROVE  secret[s] = NoKey \/ \E g \in grants : g.token = token /\ Current(g, s)
<1>1. SUFFICES ASSUME secret[s] # NoKey PROVE \E g \in grants : g.token = token /\ Current(g, s)
  OBVIOUS
<1>2. /\ token # NoToken /\ token.key = <<secret[s], s, "playlist">>
      /\ token.exp * MsPerMinute > now
  BY <1>1 DEF PlaylistRoutes, Authorized, Verify, DeriveKey
<1>3. ~Derived(token)
  BY <1>2 DEF Derived
<1>4. PICK g \in grants : token = g.token
  BY <1>2, <1>3 DEF AccessInv, KnownInv
<1>5. /\ token.key = <<g.secret, g.stream, "playlist">>
      /\ token.exp * MsPerMinute = g.expiresAt
  BY <1>4, GrantFields
<1>6. g.secret = secret[s] /\ g.stream = s
  BY <1>2, <1>5
<1>7. QED
  BY <1>2, <1>4, <1>5, <1>6 DEF Current

\* A playlist fetch keeps it: what a viewer collects there was baked or granted.
LEMMA FetchKeepsInv ==
    ASSUME AccessInv, NEW s \in Streams, FetchPlaylist(s)
    PROVE  AccessInv'
<1>1. /\ UNCHANGED <<now, secret, grants, playlist>>
      /\ fetches' = fetches + 1 /\ fetches < MaxFetches /\ playlist[s] # NoPlaylist
      /\ \E token \in known : PlaylistRoutes(s, token)
      /\ known' = known \cup {playlist[s].init} \cup {x.token : x \in playlist[s].segments}
  BY DEF FetchPlaylist
<1>2. Rendered(s)
  BY <1>1 DEF AccessInv, PlaylistsInv
<1>3. KnownInv'
  <2>1. SUFFICES ASSUME NEW token \in {playlist[s].init} \cup {x.token : x \in playlist[s].segments},
                        token # NoToken
                 PROVE  Derived(token)
    BY <1>1 DEF AccessInv, KnownInv, Derived
  <2>2. /\ secret[s] \in Secrets
        /\ token = [key |-> <<secret[s], s, "segment">>, exp |-> token.exp]
        /\ token.exp \in 0..MaxUint32
        /\ token.exp * MsPerMinute <= playlist[s].at + LongestReach
    BY <1>2, <2>1, ReachOfRender
  <2>3. PICK g \in grants : g.secret = secret[s] /\ g.stream = s /\ now < g.expiresAt
    BY <1>1, <2>2, GrantOpensPlaylists, AccessAssumption DEF Current
  <2>4. token.exp * MsPerMinute < g.expiresAt + LongestReach
    <3>1. LongestReach \in Nat /\ token.exp * MsPerMinute \in Int
      BY <2>2, ReachNat
    <3>2. now \in Int /\ g.expiresAt \in Int /\ playlist[s].at \in 0..now
      <4>1. playlist[s].at \in 0..now
        BY <1>2 DEF Rendered
      <4>2. now \in Int
        BY ClockNat
      <4>3. g.expiresAt \in Nat
        BY GrantFields
      <4>4. QED
        BY <4>1, <4>2, <4>3
    <3>3. QED
      BY <2>2, <2>3, <3>1, <3>2
  <2>5. token.key = <<secret[s], s, "segment">>
    BY <2>2
  <2>6. QED
    BY <2>2, <2>3, <2>4, <2>5 DEF Derived
<1>4. QED
  BY <1>1, <1>3, AccessAssumption
  DEF AccessInv, GrantsInv, PlaylistsInv, Rendered, InitTokenAt, SegmentToken, Baked, DeriveKey

\* Every step keeps the invariant.
LEMMA AccessInvNext == AccessInv /\ [Next]_vars => AccessInv'
<1> SUFFICES ASSUME AccessInv, [Next]_vars PROVE AccessInv'
  OBVIOUS
<1>1. CASE \E s \in Streams, e \in ExpiryRequests, long \in BOOLEAN : MintGrant(s, e, long)
  BY <1>1, MintKeepsInv
<1>2. CASE \E s \in Streams, times \in SUBSET SegmentTimes : times # {} /\ Render(s, times)
  BY <1>2, RenderKeepsInv
<1>3. CASE \E s \in Streams : FetchPlaylist(s)
  BY <1>3, FetchKeepsInv
<1>4. CASE Restart
  BY <1>4 DEF Restart, AccessInv, GrantsInv, PlaylistsInv, KnownInv, Derived
<1>5. CASE Tick
  <2>1. now' \in 0..MaxNow /\ 0..now \subseteq 0..now'
    BY <1>5, AccessAssumption DEF Tick, AccessInv
  <2>2. QED
    BY <1>5, <2>1
    DEF Tick, AccessInv, GrantsInv, PlaylistsInv, Rendered, InitTokenAt, SegmentToken, Baked,
        DeriveKey, KnownInv, Derived
<1>6. CASE UNCHANGED vars
  BY <1>6
  DEF vars, AccessInv, GrantsInv, PlaylistsInv, Rendered, InitTokenAt, SegmentToken, Baked,
      DeriveKey, KnownInv, Derived
<1>7. QED
  BY <1>1, <1>2, <1>3, <1>4, <1>5, <1>6 DEF Next

\* AccessInv holds in every state, for any keys, grants, renders and restarts.
THEOREM AccessInvariantHolds == Spec => []AccessInv
BY InitAccessInv, AccessInvNext, PTL DEF Spec

-------------------------------------------------------------------------------
(* The properties. *)

\* It implies the types.
LEMMA AccessInvTypeOK == AccessInv => TypeOK
<1> SUFFICES ASSUME AccessInv PROVE TypeOK
  OBVIOUS
<1>1. MaxUint32 \in Nat /\ SegmentTimes \subseteq Int /\ now \in Nat
      /\ PlaylistTokenTTL \in Nat /\ InitTokenBucketMs \in Nat \ {0}
  BY AccessAssumption DEF AccessInv
<1>2. NoToken \in Tokens
  BY DEF Tokens
<1>3. \A token, k, s, class :
         /\ token = [key |-> <<k, s, class>>, exp |-> token.exp]
         /\ k \in Secrets /\ s \in Streams /\ class \in Classes /\ token.exp \in 0..MaxUint32
         => token \in Tokens
  BY DEF Tokens
<1>4. \A g \in grants : g.token \in Tokens
  <2>1. TAKE g \in grants
  <2>2. /\ g.token = [key |-> <<g.secret, g.stream, "playlist">>, exp |-> g.token.exp]
        /\ g.secret \in Secrets /\ g.stream \in Streams /\ g.token.exp \in 0..MaxUint32
    BY GrantFields
  <2>3. QED
    BY <1>3, <2>2 DEF Classes
<1>5. \A token : Derived(token) => token \in Tokens
  <2>1. SUFFICES ASSUME NEW token, Derived(token) PROVE token \in Tokens
    OBVIOUS
  <2>2. PICK g \in grants : /\ token.key = <<g.secret, g.stream, "segment">>
                            /\ token = [key |-> token.key, exp |-> token.exp]
    BY <2>1 DEF Derived
  <2>3. g.secret \in Secrets /\ g.stream \in Streams /\ token.exp \in 0..MaxUint32
    BY <2>1 DEF AccessInv, GrantsInv, Derived
  <2>4. QED
    BY <1>3, <2>2, <2>3 DEF Classes
<1>6. known \subseteq Tokens
  BY <1>2, <1>4, <1>5 DEF AccessInv, KnownInv
<1>7. ASSUME NEW s \in Streams
      PROVE  /\ playlist[s].at \in -1..now /\ playlist[s].init \in Tokens
             /\ \A x \in playlist[s].segments : x.ts \in SegmentTimes /\ x.token \in Tokens
  <2>1. CASE playlist[s] = NoPlaylist
    BY <1>1, <1>2, <2>1 DEF NoPlaylist
  <2>2. CASE Rendered(s)
    <3>1. \A token \in {playlist[s].init} \cup {x.token : x \in playlist[s].segments} :
             token \in Tokens
      BY <1>2, <1>3, <2>2, ReachOfRender DEF Classes
    <3>2. QED
      BY <1>1, <2>2, <3>1 DEF Rendered
  <2>3. QED
    BY <2>1, <2>2 DEF AccessInv, PlaylistsInv
<1>8. QED
  BY <1>4, <1>6, <1>7 DEF TypeOK, AccessInv, GrantsInv

\* Every variable keeps its type; no token encodes a minute that does not fit.
THEOREM AccessTypeCorrect == Spec => []TypeOK
BY AccessInvariantHolds, AccessInvTypeOK, PTL

\* Playlists of a stream with a key open to exactly the tokens that the operator
\* granted for it, until the expiry it was told, through every restart.
THEOREM PlaylistsOpenToGrants == Spec => []PlaylistAccess
<1>1. AccessInv => PlaylistAccess
  <2>1. SUFFICES ASSUME AccessInv, NEW s \in Streams, NEW token \in known
                 PROVE  PlaylistRoutes(s, token) <=>
                           secret[s] = NoKey \/ \E g \in grants : g.token = token /\ Current(g, s)
    BY DEF PlaylistAccess
  <2>2. ASSUME NEW g \in grants, g.token = token, Current(g, s) PROVE PlaylistRoutes(s, token)
    <3>1. token.key = <<secret[s], s, "playlist">>
      BY <2>1, <2>2, GrantFields DEF Current
    <3>2. token # NoToken
      BY <3>1, RealKey
    <3>3. token.exp * MsPerMinute > now
      BY <2>1, <2>2, ClockNat, GrantFields DEF Current
    <3>4. QED
      BY <3>1, <3>2, <3>3 DEF PlaylistRoutes, Authorized, Verify, DeriveKey
  <2>3. secret[s] = NoKey => PlaylistRoutes(s, token)
    BY DEF PlaylistRoutes, Authorized
  <2>4. QED
    BY <2>1, <2>2, <2>3, GrantOpensPlaylists
<1>2. QED
  BY <1>1, AccessInvariantHolds, PTL

\* No chain of fetches and restarts keeps a stream with a key open past the
\* last grant by more than what a playlist's tokens reach beyond its render.
THEOREM NoReplayPastGrants == Spec => []ReplayBounded
<1>1. AccessInv => ReplayBounded
  <2>1. SUFFICES ASSUME AccessInv, NEW s \in Streams, secret[s] # NoKey,
                        NEW token \in known, MediaRoutes(s, token)
                 PROVE  \E g \in grants : /\ g.stream = s /\ g.secret = secret[s]
                                          /\ now < g.expiresAt + LongestReach
    BY DEF ReplayBounded
  <2>2. LongestReach \in Nat /\ MsPerMinute \in Nat /\ now \in Nat
        /\ \A g \in grants : g.expiresAt \in Nat
    BY <2>1, ReachNat, ClockNat, GrantFields
  <2>3. PICK class \in {"segment", "playlist"} : Verify(DeriveKey(s, class), token)
    BY <2>1 DEF MediaRoutes, Authorized
  <2>4. CASE class = "playlist"
    <3>1. PlaylistRoutes(s, token)
      BY <2>3, <2>4 DEF PlaylistRoutes, Authorized
    <3>2. PICK g \in grants : Current(g, s)
      BY <2>1, <3>1, GrantOpensPlaylists
    <3>3. QED
      BY <2>2, <3>2 DEF Current
  <2>5. CASE class = "segment"
    <3>1. /\ token # NoToken /\ token.key = <<secret[s], s, "segment">>
          /\ token.exp * MsPerMinute > now
      BY <2>3, <2>5 DEF Verify, DeriveKey
    <3>2. \A g \in grants : token # g.token
      <4>1. TAKE g \in grants
      <4>2. g.token.key = <<g.secret, g.stream, "playlist">>
        BY <2>1, GrantFields
      <4>3. QED
        BY <3>1, <4>2
    <3>3. Derived(token)
      BY <2>1, <3>1, <3>2 DEF AccessInv, KnownInv
    <3>4. PICK g \in grants : /\ token.key = <<g.secret, g.stream, "segment">>
                              /\ token.exp * MsPerMinute < g.expiresAt + LongestReach
      BY <3>3 DEF Derived
    <3>5. g.secret = secret[s] /\ g.stream = s
      BY <3>1, <3>4
    <3>6. token.exp * MsPerMinute \in Int
      BY <2>2, <3>3 DEF Derived
    <3>7. QED
      BY <2>2, <3>1, <3>4, <3>5, <3>6
  <2>6. QED
    BY <2>3, <2>4, <2>5
<1>2. QED
  BY <1>1, AccessInvariantHolds, PTL

\* A grant is worth what the endpoint's limits say, for every expiry that a
\* request may ask for, where the difference to the clock wraps around, too.
THEOREM GrantsWithinLimits == Spec => []GrantLifetime
<1>1. AccessInv => GrantLifetime
  BY DEF AccessInv, GrantsInv, GrantLifetime
<1>2. QED
  BY <1>1, AccessInvariantHolds, PTL

\* As long as the expiries fit into a token, what a playlist lists can be
\* fetched with the tokens it carries: every segment within a live window, and
\* the init segment.
THEOREM FreshPlaylistsFetchable ==
    ASSUME ExpiriesFit PROVE Spec => []FreshPlaylistFetchable
<1>1. AccessInv => FreshPlaylistFetchable
  <2>1. SUFFICES ASSUME AccessInv, NEW s \in Streams, secret[s] # NoKey
                 PROVE  /\ \A x \in playlist[s].segments :
                              x.ts >= now - MaxWindowSpanMs => MediaRoutes(s, x.token)
                        /\ playlist[s] # NoPlaylist /\ now <= playlist[s].at + PlaylistTokenTTL - MsPerMinute
                              => MediaRoutes(s, playlist[s].init)
    BY DEF FreshPlaylistFetchable, MediaRoutes, Authorized
  <2>2. /\ MsPerMinute \in Nat \ {0} /\ MaxUint32 \in Nat /\ now \in 0..MaxNow /\ MaxNow \in Nat
        /\ PlaylistTokenTTL \in Nat /\ MaxWindowSpanMs \in 0..(PlaylistTokenTTL - MsPerMinute)
        /\ MaxLookaheadMs \in Nat /\ SegmentTimes \subseteq Int
        /\ secret \in [Streams -> Secrets \cup {NoKey}]
    BY <2>1, AccessAssumption DEF AccessInv
  <2>3. \A expMs \in Nat : expMs <= MaxNow + LongestReach => expMs \div MsPerMinute <= MaxUint32
    <3>1. TAKE expMs \in Nat
    <3>2. HAVE expMs <= MaxNow + LongestReach
    <3>3. expMs \div MsPerMinute <= (MaxNow + LongestReach) \div MsPerMinute
      BY <2>2, <3>2, ReachNat, QuotientGrows
    <3>4. expMs \div MsPerMinute \in Nat /\ (MaxNow + LongestReach) \div MsPerMinute \in Nat
      BY <2>2, ReachNat, AlignedBelow
    <3>5. QED
      BY <2>2, <3>3, <3>4 DEF ExpiriesFit
  <2>4. ASSUME NEW x \in playlist[s].segments, x.ts >= now - MaxWindowSpanMs
        PROVE  MediaRoutes(s, x.token)
    <3>1. Rendered(s)
      BY <2>1, <2>4 DEF AccessInv, PlaylistsInv, NoPlaylist
    <3>2. /\ x.ts \in Int /\ x.ts <= now + MaxLookaheadMs
          /\ x.token = Baked(s, x.ts + PlaylistTokenTTL)
      <4>1. /\ x.ts \in SegmentTimes /\ x.ts <= playlist[s].at + MaxLookaheadMs
            /\ x.token = SegmentToken(s, x.ts) /\ playlist[s].at \in 0..now
        BY <2>4, <3>1 DEF Rendered
      <4>2. x.ts \in Int
        BY <2>2, <4>1
      <4>3. x.ts <= now + MaxLookaheadMs
        BY <2>2, <4>1, <4>2
      <4>4. QED
        BY <4>1, <4>2, <4>3 DEF SegmentToken
    <3>3. x.ts + PlaylistTokenTTL \in Nat /\ now + MsPerMinute <= x.ts + PlaylistTokenTTL
          /\ x.ts + PlaylistTokenTTL <= MaxNow + LongestReach
      BY <2>2, <2>4, <3>2, ReachNat
    <3>4. Verify(DeriveKey(s, "segment"), x.token)
      BY <2>1, <2>2, <2>3, <3>2, <3>3, BakedVerifies
    <3>5. QED
      BY <3>4 DEF MediaRoutes, Authorized
  <2>5. ASSUME playlist[s] # NoPlaylist, now <= playlist[s].at + PlaylistTokenTTL - MsPerMinute
        PROVE  MediaRoutes(s, playlist[s].init)
    <3> DEFINE at == playlist[s].at
               end == (at \div InitTokenBucketMs) * InitTokenBucketMs + InitTokenBucketMs
    <3>1. Rendered(s)
      BY <2>1, <2>5 DEF AccessInv, PlaylistsInv
    <3>2. at \in 0..now /\ playlist[s].init = Baked(s, end + PlaylistTokenTTL)
      BY <3>1 DEF Rendered, InitTokenAt
    <3>3. end \in Nat /\ at < end /\ end <= at + InitTokenBucketMs
      <4>1. at \in Nat
        BY <2>2, <3>2
      <4> HIDE DEF at
      <4>2. QED
        BY <4>1, BucketEnd
    <3> HIDE DEF end
    <3>4. end + PlaylistTokenTTL \in Nat /\ now + MsPerMinute <= end + PlaylistTokenTTL
          /\ end + PlaylistTokenTTL <= MaxNow + LongestReach
      BY <2>2, <2>5, <3>2, <3>3, ReachNat
    <3>5. Verify(DeriveKey(s, "segment"), playlist[s].init)
      BY <2>1, <2>2, <2>3, <3>2, <3>4, BakedVerifies
    <3>6. QED
      BY <3>5 DEF MediaRoutes, Authorized
  <2>6. QED
    BY <2>4, <2>5
<1>2. QED
  BY <1>1, AccessInvariantHolds, PTL

\* A re-render gives a segment the token it had, and the init segment its own
\* within an hour bucket, as long as the key stays.
THEOREM URIsStayStable == Spec => URIsStable
<1> DEFINE Stable ==
       \A s \in Streams :
          secret'[s] = secret[s] /\ playlist[s] # NoPlaylist /\ playlist'[s] # NoPlaylist =>
             /\ \A x \in playlist[s].segments, y \in playlist'[s].segments :
                   x.ts = y.ts => x.token = y.token
             /\ playlist[s].at \div InitTokenBucketMs = playlist'[s].at \div InitTokenBucketMs
                   => playlist[s].init = playlist'[s].init
<1>1. AccessInv /\ AccessInv' /\ [Next]_vars => [Stable]_playlist
  <2>1. SUFFICES ASSUME AccessInv, AccessInv', NEW s \in Streams, secret'[s] = secret[s],
                        playlist[s] # NoPlaylist, playlist'[s] # NoPlaylist
                 PROVE  /\ \A x \in playlist[s].segments, y \in playlist'[s].segments :
                             x.ts = y.ts => x.token = y.token
                        /\ playlist[s].at \div InitTokenBucketMs = playlist'[s].at \div InitTokenBucketMs
                             => playlist[s].init = playlist'[s].init
    OBVIOUS
  <2>2. Rendered(s) /\ Rendered(s)'
    BY <2>1 DEF AccessInv, PlaylistsInv
  <2>3. \A expMs : Baked(s, expMs)' = Baked(s, expMs)
    BY <2>1 DEF Baked, DeriveKey
  <2>4. QED
    BY <2>1, <2>2, <2>3 DEF Rendered, InitTokenAt, SegmentToken, Baked, DeriveKey
<1>2. QED
  BY <1>1, AccessInvariantHolds, PTL DEF Spec, URIsStable

===============================================================================
