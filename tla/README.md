# streamloom: a TLA+ model of the live HLS origin

streamloom is a single-process live HLS origin. A pusher sends an init segment
and media segments over an authenticated HTTP API; viewers fetch playlists and
segments from a second, public server. Everything is in memory. This directory
models the parts with state and concurrency - the segment buffer, the playlist
renderer, the lifecycle of streams with the requests that race it, the process
around them, viewer tokens - and the arithmetic that guards them. Line numbers below are those of the files under `src/`.

## Inventory

| Component | State | Operations | Hard behaviour | What makes it correct |
|---|---|---|---|---|
| Segment buffer, `pkg/stream/stream.go` | sorted segment list, generation, parked buffers (`pendingFree`) | `AcquireSlot`, `ReleaseSlot`, `CommitSlot` (sweep, evict, drop stale, insert), `RunWithPublishedSegmentSlot` | readers work outside the lock; commits fail half-way; uploads in any index order; generation changes | every slot has one owner; no slot is recycled under a reader; index order is time order; generations never mix; published segments are kept |
| Buffer pool, `pkg/pool` | free list, reader counts | `Get`, `Put`, `AssertCheckedOut`, `ReaderInc`, `ReaderDec` | not safe by itself; a failed check ends the process | no check ever fails; nothing leaks |
| Playlist renderer, `pkg/stream/playlist.go` | cached snapshot, timer, `notifyCh`, `hasPlaylist`, `done`, `stopped` | one goroutine: render, publish, announce, sleep, drain | lost wake-ups; two clock reads; index gaps; shutdown from any select | the cached playlist is what a render would give now; contiguous; does not go back; deletion ends |
| Store, `stream.go:620-824` | map ID to stream | `Init`, `Get`, `Delete` | overlapping `DELETE`s, re-creation while an old renderer stops | one live object per ID; no double close; no goroutine leak |
| Push API, `pkg/routes/api.go` | none of its own | `POST /init`, `POST /segment`, `DELETE`, `GET /active_watchers`, `POST /viewer_token` | several steps per handler, each atomic by itself; limits that combine extreme headers and settings | slots released on every path; trackers follow streams; only sound streams are created |
| Viewer routes, `pkg/routes/stream.go` | none of its own | playlists, init, segments; `media.m3u8` waits for a first playlist; the start offset is baked into its URI | a wait races deletion, re-creation, deadline, disconnect; what is baked into a URI comes back much later | every wait ends, and early on deletion; what was baked is still accepted |
| Watcher tracker, `pkg/watcher`, `pkg/middleware/watcher.go` | address to last-seen time, per ID | `Record`, `ActiveCount`, `Cleanup`, `DeleteStream` | check-then-act against deletion; ceiling; boundary of the window | bounded; steady viewers kept; phantoms go |
| Viewer tokens, `pkg/viewer`, `viewer_token.go`, `playlist_token_minter.go`, `middleware/viewertoken.go` | keys from the environment; tokens are stateless | derive, mint, verify; mint endpoint; baking into playlists; two route groups | truncation to minutes; expiry against the live window; restarts and key rotation; collecting tokens from playlists | playlists open to current grants only; replay is bounded; what a playlist lists is fetchable; URIs are stable |
| Client address, `pkg/middleware/realip.go` | none | `TrustedRealIP`: rightmost untrusted hop | chains written by clients and proxies together | a client is counted under its own address |
| Process, `main.go` | signal context, two servers, cleanup goroutine, watchdog | start, serve, shut down | requests in progress at a signal | they are cut off only after the grace period |
| Configuration, `pkg/config` | environment, read once | parsing, validation | settings that meet request headers in one check | the settings that POST /init reads are part of its checks |
| Clock, `pkg/clock` | - | `Now`, timers | the wall clock may be set back | the buffer stays sound |
| Guard, logging | - | - | a pool failure must end the process | guard: `panicked` |

How they interact: handlers call the store under `Store.mu`, get a stream, and
work on it under `Stream.mu`; a successful commit sends on `notifyCh`
(capacity 1), which wakes the renderer; the renderer stores a snapshot
atomically and closes `hasPlaylist` once, which releases waiting viewers;
`Store.Delete` closes `done`, which releases waiters and stops the renderer,
and waits for `stopped`; the `DELETE` handler then clears the tracker. The
lock orders are simple (no lock is taken while another is held), so the hard
part is what happens between critical sections.

The hazards, each at its line and with the properties that watch over it, are
in `PROJECT.json`.

## Modules

    Stream ---------- StreamProofs        (each EXTENDS the one above it and, for
      |   \               |                proofs, the one on its left)
      |    SegmentSlice   |
      |        |          |
      |    RenderSlice    |
      |   /               |
    LiveStream ------ LiveStreamProofs ---- SliceProofs   (and RenderSlice)
      |                   |
    Playback -------- PlaybackProofs

    StreamLife            LiveStream INSTANCEs it: the refinement

    StreamStore ----- StreamStoreProofs       StreamStore EXTENDS ClientAddress
      |                   |
    Process --------- ProcessProofs           Process EXTENDS InitRequest, too

    InitRequest ----- InitRequestProofs

    ViewerAccess ---- ViewerAccessProofs

`MC*.tla` hold symmetry sets and model values; every run is an MC module with
a `.cfg`. Operators named in a comment as "Mutant" are wrong variants of the
definition that follows them, each with a plausible bug; the runs' properties
are checked to fail when one replaces its original. No specification uses them.

**Stream.** The buffer, pool, upload handlers and segment fetches. One action
per critical section of `Stream.mu` or per step outside it: `AcquireSlot`,
`ReadFrom`, `CommitSlot` (with the sweep, eviction, the drop, and both groups
of rejections in code order), `ReleaseSlot`, `Fetch`, `FinishFetch`, `Tick`.
Correspondence and abstractions:

- The sorted slice is a function from the indices present to records. That the
  code's binary searches and compactions compute the sets the model quantifies
  for rests on `Ordered`; SegmentSlice states it, the runs check it and
  SliceProofs proves it.
- The LIFO free list is a set: which buffer `Get` pops is chosen
  nondeterministically, so the model covers the code's choice.
- `ReaderDec` takes no lock. It is one atomic step and can fall between any two
  critical sections; inside one it commutes with everything but a `Readers()`
  test, and falling just before or after the test gives the same two outcomes.
- `CommitSlot` reads the clock twice under the lock (line 482 and, in
  `evictOldLocked`, 401); the model reads it once.
- The pool's checks compute `panicked`; a step that fails a check ends the
  behaviour, as `UnrecoverableGuard` ends the process.
- `Tick` advances the clock and, if `ClockStepsBack`, sets it back to any
  earlier time, as an operator or NTP may: the code reads `UnixMilli`.
- Body bytes and durations are left out. A handler's index, timestamp and
  generation are chosen when it commits; nothing reads them before.
- `ConstantsAssumption` is what `Store.Init` (732-754) guarantees.

**SegmentSlice** is the same commit and lookup on a sequence, position by
position: `sort.Search`, `evictOldLocked`, the write-cursor pass of
`dropStaleGenerationLocked`, the checks against neighbours and the insertion.
`SliceMatches` says that in every reachable state, any commit that could come
next leaves exactly the list that Stream says. **RenderSlice** does the same for
the window that `renderPlaylistCache` cuts out of the slice (`RenderMatches`).

**LiveStream** extends Stream with the renderer goroutine: `ReadClock`,
`Render`, `StoreSnapshot`, `Announce`, `Arm`, `Wake`, `Stop`, `Drain`, and
`CloseDone` for `Store.Delete`. A snapshot is the function from the indices it
lists to their timestamp and generation. `minRenderInterval` (50 ms) is below
the model's unit of time; `sleepForMs` caps at 24 hours, above the two hours by
which a commit may be ahead, and never shortens a sleep. Handlers that hold the
object may go on after `done`, as in the code.

**Playback** is what players do with a playlist. The master playlist's handler
bakes the distance to the tail into the media URI (`FreshOffset`), and players
come back with it for the rest of a session (`StickyOffsetAccepted`,
`StartLineFromOffset`); the tokens in segment URIs expire by the segment's
timestamp (`SegmentExpiry`). The handlers keep no state, so these are functions
of LiveStream's snapshot and clock. `PlaybackAssumption` is what InitRequest
and the packages' constants guarantee.

**StreamLife** is what a stream promises to its holders: the order in which a
snapshot, `hasPlaylist`, `done` and `stopped` may come. LiveStream implements
it (checked, and proved). The renderer of an object in StreamStore is written as
these steps, so what StreamStore assumes of a renderer is what LiveStream does.

**StreamStore** is one stream ID over several incarnations: push API requests
(`InitStream`, `Launch`, `DeleteStream`, `DeleteReturn`, `Untrack`), viewer
requests (`Admit`, `Record`, `Handle`, then for `media.m3u8` `PollAnswer`,
`PollTimeout` or `ClientGone`), the cleanup goroutine, and time. Last-seen
times and waits are kept as ages, because the code only compares differences.
A request's `client` and `seen` (how long ago it was recorded) are history: the
code keeps neither and no step depends on them; properties do.
Different IDs share nothing but map locks.

**InitRequest** is which streams `POST /init` creates: the handler's and
`Store.Init`'s checks over Go's int with its wrap-around, as operators on a
request and an environment, and what the limits mean in integers (`Documented`).
It has no state: Process answers the requests (`InitStatus`), and
`InitMeansWhatItSays` compares the answers of a process that has just started
with the limits. Headers whose check combines nothing are left out.

**Process** puts StreamStore into `main`: `Signal` (SIGINT, SIGTERM), each
server's `ShutdownReturns`, `MainReturns`, the `Watchdog`, `ListenFails`, and
the cleanup goroutine until it sees the context done. `http.Server.Shutdown` is
external: it takes no new request and returns when none is in progress or its
context expires, and then leaves the rest running until the process ends.

**ClientAddress** is `TrustedRealIP` over a chain of addresses; StreamStore's
`Admit` sends every request through it. How proxies build the chain (`Arrival`)
is external: one `X-Forwarded-For` line, to which each proxy appends its peer.

**ViewerAccess** is who may fetch what, on streams with a viewer key and on
streams without one (`NoKey`), which are open to all and refuse grants. A token is its signing key and expiry minute: an HMAC verifies
under exactly the key it was made with. Viewers pool every token they see
(`known`). `Restart` forgets the playlists and may change, add or remove keys.
The endpoint's differences of int64 wrap around.
`MsPerMinute`, the TTLs and `MaxUint32` are constants, small in the runs;
`MaxUint32` is the least with which the expiries of the run's playlists fit.

## Runs

Passing runs finish in less than three minutes each with two workers.

| Run | Configuration | Shows |
|---|---|---|
| `buffer` | `MCStream` | two uploads, two fetches, two generations: `TypeOK`, `SlotPartition`, `NoReadAfterRecycle`, `NoPanic`, `Ordered`, `GenerationMonotone`, `WindowRetained`, the inductive invariant `IInv`, and `SliceMatches`; the clock may be set back at any moment |
| `buffer_live` | `MCStreamLive` | `UploadsResume`: with working space, pushers that retry get in again |
| `buffer_no_working_space` | `MCStreamNoWorkingSpace` | `UploadsResume` fails with `workingSpace = 0` (finding) |
| `renderer` | `MCPlayback` | one generation, any order of uploads: `WellFormedPlaylist`, `RenderMatches`, `NoLostWakeup`, `AnnouncedPlaylistServed`, `FullWindowAdvances`, `StickyOffsetKept`, `ListedTokensLive` |
| `renderer_live` | `MCLiveLive` | two generations: `PlaylistConverges`, `KeepsLifePromise`, `PublishedSegmentStable`, `ImplementsLife` |
| `renderer_dropped` | `MCLiveDropped` | `DroppedNotListed` fails (finding) |
| `renderer_tail` | `MCLiveTail` | `TailNeverRetreats` fails (finding) |
| `store` | `MCProcess` | two admins, two requests, a signal at any moment: `OneLiveStream`, `NoDoubleClose`, `TrackerBounded`, `SteadyViewerKept`, `CutOffLate`; and, in its initial state, `InitMeansWhatItSays` |
| `store_late_untrack` | `MCStreamStoreUntracked` | `FetchStaysCounted` fails (finding) |
| `store_phantom` | `MCStreamStorePhantom` | `NoPhantomWatchers` fails (finding) |
| `store_live` | `MCStreamStoreLive` | `CountedAsSelf`, `PollAnswered`, `DeletedPollReleased`, `NoRendererLeak`, `DeleteReturns`, `PhantomsExpire` |
| `viewer_access` | `MCViewerAccess` | two streams, two secrets they may share, or none: `PlaylistAccess`, `ReplayBounded`, `FreshPlaylistFetchable`, `GrantLifetime`, `URIsStable` |

`NoLostWakeup`, `AnnouncedPlaylistServed`, `FullWindowAdvances` and
`PlaylistConverges` are stated until the encoder restarts (`OneGeneration`, `currentGeneration = 0`), because a
refused commit of a newer generation may change the list without a
notification: that is the finding of `renderer_dropped`. `FullWindowAdvances`
speaks of full windows only, because of the finding of `renderer_tail`.

`ListedTokensLive` is stated for an encoder that is steady (`SteadyFeed`: each
segment within a target duration of the last, up to the present) and a sleeping
renderer: when uploads stop, the last playlist stays, and its tokens do expire.

`SteadyViewerKept` says of a client that is counted that it stays counted for a
whole window after its last recorded fetch: the ceiling, the cleanup and other
clients cannot cost it its place. It excepts the step in which a `DELETE` untracks
the ID, since a deleted stream has no viewers. That step may come late, when the
ID has a new stream and the client is waiting for its playlist: what is then lost
is stated by `FetchStaysCounted`, which has no exception, and fails.

### Bounds

- Stream: capacity 3, backward limit 2, window 2 and one slot of working space
  are the least with which eviction leaves two backward segments, a gap can
  open inside the window, a reader can stop an eviction half-way and a parked
  buffer can starve an upload. The clock stops at `MaxNow`, late enough for
  three segments to be past, which starts eviction.
- LiveStream: one upload handler; commits are critical sections, so a second
  one adds no state the renderer can see. The look-ahead and the future limit
  leave room for segments that are eligible early and for some that are not.
- Playback: the largest look-ahead that the ceiling allows, the longest window
  that the span allows, slack and margins of one unit, so that one unit less in
  any of them is an error that the run sees; a clock long enough for evictions
  to overtake a render that has read it.
- InitRequest: an int of seven bits, with which every sum and product that can
  wrap around in the code does; requests at, next to and far beyond each limit,
  in every combination (about 200,000, with 20 environments).
- LiveStream's liveness: capacity 2 and a window of one, with one slot of working
  space, because liveness is checked without symmetry. That windows which mix two
  generations are well formed and are cut as the sets say is not in a run, but
  proved (`PlaylistsWellFormed`, `RendersMatch`).
- Process: the watchdog two ticks after the signal, the servers' grace one less.
- StreamStore: two objects under the ID (a stream and its successor), two push
  API requests (an overlap), up to two viewer requests and two addresses, a
  ceiling of one address (reached) or two (not reached), a window and a
  deadline of one tick, with ages up to one more; chains of up to two claimed
  entries (malformed and proxies' ones among them) and up to two trusted hops.
  `MaxStreams` bounds re-creation.
- ViewerAccess: a minute of two ticks, so that truncation matters; an init
  bucket that is not a multiple of it; an int64 of six bits; its smallest value,
  whose difference to the clock wraps around, and its largest, too large to
  encode, an unaligned expiry and a long one. One grant and two playlist fetches are enough
  for a viewer to come back with what it has collected and for a token to cross
  streams; the segment's time is a minute and a half after the start, so that it
  can be rendered before, at and after that. `MaxNow` is past the last token's
  expiry.
- Deadlock is checked in every run: the systems never stop while their
  bounds allow a step. A process that has ended stutters (`Ended`).

### Fairness

- `buffer_live`: handlers and fetches go on and time passes. A pusher that is
  answered 503 retries (README: `Retry-After`), so acquisition is fair when a
  slot is there; nothing makes any particular commit succeed.
- `renderer_live`: the goroutine is scheduled and time passes. Nobody has to
  upload or delete. A Go select chooses among ready cases at random; the model
  needs no such luck because notifications are finite between clock ticks.
- `store_live`: handlers that began go on, renderers keep StreamLife's promise
  (checked as `KeepsLifePromise` on LiveStream), time passes and the cleanup
  ticker (`main.go:90-101`) fires. Nobody has to send requests and clients never
  have to disconnect. The long-poll's deadline is not among the assumptions, so
  `DeletedPollReleased` holds without its help; `PollAnswered` states it as its
  own premise, because a poll on a stream without segments has nothing else to
  end it.

## Proofs

What is proved holds for every value of the constants that satisfies the
assumption named in the module that declares them (`ConstantsAssumption`,
`PlaybackAssumption`, ...): any number of uploads and requests, a finite number
of slots and fetches, any indices, timestamps, generations, keys, grants, and
any width of an int. Every theorem of a specification rests on an inductive
invariant; none of the safety properties is inductive alone.

**StreamProofs**: `InvariantHolds`, which is `Spec => []IInv`, and from it
`TypeCorrect`, `BuffersHaveOneOwner`, `ReadersKeepTheirBuffer`,
`PoolChecksHold`, `OrderKept`, `GenerationsKept`, and the action property
`WindowKept`. `NoReadAfterRecycle` needs to know that a buffer with a reader is
in a segment or parked (`ReadersMatch`) and that its reader count is the number
of fetches reading it, otherwise the `Readers() > 0` tests of eviction, drop and
sweep say nothing. `NoPanic` needs that and `SlotPartition` with `HandlersOwn`,
since every check of the pool is about who owns a slot. `Ordered` lets the
checks against two neighbours stand for all segments, and `GenerationMonotone`
needs the drop at and after the insertion point together with the rejection of
stale generations. `IInv` is their conjunction. The commit is split into lemmas
about its parts: the arithmetic of eviction (`EvictionBeyondWindow`), what moves
between the slot sets (`ReclaimMoves`, `CommitPartition`), why two neighbours
suffice (`NeighboursSuffice`), which generations survive (`KeptGeneration`), and
the reader counts (`CommitReaders`).

**LiveStreamProofs**: composition with the renderer keeps the buffer's invariant
(`LiveInvariantHolds`), and LiveStream implements StreamLife
(`LifeImplemented`). Then what the renderer publishes, along five invariants:

- `FormInv`: what is rendered is a run of indices (`WindowIsRun`,
  `SnapshotWellFormed`), which gives `PlaylistsWellFormed` on any clock.
- `WakeInv`: from the render to the end of the sleep, with no notification
  pending, a render would give the same until the next segment is due
  (`Fresh`). It holds because a commit either notifies or, with one generation,
  only evicts, and eviction takes nothing that a render would list
  (`EvictionKeepsSnapshot`). It gives `NoWakeupLost`.
- `ReachInv`: nothing published is beyond the look-ahead.
- `TraceInv`: a listed segment is still in the buffer, superseded by a newer
  generation, or evicted for good (`Traced`): with a later segment of the past
  in the buffer, nothing is accepted before it again (`EvadedKept`). So a render
  changes no listed segment (`RenderFollows`) and moves a full window forward
  (`RenderAdvances`): `PublishedSegmentsStable`, `FullWindowsAdvance`.
- `ServedInv`: once there is something to list, there always is:
  `WaitersAreServed`.

All but `FormInv` are for a clock that is not set back (`~ClockStepsBack`), as
the properties are; a clock set back un-publishes segments. The proof of
`FullWindowsAdvance` corrected the property: between the clock reading and the
lock (`playlist.go:330`), commits may evict all that is within the look-ahead of
that reading, and the renderer then publishes nil over a full window; viewers
get 503 until the next render (`routes/stream.go:239`). The properties now say
exactly when that may be, and `renderer` has a configuration in which it is.

**PlaybackProofs**: `StickyOffsetsKept` from `ReachInv` and the limits of
`POST /init` and `POST /segment`; `ListedTokensStayLive` from `WakeInv`, by
counting the segments from a listed one to the present (`SteadySpan`).

**StreamStoreProofs**: `StoreInvariantHolds`, and from it `StoreTypeCorrect`,
`OneObjectLives`, `ClosedOnce`, `ClientsCountedAsSelf`, `TrackerStaysBounded`,
and the action property `SteadyViewersKept`. `StoreInv` says which objects exist,
that the one in the map is not marked done and that a handler launches the
renderer of an object it created (`ObjectsInv`); that a request in progress is a
client's and counted as that client (`CallersInv`); what the tracker may hold
(`WatchersInv`); and that an entry is no older than the record of any request it
stands for (`RefreshedInv`). `SteadyViewersKept` needs the last one, with what
each step does to entries that are still within a window (`WatchedStay`): the
cleanup goes by the entry's age, the viewer by its own last fetch.

**ProcessProofs**: `ProcessImplementsStore`: the process, whose signal may come
at any moment, takes only steps of the store, so the store's theorems hold of it
(`ProcessStoreInvariant`). `RequestsCutOffLate` is `CutOffLate` from an
invariant on how the graces of the servers and the watchdog's time relate.

**InitRequestProofs**: `InitChecksMeanTheirLimits`, which is what
`InitMeansWhatItSays` says of the checks themselves: those of `POST /init` and
`Store.Init`, over an int that wraps around, accept exactly what the limits say
in unbounded integers, for every width of the int. It rests on arithmetic alone.

**ViewerAccessProofs**: `AccessInvariantHolds`, and from it `AccessTypeCorrect`,
`PlaylistsOpenToGrants`, `NoReplayPastGrants`, `GrantsWithinLimits`,
`FreshPlaylistsFetchable` and the action property `URIsStayStable`. `AccessInv`
says which grants exist, what a playlist was baked with, and that every token
viewers know was granted or baked (`KnownInv`), within a bounded time of a grant
under the same key. `FreshPlaylistsFetchable` has the hypothesis `ExpiriesFit`,
that expiries fit 32 bits of minutes while the clock runs (until about the year
10000): past that, the minter bakes no token. The run's configuration is just
within it.

**SliceProofs**: `SlicesMatch` and `RendersMatch`: on lists of any length, the
positions that the code computes are the sets that Stream and LiveStream speak
of. The loops are recursive functions, of which TLA+ says only that they are
some solution of their equation. So each is shown to have a solution, written
down (`SearchFinds`) or built turn by turn (`PassExists`), and every solution is
shown to be right, by looking at the least argument at which one would go wrong
(`PassSound`). A set of segments has one list (`ListedLists`, `ListIsListed`), in
which positions are ranks (`Ranks`, `PositionsAreRanks`); so a binary search
splits the list where the set is split (`InsertionPointSeparates`,
`EligibleCountSeparates`), the eviction's cut and the write-cursor pass leave
the list of the segments kept (`EvictedLists`, `DroppedLists`), the checks
against the two neighbours refuse what the sets refuse (`RefusedMatches`), and
the insertion lists one segment more (`InsertedLists`); together,
`CommitMatches`. For the render, `TailLists` and `RunIsGated` give
`WindowMatches`. `TimesSorted` is where `Ordered` is needed: the code searches by
timestamp a list that is sorted by index.

Only model-checked: all liveness, because fairness and ENABLED are beyond the
proof system. Every invariant and every action property of the passing runs is
proved; for `InitMeansWhatItSays` it is the statement about the checks that is,
since which state the process starts in adds nothing to it.

## Findings

Five places where the code and what it says of itself differ; each has a run
that exhibits it, quoted in `PROJECT.json`.

1. `workingSpace = 0` is accepted, and a full buffer then refuses every upload
   for good (`stream.go:437`).
2. A commit that is refused for an order violation may have dropped stale
   segments, and wakes nobody: the playlist lists segments that answer 404 until
   the next wake-up.
3. Before the window is full, a late segment below its head makes the gap gate
   cut off segments already published; the tail goes back.
4. A deletion between RecordWatcher's check and its record leaves a phantom.
5. The end of a `DELETE` untracks the ID, which may have a new stream by then: its
   clients are forgotten until their next fetch.

## Not modelled

- Playlist text and headers; the headers of `POST /init` and `POST /segment`
  that no check combines with another; push-token authentication, one stateless
  comparison; the parsing of addresses and of the environment; request logging.
- net/http's connections and timeouts, beyond what `main` does with `Shutdown`.
- A wall clock that is set back under the renderer, and one that is set forward
  while the renderer sleeps on its monotonic timer: LiveStream, StreamStore and
  ViewerAccess have one clock that only advances.
- Uploads after a deletion: a handler that holds the object of a deleted stream
  commits into it and answers 201. Nothing in the code says otherwise, and the
  buffer's properties hold for such an object as for any other.
- The mock clock of `pkg/clock`, which only tests use.

## Plan

1. An abstract segment library (publish, read, retire; no slots) that Stream
   implements by hiding the pool, as a further refinement.
2. A renderer under a clock that is set back or forward.
