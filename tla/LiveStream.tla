------------------------------ MODULE LiveStream ------------------------------
(***************************************************************************)
(* A stream with its renderer goroutine (pkg/stream/playlist.go,           *)
(* runPlaylistRenderer): commits wake it through notifyCh, a timer wakes   *)
(* it when the next segment crosses the look-ahead, Store.Delete stops it  *)
(* by closing done.  What it publishes is the cached playlist snapshot.    *)
(*                                                                         *)
(* A snapshot is the function index -> [ts, gen] of the segments it lists; *)
(* the empty function is the nil snapshot.  The renderer reads the clock,  *)
(* the buffer, and the clock again in separate steps, between which        *)
(* commits and clock ticks may fall.  What it keeps in the locals of one   *)
(* turn of the loop is forgotten after its last use.                       *)
(***************************************************************************)
EXTENDS Stream

VARIABLES
    renderer,     \* where the goroutine is in its loop
    nowMs,        \* the clock as read at the top of the loop
    snap,         \* the snapshot just rendered
    nextEligible, \* timestamp of the first segment past the look-ahead, or 0
    wakeAt,       \* when the armed timer fires, or Never
    cachedPlaylist,
    hasPlaylist,  \* the channel is closed
    done          \* Store.Delete has closed the channel

rendererVars ==
    <<renderer, nowMs, snap, nextEligible, wakeAt, cachedPlaylist, hasPlaylist, done>>

streamVars == <<now, bufferVars, handlerVars, panicked>>

liveVars == <<vars, rendererVars>>

\* A time the clock never reaches: no timer is armed.
Never == MaxNow + MaxFutureTimestampMs + 1

NoPlaylist == [i \in {} |-> 0]

-------------------------------------------------------------------------------
(* renderPlaylistCache *)

EligibleAt(t) == {i \in DOMAIN segments : segments[i].ts <= t + MaxLookaheadMs}

\* Mutant: the gate comes before the window, so it cuts at the oldest gap.
WindowGatedFirst(t) ==
    LET run == {i \in EligibleAt(t) : \A j \in EligibleAt(t) : j <= i => j..i \subseteq EligibleAt(t)}
    IN  {i \in run : Cardinality({j \in run : j >= i}) <= PlaylistWindowSize}

\* Mutant: no contiguity gate.
WindowUngated(t) ==
    {i \in EligibleAt(t) : Cardinality({j \in EligibleAt(t) : j >= i}) <= PlaylistWindowSize}

\* The last PlaylistWindowSize eligible segments, cut at the first index gap.
WindowAt(t) ==
    LET last == {i \in EligibleAt(t) :
                    Cardinality({j \in EligibleAt(t) : j >= i}) <= PlaylistWindowSize}
    IN  {i \in last : \A j \in last : j <= i => j..i \subseteq last}

SnapshotAt(t) ==
    [i \in WindowAt(t) |-> [ts |-> segments[i].ts, gen |-> segments[i].gen]]

\* Timestamp of the first segment beyond the look-ahead, 0 if there is none.
NextEligibleAt(t) ==
    LET later == {segments[i].ts : i \in DOMAIN segments \ EligibleAt(t)}
    IN  IF later = {} THEN 0 ELSE CHOOSE x \in later : \A y \in later : x <= y

-------------------------------------------------------------------------------
LiveInit ==
    /\ Init
    /\ renderer = "clock"
    /\ nowMs = 0
    /\ snap = NoPlaylist
    /\ nextEligible = 0
    /\ wakeAt = Never
    /\ cachedPlaylist = NoPlaylist
    /\ hasPlaylist = FALSE
    /\ done = FALSE

\* Mutant: the look-ahead is added to the clock here and again by the render.
ReadClockAhead ==
    /\ renderer = "clock"
    /\ renderer' = "render"
    /\ nowMs' = now + MaxLookaheadMs
    /\ UNCHANGED <<streamVars, notifyCh, snap, nextEligible, wakeAt, cachedPlaylist,
                   hasPlaylist, done>>

\* Top of the loop: read the clock, before taking the lock.
ReadClock ==
    /\ renderer = "clock"
    /\ renderer' = "render"
    /\ nowMs' = now
    /\ UNCHANGED <<streamVars, notifyCh, snap, nextEligible, wakeAt, cachedPlaylist,
                   hasPlaylist, done>>

\* Render under the read lock.
Render ==
    /\ renderer = "render"
    /\ renderer' = "store"
    /\ snap' = SnapshotAt(nowMs)
    /\ nextEligible' = NextEligibleAt(nowMs)
    /\ nowMs' = 0
    /\ UNCHANGED <<streamVars, notifyCh, wakeAt, cachedPlaylist, hasPlaylist, done>>

\* Publish the snapshot, nil included.
StoreSnapshot ==
    /\ renderer = "store"
    /\ renderer' = "announce"
    /\ cachedPlaylist' = snap
    /\ UNCHANGED <<streamVars, notifyCh, nowMs, snap, nextEligible, wakeAt, hasPlaylist, done>>

\* Mutant: the nil snapshot closes hasPlaylist too.
AnnounceAny ==
    /\ renderer = "announce"
    /\ renderer' = "arm"
    /\ hasPlaylist' = TRUE
    /\ snap' = NoPlaylist
    /\ UNCHANGED <<streamVars, notifyCh, nowMs, nextEligible, wakeAt, cachedPlaylist, done>>

\* The first snapshot that is not nil closes hasPlaylist.
Announce ==
    /\ renderer = "announce"
    /\ renderer' = "arm"
    /\ hasPlaylist' = (hasPlaylist \/ snap # NoPlaylist)
    /\ snap' = NoPlaylist
    /\ UNCHANGED <<streamVars, notifyCh, nowMs, nextEligible, wakeAt, cachedPlaylist, done>>

\* Mutant: sleep until the next segment's timestamp, not until it crosses the
\* look-ahead.
ArmAtTimestamp ==
    /\ renderer = "arm"
    /\ renderer' = "wait"
    /\ wakeAt' = IF nextEligible > 0 THEN nextEligible ELSE Never
    /\ nextEligible' = 0
    /\ UNCHANGED <<streamVars, notifyCh, nowMs, snap, cachedPlaylist, hasPlaylist, done>>

\* Read the clock again and decide how long to sleep: until the next segment
\* crosses the look-ahead, for minRenderInterval (shorter than the model's
\* time unit) when it already has, or for a commit when there is none.
\* sleepForMs's cap is above MaxFutureTimestampMs and never shortens a sleep.
Arm ==
    /\ renderer = "arm"
    /\ LET due == nextEligible - MaxLookaheadMs
       IN  \/ /\ nextEligible > 0 /\ due <= now
              /\ renderer' = "shortWait" /\ wakeAt' = now
           \/ /\ nextEligible > 0 /\ due > now
              /\ renderer' = "wait" /\ wakeAt' = due
           \/ /\ nextEligible = 0
              /\ renderer' = "wait" /\ wakeAt' = Never
    /\ nextEligible' = 0
    /\ UNCHANGED <<streamVars, notifyCh, nowMs, snap, cachedPlaylist, hasPlaylist, done>>

\* The timer case or the notifyCh case of the select.  The short wait goes
\* straight back to the top of the loop, the other one by way of the drain.
Wake ==
    /\ \/ renderer = "wait" /\ renderer' = "drain"
       \/ renderer = "shortWait" /\ renderer' = "clock"
    /\ \/ wakeAt <= now /\ UNCHANGED notifyCh
       \/ notifyCh /\ notifyCh' = FALSE
    /\ wakeAt' = Never
    /\ UNCHANGED <<streamVars, nowMs, snap, nextEligible, cachedPlaylist, hasPlaylist, done>>

\* Mutant: the select without a timer does not watch done.
StopTimed ==
    /\ renderer \in {"wait", "shortWait"} /\ wakeAt # Never
    /\ done
    /\ renderer' = "stopped"
    /\ wakeAt' = Never
    /\ UNCHANGED <<streamVars, notifyCh, nowMs, snap, nextEligible, cachedPlaylist,
                   hasPlaylist, done>>

\* The done case of the select: the goroutine returns, closing stopped.
Stop ==
    /\ renderer \in {"wait", "shortWait"}
    /\ done
    /\ renderer' = "stopped"
    /\ wakeAt' = Never
    /\ UNCHANGED <<streamVars, notifyCh, nowMs, snap, nextEligible, cachedPlaylist,
                   hasPlaylist, done>>

\* Mutant: after the drain the loop goes back to sleep without rendering.
DrainOnly ==
    /\ renderer = "drain"
    /\ renderer' = "arm"
    /\ notifyCh' = FALSE
    /\ UNCHANGED <<streamVars, nowMs, snap, nextEligible, wakeAt, cachedPlaylist,
                   hasPlaylist, done>>

\* Swallow a notification that came in meanwhile; the loop renders next anyway.
Drain ==
    /\ renderer = "drain"
    /\ renderer' = "clock"
    /\ notifyCh' = FALSE
    /\ UNCHANGED <<streamVars, nowMs, snap, nextEligible, wakeAt, cachedPlaylist,
                   hasPlaylist, done>>

\* Store.Delete closes done; it returns once the renderer has stopped.
CloseDone ==
    /\ ~done
    /\ done' = TRUE
    /\ UNCHANGED <<streamVars, notifyCh, renderer, nowMs, snap, nextEligible, wakeAt,
                   cachedPlaylist, hasPlaylist>>

Loop == ReadClock \/ Render \/ StoreSnapshot \/ Announce \/ Arm \/ Wake \/ Stop \/ Drain

LiveNext ==
    \/ Next /\ UNCHANGED rendererVars
    \/ ~panicked /\ (Loop \/ CloseDone)

LiveSpec == LiveInit /\ [][LiveNext]_liveVars

\* The scheduler runs the goroutine and time passes.  Nothing obliges anyone
\* to upload or to delete the stream.
FairLiveSpec == LiveSpec /\ WF_liveVars(~panicked /\ Loop) /\ WF_liveVars(~panicked /\ Tick /\ UNCHANGED rendererVars)

-------------------------------------------------------------------------------
\* The renderer sleeps and nothing it waits for has happened.
Asleep == renderer = "wait" /\ ~notifyCh /\ wakeAt > now

\* Only one encoding generation has been seen so far.
OneGeneration == currentGeneration = 0

\* No wake-up is ever lost: while the renderer sleeps, the cached playlist is
\* the one a render would produce this instant, until the encoder restarts.
NoLostWakeup == Asleep /\ OneGeneration => cachedPlaylist = SnapshotAt(now)

\* A waiter released by hasPlaylist finds a snapshot or, if evictions overtook
\* the render of the last one, will: there is always something to list, and a
\* sleeping renderer has listed it, until the encoder restarts.
AnnouncedPlaylistServed ==
    hasPlaylist /\ OneGeneration =>
        /\ SnapshotAt(now) # NoPlaylist
        /\ Asleep => cachedPlaylist # NoPlaylist

FirstOf(p) == CHOOSE i \in DOMAIN p : \A j \in DOMAIN p : i <= j
LastOf(p) == CHOOSE i \in DOMAIN p : \A j \in DOMAIN p : i >= j

\* Once a full window has been published, neither EXT-X-MEDIA-SEQUENCE nor the
\* tail of the playlist goes back, whatever the order uploads arrive in, until
\* the encoder restarts.  Only a render that evictions overtook, after all that
\* was listed has left the buffer, empties it.
FullWindowAdvances ==
    [][OneGeneration /\ Cardinality(DOMAIN cachedPlaylist) = PlaylistWindowSize =>
          \/ /\ cachedPlaylist' = NoPlaylist
             /\ DOMAIN cachedPlaylist \cap DOMAIN segments = {}
          \/ /\ cachedPlaylist' # NoPlaylist
             /\ FirstOf(cachedPlaylist') >= FirstOf(cachedPlaylist)
             /\ LastOf(cachedPlaylist') >= LastOf(cachedPlaylist)]_cachedPlaylist

\* An index listed by two successive playlists is the same segment in both
\* unless a newer generation has replaced it: the time (and so the URI, whose
\* token is derived from it) of a published segment never changes.
PublishedSegmentStable ==
    [][\A i \in DOMAIN cachedPlaylist \cap DOMAIN cachedPlaylist' :
          \/ cachedPlaylist'[i] = cachedPlaylist[i]
          \/ cachedPlaylist'[i].gen > cachedPlaylist[i].gen]_cachedPlaylist

\* Every playlist lists an unbroken run of at most PlaylistWindowSize indices
\* in time order, so MEDIA-SEQUENCE plus position names each segment.
WellFormedPlaylist ==
    LET p == cachedPlaylist IN
    /\ Cardinality(DOMAIN p) <= PlaylistWindowSize
    /\ p # NoPlaylist => DOMAIN p = FirstOf(p)..LastOf(p)
    /\ \A i, j \in DOMAIN p : i < j => p[i].ts < p[j].ts

\* The cached playlist catches up with the buffer and the clock again and
\* again until the stream is deleted or the encoder restarts: after that, a
\* refused commit may change the list and wake nobody (DroppedNotListed).
PlaylistConverges ==
    []<>(done \/ ~OneGeneration \/ cachedPlaylist = SnapshotAt(now))

Life == INSTANCE StreamLife WITH
    snapshot <- cachedPlaylist # NoPlaylist,
    published <- hasPlaylist,
    stopped <- renderer = "stopped"

\* The renderer and the buffer together implement a stream's life: hasPlaylist
\* is closed only over a cached snapshot, and the goroutine stops only after
\* done and never with a snapshot unannounced.
ImplementsLife == Life!Spec

\* Store.Delete returns, and every first snapshot is announced.
KeepsLifePromise == Life!Promise

\* "it must not be served or listed again": while the renderer sleeps, the
\* playlist lists no segment that a newer generation dropped from the buffer.
DroppedNotListed ==
    Asleep => \A i \in DOMAIN cachedPlaylist :
        i \in DOMAIN segments /\ segments[i].gen = cachedPlaylist[i].gen

\* "new entries append-only ... the tail stays where it is until the missing
\* index arrives": the tail of the published playlist never goes back.
TailNeverRetreats ==
    [][cachedPlaylist # NoPlaylist /\ cachedPlaylist' # NoPlaylist =>
          LastOf(cachedPlaylist') >= LastOf(cachedPlaylist)]_cachedPlaylist

===============================================================================
