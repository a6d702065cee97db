----------------------------- MODULE StreamStore ------------------------------
(***************************************************************************)
(* One stream ID as the push API and the viewers share it: Store.Init and  *)
(* Store.Delete create and remove Stream objects under it, each with a     *)
(* renderer goroutine; viewer requests pass the RecordWatcher middleware,  *)
(* look the stream up and, for media.m3u8, wait on its channels; the       *)
(* watcher tracker counts client addresses (pkg/stream/stream.go,          *)
(* pkg/routes, pkg/middleware/watcher.go, pkg/watcher).                    *)
(*                                                                         *)
(* IDs share no state but the maps' locks, so one is enough.  A step is    *)
(* one critical section of Store.mu or Tracker.mu, or one step of a        *)
(* goroutine between them.  Times are ages that a tick advances: the code  *)
(* compares nothing else.  A Stream object's inner life is StreamLife.     *)
(***************************************************************************)
EXTENDS Integers, FiniteSets, ClientAddress

CONSTANTS
    Admins,           \* concurrent push API requests: POST /init and DELETE
    Requests,         \* concurrent viewer requests
    MaxStreams,       \* bound: how many Stream objects are ever created
    MaxIPsPerStream,  \* watcher.MaxIPsPerStream
    MaxWindowMs,      \* watcher.MaxWindowMs, in ticks
    RequestTimeout    \* config.REQUEST_TIMEOUT, in ticks

ASSUME StoreAssumption ==
    /\ IsFiniteSet(IPs)
    /\ MaxStreams \in Nat /\ MaxIPsPerStream \in Nat \ {0}
    /\ MaxWindowMs \in Nat /\ RequestTimeout \in Nat \ {0}

VARIABLES
    streams,    \* the Stream object under the ID, by its creation number, or None
    created,    \* how many have been created
    running,    \* objects whose renderer goroutine has been launched
    snapshot,   \* objects with a cached playlist
    published,  \* objects whose hasPlaylist is closed
    done,       \* objects whose done is closed
    stopped,    \* objects whose stopped is closed
    panicked,   \* a channel was closed twice
    admin,      \* where each push API request is, and with which object
    request,    \* where each viewer request is
    ips         \* the tracker's entry: address -> age of its last-seen time

lifeOfStreams == <<snapshot, published, done, stopped>>
storeVars == <<streams, created, running, panicked, admin>>
vars == <<storeVars, lifeOfStreams, request, ips>>

None == 0
Streams == 1..MaxStreams
NoEntry == [ip \in {} |-> 0]
NotSeen == -1
NoRequest == [pc |-> "idle", client |-> NoAddress, ip |-> NoAddress, seen |-> NotSeen,
              stream |-> None, waited |-> 0]

Older(age, bound) == IF age < bound THEN age + 1 ELSE bound

-------------------------------------------------------------------------------
(* pkg/watcher *)

\* Mutant: Record has no ceiling.
RecordedAlways(ip) ==
    [a \in DOMAIN ips \cup {ip} |-> IF a = ip THEN 0 ELSE ips[a]]

\* Mutant: at the ceiling nobody is recorded.
RecordedBelow(ip) ==
    IF Cardinality(DOMAIN ips) >= MaxIPsPerStream
    THEN ips
    ELSE [a \in DOMAIN ips \cup {ip} |-> IF a = ip THEN 0 ELSE ips[a]]

\* The entry after Record(ip): at the ceiling a new address is dropped, a
\* known one is refreshed.
Recorded(ip) ==
    IF ip \notin DOMAIN ips /\ Cardinality(DOMAIN ips) >= MaxIPsPerStream
    THEN ips
    ELSE [a \in DOMAIN ips \cup {ip} |-> IF a = ip THEN 0 ELSE ips[a]]

\* The addresses last seen within a window, its end included.
Watchers(windowMs) == {ip \in DOMAIN ips : ips[ip] <= windowMs}

\* ActiveCount: a window is cut to MaxWindowMs.
ActiveCount(windowMs) ==
    Cardinality(Watchers(IF windowMs > MaxWindowMs THEN MaxWindowMs ELSE windowMs))

\* Mutant: Cleanup leaves the last address of an entry.
CleanupAllButOne ==
    /\ Cardinality(DOMAIN ips) > 1
    /\ ips' = [ip \in Watchers(MaxWindowMs) |-> ips[ip]]
    /\ UNCHANGED <<storeVars, lifeOfStreams, request>>

\* The background goroutine purges what is older than any window.
Cleanup ==
    /\ ips' = [ip \in Watchers(MaxWindowMs) |-> ips[ip]]
    /\ UNCHANGED <<storeVars, lifeOfStreams, request>>

-------------------------------------------------------------------------------
Init ==
    /\ streams = None /\ created = 0 /\ running = {}
    /\ snapshot = {} /\ published = {} /\ done = {} /\ stopped = {}
    /\ panicked = FALSE
    /\ admin = [a \in Admins |-> [pc |-> "idle", stream |-> None]]
    /\ request = [r \in Requests |-> NoRequest]
    /\ ips = NoEntry

\* Mutant: Store.Init replaces a stream that exists.
InitOver(a) ==
    /\ admin[a].pc = "idle"
    /\ created < MaxStreams
    /\ created' = created + 1
    /\ streams' = created + 1
    /\ admin' = [admin EXCEPT ![a] = [pc |-> "launch", stream |-> created + 1]]
    /\ UNCHANGED <<running, panicked, lifeOfStreams, request, ips>>

\* Store.Init up to the unlock.  If the ID is taken it changes nothing.
InitStream(a) ==
    /\ admin[a].pc = "idle"
    /\ streams = None
    /\ created < MaxStreams
    /\ created' = created + 1
    /\ streams' = created + 1
    /\ admin' = [admin EXCEPT ![a] = [pc |-> "launch", stream |-> created + 1]]
    /\ UNCHANGED <<running, panicked, lifeOfStreams, request, ips>>

\* Mutant: no renderer for a stream that has been deleted since the unlock.
LaunchPresent(a) ==
    /\ admin[a].pc = "launch"
    /\ running' = running \cup ({admin[a].stream} \cap {streams})
    /\ admin' = [admin EXCEPT ![a] = [pc |-> "idle", stream |-> None]]
    /\ UNCHANGED <<streams, created, panicked, lifeOfStreams, request, ips>>

\* The go statement after the unlock.
Launch(a) ==
    /\ admin[a].pc = "launch"
    /\ running' = running \cup {admin[a].stream}
    /\ admin' = [admin EXCEPT ![a] = [pc |-> "idle", stream |-> None]]
    /\ UNCHANGED <<streams, created, panicked, lifeOfStreams, request, ips>>

\* Mutant: the stream stays in the map while its renderer stops.
DeleteLate(a) ==
    /\ admin[a].pc = "idle"
    /\ streams # None
    /\ panicked' = (streams \in done)
    /\ done' = done \cup {streams}
    /\ admin' = [admin EXCEPT ![a] = [pc |-> "await", stream |-> streams]]
    /\ UNCHANGED <<streams, created, running, snapshot, published, stopped, request, ips>>

\* Mutant: done is not closed.
DeleteSilently(a) ==
    /\ admin[a].pc = "idle"
    /\ streams # None
    /\ streams' = None
    /\ admin' = [admin EXCEPT ![a] = [pc |-> "await", stream |-> streams]]
    /\ UNCHANGED <<created, running, panicked, lifeOfStreams, request, ips>>

\* Mutant: a stream that does not exist is not refused.
DeleteAbsent(a) ==
    /\ admin[a].pc = "idle"
    /\ done' = done \cup {streams}
    /\ streams' = None
    /\ admin' = [admin EXCEPT ![a] = [pc |-> "await", stream |-> streams]]
    /\ UNCHANGED <<created, running, panicked, snapshot, published, stopped, request, ips>>

\* Store.Delete's critical section.  With no stream it answers 404.
DeleteStream(a) ==
    /\ admin[a].pc = "idle"
    /\ streams # None
    /\ panicked' = (streams \in done)
    /\ done' = done \cup {streams}
    /\ streams' = None
    /\ admin' = [admin EXCEPT ![a] = [pc |-> "await", stream |-> streams]]
    /\ UNCHANGED <<created, running, snapshot, published, stopped, request, ips>>

\* Store.Delete has seen stopped closed and returns to the DELETE handler.
DeleteReturn(a) ==
    /\ admin[a].pc = "await"
    /\ admin[a].stream \in stopped
    /\ admin' = [admin EXCEPT ![a].pc = "untrack"]
    /\ UNCHANGED <<streams, created, running, panicked, lifeOfStreams, request, ips>>

\* The handler's tracker.DeleteStream.
Untrack(a) ==
    /\ admin[a].pc = "untrack"
    /\ ips' = NoEntry
    /\ admin' = [admin EXCEPT ![a] = [pc |-> "idle", stream |-> None]]
    /\ UNCHANGED <<streams, created, running, panicked, lifeOfStreams, request>>

-------------------------------------------------------------------------------
(* The renderer of object k: StreamLife's steps, which LiveStream implements. *)

StoreSnapshot(k) ==
    /\ k \in running \ stopped
    /\ k \in snapshot => k \in published
    /\ snapshot' \in {snapshot \cup {k}, snapshot \ {k}}
    /\ UNCHANGED <<storeVars, published, done, stopped, request, ips>>

Announce(k) ==
    /\ k \in (running \cap snapshot) \ (published \cup stopped)
    /\ published' = published \cup {k}
    /\ UNCHANGED <<storeVars, snapshot, done, stopped, request, ips>>

StopRenderer(k) ==
    /\ k \in (running \cap done) \ stopped
    /\ k \in snapshot => k \in published
    /\ stopped' = stopped \cup {k}
    /\ UNCHANGED <<storeVars, snapshot, published, done, request, ips>>

-------------------------------------------------------------------------------
(* A viewer request. *)

\* A request arrives, its address is resolved, and RecordWatcher checks that the
\* stream exists.  "client" only remembers who it was that called, and "seen"
\* when it was recorded.
Admit(r) ==
    /\ request[r].pc = "idle"
    /\ \E client \in IPs, claims \in Claims, via \in Routes :
          LET arrival == Arrival(client, claims, via)
          IN  request' = [request EXCEPT
                 ![r].client = client,
                 ![r].ip = RealIP(arrival.peer, arrival.xff),
                 ![r].pc = IF streams # None THEN "record" ELSE "handle"]
    /\ UNCHANGED <<storeVars, lifeOfStreams, ips>>

\* RecordWatcher's Record, after the check and not atomic with it.
Record(r) ==
    /\ request[r].pc = "record"
    /\ ips' = Recorded(request[r].ip)
    /\ request' = [request EXCEPT ![r].pc = "handle", ![r].seen = 0]
    /\ UNCHANGED <<storeVars, lifeOfStreams>>

\* The master playlist, init and segment handlers answer at once, as every
\* handler does whose getStream finds no stream.
AnswerAtOnce(r) ==
    /\ request[r].pc = "handle"
    /\ request' = [request EXCEPT ![r] = NoRequest]
    /\ UNCHANGED <<storeVars, lifeOfStreams, ips>>

\* media.m3u8 begins to wait on the stream that getStream has found.
BeginPoll(r) ==
    /\ request[r].pc = "handle"
    /\ streams # None
    /\ request' = [request EXCEPT ![r].pc = "poll", ![r].stream = streams]
    /\ UNCHANGED <<storeVars, lifeOfStreams, ips>>

\* Mutant: the select does not watch done.
PollAnswerUndone(r) ==
    /\ request[r].pc = "poll"
    /\ request[r].stream \in published
    /\ request' = [request EXCEPT ![r] = NoRequest]
    /\ UNCHANGED <<storeVars, lifeOfStreams, ips>>

\* The select's hasPlaylist case, answered with the cached snapshot or, if
\* that is nil by now, 503, and its done case, answered 503.
PollAnswer(r) ==
    /\ request[r].pc = "poll"
    /\ request[r].stream \in published \cup done
    /\ request' = [request EXCEPT ![r] = NoRequest]
    /\ UNCHANGED <<storeVars, lifeOfStreams, ips>>

\* Mutant: the wait's deadline is not watched.
PollTimeoutNever(r) == FALSE /\ UNCHANGED vars

\* The select's ctx.Done case: the deadline.
PollTimeout(r) ==
    /\ request[r].pc = "poll"
    /\ request[r].waited = RequestTimeout
    /\ request' = [request EXCEPT ![r] = NoRequest]
    /\ UNCHANGED <<storeVars, lifeOfStreams, ips>>

\* The same case: the client has gone.
ClientGone(r) ==
    /\ request[r].pc = "poll"
    /\ request' = [request EXCEPT ![r] = NoRequest]
    /\ UNCHANGED <<storeVars, lifeOfStreams, ips>>

\* Time passes: last-seen times age, to just past the longest window, and waits
\* grow, to their deadline.
Tick ==
    /\ ips' = [ip \in DOMAIN ips |-> Older(ips[ip], MaxWindowMs + 1)]
    /\ request' = [r \in Requests |-> [request[r] EXCEPT
          !.waited = IF request[r].pc = "poll" THEN Older(@, RequestTimeout) ELSE @,
          !.seen = IF @ = NotSeen THEN NotSeen ELSE Older(@, MaxWindowMs + 1)]]
    /\ UNCHANGED <<storeVars, lifeOfStreams>>

-------------------------------------------------------------------------------
AdminStep(a) == \/ InitStream(a) \/ Launch(a)
                \/ DeleteStream(a) \/ DeleteReturn(a) \/ Untrack(a)

RendererStep(k) == StoreSnapshot(k) \/ Announce(k) \/ StopRenderer(k)

Handle(r) == AnswerAtOnce(r) \/ BeginPoll(r)

RequestStep(r) == \/ Admit(r) \/ Record(r) \/ Handle(r)
                  \/ PollAnswer(r) \/ PollTimeout(r) \/ ClientGone(r)

Next ==
    /\ ~panicked
    /\ \/ \E a \in Admins : AdminStep(a)
       \/ \E k \in Streams : RendererStep(k)
       \/ \E r \in Requests : RequestStep(r)
       \/ Cleanup
       \/ Tick

Spec == Init /\ [][Next]_vars

\* A handler that has begun goes on, a renderer keeps its life's promise, time
\* passes and the cleanup's ticker fires.  Nobody has to send requests, clients
\* may stay connected for ever, and no deadline is relied on.
FairSpec ==
    /\ Spec
    /\ \A a \in Admins : WF_vars(~panicked /\ (Launch(a) \/ DeleteReturn(a) \/ Untrack(a)))
    /\ \A k \in Streams : /\ WF_vars(~panicked /\ Announce(k))
                          /\ WF_vars(~panicked /\ StopRenderer(k))
    /\ \A r \in Requests : WF_vars(~panicked /\ (Record(r) \/ Handle(r) \/ PollAnswer(r)))
    /\ WF_vars(~panicked /\ Cleanup)
    /\ WF_vars(~panicked /\ Tick)

-------------------------------------------------------------------------------
\* Every variable keeps its type.
TypeOK ==
    /\ streams \in {None} \cup Streams /\ created \in {None} \cup Streams
    /\ running \subseteq Streams /\ panicked \in BOOLEAN
    /\ \A S \in {snapshot, published, done, stopped} : S \subseteq running \cup 1..created
    /\ admin \in [Admins -> [pc : {"idle", "launch", "await", "untrack"},
                             stream : {None} \cup Streams]]
    /\ request \in [Requests -> [pc : {"idle", "record", "handle", "poll"},
                                 client : IPs \cup {NoAddress},
                                 ip : IPs \cup Proxies \cup {NoAddress},
                                 seen : {NotSeen} \cup 0..(MaxWindowMs + 1),
                                 stream : {None} \cup Streams, waited : 0..RequestTimeout]]
    /\ DOMAIN ips \subseteq IPs \cup Proxies /\ ips \in [DOMAIN ips -> 0..(MaxWindowMs + 1)]

\* At most one object under the ID is not marked done: the one in the map.  A
\* second renderer never works for the same ID except one that is stopping.
OneLiveStream == \A k \in 1..created : k \in done \/ k = streams

\* No channel is ever closed twice, however DELETE requests overlap.
NoDoubleClose == ~panicked

\* Whatever addresses a client claims, and however many trusted proxies it comes
\* through, it is counted under its own address: neither under another client's
\* nor under a proxy's, nor more than once.
CountedAsSelf == \A r \in Requests : request[r].ip = request[r].client

\* The tracker never holds more than MaxIPsPerStream addresses.
TrackerBounded == Cardinality(DOMAIN ips) <= MaxIPsPerStream

\* The client of request r was recorded within the longest window, as far as the
\* request remembers; and it is counted.
Recent(r) == request[r].seen \in 0..MaxWindowMs
Counted(r) == request[r].ip \in Watchers(MaxWindowMs)

\* The step is the end of a DELETE, which untracks the ID.
Untracks == \E a \in Admins : admin[a].pc = "untrack" /\ admin'[a].pc = "idle"

\* "Already-tracked IPs always refresh, so steady-state viewers are unaffected":
\* a counted client stays counted for a whole window after its last fetch was
\* recorded, whoever else comes, at the ceiling too, and however the cleanup
\* falls.  Only a DELETE of the ID untracks it; see FetchStaysCounted for a late
\* one.
SteadyViewerKept ==
    [][\A r \in Requests :
          Recent(r) /\ Counted(r) /\ Recent(r)' => Counted(r)' \/ Untracks]_vars

\* "any fetch of a playlist, init, or segment route within the look-back window
\* marks that IP active": a client that is waiting for the playlist of the stream
\* that is in the map, and counted, stays counted.
FetchStaysCounted ==
    [][\A r \in Requests :
          /\ request[r].pc = "poll" /\ request[r].stream = streams /\ streams' = streams
          /\ Recent(r) /\ Counted(r) /\ Recent(r)'
          => Counted(r)']_vars

\* "keeps the active-watcher metric free of phantom streams": once nothing is in
\* progress, a stream that does not exist has no watchers.
NoPhantomWatchers ==
    /\ streams = None
    /\ \A a \in Admins : admin[a].pc = "idle"
    /\ \A r \in Requests : request[r].pc = "idle"
    => ActiveCount(MaxWindowMs) = 0

Life(k) == INSTANCE StreamLife WITH
    snapshot <- k \in snapshot,
    published <- k \in published,
    done <- k \in done,
    stopped <- k \in stopped

\* A long-poll whose deadline is kept is always answered.
PollAnswered ==
    \A r \in Requests : WF_vars(PollTimeout(r)) =>
        (request[r].pc = "poll" ~> request[r].pc # "poll")

\* A deletion releases the long-polls of the deleted object, without a
\* deadline's help.
DeletedPollReleased ==
    \A r \in Requests : \A k \in Streams :
        (request[r].pc = "poll" /\ request[r].stream = k /\ k \in done)
            ~> (request[r].pc # "poll" \/ request[r].stream # k)

\* No renderer goroutine outlives its stream: an object that has left the map
\* is stopped in the end, whether or not another one is in its place.
NoRendererLeak ==
    \A k \in Streams : (created >= k /\ streams # k) ~> (k \in stopped)

\* A DELETE that waits for its renderer returns, also when it came before the
\* handler of POST /init had launched that renderer.
DeleteReturns ==
    \A a \in Admins : (admin[a].pc = "await") ~> (admin[a].pc = "untrack")

\* Phantom entries do not stay: without a stream the tracker forgets everyone
\* in the end.
PhantomsExpire == (streams = None) ~> (streams # None \/ DOMAIN ips = {})

===============================================================================
