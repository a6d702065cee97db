--------------------------- MODULE StreamStoreProofs ---------------------------
(***************************************************************************)
(* Proofs about StreamStore: one live object per ID, no channel closed     *)
(* twice, clients counted as themselves, no more of them than the ceiling  *)
(* and none forgotten within a window except by a DELETE, for any number   *)
(* of requests, addresses, proxies and re-creations.                       *)
(***************************************************************************)
EXTENDS StreamStore, FiniteSetTheorems, SequenceTheorems, TLAPS

LOCAL INSTANCE FiniteSetsExt
LOCAL INSTANCE SequencesExt

-------------------------------------------------------------------------------
(* Whom a request is counted as. *)

\* Max is a greatest element, of a set that has one.
LEMMA MaxInSet ==
    ASSUME NEW S, \E z \in S : \A y \in S : z >= y
    PROVE  Max(S) \in S /\ \A y \in S : Max(S) >= y
BY Zenon DEF Max

\* Whatever entries a client writes by itself, and however many trusted proxies
\* its request comes through, the address it is counted under is its own.
LEMMA ResolvedAddress ==
    ASSUME NEW client \in IPs, NEW claims \in Claims, NEW via \in Routes
    PROVE  LET arrival == Arrival(client, claims, via)
           IN  RealIP(arrival.peer, arrival.xff) = client
<1> DEFINE arrival == Arrival(client, claims, via)
           n == Len(claims)
           Addresses == IPs \cup Proxies \cup {NoAddress}
<1>1. client \notin Proxies /\ client # NoAddress
  BY AddressAssumption
<1>2. via \in Seq(Proxies) /\ claims \in Seq(Addresses)
  BY AddressAssumption DEF Routes, Claims, BoundedSeq, SeqOf
<1>3. CASE via = <<>>
  <2>1. arrival.peer = client
    BY <1>2, <1>3 DEF Arrival, Last
  <2>2. QED
    BY <2>1, <1>1 DEF RealIP, IsTrusted
<1>4. CASE via # <<>>
  <2> DEFINE xff == arrival.xff
             others == {i \in DOMAIN xff : ~IsTrusted(xff[i])}
  <2>1. Len(via) > 0 /\ Len(via) \in Nat /\ n \in Nat
    BY <1>2, <1>4
  <2>2. arrival.peer \in Proxies
    BY <1>2, <2>1 DEF Arrival, Last
  <2>3. xff = claims \o SubSeq(<<client>> \o via, 1, Len(via))
    BY <1>2 DEF Arrival, Front
  <2>4. /\ DOMAIN xff = 1..(n + Len(via))
        /\ xff[n + 1] = client
        /\ \A i \in (n + 2)..(n + Len(via)) : xff[i] \in Proxies
    <3> DEFINE hops == <<client>> \o via
    <3>1. hops \in Seq({client} \cup Proxies) /\ Len(hops) = Len(via) + 1
          /\ hops[1] = client /\ \A i \in 2..Len(hops) : hops[i] \in Proxies
      BY <1>2
    <3> HIDE DEF hops
    <3>2. SubSeq(hops, 1, Len(via)) \in Seq({client} \cup Proxies)
          /\ Len(SubSeq(hops, 1, Len(via))) = Len(via)
          /\ \A i \in 1..Len(via) : SubSeq(hops, 1, Len(via))[i] = hops[i]
      BY <3>1, <2>1
    <3> DEFINE front == SubSeq(hops, 1, Len(via))
    <3> HIDE DEF front
    <3>3. xff = claims \o front
      BY <2>3 DEF hops, front
    <3>4. front \in Seq(Addresses) /\ Len(front) = Len(via) /\ front[1] = client
          /\ \A i \in 2..Len(via) : front[i] \in Proxies
      BY <3>1, <3>2, <2>1 DEF front
    <3> HIDE DEF xff
    <3>5. DOMAIN xff = 1..(n + Len(via)) /\ \A i \in 1..Len(via) : xff[n + i] = front[i]
      <4>1. /\ xff \in Seq(Addresses) /\ Len(xff) = n + Len(via)
            /\ \A i \in 1..(n + Len(via)) : xff[i] = IF i <= n THEN claims[i] ELSE front[i - n]
        <5> HIDE DEF Addresses
        <5>1. /\ claims \o front \in Seq(Addresses)
              /\ Len(claims \o front) = Len(claims) + Len(front)
              /\ \A i \in 1..(Len(claims) + Len(front)) :
                    (claims \o front)[i] = IF i <= Len(claims) THEN claims[i] ELSE front[i - Len(claims)]
          BY <3>4, <1>2, ConcatProperties
        <5>2. QED
          BY <5>1, <3>3, <3>4
      <4>2. DOMAIN xff = 1..Len(xff)
        BY <4>1
      <4>3. ASSUME NEW i \in 1..Len(via) PROVE xff[n + i] = front[i]
        <5>1. n + i \in 1..(n + Len(via)) /\ ~(n + i <= n) /\ (n + i) - n = i
          BY <2>1
        <5>2. QED
          BY <4>1, <5>1
      <4>4. QED
        BY <4>1, <4>2, <4>3
    <3>6. ASSUME NEW i \in (n + 2)..(n + Len(via)) PROVE xff[i] \in Proxies
      <4>1. i - n \in 2..Len(via) /\ i = n + (i - n)
        BY <2>1
      <4>2. xff[n + (i - n)] = front[i - n]
        <5>1. i - n \in 1..Len(via)
          BY <2>1
        <5>2. QED
          BY <5>1, <3>5
      <4>3. QED
        BY <4>1, <4>2, <3>4
    <3>7. QED
      BY <3>4, <3>5, <3>6, <2>1
  <2> HIDE DEF xff
  <2>5. n + 1 \in others /\ others \subseteq Int /\ \A i \in others : n + 1 >= i
    BY <2>1, <2>4, <1>1 DEF IsTrusted
  <2>6. Max(others) = n + 1
    <3>1. Max(others) \in others /\ Max(others) >= n + 1
      BY <2>5, MaxInSet
    <3>2. QED
      BY <2>5, <3>1, <2>1
  <2>7. RightmostUntrustedIP(xff) = client
    BY <2>4, <2>5, <2>6 DEF RightmostUntrustedIP
  <2>8. QED
    BY <2>2, <2>7, <1>1 DEF RealIP, IsTrusted, xff
<1>5. QED
  BY <1>3, <1>4

-------------------------------------------------------------------------------
(* The invariant. *)

\* The objects that exist by now, and those that a push API request works on:
\* numbers are given out in order, the object in the map is not marked done, and
\* a handler launches the renderer of an object that it has created.
ObjectsInv ==
    /\ streams \in 0..created /\ created \in 0..MaxStreams
    /\ running \subseteq 1..created
    /\ snapshot \subseteq running /\ published \subseteq running
    /\ done \subseteq 1..created /\ stopped \subseteq done
    /\ streams \notin done
    /\ OneLiveStream
    /\ admin \in [Admins -> [pc : {"idle", "launch", "await", "untrack"},
                             stream : 0..MaxStreams]]
    /\ \A a \in Admins : admin[a].pc = "launch" => admin[a].stream \in 1..created
    /\ panicked = FALSE

ViewerRequests ==
    [pc : {"idle", "record", "handle", "poll"},
     client : IPs \cup {NoAddress}, ip : IPs \cup Proxies \cup {NoAddress},
     seen : {NotSeen} \cup 0..(MaxWindowMs + 1),
     stream : {None} \cup Streams, waited : 0..RequestTimeout]

\* A request that is in progress is a client's, and counted as that client.
CallersInv ==
    /\ request \in [Requests -> ViewerRequests]
    /\ CountedAsSelf
    /\ \A r \in Requests :
          /\ request[r].pc = "record" => request[r].client \in IPs
          /\ request[r].pc \in {"idle", "record"} => request[r].seen = NotSeen

\* What the tracker holds.
WatchersInv ==
    /\ DOMAIN ips \subseteq IPs
    /\ ips \in [DOMAIN ips -> 0..(MaxWindowMs + 1)]
    /\ TrackerBounded

\* Where a recorded client has an entry, the entry is no older than the record:
\* it may have been refreshed since, by another of the client's requests.
RefreshedInv ==
    \A r \in Requests :
        request[r].seen # NotSeen /\ request[r].ip \in DOMAIN ips
        => ips[request[r].ip] <= request[r].seen

\* The inductive invariant of the store.
StoreInv == ObjectsInv /\ CallersInv /\ WatchersInv /\ RefreshedInv

\* The store starts in its invariant: nothing exists and nobody has called.
LEMMA InitStoreInv == ASSUME Init PROVE StoreInv
<1> USE DEF Init, None
<1>1. ObjectsInv
  BY StoreAssumption DEF ObjectsInv, OneLiveStream, NoDoubleClose
<1>2. CallersInv
  BY StoreAssumption DEF CallersInv, CountedAsSelf, NoRequest, NotSeen, ViewerRequests
<1>3. WatchersInv
  <2>1. DOMAIN ips = {} /\ ips \in [DOMAIN ips -> 0..(MaxWindowMs + 1)]
    BY DEF NoEntry
  <2>2. QED
    BY <2>1, FS_EmptySet, StoreAssumption DEF WatchersInv, TrackerBounded
<1>4. RefreshedInv
  BY DEF RefreshedInv, NoRequest
<1>5. QED
  BY <1>1, <1>2, <1>3, <1>4 DEF StoreInv

\* The objects and the push API requests: every step keeps one live object.
LEMMA ObjectsInvNext == ASSUME StoreInv, [Next]_vars PROVE ObjectsInv'
<1> USE StoreAssumption DEF StoreInv, ObjectsInv, OneLiveStream, NoDoubleClose, None, Streams
<1>1. ASSUME NEW a \in Admins, InitStream(a) PROVE ObjectsInv'
  <2>1. /\ streams = 0 /\ created < MaxStreams
        /\ created' = created + 1 /\ streams' = created + 1
        /\ admin' = [admin EXCEPT ![a] = [pc |-> "launch", stream |-> created + 1]]
        /\ UNCHANGED <<running, snapshot, published, done, stopped, panicked>>
    BY <1>1 DEF InitStream, lifeOfStreams
  <2>2. created' \in 1..MaxStreams /\ streams' \in 1..created' /\ 1..created \subseteq 1..created'
    BY <2>1
  <2>3. /\ admin' \in [Admins -> [pc : {"idle", "launch", "await", "untrack"}, stream : 0..MaxStreams]]
        /\ \A b \in Admins : admin'[b].pc = "launch" => admin'[b].stream \in 1..created'
    BY <2>1, <2>2
  <2>4. streams' \notin done /\ \A k \in 1..created' : k \in done \/ k = streams'
    BY <2>1
  <2>5. QED
    BY <2>1, <2>2, <2>3, <2>4
<1>2. ASSUME NEW a \in Admins, Launch(a) PROVE ObjectsInv'
  <2>1. /\ admin[a].stream \in 1..created
        /\ running' = running \cup {admin[a].stream}
        /\ admin' = [admin EXCEPT ![a] = [pc |-> "idle", stream |-> 0]]
        /\ UNCHANGED <<streams, created, panicked, snapshot, published, done, stopped>>
    BY <1>2 DEF Launch, lifeOfStreams
  <2>2. running' \subseteq 1..created /\ snapshot \subseteq running' /\ published \subseteq running'
    BY <2>1
  <2>3. /\ admin' \in [Admins -> [pc : {"idle", "launch", "await", "untrack"}, stream : 0..MaxStreams]]
        /\ \A b \in Admins : admin'[b].pc = "launch" => admin'[b].stream \in 1..created
    BY <2>1
  <2>4. QED
    BY <2>1, <2>2, <2>3
<1>3. ASSUME NEW a \in Admins, DeleteStream(a) PROVE ObjectsInv'
  <2>1. panicked' = FALSE
    <3>1. panicked' = (streams \in done)
      BY <1>3 DEF DeleteStream
    <3>2. (streams \in done) = FALSE
      OBVIOUS
    <3>3. QED
      BY <3>1, <3>2
  <2>2. /\ streams \in 1..created
        /\ done' = done \cup {streams} /\ streams' = 0
        /\ admin' = [admin EXCEPT ![a] = [pc |-> "await", stream |-> streams]]
        /\ UNCHANGED <<created, running, snapshot, published, stopped>>
    BY <1>3 DEF DeleteStream
  <2>3. done' \subseteq 1..created /\ 0 \notin done'
    BY <2>2
  <2>4. /\ admin' \in [Admins -> [pc : {"idle", "launch", "await", "untrack"}, stream : 0..MaxStreams]]
        /\ \A b \in Admins : admin'[b].pc = "launch" => admin'[b].stream \in 1..created
    BY <2>2
  <2>5. QED
    BY <2>1, <2>2, <2>3, <2>4
<1>4. ASSUME NEW a \in Admins, DeleteReturn(a) PROVE ObjectsInv'
  BY <1>4 DEF DeleteReturn, lifeOfStreams
<1>5. ASSUME NEW a \in Admins, Untrack(a) PROVE ObjectsInv'
  BY <1>5 DEF Untrack, lifeOfStreams
<1>6. ASSUME NEW k \in Streams, RendererStep(k) PROVE ObjectsInv'
  <2>1. /\ UNCHANGED <<storeVars, done>>
        /\ snapshot' \subseteq running /\ published' \subseteq running /\ stopped' \subseteq done
    BY <1>6 DEF RendererStep, StoreSnapshot, Announce, StopRenderer
  <2>2. QED
    BY <2>1 DEF storeVars
<1>7. CASE \/ \E r \in Requests : RequestStep(r)
           \/ Cleanup \/ Tick \/ UNCHANGED vars
  <2>1. UNCHANGED <<storeVars, lifeOfStreams>>
    BY <1>7 DEF RequestStep, Admit, Record, Handle, AnswerAtOnce, BeginPoll, PollAnswer,
                PollTimeout, ClientGone, Cleanup, Tick, vars
  <2>2. QED
    BY <2>1 DEF storeVars, lifeOfStreams
<1>8. QED
  BY <1>1, <1>2, <1>3, <1>4, <1>5, <1>6, <1>7 DEF Next, AdminStep

\* A request that has been recorded is still one, and the same client's.
LEMMA RecordedRequest ==
    ASSUME NEW q \in ViewerRequests
    PROVE  LET new == [q EXCEPT !.pc = "handle", !.seen = 0]
           IN  /\ new \in ViewerRequests
               /\ new.pc = "handle" /\ new.client = q.client /\ new.ip = q.ip
<1> DEFINE Ages == {NotSeen} \cup 0..(MaxWindowMs + 1)
<1>1. 0 \in Ages
  BY StoreAssumption
<1>2. ViewerRequests =
        [pc : {"idle", "record", "handle", "poll"},
         client : IPs \cup {NoAddress}, ip : IPs \cup Proxies \cup {NoAddress},
         seen : Ages, stream : {None} \cup Streams, waited : 0..RequestTimeout]
  BY DEF ViewerRequests
<1> HIDE DEF Ages
<1>3. QED
  BY <1>1, <1>2

\* So is one that has begun to wait.
LEMMA PollingRequest ==
    ASSUME NEW q \in ViewerRequests, NEW k \in Streams
    PROVE  LET new == [q EXCEPT !.pc = "poll", !.stream = k]
           IN  /\ new \in ViewerRequests
               /\ new.pc = "poll" /\ new.client = q.client /\ new.ip = q.ip
BY DEF ViewerRequests

\* The requests: only Admit sets an address, and only for a client's request.
LEMMA CallersInvNext == ASSUME StoreInv, [Next]_vars PROVE CallersInv'
<1> USE StoreAssumption DEF StoreInv, CallersInv, CountedAsSelf
<1>1. ASSUME NEW r \in Requests, Admit(r) PROVE CallersInv'
  <2>1. PICK client \in IPs, claims \in Claims, via \in Routes :
          LET arrival == Arrival(client, claims, via)
          IN  request' = [request EXCEPT
                 ![r].client = client,
                 ![r].ip = RealIP(arrival.peer, arrival.xff),
                 ![r].pc = IF streams # None THEN "record" ELSE "handle"]
    BY <1>1 DEF Admit
  <2> DEFINE arrival == Arrival(client, claims, via)
             addr == RealIP(arrival.peer, arrival.xff)
             pc == IF streams # None THEN "record" ELSE "handle"
  <2>2. addr = client /\ pc \in {"record", "handle"}
    BY ResolvedAddress
  <2>3. request' = [request EXCEPT ![r].client = client, ![r].ip = addr, ![r].pc = pc]
    BY <2>1
  <2> HIDE DEF addr, pc
  <2> DEFINE new == [request[r] EXCEPT !.client = client, !.ip = addr, !.pc = pc]
  <2>4. new.seen = NotSeen /\ new.client = client /\ new.ip = client /\ new.pc = pc
        /\ new \in ViewerRequests
    <3>1. request[r] \in ViewerRequests /\ request[r].seen = NotSeen
      BY <1>1 DEF Admit
    <3>2. QED
      BY <2>2, <3>1 DEF ViewerRequests
  <2>5. request' = [request EXCEPT ![r] = new]
    BY <2>3
  <2> HIDE DEF new
  <2>6. \A q \in Requests : request'[q] = IF q = r THEN new ELSE request[q]
    BY <2>5
  <2>7. request' \in [Requests -> ViewerRequests]
    BY <2>4, <2>5
  <2>8. QED
    BY <2>2, <2>4, <2>6, <2>7
<1>2. ASSUME NEW r \in Requests, Record(r) PROVE CallersInv'
  <2> DEFINE new == [request[r] EXCEPT !.pc = "handle", !.seen = 0]
  <2>1. request' = [request EXCEPT ![r] = new]
    BY <1>2 DEF Record
  <2>2. new \in ViewerRequests /\ new.pc = "handle"
        /\ new.client = request[r].client /\ new.ip = request[r].ip
    <3>1. request[r] \in ViewerRequests
      OBVIOUS
    <3>2. QED
      BY <3>1, RecordedRequest
  <2> HIDE DEF new
  <2>3. \A q \in Requests : request'[q] = IF q = r THEN new ELSE request[q]
    BY <2>1
  <2>4. request' \in [Requests -> ViewerRequests]
    BY <2>1, <2>2
  <2>5. QED
    BY <2>2, <2>3, <2>4
<1>3. ASSUME NEW r \in Requests, AnswerAtOnce(r) \/ PollAnswer(r) \/ PollTimeout(r) \/ ClientGone(r)
      PROVE CallersInv'
  <2>1. request' = [request EXCEPT ![r] = NoRequest]
    BY <1>3 DEF AnswerAtOnce, PollAnswer, PollTimeout, ClientGone
  <2>2. /\ NoRequest \in ViewerRequests
        /\ NoRequest.pc = "idle" /\ NoRequest.ip = NoRequest.client /\ NoRequest.seen = NotSeen
    BY DEF NoRequest, ViewerRequests
  <2>3. \A q \in Requests : request'[q] = IF q = r THEN NoRequest ELSE request[q]
    BY <2>1
  <2>4. request' \in [Requests -> ViewerRequests]
    BY <2>1, <2>2
  <2>5. QED
    BY <2>2, <2>3, <2>4
<1>4. ASSUME NEW r \in Requests, BeginPoll(r) PROVE CallersInv'
  <2>1. streams \in Streams
    BY <1>4 DEF BeginPoll, ObjectsInv, Streams, None
  <2> DEFINE new == [request[r] EXCEPT !.pc = "poll", !.stream = streams]
  <2>2. request' = [request EXCEPT ![r] = new]
    BY <1>4 DEF BeginPoll
  <2>3. new \in ViewerRequests /\ new.pc = "poll"
        /\ new.client = request[r].client /\ new.ip = request[r].ip
    <3>1. request[r] \in ViewerRequests
      OBVIOUS
    <3>2. QED
      BY <2>1, <3>1, PollingRequest
  <2> HIDE DEF new
  <2>4. \A q \in Requests : request'[q] = IF q = r THEN new ELSE request[q]
    BY <2>2
  <2>5. request' \in [Requests -> ViewerRequests]
    BY <2>2, <2>3
  <2>6. QED
    BY <2>3, <2>4, <2>5
<1>5. CASE Tick
  <2> DEFINE Aged(r) == [request[r] EXCEPT
               !.waited = IF request[r].pc = "poll" THEN Older(@, RequestTimeout) ELSE @,
               !.seen = IF @ = NotSeen THEN NotSeen ELSE Older(@, MaxWindowMs + 1)]
  <2>1. request' = [r \in Requests |-> Aged(r)]
    BY <1>5 DEF Tick
  <2>2. ASSUME NEW r \in Requests
        PROVE  /\ Aged(r) \in ViewerRequests
               /\ Aged(r).pc = request[r].pc /\ Aged(r).client = request[r].client
               /\ Aged(r).ip = request[r].ip
               /\ request[r].seen = NotSeen => Aged(r).seen = NotSeen
    <3>1. request[r] \in ViewerRequests
      OBVIOUS
    <3>2. /\ Older(request[r].waited, RequestTimeout) \in 0..RequestTimeout
          /\ request[r].seen # NotSeen
             => Older(request[r].seen, MaxWindowMs + 1) \in 0..(MaxWindowMs + 1)
      BY <3>1 DEF Older, ViewerRequests
    <3>3. QED
      BY <3>1, <3>2 DEF ViewerRequests
  <2> HIDE DEF Aged
  <2>3. request' \in [Requests -> ViewerRequests]
    BY <2>1, <2>2
  <2>4. \A r \in Requests : request'[r] = Aged(r)
    BY <2>1
  <2>5. QED
    BY <2>2, <2>3, <2>4
<1>6. CASE \/ \E a \in Admins : AdminStep(a)
           \/ \E k \in Streams : RendererStep(k)
           \/ Cleanup \/ UNCHANGED vars
  <2>1. request' = request
    BY <1>6 DEF AdminStep, InitStream, Launch, DeleteStream, DeleteReturn, Untrack,
                RendererStep, StoreSnapshot, Announce, StopRenderer, Cleanup, vars
  <2>2. QED
    BY <2>1
<1>7. QED
  BY <1>1, <1>2, <1>3, <1>4, <1>5, <1>6 DEF Next, RequestStep, Handle

\* Recording a client's address keeps the tracker within its ceiling: a known
\* address takes no room, a new one is refused when there is none.
LEMMA RecordedBounded ==
    ASSUME WatchersInv, NEW ip \in IPs
    PROVE  /\ DOMAIN Recorded(ip) \subseteq IPs
           /\ Recorded(ip) \in [DOMAIN Recorded(ip) -> 0..(MaxWindowMs + 1)]
           /\ Cardinality(DOMAIN Recorded(ip)) <= MaxIPsPerStream
           /\ DOMAIN ips \subseteq DOMAIN Recorded(ip)
<1> DEFINE R == [a \in DOMAIN ips \cup {ip} |-> IF a = ip THEN 0 ELSE ips[a]]
<1> USE StoreAssumption DEF WatchersInv, TrackerBounded
<1>1. /\ IsFiniteSet(DOMAIN ips) /\ Cardinality(DOMAIN ips) \in Nat
  BY FS_Subset, FS_CardinalityType
<1>2. CASE Recorded(ip) = ips
  BY <1>2
<1>3. CASE Recorded(ip) # ips
  <2>1. /\ Recorded(ip) = R
        /\ ip \in DOMAIN ips \/ ~(Cardinality(DOMAIN ips) >= MaxIPsPerStream)
    BY <1>3 DEF Recorded
  <2>2. DOMAIN R = DOMAIN ips \cup {ip} /\ R \in [DOMAIN R -> 0..(MaxWindowMs + 1)]
    <3>1. \A a \in DOMAIN ips : ips[a] \in 0..(MaxWindowMs + 1)
      OBVIOUS
    <3>2. QED
      BY <3>1
  <2>3. Cardinality(DOMAIN ips \cup {ip}) <= MaxIPsPerStream
    <3>1. Cardinality(DOMAIN ips \cup {ip}) =
            IF ip \in DOMAIN ips THEN Cardinality(DOMAIN ips) ELSE Cardinality(DOMAIN ips) + 1
      BY <1>1, FS_AddElement
    <3>2. QED
      BY <2>1, <1>1, <3>1
  <2> HIDE DEF R
  <2>4. QED
    BY <2>1, <2>2, <2>3
<1>4. QED
  BY <1>2, <1>3

\* The tracker: every step keeps it within the ceiling.
LEMMA WatchersInvNext == ASSUME StoreInv, [Next]_vars PROVE WatchersInv'
<1> USE StoreAssumption DEF StoreInv, WatchersInv, TrackerBounded
<1>1. ASSUME NEW r \in Requests, Record(r) PROVE WatchersInv'
  <2>1. ips' = Recorded(request[r].ip) /\ request[r].ip \in IPs
    BY <1>1 DEF Record, CallersInv, CountedAsSelf
  <2>2. QED
    BY <2>1, RecordedBounded
<1>2. CASE Cleanup
  <2>1. /\ DOMAIN ips' = Watchers(MaxWindowMs) /\ DOMAIN ips' \subseteq DOMAIN ips
        /\ \A ip \in DOMAIN ips' : ips'[ip] = ips[ip]
        /\ ips' \in [DOMAIN ips' -> 0..(MaxWindowMs + 1)]
    BY <1>2 DEF Cleanup, Watchers
  <2>2. Cardinality(DOMAIN ips') <= Cardinality(DOMAIN ips)
        /\ Cardinality(DOMAIN ips') \in Nat /\ Cardinality(DOMAIN ips) \in Nat
    BY <2>1, FS_Subset, FS_CardinalityType
  <2>3. QED
    BY <2>1, <2>2
<1>3. CASE \E a \in Admins : Untrack(a)
  <2>1. DOMAIN ips' = {} /\ ips' \in [DOMAIN ips' -> 0..(MaxWindowMs + 1)]
    BY <1>3 DEF Untrack, NoEntry
  <2>2. QED
    BY <2>1, FS_EmptySet
<1>4. CASE Tick
  <2>1. ips' = [ip \in DOMAIN ips |-> Older(ips[ip], MaxWindowMs + 1)]
    BY <1>4 DEF Tick
  <2>2. DOMAIN ips' = DOMAIN ips /\ ips' \in [DOMAIN ips' -> 0..(MaxWindowMs + 1)]
    BY <2>1 DEF Older
  <2>3. QED
    BY <2>2
<1>5. CASE UNCHANGED ips
  BY <1>5
<1>6. QED
  <2>1. ASSUME NEW a \in Admins, AdminStep(a), ~Untrack(a) PROVE UNCHANGED ips
    BY <2>1 DEF AdminStep, InitStream, Launch, DeleteStream, DeleteReturn
  <2>2. ASSUME NEW k \in Streams, RendererStep(k) PROVE UNCHANGED ips
    BY <2>2 DEF RendererStep, StoreSnapshot, Announce, StopRenderer
  <2>3. ASSUME NEW r \in Requests, RequestStep(r), ~Record(r) PROVE UNCHANGED ips
    BY <2>3 DEF RequestStep, Admit, Handle, AnswerAtOnce, BeginPoll, PollAnswer, PollTimeout,
                ClientGone
  <2>4. UNCHANGED vars => UNCHANGED ips
    BY DEF vars
  <2>5. QED
    BY <1>1, <1>2, <1>3, <1>4, <1>5, <2>1, <2>2, <2>3, <2>4 DEF Next

\* A client that was recorded and still remembers it is the same client after a
\* step: a request takes its address before it is recorded, and drops both at once.
LEMMA SeenKeepsAddress ==
    ASSUME StoreInv, [Next]_vars, NEW r \in Requests,
           request[r].seen # NotSeen, request'[r].seen # NotSeen
    PROVE  request'[r].ip = request[r].ip
<1> USE DEF StoreInv, CallersInv, ViewerRequests
<1>1. ASSUME NEW q \in Requests, Admit(q) PROVE request'[r].ip = request[r].ip
  <2>1. r # q
    BY <1>1 DEF Admit
  <2>2. QED
    BY <1>1, <2>1 DEF Admit
<1>2. ASSUME NEW q \in Requests,
             AnswerAtOnce(q) \/ PollAnswer(q) \/ PollTimeout(q) \/ ClientGone(q)
      PROVE  request'[r].ip = request[r].ip
  <2>1. request' = [request EXCEPT ![q] = NoRequest]
    BY <1>2 DEF AnswerAtOnce, PollAnswer, PollTimeout, ClientGone
  <2>2. QED
    BY <2>1 DEF NoRequest
<1>3. ASSUME NEW q \in Requests, Record(q) \/ BeginPoll(q)
      PROVE  request'[r].ip = request[r].ip
  BY <1>3 DEF Record, BeginPoll
<1>4. CASE Tick
  BY <1>4 DEF Tick
<1>5. CASE UNCHANGED request
  BY <1>5
<1>6. QED
  BY <1>1, <1>2, <1>3, <1>4, <1>5
  DEF Next, vars, AdminStep, InitStream, Launch, DeleteStream, DeleteReturn, Untrack,
      RendererStep, StoreSnapshot, Announce, StopRenderer, RequestStep, Handle, Cleanup

\* An entry is no older than the record of any client it stands for: it is
\* written afresh, and both age alike.
LEMMA RefreshedInvNext == ASSUME StoreInv, [Next]_vars PROVE RefreshedInv'
<1> USE StoreAssumption DEF StoreInv, RefreshedInv
<1>1. ASSUME NEW r \in Requests, Record(r) PROVE RefreshedInv'
  <2>1. /\ ips' = Recorded(request[r].ip)
        /\ request' = [request EXCEPT ![r].pc = "handle", ![r].seen = 0]
    BY <1>1 DEF Record
  <2>2. ASSUME NEW ip \in DOMAIN ips'
        PROVE  ips'[ip] = 0 \/ (ip # request[r].ip /\ ip \in DOMAIN ips /\ ips'[ip] = ips[ip])
               \/ (ip \in DOMAIN ips /\ ips'[ip] = ips[ip] /\ request[r].ip \notin DOMAIN ips)
    BY <2>1, <2>2 DEF Recorded
  <2>3. ASSUME NEW q \in Requests, request'[q].seen # NotSeen, request'[q].ip \in DOMAIN ips'
        PROVE  ips'[request'[q].ip] <= request'[q].seen
    <3>1. request'[q].ip = request[q].ip
          /\ request'[q].seen = IF q = r THEN 0 ELSE request[q].seen
      BY <2>1 DEF CallersInv, ViewerRequests
    <3>2. request'[q].seen \in Nat
      BY <3>1, <2>3 DEF CallersInv, ViewerRequests, NotSeen
    <3>3. QED
      BY <2>2, <2>3, <3>1, <3>2
  <2>4. QED
    BY <2>3
<1>2. CASE Tick
  <2>1. ASSUME NEW r \in Requests, request'[r].seen # NotSeen, request'[r].ip \in DOMAIN ips'
        PROVE  ips'[request'[r].ip] <= request'[r].seen
    <3>1. /\ request'[r].ip = request[r].ip
          /\ request'[r].seen = IF request[r].seen = NotSeen THEN NotSeen
                                ELSE Older(request[r].seen, MaxWindowMs + 1)
      BY <1>2 DEF Tick, CallersInv, ViewerRequests
    <3>2. DOMAIN ips' = DOMAIN ips
          /\ \A ip \in DOMAIN ips : ips'[ip] = Older(ips[ip], MaxWindowMs + 1)
      BY <1>2 DEF Tick
    <3>3. request[r].seen # NotSeen /\ request[r].seen \in 0..(MaxWindowMs + 1)
      BY <2>1, <3>1 DEF CallersInv, ViewerRequests
    <3>4. ips[request[r].ip] <= request[r].seen /\ ips[request[r].ip] \in 0..(MaxWindowMs + 1)
      BY <2>1, <3>1, <3>2, <3>3 DEF WatchersInv
    <3>5. QED
      BY <2>1, <3>1, <3>2, <3>3, <3>4 DEF Older
  <2>2. QED
    BY <2>1
<1>3. CASE Cleanup
  BY <1>3 DEF Cleanup, Watchers
<1>4. CASE \E a \in Admins : Untrack(a)
  BY <1>4 DEF Untrack, NoEntry
<1>5. CASE UNCHANGED ips /\ \E r \in Requests : RequestStep(r) /\ ~Record(r)
  <2>1. PICK q \in Requests : RequestStep(q) /\ ~Record(q)
    BY <1>5
  <2>2. ASSUME NEW r \in Requests, request'[r].seen # NotSeen
        PROVE  request'[r].ip = request[r].ip /\ request'[r].seen = request[r].seen
    <3>1. CASE Admit(q)
      <4>1. request'[r].seen = request[r].seen
        BY <3>1 DEF Admit, CallersInv, ViewerRequests
      <4>2. QED
        BY <4>1, <2>2, <1>5, SeenKeepsAddress, <3>1 DEF Next, RequestStep, Admit, CallersInv, ViewerRequests
    <3>2. CASE AnswerAtOnce(q) \/ PollAnswer(q) \/ PollTimeout(q) \/ ClientGone(q)
      <4>1. request' = [request EXCEPT ![q] = NoRequest]
        BY <3>2 DEF AnswerAtOnce, PollAnswer, PollTimeout, ClientGone
      <4>2. QED
        BY <4>1, <2>2 DEF NoRequest, CallersInv, ViewerRequests
    <3>3. CASE BeginPoll(q)
      BY <3>3 DEF BeginPoll, CallersInv, ViewerRequests
    <3>4. QED
      BY <2>1, <3>1, <3>2, <3>3 DEF RequestStep, Handle
  <2>3. QED
    BY <1>5, <2>2
<1>6. CASE UNCHANGED <<ips, request>>
  BY <1>6
<1>7. QED
  <2>1. ASSUME NEW a \in Admins, AdminStep(a), ~Untrack(a) PROVE UNCHANGED <<ips, request>>
    BY <2>1 DEF AdminStep, InitStream, Launch, DeleteStream, DeleteReturn
  <2>2. ASSUME NEW k \in Streams, RendererStep(k) PROVE UNCHANGED <<ips, request>>
    BY <2>2 DEF RendererStep, StoreSnapshot, Announce, StopRenderer
  <2>3. ASSUME NEW r \in Requests, RequestStep(r), ~Record(r) PROVE UNCHANGED ips
    BY <2>3 DEF RequestStep, Admit, Handle, AnswerAtOnce, BeginPoll, PollAnswer, PollTimeout,
                ClientGone
  <2>4. UNCHANGED vars => UNCHANGED <<ips, request>>
    BY DEF vars
  <2>5. QED
    BY <1>1, <1>2, <1>3, <1>4, <1>5, <1>6, <2>1, <2>2, <2>3, <2>4 DEF Next

\* An address that a window may count keeps its entry, unless it is untracked.
LEMMA WatchedStay ==
    ASSUME StoreInv, [Next]_vars, ~Untracks
    PROVE  \A ip \in Watchers(MaxWindowMs) : ip \in DOMAIN ips'
<1>1. CASE \E a \in Admins : Untrack(a)
  BY <1>1 DEF Untrack, Untracks, StoreInv, ObjectsInv
<1>2. CASE \E r \in Requests : Record(r)
  <2>1. PICK r \in Requests : request[r].pc = "record" /\ ips' = Recorded(request[r].ip)
    BY <1>2 DEF Record
  <2>2. request[r].ip \in IPs
    BY <2>1 DEF StoreInv, CallersInv, CountedAsSelf
  <2>3. QED
    BY <2>1, <2>2, RecordedBounded DEF StoreInv, Watchers
<1>3. CASE Cleanup
  BY <1>3 DEF Cleanup
<1>4. CASE Tick
  BY <1>4 DEF Tick, Watchers
<1>5. CASE UNCHANGED ips
  BY <1>5 DEF Watchers
<1>6. QED
  BY <1>1, <1>2, <1>3, <1>4, <1>5
  DEF Next, vars, AdminStep, InitStream, Launch, DeleteStream, DeleteReturn,
      RendererStep, StoreSnapshot, Announce, StopRenderer,
      RequestStep, Admit, Handle, AnswerAtOnce, BeginPoll, PollAnswer, PollTimeout, ClientGone

-------------------------------------------------------------------------------
(* The theorems. *)

\* StoreInv holds in every state, for every number of requests and streams.
THEOREM StoreInvariantHolds == Spec => []StoreInv
<1>1. Init => StoreInv
  BY InitStoreInv
<1>2. StoreInv /\ [Next]_vars => StoreInv'
  BY ObjectsInvNext, CallersInvNext, WatchersInvNext, RefreshedInvNext DEF StoreInv
<1>3. QED
  BY <1>1, <1>2, PTL DEF Spec

\* What StoreInv says of each variable is its type.
LEMMA StoreInvTypes == ASSUME StoreInv PROVE TypeOK
<1> USE StoreAssumption DEF StoreInv, ObjectsInv, None, Streams
<1>1. /\ streams \in {None} \cup Streams /\ created \in {None} \cup Streams
      /\ running \subseteq Streams
      /\ \A S \in {snapshot, published, done, stopped} : S \subseteq running \cup 1..created
  <2>1. 1..created \subseteq 1..MaxStreams /\ snapshot \subseteq 1..created
        /\ published \subseteq 1..created /\ stopped \subseteq 1..created
    OBVIOUS
  <2>2. \A S \in {snapshot, published, done, stopped} : S \subseteq running \cup 1..created
    BY <2>1
  <2>3. QED
    BY <2>1, <2>2
<1>2. /\ admin \in [Admins -> [pc : {"idle", "launch", "await", "untrack"},
                             stream : {None} \cup Streams]]
  OBVIOUS
<1>3. DOMAIN ips \subseteq IPs \cup Proxies /\ ips \in [DOMAIN ips -> 0..(MaxWindowMs + 1)]
  BY DEF WatchersInv
<1>4. QED
  BY <1>1, <1>2, <1>3 DEF TypeOK, CallersInv, ViewerRequests

\* Every variable keeps its type.
THEOREM StoreTypeCorrect == Spec => []TypeOK
BY StoreInvariantHolds, StoreInvTypes, PTL

\* However Init and Delete overlap, one object under the ID is not marked done.
THEOREM OneObjectLives == Spec => []OneLiveStream
<1>1. StoreInv => OneLiveStream
  BY DEF StoreInv, ObjectsInv
<1>2. QED
  BY <1>1, StoreInvariantHolds, PTL

\* No number of overlapping DELETE requests closes a channel twice.
THEOREM ClosedOnce == Spec => []NoDoubleClose
<1>1. StoreInv => NoDoubleClose
  BY DEF StoreInv, ObjectsInv, NoDoubleClose
<1>2. QED
  BY <1>1, StoreInvariantHolds, PTL

\* A client is counted as itself, through any number of proxies and claims.
THEOREM ClientsCountedAsSelf == Spec => []CountedAsSelf
<1>1. StoreInv => CountedAsSelf
  BY DEF StoreInv, CallersInv
<1>2. QED
  BY <1>1, StoreInvariantHolds, PTL

\* The tracker never exceeds its ceiling.
THEOREM TrackerStaysBounded == Spec => []TrackerBounded
<1>1. StoreInv => TrackerBounded
  BY DEF StoreInv, WatchersInv
<1>2. QED
  BY <1>1, StoreInvariantHolds, PTL

\* A client that is counted stays counted for a whole window after its last fetch
\* was recorded, unless a DELETE untracks the ID: for any number of other clients
\* and any interleaving with the cleanup.
THEOREM SteadyViewersKept == Spec => SteadyViewerKept
<1>1. ASSUME StoreInv, StoreInv', [Next]_vars, NEW r \in Requests,
             Recent(r), Counted(r), Recent(r)', ~Untracks
      PROVE  Counted(r)'
  <2>1. \A ip \in Watchers(MaxWindowMs) : ip \in DOMAIN ips'
    BY <1>1, WatchedStay
  <2>2. request'[r].ip = request[r].ip
    BY <1>1, SeenKeepsAddress, StoreAssumption DEF Recent, NotSeen
  <2>3. request[r].ip \in Watchers(MaxWindowMs)
    BY <1>1 DEF Counted
  <2>4. request'[r].ip \in DOMAIN ips' /\ request'[r].seen \in 0..MaxWindowMs
    BY <1>1, <2>1, <2>2, <2>3 DEF Recent
  <2>5. ips'[request'[r].ip] <= request'[r].seen /\ ips'[request'[r].ip] \in Int
    BY <1>1, <2>4, StoreAssumption DEF StoreInv, RefreshedInv, WatchersInv, NotSeen
  <2>6. QED
    BY <2>4, <2>5, StoreAssumption DEF Counted, Watchers
<1>2. StoreInv /\ StoreInv' /\ [Next]_vars =>
        \A r \in Requests : Recent(r) /\ Counted(r) /\ Recent(r)' => Counted(r)' \/ Untracks
  BY <1>1
<1>3. QED
  BY <1>2, StoreInvariantHolds, PTL DEF Spec, SteadyViewerKept

===============================================================================
