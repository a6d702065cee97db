----------------------------- MODULE ProcessProofs -----------------------------
(***************************************************************************)
(* Proofs about Process: a store inside a process that is signalled, whose *)
(* servers go down and which ends is still the store of StreamStore, so    *)
(* that what is proved there holds here; and requests in progress are not  *)
(* cut off early.                                                          *)
(***************************************************************************)
EXTENDS Process, StreamStoreProofs

-------------------------------------------------------------------------------
(* The store inside the process. *)

\* Every step of the process is a step of the store or leaves it alone.
LEMMA ProcessStepIsStoreStep == ASSUME [ProcessNext]_allVars PROVE [Next]_vars
<1>1. CASE ~panicked /\ (Serve \/ CleanupUntilDone \/ \E k \in Streams : RendererStep(k))
  BY <1>1 DEF Next, Serve, CleanupUntilDone
<1>2. CASE ~panicked /\ ProcessTick
  BY <1>2 DEF Next, ProcessTick
<1>3. CASE UNCHANGED vars
  BY <1>3
<1>4. CASE \/ Signal \/ (\E s \in Servers : ShutdownReturns(s)) \/ MainReturns \/ Watchdog
           \/ ListenFails \/ Ended \/ UNCHANGED allVars
  BY <1>4 DEF Signal, ShutdownReturns, MainReturns, Watchdog, ListenFails, Ended, allVars
<1>5. QED
  BY <1>1, <1>2, <1>3, <1>4 DEF ProcessNext

\* The process implements the store, so that every theorem about StreamStore
\* holds with signals, shutdowns and the end of the process at any moment.
THEOREM ProcessImplementsStore == ProcessSpec => Spec
<1>1. ProcessInit => Init
  BY DEF ProcessInit
<1>2. [ProcessNext]_allVars => [Next]_vars
  BY ProcessStepIsStoreStep
<1>3. QED
  BY <1>1, <1>2, PTL DEF ProcessSpec, Spec

\* Every invariant of the store holds in the process.
THEOREM ProcessStoreInvariant == ProcessSpec => []StoreInv
BY ProcessImplementsStore, StoreInvariantHolds, PTL

-------------------------------------------------------------------------------
(* What a shutdown cuts off. *)

\* A server that is down has nothing in progress, or its grace period is over:
\* no request begins on it any more, and time since the signal only grows.
ShutdownInv ==
    /\ stopping \in {NotStopping} \cup 0..SHUTDOWN_TIMEOUT
    /\ down \subseteq Servers
    /\ stopping = NotStopping => down = {}
    /\ \A s \in down : ActiveOn(s) = {} \/ stopping >= Grace

\* Requests of a server that is down do not begin.
LEMMA DownStaysIdle ==
    ASSUME StoreInv, NEW s \in Servers, s \in down, ActiveOn(s) = {},
           \/ Serve \/ CleanupUntilDone \/ Tick \/ UNCHANGED vars
           \/ \E k \in Streams : RendererStep(k)
    PROVE  ActiveOn(s)' = {}
<1> USE DEF StoreInv, ObjectsInv, CallersInv
<1>1. CASE s = "api"
  <2>1. \A a \in Admins : admin[a].pc = "idle"
    BY <1>1 DEF ActiveOn
  <2>2. \A a \in Admins : admin'[a].pc = "idle"
    BY <2>1, <1>1
    DEF Serve, AdminStep, Launch, DeleteReturn, Untrack, InitStream, DeleteStream, RequestStep, Admit, Record, Handle,
        AnswerAtOnce, BeginPoll, PollAnswer, PollTimeout, ClientGone, CleanupUntilDone, Cleanup,
        Tick, RendererStep, StoreSnapshot, Announce, StopRenderer, storeVars, vars
  <2>3. QED
    BY <2>2, <1>1 DEF ActiveOn
<1>2. CASE s = "stream"
  <2>1. \A r \in Requests : request[r].pc = "idle"
    BY <1>2 DEF ActiveOn
  <2>2. \A r \in Requests : request'[r].pc = "idle"
    <3>1. CASE Tick
      BY <2>1, <3>1 DEF Tick, ViewerRequests
    <3>2. ASSUME Serve PROVE UNCHANGED request
      BY <2>1, <1>2, <3>2
      DEF Serve, AdminStep, InitStream, Launch, DeleteStream, DeleteReturn, Untrack, RequestStep,
          Admit, Record, Handle, AnswerAtOnce, BeginPoll, PollAnswer, PollTimeout, ClientGone
    <3>3. ASSUME CleanupUntilDone \/ UNCHANGED vars \/ \E k \in Streams : RendererStep(k)
          PROVE  UNCHANGED request
      BY <3>3 DEF CleanupUntilDone, Cleanup, RendererStep, StoreSnapshot, Announce, StopRenderer, vars
    <3>4. QED
      BY <2>1, <3>1, <3>2, <3>3
  <2>3. QED
    BY <2>2, <1>2 DEF ActiveOn
<1>3. QED
  BY <1>1, <1>2 DEF Servers

\* Every step keeps ShutdownInv.
LEMMA ShutdownInvNext ==
    ASSUME StoreInv, ShutdownInv, [ProcessNext]_allVars
    PROVE  ShutdownInv'
<1> USE ProcessAssumption DEF ShutdownInv, Grace, NotStopping
<1>1. CASE /\ UNCHANGED processVars
           /\ Serve \/ CleanupUntilDone \/ \E k \in Streams : RendererStep(k)
  <2>1. \A s \in down : ActiveOn(s) = {} => ActiveOn(s)' = {}
    BY <1>1, DownStaysIdle
  <2>2. QED
    BY <2>1, <1>1 DEF processVars
<1>2. CASE ProcessTick
  <2>1. \A s \in down : ActiveOn(s) = {} => ActiveOn(s)' = {}
    BY <1>2, DownStaysIdle DEF ProcessTick
  <2>2. down' = down /\ stopping' \in {-1} \cup 0..SHUTDOWN_TIMEOUT
        /\ (stopping = -1 <=> stopping' = -1) /\ (stopping >= Grace => stopping' >= Grace)
    BY <1>2 DEF ProcessTick, Older
  <2>3. QED
    BY <2>1, <2>2
<1>3. CASE Signal
  BY <1>3 DEF Signal
<1>4. ASSUME NEW s \in Servers, ShutdownReturns(s) PROVE ShutdownInv'
  <2>1. \A t \in Servers : ActiveOn(t)' = ActiveOn(t)
    BY <1>4 DEF ShutdownReturns, vars, storeVars, ActiveOn
  <2>2. QED
    BY <1>4, <2>1 DEF ShutdownReturns
<1>5. CASE MainReturns \/ Watchdog \/ ListenFails \/ Ended \/ UNCHANGED allVars
  <2>1. UNCHANGED <<stopping, down>> /\ \A t \in Servers : ActiveOn(t)' = ActiveOn(t)
    BY <1>5 DEF MainReturns, Watchdog, ListenFails, Ended, allVars, processVars, vars, storeVars, ActiveOn
  <2>2. QED
    BY <2>1
<1>6. QED
  BY <1>1, <1>2, <1>3, <1>4, <1>5 DEF ProcessNext

\* A request in progress is cut off only after the grace period, for any number
\* of requests and any timeout above a second.
THEOREM RequestsCutOffLate == ProcessSpec => CutOffLate
<1> DEFINE CutOff == stopping # NotStopping /\ exited' /\ (\E s \in Servers : ActiveOn(s) # {})
           Late == CutOff => stopping >= SHUTDOWN_TIMEOUT - Second
<1>1. ProcessInit => ShutdownInv
  BY ProcessAssumption DEF ProcessInit, ShutdownInv, NotStopping
<1>2. StoreInv /\ ShutdownInv /\ [ProcessNext]_allVars => ShutdownInv'
  BY ShutdownInvNext
<1>3. ASSUME ShutdownInv, [ProcessNext]_allVars PROVE [Late]_exited
  <2>1. ASSUME exited' # exited, CutOff PROVE MainReturns \/ Watchdog
    BY <1>3, <2>1 DEF ProcessNext, ProcessTick, Signal, ShutdownReturns, ListenFails, Ended,
                      allVars, processVars
  <2>2. ASSUME CutOff, MainReturns \/ Watchdog PROVE stopping >= SHUTDOWN_TIMEOUT - Second
    BY <1>3, <2>2, ProcessAssumption DEF MainReturns, Watchdog, ShutdownInv, Grace
  <2>3. QED
    BY <2>1, <2>2
<1>4. ShutdownInv /\ [ProcessNext]_allVars => [Late]_exited
  BY <1>3
<1>5. QED
  BY <1>1, <1>2, <1>4, ProcessStoreInvariant, PTL DEF ProcessSpec, CutOffLate

===============================================================================
