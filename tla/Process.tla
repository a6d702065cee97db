------------------------------- MODULE Process --------------------------------
(***************************************************************************)
(* The process around the store (main.go): two HTTP servers share it, for  *)
(* viewers and for the push API; SIGINT or SIGTERM ends the cleanup        *)
(* goroutine and shuts both servers down, which lets the requests in       *)
(* progress finish for a grace period; main returns when both are down,    *)
(* and a watchdog exits if that takes too long.                            *)
(*                                                                         *)
(* What http.Server does is modelled from how main uses it: Shutdown       *)
(* closes the listener and returns when no request of the server is in     *)
(* progress or when its context expires, and then leaves the rest running. *)
(* A request is in progress from its first step in StreamStore.            *)
(***************************************************************************)
EXTENDS StreamStore, InitRequest

CONSTANTS
    SHUTDOWN_TIMEOUT,  \* when the watchdog exits, in ticks after the signal
    Second             \* a second, in ticks

ASSUME ProcessAssumption ==
    /\ Second \in Nat \ {0}
    /\ SHUTDOWN_TIMEOUT \in Nat /\ SHUTDOWN_TIMEOUT > Second

VARIABLES
    stopping,  \* time since the signal, or NotStopping
    down,      \* servers whose Shutdown has returned
    exited     \* the process has ended

processVars == <<stopping, down, exited>>
allVars == <<vars, processVars>>

NotStopping == -1
Servers == {"stream", "api"}

\* The requests in progress on a server.
ActiveOn(s) ==
    IF s = "stream" THEN {r \in Requests : request[r].pc # "idle"}
                    ELSE {a \in Admins : admin[a].pc # "idle"}

Grace == SHUTDOWN_TIMEOUT - Second

\* How POST /init with the headers r is answered.
InitStatus(r, e) ==
    IF ~InitAccepted(r, e) THEN 400 ELSE IF streams # None THEN 409 ELSE 201

ProcessInit == Init /\ stopping = NotStopping /\ down = {} /\ exited = FALSE

-------------------------------------------------------------------------------
\* A handler's step; no request begins on a server that is down.  Those that
\* begin between the signal and the listener's end are among the steps.
Serve ==
    \/ \E a \in Admins : AdminStep(a) /\ (admin[a].pc = "idle" => "api" \notin down)
    \/ \E r \in Requests : RequestStep(r) /\ (request[r].pc = "idle" => "stream" \notin down)

\* The cleanup goroutine until it sees ctx.Done; a tick of its ticker that is
\* there with the signal may still win the select.
CleanupUntilDone == Cleanup /\ stopping \in {NotStopping, 0}

\* signal.NotifyContext cancels ctx.
Signal == stopping = NotStopping /\ stopping' = 0 /\ UNCHANGED <<vars, down, exited>>

\* Mutant: the context of the shutdown is the cancelled one.
ShutdownAtOnce(s) ==
    /\ stopping # NotStopping
    /\ s \notin down
    /\ down' = down \cup {s}
    /\ UNCHANGED <<vars, stopping, exited>>

\* srv.Shutdown returns: nothing is in progress, or the grace period is over.
ShutdownReturns(s) ==
    /\ stopping # NotStopping
    /\ s \notin down
    /\ ActiveOn(s) = {} \/ stopping >= Grace
    /\ down' = down \cup {s}
    /\ UNCHANGED <<vars, stopping, exited>>

\* serverWg.Wait returns, and main with it.
MainReturns == down = Servers /\ exited' = TRUE /\ UNCHANGED <<vars, stopping, down>>

Watchdog ==
    /\ stopping = SHUTDOWN_TIMEOUT
    /\ exited' = TRUE
    /\ UNCHANGED <<vars, stopping, down>>

\* ListenAndServe ends with an error of its own.  After the signal it ends with
\* ErrServerClosed, which is none.
ListenFails == stopping = NotStopping /\ exited' = TRUE /\ UNCHANGED <<vars, stopping, down>>

ProcessTick ==
    /\ Tick
    /\ stopping' = IF stopping = NotStopping THEN NotStopping ELSE Older(stopping, SHUTDOWN_TIMEOUT)
    /\ UNCHANGED <<down, exited>>

\* Nothing happens after the end; a failed check of the guard is one, too.
Ended == (exited \/ panicked) /\ UNCHANGED allVars

ProcessNext ==
    \/ /\ ~exited /\ ~panicked
       /\ \/ UNCHANGED processVars /\ (Serve \/ CleanupUntilDone \/ \E k \in Streams : RendererStep(k))
          \/ ProcessTick
          \/ Signal \/ \E s \in Servers : ShutdownReturns(s)
          \/ MainReturns \/ Watchdog \/ ListenFails
    \/ Ended

ProcessSpec == ProcessInit /\ [][ProcessNext]_allVars

-------------------------------------------------------------------------------
\* A request in progress - a DELETE that waits for its renderer, a long-poll -
\* is cut off by a shutdown only after the grace period: neither server's end
\* takes the other's requests with it.
CutOffLate ==
    [][stopping # NotStopping /\ exited' /\ (\E s \in Servers : ActiveOn(s) # {})
          => stopping >= SHUTDOWN_TIMEOUT - Second]_exited

\* A process that has just started creates a stream for exactly the requests
\* within POST /init's documented limits: no combination of extreme headers and
\* settings slips through a check that wraps around, none within the limits is
\* refused, and the look-ahead of the stream is within its ceiling.
InitMeansWhatItSays ==
    ProcessInit =>
        \A r \in InitRequests, e \in Environments :
            /\ InitStatus(r, e) = 201 <=> Documented(r, e)
            /\ InitStatus(r, e) = 201 => LookaheadSound(r)

===============================================================================
