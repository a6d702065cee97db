------------------------------ MODULE StreamLife ------------------------------
(***************************************************************************)
(* What one stream promises to whoever holds it, however its renderer and  *)
(* its buffer work inside: the three channels and the cached playlist that *)
(* Store.Delete and the media playlist's long-poll rely on                 *)
(* (pkg/stream/stream.go).                                                 *)
(***************************************************************************)
VARIABLES
    snapshot,   \* cachedPlaylist holds a snapshot
    published,  \* hasPlaylist is closed
    done,       \* done is closed
    stopped     \* stopped is closed

lifeVars == <<snapshot, published, done, stopped>>

Init == ~snapshot /\ ~published /\ ~done /\ ~stopped

\* The renderer replaces the snapshot, by nil too; it has announced a first one
\* before.
Store ==
    /\ ~stopped
    /\ snapshot => published
    /\ snapshot' \in BOOLEAN
    /\ UNCHANGED <<published, done, stopped>>

\* hasPlaylist is closed only while there is a snapshot to find.
Announce ==
    /\ ~stopped /\ snapshot /\ ~published
    /\ published' = TRUE
    /\ UNCHANGED <<snapshot, done, stopped>>

CloseDone ==
    /\ ~done
    /\ done' = TRUE
    /\ UNCHANGED <<snapshot, published, stopped>>

\* The renderer stops only when told to, and never between a first snapshot
\* and its announcement.
Stop ==
    /\ done /\ ~stopped
    /\ snapshot => published
    /\ stopped' = TRUE
    /\ UNCHANGED <<snapshot, published, done>>

Next == Store \/ Announce \/ CloseDone \/ Stop

\* The safety of a stream's life: its steps, in the only orders they come in.
Spec == Init /\ [][Next]_lifeVars

\* What a waiter may count on: Delete's wait for stopped ends, and a snapshot
\* that is cached is announced.
Promise == /\ done ~> stopped
           /\ snapshot ~> published

===============================================================================
