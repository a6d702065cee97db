---------------------------- MODULE ClientAddress ------------------------------
(***************************************************************************)
(* The address a request is counted under: TrustedRealIP                   *)
(* (pkg/middleware/realip.go), which both routers install first.           *)
(*                                                                         *)
(* An address is a value and X-Forwarded-For the sequence of its entries;  *)
(* the CIDR ranges of the trusted proxies are the set of the addresses in  *)
(* them.  How a chain comes about, Arrival, is outside this repository: a  *)
(* proxy appends the peer that it was called by to the one header it       *)
(* passes on.                                                              *)
(***************************************************************************)
EXTENDS Integers, Sequences

LOCAL INSTANCE SequencesExt
LOCAL INSTANCE FiniteSetsExt

CONSTANTS
    IPs,        \* the addresses of clients
    Proxies,    \* config's TRUSTED_PROXIES
    NoAddress,  \* no address: an entry that does not parse, or ""
    MaxHops,    \* bound: proxies between a client and the server
    MaxClaims   \* bound: entries a client sends by itself

ASSUME AddressAssumption ==
    /\ IPs \cap Proxies = {} /\ NoAddress \notin IPs \cup Proxies
    /\ MaxHops \in Nat /\ MaxClaims \in Nat

IsTrusted(addr) == addr \in Proxies

\* Mutant: the chain is read from the left.
LeftmostUntrustedIP(xff) ==
    LET others == {i \in DOMAIN xff : ~IsTrusted(xff[i])}
    IN  IF others = {} THEN NoAddress ELSE xff[Min(others)]

\* rightmostUntrustedIP: the last entry that is no trusted proxy's, which a
\* malformed entry ends as well, with no address.
RightmostUntrustedIP(xff) ==
    LET others == {i \in DOMAIN xff : ~IsTrusted(xff[i])}
    IN  IF others = {} THEN NoAddress ELSE xff[Max(others)]

\* TrustedRealIP: the address that the rest of the program sees.
RealIP(peer, xff) ==
    IF IsTrusted(peer) /\ RightmostUntrustedIP(xff) # NoAddress
    THEN RightmostUntrustedIP(xff)
    ELSE peer

\* A client's request as the server sees it, with the entries that the client
\* sends by itself and the proxies that it comes through.
Arrival(client, claims, via) ==
    LET hops == <<client>> \o via
    IN  [peer |-> Last(hops), xff |-> claims \o Front(hops)]

Routes == BoundedSeq(Proxies, MaxHops)
Claims == BoundedSeq(IPs \cup Proxies \cup {NoAddress}, MaxClaims)

===============================================================================
