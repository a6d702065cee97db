---------------------------- MODULE MCViewerAccess ----------------------------
(* Model values for the configuration of ViewerAccess: the smallest int64, an *)
(* expiry that is not on a minute boundary and soon below the floor, a later  *)
(* one, and the largest int64, which does not fit into a token's minutes.     *)
EXTENDS ViewerAccess, TLC

Expiries == {-32, 5, 8, 31}

\* Streams and secrets are interchangeable.
Interchangeable == Permutations(Streams) \cup Permutations(Secrets)

===============================================================================
