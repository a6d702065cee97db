---------------------------- MODULE MCStreamStore -----------------------------
(* Model values for the configurations of StreamStore. *)
EXTENDS StreamStore, TLC

\* Push API requests, viewer requests and addresses are interchangeable in the
\* safety runs.
Interchangeable == Permutations(Admins) \cup Permutations(Requests) \cup Permutations(IPs)

===============================================================================
