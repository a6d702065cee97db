------------------------------- MODULE MCStream -------------------------------
(* Model values for the configurations of Stream. *)
EXTENDS SegmentSlice, TLC

\* Buffers, fetches and uploads are interchangeable in the safety runs.
Interchangeable ==
    Permutations(Slots) \cup Permutations(Viewers) \cup Permutations(Uploaders)

===============================================================================
