------------------------------ MODULE MCPlayback ------------------------------
(* Model values for the configuration of Playback. *)
EXTENDS Playback, RenderSlice, TLC

\* Buffers and uploads are interchangeable.
Interchangeable == Permutations(Slots) \cup Permutations(Uploaders)

===============================================================================
