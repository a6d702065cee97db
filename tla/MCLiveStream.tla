----------------------------- MODULE MCLiveStream -----------------------------
(* Model values for the configurations of LiveStream. *)
EXTENDS RenderSlice, TLC

\* Buffers and uploads are interchangeable in the safety runs.
Interchangeable == Permutations(Slots) \cup Permutations(Uploaders)

===============================================================================
