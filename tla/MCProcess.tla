---------------------------- MODULE MCProcess ---------------------------------
(* Model values for the configuration of Process, and the requests and        *)
(* environments that POST /init's checks are tried on: values at and around   *)
(* each limit, and those whose sums and products wrap around.                 *)
EXTENDS Process, TLC

\* Push API requests, viewer requests and addresses are interchangeable in the
\* safety run.
Interchangeable == Permutations(Admins) \cup Permutations(Requests) \cup Permutations(IPs)

EdgeRequests ==
    [segmentCap : {0, 1, 2, 3, 8, 32, 62, 63}, segmentBytes : {0, 1, 2, 7, 31, 63},
     target : {-1, 0, 1, 2, 3, 6, 7, 33, 63}, backward : {0, 1, 2, 7, 61, 63},
     window : {Absent, 0, 1, 2, 3, 6, 7, 33, 63}, lookahead : {Absent, -1, 0, 1, 2, 11, 40, 41, 63}]

EdgeEnvironments == [maxBufferBytes : {1, 3, 14, 63}, workingSpace : {0, 1, 5, 62, 63}]

===============================================================================
