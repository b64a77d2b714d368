----------------------------- MODULE MCSockPub2 -----------------------------
(***************************************************************************)
(* A warmup of less than nothing, of none, one and two messages; one to    *)
(* three timed messages; every combination of -G, -S, -H, and -s for -r.   *)
(***************************************************************************)
EXTENDS SockPub2

MCOptions ==
  [rcv : BOOLEAN, separate : BOOLEAN, hist : BOOLEAN, sleep : BOOLEAN,
   warmup_loops : -1..2, num_msgs : 1..3]

MCGarbage == {-1, 2}
=============================================================================
