---------------------------- MODULE MCHistogram -----------------------------
(***************************************************************************)
(* An int of four bits: it is negative from 8 on and wraps at 16.          *)
(* Histograms of one and two buckets, some of which end below, at and      *)
(* above the largest int; for um_perf_jitter also none, and buckets of     *)
(* width -1 and 0, with -1 to four iterations and a ring of two blocks.    *)
(***************************************************************************)
EXTENDS Jitter

MCConfigs ==
  [program : {"um_perf_pub", "sock_perf_pub", "sock_perf_pub2"}, num_buckets : {1, 2},
   ns_per_bucket : {1, 3}, loops : {0}, malloc : {FALSE}]
  \union
  [program : {"um_perf_jitter"}, num_buckets : {0, 2}, ns_per_bucket : {-1, 0, 3},
   loops : {-1, 0, 1, 4}, malloc : BOOLEAN]
=============================================================================
