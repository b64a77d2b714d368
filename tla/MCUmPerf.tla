------------------------------ MODULE MCUmPerf ------------------------------
(***************************************************************************)
(* Two topics, one or two sources, up to three messages in a run, up to    *)
(* two of them in the warmup, and two publishers one after the other.      *)
(***************************************************************************)
EXTENDS UmPerf

MCPlans == [srcs : {1, 2}, warmup : {0, 2}, msgs : {1}]
=============================================================================
