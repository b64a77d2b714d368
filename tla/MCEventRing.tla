----------------------------- MODULE MCEventRing -----------------------------
(***************************************************************************)
(* Three threads, a ring of two slots, and an int that becomes negative    *)
(* with the sixth event and indexes below the array with the eighth.       *)
(***************************************************************************)
EXTENDS EventRing, TLC

MCSymmetry == Permutations(Threads)
=============================================================================
