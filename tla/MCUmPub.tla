------------------------------ MODULE MCUmPub ------------------------------
(***************************************************************************)
(* Small instances of UmPub: no source, one, as many as there is room for  *)
(* and one more; a warmup of less than nothing, of none, one shorter and   *)
(* one longer than the number of sources; one and two timed messages.  The *)
(* API makes a difference only without persistence.                        *)
(***************************************************************************)
EXTENDS UmPub

MCOptions ==
  {o \in [persist : BOOLEAN, generic : BOOLEAN, hist : BOOLEAN,
          srcs : {0, 1, 3, 4}, warmup : {-1, 0, 1, 4}, msgs : {1, 2}] :
     /\ o.persist => ~o.generic
     /\ o.warmup < 0 => o.srcs < 3}
=============================================================================
