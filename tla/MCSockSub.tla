------------------------------ MODULE MCSockSub -----------------------------
(***************************************************************************)
(* A buffer of three datagrams, up to five that arrive, up to two errors.  *)
(***************************************************************************)
EXTENDS SockSub
=============================================================================
