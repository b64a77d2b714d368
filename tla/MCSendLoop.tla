----------------------------- MODULE MCSendLoop -----------------------------
(***************************************************************************)
(* Calls of up to four messages, at one message per two to five ticks or   *)
(* at more than one per tick, with widths small enough that the products   *)
(* of the faster ones wrap within the bound of the clock.                  *)
(***************************************************************************)
EXTENDS SendLoop

MCCalls == [num_sends : {1, 3, 4}, sends_per_sec : {2, 3, 5, 15}]
=============================================================================
