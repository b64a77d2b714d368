------------------------------- MODULE Paced --------------------------------
(***************************************************************************)
(* What one call of send_loop() promises, however it is stalled: exactly   *)
(* the messages asked for, and none before its time, which is the time of  *)
(* the first and one interval more for each after it.                      *)
(***************************************************************************)
EXTENDS Integers

CONSTANTS Calls, NS, MaxNow

VARIABLES
  arg,        \* how many messages, and how many of them in a second
  now,        \* the clock
  num_sent,
  returned

pacedVars == <<arg, now, num_sent, returned>>

PacedInit ==
  /\ arg \in Calls
  /\ now = 0
  /\ num_sent = 0
  /\ returned = FALSE

SendInTime ==
  /\ ~returned
  /\ num_sent < arg.num_sends
  /\ num_sent * NS <= now * arg.sends_per_sec
  /\ num_sent' = num_sent + 1
  /\ UNCHANGED <<arg, now, returned>>

Return ==
  /\ ~returned
  /\ num_sent = arg.num_sends
  /\ returned' = TRUE
  /\ UNCHANGED <<arg, now, num_sent>>

TimePasses ==
  /\ ~returned
  /\ now' \in (now + 1)..MaxNow
  /\ UNCHANGED <<arg, num_sent, returned>>

PacedNext == SendInTime \/ Return \/ TimePasses

PacedSpec == PacedInit /\ [][PacedNext]_pacedVars
=============================================================================
