------------------------------ MODULE SendLoop ------------------------------
(***************************************************************************)
(* The pacing of send_loop(): when each message of one call is sent.       *)
(*                                                                         *)
(* The loop reads the clock, works out how many messages should have been  *)
(* sent by now, sends until it has caught up and reads the clock again.    *)
(* All its counts are unsigned 64-bit integers, except max_tight_sends,    *)
(* which is an int: here they wrap at U and I.  Times are relative to      *)
(* start_ts, and any amount of time may pass anywhere in the loop: a send  *)
(* may block and the thread may be preempted.                              *)
(***************************************************************************)
EXTENDS Integers

CONSTANTS
  Calls,     \* the arguments considered, records of num_sends and sends_per_sec
  NS,        \* nanoseconds in a second
  U, I,      \* 2^64 and 2^32
  MaxNow     \* bound: the clock stops here

ASSUME CallsAssumption ==
  Calls \subseteq [num_sends : Nat \ {0}, sends_per_sec : Nat \ {0}]

\* A positive int fits in the unsigned type, with room for the clamp.
ASSUME WidthAssumption ==
  /\ NS \in Nat \ {0}
  /\ MaxNow \in Nat
  /\ I \in Nat \ {0, 1}
  /\ U \in Nat
  /\ I < U
  /\ \A c \in Calls : 2 * c.num_sends < I

VARIABLES
  arg,               \* num_sends and sends_per_sec
  pc,                \* "pace", "send", "clock", "returned"
  now,               \* the clock
  cur_ts,            \* the last time the loop has read
  num_sent, should_have_sent, max_tight_sends,
  gap, wrapped       \* history: longest time between two readings; a product has wrapped

vars == <<arg, pc, now, cur_ts, num_sent, should_have_sent, max_tight_sends, gap, wrapped>>

TypeOK ==
  /\ arg \in Calls
  /\ pc \in {"pace", "send", "clock", "returned"}
  /\ now \in 0..MaxNow
  /\ cur_ts \in 0..now
  /\ num_sent \in 0..arg.num_sends
  /\ should_have_sent \in 0..arg.num_sends
  /\ max_tight_sends \in Int
  /\ gap \in 0..MaxNow
  /\ wrapped \in BOOLEAN

Init ==
  /\ arg \in Calls
  /\ pc = "pace"
  /\ now = 0
  /\ cur_ts = 0
  /\ num_sent = 0
  /\ should_have_sent = 0
  /\ max_tight_sends = 0
  /\ gap = 0
  /\ wrapped = FALSE

----------------------------------------------------------------------------
\* Conversion of an unsigned value to an int.
ToInt(n) == LET r == n % I IN IF 2 * r >= I THEN r - I ELSE r

MutDueEarly(ns_so_far) ==   \* the last slot is rounded up
  LET n == ((ns_so_far * arg.sends_per_sec) % U) \div NS + 2
  IN  IF n > arg.num_sends THEN arg.num_sends ELSE n

\* How many messages should have been sent; one at once, "we want to send, then pause".
Due(ns_so_far) ==
  LET n == ((ns_so_far * arg.sends_per_sec) % U) \div NS + 1
  IN  IF n > arg.num_sends THEN arg.num_sends ELSE n

MutPaceTotal ==   \* takes what is due in total for what is due now
  /\ pc = "pace"
  /\ should_have_sent' = Due(cur_ts)
  /\ max_tight_sends' = IF should_have_sent' > max_tight_sends % U
                          THEN ToInt(should_have_sent') ELSE max_tight_sends
  /\ wrapped' = (wrapped \/ cur_ts * arg.sends_per_sec >= U)
  /\ pc' = IF num_sent < should_have_sent' THEN "send" ELSE "clock"
  /\ UNCHANGED <<arg, now, cur_ts, num_sent, gap>>

MutPaceLast ==   \* keeps the last number of messages sent at once, not the largest
  /\ pc = "pace"
  /\ should_have_sent' = Due(cur_ts)
  /\ max_tight_sends' = ToInt((should_have_sent' - num_sent) % U)
  /\ wrapped' = (wrapped \/ cur_ts * arg.sends_per_sec >= U)
  /\ pc' = IF num_sent < should_have_sent' THEN "send" ELSE "clock"
  /\ UNCHANGED <<arg, now, cur_ts, num_sent, gap>>

Pace ==
  /\ pc = "pace"
  /\ should_have_sent' = Due(cur_ts)
  /\ LET behind == (should_have_sent' - num_sent) % U
     IN  max_tight_sends' = IF behind > max_tight_sends % U THEN ToInt(behind) ELSE max_tight_sends
  /\ wrapped' = (wrapped \/ cur_ts * arg.sends_per_sec >= U)
  /\ pc' = IF num_sent < should_have_sent' THEN "send" ELSE "clock"
  /\ UNCHANGED <<arg, now, cur_ts, num_sent, gap>>

MutSendOne ==   \* one message for each reading of the clock
  /\ pc = "send"
  /\ num_sent' = num_sent + 1
  /\ pc' = "clock"
  /\ UNCHANGED <<arg, now, cur_ts, should_have_sent, max_tight_sends, gap, wrapped>>

SendOne ==
  /\ pc = "send"
  /\ num_sent' = num_sent + 1
  /\ pc' = IF num_sent' < should_have_sent THEN "send" ELSE "clock"
  /\ UNCHANGED <<arg, now, cur_ts, should_have_sent, max_tight_sends, gap, wrapped>>

MutReadClockLoop ==   \* goes on after the last message
  /\ pc = "clock"
  /\ cur_ts' = now
  /\ gap' = IF now - cur_ts > gap THEN now - cur_ts ELSE gap
  /\ pc' = IF num_sent <= arg.num_sends THEN "pace" ELSE "returned"
  /\ UNCHANGED <<arg, now, num_sent, should_have_sent, max_tight_sends, wrapped>>

ReadClock ==
  /\ pc = "clock"
  /\ cur_ts' = now
  /\ gap' = IF now - cur_ts > gap THEN now - cur_ts ELSE gap
  /\ pc' = IF num_sent < arg.num_sends THEN "pace" ELSE "returned"
  /\ UNCHANGED <<arg, now, num_sent, should_have_sent, max_tight_sends, wrapped>>

Step == Pace \/ SendOne \/ ReadClock

\* CLOCK_MONOTONIC: time passes, by one nanosecond or by the length of a stall.
Tick ==
  /\ pc # "returned"
  /\ now' \in (now + 1)..MaxNow
  /\ UNCHANGED <<arg, pc, cur_ts, num_sent, should_have_sent, max_tight_sends, gap, wrapped>>

Returned == pc = "returned" /\ UNCHANGED vars

Next == Step \/ Tick \/ Returned

\* The thread runs and the clock goes on.
Spec == Init /\ [][Next]_vars
FairSpec == Spec /\ WF_vars(Step) /\ WF_vars(Tick)

----------------------------------------------------------------------------
(* Properties.                                                             *)

\* Message number k is never sent before k / sends_per_sec seconds have passed, stalls
\* and wrapped products included: catching up never overtakes the schedule.  main()
\* reports (actual_sends - 1) / duration, "Don't count initial message": so the rate
\* it reports is never above the rate that was asked for.
NeverAhead ==
  num_sent > 0 => (num_sent - 1) * NS <= now * arg.sends_per_sec

\* After each catching up nothing that was due at the last reading is left, unless a
\* product has wrapped.
CaughtUp ==
  pc = "clock" /\ ~wrapped => num_sent = should_have_sent

\* max_tight_sends greater than one is evidence of a stall: between two readings of the
\* clock there was time for max_tight_sends - 1 messages.
TightMeansStall ==
  ~wrapped => (max_tight_sends - 1) * NS <= gap * arg.sends_per_sec

\* And max_tight_sends below two is evidence of none: while there is more to send, no two
\* readings were as far apart as two messages.
NoStallUnseen ==
  pc = "clock" /\ ~wrapped /\ max_tight_sends <= 1 /\ num_sent < arg.num_sends
    => gap * arg.sends_per_sec < 2 * NS

\* Progress is never undone: the loop asks for no fewer messages at a later reading,
\* unless a product wraps.
DueGrows == [][should_have_sent' >= should_have_sent \/ wrapped']_vars

\* A call of send_loop() is one of Paced, with products that wrap too: a message is sent only
\* at its time or later, and the call returns with neither more nor fewer than num_sends.
Call == INSTANCE Paced WITH returned <- pc = "returned"
RefinesPaced == Call!PacedSpec

\* Every call returns, after exactly num_sends messages, if the clock reaches the end of
\* the schedule before a product wraps.
Returns == <>(wrapped \/ (pc = "returned" /\ num_sent = arg.num_sends))

----------------------------------------------------------------------------
(* The inductive invariant behind the safety properties, by parts.         *)

\* What is due is due by the last reading, and inside the loop something is.
OnSchedule ==
  /\ should_have_sent > 0 => (should_have_sent - 1) * NS <= cur_ts * arg.sends_per_sec
  /\ num_sent > 0 => (num_sent - 1) * NS <= cur_ts * arg.sends_per_sec
  /\ pc = "send" => num_sent < should_have_sent

\* Without a wrapped product the loop is level with what was due at the reading before,
\* and that reading was not longer ago than the longest gap.
Level ==
  ~wrapped =>
    /\ pc # "send" => num_sent = should_have_sent
    /\ num_sent <= should_have_sent
    /\ max_tight_sends \in 0..arg.num_sends
    /\ \/ should_have_sent = arg.num_sends
       \/ pc = "pace" /\ should_have_sent = 0 /\ cur_ts = 0
       \/ pc = "pace" /\ (cur_ts - gap) * arg.sends_per_sec < should_have_sent * NS
       \/ pc # "pace" /\ cur_ts * arg.sends_per_sec < should_have_sent * NS

\* While never more than one message was due at once, no gap was as long as two, but for
\* the last one before a pace: then the message that is about to be found due makes it two.
Unseen ==
  ~wrapped /\ max_tight_sends <= 1 =>
    /\ pc \in {"send", "clock"} /\ should_have_sent < arg.num_sends
         => gap * arg.sends_per_sec < 2 * NS
    /\ pc = "pace" =>
         \/ gap * arg.sends_per_sec < 2 * NS
         \/ /\ should_have_sent > 0
            /\ (should_have_sent - 1) * NS <= (cur_ts - gap) * arg.sends_per_sec
=============================================================================
