------------------------------ MODULE EventRing ------------------------------
(***************************************************************************)
(* The event ring of cprt.c: cprt_event(), made to be called by any number *)
(* of threads, and cprt_dump_events(), called by the thread whose          *)
(* CPRT_ASSERT fails while the others go on logging.  The programs of the  *)
(* repository do not call cprt_event() yet; this is what they may rely on. *)
(*                                                                         *)
(* An event is its place in the order of the atomic increments, 1, 2, ...; *)
(* cprt_num_events is the int that `logged' is after the increments.       *)
(***************************************************************************)
EXTENDS Integers, Sequences, FiniteSetsExt

CONSTANTS
  Threads,
  MAX_EVENTS,   \* CPRT_MAX_EVENTS, 1024
  W,            \* 2^32, the width of an int
  MaxLogged     \* bound: events logged

ASSUME RingAssumption ==
  /\ MAX_EVENTS \in Nat \ {0}
  /\ W \in Nat /\ W > 2
  /\ W % (2 * MAX_EVENTS) = 0
  /\ MaxLogged \in Nat

VARIABLES
  logged,        \* increments of cprt_num_events
  cprt_events,   \* slot to the event stored in it, 0 before the first
  pc,            \* of each thread: "idle", "store", "dump", "print" or "exit"
  mine,          \* the event a thread has a number for
  n, i, lines,   \* cprt_dump_events(): its locals, and what it has printed
  exited,        \* CPRT_ERR_EXIT
  outside,       \* history: an access outside the array
  overtaken      \* history: an event was stored over a later one

dumpVars == <<n, i, lines>>
vars == <<logged, cprt_events, pc, mine, dumpVars, exited, outside, overtaken>>

Slots == 0..(MAX_EVENTS - 1)

\* C: an int wraps, and a remainder has the sign of the dividend.
ToInt(k) == ((k + W \div 2) % W) - W \div 2
Rem(a) == IF a < 0 THEN 0 - ((0 - a) % MAX_EVENTS) ELSE a % MAX_EVENTS

cprt_num_events == ToInt(logged)

TypeOK ==
  /\ logged \in 0..MaxLogged
  /\ cprt_events \in [Slots -> 0..MaxLogged]
  /\ pc \in [Threads -> {"idle", "store", "dump", "print", "exit"}]
  /\ mine \in [Threads -> 0..MaxLogged]
  /\ n \in [Threads -> Int]
  /\ i \in [Threads -> 1..MAX_EVENTS]
  /\ exited \in BOOLEAN /\ outside \in BOOLEAN /\ overtaken \in BOOLEAN

Init ==
  /\ logged = 0
  /\ cprt_events = [s \in Slots |-> 0]
  /\ pc = [t \in Threads |-> "idle"]
  /\ mine = [t \in Threads |-> 0]
  /\ n = [t \in Threads |-> 0]
  /\ i = [t \in Threads |-> 1]
  /\ lines = [t \in Threads |-> <<>>]
  /\ exited = FALSE
  /\ outside = FALSE
  /\ overtaken = FALSE

Goes(t, from, to) == pc[t] = from /\ pc' = [pc EXCEPT ![t] = to]

----------------------------------------------------------------------------
(* cprt_event().                                                           *)

\* The increment gives the thread a number of its own.
Claim(t) ==
  /\ Goes(t, "idle", "store")
  /\ logged < MaxLogged
  /\ logged' = logged + 1
  /\ mine' = [mine EXCEPT ![t] = logged + 1]
  /\ UNCHANGED <<cprt_events, dumpVars, exited, outside, overtaken>>

MutSlotOf(k) == Rem(ToInt(cprt_num_events - 1))   \* the number is read again

MutSlotBefore(k) == Rem(ToInt(k)) - 1   \* the remainder comes before the subtraction

\* The index is the value before the increment: gcc folds the -1 into the atomic
\* instruction, so it wraps with it.
SlotOf(k) == Rem(ToInt(ToInt(k) - 1))

\* The store is a step of its own: other threads may have run in between.
Store(t) ==
  LET slot == SlotOf(mine[t])
  IN  /\ Goes(t, "store", "idle")
      /\ outside' = (outside \/ slot \notin Slots)
      /\ overtaken' = (overtaken \/ (slot \in Slots /\ cprt_events[slot] > mine[t]))
      /\ cprt_events' = [s \in Slots |-> IF s = slot THEN mine[t] ELSE cprt_events[s]]
      /\ UNCHANGED <<logged, mine, dumpVars, exited>>

----------------------------------------------------------------------------
(* CPRT_ASSERT and cprt_dump_events().                                     *)

AssertFails(t) ==
  /\ Goes(t, "idle", IF cprt_num_events > 0 THEN "dump" ELSE "exit")
  /\ UNCHANGED <<logged, cprt_events, mine, dumpVars, exited, outside, overtaken>>

DumpBegins(t) ==
  /\ Goes(t, "dump", "print")
  /\ n' = [n EXCEPT ![t] = cprt_num_events]
  /\ UNCHANGED <<logged, cprt_events, mine, i, lines, exited, outside, overtaken>>

InFlight(k) == \E t \in Threads : pc[t] = "store" /\ mine[t] = k

MutLast(t) == i[t] = MAX_EVENTS   \* prints a full ring whatever there is

Last(t) == i[t] = MAX_EVENTS \/ i[t] = n[t]

\* One line, newest event first; in_flight tells what no reader of the line can know.
DumpPrints(t) ==
  LET number == ToInt(n[t] - i[t])
      slot == Rem(number)
  IN  /\ Goes(t, "print", IF Last(t) THEN "exit" ELSE "print")
      /\ i' = [i EXCEPT ![t] = IF Last(t) THEN i[t] ELSE i[t] + 1]
      /\ outside' = (outside \/ slot \notin Slots)
      /\ lines' = [lines EXCEPT ![t] = Append(@,
           [number |-> number,
            event |-> IF slot \in Slots THEN cprt_events[slot] ELSE 0,
            in_flight |-> InFlight(number + 1)])]
      /\ UNCHANGED <<logged, cprt_events, mine, n, exited, overtaken>>

Exits(t) ==
  /\ pc[t] = "exit"
  /\ exited' = TRUE
  /\ UNCHANGED <<logged, cprt_events, pc, mine, dumpVars, outside, overtaken>>

Terminated == exited /\ UNCHANGED vars

Next ==
  \/ /\ ~exited
     /\ \E t \in Threads :
          \/ Claim(t) \/ Store(t)
          \/ AssertFails(t) \/ DumpBegins(t) \/ DumpPrints(t) \/ Exits(t)
  \/ Terminated

Spec == Init /\ [][Next]_vars

----------------------------------------------------------------------------
(* Properties.                                                             *)

Wrapped == 2 * logged >= W
Newest(s) == Max({0} \union {k \in 1..logged : SlotOf(k) = s})

\* Once every thread has stored what it had a number for, the ring holds the latest
\* events, each in its place -- unless a store came so late that the ring had gone round.
LatestKept ==
  ~Wrapped /\ ~overtaken /\ (\A t \in Threads : pc[t] # "store") =>
    \A s \in Slots : cprt_events[s] = Newest(s)

\* A line of the dump shows the event with its number.  If not, that event was still
\* between its increment and its store (the line shows an older one), or its slot was
\* used again during the dump (a newer one), or a store had come too late.
LineHonest(t, l) ==
  \/ l.event = l.number + 1
  \/ l.in_flight /\ l.event <= l.number
  \/ l.event > n[t]
  \/ overtaken

\* The dump is honest line by line while other threads log, and complete: all events
\* when the ring has not gone round, the last MAX_EVENTS when it has.
DumpHonest ==
  ~Wrapped => \A t \in Threads :
    /\ \A k \in DOMAIN lines[t] : LineHonest(t, lines[t][k])
    /\ pc[t] = "exit" /\ n[t] > 0 => Len(lines[t]) = Min({n[t], MAX_EVENTS})

\* No access outside the array before the int has wrapped.
OutsideOnlyAfterWrap == outside => Wrapped
=============================================================================
