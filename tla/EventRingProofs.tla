--------------------------- MODULE EventRingProofs --------------------------
(***************************************************************************)
(* Proofs about EventRing, for any threads, size of the ring and width of  *)
(* the counter.                                                            *)
(***************************************************************************)
EXTENDS EventRing, TLAPS

----------------------------------------------------------------------------
(* The arithmetic of the index.                                            *)

LEMMA ModBounds ==
  ASSUME NEW a \in Nat, NEW d \in Nat \ {0}
  PROVE  a % d \in 0..(d - 1) /\ (a < d => a % d = a)
OBVIOUS

LEMMA DivMod ==
  ASSUME NEW a \in Int, NEW d \in Int, d > 0
  PROVE  a = d * (a \div d) + (a % d)
BY Z3

LEMMA Quotient ==
  ASSUME NEW a \in Nat, NEW d \in Nat \ {0}
  PROVE  \E p \in Nat : a = d * p + (a % d)
<1>1. d \in Int /\ d > 0   OBVIOUS
<1>2. a \div d \in Nat   OBVIOUS
<1>3. a = d * (a \div d) + (a % d)   BY <1>1, DivMod
<1>4. QED   BY <1>2, <1>3

LEMMA TimesLess ==
  ASSUME NEW p \in Nat, NEW q \in Nat, NEW d \in Nat \ {0}, d * p > d * q
  PROVE  d * p >= d * q + d
<1>1. p > q   OBVIOUS
<1>2. p - q - 1 \in Nat   BY <1>1
<1>3. d * (p - q - 1) \in Nat   BY <1>2
<1>4. d * (p - q - 1) = d * p - d * q - d   OBVIOUS
<1>5. d * p \in Nat /\ d * q \in Nat   OBVIOUS
<1>6. QED   BY <1>3, <1>4, <1>5

\* Two numbers of one slot are a turn of the ring apart.
LEMMA SameSlot ==
  ASSUME NEW a \in Nat, NEW b \in Nat, NEW d \in Nat \ {0}, a > b, a % d = b % d
  PROVE  a >= b + d
<1>1. PICK p \in Nat : a = d * p + (a % d)   BY Quotient
<1>2. PICK q \in Nat : b = d * q + (b % d)   BY Quotient
<1>3. a % d \in Nat   OBVIOUS
<1>4. d * p \in Nat /\ d * q \in Nat   OBVIOUS
<1>5. d * p > d * q   BY <1>1, <1>2, <1>3, <1>4
<1>6. d * p >= d * q + d   BY <1>5, TimesLess
<1>7. QED   BY <1>1, <1>2, <1>3, <1>4, <1>6

LEMMA HalfBelow ==
  ASSUME NEW a \in Nat, NEW w \in Nat, ~(2 * a >= w)
  PROVE  2 * a < w
OBVIOUS

\* An event before the wrap has the number it was given.
LEMMA ToIntId == ASSUME NEW k \in Nat, 2 * k < W PROVE ToInt(k) = k
<1>1. W \in Nat \ {0}   BY RingAssumption
<1>2. k + W \div 2 \in Nat /\ k + W \div 2 < W   BY <1>1
<1>3. (k + W \div 2) % W = k + W \div 2   BY <1>1, <1>2, ModBounds
<1>4. QED   BY <1>1, <1>3 DEF ToInt

LEMMA RemSlot == ASSUME NEW k \in Nat PROVE Rem(k) = k % MAX_EVENTS /\ Rem(k) \in Slots
BY RingAssumption, ModBounds DEF Rem, Slots

LEMMA SlotBefore ==
  ASSUME NEW k \in Nat \ {0}, 2 * k < W
  PROVE  SlotOf(k) = (k - 1) % MAX_EVENTS /\ SlotOf(k) \in Slots
<1>1. W \in Nat   BY RingAssumption
<1>2. ToInt(k) = k /\ ToInt(k - 1) = k - 1   BY <1>1, ToIntId
<1>3. QED   BY <1>2, RemSlot DEF SlotOf

LEMMA SlotsBefore ==
  ASSUME NEW m \in Nat, 2 * m < W
  PROVE  \A k \in 1..m : SlotOf(k) \in Slots
<1> TAKE k \in 1..m
<1>1. W \in Nat   BY RingAssumption
<1>2. k \in Nat \ {0} /\ 2 * k < W   BY <1>1
<1>3. QED   BY <1>2, SlotBefore

----------------------------------------------------------------------------
(* The inductive invariant.                                                *)

Line == [number : Int, event : Nat, in_flight : BOOLEAN]

Types == TypeOK /\ lines \in [Threads -> Seq(Line)]

\* A thread that has a number to store has one that was given out.
Claimed == \A t \in Threads : pc[t] = "store" => mine[t] \in 1..logged

\* A dump walks back from a number that was given out, without leaving the ones below.
Dumping ==
  ~Wrapped => \A t \in Threads :
    /\ pc[t] \in {"idle", "store"} => n[t] = 0
    /\ pc[t] # "print" /\ pc[t] # "exit" => i[t] = 1 /\ lines[t] = <<>>
    /\ pc[t] = "dump" => logged > 0
    /\ pc[t] = "print" => n[t] \in 1..logged /\ i[t] <= n[t]

IInv == Types /\ Claimed /\ Dumping /\ OutsideOnlyAfterWrap

LEMMA InitInv == Init => IInv
<1> SUFFICES ASSUME Init PROVE IInv   OBVIOUS
<1>1. MAX_EVENTS \in Nat \ {0} /\ MaxLogged \in Nat   BY RingAssumption
<1>2. TypeOK
  <2>1. /\ logged \in 0..MaxLogged /\ cprt_events \in [Slots -> 0..MaxLogged]
        /\ pc \in [Threads -> {"idle", "store", "dump", "print", "exit"}]
        /\ mine \in [Threads -> 0..MaxLogged]
    BY <1>1 DEF Init
  <2>2. n \in [Threads -> Int] /\ i \in [Threads -> 1..MAX_EVENTS]
    BY <1>1 DEF Init
  <2>3. exited \in BOOLEAN /\ outside \in BOOLEAN /\ overtaken \in BOOLEAN
    BY DEF Init
  <2>4. QED   BY <2>1, <2>2, <2>3 DEF TypeOK
<1>3. lines \in [Threads -> Seq(Line)]
  <2>1. <<>> \in Seq(Line)   OBVIOUS
  <2>2. QED   BY <2>1 DEF Init
<1>4. Claimed /\ OutsideOnlyAfterWrap   BY DEF Init, Claimed, OutsideOnlyAfterWrap
<1>5. Dumping   BY DEF Init, Dumping
<1>6. QED   BY <1>2, <1>3, <1>4, <1>5 DEF IInv, Types

\* Before the wrap the counter is the number of increments, and was all along.
LEMMA NotWrapped ==
  ASSUME IInv, [Next]_vars, ~Wrapped'
  PROVE  ~Wrapped /\ logged \in Nat /\ logged' \in Nat /\ logged <= logged' /\ W \in Nat
<1>1. W \in Nat   BY RingAssumption
<1>2. logged \in Nat   BY RingAssumption DEF IInv, Types, TypeOK
<1>3. logged' = logged \/ logged' = logged + 1
  BY DEF Next, vars, dumpVars, Claim, Store, AssertFails, DumpBegins, DumpPrints, Exits, Terminated
<1>4. QED   BY <1>1, <1>2, <1>3 DEF Wrapped

LEMMA CountIsLogged == ASSUME logged \in Nat, ~Wrapped PROVE cprt_num_events = logged
<1>1. W \in Nat   BY RingAssumption
<1>2. 2 * logged < W   BY <1>1 DEF Wrapped
<1>3. QED   BY <1>2, ToIntId DEF cprt_num_events

\* The slot a line of a dump reads.
LEMMA PrintSlot ==
  ASSUME IInv, ~Wrapped, NEW t \in Threads, pc[t] = "print"
  PROVE  /\ n[t] - i[t] \in Nat /\ 2 * (n[t] - i[t]) < W
         /\ ToInt(n[t] - i[t]) = n[t] - i[t]
         /\ Rem(n[t] - i[t]) = (n[t] - i[t]) % MAX_EVENTS
         /\ Rem(n[t] - i[t]) \in Slots
<1>1. /\ W \in Nat /\ MAX_EVENTS \in Nat \ {0} /\ logged \in Nat
      /\ i[t] \in 1..MAX_EVENTS /\ n[t] \in 1..logged /\ i[t] <= n[t]
  BY RingAssumption DEF IInv, Types, TypeOK, Dumping
<1>2. n[t] - i[t] \in Nat /\ 2 * (n[t] - i[t]) < W   BY <1>1 DEF Wrapped
<1>3. QED   BY <1>2, ToIntId, RemSlot

LEMMA TypesStep == ASSUME IInv, [Next]_vars PROVE Types'
<1>0. /\ MAX_EVENTS \in Nat \ {0} /\ MaxLogged \in Nat /\ W \in Nat \ {0}
  BY RingAssumption
<1> USE <1>0 DEF IInv, Types, TypeOK, dumpVars, Goes
<1>1. ASSUME NEW t \in Threads, Claim(t) PROVE Types'   BY <1>1 DEF Claim
<1>2. ASSUME NEW t \in Threads, Store(t) PROVE Types'
  <2>1. cprt_events' \in [Slots -> 0..MaxLogged]   BY <1>2 DEF Store
  <2>2. QED   BY <1>2, <2>1 DEF Store
<1>3. ASSUME NEW t \in Threads, AssertFails(t) PROVE Types'   BY <1>3 DEF AssertFails
<1>4. ASSUME NEW t \in Threads, DumpBegins(t) PROVE Types'
  <2>1. cprt_num_events \in Int   BY DEF cprt_num_events, ToInt
  <2>2. QED   BY <1>4, <2>1 DEF DumpBegins
<1>5. ASSUME NEW t \in Threads, DumpPrints(t) PROVE Types'
  <2> DEFINE number == ToInt(n[t] - i[t])
             slot == Rem(number)
             l == [number |-> number, event |-> IF slot \in Slots THEN cprt_events[slot] ELSE 0,
                   in_flight |-> InFlight(number + 1)]
  <2>1. number \in Int   BY DEF ToInt
  <2>2. l \in Line   BY <2>1 DEF Line, InFlight
  <2>3. lines' = [lines EXCEPT ![t] = Append(@, l)]   BY <1>5 DEF DumpPrints
  <2>4. lines' \in [Threads -> Seq(Line)]
    <3> HIDE DEF l
    <3>1. QED   BY <2>2, <2>3
  <2>5. i' \in [Threads -> 1..MAX_EVENTS]   BY <1>5 DEF DumpPrints, Last
  <2>6. QED   BY <1>5, <2>4, <2>5 DEF DumpPrints
<1>6. ASSUME NEW t \in Threads, Exits(t) PROVE Types'   BY <1>6 DEF Exits
<1>7. CASE UNCHANGED vars   BY <1>7 DEF vars
<1>8. QED   BY <1>1, <1>2, <1>3, <1>4, <1>5, <1>6, <1>7 DEF Next, Terminated

LEMMA ClaimedStep == ASSUME IInv, [Next]_vars PROVE Claimed'
<1> USE DEF IInv, Types, TypeOK, Claimed, Goes
<1>1. ASSUME NEW t \in Threads, Claim(t) PROVE Claimed'   BY <1>1 DEF Claim
<1>2. ASSUME NEW t \in Threads,
             Store(t) \/ AssertFails(t) \/ DumpBegins(t) \/ DumpPrints(t) \/ Exits(t)
      PROVE  Claimed'
  BY <1>2 DEF Store, AssertFails, DumpBegins, DumpPrints, Exits
<1>3. CASE UNCHANGED vars   BY <1>3 DEF vars
<1>4. QED   BY <1>1, <1>2, <1>3 DEF Next, Terminated

LEMMA DumpingStep == ASSUME IInv, [Next]_vars PROVE Dumping'
<1> SUFFICES ASSUME ~Wrapped' PROVE Dumping'   BY DEF Dumping
<1>0. ~Wrapped /\ logged \in Nat /\ logged' \in Nat /\ logged <= logged'   BY NotWrapped
<1>a. cprt_num_events = logged   BY <1>0, CountIsLogged
<1> USE <1>0, <1>a, RingAssumption DEF IInv, Types, TypeOK, Dumping, Goes, dumpVars
<1>1. ASSUME NEW t \in Threads, Claim(t) PROVE Dumping'   BY <1>1 DEF Claim
<1>2. ASSUME NEW t \in Threads, Store(t) PROVE Dumping'   BY <1>2 DEF Store
<1>3. ASSUME NEW t \in Threads, AssertFails(t) PROVE Dumping'   BY <1>3 DEF AssertFails
<1>4. ASSUME NEW t \in Threads, DumpBegins(t) PROVE Dumping'   BY <1>4 DEF DumpBegins
<1>5. ASSUME NEW t \in Threads, DumpPrints(t) PROVE Dumping'   BY <1>5 DEF DumpPrints, Last
<1>6. ASSUME NEW t \in Threads, Exits(t) PROVE Dumping'   BY <1>6 DEF Exits
<1>7. CASE UNCHANGED vars   BY <1>7 DEF vars
<1>8. QED   BY <1>1, <1>2, <1>3, <1>4, <1>5, <1>6, <1>7 DEF Next, Terminated

LEMMA InsideStep == ASSUME IInv, [Next]_vars PROVE OutsideOnlyAfterWrap'
<1> SUFFICES ASSUME ~Wrapped' PROVE ~outside'   BY DEF OutsideOnlyAfterWrap
<1>0. ~Wrapped /\ logged \in Nat /\ ~outside /\ W \in Nat
  BY NotWrapped DEF IInv, OutsideOnlyAfterWrap
<1>1. ASSUME NEW t \in Threads, Store(t) PROVE ~outside'
  <2>1. mine[t] \in 1..logged   BY <1>1 DEF IInv, Claimed, Store, Goes
  <2>2. SlotOf(mine[t]) \in Slots   BY <1>0, <2>1, SlotBefore DEF Wrapped
  <2>3. QED   BY <1>0, <1>1, <2>2 DEF Store
<1>2. ASSUME NEW t \in Threads, DumpPrints(t) PROVE ~outside'
  <2>1. pc[t] = "print"   BY <1>2 DEF DumpPrints, Goes
  <2>2. Rem(ToInt(n[t] - i[t])) \in Slots   BY <1>0, <2>1, PrintSlot
  <2>3. QED   BY <1>0, <1>2, <2>2 DEF DumpPrints
<1>3. ASSUME NEW t \in Threads, Claim(t) \/ AssertFails(t) \/ DumpBegins(t) \/ Exits(t)
      PROVE  ~outside'
  BY <1>0, <1>3 DEF Claim, AssertFails, DumpBegins, Exits
<1>4. CASE UNCHANGED vars   BY <1>0, <1>4 DEF vars
<1>5. QED   BY <1>1, <1>2, <1>3, <1>4 DEF Next, Terminated

LEMMA Invariance == Spec => []IInv
<1>1. IInv /\ [Next]_vars => IInv'
  BY TypesStep, ClaimedStep, DumpingStep, InsideStep DEF IInv
<1>2. QED   BY <1>1, InitInv, PTL DEF Spec

\* The slots, the numbers and the positions of the threads that log and dump stay what the
\* code takes them for, however many there are and wherever the counter has got to.
THEOREM TypeCorrect == Spec => []TypeOK
BY Invariance, PTL DEF IInv, Types

\* An index outside the array is never used before the counter has wrapped, by any of the
\* threads that log or dump.
THEOREM InsideBeforeWrap == Spec => []OutsideOnlyAfterWrap
BY Invariance, PTL DEF IInv

----------------------------------------------------------------------------
(* What is in the slots.                                                   *)

\* A slot has an event of its own.
InPlace ==
  \A s \in Slots :
    cprt_events[s] # 0 => cprt_events[s] \in 1..logged /\ SlotOf(cprt_events[s]) = s

\* An event that has been stored is in its slot, or a newer one is.
Arrived == \A k \in 1..logged : InFlight(k) \/ k <= cprt_events[SlotOf(k)]

Places == ~Wrapped /\ ~overtaken => InPlace /\ Arrived

LEMMA PlacesStep == ASSUME IInv, Places, [Next]_vars PROVE Places'
<1> SUFFICES ASSUME ~Wrapped', ~overtaken' PROVE Places'   BY DEF Places
<1>0. ~Wrapped /\ logged \in Nat /\ logged' \in Nat /\ logged <= logged' /\ W \in Nat
  BY NotWrapped
<1>a. ~overtaken
  BY DEF Next, Terminated, vars, Claim, Store, AssertFails, DumpBegins, DumpPrints, Exits
<1>b. /\ cprt_events \in [Slots -> Nat]
      /\ pc \in [Threads -> {"idle", "store", "dump", "print", "exit"}]
      /\ mine \in [Threads -> Nat]
  BY RingAssumption DEF IInv, Types, TypeOK
<1>c. \A k \in 1..logged' : SlotOf(k) \in Slots
  <2>1. ~(2 * logged' >= W)   BY DEF Wrapped
  <2>2. 2 * logged' < W   BY <1>0, <2>1, HalfBelow
  <2>3. QED   BY <1>0, <2>2, SlotsBefore
<1>d. InPlace /\ Arrived   BY <1>0, <1>a DEF Places
<1> SUFFICES InPlace' /\ Arrived'   BY DEF Places
<1>1. ASSUME NEW t \in Threads, Claim(t) PROVE InPlace' /\ Arrived'
  <2>0. /\ logged' = logged + 1 /\ cprt_events' = cprt_events
        /\ pc[t] = "idle" /\ pc'[t] = "store" /\ mine'[t] = logged + 1
        /\ \A u \in Threads : u # t => pc'[u] = pc[u] /\ mine'[u] = mine[u]
    BY <1>1, <1>b DEF Claim, Goes
  <2>1. InPlace'   BY <1>0, <1>d, <2>0 DEF InPlace, SlotOf
  <2>2. ASSUME NEW k \in 1..logged, InFlight(k) PROVE InFlight(k)'
    BY <2>0, <2>2 DEF InFlight
  <2>3. ASSUME NEW k \in 1..logged', k = logged' PROVE InFlight(k)'
    BY <2>0, <2>3 DEF InFlight
  <2>4. ASSUME NEW k \in 1..logged' PROVE InFlight(k)' \/ k <= cprt_events[SlotOf(k)]
    <3>1. CASE k = logged'   BY <2>3, <3>1
    <3>2. CASE k # logged'
      <4>1. k \in 1..logged   BY <1>0, <2>0, <3>2
      <4>2. QED   BY <1>d, <2>2, <4>1 DEF Arrived
    <3>3. QED   BY <3>1, <3>2
  <2>5. Arrived'   BY <2>0, <2>4 DEF Arrived, SlotOf
  <2>6. QED   BY <2>1, <2>5
<1>2. ASSUME NEW t \in Threads, Store(t) PROVE InPlace' /\ Arrived'
  <2> DEFINE m == mine[t]
  <2>1. m \in 1..logged   BY <1>2 DEF IInv, Claimed, Store, Goes
  <2>2. SlotOf(m) \in Slots   BY <1>0, <1>2, <1>c, <2>1 DEF Store
  <2>3. logged' = logged /\ \A s \in Slots : cprt_events'[s] = IF s = SlotOf(m) THEN m ELSE cprt_events[s]
    BY <1>2 DEF Store
  <2>4. cprt_events[SlotOf(m)] <= m
    <3>1. ~(cprt_events[SlotOf(m)] > m)   BY <1>2, <2>2 DEF Store
    <3>2. cprt_events[SlotOf(m)] \in Nat /\ m \in Nat   BY <1>0, <1>b, <2>1, <2>2
    <3>3. QED   BY <3>1, <3>2
  <2>5. InPlace'   BY <1>d, <2>1, <2>2, <2>3 DEF InPlace, SlotOf
  <2>6. ASSUME NEW k \in 1..logged, InFlight(k), k # m PROVE InFlight(k)'
    BY <1>2, <1>b, <2>6 DEF Store, InFlight, Goes
  <2>7. ASSUME NEW k \in 1..logged PROVE InFlight(k)' \/ k <= cprt_events'[SlotOf(k)]
    <3>1. SlotOf(k) \in Slots   BY <1>0, <1>c
    <3>2. CASE k = m   BY <2>1, <2>2, <2>3, <3>2
    <3>3. CASE k # m
      <4>1. InFlight(k)' \/ k <= cprt_events[SlotOf(k)]   BY <1>d, <2>6, <3>3 DEF Arrived
      <4>2. cprt_events[SlotOf(k)] <= cprt_events'[SlotOf(k)]
        BY <1>b, <2>1, <2>2, <2>3, <2>4, <3>1
      <4>3. cprt_events[SlotOf(k)] \in Nat /\ cprt_events'[SlotOf(k)] \in Nat
        BY <1>b, <2>1, <2>2, <2>3, <3>1
      <4>4. QED   BY <4>1, <4>2, <4>3
    <3>4. QED   BY <3>2, <3>3
  <2>8. Arrived'   BY <2>3, <2>7 DEF Arrived, SlotOf
  <2>9. QED   BY <2>5, <2>8
<1>3. ASSUME NEW t \in Threads, AssertFails(t) \/ DumpBegins(t) \/ DumpPrints(t) \/ Exits(t)
      PROVE  InPlace' /\ Arrived'
  <2>1. UNCHANGED <<logged, cprt_events, mine>>
    BY <1>3 DEF AssertFails, DumpBegins, DumpPrints, Exits
  <2>2. \A u \in Threads : pc[u] = "store" <=> pc'[u] = "store"
    BY <1>3, <1>b DEF AssertFails, DumpBegins, DumpPrints, Exits, Goes
  <2>3. QED   BY <1>d, <2>1, <2>2 DEF InPlace, Arrived, InFlight, SlotOf
<1>4. CASE UNCHANGED vars   BY <1>d, <1>4 DEF vars, InPlace, Arrived, InFlight, SlotOf
<1>5. QED   BY <1>1, <1>2, <1>3, <1>4 DEF Next, Terminated

LEMMA PlacesInvariance == Spec => [](IInv /\ Places)
<1>1. Init => Places
  <2> SUFFICES ASSUME Init PROVE InPlace /\ Arrived   BY DEF Places
  <2>1. InPlace   BY DEF Init, InPlace
  <2>2. 1..logged = {}   BY DEF Init
  <2>3. Arrived   BY <2>2 DEF Arrived
  <2>4. QED   BY <2>1, <2>3
<1>2. QED   BY <1>1, Invariance, PlacesStep, PTL DEF Spec

\* Before the wrap the ring holds the latest events, each in its place, once every thread
\* has stored what it had a number for -- unless a store was late by a turn of the ring.
THEOREM RingKeepsLatest == Spec => []LatestKept
<1>1. ASSUME IInv, Places PROVE LatestKept
  <2> SUFFICES ASSUME ~Wrapped, ~overtaken, \A t \in Threads : pc[t] # "store",
                      NEW s \in Slots
               PROVE  cprt_events[s] = Newest(s)
    BY DEF LatestKept
  <2> DEFINE S == {0} \union {k \in 1..logged : SlotOf(k) = s}
  <2>1. cprt_events[s] \in S   BY <1>1 DEF Places, InPlace
  <2>2. \A k \in S : cprt_events[s] >= k
    <3>1. cprt_events[s] \in Nat   BY <1>1, RingAssumption DEF IInv, Types, TypeOK
    <3>2. QED   BY <1>1, <3>1 DEF Places, Arrived, InFlight
  <2>3. S \subseteq Int   BY <1>1, RingAssumption DEF IInv, Types, TypeOK
  <2>4. cprt_events[s] = Max(S)
    <3> HIDE DEF S
    <3>1. Max(S) \in S /\ \A k \in S : Max(S) >= k   BY <2>1, <2>2 DEF Max
    <3>2. cprt_events[s] \in Int /\ Max(S) \in Int   BY <2>1, <2>3, <3>1
    <3>3. cprt_events[s] >= Max(S) /\ Max(S) >= cprt_events[s]   BY <2>1, <2>2, <3>1
    <3>4. QED   BY <3>2, <3>3
  <2>5. QED   BY <2>4 DEF Newest
<1>2. QED   BY <1>1, PlacesInvariance, PTL

----------------------------------------------------------------------------
(* What a dump prints.                                                     *)

Printing ==
  ~Wrapped => \A t \in Threads :
    /\ \A k \in DOMAIN lines[t] : LineHonest(t, lines[t][k])
    /\ pc[t] = "print" => Len(lines[t]) = i[t] - 1
    /\ pc[t] = "exit" /\ n[t] > 0 => Len(lines[t]) = Min({n[t], MAX_EVENTS})

\* The line that is printed next is honest, whatever the other threads are doing.
LEMMA NextLineHonest ==
  ASSUME IInv, Places, ~Wrapped, NEW t \in Threads, pc[t] = "print"
  PROVE  LET m == n[t] - i[t]
             e == cprt_events[Rem(m)]
         IN  e = m + 1 \/ (InFlight(m + 1) /\ e <= m) \/ e > n[t] \/ overtaken
<1> DEFINE m == n[t] - i[t]
           e == cprt_events[Rem(m)]
<1> SUFFICES ASSUME ~overtaken
             PROVE  e = m + 1 \/ (InFlight(m + 1) /\ e <= m) \/ e > n[t]
  OBVIOUS
<1>1. /\ m \in Nat /\ 2 * m < W /\ ToInt(m) = m
      /\ Rem(m) = m % MAX_EVENTS /\ Rem(m) \in Slots
  BY PrintSlot
<1>2. /\ W \in Nat /\ MAX_EVENTS \in Nat \ {0} /\ logged \in Nat /\ 2 * logged < W
      /\ i[t] \in 1..MAX_EVENTS /\ n[t] \in 1..logged /\ i[t] <= n[t]
  BY RingAssumption DEF IInv, Types, TypeOK, Dumping, Wrapped
<1>3. m + 1 \in 1..logged /\ n[t] <= m + MAX_EVENTS   BY <1>2
<1>4. e = cprt_events[Rem(m)]   OBVIOUS
<1>5. e \in Nat   BY <1>1, RingAssumption DEF IInv, Types, TypeOK
<1> HIDE DEF m, e
<1>6. SlotOf(m + 1) = Rem(m)
  <2>1. m + 1 \in Nat \ {0} /\ 2 * (m + 1) < W /\ (m + 1) - 1 = m   BY <1>1, <1>2, <1>3
  <2>2. QED   BY <1>1, <2>1, SlotBefore
<1>7. InFlight(m + 1) \/ m + 1 <= e   BY <1>3, <1>4, <1>6 DEF Places, Arrived
<1>8. CASE e > m + 1
  <2>1. e \in 1..logged /\ SlotOf(e) = Rem(m)   BY <1>1, <1>4, <1>8 DEF Places, InPlace
  <2>2. e \in Nat \ {0} /\ 2 * e < W   BY <1>2, <2>1
  <2>3. (e - 1) % MAX_EVENTS = m % MAX_EVENTS   BY <1>1, <2>1, <2>2, SlotBefore
  <2>4. e - 1 \in Nat /\ e - 1 > m   BY <1>1, <1>5, <1>8
  <2>5. e - 1 >= m + MAX_EVENTS   BY <1>1, <1>2, <2>3, <2>4, SameSlot
  <2>6. e > n[t]   BY <1>1, <1>2, <1>3, <1>5, <2>5
  <2>7. QED   BY <2>6
<1>9. CASE e <= m + 1   BY <1>1, <1>5, <1>7, <1>9 DEF m
<1>10. QED   BY <1>1, <1>5, <1>8, <1>9

LEMMA PrintingStep == ASSUME IInv, Places, Printing, [Next]_vars PROVE Printing'
<1> SUFFICES ASSUME ~Wrapped' PROVE Printing'   BY DEF Printing
<1>0. ~Wrapped   BY NotWrapped
<1>t. /\ pc \in [Threads -> {"idle", "store", "dump", "print", "exit"}]
      /\ n \in [Threads -> Int] /\ i \in [Threads -> 1..MAX_EVENTS]
      /\ lines \in [Threads -> Seq(Line)] /\ MAX_EVENTS \in Nat \ {0}
  BY RingAssumption DEF IInv, Types, TypeOK
<1>d. \A t \in Threads :
        /\ pc[t] \in {"idle", "store"} => n[t] = 0
        /\ pc[t] # "print" /\ pc[t] # "exit" => i[t] = 1 /\ lines[t] = <<>>
        /\ pc[t] = "print" => n[t] \in Nat /\ i[t] <= n[t]
  BY <1>0, RingAssumption DEF IInv, Dumping, Types, TypeOK
<1>p. \A t \in Threads :
        /\ \A k \in DOMAIN lines[t] : LineHonest(t, lines[t][k])
        /\ pc[t] = "print" => Len(lines[t]) = i[t] - 1
        /\ pc[t] = "exit" /\ n[t] > 0 => Len(lines[t]) = Min({n[t], MAX_EVENTS})
  BY <1>0 DEF Printing
<1>q. \A t \in Threads : pc[t] = "print" => Len(lines[t]) = i[t] - 1
  BY <1>0 DEF Printing
<1>m. overtaken => overtaken'
  BY DEF Next, Terminated, vars, Claim, Store, AssertFails, DumpBegins, DumpPrints, Exits
<1> DEFINE Same(u) == pc'[u] = pc[u] /\ n'[u] = n[u] /\ i'[u] = i[u] /\ lines'[u] = lines[u]
           Good(u) == /\ \A k \in DOMAIN lines'[u] : LineHonest(u, lines[u][k])'
                      /\ pc'[u] = "print" => Len(lines'[u]) = i'[u] - 1
                      /\ pc'[u] = "exit" /\ n'[u] > 0 => Len(lines'[u]) = Min({n'[u], MAX_EVENTS})
<1>s. ASSUME NEW u \in Threads, Same(u) PROVE Good(u)
  BY <1>p, <1>m, <1>s DEF LineHonest
<1> SUFFICES \A u \in Threads : Good(u)   BY DEF Printing
<1>1. ASSUME NEW t \in Threads, Claim(t) \/ Store(t) \/ AssertFails(t) PROVE \A u \in Threads : Good(u)
  <2> TAKE u \in Threads
  <2>1. n' = n /\ i' = i /\ lines' = lines
    BY <1>1 DEF Claim, Store, AssertFails, dumpVars
  <2>2. CASE u # t \/ pc'[u] = pc[u]
    <3>1. pc'[u] = pc[u]   BY <1>1, <1>t, <2>2 DEF Claim, Store, AssertFails, Goes
    <3>2. QED   BY <1>s, <2>1, <3>1
  <2>3. CASE u = t
    <3>1. pc[u] \in {"idle", "store"} /\ pc'[u] # "print"
      BY <1>1, <1>t, <2>3 DEF Claim, Store, AssertFails, Goes
    <3>2. n[u] = 0 /\ lines[u] = <<>>   BY <1>d, <3>1
    <3>3. QED   BY <2>1, <3>1, <3>2
  <2>4. QED   BY <2>2, <2>3
<1>2. ASSUME NEW t \in Threads, DumpBegins(t) PROVE \A u \in Threads : Good(u)
  <2> TAKE u \in Threads
  <2>1. CASE u # t   BY <1>2, <1>t, <1>s, <2>1 DEF DumpBegins, Goes
  <2>2. CASE u = t
    <3>1. lines'[u] = <<>> /\ i'[u] = 1 /\ pc'[u] = "print"
      BY <1>2, <1>t, <1>d, <2>2 DEF DumpBegins, Goes
    <3>2. QED   BY <3>1
  <2>3. QED   BY <2>1, <2>2
<1>3. ASSUME NEW t \in Threads, DumpPrints(t) PROVE \A u \in Threads : Good(u)
  <2> TAKE u \in Threads
  <2>1. CASE u # t   BY <1>3, <1>t, <1>s, <2>1 DEF DumpPrints, Goes
  <2>2. CASE u = t
    <3> DEFINE number == ToInt(n[t] - i[t])
               e == cprt_events[Rem(number)]
               l == [number |-> number, event |-> e, in_flight |-> InFlight(number + 1)]
    <3>1. pc[t] = "print"   BY <1>3 DEF DumpPrints, Goes
    <3>2. number = n[t] - i[t] /\ Rem(number) \in Slots   BY <1>0, <3>1, PrintSlot
    <3>3. lines'[t] = Append(lines[t], l) /\ n'[t] = n[t] /\ overtaken' = overtaken
      BY <1>3, <1>t, <3>2 DEF DumpPrints
    <3>4. /\ l.event = e /\ l.number = number /\ l.in_flight = InFlight(number + 1)
      OBVIOUS
    <3>5. e = number + 1 \/ (InFlight(number + 1) /\ e <= number) \/ e > n[t] \/ overtaken
      BY <1>0, <3>1, <3>2, NextLineHonest
    <3>6. lines[t] \in Seq(Line) /\ Len(lines[t]) \in Nat   BY <1>t
    <3>a. Len(lines[t]) = i[t] - 1 /\ i[t] \in Int   BY <1>q, <1>t, <3>1
    <3> HIDE DEF l, e, number
    <3>7. /\ Len(lines'[t]) = Len(lines[t]) + 1 /\ DOMAIN lines'[t] = 1..(Len(lines[t]) + 1)
          /\ \A k \in DOMAIN lines[t] : lines'[t][k] = lines[t][k]
          /\ lines'[t][Len(lines[t]) + 1] = l /\ DOMAIN lines[t] = 1..Len(lines[t])
      BY <3>3, <3>6
    <3>8. ASSUME NEW k \in DOMAIN lines'[t] PROVE LineHonest(t, lines[t][k])'
      <4>1. CASE k \in DOMAIN lines[t]   BY <1>p, <3>3, <3>7, <4>1 DEF LineHonest
      <4>2. CASE k = Len(lines[t]) + 1
        BY <3>3, <3>4, <3>5, <3>7, <4>2 DEF LineHonest
      <4>3. k \in DOMAIN lines[t] \/ k = Len(lines[t]) + 1   BY <3>6, <3>7
      <4>4. QED   BY <4>1, <4>2, <4>3
    <3>9. CASE Last(t)
      <4>1. pc'[t] = "exit"   BY <1>3, <1>t, <3>9 DEF DumpPrints, Goes
      <4>2. Len(lines'[t]) = i[t]   BY <3>a, <3>6, <3>7
      <4>3. i[t] = Min({n[t], MAX_EVENTS})   BY <1>t, <1>d, <3>1, <3>9 DEF Last, Min
      <4>4. QED   BY <2>2, <3>3, <3>8, <4>1, <4>2, <4>3
    <3>10. CASE ~Last(t)
      <4>1. pc'[t] = "print" /\ i'[t] = i[t] + 1   BY <1>3, <1>t, <3>10 DEF DumpPrints, Goes
      <4>2. Len(lines'[t]) = i'[t] - 1   BY <3>a, <3>6, <3>7, <4>1
      <4>3. QED   BY <2>2, <3>8, <4>1, <4>2
    <3>11. QED   BY <3>9, <3>10
  <2>3. QED   BY <2>1, <2>2
<1>4. ASSUME NEW t \in Threads, Exits(t) PROVE \A u \in Threads : Good(u)
  BY <1>4, <1>s DEF Exits, dumpVars
<1>5. CASE UNCHANGED vars   BY <1>5, <1>s DEF vars, dumpVars
<1>6. QED   BY <1>1, <1>2, <1>3, <1>4, <1>5 DEF Next, Terminated

\* Before the wrap a dump shows each event with its number, or an older one still in its
\* thread's hands, or a newer one logged since; and it prints all, or as many as the ring has.
THEOREM DumpOfBusyRing == Spec => []DumpHonest
<1>1. Init => Printing   BY DEF Init, Printing
<1>2. Spec => []Printing   BY <1>1, PlacesInvariance, PrintingStep, PTL DEF Spec
<1>3. Printing => DumpHonest   BY DEF Printing, DumpHonest
<1>4. QED   BY <1>2, <1>3, PTL
=============================================================================
