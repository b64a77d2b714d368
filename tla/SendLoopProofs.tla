--------------------------- MODULE SendLoopProofs ---------------------------
(***************************************************************************)
(* Proofs about SendLoop, for every call, width and bound of the clock.    *)
(***************************************************************************)
EXTENDS SendLoop, TLAPS

LEMMA MulMono ==
  ASSUME NEW a \in Int, NEW b \in Int, NEW c \in Nat, a <= b
  PROVE  a * c <= b * c
OBVIOUS

LEMMA MulCancel ==
  ASSUME NEW a \in Int, NEW b \in Int, NEW c \in Nat \ {0}, a * c < b * c
  PROVE  a < b
OBVIOUS

LEMMA DivBounds ==
  ASSUME NEW n \in Nat, NEW d \in Nat \ {0}
  PROVE  /\ n \div d \in Nat
         /\ (n \div d) * d <= n
         /\ n < (n \div d + 1) * d
OBVIOUS

LEMMA ModBounds ==
  ASSUME NEW n \in Nat, NEW d \in Nat \ {0}
  PROVE  /\ n % d \in Nat
         /\ n % d <= n
         /\ n < d => n % d = n
OBVIOUS

LEMMA MulNat ==
  ASSUME NEW a \in Nat, NEW b \in Nat
  PROVE  a * b \in Nat
OBVIOUS

LEMMA Distribute ==
  ASSUME NEW a \in Int, NEW b \in Int, NEW c \in Int
  PROVE  (a - b) * c = a * c - b * c
OBVIOUS

LEMMA ArgTypes ==
  ASSUME arg \in Calls
  PROVE  /\ arg.num_sends \in Nat \ {0} /\ arg.sends_per_sec \in Nat \ {0}
         /\ 2 * arg.num_sends < I /\ arg.num_sends < U
         /\ NS \in Nat \ {0} /\ U \in Nat \ {0} /\ I \in Nat \ {0} /\ MaxNow \in Nat
BY CallsAssumption, WidthAssumption

LEMMA ToIntId ==
  ASSUME NEW n \in Nat, 2 * n < I
  PROVE  ToInt(n) = n
<1>1. I \in Nat \ {0}   BY WidthAssumption
<1>2. n % I = n   BY <1>1, ModBounds
<1>3. QED   BY <1>1, <1>2 DEF ToInt

\* What is due never exceeds the schedule, whether the product wraps or not; and if it
\* does not, what is due next is the first message after the schedule.
LEMMA DueBounds ==
  ASSUME arg \in Calls, NEW t \in Nat
  PROVE  /\ Due(t) \in 1..arg.num_sends
         /\ (Due(t) - 1) * NS <= t * arg.sends_per_sec
         /\ t * arg.sends_per_sec < U =>
              /\ Due(t) = arg.num_sends \/ t * arg.sends_per_sec < Due(t) * NS
              /\ \A n \in 1..arg.num_sends :
                   (n - 1) * NS <= t * arg.sends_per_sec => n <= Due(t)
<1> DEFINE p == t * arg.sends_per_sec
           q == (p % U) \div NS
<1>1. /\ arg.num_sends \in Nat \ {0} /\ arg.sends_per_sec \in Nat \ {0}
      /\ NS \in Nat \ {0} /\ U \in Nat \ {0}
  BY ArgTypes
<1>2. p \in Nat   BY <1>1, MulNat
<1>3. p % U \in Nat /\ p % U <= p /\ (p < U => p % U = p)
  <2> HIDE DEF p
  <2> QED   BY <1>1, <1>2, ModBounds
<1>4. q \in Nat /\ q * NS <= p % U /\ p % U < (q + 1) * NS
  <2> DEFINE m == p % U
  <2>1. m \in Nat   BY <1>3
  <2> HIDE DEF m, p
  <2>2. m \div NS \in Nat /\ (m \div NS) * NS <= m /\ m < (m \div NS + 1) * NS
    BY <1>1, <2>1, DivBounds
  <2>3. QED   BY <2>2 DEF m
<1>5. Due(t) = IF q + 1 > arg.num_sends THEN arg.num_sends ELSE q + 1
  BY DEF Due
<1> HIDE DEF q, p
<1>6. Due(t) \in 1..arg.num_sends /\ Due(t) - 1 <= q
  BY <1>1, <1>4, <1>5
<1>7. (Due(t) - 1) * NS <= q * NS
  BY <1>1, <1>4, <1>6, MulMono
<1>8. (Due(t) - 1) * NS \in Int /\ q * NS \in Int /\ (q + 1) * NS \in Int
  BY <1>1, <1>4, <1>6
<1>9. (Due(t) - 1) * NS <= p
  BY <1>2, <1>3, <1>4, <1>7, <1>8
<1>10. ASSUME p < U
       PROVE  /\ Due(t) = arg.num_sends \/ p < Due(t) * NS
              /\ \A n \in 1..arg.num_sends : (n - 1) * NS <= p => n <= Due(t)
  <2>1. p < (q + 1) * NS   BY <1>3, <1>4, <1>10
  <2>2. Due(t) = arg.num_sends \/ p < Due(t) * NS   BY <1>5, <2>1
  <2>3. ASSUME NEW n \in 1..arg.num_sends, (n - 1) * NS <= p
        PROVE  n <= Due(t)
    <3>1. (n - 1) * NS \in Int   BY <1>1
    <3>2. (n - 1) * NS < (q + 1) * NS   BY <1>2, <1>8, <2>1, <2>3, <3>1
    <3>3. n - 1 < q + 1   BY <1>1, <1>4, <3>2, MulCancel
    <3>4. QED   BY <1>1, <1>4, <1>5, <3>3
  <2>4. QED   BY <2>2, <2>3
<1>11. QED   BY <1>6, <1>9, <1>10 DEF p

----------------------------------------------------------------------------
SafetyInv == TypeOK /\ OnSchedule /\ Level /\ TightMeansStall /\ Unseen

LEMMA PaceStep ==
  ASSUME SafetyInv, Pace
  PROVE  SafetyInv' /\ (should_have_sent' >= should_have_sent \/ wrapped')
<1> DEFINE r == arg.sends_per_sec
           d == should_have_sent
           D == Due(cur_ts)
<1>1. /\ arg.num_sends \in Nat \ {0} /\ r \in Nat \ {0}
      /\ 2 * arg.num_sends < I /\ arg.num_sends < U
      /\ NS \in Nat \ {0} /\ U \in Nat \ {0} /\ I \in Nat \ {0} /\ MaxNow \in Nat
  BY ArgTypes DEF SafetyInv, TypeOK
<1>2. /\ pc = "pace" /\ should_have_sent' = D
      /\ wrapped' = (wrapped \/ cur_ts * r >= U)
      /\ pc' = IF num_sent < D THEN "send" ELSE "clock"
      /\ UNCHANGED <<arg, now, cur_ts, num_sent, gap>>
  BY DEF Pace
<1>3. /\ cur_ts \in Nat /\ num_sent \in 0..arg.num_sends /\ d \in 0..arg.num_sends
      /\ gap \in Nat /\ max_tight_sends \in Int
  BY <1>1 DEF SafetyInv, TypeOK
<1>4. /\ D \in 1..arg.num_sends
      /\ (D - 1) * NS <= cur_ts * r
      /\ cur_ts * r < U =>
           /\ D = arg.num_sends \/ cur_ts * r < D * NS
           /\ \A n \in 1..arg.num_sends : (n - 1) * NS <= cur_ts * r => n <= D
  BY <1>3, DueBounds DEF SafetyInv, TypeOK
<1>5. cur_ts * r \in Nat   BY <1>1, <1>3, MulNat
<1> DEFINE behind == (D - num_sent) % U
<1>6. max_tight_sends' = IF behind > max_tight_sends % U THEN ToInt(behind) ELSE max_tight_sends
  BY <1>2 DEF Pace
<1>7. behind \in Nat /\ max_tight_sends % U \in Nat
  BY <1>1, <1>3, <1>4
<1> HIDE DEF D, r
<1>8. TypeOK'
  <2>1. ToInt(behind) \in Int   BY <1>1, <1>7 DEF ToInt
  <2>2. max_tight_sends' \in Int   BY <1>3, <1>6, <2>1
  <2>3. wrapped' \in BOOLEAN   BY <1>2
  <2>4. pc' \in {"pace", "send", "clock", "returned"}   BY <1>2
  <2>5. should_have_sent' \in 0..arg.num_sends   BY <1>1, <1>2, <1>4
  <2>6. QED   BY <1>2, <2>2, <2>3, <2>4, <2>5 DEF SafetyInv, TypeOK
<1>9. OnSchedule'
  BY <1>1, <1>2, <1>3, <1>4 DEF SafetyInv, OnSchedule, r
<1>10. ASSUME ~wrapped'
       PROVE  Level' /\ TightMeansStall' /\ Unseen' /\ D >= d
  <2>1. ~wrapped /\ cur_ts * r < U
    <3>1. ~wrapped /\ ~(cur_ts * r >= U)   BY <1>2, <1>10
    <3>2. QED   BY <1>1, <1>5, <3>1
  <2>2. num_sent = d /\ max_tight_sends \in 0..arg.num_sends
    BY <1>2, <2>1 DEF SafetyInv, Level
  <2>3. d <= D
    <3>1. CASE d = 0   BY <1>4, <3>1
    <3>2. CASE d # 0
      <4>1. d \in 1..arg.num_sends /\ (d - 1) * NS <= cur_ts * r
        BY <1>3, <3>2 DEF SafetyInv, OnSchedule, r
      <4>2. QED   BY <1>4, <2>1, <4>1
    <3>3. QED   BY <3>1, <3>2
  <2>4. behind = D - d /\ max_tight_sends % U = max_tight_sends
    BY <1>1, <1>3, <1>4, <2>2, <2>3, ModBounds
  <2>5. ToInt(behind) = behind
    <3>1. behind \in Nat /\ 2 * behind < I   BY <1>1, <1>3, <1>4, <2>3, <2>4
    <3> HIDE DEF behind
    <3>2. QED   BY <3>1, ToIntId
  <2>6. max_tight_sends' \in {D - d, max_tight_sends} /\ max_tight_sends' \in 0..arg.num_sends
    BY <1>1, <1>3, <1>4, <1>6, <2>2, <2>3, <2>4, <2>5
  <2>7. Level'
    <3>1. pc' # "send" => num_sent' = should_have_sent'
      BY <1>1, <1>2, <1>3, <1>4, <2>2, <2>3
    <3>2. num_sent' <= should_have_sent'   BY <1>2, <2>2, <2>3
    <3>3. pc' # "pace" /\ (D = arg.num_sends \/ cur_ts * r < D * NS)   BY <1>2, <1>4, <2>1
    <3>4. QED   BY <1>2, <2>6, <3>1, <3>2, <3>3 DEF Level, r
  <2>8. (D - d - 1) * NS <= gap * r
    <3>1. gap * r \in Nat   BY <1>1, <1>3, MulNat
    <3>2. CASE D = d
      <4>1. (D - d - 1) * NS = -NS   BY <1>1, <1>3, <3>2
      <4>2. QED   BY <1>1, <3>1, <4>1
    <3>3. CASE D # d
      <4>1. d = 0 \/ (cur_ts - gap) * r < d * NS
        BY <1>1, <1>2, <1>3, <1>4, <2>1, <2>3, <3>3 DEF SafetyInv, Level, r
      <4>2. CASE d = 0
        <5>1. cur_ts <= gap
          <6>1. cur_ts = 0 \/ (cur_ts - gap) * r < 0 * NS
            BY <1>1, <1>2, <2>1, <4>2 DEF SafetyInv, Level, r
          <6>2. 0 * NS = 0 * r   BY <1>1
          <6>3. CASE (cur_ts - gap) * r < 0 * r
            <7>1. cur_ts - gap < 0   BY <1>1, <1>3, <6>3, MulCancel
            <7>2. QED   BY <1>3, <7>1
          <6>4. QED   BY <1>3, <6>1, <6>2, <6>3
        <5>2. QED   BY <1>1, <1>3, <1>4, <4>2, <5>1, MulMono
      <4>3. CASE (cur_ts - gap) * r < d * NS
        <5>1. (cur_ts - gap) * r = cur_ts * r - gap * r   BY <1>1, <1>3, Distribute
        <5>2. ((D - 1) - d) * NS = (D - 1) * NS - d * NS   BY <1>1, <1>3, <1>4, Distribute
        <5>3. (D - 1) * NS \in Int /\ d * NS \in Int   BY <1>1, <1>3, <1>4
        <5>4. ((D - 1) - d) * NS <= gap * r
          BY <1>4, <1>5, <3>1, <4>3, <5>1, <5>2, <5>3
        <5>5. (D - 1) - d = D - d - 1   BY <1>3, <1>4
        <5>6. QED   BY <5>4, <5>5
      <4>4. QED   BY <4>1, <4>2, <4>3
    <3>4. QED   BY <3>2, <3>3
  <2>9. (max_tight_sends - 1) * NS <= gap * r   BY <2>1 DEF SafetyInv, TightMeansStall, r
  <2>10. TightMeansStall'
    BY <1>2, <2>6, <2>8, <2>9 DEF TightMeansStall, r
  <2>11. max_tight_sends' >= D - d /\ max_tight_sends' >= max_tight_sends
    BY <1>1, <1>3, <1>4, <1>6, <2>2, <2>3, <2>4, <2>5
  <2>12. ASSUME max_tight_sends' <= 1, D < arg.num_sends
         PROVE  gap * r < 2 * NS
    <3>1. D - d <= 1 /\ max_tight_sends <= 1
      BY <1>1, <1>3, <1>4, <2>2, <2>6, <2>11, <2>12
    <3>2. CASE gap * r < 2 * NS   BY <3>2
    <3>3. CASE d > 0 /\ (d - 1) * NS <= (cur_ts - gap) * r
      <4>1. cur_ts * r < D * NS   BY <1>1, <1>4, <2>1, <2>12
      <4>2. (cur_ts - gap) * r = cur_ts * r - gap * r   BY <1>1, <1>3, Distribute
      <4>3. (D - (d - 1)) * NS = D * NS - (d - 1) * NS   BY <1>1, <1>3, <1>4, Distribute
      <4>4. (D - (d - 1)) * NS <= 2 * NS   BY <1>1, <1>3, <1>4, <3>1, MulMono
      <4>5. /\ (D - (d - 1)) * NS \in Int /\ D * NS \in Int /\ (d - 1) * NS \in Int
            /\ gap * r \in Int /\ 2 * NS \in Int
        BY <1>1, <1>3, <1>4
      <4>6. QED   BY <1>5, <3>3, <4>1, <4>2, <4>3, <4>4, <4>5
    <3>4. QED   BY <1>2, <2>1, <3>1, <3>2, <3>3 DEF SafetyInv, Unseen, r
  <2>13. Unseen'   BY <1>1, <1>2, <1>4, <2>12 DEF Unseen, r
  <2>14. QED   BY <2>3, <2>7, <2>10, <2>13
<1>11. CASE ~wrapped'   BY <1>2, <1>3, <1>4, <1>8, <1>9, <1>10, <1>11 DEF SafetyInv
<1>12. CASE wrapped'   BY <1>8, <1>9, <1>12 DEF SafetyInv, Level, TightMeansStall, Unseen
<1>13. QED   BY <1>11, <1>12

LEMMA SendOneStep ==
  ASSUME SafetyInv, SendOne
  PROVE  SafetyInv'
<1>1. /\ arg.num_sends \in Nat /\ arg.sends_per_sec \in Nat /\ NS \in Nat
  BY ArgTypes DEF SafetyInv, TypeOK
<1>2. /\ pc = "send" /\ num_sent' = num_sent + 1
      /\ pc' = IF num_sent' < should_have_sent THEN "send" ELSE "clock"
      /\ UNCHANGED <<arg, now, cur_ts, should_have_sent, max_tight_sends, gap, wrapped>>
  BY DEF SendOne
<1>3. /\ num_sent \in 0..arg.num_sends /\ should_have_sent \in 0..arg.num_sends
      /\ num_sent < should_have_sent
  BY <1>2 DEF SafetyInv, TypeOK, OnSchedule
<1>4. TypeOK'
  <2>1. num_sent' \in 0..arg.num_sends /\ pc' \in {"send", "clock"}   BY <1>1, <1>2, <1>3
  <2>2. QED   BY <1>2, <2>1 DEF SafetyInv, TypeOK
<1>5. OnSchedule'
  <2>1. (should_have_sent - 1) * NS <= cur_ts * arg.sends_per_sec
    BY <1>1, <1>3 DEF SafetyInv, OnSchedule
  <2>2. (num_sent' - 1) * NS <= (should_have_sent - 1) * NS
    BY <1>1, <1>2, <1>3, MulMono
  <2>3. cur_ts * arg.sends_per_sec \in Int
    BY <1>1 DEF SafetyInv, TypeOK
  <2>4. (num_sent' - 1) * NS \in Int /\ (should_have_sent - 1) * NS \in Int
    BY <1>1, <1>2, <1>3
  <2>5. (num_sent' - 1) * NS <= cur_ts * arg.sends_per_sec
    BY <2>1, <2>2, <2>3, <2>4
  <2>6. QED   BY <1>1, <1>2, <1>3, <2>1, <2>5 DEF OnSchedule
<1>6. Level'
  BY <1>1, <1>2, <1>3 DEF SafetyInv, Level
<1>7. TightMeansStall'
  BY <1>2 DEF SafetyInv, TightMeansStall
<1>8. Unseen'
  BY <1>2 DEF SafetyInv, Unseen
<1>9. QED   BY <1>4, <1>5, <1>6, <1>7, <1>8 DEF SafetyInv

LEMMA ReadClockStep ==
  ASSUME SafetyInv, ReadClock
  PROVE  SafetyInv'
<1> DEFINE r == arg.sends_per_sec
<1>1. /\ arg.num_sends \in Nat /\ r \in Nat /\ NS \in Nat /\ MaxNow \in Nat
  BY ArgTypes DEF SafetyInv, TypeOK
<1>2. /\ pc = "clock" /\ cur_ts' = now
      /\ gap' = IF now - cur_ts > gap THEN now - cur_ts ELSE gap
      /\ pc' \in {"pace", "returned"}
      /\ pc' = IF num_sent < arg.num_sends THEN "pace" ELSE "returned"
      /\ UNCHANGED <<arg, now, num_sent, should_have_sent, max_tight_sends, wrapped>>
  BY DEF ReadClock
<1>3. /\ now \in 0..MaxNow /\ cur_ts \in 0..now /\ gap \in 0..MaxNow
      /\ num_sent \in 0..arg.num_sends /\ should_have_sent \in 0..arg.num_sends
      /\ max_tight_sends \in Int
  BY DEF SafetyInv, TypeOK
<1>4. /\ gap' \in 0..MaxNow /\ gap <= gap' /\ cur_ts' - gap' <= cur_ts /\ cur_ts <= cur_ts'
  BY <1>1, <1>2, <1>3
<1>5. TypeOK'
  BY <1>1, <1>2, <1>3, <1>4 DEF SafetyInv, TypeOK
<1>6. /\ cur_ts * r <= cur_ts' * r /\ gap * r <= gap' * r
      /\ (cur_ts' - gap') * r <= cur_ts * r
  BY <1>1, <1>2, <1>3, <1>4, MulMono
<1>7. /\ cur_ts * r \in Int /\ cur_ts' * r \in Int /\ gap * r \in Int /\ gap' * r \in Int
      /\ (cur_ts' - gap') * r \in Int /\ should_have_sent * NS \in Int
      /\ (should_have_sent - 1) * NS \in Int /\ (num_sent - 1) * NS \in Int
      /\ (max_tight_sends - 1) * NS \in Int
  BY <1>1, <1>2, <1>3, <1>4
<1>8. OnSchedule'
  BY <1>2, <1>6, <1>7 DEF SafetyInv, OnSchedule
<1>9. Level'
  <2>1. CASE wrapped   BY <1>2, <2>1 DEF Level
  <2>2. CASE ~wrapped
    <3>1. /\ num_sent = should_have_sent /\ max_tight_sends \in 0..arg.num_sends
          /\ should_have_sent = arg.num_sends \/ cur_ts * r < should_have_sent * NS
      BY <1>2, <2>2 DEF SafetyInv, Level
    <3>2. should_have_sent = arg.num_sends \/ (cur_ts' - gap') * r < should_have_sent * NS
      BY <1>6, <1>7, <3>1
    <3>3. pc' = "pace" \/ should_have_sent = arg.num_sends
      BY <1>1, <1>2, <1>3, <3>1
    <3>4. QED   BY <1>2, <1>3, <2>2, <3>1, <3>2, <3>3 DEF Level
  <2>3. QED   BY <2>1, <2>2
<1>10. TightMeansStall'
  BY <1>2, <1>6, <1>7 DEF SafetyInv, TightMeansStall
<1>11. Unseen'
  <2> SUFFICES ASSUME ~wrapped, max_tight_sends <= 1, pc' = "pace"
               PROVE  \/ gap' * r < 2 * NS
                      \/ should_have_sent > 0 /\ (should_have_sent - 1) * NS <= (cur_ts' - gap') * r
    BY <1>2 DEF Unseen
  <2>1. num_sent = should_have_sent /\ should_have_sent < arg.num_sends
    BY <1>1, <1>2, <1>3 DEF SafetyInv, Level
  <2>2. gap * r < 2 * NS   BY <1>2, <2>1 DEF SafetyInv, Unseen
  <2>3. CASE gap' = gap   BY <2>2, <2>3
  <2>4. CASE gap' = now - cur_ts
    <3>1. cur_ts' - gap' = cur_ts   BY <1>2, <1>3, <2>4
    <3>2. should_have_sent > 0
      <4>1. cur_ts * r < should_have_sent * NS
        BY <1>2, <2>1, <1>3, <1>1 DEF SafetyInv, Level
      <4>2. cur_ts * r >= 0   BY <1>1, <1>3
      <4>3. SUFFICES ASSUME should_have_sent = 0 PROVE FALSE   BY <1>1, <1>3
      <4>4. should_have_sent * NS = 0   BY <1>1, <4>3
      <4>5. QED   BY <1>7, <4>1, <4>2, <4>4
    <3>3. (should_have_sent - 1) * NS <= cur_ts * r   BY <3>2 DEF SafetyInv, OnSchedule
    <3>4. QED   BY <3>1, <3>2, <3>3
  <2>5. QED   BY <1>2, <2>3, <2>4
<1>12. QED   BY <1>5, <1>8, <1>9, <1>10, <1>11 DEF SafetyInv

LEMMA SafetyStep ==
  ASSUME SafetyInv, [Next]_vars
  PROVE  SafetyInv' /\ (should_have_sent' >= should_have_sent \/ wrapped')
<1>1. CASE Pace   BY <1>1, PaceStep
<1>2. CASE SendOne \/ ReadClock
  <2>1. SafetyInv'   BY <1>2, SendOneStep, ReadClockStep
  <2>2. should_have_sent' = should_have_sent /\ should_have_sent \in Nat
    BY <1>2, ArgTypes DEF SendOne, ReadClock, SafetyInv, TypeOK
  <2>3. QED   BY <2>1, <2>2
<1>3. CASE Tick \/ UNCHANGED vars
  <2>1. /\ UNCHANGED <<arg, pc, cur_ts, num_sent, should_have_sent, max_tight_sends, gap, wrapped>>
        /\ now' = now \/ now' \in (now + 1)..MaxNow
    BY <1>3 DEF Tick, vars
  <2>2. should_have_sent \in Nat /\ MaxNow \in Nat
    BY ArgTypes DEF SafetyInv, TypeOK
  <2>3. now' \in 0..MaxNow /\ cur_ts \in 0..now'
    BY <2>1, <2>2 DEF SafetyInv, TypeOK
  <2>4. TypeOK'   BY <2>1, <2>3 DEF SafetyInv, TypeOK
  <2>5. OnSchedule' /\ Level' /\ TightMeansStall' /\ Unseen'
    BY <2>1 DEF SafetyInv, OnSchedule, Level, TightMeansStall, Unseen
  <2>6. QED   BY <2>1, <2>2, <2>4, <2>5 DEF SafetyInv
<1>4. QED   BY <1>1, <1>2, <1>3 DEF Next, Step, Returned

LEMMA SafetyInit == Init => SafetyInv
<1> SUFFICES ASSUME Init PROVE SafetyInv
  OBVIOUS
<1>1. /\ arg.num_sends \in Nat \ {0} /\ arg.sends_per_sec \in Nat /\ NS \in Nat \ {0}
      /\ MaxNow \in Nat
  BY ArgTypes DEF Init
<1>2. TypeOK
  <2>1. /\ now = 0 /\ cur_ts = 0 /\ num_sent = 0 /\ should_have_sent = 0
        /\ max_tight_sends = 0 /\ gap = 0
    BY DEF Init
  <2>2. 0 \in 0..MaxNow /\ 0 \in 0..0 /\ 0 \in 0..arg.num_sends /\ 0 \in Int   BY <1>1
  <2>3. arg \in Calls /\ pc \in {"pace", "send", "clock", "returned"}   BY DEF Init
  <2>4. wrapped \in BOOLEAN   BY DEF Init
  <2>5. QED   BY <2>1, <2>2, <2>3, <2>4 DEF TypeOK
<1>3. OnSchedule   BY DEF Init, OnSchedule
<1>4. Level   BY <1>1 DEF Init, Level
<1>5. TightMeansStall
  <2>1. 0 * arg.sends_per_sec = 0   BY <1>1
  <2>2. (0 - 1) * NS <= 0   BY <1>1
  <2>3. max_tight_sends = 0 /\ gap = 0   BY DEF Init
  <2>4. QED   BY <2>1, <2>2, <2>3 DEF TightMeansStall
<1>6. Unseen
  <2>1. 0 * arg.sends_per_sec < 2 * NS   BY <1>1
  <2>2. QED   BY <2>1 DEF Init, Unseen
<1>7. QED   BY <1>2, <1>3, <1>4, <1>5, <1>6 DEF SafetyInv

\* No message is sent ahead of the schedule, whatever the clock does and however the
\* products wrap.
THEOREM PacingNeverAhead == Spec => []NeverAhead
<1>1. SafetyInv => NeverAhead
  <2> SUFFICES ASSUME SafetyInv, num_sent > 0
               PROVE  (num_sent - 1) * NS <= now * arg.sends_per_sec
    BY DEF NeverAhead
  <2>1. /\ arg.sends_per_sec \in Nat /\ NS \in Nat /\ cur_ts \in Int /\ now \in Int
        /\ cur_ts <= now /\ num_sent \in Int
    BY ArgTypes DEF SafetyInv, TypeOK
  <2>2. (num_sent - 1) * NS <= cur_ts * arg.sends_per_sec   BY DEF SafetyInv, OnSchedule
  <2>3. cur_ts * arg.sends_per_sec <= now * arg.sends_per_sec   BY <2>1, MulMono
  <2>4. QED   BY <2>1, <2>2, <2>3
<1>2. QED   BY <1>1, SafetyInit, SafetyStep, PTL DEF Spec

\* Unless a product wraps, the loop is level with the schedule whenever it reads the clock.
THEOREM PacingCatchesUp == Spec => []CaughtUp
<1>1. SafetyInv => CaughtUp
  BY DEF SafetyInv, Level, CaughtUp
<1>2. QED   BY <1>1, SafetyInit, SafetyStep, PTL DEF Spec

\* The counts of send_loop() stay within one call: it never sends more than num_sends, nor
\* finds more due, and the last reading is never ahead of the clock.
THEOREM PacingTypes == Spec => []TypeOK
<1>1. SafetyInv => TypeOK
  BY DEF SafetyInv
<1>2. QED   BY <1>1, SafetyInit, SafetyStep, PTL DEF Spec

\* max_tight_sends above one is evidence of a stall.
THEOREM StallsAreReal == Spec => []TightMeansStall
<1>1. SafetyInv => TightMeansStall
  BY DEF SafetyInv
<1>2. QED   BY <1>1, SafetyInit, SafetyStep, PTL DEF Spec

\* max_tight_sends below two is evidence of none, as long as there is more to send.
THEOREM NoStallIsMissed == Spec => []NoStallUnseen
<1>1. SafetyInv => NoStallUnseen
  <2> SUFFICES ASSUME SafetyInv, pc = "clock", ~wrapped, max_tight_sends <= 1,
                      num_sent < arg.num_sends
               PROVE  gap * arg.sends_per_sec < 2 * NS
    BY DEF NoStallUnseen
  <2>1. num_sent = should_have_sent   BY DEF SafetyInv, Level
  <2>2. QED   BY <2>1 DEF SafetyInv, Unseen
<1>2. QED   BY <1>1, SafetyInit, SafetyStep, PTL DEF Spec

\* The loop never takes back what was due, unless a product wraps.
THEOREM PacingGrows == Spec => DueGrows
<1>1. SafetyInv /\ [Next]_vars => [should_have_sent' >= should_have_sent \/ wrapped']_vars
  BY SafetyStep
<1>2. QED   BY <1>1, SafetyInit, SafetyStep, PTL DEF Spec, DueGrows

----------------------------------------------------------------------------
(* The refinement of Paced.                                                *)

\* Each step of the loop is a step of Paced or changes nothing of it.
LEMMA PacedStep ==
  ASSUME SafetyInv, [Next]_vars
  PROVE  [Call!PacedNext]_(Call!pacedVars)
<1> USE DEF Call!pacedVars
<1>1. CASE Pace
  <2>1. pc' # "returned" /\ pc # "returned" /\ UNCHANGED <<arg, now, num_sent>>
    BY <1>1 DEF Pace
  <2>2. QED   BY <2>1
<1>2. CASE SendOne
  <2>1. /\ arg.sends_per_sec \in Nat /\ NS \in Nat /\ num_sent \in Nat
        /\ cur_ts \in Nat /\ now \in Nat /\ cur_ts <= now
        /\ should_have_sent \in Nat /\ should_have_sent <= arg.num_sends /\ arg.num_sends \in Nat
    BY ArgTypes DEF SafetyInv, TypeOK
  <2>2. num_sent < should_have_sent   BY <1>2 DEF SendOne, SafetyInv, OnSchedule
  <2>3. (should_have_sent - 1) * NS <= cur_ts * arg.sends_per_sec
    BY <2>1, <2>2 DEF SafetyInv, OnSchedule
  <2>4. num_sent * NS <= (should_have_sent - 1) * NS
    <3>1. should_have_sent - 1 \in Int /\ num_sent \in Int /\ num_sent <= should_have_sent - 1
      BY <2>1, <2>2
    <3>2. QED   BY <2>1, <3>1, MulMono
  <2>5. cur_ts * arg.sends_per_sec <= now * arg.sends_per_sec   BY <2>1, MulMono
  <2>6. num_sent * NS <= now * arg.sends_per_sec   BY <2>1, <2>3, <2>4, <2>5
  <2>7. num_sent < arg.num_sends   BY <2>1, <2>2
  <2>8. pc # "returned" /\ pc' # "returned" /\ num_sent' = num_sent + 1 /\ UNCHANGED <<arg, now>>
    BY <1>2 DEF SendOne
  <2>9. Call!SendInTime   BY <2>6, <2>7, <2>8 DEF Call!SendInTime
  <2>10. QED   BY <2>9 DEF Call!PacedNext
<1>3. CASE ReadClock
  <2>1. pc # "returned" /\ UNCHANGED <<arg, now, num_sent>>   BY <1>3 DEF ReadClock
  <2>2. CASE num_sent < arg.num_sends
    <3>1. pc' # "returned"   BY <1>3, <2>2 DEF ReadClock
    <3>2. QED   BY <2>1, <3>1
  <2>3. CASE ~(num_sent < arg.num_sends)
    <3>1. pc' = "returned"   BY <1>3, <2>3 DEF ReadClock
    <3>2. num_sent = arg.num_sends
      <4>1. num_sent \in 0..arg.num_sends /\ arg.num_sends \in Nat
        BY ArgTypes DEF SafetyInv, TypeOK
      <4>2. QED   BY <2>3, <4>1
    <3>3. Call!Return   BY <2>1, <3>1, <3>2 DEF Call!Return
    <3>4. QED   BY <3>3 DEF Call!PacedNext
  <2>4. QED   BY <2>2, <2>3
<1>4. CASE Tick
  <2>1. Call!TimePasses   BY <1>4 DEF Tick, Call!TimePasses
  <2>2. QED   BY <2>1 DEF Call!PacedNext
<1>5. CASE UNCHANGED vars   BY <1>5 DEF vars
<1>6. QED   BY <1>1, <1>2, <1>3, <1>4, <1>5 DEF Next, Step, Returned

\* send_loop() keeps what Paced promises of a call, for all arguments, widths and stalls:
\* every message in time, and as many as were asked for when it returns.
THEOREM ImplementsPaced == Spec => RefinesPaced
<1>1. Init => Call!PacedInit   BY DEF Init, Call!PacedInit
<1>2. SafetyInv /\ [Next]_vars => [Call!PacedNext]_(Call!pacedVars)   BY PacedStep
<1>3. QED
  BY <1>1, <1>2, SafetyInit, SafetyStep, PTL DEF Spec, RefinesPaced, Call!PacedSpec
=============================================================================
