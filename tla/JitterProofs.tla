---------------------------- MODULE JitterProofs -----------------------------
(***************************************************************************)
(* Proofs about Jitter and the histogram below it, for any program, any    *)
(* histogram, any width of an int, any durations and any size of the ring. *)
(***************************************************************************)
EXTENDS Jitter, FunctionTheorems, FiniteSetTheorems, TLAPS

----------------------------------------------------------------------------
(* The conversion and the division.                                        *)

LEMMA ModBelow ==
  ASSUME NEW a \in Nat, NEW d \in Nat \ {0}
  PROVE  a % d \in 0..(d - 1) /\ (a < d => a % d = a)
OBVIOUS

LEMMA QuotientNat ==
  ASSUME NEW a \in Nat, NEW d \in Nat \ {0}
  PROVE  a \div d \in Nat
OBVIOUS

LEMMA StallStays ==
  ASSUME NEW a \in Nat, NEW b \in Nat, NEW w \in Nat, b >= a, 2 * a >= w
  PROVE  2 * b >= w
OBVIOUS

LEMMA ToIntFits == ASSUME NEW a \in Nat, 2 * a < W PROVE ToInt(a) = a
<1>1. W \in Nat \ {0} /\ a < W   BY WidthsAssumption
<1>2. a % W = a   BY <1>1, ModBelow
<1>3. QED   BY <1>1, <1>2 DEF ToInt

LEMMA ToIntInt == ASSUME NEW a \in Nat PROVE ToInt(a) \in Int
<1>1. W \in Nat \ {0}   BY WidthsAssumption
<1>2. a % W \in Nat   BY <1>1, ModBelow
<1>3. QED   BY <1>1, <1>2 DEF ToInt

\* A sample that is not negative has no bucket below zero.
LEMMA BucketInside ==
  ASSUME NEW a \in Nat, NEW d \in Int, d > 0
  PROVE  Quotient(a, d) \in Nat
<1>1. Magnitude(a) = a /\ Magnitude(d) = d /\ (a < 0) = FALSE /\ (d < 0) = FALSE
  BY DEF Magnitude
<1>2. a \div d \in Nat   BY QuotientNat
<1>3. QED   BY <1>1, <1>2 DEF Quotient

----------------------------------------------------------------------------
(* The inductive invariant.                                                *)

Types ==
  /\ config \in Configs
  /\ pc \in {"top", "timed", "done"}
  /\ i \in Nat /\ hist_num_samples \in Nat /\ wild \in Nat /\ longest \in Nat
  /\ died \in BOOLEAN /\ denied \in BOOLEAN /\ corrupted \in BOOLEAN

\* Every iteration done is a sample of the histogram.
Iterations ==
  InJitter =>
    /\ i > 0 => i <= config.loops
    /\ pc = "timed" => i < config.loops
    /\ do_histogram => hist_num_samples = i
    /\ do_histogram /\ i > 0 => config.ns_per_bucket # 0
    /\ pc = "done" => i = IF config.loops > 0 THEN config.loops ELSE 0

\* um_perf_jitter never forgets a sample before the array, and has none without one.
Corrupts == InJitter => (corrupted => wild > 0) /\ (wild > 0 => do_histogram)

RingSlots == 0..(NUM_MALLOCS - 1)
Done == IF pc = "timed" THEN i + 1 ELSE i

\* Each slot passed has a block of its own, the others have none.
Ring ==
  /\ mallocs \in [RingSlots -> SUBSET Blocks]
  /\ live = UNION {mallocs[k] : k \in RingSlots}
  /\ \A k \in RingSlots :
       IF config.malloc /\ k < Done THEN \E b \in Blocks : mallocs[k] = {b} ELSE mallocs[k] = {}
  /\ \A k, l \in RingSlots : k # l => mallocs[k] \intersect mallocs[l] = {}

IInv == Types /\ Iterations /\ Corrupts /\ Ring /\ WildOnlyAfterStall /\ LostOnlyForCause

LEMMA ConfigFacts ==
  ASSUME Types
  PROVE  /\ config.loops \in Int /\ config.num_buckets \in Nat /\ config.ns_per_bucket \in Int
         /\ config.malloc \in BOOLEAN
         /\ Asserts => config.ns_per_bucket > 0
         /\ InJitter => ~Asserts /\ ~Guards
BY ConfigsAssumption DEF Types, Asserts, Guards, InJitter

LEMMA InitInv == JitterInit => IInv
<1> SUFFICES ASSUME JitterInit PROVE IInv   OBVIOUS
<1>0. NUM_MALLOCS \in Nat \ {0} /\ W \in Nat   BY RingAssumption, WidthsAssumption
<1>1. Types   BY DEF JitterInit, Init, Types
<1>2. config.loops \in Int   BY <1>1, ConfigFacts
<1>3. Iterations /\ Corrupts   BY <1>2 DEF JitterInit, Init, Iterations, Corrupts
<1>4. Ring
  <2>1. mallocs = [k \in RingSlots |-> {}] /\ live = {} /\ Done = 0
    BY DEF JitterInit, RingSlots, Done
  <2>2. \A k \in RingSlots : ~(k < 0)   BY DEF RingSlots
  <2>3. QED   BY <2>1, <2>2 DEF Ring
<1>5. WildOnlyAfterStall /\ LostOnlyForCause
  BY DEF JitterInit, Init, WildOnlyAfterStall, LostOnlyForCause
<1>6. QED   BY <1>1, <1>3, <1>4, <1>5 DEF IInv

----------------------------------------------------------------------------
(* What a sample does, whoever takes it.                                   *)

LEMMA Sample ==
  ASSUME IInv, NEW ns \in Durations, HistInput(ns), do_histogram
  PROVE  /\ config' = config /\ died' = died /\ hist_num_samples' = hist_num_samples + 1
         /\ config.ns_per_bucket # 0
         /\ wild' \in Nat /\ longest' \in Nat
         /\ denied' = denied /\ corrupted' \in BOOLEAN
         /\ WildOnlyAfterStall' /\ Corrupts'
<1>1. /\ ns \in Nat /\ W \in Nat /\ longest \in Nat /\ wild \in Nat
      /\ config.ns_per_bucket \in Int /\ (Asserts => config.ns_per_bucket > 0)
  BY WidthsAssumption, ConfigFacts DEF IInv, Types
<1>2. /\ config' = config /\ died' = died /\ hist_num_samples' = hist_num_samples + 1
      /\ config.ns_per_bucket # 0 /\ ~Refused(ToInt(ns))
      /\ Count(Quotient(ToInt(ns), config.ns_per_bucket))
      /\ longest' = IF ns > longest THEN ns ELSE longest
  BY DEF HistInput, Traps, Observe
<1>3. longest' \in Nat /\ longest' >= ns /\ longest' >= longest   BY <1>1, <1>2
<1>4. wild' \in {wild, wild + 1}   BY <1>2 DEF Count
<1>5. ASSUME wild' # wild PROVE ~Asserts /\ (2 * longest' >= W \/ config.ns_per_bucket < 0)
  <2>1. Quotient(ToInt(ns), config.ns_per_bucket) < 0   BY <1>2, <1>5 DEF Count
  <2>2. ASSUME Asserts PROVE FALSE
    <3>1. ToInt(ns) \in Nat   BY <1>1, <1>2, <2>2, ToIntInt DEF Refused
    <3>2. Quotient(ToInt(ns), config.ns_per_bucket) \in Nat   BY <1>1, <2>2, <3>1, BucketInside
    <3>3. QED   BY <2>1, <3>2
  <2>3. ASSUME config.ns_per_bucket > 0 PROVE 2 * ns >= W
    <3>1. SUFFICES ASSUME 2 * ns < W PROVE FALSE   BY <1>1
    <3>2. ToInt(ns) = ns   BY <1>1, <3>1, ToIntFits
    <3>3. Quotient(ToInt(ns), config.ns_per_bucket) \in Nat   BY <1>1, <2>3, <3>2, BucketInside
    <3>4. QED   BY <2>1, <3>3
  <2>4. 2 * ns >= W => 2 * longest' >= W   BY <1>1, <1>3, StallStays
  <2>5. QED   BY <1>1, <1>2, <2>2, <2>3, <2>4
<1>6. ASSUME wild > 0 PROVE ~Asserts /\ (2 * longest' >= W \/ config.ns_per_bucket < 0)
  <2>1. ~Asserts /\ (2 * longest >= W \/ config.ns_per_bucket < 0)
    BY <1>6 DEF IInv, WildOnlyAfterStall, Stalled
  <2>2. 2 * longest >= W => 2 * longest' >= W   BY <1>1, <1>3, StallStays
  <2>3. QED   BY <2>1, <2>2
<1>7. WildOnlyAfterStall'
  <2>1. wild' > 0 => ~Asserts /\ (2 * longest' >= W \/ config.ns_per_bucket < 0)
    BY <1>1, <1>5, <1>6
  <2>2. QED   BY <1>2, <2>1 DEF WildOnlyAfterStall, Stalled, Asserts
<1>8. denied' = denied /\ corrupted' \in BOOLEAN /\ Corrupts'
  <2>1. /\ denied' = denied
        /\ corrupted' = (corrupted \/ Quotient(ToInt(ns), config.ns_per_bucket) < 0)
        /\ wild' = IF Quotient(ToInt(ns), config.ns_per_bucket) < 0 THEN wild + 1 ELSE wild
    BY <1>2 DEF HistInput, Count
  <2>2. InJitter /\ corrupted => wild > 0   BY DEF IInv, Corrupts
  <2>3. InJitter' = InJitter /\ do_histogram'   BY <1>2 DEF InJitter, do_histogram
  <2>4. CASE Quotient(ToInt(ns), config.ns_per_bucket) < 0
    BY <1>1, <2>1, <2>3, <2>4 DEF Corrupts
  <2>5. CASE ~(Quotient(ToInt(ns), config.ns_per_bucket) < 0)
    BY <2>1, <2>2, <2>3, <2>5 DEF Corrupts, IInv, Types
  <2>6. QED   BY <2>1, <2>4, <2>5
<1>9. QED   BY <1>1, <1>2, <1>3, <1>4, <1>7, <1>8

----------------------------------------------------------------------------
(* The steps.                                                              *)

LEMMA SameRing == ASSUME IInv, UNCHANGED heap, config' = config, Done' = Done PROVE Ring'
BY DEF IInv, Ring, heap

LEMMA AllocateStep == ASSUME IInv, InJitter, ~died, Allocate PROVE IInv'
<1>0. NUM_MALLOCS \in Nat \ {0}   BY RingAssumption
<1>1. /\ i \in Nat /\ pc = "top" /\ pc' = "timed" /\ i < config.loops
      /\ UNCHANGED <<vars, i, extremes>> /\ config.loops \in Int /\ config.malloc \in BOOLEAN
  BY ConfigFacts DEF IInv, Types, Allocate, Goes
<1>2. Types' /\ Iterations' /\ Corrupts' /\ WildOnlyAfterStall' /\ LostOnlyForCause'
  BY <1>1
  DEF IInv, Types, Iterations, Corrupts, WildOnlyAfterStall, LostOnlyForCause, vars, stats,
     InJitter, do_histogram, Stalled, Asserts
<1>3. config' = config /\ Done = i /\ Done' = i + 1   BY <1>1 DEF vars, Done
<1>4. Ring'
  <2> DEFINE k == i % NUM_MALLOCS
  <2>1. k \in RingSlots /\ (i < NUM_MALLOCS => k = i)   BY <1>0, <1>1, ModBelow DEF RingSlots
  <2>2. CASE ~config.malloc
    <3>1. UNCHANGED heap   BY <2>2 DEF Allocate
    <3>2. QED   BY <1>3, <2>2, <3>1 DEF IInv, Ring, heap
  <2>3. CASE config.malloc
    <3>1. PICK b \in Blocks \ Kept(k) :
            mallocs' = [mallocs EXCEPT ![k] = {b}] /\ live' = Kept(k) \union {b}
      BY <2>3 DEF Allocate
    <3> HIDE DEF k
    <3>2. /\ mallocs \in [RingSlots -> SUBSET Blocks]
          /\ live = UNION {mallocs[l] : l \in RingSlots}
          /\ \A l, m \in RingSlots : l # m => mallocs[l] \intersect mallocs[m] = {}
      BY DEF IInv, Ring
    <3>3. \A l \in RingSlots : mallocs'[l] = IF l = k THEN {b} ELSE mallocs[l]
      BY <2>1, <3>1, <3>2
    <3>4. mallocs' \in [RingSlots -> SUBSET Blocks]   BY <2>1, <3>1, <3>2
    <3>5. \A l \in RingSlots : l # k => mallocs[l] \subseteq Kept(k)
      BY <2>1, <3>2 DEF Kept
    <3>6. live' = UNION {mallocs'[l] : l \in RingSlots}
      <4>1. ASSUME NEW x \in live' PROVE \E l \in RingSlots : x \in mallocs'[l]
        <5>1. CASE x = b   BY <2>1, <3>3, <5>1
        <5>2. CASE x \in Kept(k)
          <6>1. PICK l \in RingSlots : x \in mallocs[l]   BY <3>2, <5>2 DEF Kept
          <6>2. l # k   BY <5>2, <6>1 DEF Kept
          <6>3. QED   BY <3>3, <6>1, <6>2
        <5>3. QED   BY <3>1, <5>1, <5>2
      <4>2. ASSUME NEW l \in RingSlots PROVE mallocs'[l] \subseteq live'
        BY <3>1, <3>3, <3>5
      <4>3. QED   BY <4>1, <4>2
    <3>7. \A l, m \in RingSlots : l # m => mallocs'[l] \intersect mallocs'[m] = {}
      BY <3>1, <3>2, <3>3, <3>5
    <3>8. ASSUME NEW l \in RingSlots
          PROVE  IF config'.malloc /\ l < Done' THEN \E c \in Blocks : mallocs'[l] = {c}
                                                ELSE mallocs'[l] = {}
      <4>0. IF l < i THEN \E c \in Blocks : mallocs[l] = {c} ELSE mallocs[l] = {}
        BY <1>3, <2>3 DEF IInv, Ring
      <4>1. CASE l = k
        <5>1. mallocs'[l] = {b} /\ b \in Blocks   BY <3>1, <3>3, <4>1
        <5>2. l < i + 1   BY <1>0, <1>1, <2>1, <4>1 DEF RingSlots
        <5>3. QED   BY <1>3, <2>3, <5>1, <5>2
      <4>2. CASE l # k
        <5>1. mallocs'[l] = mallocs[l]   BY <3>3, <4>2
        <5>2. l < i + 1 <=> l < i   BY <1>0, <1>1, <2>1, <4>2 DEF RingSlots
        <5>3. QED   BY <1>3, <2>3, <4>0, <5>1, <5>2
      <4>3. QED   BY <4>1, <4>2
    <3>9. QED   BY <3>4, <3>6, <3>7, <3>8 DEF Ring
  <2>4. QED   BY <1>1, <2>2, <2>3
<1>5. QED   BY <1>2, <1>4 DEF IInv

LEMMA MeasureStep ==
  ASSUME IInv, InJitter, ~died, NEW ns \in Durations, Measure(ns) PROVE IInv'
<1>0. ns \in Nat   BY WidthsAssumption
<1>1. /\ i \in Nat /\ pc = "timed" /\ pc' = "top" /\ i' = i + 1 /\ UNCHANGED heap
      /\ i < config.loops /\ config.loops \in Int /\ longest \in Nat
  BY ConfigFacts DEF IInv, Types, Iterations, Measure, Goes
<1>2. /\ config' = config /\ died' = died /\ wild' \in Nat /\ longest' \in Nat
      /\ hist_num_samples' \in Nat
      /\ do_histogram => hist_num_samples' = hist_num_samples + 1 /\ config.ns_per_bucket # 0
      /\ denied' = denied /\ corrupted' \in BOOLEAN
      /\ WildOnlyAfterStall' /\ Corrupts'
  <2>1. CASE do_histogram
    <3>1. HistInput(ns)   BY <2>1 DEF Measure
    <3>2. QED   BY <2>1, <3>1, Sample DEF IInv, Types
  <2>2. CASE ~do_histogram
    <3>1. /\ UNCHANGED <<config, stats, average_sample, wild, corrupted, denied, died>>
          /\ longest' = IF ns > longest THEN ns ELSE longest
      BY <2>2 DEF Measure, Observe
    <3>2. longest' \in Nat /\ longest' >= longest   BY <1>0, <1>1, <3>1
    <3>3. 2 * longest >= W => 2 * longest' >= W   BY <1>1, <3>2, WidthsAssumption, StallStays
    <3>4. WildOnlyAfterStall'
      BY <3>1, <3>3 DEF IInv, WildOnlyAfterStall, Stalled, Asserts
    <3>5. QED   BY <2>2, <3>1, <3>2, <3>4 DEF IInv, Types, stats, Corrupts, InJitter, do_histogram
  <2>3. QED   BY <2>1, <2>2
<1>3. Types'   BY <1>1, <1>2 DEF IInv, Types
<1>4. Iterations'   BY <1>1, <1>2 DEF IInv, Types, Iterations, InJitter, do_histogram
<1>5. Ring'
  <2>1. Done' = Done   BY <1>1 DEF Done
  <2>2. QED   BY <1>1, <1>2, <2>1, SameRing
<1>6. LostOnlyForCause'
  BY <1>1, <1>2 DEF IInv, Types, LostOnlyForCause, InJitter, do_histogram
<1>7. QED   BY <1>2, <1>3, <1>4, <1>5, <1>6 DEF IInv

LEMMA ReportStep == ASSUME IInv, InJitter, ~died, Report PROVE IInv'
<1>1. /\ i \in Nat /\ pc = "top" /\ pc' = "done" /\ UNCHANGED <<i, heap, extremes>>
      /\ i = (IF config.loops > 0 THEN config.loops ELSE 0) /\ config.loops \in Int /\ ~Guards
  BY ConfigFacts DEF IInv, Types, Iterations, Report, Goes, LoopEnds
<1>2. /\ UNCHANGED <<config, stats, wild, shortest, longest>>
      /\ died' \in BOOLEAN /\ (died' => do_histogram /\ hist_num_samples = 0)
      /\ ~died' /\ do_histogram => hist_num_samples # 0
      /\ UNCHANGED <<corrupted, denied>>
  <2>1. CASE do_histogram
    <3>1. HistPrint   BY <2>1 DEF Report
    <3>2. QED   BY <1>1, <2>1, <3>1 DEF HistPrint
  <2>2. CASE ~do_histogram   BY <2>2 DEF Report, vars, stats, IInv, Types
  <2>3. QED   BY <2>1, <2>2
<1>3. Types'   BY <1>1, <1>2 DEF IInv, Types, stats
<1>4. Iterations'   BY <1>1, <1>2 DEF IInv, Types, Iterations, InJitter, do_histogram, stats
<1>5. Ring'
  <2>1. Done' = Done   BY <1>1 DEF Done
  <2>2. QED   BY <1>1, <1>2, <2>1, SameRing
<1>6. WildOnlyAfterStall' /\ Corrupts'
  BY <1>2 DEF IInv, WildOnlyAfterStall, Stalled, Asserts, Corrupts, InJitter, do_histogram
<1>7. LostOnlyForCause'
  <2>1. do_histogram => hist_num_samples = i /\ (i > 0 => config.ns_per_bucket # 0)
    BY DEF IInv, Iterations
  <2>2. /\ died' => do_histogram /\ config.loops <= 0
        /\ ~died' /\ do_histogram => config.loops > 0 /\ config.ns_per_bucket # 0
    BY <1>1, <1>2, <2>1
  <2>3. config' = config   BY <1>2
  <2>4. QED   BY <2>2, <2>3 DEF LostOnlyForCause, InJitter, do_histogram
<1>8. QED   BY <1>3, <1>4, <1>5, <1>6, <1>7 DEF IInv

\* The steps that end a jitter measurement early.
LEMMA DyingStep ==
  ASSUME IInv, InJitter, ~died,
         \/ AllocateFails \/ \E ns \in Durations : MeasureDies(ns)
         \/ Crashes /\ UNCHANGED jitterVars
  PROVE  IInv'
<1>1. /\ died' /\ UNCHANGED <<config, stats, average_sample, wild, corrupted, shortest, longest>>
      /\ UNCHANGED jitterVars /\ denied' \in {denied, TRUE}
  BY DEF AllocateFails, MeasureDies, HistInputDies, Crashes
<1>2. \/ denied'
      \/ do_histogram /\ (Stalled \/ config.ns_per_bucket <= 0)
  <2>1. CASE AllocateFails   BY <2>1 DEF AllocateFails
  <2>2. CASE \E ns \in Durations : MeasureDies(ns)
    BY <2>2, ConfigFacts DEF IInv, MeasureDies, HistInputDies, Refused, Traps
  <2>3. CASE Crashes
    <3>1. wild > 0   BY <2>3 DEF Crashes, IInv, Corrupts
    <3>2. Stalled \/ config.ns_per_bucket < 0   BY <3>1 DEF IInv, WildOnlyAfterStall
    <3>3. do_histogram   BY <3>1 DEF IInv, Corrupts
    <3>4. QED   BY <3>2, <3>3, ConfigFacts DEF IInv
  <2>4. QED   BY <2>1, <2>2, <2>3
<1>3. died' = TRUE   BY DEF AllocateFails, MeasureDies, HistInputDies, Crashes
<1>4. Types'   BY <1>1, <1>3 DEF IInv, Types, stats, jitterVars
<1>5. Iterations' /\ WildOnlyAfterStall' /\ Corrupts'
  BY <1>1 DEF IInv, Iterations, WildOnlyAfterStall, Stalled, Asserts, InJitter, do_histogram,
     Corrupts, stats, jitterVars
<1>6. Ring'
  <2>1. UNCHANGED heap /\ Done' = Done   BY <1>1 DEF jitterVars, Done
  <2>2. QED   BY <1>1, <2>1, SameRing
<1>7. LostOnlyForCause'
  BY <1>1, <1>2 DEF LostOnlyForCause, IInv, InJitter, do_histogram, Stalled, jitterVars
<1>8. QED   BY <1>4, <1>5, <1>6, <1>7 DEF IInv

\* The publishers.
LEMMA PublisherStep == ASSUME IInv, ~InJitter, Next, UNCHANGED jitterVars PROVE IInv'
<1>0. UNCHANGED heap /\ Done' = Done   BY DEF jitterVars, Done
<1>1. config' = config
  BY DEF Next, HistInput, HistInputDies, HistInit, HistPrint, Crashes, Terminated, vars
<1>2. Ring'   BY <1>0, <1>1, SameRing
<1>3. Iterations' /\ LostOnlyForCause' /\ Corrupts'
  BY <1>1 DEF Iterations, LostOnlyForCause, Corrupts, InJitter
<1>4. ASSUME NEW ns \in Durations, HistInput(ns) PROVE Types' /\ WildOnlyAfterStall'
  <2>1. do_histogram   BY ConfigsAssumption DEF IInv, Types, InJitter, do_histogram
  <2>2. QED   BY <1>4, <2>1, Sample DEF IInv, Types, jitterVars
<1>5. ASSUME NEW ns \in Durations, HistInputDies(ns) PROVE Types' /\ WildOnlyAfterStall'
  BY <1>5 DEF HistInputDies, IInv, Types, WildOnlyAfterStall, Stalled, Asserts, stats, jitterVars
<1>6. ASSUME HistInit PROVE Types' /\ WildOnlyAfterStall'
  BY <1>6 DEF HistInit, IInv, Types, WildOnlyAfterStall, jitterVars
<1>7. ASSUME HistPrint PROVE Types' /\ WildOnlyAfterStall'
  BY <1>7 DEF HistPrint, IInv, Types, WildOnlyAfterStall, Stalled, Asserts, stats, jitterVars
<1>8. ASSUME Terminated PROVE Types' /\ WildOnlyAfterStall'
  BY <1>8 DEF Terminated, IInv, Types, WildOnlyAfterStall, Stalled, Asserts, vars, stats, jitterVars
<1>9. ASSUME Crashes PROVE Types' /\ WildOnlyAfterStall'
  BY <1>9 DEF Crashes, IInv, Types, WildOnlyAfterStall, Stalled, Asserts, stats, jitterVars
<1>10. Types' /\ WildOnlyAfterStall'   BY <1>4, <1>5, <1>6, <1>7, <1>8, <1>9 DEF Next
<1>11. QED   BY <1>2, <1>3, <1>10 DEF IInv

LEMMA Stutter == ASSUME IInv, UNCHANGED allVars PROVE IInv'
<1>1. UNCHANGED heap /\ config' = config /\ Done' = Done
  BY DEF allVars, vars, jitterVars, Done
<1>2. Ring'   BY <1>1, SameRing
<1>3. Types' /\ Iterations'
  BY DEF allVars, vars, stats, jitterVars, IInv, Types, Iterations, InJitter, do_histogram
<1>4. WildOnlyAfterStall' /\ LostOnlyForCause' /\ Corrupts'
  BY DEF allVars, vars, stats, jitterVars, IInv, WildOnlyAfterStall, Stalled, Asserts,
     LostOnlyForCause, Corrupts, InJitter, do_histogram
<1>5. QED   BY <1>2, <1>3, <1>4 DEF IInv

LEMMA Invariance == JitterSpec => []IInv
<1>1. IInv /\ [JitterNext]_allVars => IInv'
  <2> SUFFICES ASSUME IInv, [JitterNext]_allVars PROVE IInv'   OBVIOUS
  <2>1. CASE InJitter /\ ~died /\ jitter_loop
    BY <2>1, AllocateStep, MeasureStep, ReportStep, DyingStep DEF jitter_loop
  <2>2. CASE Ended \/ UNCHANGED allVars   BY <2>2, Stutter DEF Ended
  <2>3. CASE ~InJitter /\ Next /\ UNCHANGED jitterVars   BY <2>3, PublisherStep
  <2>4. QED   BY <2>1, <2>2, <2>3 DEF JitterNext
<1>2. QED   BY <1>1, InitInv, PTL DEF JitterSpec

----------------------------------------------------------------------------
(* The report: the extremes, the average and the lines of the buckets.     *)

Smallest == IF shortest \in 0..MinSentinel THEN shortest ELSE MinSentinel

\* The history variables, and that of a histogram there is one sample per duration.
Observed ==
  /\ shortest \in Nat \union {-1} /\ longest \in Nat /\ shortest <= longest
  /\ do_histogram => (shortest = -1 <=> hist_num_samples = 0)
  /\ ~do_histogram => hist_num_samples = 0
  /\ hist_num_samples \in 0..MaxSamples

\* Without a stall the extremes are right and the sum, which has not wrapped, lies between
\* as many times the one and the other.
Sampled ==
  do_histogram /\ ~Stalled =>
    /\ hist_max_sample = longest
    /\ hist_min_sample = Smallest
    /\ hist_sample_sum \in Nat
    /\ hist_num_samples * shortest <= hist_sample_sum
    /\ hist_sample_sum <= hist_num_samples * longest

\* The average is taken once, at the end.
Averaged ==
  /\ average_sample # -1 /\ hist_num_samples > 0 /\ ~Stalled
       => shortest <= average_sample /\ average_sample <= longest
  /\ InJitter /\ pc # "done" => average_sample = -1

\* The loop keeps its own extremes, of all durations.
Tracked == InJitter => ts_max_ns = longest /\ ts_min_ns = Smallest

\* A sample is one element more of Bucketed, or one more overflow, or one more outside.
Placed ==
  /\ hist_buckets \in [Buckets -> Nat] /\ hist_overflows \in Nat
  /\ IsFiniteSet(Bucketed)
  /\ EverySampleOnce

RInv == Observed /\ Sampled /\ Averaged /\ Tracked /\ Placed

LEMMA MulMono ==
  ASSUME NEW a \in Int, NEW b \in Int, NEW c \in Nat, a <= b
  PROVE  c * a <= c * b
OBVIOUS

LEMMA OneMoreTimes ==
  ASSUME NEW c \in Nat, NEW a \in Int
  PROVE  (c + 1) * a = c * a + a
OBVIOUS

LEMMA SumAbove ==
  ASSUME NEW n \in Nat, NEW m, m = n + 1, NEW a \in Nat, NEW b \in Nat, NEW x \in Nat,
         NEW sum \in Nat, b <= a, b <= x, n * a <= sum
  PROVE  m * b <= sum + x
<1>1. n * b <= n * a   BY MulMono
<1>2. (n + 1) * b = n * b + b   BY OneMoreTimes
<1>3. n * a \in Nat /\ n * b \in Nat   OBVIOUS
<1>4. QED   BY <1>1, <1>2, <1>3

LEMMA HalfBelow ==
  ASSUME NEW a \in Nat, NEW w \in Nat, 2 * a < w
  PROVE  a < w
OBVIOUS

LEMMA Product ==
  ASSUME NEW a \in Nat, NEW b \in Nat, NEW w \in Nat, a < w, b < w
  PROVE  a * b < w * w
<1>1. a * b <= a * w   BY MulMono
<1>2. a * w <= (w - 1) * w   BY Z3
<1>3. (w - 1) * w = w * w - w   OBVIOUS
<1>4. a * b \in Nat /\ a * w \in Nat /\ w * w \in Nat   OBVIOUS
<1>5. QED   BY <1>1, <1>2, <1>3, <1>4

\* An average lies between the bounds of what it is the average of.
LEMMA Average ==
  ASSUME NEW n \in Nat, NEW k \in Nat \ {0}, NEW a \in Nat, NEW b \in Nat,
         k * a <= n, n <= k * b
  PROVE  n \div k \in Nat /\ a <= n \div k /\ n \div k <= b
<1>1. PICK q \in Nat : q = n \div k /\ k * q <= n /\ n < k * (q + 1)
  <2>1. n \div k \in Nat   BY QuotientNat
  <2>2. n = k * (n \div k) + (n % k) /\ n % k \in 0..(k - 1)   BY Z3
  <2>3. k * (n \div k + 1) = k * (n \div k) + k   BY <2>1
  <2>4. k * (n \div k) \in Nat   BY <2>1
  <2>5. QED   BY <2>1, <2>2, <2>3, <2>4
<1>2. ASSUME a > q PROVE FALSE
  <2>1. k * (q + 1) <= k * a   BY <1>2, MulMono
  <2>2. k * (q + 1) \in Nat /\ k * a \in Nat   OBVIOUS
  <2>3. QED   BY <1>1, <2>1, <2>2
<1>3. ASSUME q > b PROVE FALSE
  <2>1. k * (b + 1) <= k * q   BY <1>3, MulMono
  <2>2. k * (b + 1) = k * b + k   OBVIOUS
  <2>3. k * b \in Nat /\ k * q \in Nat   OBVIOUS
  <2>4. QED   BY <1>1, <2>1, <2>2, <2>3
<1>4. QED   BY <1>1, <1>2, <1>3

\* The pairs of an index and a number up to its count, by their elements.
LEMMA Pairs ==
  ASSUME NEW S, NEW f \in [S -> Nat], NEW A, A = UNION {{b} \X (1..f[b]) : b \in S}
  PROVE  /\ A \subseteq S \X Nat
         /\ \A x \in S \X Nat : x \in A <=> x[2] \in 1..f[x[1]]
<1>1. \A b \in S : f[b] \in Nat   OBVIOUS
<1>2. ASSUME NEW x \in A PROVE x \in S \X Nat
  <2>1. PICK b \in S : x \in {b} \X (1..f[b])   OBVIOUS
  <2>2. QED   BY <1>1, <2>1
<1>3. ASSUME NEW x \in S \X Nat
      PROVE  x \in A <=> x[2] \in 1..f[x[1]]
  <2>1. x = <<x[1], x[2]>> /\ x[1] \in S   OBVIOUS
  <2>2. ASSUME x \in A PROVE x[2] \in 1..f[x[1]]
    <3>1. PICK b \in S : x \in {b} \X (1..f[b])   BY <2>2
    <3>2. QED   BY <3>1
  <2>3. ASSUME x[2] \in 1..f[x[1]] PROVE x \in A
    <3>1. x \in {x[1]} \X (1..f[x[1]])   BY <2>1, <2>3
    <3>2. QED   BY <2>1, <3>1
  <2>4. QED   BY <2>2, <2>3
<1>4. QED   BY <1>2, <1>3

LEMMA NoPairs ==
  ASSUME NEW S, NEW f, f = [b \in S |-> 0]
  PROVE  UNION {{b} \X (1..f[b]) : b \in S} = {}
<1>1. \A b \in S : 1..f[b] = {}   OBVIOUS
<1>2. QED   BY <1>1

\* One sample more in a bucket is one element more.
LEMMA OneMore ==
  ASSUME NEW S, NEW f \in [S -> Nat], NEW s \in S, NEW g \in [S -> Nat],
         \A t \in S : g[t] = IF t = s THEN f[t] + 1 ELSE f[t],
         NEW A, A \subseteq S \X Nat, \A x \in S \X Nat : x \in A <=> x[2] \in 1..f[x[1]],
         NEW B, B \subseteq S \X Nat, \A x \in S \X Nat : x \in B <=> x[2] \in 1..g[x[1]],
         IsFiniteSet(A)
  PROVE  IsFiniteSet(B) /\ Cardinality(B) = Cardinality(A) + 1
<1>1. \A t \in S : f[t] \in Nat /\ g[t] = IF t = s THEN f[t] + 1 ELSE f[t]   OBVIOUS
<1> DEFINE y == <<s, f[s] + 1>>
<1>2. y \notin A   BY <1>1
<1>3. B = A \union {y}
  <2>1. ASSUME NEW x \in S \X Nat PROVE x \in B <=> x \in A \/ x = y
    <3>1. x = <<x[1], x[2]>> /\ x[1] \in S /\ x[2] \in Nat   OBVIOUS
    <3>2. x \in A <=> x[2] \in 1..f[x[1]]   OBVIOUS
    <3>3. x \in B <=> x[2] \in 1..g[x[1]]   OBVIOUS
    <3>4. x = y <=> x[1] = s /\ x[2] = f[s] + 1   BY <3>1
    <3>5. CASE x[1] = s   BY <1>1, <3>1, <3>2, <3>3, <3>4, <3>5
    <3>6. CASE x[1] # s   BY <1>1, <3>1, <3>2, <3>3, <3>4, <3>6
    <3>7. QED   BY <3>5, <3>6
  <2>2. y \in S \X Nat   BY <1>1
  <2>3. A \subseteq S \X Nat /\ B \subseteq S \X Nat   OBVIOUS
  <2>4. QED   BY <2>1, <2>2, <2>3
<1>4. IsFiniteSet(A \union {y})
      /\ Cardinality(A \union {y}) = IF y \in A THEN Cardinality(A) ELSE Cardinality(A) + 1
  <2> HIDE DEF y
  <2>1. QED   BY FS_AddElement
<1>5. QED   BY <1>2, <1>3, <1>4

LEMMA QuotientInt ==
  ASSUME NEW n \in Int, NEW d \in Int \ {0}
  PROVE  Quotient(n, d) \in Int
<1>1. Magnitude(n) \in Nat /\ Magnitude(d) \in Nat \ {0}   BY DEF Magnitude
<1>2. Magnitude(n) \div Magnitude(d) \in Nat   BY <1>1, QuotientNat
<1>3. QED   BY <1>2 DEF Quotient

LEMMA RInit == JitterInit => RInv
<1> SUFFICES ASSUME JitterInit PROVE RInv   OBVIOUS
<1>0. MaxSamples \in Nat   BY WidthsAssumption
<1>1. /\ shortest = -1 /\ longest = 0 /\ hist_num_samples = 0 /\ hist_sample_sum = 0
      /\ hist_max_sample = 0 /\ hist_min_sample = MinSentinel /\ average_sample = -1
      /\ ts_max_ns = 0 /\ ts_min_ns = MinSentinel
      /\ hist_buckets = [b \in Buckets |-> 0] /\ hist_overflows = 0 /\ wild = 0
  BY DEF JitterInit, Init
<1>2. Observed   BY <1>0, <1>1 DEF Observed
<1>3. Sampled /\ Averaged /\ Tracked   BY <1>1 DEF Sampled, Averaged, Tracked, Smallest
<1>4. Placed
  <2>1. Bucketed = {}   BY <1>1, NoPairs DEF Bucketed
  <2>2. QED   BY <1>1, <2>1, FS_EmptySet DEF Placed, EverySampleOnce
<1>5. QED   BY <1>2, <1>3, <1>4 DEF RInv

LEMMA PlaceStep ==
  ASSUME IInv, Placed, NEW ns \in Durations, HistInput(ns)
  PROVE  Placed'
<1> DEFINE q == Quotient(ToInt(ns), config.ns_per_bucket)
<1>1. /\ config' = config /\ hist_num_samples' = hist_num_samples + 1
      /\ Count(q) /\ q \in Int /\ hist_num_samples \in Nat /\ wild \in Nat
      /\ config.num_buckets \in Nat
  <2>1. ns \in Nat /\ ToInt(ns) \in Int   BY WidthsAssumption, ToIntInt
  <2>2. config.ns_per_bucket \in Int \ {0} /\ config.num_buckets \in Nat
    BY ConfigFacts DEF IInv, HistInput, Traps
  <2>3. q \in Int   BY <2>1, <2>2, QuotientInt
  <2>4. QED   BY <2>2, <2>3 DEF HistInput, IInv, Types
<1> HIDE DEF q
<1>2. /\ hist_overflows' = IF q >= config.num_buckets THEN hist_overflows + 1 ELSE hist_overflows
      /\ hist_buckets' = [b \in Buckets |-> IF b = q THEN hist_buckets[b] + 1 ELSE hist_buckets[b]]
      /\ wild' = IF q < 0 THEN wild + 1 ELSE wild
      /\ Buckets' = Buckets
  BY <1>1 DEF Count, Buckets
<1>3. hist_buckets \in [Buckets -> Nat] /\ hist_overflows \in Nat /\ IsFiniteSet(Bucketed)
  BY DEF Placed
<1>4. hist_buckets' \in [Buckets' -> Nat]   BY <1>2, <1>3
<1>5. q \in Buckets <=> ~(q < 0) /\ ~(q >= config.num_buckets)   BY <1>1 DEF Buckets
<1>6. Cardinality(Bucketed) \in Nat   BY <1>3, FS_CardinalityType
<1>7. Cardinality(Bucketed) + hist_overflows + wild = hist_num_samples
  BY DEF Placed, EverySampleOnce
<1>8. CASE q \in Buckets
  <2>1. /\ Bucketed \subseteq Buckets \X Nat
        /\ \A x \in Buckets \X Nat : x \in Bucketed <=> x[2] \in 1..hist_buckets[x[1]]
    BY <1>3, Pairs DEF Bucketed
  <2>2. /\ Bucketed' \subseteq Buckets \X Nat
        /\ \A x \in Buckets \X Nat : x \in Bucketed' <=> x[2] \in 1..hist_buckets'[x[1]]
    <3>1. Bucketed' = UNION {{b} \X (1..hist_buckets'[b]) : b \in Buckets}
      BY <1>2 DEF Bucketed
    <3>2. hist_buckets' \in [Buckets -> Nat]   BY <1>2, <1>4
    <3>3. QED   BY <3>1, <3>2, Pairs
  <2>3. /\ hist_buckets' \in [Buckets -> Nat]
        /\ \A b \in Buckets : hist_buckets'[b] = IF b = q THEN hist_buckets[b] + 1 ELSE hist_buckets[b]
    BY <1>2, <1>4
  <2>4. IsFiniteSet(Bucketed') /\ Cardinality(Bucketed') = Cardinality(Bucketed) + 1
    BY <1>3, <1>8, <2>1, <2>2, <2>3, OneMore
  <2>5. hist_overflows' = hist_overflows /\ wild' = wild   BY <1>2, <1>5, <1>8
  <2>6. Cardinality(Bucketed') + hist_overflows' + wild' = hist_num_samples'
    BY <1>1, <1>3, <1>6, <1>7, <2>4, <2>5
  <2>7. QED   BY <1>3, <1>4, <2>4, <2>5, <2>6 DEF Placed, EverySampleOnce
<1>9. CASE q \notin Buckets
  <2>1. hist_buckets' = hist_buckets   BY <1>2, <1>3, <1>9
  <2>2. Bucketed' = Bucketed   BY <1>2, <2>1 DEF Bucketed
  <2>3. (q < 0) # (q >= config.num_buckets)   BY <1>1, <1>5, <1>9
  <2>4. \/ hist_overflows' = hist_overflows /\ wild' = wild + 1
        \/ hist_overflows' = hist_overflows + 1 /\ wild' = wild
    BY <1>2, <2>3
  <2>5. /\ hist_overflows' \in Nat
        /\ Cardinality(Bucketed') + hist_overflows' + wild' = hist_num_samples'
    <3>1. Cardinality(Bucketed') = Cardinality(Bucketed)   BY <2>2
    <3>2. QED   BY <1>1, <1>3, <1>6, <1>7, <2>4, <3>1
  <2>6. IsFiniteSet(Bucketed')   BY <1>3, <2>2
  <2>7. QED   BY <1>4, <2>5, <2>6 DEF Placed, EverySampleOnce
<1>10. QED   BY <1>8, <1>9

\* What a duration does to the history.
LEMMA ObserveFacts ==
  ASSUME Observed, NEW ns \in Nat, Observe(ns)
  PROVE  /\ shortest' \in Nat /\ longest' \in Nat
         /\ shortest' <= ns /\ ns <= longest' /\ longest <= longest'
         /\ shortest # -1 => shortest' <= shortest
         /\ shortest' \in {ns, shortest}
         /\ shortest = -1 => shortest' = ns
         /\ longest' = IF ns > longest THEN ns ELSE longest
BY DEF Observed, Observe

\* The smallest so far, as both the loop and the histogram keep it.
LEMMA SmallestStep ==
  ASSUME Observed, NEW ns \in Nat, Observe(ns)
  PROVE  Smallest' = IF ns < Smallest THEN ns ELSE Smallest
<1>1. MinSentinel \in Nat   BY WidthsAssumption
<1>2. shortest \in Nat \union {-1}   BY DEF Observed
<1>3. shortest' = IF shortest = -1 \/ ns < shortest THEN ns ELSE shortest   BY DEF Observe
<1>4. QED   BY <1>1, <1>2, <1>3 DEF Smallest

LEMMA SampleReport ==
  ASSUME IInv, RInv, do_histogram, NEW ns \in Durations, HistInput(ns)
  PROVE  Observed' /\ Sampled' /\ average_sample' = average_sample /\ Observe(ns)
<1>0. /\ ns \in Nat /\ W \in Nat /\ W > 1 /\ MaxSamples \in Nat /\ 2 * MaxSamples < W
  BY WidthsAssumption
<1>1. /\ config' = config /\ hist_num_samples < MaxSamples
      /\ hist_num_samples' = hist_num_samples + 1
      /\ hist_sample_sum' = (hist_sample_sum + ToInt(ns)) % U
      /\ hist_max_sample' = IF ToInt(ns) > hist_max_sample THEN ToInt(ns) ELSE hist_max_sample
      /\ hist_min_sample' = IF ToInt(ns) < hist_min_sample THEN ToInt(ns) ELSE hist_min_sample
      /\ Observe(ns) /\ average_sample' = average_sample
  BY DEF HistInput
<1>2. Observed   BY DEF RInv
<1>3. /\ hist_num_samples \in Nat /\ longest \in Nat /\ shortest \in Nat \union {-1}
      /\ (shortest = -1 <=> hist_num_samples = 0)
  BY <1>0, <1>2 DEF Observed
<1>4. /\ shortest' \in Nat /\ longest' \in Nat
      /\ shortest' <= ns /\ ns <= longest' /\ longest <= longest'
      /\ shortest # -1 => shortest' <= shortest
      /\ shortest' \in {ns, shortest}
      /\ shortest = -1 => shortest' = ns
      /\ longest' = IF ns > longest THEN ns ELSE longest
  BY <1>0, <1>1, <1>2, ObserveFacts
<1>5. Observed'
  <2>1. shortest' # -1 /\ hist_num_samples' # 0 /\ shortest' <= longest'   BY <1>0, <1>1, <1>3, <1>4
  <2>2. hist_num_samples' \in 0..MaxSamples   BY <1>0, <1>1, <1>3
  <2>3. do_histogram'   BY <1>1 DEF do_histogram
  <2>4. QED   BY <1>4, <2>1, <2>2, <2>3 DEF Observed
<1>6. ASSUME ~Stalled' PROVE Sampled'
  <2>0. ~(2 * longest' >= W)   BY <1>6 DEF Stalled
  <2>1. longest' < W /\ 2 * ns < W /\ ~(2 * longest >= W)
    <3>1. ASSUME 2 * ns >= W PROVE FALSE   BY <1>0, <1>4, <2>0, <3>1, StallStays
    <3>2. ASSUME 2 * longest >= W PROVE FALSE   BY <1>0, <1>3, <1>4, <2>0, <3>2, StallStays
    <3>3. 2 * longest' < W   BY <1>0, <1>4, <2>0
    <3>4. QED   BY <1>0, <1>4, <3>1, <3>2, <3>3, HalfBelow
  <2>2. ToInt(ns) = ns   BY <1>0, <2>1, ToIntFits
  <2>3. /\ hist_max_sample = longest /\ hist_min_sample = Smallest /\ hist_sample_sum \in Nat
        /\ hist_num_samples * shortest <= hist_sample_sum
        /\ hist_sample_sum <= hist_num_samples * longest
    BY <2>1 DEF RInv, Sampled, Stalled
  <2>4. hist_max_sample' = longest'   BY <1>1, <1>4, <2>2, <2>3
  <2>5. hist_min_sample' = Smallest'   BY <1>0, <1>1, <1>2, <2>2, <2>3, SmallestStep
  <2>6. hist_sample_sum + ns <= hist_num_samples' * longest'
    <3>1. hist_num_samples * longest <= hist_num_samples * longest'   BY <1>3, <1>4, MulMono
    <3>2. (hist_num_samples + 1) * longest' = hist_num_samples * longest' + longest'
      BY <1>3, <1>4, OneMoreTimes
    <3>3. hist_num_samples * longest \in Int /\ hist_num_samples * longest' \in Int
      BY <1>3, <1>4
    <3>4. QED   BY <1>0, <1>1, <1>4, <2>3, <3>1, <3>2, <3>3
  <2>7. hist_num_samples' * shortest' <= hist_sample_sum + ns
    <3>1. CASE hist_num_samples = 0
      <4>1. shortest' = ns   BY <1>3, <1>4, <3>1
      <4>2. hist_num_samples' * shortest' = ns   BY <1>0, <1>1, <3>1, <4>1
      <4>3. QED   BY <1>0, <2>3, <4>2
    <3>2. CASE hist_num_samples # 0
      <4>1. shortest' <= shortest /\ shortest \in Nat   BY <1>3, <1>4, <3>2
      <4>2. hist_num_samples' * shortest' <= hist_sample_sum + ns
        BY <1>0, <1>1, <1>3, <1>4, <2>3, <4>1, SumAbove
      <4>3. QED   BY <4>2
    <3>3. QED   BY <3>1, <3>2
  <2>8. hist_sample_sum' = hist_sample_sum + ns
    <3>1. hist_num_samples' \in Nat /\ hist_num_samples' < W
      <4>1. MaxSamples < W   BY <1>0, HalfBelow
      <4>2. QED   BY <1>0, <1>1, <1>3, <4>1
    <3>2. hist_num_samples' * longest' < W * W   BY <1>0, <1>4, <2>1, <3>1, Product
    <3>3. hist_num_samples' * longest' \in Int /\ W * W \in Nat   BY <1>0, <1>4, <3>1
    <3> DEFINE t == hist_sample_sum + ns
    <3>4. t \in Nat /\ t < W * W   BY <1>0, <2>3, <2>6, <3>2, <3>3
    <3>5. t % (W * W) = t
      <4> DEFINE u == W * W
      <4>1. t \in Nat /\ t < u /\ u \in Nat   BY <3>3, <3>4
      <4> HIDE DEF t, u
      <4>2. u \in Nat \ {0}   BY <4>1
      <4>3. t % u = t   BY <4>1, <4>2, ModBelow
      <4>4. QED   BY <4>3 DEF u
    <3>6. QED   BY <1>1, <2>2, <3>5 DEF U
  <2>9. hist_sample_sum + ns \in Nat   BY <1>0, <2>3
  <2>10. QED   BY <2>4, <2>5, <2>6, <2>7, <2>8, <2>9 DEF Sampled
<1>7. ASSUME Stalled' PROVE Sampled'   BY <1>7 DEF Sampled
<1>8. Sampled'   BY <1>6, <1>7
<1>9. QED   BY <1>1, <1>5, <1>8

\* What the report is of does not change when the samples do not.
LEMMA SameReport ==
  ASSUME RInv, UNCHANGED <<config, stats, wild, shortest, longest>>
  PROVE  Observed' /\ Sampled' /\ Placed' /\ Smallest' = Smallest
<1>1. /\ Smallest' = Smallest /\ Buckets' = Buckets
      /\ UNCHANGED <<hist_buckets, hist_min_sample, hist_max_sample, hist_overflows,
                     hist_num_samples, hist_sample_sum, config, shortest, longest, wild>>
  BY DEF Smallest, Buckets, stats
<1>2. Bucketed' = Bucketed   BY <1>1 DEF Bucketed
<1>3. Observed'   BY <1>1 DEF RInv, Observed, do_histogram
<1>4. Sampled'   BY <1>1 DEF RInv, Sampled, do_histogram, Stalled
<1>5. Placed'   BY <1>1, <1>2 DEF RInv, Placed, EverySampleOnce
<1>6. QED   BY <1>1, <1>3, <1>4, <1>5

LEMMA PrintReport ==
  ASSUME RInv, do_histogram, HistPrint
  PROVE  /\ average_sample' # -1 /\ hist_num_samples' > 0 /\ ~Stalled'
              => shortest' <= average_sample' /\ average_sample' <= longest'
         /\ UNCHANGED <<config, stats, wild, shortest, longest>>
<1>1. UNCHANGED <<config, stats, wild, shortest, longest>>   BY DEF HistPrint
<1>2. SUFFICES ASSUME hist_num_samples > 0, ~Stalled
               PROVE  shortest <= average_sample' /\ average_sample' <= longest
  <2>1. hist_num_samples' = hist_num_samples /\ (Stalled' <=> Stalled)
    BY <1>1 DEF stats, Stalled
  <2>2. QED   BY <1>1, <2>1
<1>3. average_sample' = ToInt(hist_sample_sum \div hist_num_samples)
  BY <1>2 DEF HistPrint
<1>4. /\ hist_num_samples \in Nat /\ longest \in Nat /\ shortest \in Nat \union {-1}
      /\ hist_num_samples # 0 => shortest # -1
  BY WidthsAssumption DEF RInv, Observed
<1>5. shortest \in Nat /\ hist_num_samples \in Nat \ {0}   BY <1>2, <1>4
<1>6. /\ hist_sample_sum \in Nat
      /\ hist_num_samples * shortest <= hist_sample_sum
      /\ hist_sample_sum <= hist_num_samples * longest
  BY <1>2 DEF RInv, Sampled
<1> DEFINE a == hist_sample_sum \div hist_num_samples
<1>7. a \in Nat /\ shortest <= a /\ a <= longest   BY <1>4, <1>5, <1>6, Average
<1> HIDE DEF a
<1>8. ToInt(a) = a
  <2>1. W \in Nat /\ ~(2 * longest >= W)   BY <1>2, WidthsAssumption DEF Stalled
  <2>2. 2 * a < W   BY <1>4, <1>7, <2>1
  <2>3. QED   BY <1>7, <2>2, ToIntFits
<1>9. QED   BY <1>3, <1>7, <1>8 DEF a

LEMMA RMeasureStep ==
  ASSUME IInv, RInv, InJitter, NEW ns \in Durations, Measure(ns)
  PROVE  RInv'
<1>0. ns \in Nat   BY WidthsAssumption
<1>1. pc = "timed" /\ pc' = "top" /\ average_sample = -1 /\ Track(ns)
  BY DEF Measure, Goes, RInv, Averaged
<1>2. Observed' /\ Sampled' /\ Placed' /\ Observe(ns) /\ config' = config /\ average_sample' = -1
  <2>1. CASE do_histogram
    <3>1. HistInput(ns)   BY <2>1 DEF Measure
    <3>2. config' = config   BY <3>1 DEF HistInput
    <3>3. Placed'   BY <3>1, PlaceStep DEF RInv
    <3>4. QED   BY <1>1, <2>1, <3>1, <3>2, <3>3, SampleReport
  <2>2. CASE ~do_histogram
    <3>1. Observe(ns) /\ UNCHANGED <<config, stats, average_sample, wild>>
      BY <2>2 DEF Measure
    <3>2. ~do_histogram'   BY <2>2, <3>1 DEF do_histogram
    <3>3. Sampled'   BY <3>2 DEF Sampled
    <3>4. Observed'
      <4>1. Observed   BY DEF RInv
      <4>2. /\ shortest' \in Nat /\ longest' \in Nat /\ shortest' <= longest'
            /\ hist_num_samples' = hist_num_samples
        BY <1>0, <3>1, <4>1, ObserveFacts DEF stats
      <4>3. QED   BY <2>2, <3>2, <4>1, <4>2 DEF Observed
    <3>5. Placed'
      <4>1. Bucketed' = Bucketed /\ Buckets' = Buckets   BY <3>1 DEF Bucketed, Buckets, stats
      <4>2. QED   BY <3>1, <4>1 DEF RInv, Placed, EverySampleOnce, stats
    <3>6. QED   BY <1>1, <3>1, <3>3, <3>4, <3>5
  <2>3. QED   BY <2>1, <2>2
<1>3. Averaged'   BY <1>2 DEF Averaged
<1>4. Tracked'
  <2>1. ts_max_ns = longest /\ ts_min_ns = Smallest   BY DEF RInv, Tracked
  <2>2. longest' = IF ns > longest THEN ns ELSE longest   BY <1>2 DEF Observe
  <2>3. Smallest' = IF ns < Smallest THEN ns ELSE Smallest
    BY <1>0, <1>2, SmallestStep DEF RInv
  <2>4. QED   BY <1>1, <2>1, <2>2, <2>3 DEF Track, Tracked
<1>5. QED   BY <1>2, <1>3, <1>4 DEF RInv

\* The steps of um_perf_jitter that take no sample and print nothing.
LEMMA RQuietStep ==
  ASSUME RInv, UNCHANGED <<config, stats, average_sample, wild, shortest, longest, extremes>>,
         pc' # "done" => pc # "done"
  PROVE  RInv'
<1>1. Observed' /\ Sampled' /\ Placed' /\ Smallest' = Smallest   BY SameReport
<1>2. Averaged'   BY DEF RInv, Averaged, InJitter, Stalled, stats
<1>3. Tracked'   BY <1>1 DEF RInv, Tracked, InJitter, extremes
<1>4. QED   BY <1>1, <1>2, <1>3 DEF RInv

LEMMA RReportStep ==
  ASSUME RInv, InJitter, Report
  PROVE  RInv'
<1>1. pc = "top" /\ pc' = "done" /\ UNCHANGED extremes   BY DEF Report, Goes
<1>2. /\ UNCHANGED <<config, stats, wild, shortest, longest>>
      /\ average_sample' # -1 /\ hist_num_samples' > 0 /\ ~Stalled'
              => shortest' <= average_sample' /\ average_sample' <= longest'
  <2>1. CASE do_histogram
    <3>1. HistPrint   BY <2>1 DEF Report
    <3>2. QED   BY <2>1, <3>1, PrintReport
  <2>2. CASE ~do_histogram
    <3>1. UNCHANGED vars   BY <2>2 DEF Report
    <3>2. average_sample = -1   BY <1>1 DEF RInv, Averaged
    <3>3. QED   BY <3>1, <3>2 DEF vars
  <2>3. QED   BY <2>1, <2>2
<1>3. Observed' /\ Sampled' /\ Placed' /\ Smallest' = Smallest   BY <1>2, SameReport
<1>4. Averaged'   BY <1>1, <1>2 DEF Averaged
<1>5. Tracked'   BY <1>1, <1>2, <1>3 DEF RInv, Tracked, InJitter, extremes
<1>6. QED   BY <1>3, <1>4, <1>5 DEF RInv

LEMMA RInitStep ==
  ASSUME RInv, HistInit, average_sample = -1
  PROVE  Observed' /\ Sampled' /\ Placed' /\ average_sample' = -1 /\ config' = config
<1>0. MaxSamples \in Nat   BY WidthsAssumption
<1>1. /\ shortest' = -1 /\ longest' = 0 /\ hist_num_samples' = 0 /\ hist_sample_sum' = 0
      /\ hist_max_sample' = 0 /\ hist_min_sample' = MinSentinel /\ hist_overflows' = 0
      /\ hist_buckets' = [b \in Buckets |-> 0] /\ wild' = 0
      /\ config' = config /\ average_sample' = -1
  BY DEF HistInit
<1>2. Buckets' = Buckets   BY <1>1 DEF Buckets
<1>3. Observed'   BY <1>0, <1>1 DEF Observed
<1>4. Sampled'   BY <1>1 DEF Sampled, Smallest
<1>5. Placed'
  <2>1. Bucketed' = {}   BY <1>1, <1>2, NoPairs DEF Bucketed
  <2>2. hist_buckets' \in [Buckets' -> Nat]   BY <1>1, <1>2
  <2>3. QED   BY <1>1, <2>1, <2>2, FS_EmptySet DEF Placed, EverySampleOnce
<1>6. QED   BY <1>1, <1>3, <1>4, <1>5

LEMMA RPublisherStep ==
  ASSUME IInv, RInv, ~InJitter, Next, UNCHANGED jitterVars
  PROVE  RInv'
<1>1. config' = config
  BY DEF Next, HistInput, HistInputDies, HistInit, HistPrint, Crashes, Terminated, vars
<1>2. do_histogram
  <2>1. config \in Configs   BY DEF IInv, Types
  <2>2. config.program # "um_perf_jitter"   BY DEF InJitter
  <2>3. QED   BY <2>1, <2>2, ConfigsAssumption DEF do_histogram
<1>3. ~InJitter' /\ Tracked'   BY <1>1 DEF InJitter, Tracked
<1>4. CASE Working /\ \E ns \in Durations : HistInput(ns)
  <2>1. PICK ns \in Durations : HistInput(ns)   BY <1>4
  <2>2. average_sample = -1   BY <1>4 DEF Working
  <2>3. Observed' /\ Sampled' /\ average_sample' = -1   BY <1>2, <2>1, <2>2, SampleReport
  <2>4. Placed'   BY <2>1, PlaceStep DEF RInv
  <2>5. Averaged'   BY <1>3, <2>3 DEF Averaged
  <2>6. QED   BY <1>3, <2>3, <2>4, <2>5 DEF RInv
<1>5. CASE Working /\ HistInit
  <2>1. average_sample = -1   BY <1>5 DEF Working
  <2>2. Observed' /\ Sampled' /\ Placed' /\ average_sample' = -1   BY <1>5, <2>1, RInitStep
  <2>3. Averaged'   BY <1>3, <2>2 DEF Averaged
  <2>4. QED   BY <1>3, <2>2, <2>3 DEF RInv
<1>6. CASE HistPrint
  <2>1. /\ UNCHANGED <<config, stats, wild, shortest, longest>>
        /\ average_sample' # -1 /\ hist_num_samples' > 0 /\ ~Stalled'
              => shortest' <= average_sample' /\ average_sample' <= longest'
    BY <1>2, <1>6, PrintReport
  <2>2. Observed' /\ Sampled' /\ Placed'   BY <2>1, SameReport
  <2>3. Averaged'   BY <1>3, <2>1 DEF Averaged
  <2>4. QED   BY <1>3, <2>2, <2>3 DEF RInv
<1>7. CASE Terminated \/ Crashes \/ \E ns \in Durations : HistInputDies(ns)
  <2>1. UNCHANGED <<config, stats, average_sample, wild, shortest, longest, extremes>> /\ pc' = pc
    BY <1>7 DEF Terminated, Crashes, HistInputDies, vars, jitterVars
  <2>2. QED   BY <2>1, RQuietStep
<1>8. QED   BY <1>4, <1>5, <1>6, <1>7 DEF Next

LEMMA ReportInvariance == JitterSpec => []RInv
<1>1. IInv /\ RInv /\ [JitterNext]_allVars => RInv'
  <2> SUFFICES ASSUME IInv, RInv, [JitterNext]_allVars PROVE RInv'   OBVIOUS
  <2>1. CASE InJitter /\ jitter_loop
    <3>1. CASE Allocate
      <4>1. UNCHANGED <<vars, extremes>> /\ pc = "top"   BY <3>1 DEF Allocate, Goes
      <4>2. QED   BY <4>1, RQuietStep DEF vars
    <3>2. CASE \/ AllocateFails \/ \E ns \in Durations : MeasureDies(ns)
               \/ Crashes /\ UNCHANGED jitterVars
      <4>1. UNCHANGED <<config, stats, average_sample, wild, shortest, longest, jitterVars>>
        BY <3>2 DEF AllocateFails, MeasureDies, HistInputDies, Crashes
      <4>2. QED   BY <4>1, RQuietStep DEF jitterVars
    <3>3. CASE Report   BY <2>1, <3>3, RReportStep
    <3>4. CASE \E ns \in Durations : Measure(ns)   BY <2>1, <3>4, RMeasureStep
    <3>5. QED   BY <2>1, <3>1, <3>2, <3>3, <3>4 DEF jitter_loop
  <2>2. CASE Ended \/ UNCHANGED allVars
    <3>1. UNCHANGED <<vars, jitterVars>>   BY <2>2 DEF Ended, allVars
    <3>2. QED   BY <3>1, RQuietStep DEF vars, jitterVars
  <2>3. CASE ~InJitter /\ Next /\ UNCHANGED jitterVars   BY <2>3, RPublisherStep
  <2>4. QED   BY <2>1, <2>2, <2>3 DEF JitterNext
<1>2. QED   BY <1>1, RInit, Invariance, PTL DEF JitterSpec

----------------------------------------------------------------------------
(* The theorems.                                                           *)

\* An index below zero needs a send that stalled or a negative bucket width; um_perf_pub
\* never has one.
THEOREM MemorySafeUnlessStalled == JitterSpec => []WildOnlyAfterStall
BY Invariance, PTL DEF IInv

\* Nothing but a resource denied, a write before the array, a bucket width that is not positive
\* or a histogram of no iteration ends a jitter measurement; and the write before the
\* array needs a stall or a negative width.
THEOREM LostForCause == JitterSpec => []LostOnlyForCause
BY Invariance, PTL DEF IInv

\* No block is freed twice, none is lost, and the ring never holds more than its size.
THEOREM RingOfBlocks == JitterSpec => []BlocksInRing
<1>1. ASSUME IInv PROVE BlocksInRing
  <2>0. /\ NUM_MALLOCS \in Nat \ {0} /\ Done \in Nat /\ config.malloc \in BOOLEAN
    BY <1>1, RingAssumption, ConfigFacts DEF IInv, Types, Done
  <2>1. DOMAIN mallocs = RingSlots /\ live = UNION {mallocs[k] : k \in RingSlots}
    BY <1>1 DEF IInv, Ring
  <2>2. Cardinality(live) = IF ~config.malloc THEN 0 ELSE IF Done < NUM_MALLOCS THEN Done ELSE NUM_MALLOCS
    <3>1. CASE ~config.malloc
      <4>1. live = {}   BY <1>1, <2>1, <3>1 DEF IInv, Ring
      <4>2. QED   BY <3>1, <4>1, FS_EmptySet
    <3>2. CASE config.malloc
      <4> DEFINE m == IF Done < NUM_MALLOCS THEN Done ELSE NUM_MALLOCS
                 f == [k \in 1..m |-> CHOOSE b \in Blocks : mallocs[k - 1] = {b}]
      <4>1. m \in Nat   BY <2>0
      <4>2. \A k \in RingSlots : k < Done <=> k + 1 \in 1..m   BY <2>0 DEF RingSlots
      <4>3. \A k \in 1..m : k - 1 \in RingSlots /\ k - 1 < Done   BY <2>0 DEF RingSlots
      <4> HIDE DEF m
      <4>4. \A k \in 1..m : mallocs[k - 1] = {f[k]} /\ f[k] \in Blocks
        <5> TAKE k \in 1..m
        <5>1. \E b \in Blocks : mallocs[k - 1] = {b}   BY <1>1, <3>2, <4>3 DEF IInv, Ring
        <5>2. QED   BY <5>1
      <4>5. f \in Bijection(1..m, live)
        <5>0. f = [k \in 1..m |-> f[k]]   OBVIOUS
        <5> HIDE DEF f
        <5>1. \A k \in 1..m : f[k] \in live   BY <2>1, <4>3, <4>4
        <5>2. ASSUME NEW k \in 1..m, NEW l \in 1..m, f[k] = f[l] PROVE k = l
          <6>1. SUFFICES ASSUME k - 1 # l - 1 PROVE FALSE   BY <4>1
          <6>2. mallocs[k - 1] \intersect mallocs[l - 1] = {}
            BY <1>1, <4>3, <6>1 DEF IInv, Ring
          <6>3. QED   BY <4>4, <5>2, <6>2
        <5>3. ASSUME NEW x \in live PROVE \E k \in 1..m : f[k] = x
          <6>1. PICK k \in RingSlots : x \in mallocs[k]   BY <2>1
          <6>2. k < Done   BY <1>1, <6>1 DEF IInv, Ring
          <6>3. k + 1 \in 1..m /\ (k + 1) - 1 = k   BY <4>2, <6>2 DEF RingSlots
          <6>4. f[k + 1] = x   BY <4>4, <6>1, <6>3
          <6>5. QED   BY <6>3, <6>4
        <5>4. QED
          BY <5>0, <5>1, <5>2, <5>3, Fun_IsBij
      <4>6. Cardinality(live) = m
        BY <4>1, <4>5, FS_CountingElements DEF ExistsBijection
      <4>7. QED   BY <3>2, <4>6 DEF m
    <3>3. QED   BY <2>0, <3>1, <3>2
  <2>3. QED   BY <2>1, <2>2 DEF BlocksInRing, Done
<1>2. QED   BY <1>1, Invariance, PTL

\* Every sample since the last reset is in exactly one bucket, among the overflows, or
\* before the array: the lines of hist_print() add up.
THEOREM SamplesAddUp == JitterSpec => []EverySampleOnce
<1>1. RInv => EverySampleOnce   BY DEF RInv, Placed
<1>2. QED   BY <1>1, ReportInvariance, PTL

\* Unless a send stalled, hist_print() says what happened: both extremes, and an average
\* that lies between them, the sum of no run being able to wrap.
THEOREM ReportIsHonest == JitterSpec => []HonestReport
<1>1. ASSUME RInv PROVE HonestReport
  <2> SUFFICES ASSUME average_sample # -1, hist_num_samples > 0, ~Stalled
               PROVE  /\ hist_max_sample = longest
                      /\ hist_min_sample = IF shortest < MinSentinel THEN shortest ELSE MinSentinel
                      /\ shortest <= average_sample
                      /\ average_sample <= longest
    BY DEF HonestReport
  <2>1. MinSentinel \in Nat /\ MaxSamples \in Nat   BY WidthsAssumption
  <2>2. shortest <= average_sample /\ average_sample <= longest   BY <1>1 DEF RInv, Averaged
  <2>3. CASE do_histogram
    <3>1. hist_max_sample = longest /\ hist_min_sample = Smallest
      BY <1>1, <2>3 DEF RInv, Sampled
    <3>2. shortest \in Nat   BY <1>1, <2>1, <2>3 DEF RInv, Observed
    <3>3. QED   BY <2>1, <2>2, <3>1, <3>2 DEF Smallest
  <2>4. CASE ~do_histogram
    <3>1. hist_num_samples = 0   BY <1>1, <2>4 DEF RInv, Observed
    <3>2. QED   BY <3>1
  <2>5. QED   BY <2>3, <2>4
<1>2. QED   BY <1>1, ReportInvariance, PTL

\* The two reports of um_perf_jitter are of the same iterations.
THEOREM JitterReportsAgree == JitterSpec => []ReportsAgree
<1>1. ASSUME IInv, RInv PROVE ReportsAgree
  <2> SUFFICES ASSUME InJitter, pc = "done", ~died, ~corrupted PROVE
        /\ ts_max_ns = longest
        /\ ts_min_ns = Smallest
        /\ do_histogram =>
             /\ hist_num_samples = config.loops
             /\ ~Stalled => hist_min_sample = ts_min_ns /\ hist_max_sample = ts_max_ns
    BY DEF ReportsAgree, Smallest
  <2>1. ts_max_ns = longest /\ ts_min_ns = Smallest   BY <1>1 DEF RInv, Tracked
  <2>2. do_histogram => hist_num_samples = config.loops
    BY <1>1 DEF IInv, Iterations, LostOnlyForCause
  <2>3. do_histogram /\ ~Stalled => hist_min_sample = Smallest /\ hist_max_sample = longest
    BY <1>1 DEF RInv, Sampled
  <2>4. QED   BY <2>1, <2>2, <2>3
<1>2. QED   BY <1>1, Invariance, ReportInvariance, PTL

----------------------------------------------------------------------------
(* The type invariant: what the invariants above do not speak of.          *)

RestOfTypes ==
  /\ hist_sample_sum \in 0..(U - 1)
  /\ {hist_min_sample, hist_max_sample, average_sample} \subseteq Ints
  /\ mallocs \in [RingSlots -> SUBSET Blocks] /\ live \subseteq Blocks
  /\ ts_min_ns \in Nat /\ ts_max_ns \in Nat

LEMMA IntsHold ==
  /\ -1 \in Ints /\ 0 \in Ints /\ MinSentinel \in Ints /\ MinSentinel \in Nat
  /\ U \in Nat \ {0}
  /\ \A n \in Nat : ToInt(n) \in Ints
<1>1. W \in Nat \ {0} /\ W > 1 /\ MinSentinel \in Nat /\ 2 * MinSentinel < W
  BY WidthsAssumption
<1>2. -1 \in Ints /\ 0 \in Ints /\ MinSentinel \in Ints   BY <1>1 DEF Ints
<1>3. U \in Nat \ {0}   BY <1>1 DEF U
<1>4. ASSUME NEW n \in Nat PROVE ToInt(n) \in Ints
  <2>1. n % W \in 0..(W - 1)   BY <1>1, ModBelow
  <2>2. CASE 2 * (n % W) >= W
    <3>1. ToInt(n) = (n % W) - W   BY <2>2 DEF ToInt
    <3>2. QED   BY <1>1, <2>1, <2>2, <3>1 DEF Ints
  <2>3. CASE ~(2 * (n % W) >= W)
    <3>1. ToInt(n) = n % W   BY <2>3 DEF ToInt
    <3>2. QED   BY <1>1, <2>1, <2>3, <3>1 DEF Ints
  <2>4. QED   BY <2>2, <2>3
<1>5. QED   BY <1>1, <1>2, <1>3, <1>4

LEMMA ModInt ==
  ASSUME NEW a \in Int, NEW d \in Nat \ {0}
  PROVE  a % d \in 0..(d - 1)
OBVIOUS

\* A sample leaves all that is an int an int, and the sum below its width.
LEMMA SampleTypes ==
  ASSUME RestOfTypes, NEW ns \in Durations, HistInput(ns)
  PROVE  /\ hist_sample_sum' \in 0..(U - 1)
         /\ {hist_min_sample', hist_max_sample', average_sample'} \subseteq Ints
<1>1. ns \in Nat   BY WidthsAssumption
<1>2. ToInt(ns) \in Ints /\ ToInt(ns) \in Int /\ U \in Nat \ {0}   BY <1>1, IntsHold, ToIntInt
<1>3. /\ hist_sample_sum' = (hist_sample_sum + ToInt(ns)) % U
      /\ hist_max_sample' \in {hist_max_sample, ToInt(ns)}
      /\ hist_min_sample' \in {hist_min_sample, ToInt(ns)}
      /\ average_sample' = average_sample
  BY DEF HistInput
<1>4. hist_sample_sum + ToInt(ns) \in Int   BY <1>2 DEF RestOfTypes
<1>5. hist_sample_sum' \in 0..(U - 1)   BY <1>2, <1>3, <1>4, ModInt
<1>6. QED   BY <1>2, <1>3, <1>5 DEF RestOfTypes

LEMMA PrintTypes ==
  ASSUME Types, RestOfTypes, HistPrint
  PROVE  average_sample' \in Ints
<1>1. CASE hist_num_samples > 0
  <2>1. hist_num_samples \in Nat \ {0} /\ hist_sample_sum \in Nat
    BY <1>1, IntsHold DEF Types, RestOfTypes
  <2>2. hist_sample_sum \div hist_num_samples \in Nat   BY <2>1, QuotientNat
  <2>3. average_sample' = ToInt(hist_sample_sum \div hist_num_samples)
    BY <1>1, <2>1 DEF HistPrint
  <2>4. QED   BY <2>2, <2>3, IntsHold
<1>2. CASE ~(hist_num_samples > 0)
  <2>1. average_sample' \in {0, average_sample}   BY <1>2 DEF HistPrint, Types
  <2>2. QED   BY <2>1, IntsHold DEF RestOfTypes
<1>3. QED   BY <1>1, <1>2

LEMMA TypesStep == ASSUME IInv, RestOfTypes, [JitterNext]_allVars PROVE RestOfTypes'
<1>0. Types   BY DEF IInv
<1>1. CASE InJitter /\ jitter_loop
  <2>1. CASE Allocate
    <3>1. NUM_MALLOCS \in Nat \ {0} /\ i \in Nat   BY RingAssumption DEF IInv, Types
    <3>2. i % NUM_MALLOCS \in RingSlots   BY <3>1, ModBelow DEF RingSlots
    <3>3. mallocs' \in [RingSlots -> SUBSET Blocks] /\ live' \subseteq Blocks
      <4>1. CASE config.malloc
        <5>1. PICK b \in Blocks :
                /\ mallocs' = [mallocs EXCEPT ![i % NUM_MALLOCS] = {b}]
                /\ live' = Kept(i % NUM_MALLOCS) \union {b}
          BY <2>1, <4>1 DEF Allocate
        <5>2. QED   BY <3>2, <5>1 DEF RestOfTypes, Kept
      <4>2. CASE ~config.malloc
        BY <2>1, <4>2 DEF Allocate, heap, RestOfTypes
      <4>3. QED   BY <4>1, <4>2
    <3>4. UNCHANGED <<stats, average_sample, extremes>>   BY <2>1 DEF Allocate, vars
    <3>5. QED   BY <3>3, <3>4 DEF RestOfTypes, stats, extremes
  <2>2. CASE \/ AllocateFails \/ \E ns \in Durations : MeasureDies(ns)
             \/ Crashes /\ UNCHANGED jitterVars
    <3>1. UNCHANGED <<stats, average_sample, jitterVars>>
      BY <2>2 DEF AllocateFails, MeasureDies, HistInputDies, Crashes
    <3>2. QED   BY <3>1 DEF RestOfTypes, stats, jitterVars, heap, extremes
  <2>3. CASE Report
    <3>1. UNCHANGED <<heap, extremes>>   BY <2>3 DEF Report
    <3>2. CASE do_histogram
      <4>1. HistPrint   BY <2>3, <3>2 DEF Report
      <4>2. average_sample' \in Ints   BY <1>0, <4>1, PrintTypes
      <4>3. UNCHANGED stats   BY <4>1 DEF HistPrint
      <4>4. QED   BY <3>1, <4>2, <4>3 DEF RestOfTypes, stats, heap, extremes
    <3>3. CASE ~do_histogram
      <4>1. UNCHANGED <<stats, average_sample>>   BY <2>3, <3>3 DEF Report, vars
      <4>2. QED   BY <3>1, <4>1 DEF RestOfTypes, stats, heap, extremes
    <3>4. QED   BY <3>2, <3>3
  <2>4. CASE \E ns \in Durations : Measure(ns)
    <3>1. PICK ns \in Durations : Measure(ns)   BY <2>4
    <3>2. ns \in Nat   BY WidthsAssumption
    <3>3. ts_min_ns' \in {ns, ts_min_ns} /\ ts_max_ns' \in {ns, ts_max_ns} /\ UNCHANGED heap
      BY <3>1 DEF Measure, Track
    <3>4. CASE do_histogram
      <4>1. HistInput(ns)   BY <3>1, <3>4 DEF Measure
      <4>2. QED   BY <3>2, <3>3, <4>1, SampleTypes DEF RestOfTypes, heap
    <3>5. CASE ~do_histogram
      <4>1. UNCHANGED <<stats, average_sample>>   BY <3>1, <3>5 DEF Measure
      <4>2. QED   BY <3>2, <3>3, <4>1 DEF RestOfTypes, stats, heap
    <3>6. QED   BY <3>4, <3>5
  <2>5. QED   BY <1>1, <2>1, <2>2, <2>3, <2>4 DEF jitter_loop
<1>2. CASE Ended \/ UNCHANGED allVars
  BY <1>2 DEF Ended, allVars, vars, jitterVars, stats, heap, extremes, RestOfTypes
<1>3. CASE Next /\ UNCHANGED jitterVars
  <2>0. UNCHANGED <<heap, extremes>>   BY <1>3 DEF jitterVars
  <2>1. CASE \E ns \in Durations : HistInput(ns)
    BY <2>0, <2>1, SampleTypes DEF RestOfTypes, heap, extremes
  <2>2. CASE HistInit
    <3>1. /\ hist_sample_sum' = 0 /\ hist_max_sample' = 0 /\ hist_min_sample' = MinSentinel
          /\ average_sample' = average_sample
      BY <2>2 DEF HistInit
    <3>2. 0 \in 0..(U - 1)   BY IntsHold
    <3>3. QED   BY <2>0, <3>1, <3>2, IntsHold DEF RestOfTypes, heap, extremes
  <2>3. CASE HistPrint
    <3>1. UNCHANGED stats /\ average_sample' \in Ints   BY <1>0, <2>3, PrintTypes DEF HistPrint
    <3>2. QED   BY <2>0, <3>1 DEF RestOfTypes, stats, heap, extremes
  <2>4. CASE Terminated \/ Crashes \/ \E ns \in Durations : HistInputDies(ns)
    BY <2>0, <2>4 DEF Terminated, Crashes, HistInputDies, vars, stats, RestOfTypes, heap, extremes
  <2>5. QED   BY <1>3, <2>1, <2>2, <2>3, <2>4 DEF Next
<1>4. QED   BY <1>1, <1>2, <1>3 DEF JitterNext

\* The variables of hist_input(), hist_print() and jitter_loop() stay in the range of their
\* C types, whatever the durations and whatever malloc() returns.
THEOREM TypeCorrect == JitterSpec => []TypeOK
<1>1. JitterInit => RestOfTypes
  <2> SUFFICES ASSUME JitterInit PROVE RestOfTypes   OBVIOUS
  <2>1. /\ hist_sample_sum = 0 /\ hist_max_sample = 0 /\ hist_min_sample = MinSentinel
        /\ average_sample = -1 /\ ts_max_ns = 0 /\ ts_min_ns = MinSentinel
        /\ mallocs = [k \in RingSlots |-> {}] /\ live = {}
    BY DEF JitterInit, Init, RingSlots
  <2>2. 0 \in 0..(U - 1)   BY IntsHold
  <2>3. QED   BY <2>1, <2>2, IntsHold DEF RestOfTypes
<1>2. IInv /\ RestOfTypes /\ [JitterNext]_allVars => RestOfTypes'   BY TypesStep
<1>3. IInv /\ RInv /\ RestOfTypes => TypeOK
  BY DEF IInv, Types, RInv, Observed, Placed, RestOfTypes, RingSlots, TypeOK
<1>4. QED   BY <1>1, <1>2, <1>3, Invariance, ReportInvariance, PTL DEF JitterSpec
=============================================================================
