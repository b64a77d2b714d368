----------------------------- MODULE Histogram ------------------------------
(***************************************************************************)
(* The histogram of send times: hist_create(), hist_init(), hist_input()   *)
(* and hist_print(), of which every program has a copy.  Only that of      *)
(* um_perf_pub asserts that a sample is positive, and only that of         *)
(* sock_perf_pub2 looks before it divides by the number of samples.  Next  *)
(* is the use the publishers make of it; Jitter is the other caller.       *)
(*                                                                         *)
(* The callers measure a duration in an unsigned 64-bit number of          *)
(* nanoseconds and hand it over as an int.  The sum is unsigned, its       *)
(* average is printed as an int.                                           *)
(***************************************************************************)
EXTENDS Integers, FiniteSets

CONSTANTS
  Configs,     \* the histograms considered, each with the program that has it
  W,           \* 2^32, the width of an int
  MinSentinel, \* 999999999, what hist_min_sample starts with
  Durations,   \* durations of a send, in nanoseconds
  MaxSamples   \* bound: samples between two resets

\* get_my_opts(): "if (hist_num_buckets > 0) { ASSRT(hist_ns_per_bucket > 0); }", which
\* um_perf_jitter lacks.  loops and malloc are its options -j and -m; a number of buckets
\* of zero stands for one below it, too, for which no program makes a histogram.
ASSUME ConfigsAssumption ==
  /\ Configs \subseteq [program : {"um_perf_pub", "sock_perf_pub", "sock_perf_pub2", "um_perf_jitter"},
                         num_buckets : Nat, ns_per_bucket : Int, loops : Int, malloc : BOOLEAN]
  /\ \A c \in Configs :
       c.program # "um_perf_jitter" => c.num_buckets > 0 /\ c.ns_per_bucket > 0

\* hist_num_samples is an int, and so is the number of sends or of iterations it counts.
ASSUME WidthsAssumption ==
  /\ W \in Nat /\ W > 1
  /\ MinSentinel \in Nat /\ 2 * MinSentinel < W
  /\ Durations \subseteq Nat
  /\ MaxSamples \in Nat /\ 2 * MaxSamples < W

VARIABLES
  config,
  hist_buckets, hist_min_sample, hist_max_sample, hist_overflows,
  hist_num_samples, hist_sample_sum,
  average_sample,      \* what hist_print() has printed, -1 before
  wild,                \* samples counted before the array since the last reset
  corrupted,           \* history: a sample was ever written there
  denied,              \* history: memory, or the CPU of -a, was not to be had
  died,                \* the process has ended early
  shortest, longest    \* history: durations since the last reset; shortest is -1 before the first

stats == <<hist_buckets, hist_min_sample, hist_max_sample, hist_overflows,
           hist_num_samples, hist_sample_sum>>
vars == <<config, stats, average_sample, wild, corrupted, denied, died, shortest, longest>>

Buckets == 0..(config.num_buckets - 1)
U == W * W

\* C: the conversion to int keeps the low bits, the division rounds towards zero.
ToInt(n) == LET r == n % W IN IF 2 * r >= W THEN r - W ELSE r
Magnitude(n) == IF n < 0 THEN 0 - n ELSE n
Quotient(n, d) ==
  LET q == Magnitude(n) \div Magnitude(d) IN IF (n < 0) = (d < 0) THEN q ELSE 0 - q

\* Neither a division by zero nor that of the smallest int by -1 has a result.
Traps(n, d) == d = 0 \/ (d = -1 /\ 2 * n = 0 - W)

\* hist_create() writes through whatever malloc() has returned, and cprt_set_affinity()
\* exits when it fails.
Init ==
  /\ config \in Configs
  /\ hist_buckets = [b \in Buckets |-> 0]
  /\ hist_min_sample = MinSentinel
  /\ hist_max_sample = 0
  /\ hist_overflows = 0
  /\ hist_num_samples = 0
  /\ hist_sample_sum = 0
  /\ average_sample = -1
  /\ wild = 0
  /\ corrupted = FALSE
  /\ denied \in BOOLEAN
  /\ died = denied
  /\ shortest = -1
  /\ longest = 0

----------------------------------------------------------------------------
MutHistInit ==   \* the extremes of the warmup stay
  /\ hist_num_samples > 0
  /\ hist_buckets' = [b \in Buckets |-> 0]
  /\ hist_overflows' = 0
  /\ hist_num_samples' = 0
  /\ hist_sample_sum' = 0
  /\ shortest' = -1
  /\ longest' = 0
  /\ wild' = 0
  /\ UNCHANGED <<config, hist_min_sample, hist_max_sample, average_sample, corrupted, denied, died>>

\* hist_init(), after the warmup.
HistInit ==
  /\ hist_num_samples > 0
  /\ hist_buckets' = [b \in Buckets |-> 0]
  /\ hist_min_sample' = MinSentinel
  /\ hist_max_sample' = 0
  /\ hist_overflows' = 0
  /\ hist_num_samples' = 0
  /\ hist_sample_sum' = 0
  /\ shortest' = -1
  /\ longest' = 0
  /\ wild' = 0
  /\ UNCHANGED <<config, average_sample, corrupted, denied, died>>

Asserts == config.program = "um_perf_pub"
Guards == config.program = "sock_perf_pub2"

MutRefused(in_sample) == Asserts /\ in_sample = 0   \* only zero is refused
Refused(in_sample) == Asserts /\ in_sample <= 0

MutCount(bucket) ==   \* the first value above the last bucket goes into the array
  /\ hist_overflows' = IF bucket > config.num_buckets THEN hist_overflows + 1 ELSE hist_overflows
  /\ hist_buckets' = [b \in Buckets |-> IF b = bucket THEN hist_buckets[b] + 1 ELSE hist_buckets[b]]
  /\ wild' = IF bucket < 0 THEN wild + 1 ELSE wild
  /\ corrupted' = (corrupted \/ bucket < 0)

\* The sample goes into its bucket or is counted as an overflow; an index below zero is
\* a write before the array, after which the process may end at any time (Crashes).
Count(bucket) ==
  /\ hist_overflows' = IF bucket >= config.num_buckets THEN hist_overflows + 1 ELSE hist_overflows
  /\ hist_buckets' = [b \in Buckets |-> IF b = bucket THEN hist_buckets[b] + 1 ELSE hist_buckets[b]]
  /\ wild' = IF bucket < 0 THEN wild + 1 ELSE wild
  /\ corrupted' = (corrupted \/ bucket < 0)

Observe(ns) ==
  /\ longest' = IF ns > longest THEN ns ELSE longest
  /\ shortest' = IF shortest = -1 \/ ns < shortest THEN ns ELSE shortest

\* hist_input((int)ns_send)
HistInput(ns) ==
  LET in_sample == ToInt(ns)
  IN  /\ ~Refused(in_sample)
      /\ ~Traps(in_sample, config.ns_per_bucket)
      /\ hist_num_samples < MaxSamples
      /\ hist_num_samples' = hist_num_samples + 1
      /\ hist_sample_sum' = (hist_sample_sum + in_sample) % U
      /\ hist_max_sample' = IF in_sample > hist_max_sample THEN in_sample ELSE hist_max_sample
      /\ hist_min_sample' = IF in_sample < hist_min_sample THEN in_sample ELSE hist_min_sample
      /\ Count(Quotient(in_sample, config.ns_per_bucket))
      /\ Observe(ns)
      /\ UNCHANGED <<config, average_sample, denied, died>>

\* The assertion, or the division by the bucket width.
HistInputDies(ns) ==
  /\ Refused(ToInt(ns)) \/ Traps(ToInt(ns), config.ns_per_bucket)
  /\ died' = TRUE
  /\ UNCHANGED <<config, stats, average_sample, wild, corrupted, denied, shortest, longest>>

\* What was before the array was not the program's, or something that the allocator or the
\* C library trips over later.  That it may have been another variable is left out.
Crashes ==
  /\ corrupted
  /\ died' = TRUE
  /\ UNCHANGED <<config, stats, average_sample, wild, corrupted, denied, shortest, longest>>

\* hist_print(), the last call: without a sample it divides by zero, unless it looks.
HistPrint ==
  /\ died' = (hist_num_samples = 0 /\ ~Guards)
  /\ average_sample' = CASE hist_num_samples > 0 -> ToInt(hist_sample_sum \div hist_num_samples)
                         [] hist_num_samples = 0 /\ Guards -> 0
                         [] OTHER -> average_sample
  /\ UNCHANGED <<config, stats, wild, corrupted, denied, shortest, longest>>

Working == ~died /\ average_sample = -1
Terminated == ~Working /\ UNCHANGED vars

Next ==
  \/ Working /\ (\E ns \in Durations : HistInput(ns) \/ HistInputDies(ns))
  \/ Working /\ (HistInit \/ HistPrint)
  \/ ~died /\ Crashes
  \/ Terminated

----------------------------------------------------------------------------
(* Properties.                                                             *)

\* A send long enough for its duration to be no int any more.
Stalled == 2 * longest >= W

\* The samples in the buckets, as the pairs of a bucket and a number in it.
Bucketed == UNION {{b} \X (1..hist_buckets[b]) : b \in Buckets}

\* Every sample since the last reset is in one bucket, among the overflows, or has
\* corrupted the memory before the array: the lines hist_print() prints add up to
\* hist_num_samples unless the last has happened.
EverySampleOnce == Cardinality(Bucketed) + hist_overflows + wild = hist_num_samples

\* Memory is safe as long as no send stalls and the bucket width, which um_perf_jitter
\* does not check, is positive; in um_perf_pub it is always, because a duration whose
\* int is negative ends the program first.
WildOnlyAfterStall == wild > 0 => ~Asserts /\ (Stalled \/ config.ns_per_bucket < 0)

\* Unless a send stalled or the memory is corrupted the report is honest: the largest
\* sample is the longest send, the smallest the shortest (or the sentinel, for sends of a
\* second and more), and the average lies between them.
HonestReport ==
  average_sample # -1 /\ hist_num_samples > 0 /\ ~Stalled /\ ~corrupted =>
    /\ hist_max_sample = longest
    /\ hist_min_sample = IF shortest < MinSentinel THEN shortest ELSE MinSentinel
    /\ shortest <= average_sample
    /\ average_sample <= longest
=============================================================================
