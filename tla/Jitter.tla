------------------------------- MODULE Jitter --------------------------------
(***************************************************************************)
(* um_perf_jitter: its loop, which allocates (with -m), reads the clock    *)
(* twice and feeds the histogram (with -H), and its report.  The spinning  *)
(* between the two readings (-s) only adds to the duration.                *)
(*                                                                         *)
(* JitterSpec has a run of any of the four programs: the histogram under   *)
(* each of its callers.                                                    *)
(***************************************************************************)
EXTENDS Histogram

CONSTANTS
  NUM_MALLOCS,   \* 10000, the size of the ring
  Blocks         \* what malloc() returns

ASSUME RingAssumption == NUM_MALLOCS \in Nat \ {0}

VARIABLES
  pc,                    \* "top", "timed" or "done"
  i,
  mallocs,               \* the ring: a set of one block or of none (NULL) in each slot
  live,                  \* blocks allocated and not freed
  ts_min_ns, ts_max_ns

heap == <<mallocs, live>>
extremes == <<ts_min_ns, ts_max_ns>>
jitterVars == <<pc, i, heap, extremes>>
allVars == <<vars, jitterVars>>

JitterInit ==
  /\ Init
  /\ pc = "top"
  /\ i = 0
  /\ mallocs = [k \in 0..(NUM_MALLOCS - 1) |-> {}]
  /\ live = {}
  /\ ts_min_ns = MinSentinel
  /\ ts_max_ns = 0

InJitter == config.program = "um_perf_jitter"
do_histogram == config.num_buckets > 0
Goes(from, to) == pc = from /\ pc' = to

----------------------------------------------------------------------------
MutKept(k) == live   \* the block in the slot is not freed

\* free() of what the slot holds from NUM_MALLOCS iterations ago
Kept(k) == live \ mallocs[k]

\* The block in the slot is freed and replaced by another, or by the same again.
Allocate ==
  LET k == i % NUM_MALLOCS
  IN  /\ i < config.loops
      /\ Goes("top", "timed")
      /\ IF config.malloc
           THEN \E b \in Blocks \ Kept(k) :
                  mallocs' = [mallocs EXCEPT ![k] = {b}] /\ live' = Kept(k) \union {b}
           ELSE UNCHANGED heap
      /\ UNCHANGED <<vars, i, extremes>>

\* malloc() returns NULL, and the next statement stores a byte through it.
AllocateFails ==
  /\ i < config.loops
  /\ pc = "top" /\ config.malloc
  /\ died' = TRUE
  /\ denied' = TRUE
  /\ UNCHANGED <<config, stats, average_sample, wild, corrupted, shortest, longest, jitterVars>>

MutTrack(ns) ==   \* a new maximum is not looked at as a minimum
  /\ ts_max_ns' = IF ns > ts_max_ns THEN ns ELSE ts_max_ns
  /\ ts_min_ns' = IF ns <= ts_max_ns /\ ns < ts_min_ns THEN ns ELSE ts_min_ns

Track(ns) ==
  /\ ts_min_ns' = IF ns < ts_min_ns THEN ns ELSE ts_min_ns
  /\ ts_max_ns' = IF ns > ts_max_ns THEN ns ELSE ts_max_ns

Measure(ns) ==
  /\ Goes("timed", "top")
  /\ i' = i + 1
  /\ IF do_histogram
       THEN HistInput(ns)
       ELSE /\ Observe(ns)
            /\ UNCHANGED <<config, stats, average_sample, wild, corrupted, denied, died>>
  /\ Track(ns)
  /\ UNCHANGED heap

MeasureDies(ns) == pc = "timed" /\ do_histogram /\ HistInputDies(ns) /\ UNCHANGED jitterVars

MutLoopEnds == i + 1 >= config.loops   \* one iteration short
LoopEnds == i >= config.loops

Report ==
  /\ LoopEnds
  /\ Goes("top", "done")
  /\ IF do_histogram THEN HistPrint ELSE UNCHANGED vars
  /\ UNCHANGED <<i, heap, extremes>>

jitter_loop ==
  \/ Allocate \/ AllocateFails \/ Report
  \/ Crashes /\ UNCHANGED jitterVars
  \/ \E ns \in Durations : Measure(ns) \/ MeasureDies(ns)

Ended == (died \/ pc = "done") /\ UNCHANGED allVars

JitterNext ==
  \/ InJitter /\ ~died /\ jitter_loop
  \/ InJitter /\ Ended
  \/ ~InJitter /\ Next /\ UNCHANGED jitterVars

JitterSpec == JitterInit /\ [][JitterNext]_allVars

----------------------------------------------------------------------------
(* Properties.                                                             *)

Ints == {n \in Int : 0 - W <= 2 * n /\ 2 * n < W}   \* the values of an int

\* Types of the histogram and of the loop: what is an int in the code stays in its range.
TypeOK ==
  /\ config \in Configs
  /\ hist_buckets \in [Buckets -> Nat] /\ hist_overflows \in Nat /\ wild \in Nat
  /\ hist_num_samples \in 0..MaxSamples /\ hist_sample_sum \in 0..(U - 1)
  /\ {hist_min_sample, hist_max_sample, average_sample} \subseteq Ints
  /\ {died, denied, corrupted} \subseteq BOOLEAN
  /\ shortest \in Nat \union {-1} /\ longest \in Nat
  /\ pc \in {"top", "timed", "done"} /\ i \in Nat
  /\ mallocs \in [0..(NUM_MALLOCS - 1) -> SUBSET Blocks] /\ live \subseteq Blocks
  /\ ts_min_ns \in Nat /\ ts_max_ns \in Nat

\* Every allocated block is in exactly one slot of the ring, so that none is freed twice
\* and none is lost, and from the NUM_MALLOCS-th iteration on there are always as many.
BlocksInRing ==
  LET done == IF pc = "timed" THEN i + 1 ELSE i
  IN  /\ live = UNION {mallocs[k] : k \in DOMAIN mallocs}
      /\ Cardinality(live) =
           IF ~config.malloc THEN 0 ELSE IF done < NUM_MALLOCS THEN done ELSE NUM_MALLOCS

\* The two reports are of the same iterations, all that were asked for: the extremes
\* are the longest and the shortest of them (or the sentinel, for a second and more),
\* and the histogram has the same extremes unless an iteration took longer than an int
\* can say.  (With the memory corrupted no report says anything.)
ReportsAgree ==
  InJitter /\ pc = "done" /\ ~died /\ ~corrupted =>
    /\ ts_max_ns = longest
    /\ ts_min_ns = IF shortest \in 0..MinSentinel THEN shortest ELSE MinSentinel
    /\ do_histogram =>
         /\ hist_num_samples = config.loops
         /\ ~Stalled => hist_min_sample = ts_min_ns /\ hist_max_sample = ts_max_ns

\* Without the histogram the measurement is lost only when memory or the CPU is denied.
\* With it there are three causes more, and no other: an iteration so long that its
\* int is negative, whose sample goes before the array; a bucket width of zero or less; and
\* no iteration at all.  Of a width of zero or of no iteration there is never a report.
LostOnlyForCause ==
  InJitter =>
    /\ died => \/ denied
               \/ do_histogram /\ (Stalled \/ config.ns_per_bucket <= 0 \/ config.loops <= 0)
    /\ pc = "done" /\ ~died /\ do_histogram => config.loops > 0 /\ config.ns_per_bucket # 0
=============================================================================
