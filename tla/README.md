# TLA+ for um_perf

Specifications, model-checking configurations and proofs for the programs of this
repository: the Ultra Messaging test tools `um_perf_pub`, `um_perf_sub` and
`um_perf_jitter`, the socket tools `sock_perf_pub`, `sock_perf_pub2` and `sock_perf_sub`, and
the portability layer `cprt.c`/`cprt.h` they share. Every definition is translated from the
C source; the UM library, its Stores, the network and the kernel are external and appear only
as what the code sees of them. `PROJECT.json` maps each definition to the lines it stands for.

## 1. Inventory

### Components, their state and their operations

| Part | State | Operations |
|---|---|---|
| `um_perf_pub` main() | options; `registration_complete`, `cur_flight_size`, `max_flight_size`, `global_cur_src`, `warmup_loops`, the histogram | create sources; wait for Stores or prime; warm up; measure; report; drain; linger; delete |
| `um_perf_pub` context thread | shares the two counters | `handle_src_event()` (registration complete, message stable), `force_reclaim_cb()` |
| pacing (in all publishers) | `num_sent`, `should_have_sent`, `max_tight_sends`, two clock readings | work out what is due, catch up, read the clock |
| histogram (in every program) | buckets, overflows, minimum, maximum, sum, count | init, input, print |
| `um_perf_sub` | function statics `num_rcv_msgs`, `num_rx_msgs`, `num_unrec_loss` | `rcv_callback()` on BOS, EOS, loss, data; main() creates the receivers and sleeps |
| `sock_perf_pub2` | histogram, `start_ts`, `end_ts`, `actual_sends`, `exit_context`, sockets | main(), `separate_send_thread()` (-S), `context_thread()` (-G) |
| `sock_perf_sub` | one socket, the event in hand | epoll, receive, close |
| `sock_perf_pub` | histogram, `start_ts`, `end_ts`, `actual_sends`, `global_max_tight_sends` | main(), `send_loop()` with a rate (-r) or with sleeps (-s) |
| `um_perf_jitter` | a ring of allocations, the histogram, the shortest and the longest iteration | `jitter_loop()` |
| `cprt` | `cprt_optind`, `cprt_optarg`; the event ring and its counter | `cprt_getopt()`; `cprt_event()`, `cprt_dump_events()` from `CPRT_ASSERT`; wrappers |
| `get_my_opts()` of each program | one variable per option | the switch over the options, the checks after it |

### How they interact

Within `um_perf_pub` the thread of main() and the thread of the UM context share two plain
ints: main() adds to `cur_flight_size` atomically after each send, the context thread
subtracts atomically on stability and not atomically on a forced reclaim; main() reads both
counters in its two waits. Publisher and subscriber interact only through the transport,
which makes streams of events (BOS, data, loss, EOS) out of messages; a tester starts
publishers one after the other while one subscriber runs on, and judges each run by the line
the subscriber prints at EOS. In `sock_perf_pub2` main() hands its work to a thread and takes
the result from globals after the join; it stops the context thread with a flag. The event
ring is for any thread of a program; whoever fails a `CPRT_ASSERT` dumps it while the others
log on.

### What is hard, and what makes each part correct

- **Two threads, no locks** (publisher): the flight counter must be exact in spite of
  concurrent updates, because the drain relies on it. The order "send, then count" lets the
  event come before the addition.
- **Waits that depend on others** (registrations, drain, joins): they must not end early and
  must end.
- **One state for several calls**: the rotation over sources, the warmup that the priming
  takes its share of, and the histogram that is cleared between loops.
- **Time**: sends block and threads stall; the pacing must catch up without overtaking, with
  products that wrap at 2^64 and a maximum kept in an int.
- **One state for several streams** (subscriber): counters shared by topics and restarted at
  each BOS, ends of stream that come late, loss with and without a report. The printed line
  must not accept a bad run.
- **Conversions**: durations cut to an int that index an array; a counter of events that
  becomes negative and indexes one.
- **Rings that come round** (allocations, events): the slot in use again must be given up
  exactly once, and a store that comes late must not pass unnoticed for a new event.
- **Command lines**: a value may look like an option, commas next to each other count as
  one, and the number of words an option takes depends on the words before it.

The list with lines is under `hazards` in `PROJECT.json`.

## 2. Modules

| Module | What it models | Checked by | Proved in |
|---|---|---|---|
| `PubRun` | abstract: what a run of any publisher promises | `UmPerf.cfg` (as part of `UmPerf`) | |
| `UmPub` | `um_perf_pub`: main() and context thread | `MCUmPub`, `UmPub.cfg`, `UmPubNegative.cfg` | `UmPubProofs` |
| `Paced` | abstract: what one call of `send_loop()` promises | `SendLoop.cfg` (as `RefinesPaced`) | `SendLoopProofs` (as `RefinesPaced`) |
| `SendLoop` | the pacing of `send_loop()` | `MCSendLoop`, `SendLoop.cfg` | `SendLoopProofs` |
| `UmSub` | `um_perf_sub`: the callback | part of `UmPerf` | `UmPerfProofs` |
| `UmPerf` | `PubRun` + transport + `UmSub`, several runs | `MCUmPerf`, `UmPerf.cfg`, `UmPerfTotals.cfg` | `UmPerfProofs` |
| `SockPub` | `sock_perf_pub`, and the steps `sock_perf_pub2` has in common with it | part of `SockPub2` | `SockPub2Proofs` |
| `SockPub2` | `sock_perf_pub2`: `SockPub` with two more threads | `MCSockPub2`, `SockPub2.cfg`, `SockPub2Warmup.cfg`, `SockPub2Sends.cfg` | `SockPub2Proofs` |
| `Histogram` | the histogram of send times and its use by the publishers | part of `Jitter` | `JitterProofs` |
| `Jitter` | `um_perf_jitter`; its specification covers `Histogram`'s too | `MCHistogram`, `Histogram.cfg` | `JitterProofs` |
| `SockSub` | the receive loop of `sock_perf_sub` | `MCSockSub`, `SockSub.cfg` | `SockSubProofs` |
| `GetOpt` | `cprt_getopt()` and `get_my_opts()` of the six programs | `MCGetOpt`, `GetOpt.cfg` | `GetOptProofs` |
| `EventRing` | the event ring of `cprt.c` | `MCEventRing`, `EventRing.cfg` | `EventRingProofs` |

`UmPub` and `SockPub2` are both shown to implement `PubRun` (`RefinesPubRun`); `UmPerf`
composes `PubRun`, not `UmPub`, with the subscriber, so that what it says holds for any program
that implements it. `SendLoop` is shown to implement `Paced` (`RefinesPaced`). Definitions whose name begins with `Mut` are plausible slips of the code
kept beside the definition they vary; replacing the one by the other must break a property,
which shows that the property depends on the code.

### UmPub

`pc` is the position of main(): `create`, `reg_wait`, `warm`, `send`/`count` (one message of
`send_loop()`, `call` says which of the three calls), `measure`, `report`, `drain`, `linger`,
`deleted`, `done`. `cb` is the position of the context thread in a callback. Steps read or
write a shared counter at most once: a send (`Send`) and its count (`CountSend`) are two steps,
`MESSAGE_STABLE_EX` is the subtraction and the assertion (`StableSub`, `StableAssert`),
`cur_flight_size --` is a load and a store. `died` is exit(1) from an `ASSRT` or `E()`: in the set-up
and between two sources (`CreateFails`), at a topic more than `MAX_SRCS` (`TooManySources`), at a send
(`SendFails`, `HistAsserts`), at the deletes (`DeleteFails`), in a callback (`StableAssert`). It is also
the write through NULL of a line without a topic, `-t ","` (`SendNowhere`): `get_my_opts()` accepts that
line, as it does a seventeenth topic and a negative warmup, so the options of the model have them too.
The context thread counts registration events, not sources, and the Stores may send one again for a
source they have registered before (`repeated`).
External variables: `registered`, `unstable` (messages the library still holds), `reclaimed`.
The acceptance of a send depends on the flight size: with persistence the library may refuse
above `FlightLimit` messages and must above `FlightLimit` times the number of sources; the
distribution over sources is abstracted. When a message is due is left open here and is
`SendLoop`'s subject. Left out: `lbm_set_lbtrm_src_loss_rate()` (external), the sleeps (any
other thread may run anywhere), `usleep` of the linger.

### SendLoop

One call of `send_loop()`. `Due` is `should_have_sent` with the product modulo `U` (2^64) and
the clamp; `ToInt` the store into an int (`I` = 2^32). `Tick` lets time pass before any step by
any amount. `gap` and `wrapped` are history. `Paced` has only the clock, the messages sent and whether
the call has returned: a message goes out at its time or later, and the call returns with exactly
`num_sends` sent. Unlike `CaughtUp` and `TightMeansStall` that needs no exception for products that wrap.
`NeverAhead` and `DueGrows` are stated and proved but in no run: the first is part of what `Paced`
promises, the second is a plain consequence of the arithmetic.

### UmSub and UmPerf

`UmSub` has one action per event type; `UmPerf` says when events come: `StreamBegins` (with
messages missed before discovery), `Delivers` (also as a retransmission), `Loses`, `LosesInBurst` (the
`LBM_MSG_UNRECOVERABLE_LOSS_BURST` that `rcv_callback()` prints and does not count), `StreamEnds`,
and `OldStreamEnds`, the delayed end of a source of an earlier run. Within a source the
transport keeps the order, as LBT-RM does. When the next publisher starts, what was on its
way from the last one is delivered or dropped; that its data could still arrive after the BOS
of the next run is not modelled. As in every test of README.md and QuickStart.md the
subscriber has all topics of the publishers (`RunsAssumption`), of which it takes up to `MAX_RCVS`; `SubFails` is the exit of its main() or of the
pinning at a BOS. The latency statistics of `rcv_callback()` are left out: they need
`FLAGS_TIMESTAMP`, which no program of the repository sets.

### SockPub and SockPub2

`SockPub` has one action per step of main() and of `send_loop()`; `sender` is the thread that runs
`send_loop()` and `call` what for. `SockPub2` extends it with the positions of the other two
threads, `thr` and `ctx`, and with what only it does (`StartContext`, `StartThread`, the joins, `ThreadFails`); without
-G and -S its steps are those of `sock_perf_pub`, so one specification covers both programs.
Times are the number of datagrams sent by then, so "the interval contains exactly the timed
messages" is a subtraction. An uninitialised `actual_sends` is any value of `Garbage`. The maximum
burst is represented by the call whose maximum it is, because that is what can go wrong with it.
`SetupFails` is any exit of main() before the first loop. A warmup may be of any number, as `get_my_opts()`
leaves it; of one message it is not done, which `WarmupAsAsked` reports and the refinement excepts (`Skipped`).

### Histogram and Jitter

`Histogram` has the int width `W` and the truncating division as operators; an index below
zero increments `wild`, and a division that has no result ends the program (`died`). In a socket program and
in `um_perf_jitter` a sample counted in `wild` is a write in front of the array (`corrupted`), which
the process may not survive: from then on `Crashes` may end it at any step. What else such a write changes is
not modelled, so the properties of the reports say nothing of a run that had one.
`denied` is the refusal of the array, of the pinning or of a block. The configuration says which program's copy it is: only `um_perf_pub` asserts a
positive sample, only `sock_perf_pub2` looks for zero samples before it divides, only
`um_perf_jitter` accepts any bucket width and any number of iterations. A number of buckets below one is no
histogram in every program. The samples in the buckets are counted as the set `Bucketed`
of pairs (bucket, number in it), so that "each sample once" is about one cardinality. `MaxSamples` is
below half the range of an int (`WidthsAssumption`), which is what keeps `hist_num_samples` a number; the
code has no such check. `Jitter` adds `jitter_loop()`: the ring of blocks with what
`malloc()` returns (any block not in use, or NULL), the duration of an iteration, the extremes in 64
bits beside those of the histogram. `JitterSpec` is a run of any of the four programs.

### SockSub

One event and one datagram at a time, as the code does; epoll is level triggered because
`EPOLLET` is not set. A pending socket error is reported by epoll, or returned and cleared by a
`recvfrom()` that comes first. The socket does not block: a datagram that turns out damaged is discarded and
`recvfrom()` returns EAGAIN. The abort() on a failing write() is in code that only the macro PRTOUT compiles.

### GetOpt

A word is an opaque value, its leading characters are given by functions (`Letter`, `Attached`), the
numbers and commas in it by others (`IntOf`, `Chunks`). `cprt_getopt()` is one action per way to return,
the switch one per kind of option, with a table per program of which option is of which kind;
the checks of each program are a predicate over its settings (`UmPub`, `SockPub`, ..., `Accepts`).
`CPRT_STRTOK` is `Tokens`, the positions of the values between commas, and `Token`, the k-th of them. The
reference reading (`Verdict`, `LastValue`) uses no moving index: which words are values is the recursive
function `IsValue` of the line alone. `DecidesExactly` says that a line decided is decided as that reading
does, `EveryLineDecided` that every line is. What is accepted need not be what the rest
of the program can run: lists of topics without a topic or with more than 16, a negative warmup, a
negative number of iterations and the unchecked bucket width of `um_perf_jitter` are; the options of
the other modules include them.

### EventRing

No program of the repository calls `cprt_event()` yet; the module is about what the first caller may rely on.
An event is its place in the order of the atomic increments, so that "the right event" can be
said. The increment (`Claim`) and the store are two steps, the dump one step per line, all by any
number of threads. `CPRT_MAX_EVENTS` divides 2^32 and so does `MAX_EVENTS` `W`. `__sync_add_and_fetch`
followed by `- 1` is the value before the increment, as compiled: at the wrap of the int the
index is the largest int. Lines of a dump record whether the event was still in flight, which only
the properties use.

The detailed modules have a type invariant each (`Histogram` and `Jitter` one together, `UmSub`'s is
`SubTypeOK`); that of `UmPub` is also checked, and all are proved. In `Jitter` it says that what the code
keeps in an int stays in the range of one.

## 3. Runs

| Run | Question | Bounds |
|---|---|---|
| `publisher` | do the counters, the order of the run and its end survive the callbacks? | `MAX_SRCS` 3; 0, 1, 3 and 4 sources (none, one too many); warmup -1, 0, 1, 4 (none, below and above the number of sources; -1 with 0 and 1 sources); 1 and 2 messages; `FlightLimit` 2, so that sends are refused; one forced reclaim (`MaxReclaims`), one repeated registration (`MaxRepeats`); the API is varied only without persistence, where alone it matters |
| `negative_flight` | "Die if negative": can it be? Violated | the same, no reclaim, no repeated registration |
| `pacing` | is the schedule kept through stalls and wraps, and does a call keep what `Paced` promises? | 1, 3, 4 messages; rates from one message per 5 ticks to 1.5 per tick; `U` = 128 and 20 ticks so that products wrap; `I` = 16 |
| `tester` | what does the EOS line prove? | 2 topics, 1 or 2 sources, warmup 0 or 2, one timed message, 2 publishers |
| `tester_totals` | README's Test 6 sum. Violated | the same, one publisher |
| `sock_pub2` | hand-over between calls and threads, and their stop; is the whole a run of `PubRun`? | all of -G, -S, -H, -s; warmup -1, 0, 1, 2 (1 is the boundary of `> 1`); 1 to 3 messages |
| `sock_pub2_warmup` | the help: -w is "messages to send before measurement". Violated | as `sock_pub2` |
| `sock_pub2_sends` | the printed `actual_sends`. Violated | as `sock_pub2` |
| `histogram` | is each sample once somewhere, are the reports honest, is memory safe, when is a measurement lost? | a 4-bit int, durations below, at and above its sign bit and its width; 1 and 2 buckets of 1 and 3; 4 samples; for um_perf_jitter also no histogram, widths 0 and -1, -1, 0, 1 and 4 iterations, a ring of 2 and 3 blocks |
| `sock_sub` | is everything read, and when does the loop go deaf? | buffer of 3, 5 arrivals (bursts, drops, empty and damaged ones), 2 errors |
| `command_line` | is every line decided as the whole line reads? | um_perf_sub: all lines of up to 3 of 14 words and of 4 of 9; the others: their required words, or all but one of these, with up to 2 of 38 words more |
| `event_ring` | which event is in which slot, what can a dump say, when is an index outside? | 3 threads, 2 slots, an int that is negative from 6 on, 8 events; the threads are symmetric |

Why the bounds suffice: the interleavings of `UmPub` involve at most one message between send
and count and one callback, so two messages and two sources in rotation already show every
overlap; three sources distinguish "next" from "other". For its safety properties the proofs
remove the bounds. `SendLoop` has both sides of every comparison and of both widths inside
its bounds, and is proved for all values. In `UmPerf` two sources give every order of BOS and
data, two runs every stale end. Three threads and two slots give a store that is late by a whole
turn of the ring while another thread dumps; four iterations use each slot of the ring of blocks
twice. Four words are enough for an option that eats an option that
would have eaten a value, and for "--" with and without an argument after it.

Deadlock is checked in every run; where a program has ended, an explicit stuttering action
(`Terminated`, `Finished`, `Returned`) says so. `Idle` of `SockSub` is the thread blocked in
`epoll_wait()`; `RegistrationWait` of `UmPub` the sleep between two looks.

### Findings

- `negative_flight`: the event of a message can precede its count; um_perf_pub.c:294 then exits.
- `tester_totals`: um_perf_sub.c:155 forgets warmup messages at the BOS of later sources;
  README.md:698 expects the full sum.
- `sock_pub2_warmup`: sock_perf_pub2.c:545 (and sock_perf_pub.c:414) runs the warmup if `warmup_loops > 1`; with
  `-w 1,rate` no message is sent before the measurement.
- `sock_pub2_sends`: with -S `actual_sends` is printed without ever being assigned.

In no run of its own: um_perf_pub.c:515 keeps the maximum of the value before the addition, so a streaming run
reports one less than it has sent, where QuickStart.md:179 shows as many (`PeakReported` says that it is never
further off).

### Fairness

`UmPub!FairSpec`: weak fairness of main() and of the callback in progress. They are two
threads of one process on a preemptive scheduler and neither holds a lock; failures, events and
reclaims are not fair. `Terminates` adds, as its hypothesis `StoresWork`, that Stores register
sources and acknowledge messages: without it the registration wait has no end, as the code has
none. `DrainEnds` needs no such hypothesis. `SockPub2`: weak fairness of each of its threads;
`epoll_wait()` has a timeout of half a second, so that its return is the thread's own step.
`SendLoop`: the thread runs and the clock advances. `SockSub`: only the loop; nothing is owed by
the network. `GetOpt` is sequential: weak fairness of its one thread.
`EventRing` and `JitterSpec` have only safety properties.

## 4. Proofs

All proofs are for every value of the constants under the named assumptions of the modules
(`OptionsAssumption`, `LimitsAssumption`, `CallsAssumption`, `WidthAssumption`, `ThreadsAssumption`,
`GarbageAssumption`, `PlansAssumption`, `RunsAssumption`, `TopicsAssumption`, `ConfigsAssumption`,
`WidthsAssumption`, `RingAssumption`, `WordsAssumption`). Every invariant and every action property that a
passing run checks is a theorem, and so is each of the three refinements.

`UmPubProofs`. The base is `TypeOK /\ Control` (`TypeCorrect`), where `Control` says what main()
has established at each position: all sources created, which call of `send_loop()` it is in and
how far. `Control` is needed because no counter is bounded by its type alone: that the rotation
index is below `num_srcs`, for instance, depends on `num_srcs` being final. On it rest

- `FlightExact` (`FlightBalance`, inductive on its own) and `FlightNotTooHigh` (`FlightNeverOverstated`),
  which needs `Reclaiming` (the value loaded by a reclaim is never above the counter, because in between
  only main() writes, and it only adds);
- `DrainSound`: from the exact counter, by inspecting the way out of the drain;
- `RegisteredFirst`: from `Registered`, the counter is the cardinality of the registered set and the repeated
  events, so at `num_srcs` no more of `Srcs` are missing than events were repeated, by the finite-set theorems;
- `Rotation`: `LoadBalanced` with `Turn` as the hand-over between calls;
- `PeakOfFlight`: `PeakReported`, because the value before an addition is at most one below the flight;
- `HistogramMeasuresTimedLoop`: from `Sampled`;
- `ImplementsPubRun`: with `Planned` (what is left of the warmup is what the plan says), each step
  of the two threads is a step of `PubRun` or changes nothing of it.

`SendLoopProofs`. `OnSchedule` and `Level` strengthen the properties: what is due is due by the
last reading, and between readings the loop is level with it. `Unseen` is what `NoStallUnseen` needs in
between: while the largest burst is below two, the longest gap is too short for two messages, unless it
is the one just read, whose messages `Pace` is about to count. `ImplementsPaced` maps a send of
the loop to one in time by `OnSchedule`, and needs that what is due is never above `num_sends` for the
return. The arithmetic (division, products)
is in lemmas about natural numbers that the steps cite.

`UmPerfProofs`. Messages are counted as elements: `Sent` and `Delivered` are sets of (source,
number) pairs. `Sizes` says that what was sent is the messages of both loops, `Counted` that from
the first BOS of a run on neither the counter nor a printed line exceeds the size of
`Delivered` -- a counter that is set back can only fall behind. `Streams` makes `Delivered` a subset
of `Sent`. A line with the full number then makes the two sets equally large, hence equal:
`TestIsConclusive`. It does not even need the line's loss to be zero. `PrimingWorks` has a second
invariant, `Accounted`: of the messages the transport is done with (`Passed`), all but those lost in bursts
(`Bursts`) have been counted once as received or lost, and unless a source begins late the counters have
forgotten no more of them than there are messages of the warmup; `PassOne` and `BurstOne` are the steps of
one message. What was sent is passed or on the way (`SentIsPassedOrOnTheWay`), where a silent loss at the
tail stays for ever: the theorem says what the counters do not forget, not that nothing is lost.
`Rest` has the types of what
`IInv` does not speak of, and with it `TypeCorrect`.

`SockPub2Proofs`. `TypeOK` and three parts, one for each hand-over: `Sending` (which thread may be
in `send_loop()`, and for which call), `Receiving` (when the context thread exists and when its flag is
set), `Counting` (which call the interval, the maximum and the histogram are of). `Warmed` adds what
the warmup has sent when it is over, which the refinement of `PubRun` needs.
`RefinesPubRun` asks nothing of a run whose warmup is of one message, which the programs skip (`Skipped`).

`EventRingProofs`. `TypeCorrect` holds through the wrap, with indices outside the ring. Before the wrap, `Claimed` and `Dumping` keep every number in use between 1 and
the number of increments, so that the conversion to int changes nothing and an index is a slot
(`InsideBeforeWrap`). `Places` (`InPlace`: a slot has only events of its own; `Arrived`: an event is in
its thread's hands, in its slot, or replaced by a newer one) gives `RingKeepsLatest`, and with the
lemma that two numbers of one slot are a whole turn apart (`SameSlot`) every line of a dump that
is made while other threads log (`DumpOfBusyRing`).

`JitterProofs`. `Iterations` ties the loop to the samples of the histogram, `Ring` says that each slot
passed has a block of its own; the number of blocks follows from a bijection. The lemma `Sample` is
about `hist_input()` whoever calls it, so that `MemorySafeUnlessStalled` covers all four programs. The
reports rest on `RInv`: `Observed` (there is a shortest duration exactly if there is a sample), `Sampled`
(without a stall the extremes are those of the durations and the sum lies between as many times the
one and the other, below the wrap), `Averaged`, `Tracked` (the extremes of `jitter_loop()` are of the
same durations) and `Placed`. A sample adds one element to `Bucketed`, or one overflow, or one outside
(`PlaceStep`), which gives `SamplesAddUp` by cardinalities instead of a sum; the division of the sum by
the count gives an average between the extremes (`Average`), and with it `ReportIsHonest`. `RestOfTypes`
adds what only `TypeCorrect` speaks of.

`SockSubProofs`. `EventHolds`: an event in hand has its reason, and the datagram it announces is still
there, because only the loop takes any. `Accounted`: what was accepted was read, found damaged or is in the buffer.

`GetOptProofs`. `TakenEquation` is the equation of the recursive function `IsValue`, which says which words are
values: by the least place where it could fail (`LeastNumber`), since induction over an operator is out of
the provers' reach. `Reading` is the invariant of the loop: the index is the number of words
taken so far (`Place`, `Option`, `After`, `Before`), the settings are the last values of the options among
these (`Asked`); `InHand` is the option just returned and `End` where the options stop. `NextPlace` and `NextAsked` are
the step of the reference over one option. `FirstArgument`, `AtEnd` and `AtStop` are the three ways to
stop, and give `DecidesRightly`; the settings then give `ReadsAsGiven`.

Only model-checked: liveness (`DrainEnds`, `Terminates`, `Returns`, `EverythingRead`, `EveryLineDecided`), which
the prover cannot do.

## 5. Not modelled

- The rest of `cprt.c` and `cprt.h`: wrappers of system calls (clock, sleep, threads, affinity,
  sockets for two operating systems) and macros that print and exit. What the programs see of
  them -- a clock that advances, an exit -- is in the modules of the programs. The help of -a speaks
  of a bitmap while the code takes a processor number; nothing here depends on it.
- The lines of reports and error messages, except where a property is about a number in them.
- The UM library, the Stores, XML and build files: not this repository's code, or no state.
- `hist_test()`, which nobody calls, and the final report of `sock_perf_sub`, which cannot be reached.

## 6. Plan

Done so far: every program of the repository, the abstract run, pacing, composition with a
transport, command lines and the event ring; every safety property of the runs as a theorem.

Next, in this order:

1. The measure behind the waits that end (`Terminates`, `EveryLineDecided`): an action property that each
   step of a thread brings it nearer to its end, which can be proved where the liveness itself cannot.
2. The rate `main()` reports, from `Paced` and the two readings of the clock around the call.
