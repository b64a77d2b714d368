------------------------------- MODULE UmPub -------------------------------
(***************************************************************************)
(* um_perf_pub: the publisher process, from the end of get_my_opts() to    *)
(* the return of main().                                                   *)
(*                                                                         *)
(* Two threads of the process share registration_complete and              *)
(* cur_flight_size: the thread of main(), which creates the sources and    *)
(* sends through them in send_loop(), and the thread of the UM context,    *)
(* which runs handle_src_event() and force_reclaim_cb().  Each step below  *)
(* reads or writes the shared counters at most once, in the order of the   *)
(* code.                                                                   *)
(*                                                                         *)
(* The UM library and its Stores are external; they appear only as what    *)
(* the code sees of them: a send is accepted or refused, a source is       *)
(* registered, a message becomes stable or is reclaimed.  When a message   *)
(* is due (the clock of send_loop) is the subject of module SendLoop; here *)
(* the next message of a loop may be sent at any time.                     *)
(***************************************************************************)
EXTENDS Integers, FiniteSets

CONSTANTS
  Options,      \* the command lines considered, as parsed by get_my_opts()
  MAX_SRCS,     \* 16 in the code
  FlightLimit,  \* ume_flight_size of um.xml, per source
  MaxReclaims,  \* bound: forced reclaims in one run
  MaxRepeats    \* bound: registrations of registered sources in one run

\* What the assertions of get_my_opts() leave.  The list of topics may hold any number of
\* them, or none, and the warmup may be negative.
ASSUME OptionsAssumption ==
  Options \subseteq [persist : BOOLEAN, generic : BOOLEAN, hist : BOOLEAN,
                     srcs : Nat, warmup : Int, msgs : Nat \ {0}]

ASSUME LimitsAssumption ==
  /\ MAX_SRCS \in Nat \ {0} /\ FlightLimit \in Nat \ {0}
  /\ MaxReclaims \in Nat /\ MaxRepeats \in Nat

VARIABLES
  opt,                    \* the options of this run
  pc,                     \* where main() is
  call,                   \* which call of send_loop() it is in, or was in last
  num_srcs, warmup_loops,
  num_sent, local_cur_src, global_cur_src,
  max_flight_size, hist_num_samples, num_checks,
  registration_complete, cur_flight_size,  \* shared by the two threads
  cb, cb_val,             \* the callback in progress, the value it has loaded
  died,                   \* an ASSRT or E has called exit(1), or a NULL was written through
  registered, repeated, unstable, reclaimed,  \* external: the library and the Stores
  sent, peak              \* history: messages accepted per source; highest cur_flight_size

mainVars == <<pc, call, num_srcs, warmup_loops, num_sent, local_cur_src,
              global_cur_src, max_flight_size, hist_num_samples, num_checks, sent, peak>>
ctxVars == <<registration_complete, cb, cb_val, registered, repeated, reclaimed>>
vars == <<opt, mainVars, ctxVars, cur_flight_size, unstable, died>>

Srcs == 0..(opt.srcs - 1)

TypeOK ==
  /\ opt \in Options
  /\ pc \in {"create", "reg_wait", "warm", "measure", "send", "count", "report",
             "drain", "linger", "deleted", "done"}
  /\ call \in {"none", "prime", "warmup", "timed"}
  /\ num_srcs \in 0..opt.srcs /\ num_srcs <= MAX_SRCS
  /\ warmup_loops \in Nat \union {opt.warmup}
  /\ num_sent \in Nat
  /\ local_cur_src \in Srcs \union {0}
  /\ global_cur_src \in Srcs \union {0}
  /\ max_flight_size \in Nat
  /\ hist_num_samples \in Nat
  /\ num_checks \in 0..4
  /\ registration_complete \in Nat
  /\ cur_flight_size \in Int
  /\ cb \in {"idle", "stable", "assert", "reclaim_load", "reclaim_store"}
  /\ cb_val \in Int
  /\ died \in BOOLEAN
  /\ registered \subseteq Srcs
  /\ repeated \in Nat
  /\ unstable \in Nat
  /\ reclaimed \in Nat
  /\ sent \in [Srcs -> Nat]
  /\ peak \in Nat

Init ==
  /\ opt \in Options
  /\ pc = "create"
  /\ call = "none"
  /\ num_srcs = 0
  /\ warmup_loops = opt.warmup
  /\ num_sent = 0
  /\ local_cur_src = 0
  /\ global_cur_src = 0
  /\ max_flight_size = 0
  /\ hist_num_samples = 0
  /\ num_checks = 0
  /\ registration_complete = 0
  /\ cur_flight_size = 0
  /\ cb = "idle"
  /\ cb_val = 0
  /\ died = FALSE
  /\ registered = {}
  /\ repeated = 0
  /\ unstable = 0
  /\ reclaimed = 0
  /\ sent = [s \in Srcs |-> 0]
  /\ peak = 0

----------------------------------------------------------------------------
(* send_loop(): its entry, its argument num_sends, the rotation over the   *)
(* sources.                                                                *)

MutEnterLoop(c) ==   \* every loop starts again at the first source
  /\ call' = c
  /\ num_sent' = 0
  /\ local_cur_src' = 0
  /\ pc' = "send"

EnterLoop(c) ==
  /\ call' = c
  /\ num_sent' = 0
  /\ local_cur_src' = global_cur_src
  /\ pc' = "send"

MutNumSends ==   \* the messages that primed the sources come on top of the warmup
  CASE call = "prime"  -> num_srcs
    [] call = "warmup" -> opt.warmup
    [] call = "timed"  -> opt.msgs
    [] OTHER           -> 0

num_sends ==
  CASE call = "prime"  -> num_srcs
    [] call = "warmup" -> warmup_loops
    [] call = "timed"  -> opt.msgs
    [] OTHER           -> 0

NextSrc(s) == IF s = num_srcs - 1 THEN 0 ELSE s + 1

----------------------------------------------------------------------------
(* main() before the timed loop.                                           *)

CreateSource ==
  /\ pc = "create"
  /\ num_srcs < opt.srcs /\ num_srcs < MAX_SRCS
  /\ num_srcs' = num_srcs + 1
  /\ UNCHANGED <<pc, call, warmup_loops, num_sent, local_cur_src, global_cur_src,
                 max_flight_size, hist_num_samples, num_checks, sent, peak,
                 cur_flight_size, unstable, died>>

\* ASSRT(num_srcs < MAX_SRCS): there is a topic more than there is room for.
TooManySources ==
  /\ pc = "create"
  /\ num_srcs < opt.srcs /\ num_srcs = MAX_SRCS
  /\ died' = TRUE
  /\ UNCHANGED <<mainVars, cur_flight_size, unstable>>

\* The context, the attributes, a topic or a source cannot be created and E() exits, when
\* some of the sources exist and may have been registered.
CreateFails ==
  /\ pc = "create"
  /\ died' = TRUE
  /\ UNCHANGED <<mainVars, cur_flight_size, unstable>>

\* With persistence main() waits for the registrations, else it primes every
\* source with one message if there is a warmup at all.
SourcesCreated ==
  /\ pc = "create"
  /\ num_srcs = opt.srcs
  /\ IF ~opt.persist /\ warmup_loops > 0
       THEN EnterLoop("prime")
       ELSE /\ pc' = IF opt.persist THEN "reg_wait" ELSE "warm"
            /\ UNCHANGED <<call, num_sent, local_cur_src>>
  /\ UNCHANGED <<num_srcs, warmup_loops, global_cur_src, max_flight_size,
                 hist_num_samples, num_checks, sent, peak, cur_flight_size, unstable, died>>

MutMissingFirst == registration_complete < 1   \* waits for the first registration only

MutMissingOne == registration_complete <= num_srcs   \* waits for one registration too many

\* The condition of the wait for the Stores.
RegistrationsMissing == registration_complete < num_srcs

RegistrationDone ==
  /\ pc = "reg_wait"
  /\ ~RegistrationsMissing
  /\ pc' = "warm"
  /\ UNCHANGED <<call, num_srcs, warmup_loops, num_sent, local_cur_src, global_cur_src,
                 max_flight_size, hist_num_samples, num_checks, sent, peak,
                 cur_flight_size, unstable, died>>

\* The wait has no end of its own: while registrations are missing, sleep and look again.
RegistrationWait ==
  /\ pc = "reg_wait"
  /\ RegistrationsMissing
  /\ UNCHANGED <<mainVars, cur_flight_size, unstable, died>>

StartWarmup ==
  /\ pc = "warm"
  /\ warmup_loops > 0
  /\ EnterLoop("warmup")
  /\ UNCHANGED <<num_srcs, warmup_loops, global_cur_src, max_flight_size,
                 hist_num_samples, num_checks, sent, peak, cur_flight_size, unstable, died>>

MutStartTimed ==   \* the histogram keeps the samples of the warmup
  /\ pc = "measure" \/ (pc = "warm" /\ warmup_loops <= 0)
  /\ EnterLoop("timed")
  /\ UNCHANGED <<num_srcs, warmup_loops, global_cur_src, max_flight_size,
                 hist_num_samples, num_checks, sent, peak, cur_flight_size, unstable, died>>

\* hist_init() clears the samples of the warmup.
StartTimed ==
  /\ pc = "measure" \/ (pc = "warm" /\ warmup_loops <= 0)
  /\ EnterLoop("timed")
  /\ hist_num_samples' = 0
  /\ UNCHANGED <<num_srcs, warmup_loops, global_cur_src, max_flight_size,
                 num_checks, sent, peak, cur_flight_size, unstable, died>>

----------------------------------------------------------------------------
(* send_loop(): one message.                                               *)

\* lbm_src_send() or lbm_ssrc_send_ex() accepts the message.  Above
\* FlightLimit unstable messages on a source it accepts no more; which source
\* the unstable messages are on is not modelled, so between FlightLimit and
\* FlightLimit * num_srcs it may do either.
Send ==
  /\ pc = "send"
  /\ num_sent < num_sends /\ num_srcs > 0
  /\ opt.persist => unstable < FlightLimit * num_srcs
  /\ sent' = [sent EXCEPT ![local_cur_src] = @ + 1]
  /\ unstable' = unstable + 1
  /\ pc' = "count"
  /\ UNCHANGED <<call, num_srcs, warmup_loops, num_sent, local_cur_src, global_cur_src,
                 max_flight_size, hist_num_samples, num_checks, peak, cur_flight_size, died>>

\* Without a source there is no message buffer: perf_msg->msg_num is written through NULL.
SendNowhere ==
  /\ pc = "send"
  /\ num_sent < num_sends /\ num_srcs = 0
  /\ died' = TRUE
  /\ UNCHANGED <<mainVars, cur_flight_size, unstable>>

\* The library refuses it (LBM_EWOULDBLOCK) and E() exits.
SendFails ==
  /\ pc = "send"
  /\ num_sent < num_sends /\ num_srcs > 0
  /\ IF opt.persist THEN unstable >= FlightLimit ELSE opt.generic
  /\ died' = TRUE
  /\ UNCHANGED <<mainVars, cur_flight_size, unstable>>

\* hist_input() exits on a sample that is not positive: a send too short for the clock.
HistAsserts ==
  /\ pc = "count"
  /\ opt.hist
  /\ died' = TRUE
  /\ UNCHANGED <<mainVars, cur_flight_size, unstable>>

MutCountSend ==   \* keeps the minimum
  /\ pc = "count"
  /\ cur_flight_size' = cur_flight_size + 1
  /\ max_flight_size' = IF cur_flight_size < max_flight_size
                          THEN cur_flight_size ELSE max_flight_size
  /\ peak' = IF cur_flight_size' > peak THEN cur_flight_size' ELSE peak
  /\ local_cur_src' = NextSrc(local_cur_src)
  /\ num_sent' = num_sent + 1
  /\ hist_num_samples' = IF opt.hist THEN hist_num_samples + 1 ELSE hist_num_samples
  /\ pc' = "send"
  /\ UNCHANGED <<call, num_srcs, warmup_loops, global_cur_src, num_checks, sent,
                 unstable, died>>

\* After the send: the time it took goes into the histogram, the message into the flight
\* size.  __sync_fetch_and_add returns the value before the addition: that value is what
\* max_flight_size keeps the maximum of.
CountSend ==
  /\ pc = "count"
  /\ cur_flight_size' = cur_flight_size + 1
  /\ max_flight_size' = IF cur_flight_size > max_flight_size
                          THEN cur_flight_size ELSE max_flight_size
  /\ peak' = IF cur_flight_size' > peak THEN cur_flight_size' ELSE peak
  /\ local_cur_src' = NextSrc(local_cur_src)
  /\ num_sent' = num_sent + 1
  /\ hist_num_samples' = IF opt.hist THEN hist_num_samples + 1 ELSE hist_num_samples
  /\ pc' = "send"
  /\ UNCHANGED <<call, num_srcs, warmup_loops, global_cur_src, num_checks, sent,
                 unstable, died>>

MutLoopExit ==   \* the warmup that is left is not clipped at zero
  /\ pc = "send"
  /\ num_sent = num_sends
  /\ global_cur_src' = local_cur_src
  /\ warmup_loops' = IF call = "prime" THEN warmup_loops - num_srcs ELSE warmup_loops
  /\ pc' = CASE call = "prime"  -> "warm"
             [] call = "warmup" -> "measure"
             [] OTHER           -> "report"
  /\ UNCHANGED <<call, num_srcs, num_sent, local_cur_src, max_flight_size,
                 hist_num_samples, num_checks, sent, peak, cur_flight_size, unstable, died>>

\* The loop has sent num_sends messages: send_loop() saves the rotation and main()
\* goes on after the call.
LoopExit ==
  /\ pc = "send"
  /\ num_sent = num_sends
  /\ global_cur_src' = local_cur_src
  /\ warmup_loops' = IF call # "prime" THEN warmup_loops
                     ELSE IF warmup_loops > num_srcs THEN warmup_loops - num_srcs ELSE 0
  /\ pc' = CASE call = "prime"  -> "warm"
             [] call = "warmup" -> "measure"
             [] OTHER           -> "report"
  /\ UNCHANGED <<call, num_srcs, num_sent, local_cur_src, max_flight_size,
                 hist_num_samples, num_checks, sent, peak, cur_flight_size, unstable, died>>

----------------------------------------------------------------------------
(* main() after the timed loop.                                            *)

Goto(from, to) ==
  /\ pc = from
  /\ pc' = to
  /\ UNCHANGED <<call, num_srcs, warmup_loops, num_sent, local_cur_src, global_cur_src,
                 max_flight_size, hist_num_samples, sent, peak,
                 cur_flight_size, unstable, died>>

Report == Goto("report", IF opt.persist THEN "drain" ELSE "linger") /\ UNCHANGED num_checks

MutDrainDone ==   \* does not wait for the last message
  /\ cur_flight_size <= 1
  /\ Goto("drain", "linger")
  /\ UNCHANGED num_checks

\* Nothing is in flight, as far as the counter says.
DrainDone ==
  /\ cur_flight_size <= 0
  /\ Goto("drain", "linger")
  /\ UNCHANGED num_checks

MutDrainWait ==   \* the checks are never counted
  /\ cur_flight_size > 0
  /\ num_checks' = num_checks
  /\ Goto("drain", IF num_checks' > 3 THEN "linger" ELSE "drain")

\* The store has not caught up: sleep and check again, up to three times.
DrainWait ==
  /\ cur_flight_size > 0
  /\ num_checks' = num_checks + 1
  /\ Goto("drain", IF num_checks' > 3 THEN "linger" ELSE "drain")

DeleteSources == Goto("linger", "deleted") /\ UNCHANGED num_checks

\* A source, or the context, cannot be deleted and E() exits.
DeleteFails ==
  /\ pc \in {"linger", "deleted"}
  /\ died' = TRUE
  /\ UNCHANGED <<mainVars, cur_flight_size, unstable>>

\* lbm_context_delete() stops the context thread between two callbacks.
ContextDelete == cb = "idle" /\ Goto("deleted", "done") /\ UNCHANGED num_checks

----------------------------------------------------------------------------
(* The context thread: handle_src_event() and force_reclaim_cb().          *)

MutRegistrationComplete(s) ==   \* the case falls through to the next, MESSAGE_STABLE
  /\ cb = "idle"
  /\ opt.persist
  /\ s <= num_srcs /\ s < MAX_SRCS
  /\ s \in registered => repeated < MaxRepeats
  /\ pc \notin {"deleted", "done"}
  /\ registered' = registered \union {s}
  /\ repeated' = IF s \in registered THEN repeated + 1 ELSE repeated
  /\ registration_complete' = registration_complete + 1
  /\ cb' = "stable"
  /\ UNCHANGED <<mainVars, cb_val, reclaimed, cur_flight_size, unstable, died>>

\* The Stores may confirm a registration as soon as lbm_src_create() has returned, so also
\* for the source that create_sources() has not counted yet, and again when the source has
\* registered anew: every event is counted.
RegistrationComplete(s) ==
  /\ cb = "idle"
  /\ opt.persist
  /\ s <= num_srcs /\ s < MAX_SRCS
  /\ s \in registered => repeated < MaxRepeats
  /\ pc \notin {"deleted", "done"}
  /\ registered' = registered \union {s}
  /\ repeated' = IF s \in registered THEN repeated + 1 ELSE repeated
  /\ registration_complete' = registration_complete + 1
  /\ UNCHANGED <<mainVars, cb, cb_val, reclaimed, cur_flight_size, unstable, died>>

\* External: the Store has acknowledged a message; the library frees its place and
\* calls the source's callback.
StoreAck ==
  /\ cb = "idle"
  /\ opt.persist
  /\ unstable > 0
  /\ pc \notin {"deleted", "done"}
  /\ unstable' = unstable - 1
  /\ cb' = "stable"
  /\ UNCHANGED <<mainVars, registration_complete, cb_val, registered, repeated, reclaimed,
                 cur_flight_size, died>>

\* LBM_SRC_EVENT_UME_MESSAGE_STABLE_EX: the subtraction ...
StableSub ==
  /\ cb = "stable"
  /\ cur_flight_size' = cur_flight_size - 1
  /\ cb' = "assert"
  /\ UNCHANGED <<mainVars, registration_complete, cb_val, registered, repeated, reclaimed,
                 unstable, died>>

\* ... and, in a second read of the counter, "Die if negative".
StableAssert ==
  /\ cb = "assert"
  /\ cb' = "idle"
  /\ died' = (cur_flight_size < 0)
  /\ UNCHANGED <<mainVars, registration_complete, cb_val, registered, repeated, reclaimed,
                 cur_flight_size, unstable>>

\* External: the library gives a message up and calls force_reclaim_cb().
ForceReclaim ==
  /\ cb = "idle"
  /\ opt.persist
  /\ unstable > 0
  /\ reclaimed < MaxReclaims
  /\ pc \notin {"deleted", "done"}
  /\ unstable' = unstable - 1
  /\ reclaimed' = reclaimed + 1
  /\ cb' = "reclaim_load"
  /\ UNCHANGED <<mainVars, registration_complete, cb_val, registered, repeated,
                 cur_flight_size, died>>

\* cur_flight_size -- is a load ...
ReclaimLoad ==
  /\ cb = "reclaim_load"
  /\ cb_val' = cur_flight_size
  /\ cb' = "reclaim_store"
  /\ UNCHANGED <<mainVars, registration_complete, registered, repeated, reclaimed,
                 cur_flight_size, unstable, died>>

MutReclaimStore ==   \* the callback writes back what it has loaded
  /\ cb = "reclaim_store"
  /\ cur_flight_size' = cb_val
  /\ cb' = "idle"
  /\ UNCHANGED <<mainVars, registration_complete, cb_val, registered, repeated, reclaimed,
                 unstable, died>>

\* ... and a store.
ReclaimStore ==
  /\ cb = "reclaim_store"
  /\ cur_flight_size' = cb_val - 1
  /\ cb' = "idle"
  /\ UNCHANGED <<mainVars, registration_complete, cb_val, registered, repeated, reclaimed,
                 unstable, died>>

----------------------------------------------------------------------------
\* What main() does by itself; what fails is the library's or the
\* clock's doing.
MainStep ==
  \/ CreateSource \/ TooManySources \/ SourcesCreated \/ RegistrationWait \/ RegistrationDone
  \/ StartWarmup \/ StartTimed
  \/ Send \/ SendNowhere \/ CountSend \/ LoopExit
  \/ Report \/ DrainDone \/ DrainWait \/ DeleteSources \/ ContextDelete

CallbackStep == StableSub \/ StableAssert \/ ReclaimLoad \/ ReclaimStore

Main == ~died /\ MainStep /\ UNCHANGED <<opt, ctxVars>>
MainFails ==
  /\ ~died
  /\ CreateFails \/ SendFails \/ HistAsserts \/ DeleteFails
  /\ UNCHANGED <<opt, ctxVars>>
Callback == ~died /\ CallbackStep /\ UNCHANGED opt
Registers(s) == ~died /\ RegistrationComplete(s) /\ UNCHANGED opt
Acks == ~died /\ StoreAck /\ UNCHANGED opt
Reclaims == ~died /\ ForceReclaim /\ UNCHANGED opt

Exited == died \/ pc = "done"
Terminated == Exited /\ UNCHANGED vars

Next ==
  \/ Main \/ MainFails \/ Callback \/ Acks \/ Reclaims
  \/ \E s \in Srcs : Registers(s)
  \/ Terminated

Spec == Init /\ [][Next]_vars

\* Neither thread is stopped by the other: the operating system runs both.
FairSpec == Spec /\ WF_vars(Main) /\ WF_vars(Callback)
----------------------------------------------------------------------------
(* Properties.                                                             *)

\* Messages handed to the library and still in flight there, plus the events on
\* their way: what cur_flight_size is meant to count.
Uncounted == IF pc = "count" THEN 1 ELSE 0
AckPending == IF cb = "stable" THEN 1 ELSE 0
ReclaimPending == IF cb \in {"reclaim_load", "reclaim_store"} THEN 1 ELSE 0

\* The flight counter is exact but for the message the sending thread is about to
\* count and the event the context thread is about to apply, as long as nothing was
\* reclaimed by force: the two threads lose none of each other's updates.
FlightBalance ==
  reclaimed = 0 => cur_flight_size + Uncounted = unstable + AckPending

\* A forced reclaim may lose additions of the sending thread (its decrement is not
\* atomic), never its own subtraction: the counter may be too low, never too high.
FlightNeverOverstated ==
  cur_flight_size + Uncounted <= unstable + AckPending + ReclaimPending

\* Leaving the wait for the Stores without "Giving up" means that every message is
\* stable: main() does not delete sources that still have messages in flight.
DrainedMeansStable ==
  /\ opt.persist
  /\ reclaimed = 0
  /\ pc \in {"linger", "deleted", "done"}
  /\ num_checks < 4
  => unstable = 0

\* Under persistence no source carries a message before every source is registered, the
\* ones created last included, but for one source for every registration event that came
\* again for a source that had it: the wait counts events, not sources.
SendsOnlyRegistered ==
  opt.persist /\ (\E s \in Srcs : sent[s] > 0)
    => Cardinality(Srcs \ registered) <= repeated

\* The source that carries the next message.
Turn ==
  CASE pc = "count" -> NextSrc(local_cur_src)
    [] pc = "send"  -> local_cur_src
    [] OTHER        -> global_cur_src

\* The sources carry the same number of messages, the ones before the turn one more,
\* over all the calls of send_loop() together: the load is balanced across sources.
LoadBalanced ==
  \A i, j \in Srcs :
    i < j => sent[i] = sent[j] + (IF i < Turn /\ Turn <= j THEN 1 ELSE 0)

\* What hist_print() averages are the messages of the timed loop, all of them and no
\* message of the warmup.
HistMeasuredOnly ==
  pc \in {"report", "drain", "linger", "deleted", "done"}
    => hist_num_samples = IF opt.hist THEN opt.msgs ELSE 0

\* max_flight_size is at most one below the highest flight size there was.
PeakReported == peak - max_flight_size \in {0, 1}

\* The run of PubRun this run stands for.
PrimeSent == IF ~opt.persist /\ opt.warmup > 0 THEN opt.srcs ELSE 0
WarmupLeft == IF opt.warmup > PrimeSent THEN opt.warmup - PrimeSent ELSE 0
Accepted == num_sent + Uncounted

RunStage ==
  CASE died -> "failed"
    [] ~died /\ pc \in {"deleted", "done"} -> "closed"
    [] ~died /\ pc \in {"drain", "linger"} -> "reported"
    [] ~died /\ pc \notin {"deleted", "done", "drain", "linger"} ->
         IF call = "timed" THEN "measure" ELSE "warmup"

Run == INSTANCE PubRun WITH
  Plans    <- [srcs : Nat, warmup : Nat, msgs : Nat \ {0}],
  plan     <- [srcs |-> opt.srcs, warmup |-> PrimeSent + WarmupLeft, msgs |-> opt.msgs],
  stage    <- RunStage,
  warm     <- CASE call = "none"   -> 0
                [] call = "prime"  -> Accepted
                [] call = "warmup" -> PrimeSent + Accepted
                [] call = "timed"  -> PrimeSent + WarmupLeft,
  measured <- IF call = "timed" THEN Accepted ELSE 0,
  turn     <- Turn,
  sent     <- sent

\* Whatever the threads and the Stores do, the publisher sends the planned warmup and
\* then exactly the planned messages, in rotation, and reports only after the last.
RefinesPubRun == Run!RunSpec

\* The wait for the Stores ends whatever they do: three sleeps and main() goes on.
DrainEnds == (pc = "drain") ~> (pc = "linger" \/ died)

\* If the Stores register every source and acknowledge messages, the publisher exits.
StoresWork ==
  /\ WF_vars(Acks)
  /\ \A s \in 0..(MAX_SRCS - 1) : WF_vars(s \in Srcs \ registered /\ Registers(s))
Terminates == StoresWork => <>Exited

\* handle_src_event(): "Die if negative".  The comment takes a negative counter for
\* impossible.
NeverNegative == ~(died /\ cur_flight_size < 0)

----------------------------------------------------------------------------
(* The inductive invariant behind the safety properties, by parts.         *)

Before == {"create", "reg_wait"}
After == {"report", "drain", "linger", "deleted", "done"}

\* Where main() is and what it has done by then.
Control ==
  /\ pc # "create" => num_srcs = opt.srcs
  /\ pc \in Before => call = "none"
  /\ pc \in {"send", "count", "measure"} => call # "none"
  /\ pc \in {"send", "count"} => num_sent <= num_sends
  /\ pc = "count" => num_sent < num_sends /\ num_srcs > 0
  /\ pc \in After => call = "timed" /\ num_sent = opt.msgs
  /\ call = "timed" => pc \in After \union {"send", "count"}
  /\ pc = "drain" => opt.persist
  /\ pc \notin {"linger", "deleted", "done"} => num_checks < 4

\* The callback that reclaims has loaded a value that is not too high.
Reclaiming ==
  /\ cb \in {"reclaim_load", "reclaim_store"} => reclaimed > 0
  /\ cb = "reclaim_store" => cb_val <= cur_flight_size

\* The histogram holds the messages of the timed loop counted so far.
Sampled ==
  call = "timed" => hist_num_samples = IF opt.hist THEN num_sent ELSE 0

\* The counter of registrations counts the registered sources and what came again; nothing
\* is sent in the states before the wait for them has ended.
Registered ==
  /\ registration_complete = Cardinality(registered) + repeated
  /\ opt.persist /\ pc \notin Before => Cardinality(Srcs \ registered) <= repeated
  /\ pc \in Before => \A s \in Srcs : sent[s] = 0

\* What is left of the warmup is what the plan of the run says.
Planned ==
  /\ call = "none" => pc \in {"create", "reg_wait", "warm"} /\ warmup_loops = opt.warmup
  /\ call = "none" /\ pc \in {"reg_wait", "warm"} => PrimeSent = 0
  /\ call = "prime" => pc \in {"send", "count", "warm"} /\ PrimeSent = opt.srcs
  /\ call = "prime" /\ pc # "warm" => warmup_loops = opt.warmup
  /\ call = "prime" /\ pc = "warm" => warmup_loops = WarmupLeft /\ num_sent = opt.srcs
  /\ call = "warmup" => pc \in {"send", "count", "measure"} /\ warmup_loops = WarmupLeft
  /\ pc = "measure" => call = "warmup" /\ num_sent = WarmupLeft
=============================================================================
