------------------------------- MODULE SockPub -------------------------------
(***************************************************************************)
(* sock_perf_pub, from the end of get_my_opts() to the return of main().   *)
(* sock_perf_pub2 has the same text and adds threads: SockPub2 extends     *)
(* this module, and is sock_perf_pub when it is given neither -G nor -S.   *)
(*                                                                         *)
(* send_loop() is run by the thread that `sender' names; when a message is *)
(* due, with -r, is the subject of SendLoop.  A time is the number of      *)
(* messages that had been sent by then.                                    *)
(***************************************************************************)
EXTENDS Integers

CONSTANTS
  Options,   \* the command lines considered: hist is -H, sleep is -s instead of -r
  Garbage    \* values an int that was never assigned may have

ASSUME OptionsAssumption ==
  \A o \in Options :
    /\ o.hist \in BOOLEAN /\ o.sleep \in BOOLEAN
    /\ o.warmup_loops \in Int /\ o.num_msgs \in Nat \ {0}

ASSUME GarbageAssumption == Garbage \subseteq Int /\ Garbage # {}

VARIABLES
  opt,
  pc,                      \* where main() is
  sender, call,            \* who runs send_loop(), and for what
  num_sent,
  start_ts, end_ts, actual_sends,
  hist_num_samples,
  global_max_tight_sends,  \* the call of send_loop() whose maximum it is
  died,                    \* CPRT_EM1 or ASSRT has called exit(1)
  sent                     \* history: datagrams sent

loopVars == <<sender, call, num_sent, global_max_tight_sends>>
timeVars == <<start_ts, end_ts, actual_sends>>
pubVars == <<opt, pc, loopVars, timeVars, hist_num_samples, died, sent>>

PubInit ==
  /\ opt \in Options
  /\ pc = "start"
  /\ sender = "nobody"
  /\ call = "none"
  /\ num_sent = 0
  /\ start_ts = 0
  /\ end_ts = 0
  /\ actual_sends \in Garbage
  /\ hist_num_samples = 0
  /\ global_max_tight_sends = "none"
  /\ died = FALSE
  /\ sent = 0

Goes(from, to) == pc = from /\ pc' = to

----------------------------------------------------------------------------
(* send_loop(), by whoever runs it.                                        *)

num_sends == IF call = "warmup" THEN opt.warmup_loops ELSE opt.num_msgs

EnterLoop(who, what) ==
  /\ sender' = who
  /\ call' = what
  /\ num_sent' = 0
  /\ UNCHANGED global_max_tight_sends

\* One message: sendmsg() and, with -H, the time it took into the histogram.
SendOne ==
  /\ num_sent < num_sends
  /\ num_sent' = num_sent + 1
  /\ sent' = sent + 1
  /\ hist_num_samples' = IF opt.hist THEN hist_num_samples + 1 ELSE hist_num_samples
  /\ UNCHANGED <<opt, pc, sender, call, global_max_tight_sends, timeVars, died>>

\* One of the calls that main() makes before it sends, from socket() to cprt_set_affinity(),
\* fails: each of them exits.
SetupFails ==
  /\ pc \in {"start", "warm"}
  /\ died' = TRUE
  /\ UNCHANGED <<opt, pc, loopVars, timeVars, hist_num_samples, sent>>

\* CPRT_EM1(sendmsg()).
SendFails ==
  /\ sender # "nobody"
  /\ num_sent < num_sends
  /\ died' = TRUE
  /\ UNCHANGED <<opt, pc, loopVars, timeVars, hist_num_samples, sent>>

MutLoopDone == num_sent >= num_sends - 1   \* one message short
LoopDone == num_sent = num_sends

MutTight == IF global_max_tight_sends = "none" THEN call ELSE global_max_tight_sends   \* the maximum of all calls

\* The busy loop publishes its maximum; the loop that sleeps has none.
Tight == IF opt.sleep THEN global_max_tight_sends ELSE call

LeaveLoop ==
  /\ LoopDone
  /\ sender' = "nobody"
  /\ global_max_tight_sends' = Tight
  /\ UNCHANGED <<call, num_sent>>

----------------------------------------------------------------------------
(* main().                                                                 *)

Warmup ==
  /\ IF opt.warmup_loops > 1
       THEN EnterLoop("main", "warmup") /\ Goes("warm", "loop")
       ELSE Goes("warm", "clear") /\ UNCHANGED loopVars
  /\ UNCHANGED <<opt, timeVars, hist_num_samples, died, sent>>

MutClear ==   \* the samples of the warmup stay
  /\ Goes("clear", "timed")
  /\ UNCHANGED <<opt, loopVars, timeVars, hist_num_samples, died, sent>>

\* hist_init(), "Zero out data from warmup period".
Clear ==
  /\ Goes("clear", "timed")
  /\ hist_num_samples' = 0
  /\ UNCHANGED <<opt, loopVars, timeVars, died, sent>>

StartTimed ==
  /\ Goes("timed", "loop")
  /\ start_ts' = sent
  /\ EnterLoop("main", "timed")
  /\ UNCHANGED <<opt, end_ts, actual_sends, hist_num_samples, died, sent>>

\* send_loop() returns to main().
LoopReturns ==
  /\ sender = "main"
  /\ LeaveLoop
  /\ IF call = "warmup"
       THEN Goes("loop", "clear") /\ UNCHANGED timeVars
       ELSE Goes("loop", "report") /\ actual_sends' = num_sent /\ end_ts' = sent /\ UNCHANGED start_ts
  /\ UNCHANGED <<opt, hist_num_samples, died, sent>>

Report ==
  /\ Goes("report", "stop")
  /\ UNCHANGED <<opt, loopVars, timeVars, hist_num_samples, died, sent>>

Return ==
  /\ Goes("stop", "done")
  /\ UNCHANGED <<opt, loopVars, timeVars, hist_num_samples, died, sent>>
=============================================================================
