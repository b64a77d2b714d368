------------------------------ MODULE SockPub2 ------------------------------
(***************************************************************************)
(* sock_perf_pub2: sock_perf_pub with a context thread (with -G) and a     *)
(* separate send thread (with -S).                                         *)
(*                                                                         *)
(* The threads share the histogram, start_ts and end_ts, exit_context and  *)
(* the sockets, without locks: only the creation and the joining of the    *)
(* threads orders their accesses.                                          *)
(***************************************************************************)
EXTENDS SockPub

ASSUME ThreadsAssumption ==
  \A o \in Options : o.rcv \in BOOLEAN /\ o.separate \in BOOLEAN   \* -G and -S

VARIABLES
  thr,                 \* the send thread: "none", "start", "loop", "end", "gone"
  ctx,                 \* the context thread: "none", "check", "wait", "close", "gone"
  exit_context,
  rcv_open             \* rcv_sock and epoll_fd are open

ctxVars == <<ctx, rcv_open>>
threadVars == <<thr, ctxVars, exit_context>>
vars == <<pubVars, threadVars>>

TypeOK ==
  /\ opt \in Options
  /\ pc \in {"start", "warm", "clear", "timed", "loop", "join", "report", "stop",
             "join_ctx", "done"}
  /\ thr \in {"none", "start", "loop", "end", "gone"}
  /\ ctx \in {"none", "check", "wait", "close", "gone"}
  /\ sender \in {"nobody", "main", "thread"}
  /\ call \in {"none", "warmup", "timed"}
  /\ num_sent \in Nat
  /\ start_ts \in Nat
  /\ end_ts \in Nat
  /\ actual_sends \in Int
  /\ hist_num_samples \in Nat
  /\ exit_context \in BOOLEAN
  /\ rcv_open \in BOOLEAN
  /\ died \in BOOLEAN
  /\ sent \in Nat
  /\ global_max_tight_sends \in {"none", "warmup", "timed"}

Init ==
  /\ PubInit
  /\ thr = "none"
  /\ ctx = "none"
  /\ exit_context = FALSE
  /\ rcv_open = FALSE

----------------------------------------------------------------------------
(* main().                                                                 *)

nothingSent == <<opt, loopVars, timeVars, hist_num_samples, died, sent>>

\* context_init() and the context thread, with -G.
StartContext ==
  /\ Goes("start", "warm")
  /\ rcv_open' = opt.rcv
  /\ ctx' = IF opt.rcv THEN "check" ELSE "none"
  /\ exit_context' = FALSE
  /\ UNCHANGED <<nothingSent, thr>>

\* The timed loop in a thread of its own.
StartThread ==
  /\ opt.separate
  /\ Goes("timed", "join")
  /\ thr' = "start"
  /\ UNCHANGED <<nothingSent, ctxVars, exit_context>>

MutJoinSend ==   \* does not wait for the thread to end
  /\ Goes("join", "report")
  /\ UNCHANGED <<nothingSent, threadVars>>

JoinSend ==
  /\ thr = "gone"
  /\ Goes("join", "report")
  /\ UNCHANGED <<nothingSent, threadVars>>

MutStopContext ==   \* joins the context thread without telling it to stop
  /\ opt.rcv
  /\ Goes("stop", "join_ctx")
  /\ UNCHANGED <<nothingSent, threadVars>>

StopContext ==
  /\ opt.rcv
  /\ Goes("stop", "join_ctx")
  /\ exit_context' = TRUE
  /\ UNCHANGED <<nothingSent, thr, ctxVars>>

MutJoinContext ==   \* returns while the context thread still runs
  /\ Goes("join_ctx", "done")
  /\ UNCHANGED <<nothingSent, threadVars>>

JoinContext ==
  /\ ctx = "gone"
  /\ Goes("join_ctx", "done")
  /\ UNCHANGED <<nothingSent, threadVars>>

----------------------------------------------------------------------------
(* separate_send_thread().                                                 *)

ThreadStarts ==
  /\ thr = "start"
  /\ thr' = "loop"
  /\ start_ts' = sent
  /\ EnterLoop("thread", "timed")
  /\ UNCHANGED <<opt, pc, end_ts, actual_sends, hist_num_samples, died, sent, ctxVars, exit_context>>

ThreadReturns ==
  /\ thr = "loop"
  /\ thr' = "end"
  /\ LeaveLoop
  /\ UNCHANGED <<opt, pc, timeVars, hist_num_samples, died, sent, ctxVars, exit_context>>

\* end_ts is taken and the thread exits; what send_loop() returned is dropped.
ThreadExits ==
  /\ thr = "end"
  /\ thr' = "gone"
  /\ end_ts' = sent
  /\ UNCHANGED <<opt, pc, loopVars, start_ts, actual_sends, hist_num_samples, died, sent,
                 ctxVars, exit_context>>

\* The thread cannot be created, or not bound to its CPU: either exits.
ThreadFails ==
  /\ (opt.separate /\ pc = "timed") \/ thr = "start"
  /\ died' = TRUE
  /\ UNCHANGED <<opt, pc, loopVars, timeVars, hist_num_samples, sent, threadVars>>

----------------------------------------------------------------------------
(* context_thread().                                                       *)

mainAndSend == <<opt, pc, loopVars, timeVars, hist_num_samples, sent, thr, exit_context>>

ContextCheck ==
  /\ ctx = "check"
  /\ ctx' = IF exit_context THEN "close" ELSE "wait"
  /\ UNCHANGED <<mainAndSend, rcv_open, died>>

\* epoll_wait() returns 0 after half a second.
ContextTimeout ==
  /\ ctx = "wait"
  /\ ctx' = "check"
  /\ UNCHANGED <<mainAndSend, rcv_open, died>>

\* It returns an event, a datagram for the group: ASSRT(epoll_rtn == 0).
ContextPacket ==
  /\ ctx = "wait"
  /\ died' = TRUE
  /\ UNCHANGED <<mainAndSend, ctxVars>>

ContextClose ==
  /\ ctx = "close"
  /\ ctx' = "gone"
  /\ rcv_open' = FALSE
  /\ UNCHANGED <<mainAndSend, died>>

----------------------------------------------------------------------------
\* send_loop() of sock_perf_pub2, which is that of sock_perf_pub.
Sends(who) == sender = who /\ SendOne /\ UNCHANGED threadVars

SharedStep ==
  /\ \/ Warmup \/ Clear \/ LoopReturns \/ Report
     \/ ~opt.separate /\ StartTimed
     \/ ~opt.rcv /\ Return
  /\ UNCHANGED threadVars

MainStep == SharedStep \/ StartContext \/ StartThread \/ JoinSend \/ StopContext \/ JoinContext

Main == ~died /\ (MainStep \/ Sends("main"))
SendThread == ~died /\ (ThreadStarts \/ ThreadReturns \/ ThreadExits \/ Sends("thread"))
Context == ~died /\ (ContextCheck \/ ContextTimeout \/ ContextClose)
Fails ==
  /\ ~died
  /\ \/ (SetupFails \/ SendFails) /\ UNCHANGED threadVars
     \/ ThreadFails
     \/ ContextPacket

Exited == died \/ pc = "done"
Terminated == Exited /\ UNCHANGED vars

\* When main() has returned or exit() was called no thread takes another step.
Next == (pc # "done" /\ (Main \/ SendThread \/ Context \/ Fails)) \/ Terminated

Spec == Init /\ [][Next]_vars
FairSpec == Spec /\ WF_vars(Main) /\ WF_vars(SendThread) /\ WF_vars(Context)

----------------------------------------------------------------------------
(* Properties.                                                             *)

Measured == pc \in {"report", "stop", "join_ctx", "done"}

\* The reported duration is that of the timed messages, all of them and nothing else,
\* also when another thread has sent them and taken the times.
MeasuredInterval == Measured => end_ts - start_ts = opt.num_msgs

\* So is the histogram, which two threads have written by then.
HistMeasuredOnly ==
  Measured => hist_num_samples = IF opt.hist THEN opt.num_msgs ELSE 0

\* The burst reported is that of the timed loop, never of the warmup; with -s there is none.
TightOfTimed ==
  Measured => global_max_tight_sends = IF opt.sleep THEN "none" ELSE "timed"

\* main() returns, and frees the message, only when no other thread uses it or the
\* sockets any more, and the sockets of the context are closed.
NoThreadLeft ==
  pc = "done" => thr \in {"none", "gone"} /\ ctx \in {"none", "gone"} /\ ~rcv_open

\* Unless a call fails or a datagram arrives, which end it at once, the process ends at the
\* latest half a second after the last report.
Terminates == <>Exited

\* What the help of -w asks for, "messages to send before measurement": a count below
\* zero asks for none.
WarmupAsked == IF opt.warmup_loops > 0 THEN opt.warmup_loops ELSE 0

\* The messages sent before the measurement begins are those that -w asks for.
WarmupAsAsked == Measured => start_ts = WarmupAsked

\* The run of PubRun this is, with the one source the socket is.
InTimed == call = "timed"

Stage ==
  IF died THEN "failed"
  ELSE IF pc = "done" THEN "closed"
  ELSE IF pc \in {"stop", "join_ctx"} THEN "reported"
  ELSE IF InTimed THEN "measure" ELSE "warmup"

Run == INSTANCE PubRun WITH
  Plans    <- [srcs : {1}, warmup : Nat, msgs : Nat \ {0}],
  plan     <- [srcs |-> 1, warmup |-> WarmupAsked, msgs |-> opt.num_msgs],
  stage    <- Stage,
  warm     <- IF InTimed THEN WarmupAsked ELSE sent,
  measured <- IF InTimed THEN num_sent ELSE 0,
  turn     <- 0,
  sent     <- [s \in {0} |-> sent]

\* A warmup of one message is skipped; WarmupAsAsked is about it.
Skipped == opt.warmup_loops = 1

\* The process keeps the promises of a run of the publisher, whichever thread sends: the
\* warmup asked for, unless that is skipped, then the messages to measure, then the report.
RefinesPubRun ==
  /\ ~Skipped => Run!RunInit
  /\ [][~Skipped => Run!RunNext]_(Run!runVars)

\* "Don't count initial message", says the line that computes the rate from
\* actual_sends - 1: actual_sends is the number of messages of the timed loop.
ActualSends == Measured => actual_sends = opt.num_msgs
=============================================================================
