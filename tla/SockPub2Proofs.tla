--------------------------- MODULE SockPub2Proofs ---------------------------
(***************************************************************************)
(* Proofs about SockPub2, and so about SockPub, for every set of command   *)
(* lines.                                                                  *)
(***************************************************************************)
EXTENDS SockPub2, TLAPS

----------------------------------------------------------------------------
(* The inductive invariant.                                                *)

Before == {"start", "warm", "clear", "timed"}
After == {"report", "stop", "join_ctx", "done"}

\* Who runs send_loop(), and for what, at each place of main() and of the send thread.
Sending ==
  /\ sender = "main" <=> pc = "loop"
  /\ sender = "thread" <=> thr = "loop"
  /\ pc \in Before \union {"loop"} => thr = "none"
  /\ pc = "join" => thr # "none"
  /\ pc \in After => thr \in {"none", "gone"}
  /\ pc \in {"start", "warm"} => call = "none"
  /\ pc \in {"clear", "timed"} \/ thr = "start" => call # "timed"
  /\ pc = "loop" => call # "none"
  /\ pc \in After \/ thr \in {"loop", "end", "gone"} => call = "timed"

\* The context thread has sockets exactly as long as it runs.
Receiving ==
  /\ pc = "start" => ctx = "none"
  /\ ctx # "none" => opt.rcv
  /\ rcv_open <=> ctx \in {"check", "wait", "close"}
  /\ pc = "done" => ctx \in {"none", "gone"}

\* How far the loop is, and what of it the times, the histogram and the maximum show.
Counting ==
  /\ num_sent <= num_sends
  /\ call = "timed" =>
       /\ sent - start_ts = num_sent
       /\ hist_num_samples = IF opt.hist THEN num_sent ELSE 0
       /\ sender = "nobody" =>
            /\ num_sent = opt.num_msgs
            /\ ~opt.sleep => global_max_tight_sends = "timed"
  /\ pc = "timed" \/ thr = "start" => hist_num_samples = 0
  /\ ~opt.hist => hist_num_samples = 0
  /\ opt.sleep => global_max_tight_sends = "none"
  /\ pc \in After \/ thr = "gone" => end_ts = sent

IInv == TypeOK /\ Sending /\ Receiving /\ Counting

\* What a command line is made of.
LEMMA OptTypes ==
  ASSUME opt \in Options
  PROVE  /\ opt.hist \in BOOLEAN /\ opt.sleep \in BOOLEAN
         /\ opt.rcv \in BOOLEAN /\ opt.separate \in BOOLEAN
         /\ opt.warmup_loops \in Int /\ opt.num_msgs \in Nat \ {0}
BY OptionsAssumption, ThreadsAssumption

LEMMA InitInv == Init => IInv
<1> SUFFICES ASSUME Init PROVE IInv   OBVIOUS
<1> USE DEF Init, PubInit
<1>1. opt.num_msgs \in Nat /\ opt.warmup_loops \in Int   BY OptTypes
<1>2. actual_sends \in Int   BY GarbageAssumption
<1>3. TypeOK   BY <1>2 DEF TypeOK
<1>4. Sending /\ Receiving   BY DEF Sending, Receiving, Before, After
<1>5. Counting   BY <1>1 DEF Counting, num_sends, After
<1>6. QED   BY <1>3, <1>4, <1>5 DEF IInv

\* The steps of main(), of the send thread and of the context thread.
LEMMA StepInv == ASSUME IInv, [Next]_vars PROVE IInv'
<1>0. /\ opt \in Options
      /\ opt.warmup_loops \in Int /\ opt.num_msgs \in Nat \ {0}
      /\ opt.rcv \in BOOLEAN /\ opt.separate \in BOOLEAN
  BY OptTypes DEF IInv, TypeOK
<1> USE <1>0 DEF IInv, TypeOK, Sending, Receiving, Counting, Before, After, num_sends,
             loopVars, timeVars, ctxVars, threadVars, Goes
<1>1. CASE Main
  <2>1. CASE StartContext   BY <2>1 DEF StartContext, nothingSent
  <2>2. CASE Warmup /\ UNCHANGED threadVars   BY <2>2 DEF Warmup, EnterLoop
  <2>3. CASE Clear /\ UNCHANGED threadVars   BY <2>3 DEF Clear
  <2>4. CASE StartTimed /\ UNCHANGED threadVars   BY <2>4 DEF StartTimed, EnterLoop
  <2>5. CASE StartThread   BY <2>5 DEF StartThread, nothingSent
  <2>6. CASE LoopReturns /\ UNCHANGED threadVars
    BY <2>6 DEF LoopReturns, LeaveLoop, LoopDone, Tight
  <2>7. CASE JoinSend   BY <2>7 DEF JoinSend, nothingSent
  <2>8. CASE Report /\ UNCHANGED threadVars   BY <2>8 DEF Report
  <2>9. CASE ~opt.rcv /\ Return /\ UNCHANGED threadVars   BY <2>9 DEF Return
  <2>10. CASE StopContext   BY <2>10 DEF StopContext, nothingSent
  <2>11. CASE JoinContext   BY <2>11 DEF JoinContext, nothingSent
  <2>12. CASE Sends("main")   BY <2>12 DEF Sends, SendOne
  <2>13. QED
    BY <1>1, <2>1, <2>2, <2>3, <2>4, <2>5, <2>6, <2>7, <2>8, <2>9, <2>10, <2>11, <2>12
    DEF Main, MainStep, SharedStep
<1>2. CASE SendThread
  <2>1. CASE ThreadStarts   BY <2>1 DEF ThreadStarts, EnterLoop
  <2>2. CASE ThreadReturns   BY <2>2 DEF ThreadReturns, LeaveLoop, LoopDone, Tight
  <2>3. CASE ThreadExits   BY <2>3 DEF ThreadExits
  <2>4. CASE Sends("thread")   BY <2>4 DEF Sends, SendOne
  <2>5. QED   BY <1>2, <2>1, <2>2, <2>3, <2>4 DEF SendThread
<1>3. CASE Context
  <2>1. CASE ContextCheck   BY <2>1 DEF ContextCheck, mainAndSend
  <2>2. CASE ContextTimeout   BY <2>2 DEF ContextTimeout, mainAndSend
  <2>3. CASE ContextClose   BY <2>3 DEF ContextClose, mainAndSend
  <2>4. QED   BY <1>3, <2>1, <2>2, <2>3 DEF Context
<1>4. CASE Fails
  <2>1. CASE (SetupFails \/ SendFails) /\ UNCHANGED threadVars
    BY <2>1 DEF SetupFails, SendFails
  <2>2. CASE ThreadFails   BY <2>2 DEF ThreadFails
  <2>3. CASE ContextPacket   BY <2>3 DEF ContextPacket, mainAndSend
  <2>4. QED   BY <1>4, <2>1, <2>2, <2>3 DEF Fails
<1>5. CASE UNCHANGED vars   BY <1>5 DEF vars, pubVars
<1>6. QED
  BY <1>1, <1>2, <1>3, <1>4, <1>5 DEF Next, Terminated

LEMMA Invariance == Spec => []IInv
BY InitInv, StepInv, PTL DEF Spec

----------------------------------------------------------------------------
(* Theorems.                                                               *)

\* The type invariant of both socket publishers.
THEOREM TypeCorrect == Spec => []TypeOK
BY Invariance, PTL DEF IInv

\* After the timed loop all of its messages have been sent, by whichever thread.
LEMMA TimedLoopDone ==
  ASSUME IInv, Measured
  PROVE  call = "timed" /\ sender = "nobody" /\ pc \in After /\ opt.sleep \in BOOLEAN
<1>1. pc \in After /\ call = "timed"   BY DEF Measured, After, IInv, Sending
<1>2. sender = "nobody"   BY <1>1 DEF IInv, TypeOK, Sending, After
<1>3. QED   BY <1>1, <1>2, OptTypes DEF IInv, TypeOK

\* The reported interval is that of the timed messages, all of them and nothing else, in
\* whichever thread the times were taken.
THEOREM IntervalOfTimedLoop == Spec => []MeasuredInterval
<1>1. IInv => MeasuredInterval
  BY TimedLoopDone DEF MeasuredInterval, IInv, TypeOK, Counting
<1>2. QED   BY <1>1, Invariance, PTL

\* The histogram printed has exactly the timed messages in it.
THEOREM HistogramOfTimedLoop == Spec => []HistMeasuredOnly
<1>1. IInv => HistMeasuredOnly
  BY TimedLoopDone DEF HistMeasuredOnly, IInv, Counting
<1>2. QED   BY <1>1, Invariance, PTL

\* The maximum burst printed is that of the timed loop, and none is with -s.
THEOREM BurstOfTimedLoop == Spec => []TightOfTimed
<1>1. IInv => TightOfTimed
  BY TimedLoopDone DEF TightOfTimed, IInv, Counting
<1>2. QED   BY <1>1, Invariance, PTL

\* When main() has returned no thread uses what it has freed and closed.
THEOREM ThreadsJoined == Spec => []NoThreadLeft
<1>1. IInv => NoThreadLeft
  BY DEF IInv, Sending, Receiving, After, NoThreadLeft
<1>2. QED   BY <1>1, Invariance, PTL

----------------------------------------------------------------------------
(* The refinement of PubRun.                                               *)

\* Before the timed loop what has been sent is what the warmup has done so far: nothing
\* until it begins, all of it when it is over, unless it is one of one message.
Warmed ==
  /\ ~Skipped
  /\ call = "none" => sent = 0
  /\ call = "warmup" => sent = num_sent /\ opt.warmup_loops > 1
  /\ call # "timed" /\ sender = "nobody" /\ pc \notin {"start", "warm"} => sent = WarmupAsked

LEMMA WarmedStep == ASSUME IInv, Warmed, [Next]_vars PROVE Warmed'
<1>0. opt.warmup_loops \in Int /\ opt.num_msgs \in Nat \ {0}   BY OptTypes DEF IInv, TypeOK
<1> USE <1>0 DEF IInv, TypeOK, Sending, Counting, Before, After, Warmed, WarmupAsked, Skipped, num_sends,
             loopVars, Goes
<1>1. CASE Main
  <2>1. CASE Warmup   BY <2>1 DEF Warmup, EnterLoop
  <2>2. CASE StartTimed   BY <2>2 DEF StartTimed, EnterLoop
  <2>3. CASE LoopReturns   BY <2>3 DEF LoopReturns, LeaveLoop, LoopDone
  <2>4. CASE Sends("main")   BY <2>4 DEF Sends, SendOne
  <2>5. CASE StartContext \/ StartThread \/ JoinSend \/ StopContext \/ JoinContext
    BY <2>5 DEF StartContext, StartThread, JoinSend, StopContext, JoinContext, nothingSent
  <2>6. CASE Clear \/ Report \/ Return   BY <2>6 DEF Clear, Report, Return
  <2>7. QED   BY <1>1, <2>1, <2>2, <2>3, <2>4, <2>5, <2>6 DEF Main, MainStep, SharedStep
<1>2. CASE SendThread
  <2>1. CASE ThreadStarts   BY <2>1 DEF ThreadStarts, EnterLoop
  <2>2. CASE ThreadReturns \/ ThreadExits
    BY <2>2 DEF ThreadReturns, LeaveLoop, ThreadExits
  <2>3. CASE Sends("thread")   BY <2>3 DEF Sends, SendOne
  <2>4. QED   BY <1>2, <2>1, <2>2, <2>3 DEF SendThread
<1>3. CASE Context
  BY <1>3 DEF Context, ContextCheck, ContextTimeout, ContextClose, mainAndSend
<1>4. CASE Fails
  BY <1>4 DEF Fails, SetupFails, SendFails, ThreadFails, ContextPacket, mainAndSend
<1>5. CASE UNCHANGED vars   BY <1>5 DEF vars, pubVars
<1>6. QED   BY <1>1, <1>2, <1>3, <1>4, <1>5 DEF Next, Terminated

\* Each step is a step of PubRun, or leaves the variables of PubRun alone.
LEMMA RunStep ==
  ASSUME IInv, Warmed, [Next]_vars
  PROVE  [Run!RunNext]_(Run!runVars)
<1>0. opt.warmup_loops \in Int /\ opt.num_msgs \in Nat \ {0}   BY OptTypes DEF IInv, TypeOK
<1> DEFINE plan == [srcs |-> 1, warmup |-> WarmupAsked, msgs |-> opt.num_msgs]
           warm == IF InTimed THEN WarmupAsked ELSE sent
           measured == IF InTimed THEN num_sent ELSE 0
           map == [s \in {0} |-> sent]
<1> USE DEF InTimed
\* What is sent is one step of PubRun, in either loop.
<1>1. ASSUME SendOne, ~died, pc \in {"loop", "join"}, sender # "nobody",
             sender = "main" => pc = "loop"
      PROVE  Run!RunNext
  <2> USE <1>0, <1>1 DEF SendOne, IInv, TypeOK, Sending, Counting, Warmed, Before, After, num_sends
  <2>1. sent' = sent + 1 /\ num_sent' = num_sent + 1 /\ UNCHANGED <<opt, pc, call, died>>
    OBVIOUS
  <2>2. map' = [map EXCEPT ![0] = @ + 1]   BY <2>1
  <2>3. plan' = plan   BY <2>1 DEF WarmupAsked
  <2>4. call \in {"warmup", "timed"}   OBVIOUS
  <2>5. Run!Sources = {0}   BY DEF Run!Sources
  <2>6. CASE call = "warmup"
    <3>1. Stage = "warmup" /\ Stage' = "warmup"   BY <2>1, <2>6 DEF Stage
    <3>2. warm < plan.warmup /\ warm' = warm + 1 /\ measured' = measured
      BY <2>1, <2>6 DEF WarmupAsked
    <3>3. QED   BY <2>2, <2>3, <2>5, <3>1, <3>2 DEF Run!RunNext, Run!WarmupSend, Run!SendOnTurn
  <2>7. CASE call = "timed"
    <3>1. Stage = "measure" /\ Stage' = "measure"   BY <2>1, <2>7 DEF Stage
    <3>2. measured < plan.msgs /\ measured' = measured + 1 /\ warm' = warm
      BY <2>1, <2>7 DEF WarmupAsked
    <3>3. QED   BY <2>2, <2>3, <2>5, <3>1, <3>2 DEF Run!RunNext, Run!MeasuredSend, Run!SendOnTurn
  <2>8. QED   BY <2>4, <2>6, <2>7
\* Steps that send nothing and stay in the loop or out of it change at most the stage.
<1>2. ASSUME UNCHANGED <<opt, sent>>, InTimed' = InTimed, InTimed => num_sent' = num_sent
      PROVE  UNCHANGED <<plan, warm, measured, map>>
  BY <1>2 DEF WarmupAsked
<1>3. ASSUME UNCHANGED <<opt, sent>>, InTimed' = InTimed, InTimed => num_sent' = num_sent,
             Stage' = Stage
      PROVE  UNCHANGED Run!runVars
  BY <1>2, <1>3 DEF Run!runVars
<1>4. ASSUME ~died, died', UNCHANGED <<opt, sent, call, num_sent>>
      PROVE  Run!RunNext
  <2>1. Stage # "failed" /\ Stage' = "failed"   BY <1>4 DEF Stage
  <2>2. QED   BY <1>2, <1>4, <2>1 DEF Run!RunNext, Run!Fail
\* The timed loop begins.
<1>5. ASSUME EnterLoop("main", "timed") \/ EnterLoop("thread", "timed"),
             pc \in {"timed", "join"}, pc = "join" => thr = "start", pc' \in {"loop", "join"},
             ~died, UNCHANGED <<opt, sent, died>>
      PROVE  Run!RunNext
  <2> USE <1>0, <1>5 DEF EnterLoop, IInv, TypeOK, Sending, Counting, Warmed, Before, After
  <2>1. call # "timed" /\ sender = "nobody" /\ call' = "timed" /\ num_sent' = 0   OBVIOUS
  <2>2. Stage = "warmup" /\ Stage' = "measure"   BY <2>1 DEF Stage
  <2>3. sent = WarmupAsked /\ WarmupAsked' = WarmupAsked   BY <2>1 DEF WarmupAsked
  <2>4. UNCHANGED <<plan, warm, measured, map>> /\ warm = plan.warmup   BY <2>1, <2>3
  <2>5. QED   BY <2>2, <2>4 DEF Run!RunNext, Run!StartMeasure
<1>6. CASE Main
  <2> USE <1>0 DEF IInv, TypeOK, Sending, Counting, Before, After, Goes, loopVars
  <2>0. ~died   BY <1>6 DEF Main
  <2>1. CASE StartContext \/ Clear \/ StartThread \/ JoinSend \/ Warmup
    <3>1. /\ UNCHANGED <<opt, sent, died>>
          /\ call' = call \/ (call = "none" /\ call' = "warmup")
          /\ InTimed => num_sent' = num_sent
      BY <2>1 DEF StartContext, Clear, StartThread, JoinSend, Warmup, EnterLoop, nothingSent
    <3>2. pc \notin {"stop", "join_ctx", "done"} /\ pc' \notin {"stop", "join_ctx", "done"}
      BY <2>1 DEF StartContext, Clear, StartThread, JoinSend, Warmup
    <3>3. Stage' = Stage   BY <3>1, <3>2 DEF Stage
    <3>4. QED   BY <1>3, <3>1, <3>3
  <2>2. CASE LoopReturns
    <3>1. UNCHANGED <<opt, sent, died, call, num_sent>>   BY <2>2 DEF LoopReturns, LeaveLoop
    <3>2. pc \notin {"stop", "join_ctx", "done"} /\ pc' \notin {"stop", "join_ctx", "done"}
      BY <2>2 DEF LoopReturns
    <3>3. Stage' = Stage   BY <3>1, <3>2 DEF Stage
    <3>4. QED   BY <1>3, <3>1, <3>3
  <2>3. CASE StartTimed   BY <1>5, <2>0, <2>3 DEF StartTimed
  <2>4. CASE Report
    <3>1. UNCHANGED <<opt, sent, died, call, num_sent>>   BY <2>4 DEF Report
    <3>2. call = "timed" /\ num_sent = opt.num_msgs   BY <2>4 DEF Report
    <3>3. Stage = "measure" /\ Stage' = "reported"   BY <2>0, <2>4, <3>1, <3>2 DEF Report, Stage
    <3>4. measured = plan.msgs   BY <3>2
    <3>5. QED   BY <1>2, <3>1, <3>3, <3>4 DEF Run!RunNext, Run!ReportRate
  <2>5. CASE StopContext
    <3>1. UNCHANGED <<opt, sent, died, call, num_sent>>   BY <2>5 DEF StopContext, nothingSent
    <3>2. Stage' = Stage   BY <2>5, <3>1 DEF StopContext, Stage
    <3>3. QED   BY <1>3, <3>1, <3>2
  <2>6. CASE Return \/ JoinContext
    <3>1. UNCHANGED <<opt, sent, died, call, num_sent>>
      BY <2>6 DEF Return, JoinContext, nothingSent
    <3>2. Stage = "reported" /\ Stage' = "closed"
      BY <2>0, <2>6, <3>1 DEF Return, JoinContext, Stage
    <3>3. QED   BY <1>2, <3>1, <3>2 DEF Run!RunNext, Run!CloseSources
  <2>7. CASE Sends("main")   BY <1>1, <2>0, <2>7 DEF Sends
  <2>8. QED
    BY <1>6, <2>1, <2>2, <2>3, <2>4, <2>5, <2>6, <2>7 DEF Main, MainStep, SharedStep
<1>7. CASE SendThread
  <2> USE <1>0 DEF IInv, TypeOK, Sending, Before, After, loopVars
  <2>0. ~died   BY <1>7 DEF SendThread
  <2>1. CASE ThreadStarts   BY <1>5, <2>0, <2>1 DEF ThreadStarts
  <2>2. CASE ThreadReturns \/ ThreadExits
    <3>1. UNCHANGED <<opt, pc, sent, died, call, num_sent>>
      BY <2>2 DEF ThreadReturns, ThreadExits, LeaveLoop
    <3>2. Stage' = Stage   BY <3>1 DEF Stage
    <3>3. QED   BY <1>3, <3>1, <3>2
  <2>3. CASE Sends("thread")   BY <1>1, <2>0, <2>3 DEF Sends
  <2>4. QED   BY <1>7, <2>1, <2>2, <2>3 DEF SendThread
<1>8. CASE Context \/ UNCHANGED vars
  <2>1. UNCHANGED <<opt, pc, sent, died, call, num_sent>>
    BY <1>8 DEF Context, ContextCheck, ContextTimeout, ContextClose, mainAndSend, loopVars,
                vars, pubVars
  <2>2. Stage' = Stage   BY <2>1 DEF Stage
  <2>3. QED   BY <1>3, <2>1, <2>2
<1>9. CASE Fails
  BY <1>4, <1>9 DEF Fails, SetupFails, SendFails, ThreadFails, ContextPacket, mainAndSend, loopVars
<1>10. QED   BY <1>6, <1>7, <1>8, <1>9 DEF Next, Terminated

\* The options do not change.
LEMMA SameOptions == [Next]_vars => opt' = opt
BY DEF Next, vars, pubVars, Terminated, Main, MainStep, SharedStep, StartContext, StartThread, JoinSend,
       StopContext, JoinContext, nothingSent, Warmup, Clear, StartTimed, LoopReturns, LeaveLoop,
       EnterLoop, Report, Return, Goes, loopVars, Sends, SendOne, SendThread, ThreadStarts,
       ThreadReturns, ThreadExits, Context, ContextCheck, ContextTimeout, ContextClose,
       ContextPacket, mainAndSend, Fails, SetupFails, SendFails, ThreadFails

\* A run of sock_perf_pub or sock_perf_pub2 is a run of PubRun, with the one source the
\* socket is and whichever thread sends, unless it is asked for a warmup of one message.
THEOREM ImplementsPubRun == Spec => RefinesPubRun
<1>1. Init => (~Skipped => Run!RunInit) /\ (~Skipped => Warmed)
  <2> SUFFICES ASSUME Init, ~Skipped PROVE Run!RunInit /\ Warmed   OBVIOUS
  <2>1. opt.warmup_loops \in Int /\ opt.num_msgs \in Nat \ {0}   BY OptTypes DEF Init, PubInit
  <2>2. Stage = "warmup" /\ ~InTimed   BY DEF Init, PubInit, Stage, InTimed
  <2>3. [srcs |-> 1, warmup |-> WarmupAsked, msgs |-> opt.num_msgs]
          \in [srcs : {1}, warmup : Nat, msgs : Nat \ {0}]
    BY <2>1 DEF WarmupAsked
  <2>4. Run!RunInit   BY <2>2, <2>3 DEF Init, PubInit, Run!RunInit, Run!Sources
  <2>5. Warmed   BY DEF Init, PubInit, Warmed, Skipped
  <2>6. QED   BY <2>4, <2>5
<1>2. IInv /\ (~Skipped => Warmed) /\ [Next]_vars
        => [~Skipped => Run!RunNext]_(Run!runVars) /\ (~Skipped => Warmed)'
  BY RunStep, WarmedStep, SameOptions DEF Skipped
<1>3. QED   BY <1>1, <1>2, Invariance, PTL DEF Spec, RefinesPubRun
=============================================================================
