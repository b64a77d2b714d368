------------------------------- MODULE UmPerf -------------------------------
(***************************************************************************)
(* A test of README.md: publisher, transport and subscriber together.      *)
(*                                                                         *)
(* The publisher is PubRun, which UmPub implements; when it has exited,    *)
(* well or not, the next test starts another one while the subscriber      *)
(* stays.  The subscriber is UmSub.  The transport between them is         *)
(* external: for every source it delivers a beginning of stream, some of   *)
(* the messages in the order in which they were sent, the loss of others,  *)
(* one by one or in bursts, and an end of stream.  It may discover a       *)
(* source late and then never delivers what was sent before.  It reports   *)
(* the end of a crashed or closed source with a delay, so that the next    *)
(* run may have begun, and the messages at the tail may be missing without *)
(* a report of loss.                                                       *)
(* Between two runs what was on its way is delivered or dropped.           *)
(***************************************************************************)
EXTENDS PubRun, UmSub, FiniteSets

CONSTANT MaxRuns   \* bound: publishers started one after the other

\* The tests give the subscriber every topic of the publishers.
ASSUME RunsAssumption ==
  /\ MaxRuns \in Nat \ {0}
  /\ \A p \in Plans : p.srcs \in 1..Topics

VARIABLES
  run,               \* number of the current publisher
  stream,            \* per source of this run: "none", "open" or "ended"
  stale,             \* sources of earlier runs whose end is not reported yet
  pos,               \* per source: messages the transport is done with
  got, lost,         \* per source: messages delivered and reported lost in this run
  burst,             \* per source: messages reported lost as part of a burst
  late,              \* history: a stream of this run began after the warmup
  report_run         \* history: the last run with a stream before the last report

netVars == <<run, stream, stale, pos, got, lost, burst, late, report_run>>
vars == <<runVars, subVars, netVars>>

TopicSet == 0..(Topics - 1)
Fresh == [s \in TopicSet |-> 0]

TypeOK ==
  /\ SubTypeOK
  /\ plan \in Plans
  /\ sent \in [Sources -> Nat]
  /\ run \in 1..MaxRuns
  /\ stream \in [TopicSet -> {"none", "open", "ended"}]
  /\ stale \subseteq TopicSet
  /\ \A s \in TopicSet :
       /\ pos[s] \in 0..(IF s \in Sources THEN sent[s] ELSE 0)
       /\ got[s] + lost[s] + burst[s] \in 0..pos[s]
  /\ late \in BOOLEAN
  /\ report_run \in 0..run

Init ==
  /\ RunInit
  /\ SubInit
  /\ run = 1
  /\ stream = [s \in TopicSet |-> "none"]
  /\ stale = {}
  /\ pos = Fresh
  /\ got = Fresh
  /\ lost = Fresh
  /\ burst = Fresh
  /\ late = FALSE
  /\ report_run = 0

----------------------------------------------------------------------------
Publishes == RunNext /\ UNCHANGED <<subVars, netVars>>

\* The next test, after this publisher's process has gone.
NextRun ==
  /\ stage \in {"closed", "failed"}
  /\ run < MaxRuns
  /\ run' = run + 1
  /\ plan' \in Plans
  /\ stage' = "warmup"
  /\ warm' = 0
  /\ measured' = 0
  /\ turn' = 0
  /\ sent' = [s \in 0..(plan'.srcs - 1) |-> 0]
  /\ stale' = stale \union {s \in TopicSet : stream[s] = "open"}
  /\ stream' = [s \in TopicSet |-> "none"]
  /\ pos' = Fresh
  /\ got' = Fresh
  /\ lost' = Fresh
  /\ burst' = Fresh
  /\ late' = FALSE
  /\ UNCHANGED <<subVars, report_run>>

Creates == CreateReceiver /\ UNCHANGED <<runVars, netVars>>

\* The subscriber ends while it creates its receivers or at a beginning of stream.
SubscriberFails ==
  /\ SubFails
  /\ \/ num_rcvs < Topics
     \/ \E s \in Sources : stream[s] = "none" /\ s < num_rcvs
  /\ UNCHANGED <<runVars, netVars>>

\* The receiver has found the source; the first `missed` messages came before that.
StreamBegins(s) ==
  /\ stream[s] = "none"
  /\ s < num_rcvs
  /\ s \in Sources
  /\ stage \in {"warmup", "measure", "reported"}
  /\ Bos
  /\ stream' = [stream EXCEPT ![s] = "open"]
  /\ \E missed \in 0..sent[s] : pos' = [pos EXCEPT ![s] = missed]
  /\ late' = (late \/ stage # "warmup")
  /\ UNCHANGED <<runVars, run, stale, got, lost, burst, report_run>>

Delivers(s, rx) ==
  /\ stream[s] = "open"
  /\ pos[s] < sent[s]
  /\ Data(rx)
  /\ pos' = [pos EXCEPT ![s] = @ + 1]
  /\ got' = [got EXCEPT ![s] = @ + 1]
  /\ UNCHANGED <<runVars, run, stream, stale, lost, burst, late, report_run>>

Loses(s) ==
  /\ stream[s] = "open"
  /\ pos[s] < sent[s]
  /\ UnrecoverableLoss
  /\ pos' = [pos EXCEPT ![s] = @ + 1]
  /\ lost' = [lost EXCEPT ![s] = @ + 1]
  /\ UNCHANGED <<runVars, run, stream, stale, got, burst, late, report_run>>

\* Part of a gap too long to be reported message by message.
LosesInBurst(s) ==
  /\ stream[s] = "open"
  /\ pos[s] < sent[s]
  /\ OtherEvent
  /\ pos' = [pos EXCEPT ![s] = @ + 1]
  /\ burst' = [burst EXCEPT ![s] = @ + 1]
  /\ UNCHANGED <<runVars, run, stream, stale, got, lost, late, report_run>>

StreamEnds(s) ==
  /\ stream[s] = "open"
  /\ stage \in {"closed", "failed"}
  /\ Eos
  /\ stream' = [stream EXCEPT ![s] = "ended"]
  /\ report_run' = run
  /\ UNCHANGED <<runVars, run, stale, pos, got, lost, burst, late>>

OldStreamEnds(s) ==
  /\ s \in stale
  /\ Eos
  /\ stale' = stale \ {s}
  /\ report_run' = IF \E t \in TopicSet : stream[t] # "none" THEN run ELSE report_run
  /\ UNCHANGED <<runVars, run, stream, pos, got, lost, burst, late>>

Network ==
  \E s \in TopicSet :
    \/ StreamBegins(s)
    \/ \E rx \in BOOLEAN : Delivers(s, rx)
    \/ Loses(s)
    \/ LosesInBurst(s)
    \/ StreamEnds(s)
    \/ OldStreamEnds(s)

\* All tests are over.
Finished == stage = "failed" /\ run = MaxRuns /\ UNCHANGED vars

Next == Publishes \/ NextRun \/ Creates \/ SubscriberFails \/ Network \/ Finished

Spec == Init /\ [][Next]_vars

----------------------------------------------------------------------------
(* Properties.                                                             *)

\* All messages f counts, as the pairs of a source and a number.
Messages(f) == UNION {{s} \X (1..f[s]) : s \in TopicSet}
Total(f) == Cardinality(Messages(f))

SentInRun == plan.warmup + plan.msgs

\* README.md has the tester accept a run when the EOS line shows num_unrec_loss=0 and as
\* many messages as -n and -w together.  That test has no false positive, whatever
\* came before this run, for any number of topics, with sources found late, reports of
\* loss, missing tails and ends of older streams: when a line printed after the first
\* BOS of this run passes it, every message of this run was sent and received.  (Before that BOS
\* the end of an older stream repeats the counters of the older run.)
ReportConclusive ==
  /\ report_run = run
  /\ report.num_rcv_msgs = SentInRun
  /\ report.num_unrec_loss = 0
  => warm + measured = SentInRun /\ \A s \in Sources : got[s] = sent[s]

\* Sent and not handled by the transport: on its way, or missing at the tail for good.
OnTheWay == UNION {{s} \X ((pos[s] + 1)..sent[s]) : s \in Sources}

\* Priming the sources works: if every source was found during the warmup, then every
\* measured message is among those the counters of rcv_callback() show, though they start
\* again at every source, or it is on its way, or it was lost in a way they do not
\* count: in a burst, or at the tail.
MeasuredAccounted ==
  ~late => measured <= num_rcv_msgs + num_unrec_loss + Total(burst) + Cardinality(OnTheWay)

\* With a single source the counters are exact from the beginning of its stream, for
\* every run and however late the stream of the run before has ended.
SingleSourceExact ==
  /\ plan.srcs = 1
  /\ stream[0] # "none"
  => num_rcv_msgs = got[0] /\ num_unrec_loss = lost[0]

\* README.md, Test 6 (three sources, -w 15,5, no -E): "The num_rcv_msgs value should be
\* the sum of the publisher's -n and -w message counts" -- here when every message was
\* received, every source was found in the warmup and every stream has ended.
TotalsReported ==
  /\ stage = "closed"
  /\ report_run = run
  /\ ~late /\ plan.warmup >= plan.srcs /\ ~o_exit_on_eos
  /\ \A s \in Sources : stream[s] = "ended" /\ got[s] = sent[s]
  => report.num_rcv_msgs = SentInRun
=============================================================================
