---------------------------- MODULE UmPerfProofs -----------------------------
(***************************************************************************)
(* Proofs about UmPerf, for any number of topics, any plans and any number *)
(* of runs.  The messages are counted as the cardinalities of two sets:    *)
(* what was sent in this run and what was delivered of it.                 *)
(***************************************************************************)
EXTENDS UmPerf, FiniteSetTheorems, TLAPS

Sent == {x \in Sources \X Nat : x[2] \in 1..sent[x[1]]}
Delivered == {x \in TopicSet \X Nat : x[2] \in 1..got[x[1]]}

----------------------------------------------------------------------------
(* The inductive invariant.                                                *)

Types ==
  /\ plan \in Plans
  /\ stage \in {"warmup", "measure", "reported", "closed", "failed"}
  /\ warm \in 0..plan.warmup /\ measured \in 0..plan.msgs
  /\ turn \in Sources
  /\ sent \in [Sources -> Nat]
  /\ run \in Nat /\ report_run \in 0..run
  /\ stream \in [TopicSet -> {"none", "open", "ended"}]
  /\ pos \in [TopicSet -> Nat] /\ got \in [TopicSet -> Nat] /\ lost \in [TopicSet -> Nat]
  /\ burst \in [TopicSet -> Nat]
  /\ num_rcv_msgs \in Nat /\ num_unrec_loss \in Nat
  /\ report.num_rcv_msgs \in Int

\* What a stream has delivered and lost was sent; without a stream there is nothing.
Streams ==
  \A s \in TopicSet :
    /\ stream[s] # "none" => s \in Sources
    /\ stream[s] = "none" => pos[s] = 0
    /\ got[s] + lost[s] + burst[s] <= pos[s]
    /\ s \in Sources => pos[s] <= sent[s]

\* The sets are finite; what was sent is the messages of the two loops.
Sizes ==
  /\ IsFiniteSet(Sent) /\ Cardinality(Sent) = warm + measured
  /\ IsFiniteSet(Delivered)

\* From the first stream of a run on, the subscriber counts no more than was delivered
\* in it, and neither does a line it has printed since.
Counted ==
  /\ (\E s \in TopicSet : stream[s] # "none") => num_rcv_msgs <= Cardinality(Delivered)
  /\ report_run = run => report.num_rcv_msgs <= Cardinality(Delivered)
  /\ report_run = run => \E s \in TopicSet : stream[s] # "none"

IInv == Types /\ Streams /\ Sizes /\ Counted /\ SingleSourceExact

LEMMA PlanFacts ==
  ASSUME NEW p \in Plans
  PROVE  /\ p.srcs \in Nat \ {0} /\ p.srcs <= Topics /\ p.warmup \in Nat /\ p.msgs \in Nat \ {0}
         /\ Topics \in Nat /\ 0 \in 0..(p.srcs - 1) /\ 0..(p.srcs - 1) \subseteq TopicSet
         /\ 0 \in TopicSet
<1>1. p \in [srcs : Nat, warmup : Nat, msgs : Nat \ {0}]   BY PlansAssumption
<1>2. p.srcs \in 1..Topics /\ p.warmup \in Nat /\ p.msgs \in Nat \ {0}
  BY <1>1, RunsAssumption
<1>3. Topics \in Nat   BY TopicsAssumption
<1>4. p.srcs \in Nat /\ p.srcs >= 1 /\ p.srcs <= Topics   BY <1>2, <1>3
<1>5. QED   BY <1>2, <1>3, <1>4 DEF TopicSet

\* The sets of messages at the beginning of a run.
LEMMA NothingYet ==
  ASSUME NEW S, NEW f, \A s \in S : f[s] = 0
  PROVE  {x \in S \X Nat : x[2] \in 1..f[x[1]]} = {}
<1> SUFFICES ASSUME NEW x \in S \X Nat, x[2] \in 1..f[x[1]] PROVE FALSE   OBVIOUS
<1>1. x[1] \in S   OBVIOUS
<1>2. 1..f[x[1]] = {}   BY <1>1
<1>3. QED   BY <1>2

\* One message more is one element more.
LEMMA OneMore ==
  ASSUME NEW S, NEW f \in [S -> Nat], NEW s \in S, NEW g, g = [f EXCEPT ![s] = f[s] + 1],
         NEW A, A \subseteq S \X Nat, \A x \in S \X Nat : x \in A <=> x[2] \in 1..f[x[1]],
         NEW B, B \subseteq S \X Nat, \A x \in S \X Nat : x \in B <=> x[2] \in 1..g[x[1]],
         IsFiniteSet(A)
  PROVE  g \in [S -> Nat] /\ IsFiniteSet(B) /\ Cardinality(B) = Cardinality(A) + 1
<1>1. \A t \in S : f[t] \in Nat /\ g[t] = IF t = s THEN f[t] + 1 ELSE f[t]   OBVIOUS
<1> DEFINE y == <<s, f[s] + 1>>
<1>2. y \notin A   BY <1>1
<1>3. B = A \union {y}
  <2>1. ASSUME NEW x \in S \X Nat PROVE x \in B <=> x \in A \/ x = y
    <3>1. x = <<x[1], x[2]>> /\ x[1] \in S /\ x[2] \in Nat   OBVIOUS
    <3>2. x \in A <=> x[2] \in 1..f[x[1]]   OBVIOUS
    <3>3. x \in B <=> x[2] \in 1..g[x[1]]   OBVIOUS
    <3>4. x = y <=> x[1] = s /\ x[2] = f[s] + 1   BY <3>1
    <3>5. CASE x[1] = s   BY <1>1, <3>1, <3>2, <3>3, <3>4, <3>5
    <3>6. CASE x[1] # s   BY <1>1, <3>1, <3>2, <3>3, <3>4, <3>6
    <3>7. QED   BY <3>5, <3>6
  <2>2. y \in S \X Nat   BY <1>1
  <2>3. A \subseteq S \X Nat /\ B \subseteq S \X Nat   OBVIOUS
  <2>4. QED   BY <2>1, <2>2, <2>3
<1>4. IsFiniteSet(A \union {y})
      /\ Cardinality(A \union {y}) = IF y \in A THEN Cardinality(A) ELSE Cardinality(A) + 1
  <2> HIDE DEF y
  <2>1. QED   BY FS_AddElement
<1>5. QED   BY <1>1, <1>2, <1>3, <1>4

LEMMA InitInv == Init => IInv
<1> SUFFICES ASSUME Init PROVE IInv   OBVIOUS
<1>1. plan \in Plans   BY DEF Init, RunInit
<1>2. /\ plan.srcs \in Nat \ {0} /\ plan.warmup \in Nat /\ plan.msgs \in Nat /\ 0 \in Sources
      /\ Sources \subseteq TopicSet
  BY <1>1, PlanFacts DEF Sources
<1>3. Types   BY <1>1, <1>2 DEF Init, RunInit, SubInit, NoReport, Types, Fresh
<1>4. Streams   BY <1>2 DEF Init, RunInit, Streams, Fresh
<1>5. Sent = {}   BY NothingYet DEF Init, RunInit, Sent
<1>6. Delivered = {}   BY NothingYet DEF Init, Delivered, Fresh
<1>7. Sizes   BY <1>5, <1>6, FS_EmptySet DEF Init, RunInit, Sizes
<1>8. Counted /\ SingleSourceExact
  <2>1. 0 \in TopicSet   BY <1>2
  <2>2. QED   BY <2>1 DEF Init, Counted, SingleSourceExact
<1>9. QED   BY <1>3, <1>4, <1>7, <1>8 DEF IInv

----------------------------------------------------------------------------
(* The steps.                                                              *)

LEMMA PublishStep == ASSUME IInv, Publishes PROVE IInv'
<1>0. UNCHANGED <<subVars, netVars, plan>> /\ Sources' = Sources
  BY DEF Publishes, RunNext, WarmupSend, MeasuredSend, StartMeasure, ReportRate, CloseSources,
     Fail, Sources
<1>1. /\ plan.srcs \in Nat \ {0} /\ plan.warmup \in Nat /\ plan.msgs \in Nat
      /\ sent \in [Sources -> Nat] /\ turn \in Sources
  BY PlanFacts DEF IInv, Types
<1>2. Delivered' = Delivered   BY <1>0 DEF Delivered, netVars
<1>3. ASSUME NEW t, SendOnTurn,
             \/ warm < plan.warmup /\ warm' = warm + 1 /\ measured' = measured
             \/ measured < plan.msgs /\ measured' = measured + 1 /\ warm' = warm,
             stage' = stage
      PROVE  IInv'
  <2>1. sent' = [sent EXCEPT ![turn] = @ + 1] /\ turn' \in Sources
    <3>1. /\ sent' = [sent EXCEPT ![turn] = @ + 1]
          /\ turn' = IF turn = plan.srcs - 1 THEN 0 ELSE turn + 1
      BY <1>3 DEF SendOnTurn
    <3>2. turn' \in 0..(plan.srcs - 1)
      <4>1. turn \in 0..(plan.srcs - 1)   BY <1>1 DEF Sources
      <4>2. QED   BY <1>1, <3>1, <4>1
    <3>3. QED   BY <3>1, <3>2 DEF Sources
  <2>2. sent' \in [Sources -> Nat] /\ IsFiniteSet(Sent') /\ Cardinality(Sent') = Cardinality(Sent) + 1
    <3>1. /\ Sent \subseteq Sources \X Nat
          /\ \A x \in Sources \X Nat : x \in Sent <=> x[2] \in 1..sent[x[1]]
      BY DEF Sent
    <3>2. /\ Sent' \subseteq Sources \X Nat
          /\ \A x \in Sources \X Nat : x \in Sent' <=> x[2] \in 1..sent'[x[1]]
      BY <1>0 DEF Sent
    <3>3. IsFiniteSet(Sent) /\ sent' = [sent EXCEPT ![turn] = sent[turn] + 1]
      BY <2>1 DEF IInv, Sizes
    <3>4. QED   BY <1>1, <3>1, <3>2, <3>3, OneMore
  <2>3. Types'   BY <1>0, <1>1, <1>3, <2>1, <2>2 DEF IInv, Types, subVars, counters, netVars
  <2>4. \A s \in Sources : sent'[s] >= sent[s] /\ sent[s] \in Nat /\ sent'[s] \in Nat
    BY <1>1, <2>1
  <2>5. Streams'
    <3>1. \A s \in TopicSet : pos[s] \in Nat   BY DEF IInv, Types
    <3>2. QED   BY <1>0, <2>4, <3>1 DEF IInv, Streams, netVars
  <2>6. Sizes'
    <3>1. warm \in Nat /\ measured \in Nat /\ Cardinality(Sent) = warm + measured
      BY <1>1 DEF IInv, Types, Sizes
    <3>2. Cardinality(Sent') = warm' + measured'   BY <1>3, <2>2, <3>1
    <3>3. QED   BY <1>2, <2>2, <3>2 DEF IInv, Sizes
  <2>7. Counted' /\ SingleSourceExact'
    BY <1>0, <1>2 DEF IInv, Counted, SingleSourceExact, subVars, counters, netVars
  <2>8. QED   BY <2>3, <2>5, <2>6, <2>7 DEF IInv
<1>4. ASSUME StartMeasure \/ ReportRate \/ CloseSources \/ Fail PROVE IInv'
  <2>1. /\ UNCHANGED <<plan, warm, measured, turn, sent>>
        /\ stage' \in {"measure", "reported", "closed", "failed"}
    BY <1>4 DEF StartMeasure, ReportRate, CloseSources, Fail
  <2>2. Types'   BY <1>0, <2>1 DEF IInv, Types, subVars, counters, netVars
  <2>3. Streams' /\ Counted' /\ SingleSourceExact'
    BY <1>0, <1>2, <2>1 DEF IInv, Streams, Counted, SingleSourceExact, subVars, counters, netVars
  <2>4. Sent' = Sent   BY <1>0, <2>1 DEF Sent
  <2>5. Sizes'   BY <1>2, <2>1, <2>4 DEF IInv, Sizes
  <2>6. QED   BY <2>2, <2>3, <2>5 DEF IInv
<1>5. QED
  BY <1>3, <1>4 DEF Publishes, RunNext, WarmupSend, MeasuredSend

LEMMA NextRunStep == ASSUME IInv, NextRun PROVE IInv'
<1>1. /\ plan' \in Plans /\ stage' = "warmup" /\ warm' = 0 /\ measured' = 0 /\ turn' = 0
      /\ sent' = [s \in Sources' |-> 0] /\ run' = run + 1
      /\ stream' = [s \in TopicSet |-> "none"] /\ pos' = Fresh /\ got' = Fresh /\ lost' = Fresh
      /\ burst' = Fresh
      /\ UNCHANGED <<subVars, report_run>>
  BY DEF NextRun, Sources
<1>2. /\ plan'.srcs \in Nat \ {0} /\ plan'.warmup \in Nat /\ plan'.msgs \in Nat /\ 0 \in Sources'
      /\ Sources' \subseteq TopicSet
  BY <1>1, PlanFacts DEF Sources
<1>3. Types'
  <2>1. run \in Nat /\ report_run \in 0..run   BY DEF IInv, Types
  <2>2. run' \in Nat /\ report_run' \in 0..run'   BY <1>1, <2>1
  <2>3. QED   BY <1>1, <1>2, <2>2 DEF IInv, Types, Fresh, subVars, counters
<1>4. Streams'   BY <1>1, <1>2 DEF Streams, Fresh
<1>5. Sent' = {}   BY <1>1, NothingYet DEF Sent
<1>6. Delivered' = {}   BY <1>1, NothingYet DEF Delivered, Fresh
<1>7. Sizes'   BY <1>1, <1>5, <1>6, FS_EmptySet DEF Sizes
<1>8. Counted'   BY <1>1 DEF IInv, Types, Counted
<1>9. SingleSourceExact'
  <2>1. 0 \in TopicSet   BY <1>2
  <2>2. QED   BY <1>1, <2>1 DEF SingleSourceExact
<1>10. QED   BY <1>3, <1>4, <1>7, <1>8, <1>9 DEF IInv

LEMMA OnlySource ==
  ASSUME IInv, plan.srcs = 1, NEW s \in Sources
  PROVE  s = 0
BY DEF Sources

LEMMA BeginStep == ASSUME IInv, NEW s \in TopicSet, StreamBegins(s) PROVE IInv'
<1>1. /\ stream[s] = "none" /\ s \in Sources /\ UNCHANGED <<runVars, run, got, lost, burst, report_run>>
      /\ stream' = [stream EXCEPT ![s] = "open"]
      /\ num_rcv_msgs' = 0 /\ num_unrec_loss' = 0 /\ report' = report
  BY DEF StreamBegins, Bos
<1>2. PICK missed \in 0..sent[s] : pos' = [pos EXCEPT ![s] = missed]   BY DEF StreamBegins
<1>3. Sent' = Sent /\ Delivered' = Delivered /\ Sources' = Sources
  BY <1>1 DEF Sent, Delivered, Sources, runVars
<1>4. sent[s] \in Nat /\ missed \in Nat   BY <1>1, <1>2 DEF IInv, Types
<1>5. Types'   BY <1>1, <1>2, <1>3, <1>4 DEF IInv, Types, runVars
<1>6. got[s] = 0 /\ lost[s] = 0 /\ burst[s] = 0
  <2>1. /\ got[s] + lost[s] + burst[s] <= 0
        /\ got[s] \in Nat /\ lost[s] \in Nat /\ burst[s] \in Nat
    BY <1>1 DEF IInv, Types, Streams
  <2>2. QED   BY <2>1
<1>7. Streams'
  <2> SUFFICES ASSUME NEW t \in TopicSet
               PROVE  /\ stream'[t] # "none" => t \in Sources
                      /\ stream'[t] = "none" => pos'[t] = 0
                      /\ got[t] + lost[t] + burst[t] <= pos'[t]
                      /\ t \in Sources => pos'[t] <= sent[t]
    BY <1>1, <1>3 DEF Streams, runVars
  <2>1. CASE t = s   BY <1>1, <1>2, <1>4, <1>6, <2>1 DEF IInv, Types
  <2>2. CASE t # s   BY <1>1, <1>2, <2>2 DEF IInv, Types, Streams
  <2>3. QED   BY <2>1, <2>2
<1>8. Sizes'   BY <1>1, <1>3 DEF IInv, Sizes, runVars
<1>9. Counted'
  <2>1. Cardinality(Delivered) \in Nat   BY FS_CardinalityType DEF IInv, Sizes
  <2>2. QED   BY <1>1, <1>3, <2>1 DEF IInv, Counted
<1>10. SingleSourceExact'
  BY <1>1, <1>6, OnlySource DEF SingleSourceExact, runVars
<1>11. QED   BY <1>5, <1>7, <1>8, <1>9, <1>10 DEF IInv

\* A message more of one stream is one more delivered.
LEMMA DeliverOne ==
  ASSUME IInv, NEW s \in TopicSet, got' = [got EXCEPT ![s] = @ + 1]
  PROVE  /\ got' \in [TopicSet -> Nat] /\ IsFiniteSet(Delivered')
         /\ Cardinality(Delivered') = Cardinality(Delivered) + 1
<1>1. /\ Delivered \subseteq TopicSet \X Nat
      /\ \A x \in TopicSet \X Nat : x \in Delivered <=> x[2] \in 1..got[x[1]]
  BY DEF Delivered
<1>2. /\ Delivered' \subseteq TopicSet \X Nat
      /\ \A x \in TopicSet \X Nat : x \in Delivered' <=> x[2] \in 1..got'[x[1]]
  BY DEF Delivered
<1>3. /\ got \in [TopicSet -> Nat] /\ got' = [got EXCEPT ![s] = got[s] + 1]
      /\ IsFiniteSet(Delivered)
  BY DEF IInv, Types, Sizes
<1>4. QED   BY <1>1, <1>2, <1>3, OneMore

LEMMA DeliverStep ==
  ASSUME IInv, NEW s \in TopicSet, NEW rx \in BOOLEAN, Delivers(s, rx) PROVE IInv'
<1>1. /\ stream[s] = "open" /\ pos[s] < sent[s]
      /\ UNCHANGED <<runVars, run, stream, lost, burst, report_run, report, num_unrec_loss>>
      /\ num_rcv_msgs' = num_rcv_msgs + 1
      /\ pos' = [pos EXCEPT ![s] = @ + 1] /\ got' = [got EXCEPT ![s] = @ + 1]
  BY DEF Delivers, Data
<1>2. Sent' = Sent /\ Sources' = Sources   BY <1>1 DEF Sent, Sources, runVars
<1>3. /\ s \in Sources /\ sent[s] \in Nat
      /\ pos \in [TopicSet -> Nat] /\ got \in [TopicSet -> Nat] /\ lost \in [TopicSet -> Nat]
      /\ burst \in [TopicSet -> Nat]
  BY <1>1 DEF IInv, Types, Streams
<1>4. /\ got' \in [TopicSet -> Nat] /\ IsFiniteSet(Delivered')
      /\ Cardinality(Delivered') = Cardinality(Delivered) + 1
  BY <1>1, DeliverOne
<1>5. Types'   BY <1>1, <1>2, <1>3, <1>4 DEF IInv, Types, runVars
<1>6. Streams'
  <2> SUFFICES ASSUME NEW t \in TopicSet
               PROVE  /\ stream[t] # "none" => t \in Sources
                      /\ stream[t] = "none" => pos'[t] = 0
                      /\ got'[t] + lost[t] + burst[t] <= pos'[t]
                      /\ t \in Sources => pos'[t] <= sent[t]
    BY <1>1, <1>2 DEF Streams, runVars
  <2>0. /\ stream[t] # "none" => t \in Sources
        /\ stream[t] = "none" => pos[t] = 0
        /\ got[t] + lost[t] + burst[t] <= pos[t]
        /\ t \in Sources => pos[t] <= sent[t]
    BY DEF IInv, Streams
  <2>1. CASE t = s   BY <1>1, <1>3, <2>0, <2>1
  <2>2. CASE t # s   BY <1>1, <1>3, <2>0, <2>2
  <2>3. QED   BY <2>1, <2>2
<1>7. Sizes'   BY <1>1, <1>2, <1>4 DEF IInv, Sizes, runVars
<1>8. Counted'
  <2>1. Cardinality(Delivered) \in Nat /\ num_rcv_msgs \in Nat /\ report.num_rcv_msgs \in Int
    BY FS_CardinalityType DEF IInv, Types, Sizes
  <2>2. num_rcv_msgs <= Cardinality(Delivered)   BY <1>1 DEF IInv, Counted
  <2>3. num_rcv_msgs' <= Cardinality(Delivered')   BY <1>1, <1>4, <2>1, <2>2
  <2>4. report_run = run => report.num_rcv_msgs <= Cardinality(Delivered')
    BY <1>4, <2>1 DEF IInv, Counted
  <2>5. QED   BY <1>1, <2>3, <2>4 DEF Counted
<1>9. SingleSourceExact'
  BY <1>1, <1>3, OnlySource DEF IInv, SingleSourceExact, runVars
<1>10. QED   BY <1>5, <1>6, <1>7, <1>8, <1>9 DEF IInv

LEMMA LoseStep == ASSUME IInv, NEW s \in TopicSet, Loses(s) PROVE IInv'
<1>1. /\ stream[s] = "open" /\ pos[s] < sent[s]
      /\ UNCHANGED <<runVars, run, stream, got, burst, report_run, report, num_rcv_msgs>>
      /\ num_unrec_loss' = num_unrec_loss + 1
      /\ pos' = [pos EXCEPT ![s] = @ + 1] /\ lost' = [lost EXCEPT ![s] = @ + 1]
  BY DEF Loses, UnrecoverableLoss
<1>2. Sent' = Sent /\ Delivered' = Delivered /\ Sources' = Sources
  BY <1>1 DEF Sent, Delivered, Sources, runVars
<1>3. /\ s \in Sources /\ sent[s] \in Nat
      /\ pos \in [TopicSet -> Nat] /\ got \in [TopicSet -> Nat] /\ lost \in [TopicSet -> Nat]
      /\ burst \in [TopicSet -> Nat]
  BY <1>1 DEF IInv, Types, Streams
<1>5. Types'   BY <1>1, <1>2, <1>3 DEF IInv, Types, runVars
<1>6. Streams'
  <2> SUFFICES ASSUME NEW t \in TopicSet
               PROVE  /\ stream[t] # "none" => t \in Sources
                      /\ stream[t] = "none" => pos'[t] = 0
                      /\ got[t] + lost'[t] + burst[t] <= pos'[t]
                      /\ t \in Sources => pos'[t] <= sent[t]
    BY <1>1, <1>2 DEF Streams, runVars
  <2>0. /\ stream[t] # "none" => t \in Sources
        /\ stream[t] = "none" => pos[t] = 0
        /\ got[t] + lost[t] + burst[t] <= pos[t]
        /\ t \in Sources => pos[t] <= sent[t]
    BY DEF IInv, Streams
  <2>1. CASE t = s   BY <1>1, <1>3, <2>0, <2>1
  <2>2. CASE t # s   BY <1>1, <1>3, <2>0, <2>2
  <2>3. QED   BY <2>1, <2>2
<1>7. Sizes' /\ Counted'   BY <1>1, <1>2 DEF IInv, Sizes, Counted, runVars
<1>9. SingleSourceExact'
  BY <1>1, <1>3, OnlySource DEF IInv, SingleSourceExact, runVars
<1>10. QED   BY <1>5, <1>6, <1>7, <1>9 DEF IInv

LEMMA BurstStep == ASSUME IInv, NEW s \in TopicSet, LosesInBurst(s) PROVE IInv'
<1>1. /\ stream[s] = "open" /\ pos[s] < sent[s]
      /\ UNCHANGED <<runVars, run, stream, got, lost, report_run, report, num_rcv_msgs>>
      /\ num_unrec_loss' = num_unrec_loss
      /\ pos' = [pos EXCEPT ![s] = @ + 1] /\ burst' = [burst EXCEPT ![s] = @ + 1]
  BY DEF LosesInBurst, OtherEvent, subVars, counters
<1>2. Sent' = Sent /\ Delivered' = Delivered /\ Sources' = Sources
  BY <1>1 DEF Sent, Delivered, Sources, runVars
<1>3. /\ s \in Sources /\ sent[s] \in Nat
      /\ pos \in [TopicSet -> Nat] /\ got \in [TopicSet -> Nat] /\ lost \in [TopicSet -> Nat]
      /\ burst \in [TopicSet -> Nat]
  BY <1>1 DEF IInv, Types, Streams
<1>5. Types'   BY <1>1, <1>2, <1>3 DEF IInv, Types, runVars
<1>6. Streams'
  <2> SUFFICES ASSUME NEW t \in TopicSet
               PROVE  /\ stream[t] # "none" => t \in Sources
                      /\ stream[t] = "none" => pos'[t] = 0
                      /\ got[t] + lost[t] + burst'[t] <= pos'[t]
                      /\ t \in Sources => pos'[t] <= sent[t]
    BY <1>1, <1>2 DEF Streams, runVars
  <2>0. /\ stream[t] # "none" => t \in Sources
        /\ stream[t] = "none" => pos[t] = 0
        /\ got[t] + lost[t] + burst[t] <= pos[t]
        /\ t \in Sources => pos[t] <= sent[t]
    BY DEF IInv, Streams
  <2>1. CASE t = s   BY <1>1, <1>3, <2>0, <2>1
  <2>2. CASE t # s   BY <1>1, <1>3, <2>0, <2>2
  <2>3. QED   BY <2>1, <2>2
<1>7. Sizes' /\ Counted'   BY <1>1, <1>2 DEF IInv, Sizes, Counted, runVars
<1>9. SingleSourceExact'
  BY <1>1, <1>3, OnlySource DEF IInv, SingleSourceExact, runVars
<1>10. QED   BY <1>5, <1>6, <1>7, <1>9 DEF IInv

\* An end of stream prints what is counted; before the first stream of this run it is the
\* end of an older one, and then the line does not count as one of this run.
LEMMA EndStep ==
  ASSUME IInv, NEW s \in TopicSet, StreamEnds(s) \/ OldStreamEnds(s) PROVE IInv'
<1>1. /\ UNCHANGED <<runVars, run, pos, got, lost, burst, num_rcv_msgs, num_unrec_loss>>
      /\ report'.num_rcv_msgs = num_rcv_msgs
      /\ stream' \in [TopicSet -> {"none", "open", "ended"}]
      /\ \A t \in TopicSet : stream'[t] = "none" <=> stream[t] = "none"
      /\ \/ report_run' = run /\ \E t \in TopicSet : stream[t] # "none"
         \/ report_run' = report_run /\ ~\E t \in TopicSet : stream[t] # "none"
  <2>1. CASE StreamEnds(s)   BY <2>1 DEF StreamEnds, Eos, counters, IInv, Types
  <2>2. CASE OldStreamEnds(s)   BY <2>2 DEF OldStreamEnds, Eos, counters, IInv, Types
  <2>3. QED   BY <2>1, <2>2
<1>2. Sent' = Sent /\ Delivered' = Delivered /\ Sources' = Sources
  BY <1>1 DEF Sent, Delivered, Sources, runVars
<1>3. Types'   BY <1>1, <1>2 DEF IInv, Types, runVars
<1>4. Streams'   BY <1>1, <1>2 DEF IInv, Streams, runVars
<1>5. Sizes'   BY <1>1, <1>2 DEF IInv, Sizes, runVars
<1>6. Counted'
  <2>1. CASE \E t \in TopicSet : stream[t] # "none"   BY <1>1, <1>2, <2>1 DEF IInv, Counted
  <2>2. CASE ~\E t \in TopicSet : stream[t] # "none"
    BY <1>1, <1>2, <2>2 DEF IInv, Counted
  <2>3. QED   BY <2>1, <2>2
<1>7. SingleSourceExact'
  <2>1. 0 \in TopicSet   BY PlanFacts DEF IInv, Types
  <2>2. QED   BY <1>1, <2>1 DEF IInv, SingleSourceExact, runVars
<1>8. QED   BY <1>3, <1>4, <1>5, <1>6, <1>7 DEF IInv

LEMMA QuietStep ==
  ASSUME IInv, UNCHANGED <<runVars, netVars, num_rcv_msgs, num_unrec_loss, report>> PROVE IInv'
<1>1. Sent' = Sent /\ Delivered' = Delivered /\ Sources' = Sources
  BY DEF Sent, Delivered, Sources, runVars, netVars
<1>2. Types' /\ Streams'   BY <1>1 DEF IInv, Types, Streams, runVars, netVars
<1>3. Sizes' /\ Counted' /\ SingleSourceExact'
  BY <1>1 DEF IInv, Sizes, Counted, SingleSourceExact, runVars, netVars
<1>4. QED   BY <1>2, <1>3 DEF IInv

LEMMA Invariance == Spec => []IInv
<1>1. IInv /\ [Next]_vars => IInv'
  <2> SUFFICES ASSUME IInv, [Next]_vars PROVE IInv'   OBVIOUS
  <2>1. CASE Creates \/ SubscriberFails \/ Finished \/ UNCHANGED vars
    BY <2>1, QuietStep
    DEF Creates, CreateReceiver, SubscriberFails, SubFails, Finished, vars, subVars, counters
  <2>2. CASE Network   BY <2>2, BeginStep, DeliverStep, LoseStep, BurstStep, EndStep DEF Network
  <2>3. QED   BY <2>1, <2>2, PublishStep, NextRunStep DEF Next
<1>2. QED   BY <1>1, InitInv, PTL DEF Spec

----------------------------------------------------------------------------
(* What was measured is counted, on its way or lost without being counted. *)

Passed == {x \in TopicSet \X Nat : x[2] \in 1..pos[x[1]]}
Bursts == {x \in TopicSet \X Nat : x[2] \in 1..burst[x[1]]}

\* What the transport is done with is in the counters, was lost in a burst, or is among the
\* messages of the warmup.
Accounted ==
  /\ IsFiniteSet(Passed) /\ IsFiniteSet(Bursts)
  /\ stage = "warmup" => measured = 0
  /\ ~late => Cardinality(Passed) <= warm + num_rcv_msgs + num_unrec_loss + Cardinality(Bursts)

\* The transport is done with nothing that was not sent.
NoneUnsent == Passed \subseteq Sent

LEMMA PassedIsSent == IInv => NoneUnsent
<1> SUFFICES ASSUME IInv, NEW x \in TopicSet \X Nat, x[2] \in 1..pos[x[1]] PROVE x \in Sent
  BY DEF Passed, NoneUnsent
<1>1. x = <<x[1], x[2]>> /\ x[1] \in TopicSet /\ x[2] \in Nat   OBVIOUS
<1>2. /\ pos[x[1]] \in Nat /\ got[x[1]] \in Nat /\ lost[x[1]] \in Nat /\ burst[x[1]] \in Nat
      /\ sent \in [Sources -> Nat]
  BY <1>1 DEF IInv, Types
<1>3. /\ stream[x[1]] # "none" => x[1] \in Sources
      /\ stream[x[1]] = "none" => pos[x[1]] = 0
      /\ x[1] \in Sources => pos[x[1]] <= sent[x[1]]
  BY <1>1 DEF IInv, Streams
<1>4. x[1] \in Sources   BY <1>1, <1>2, <1>3
<1>5. x[2] \in 1..sent[x[1]]   BY <1>1, <1>2, <1>3, <1>4
<1>6. QED   BY <1>1, <1>4, <1>5 DEF Sent

LEMMA PassedIsSentNext == IInv' => NoneUnsent'
BY PassedIsSent, PTL

LEMMA NothingPassed ==
  ASSUME \A s \in TopicSet : pos[s] = 0 /\ burst[s] = 0
  PROVE  Passed = {} /\ Bursts = {}
BY NothingYet DEF Passed, Bursts

LEMMA AInit == Init => Accounted
<1> SUFFICES ASSUME Init PROVE Accounted   OBVIOUS
<1>1. /\ pos = Fresh /\ burst = Fresh /\ num_rcv_msgs = 0 /\ num_unrec_loss = 0
      /\ warm = 0 /\ measured = 0
  BY DEF Init, RunInit, SubInit
<1>2. Passed = {} /\ Bursts = {}   BY <1>1, NothingPassed DEF Fresh
<1>3. QED   BY <1>1, <1>2, FS_EmptySet DEF Accounted

\* What a message more of one stream does to the set of them.
LEMMA PassOne ==
  ASSUME IInv, Accounted, NEW s \in TopicSet, pos' = [pos EXCEPT ![s] = @ + 1]
  PROVE  IsFiniteSet(Passed') /\ Cardinality(Passed') = Cardinality(Passed) + 1
<1>1. /\ Passed \subseteq TopicSet \X Nat
      /\ \A x \in TopicSet \X Nat : x \in Passed <=> x[2] \in 1..pos[x[1]]
  BY DEF Passed
<1>2. /\ Passed' \subseteq TopicSet \X Nat
      /\ \A x \in TopicSet \X Nat : x \in Passed' <=> x[2] \in 1..pos'[x[1]]
  BY DEF Passed
<1>3. pos \in [TopicSet -> Nat] /\ pos' = [pos EXCEPT ![s] = pos[s] + 1] /\ IsFiniteSet(Passed)
  BY DEF IInv, Types, Accounted
<1>4. QED   BY <1>1, <1>2, <1>3, OneMore

LEMMA BurstOne ==
  ASSUME IInv, Accounted, NEW s \in TopicSet, burst' = [burst EXCEPT ![s] = @ + 1]
  PROVE  IsFiniteSet(Bursts') /\ Cardinality(Bursts') = Cardinality(Bursts) + 1
<1>1. /\ Bursts \subseteq TopicSet \X Nat
      /\ \A x \in TopicSet \X Nat : x \in Bursts <=> x[2] \in 1..burst[x[1]]
  BY DEF Bursts
<1>2. /\ Bursts' \subseteq TopicSet \X Nat
      /\ \A x \in TopicSet \X Nat : x \in Bursts' <=> x[2] \in 1..burst'[x[1]]
  BY DEF Bursts
<1>3. /\ burst \in [TopicSet -> Nat] /\ burst' = [burst EXCEPT ![s] = burst[s] + 1]
      /\ IsFiniteSet(Bursts)
  BY DEF IInv, Types, Accounted
<1>4. QED   BY <1>1, <1>2, <1>3, OneMore

LEMMA AStep ==
  ASSUME IInv, Accounted, IInv', [Next]_vars
  PROVE  Accounted'
<1>0. /\ warm \in Nat /\ measured \in Nat /\ num_rcv_msgs \in Nat /\ num_unrec_loss \in Nat
      /\ Cardinality(Passed) \in Nat /\ Cardinality(Bursts) \in Nat
  <2>1. /\ plan \in Plans /\ warm \in 0..plan.warmup /\ measured \in 0..plan.msgs
        /\ num_rcv_msgs \in Nat /\ num_unrec_loss \in Nat
    BY DEF IInv, Types
  <2>2. plan.warmup \in Nat /\ plan.msgs \in Nat   BY <2>1, PlanFacts
  <2>3. QED   BY <2>1, <2>2, FS_CardinalityType DEF Accounted
<1>1. CASE Publishes
  <2>1. UNCHANGED <<pos, burst, late, num_rcv_msgs, num_unrec_loss>>
    BY <1>1 DEF Publishes, subVars, counters, netVars
  <2>2. /\ warm' \in {warm, warm + 1}
        /\ stage' = "warmup" => stage = "warmup" /\ measured' = measured
    BY <1>1 DEF Publishes, RunNext, WarmupSend, MeasuredSend, StartMeasure, ReportRate,
       CloseSources, Fail
  <2>3. Passed' = Passed /\ Bursts' = Bursts   BY <2>1 DEF Passed, Bursts
  <2>4. QED   BY <1>0, <2>1, <2>2, <2>3 DEF Accounted
<1>2. CASE NextRun
  <2>1. /\ pos' = Fresh /\ burst' = Fresh /\ warm' = 0 /\ measured' = 0
        /\ UNCHANGED <<num_rcv_msgs, num_unrec_loss>>
    BY <1>2 DEF NextRun, subVars, counters
  <2>2. \A s \in TopicSet : pos'[s] = 0 /\ burst'[s] = 0   BY <2>1 DEF Fresh
  <2>3. Passed' = {} /\ Bursts' = {}   BY <2>2, NothingYet DEF Passed, Bursts
  <2>4. QED   BY <1>0, <2>1, <2>3, FS_EmptySet DEF Accounted
<1>3. ASSUME NEW s \in TopicSet, StreamBegins(s) PROVE Accounted'
  <2>1. /\ UNCHANGED <<burst, runVars>>
        /\ num_rcv_msgs' = 0 /\ num_unrec_loss' = 0
        /\ late' = (late \/ stage # "warmup")
    BY <1>3 DEF StreamBegins, Bos
  <2>2. UNCHANGED <<Sent, stage, warm, measured>>   BY <2>1 DEF runVars, Sent, Sources
  <2>3. /\ Passed' \subseteq Sent' /\ IsFiniteSet(Sent') /\ Cardinality(Sent') = warm' + measured'
    <3>1. Passed' \subseteq Sent'   BY PassedIsSentNext DEF NoneUnsent
    <3>2. QED   BY <3>1 DEF IInv, Sizes
  <2>4. /\ IsFiniteSet(Passed') /\ Cardinality(Passed') \in Nat
        /\ Cardinality(Passed') <= warm + measured
    BY <2>2, <2>3, FS_Subset, FS_CardinalityType
  <2>5. Bursts' = Bursts   BY <2>1 DEF Bursts
  <2>6. ~late' => measured = 0   BY <2>1 DEF Accounted
  <2>7. QED   BY <1>0, <2>1, <2>2, <2>4, <2>5, <2>6 DEF Accounted
<1>4. ASSUME NEW s \in TopicSet, (\E rx \in BOOLEAN : Delivers(s, rx)) \/ Loses(s)
      PROVE  Accounted'
  <2>1. /\ UNCHANGED <<stage, warm, measured, late, burst>> /\ pos' = [pos EXCEPT ![s] = @ + 1]
        /\ \/ num_rcv_msgs' = num_rcv_msgs + 1 /\ num_unrec_loss' = num_unrec_loss
           \/ num_rcv_msgs' = num_rcv_msgs /\ num_unrec_loss' = num_unrec_loss + 1
    BY <1>4 DEF Delivers, Data, Loses, UnrecoverableLoss, runVars
  <2>2. Bursts' = Bursts   BY <2>1 DEF Bursts
  <2>3. IsFiniteSet(Passed') /\ Cardinality(Passed') = Cardinality(Passed) + 1   BY <2>1, PassOne
  <2>4. QED   BY <1>0, <2>1, <2>2, <2>3 DEF Accounted
<1>5. ASSUME NEW s \in TopicSet, LosesInBurst(s) PROVE Accounted'
  <2>1. /\ UNCHANGED <<stage, warm, measured, late, num_rcv_msgs, num_unrec_loss>>
        /\ pos' = [pos EXCEPT ![s] = @ + 1] /\ burst' = [burst EXCEPT ![s] = @ + 1]
    BY <1>5 DEF LosesInBurst, OtherEvent, runVars, subVars, counters
  <2>2. IsFiniteSet(Passed') /\ Cardinality(Passed') = Cardinality(Passed) + 1   BY <2>1, PassOne
  <2>3. IsFiniteSet(Bursts') /\ Cardinality(Bursts') = Cardinality(Bursts) + 1   BY <2>1, BurstOne
  <2>4. QED   BY <1>0, <2>1, <2>2, <2>3 DEF Accounted
<1>6. CASE \/ \E s \in TopicSet : StreamEnds(s) \/ OldStreamEnds(s)
           \/ Creates \/ SubscriberFails \/ Finished \/ UNCHANGED vars
  <2>1. UNCHANGED <<runVars, pos, burst, late, num_rcv_msgs, num_unrec_loss>>
    BY <1>6 DEF StreamEnds, OldStreamEnds, Eos, counters, Creates, CreateReceiver,
       SubscriberFails, SubFails, Finished, vars, subVars, netVars
  <2>2. Passed' = Passed /\ Bursts' = Bursts   BY <2>1 DEF Passed, Bursts
  <2>3. QED   BY <2>1, <2>2 DEF Accounted, runVars
<1>7. QED   BY <1>1, <1>2, <1>3, <1>4, <1>5, <1>6 DEF Next, Network

----------------------------------------------------------------------------
(* The theorems.                                                           *)

\* The counters of rcv_callback() are exact for a single source, in every run.
THEOREM ExactForOneSource == Spec => []SingleSourceExact
BY Invariance, PTL DEF IInv

\* The tester's check of the EOS line accepts no run in which a message is missing:
\* nobody counts more than was delivered, nothing is delivered that was not sent, and
\* a subset that is as large as the whole is the whole.
THEOREM TestIsConclusive == Spec => []ReportConclusive
<1>1. ASSUME IInv PROVE ReportConclusive
  <2> SUFFICES ASSUME report_run = run, report.num_rcv_msgs = SentInRun
               PROVE  warm + measured = SentInRun /\ \A s \in Sources : got[s] = sent[s]
    BY DEF ReportConclusive
  <2>1. /\ plan \in Plans /\ warm \in 0..plan.warmup /\ measured \in 0..plan.msgs
        /\ sent \in [Sources -> Nat] /\ got \in [TopicSet -> Nat] /\ lost \in [TopicSet -> Nat]
        /\ burst \in [TopicSet -> Nat] /\ pos \in [TopicSet -> Nat]
    BY <1>1 DEF IInv, Types
  <2>2. plan.warmup \in Nat /\ plan.msgs \in Nat /\ Sources \subseteq TopicSet
    BY <2>1, PlanFacts DEF Sources
  <2>3. \A s \in Sources : got[s] <= sent[s] /\ got[s] \in Nat /\ sent[s] \in Nat
    <3> TAKE s \in Sources
    <3>1. /\ s \in TopicSet /\ got[s] \in Nat /\ lost[s] \in Nat /\ burst[s] \in Nat
          /\ pos[s] \in Nat /\ sent[s] \in Nat
      BY <2>1, <2>2
    <3>2. got[s] + lost[s] + burst[s] <= pos[s] /\ pos[s] <= sent[s]   BY <1>1, <3>1 DEF IInv, Streams
    <3>3. QED   BY <3>1, <3>2
  <2>4. \A s \in TopicSet : s \notin Sources => got[s] = 0
    <3> TAKE s \in TopicSet
    <3>1. got[s] \in Nat /\ lost[s] \in Nat /\ burst[s] \in Nat   BY <2>1
    <3>2. s \notin Sources => got[s] + lost[s] + burst[s] <= 0   BY <1>1 DEF IInv, Streams
    <3>3. QED   BY <3>1, <3>2
  <2>5. Delivered \subseteq Sent
    <3> SUFFICES ASSUME NEW x \in TopicSet \X Nat, x[2] \in 1..got[x[1]] PROVE x \in Sent
      BY DEF Delivered
    <3>1. x = <<x[1], x[2]>> /\ x[1] \in TopicSet /\ x[2] \in Nat   OBVIOUS
    <3>2. x[1] \in Sources   BY <2>4, <3>1
    <3>3. x[2] \in 1..sent[x[1]]   BY <2>3, <3>2
    <3>4. QED   BY <3>1, <3>2, <3>3 DEF Sent
  <2>6. /\ IsFiniteSet(Sent) /\ Cardinality(Sent) = warm + measured
        /\ IsFiniteSet(Delivered) /\ SentInRun <= Cardinality(Delivered)
    BY <1>1 DEF IInv, Sizes, Counted
  <2>7. /\ Cardinality(Delivered) \in Nat /\ Cardinality(Delivered) <= Cardinality(Sent)
        /\ Cardinality(Sent) = Cardinality(Delivered) => Sent = Delivered
    BY <2>5, <2>6, FS_CardinalityType, FS_Subset
  <2>8. warm + measured = SentInRun /\ Cardinality(Sent) = Cardinality(Delivered)
    BY <2>1, <2>2, <2>6, <2>7 DEF SentInRun
  <2>9. ASSUME NEW s \in Sources, got[s] < sent[s] PROVE FALSE
    <3>1. <<s, sent[s]>> \in Sent   BY <2>3, <2>9 DEF Sent
    <3>2. <<s, sent[s]>> \notin Delivered   BY <2>3, <2>9 DEF Delivered
    <3>3. QED   BY <2>7, <2>8, <3>1, <3>2
  <2>10. QED   BY <2>3, <2>8, <2>9
<1>2. QED   BY <1>1, Invariance, PTL

\* The pairs of Messages, as the sets above.
LEMMA MessagesOf ==
  ASSUME NEW f \in [TopicSet -> Nat]
  PROVE  Messages(f) = {x \in TopicSet \X Nat : x[2] \in 1..f[x[1]]}
<1> DEFINE A == {x \in TopicSet \X Nat : x[2] \in 1..f[x[1]]}
<1>1. ASSUME NEW x \in Messages(f) PROVE x \in A
  <2>1. PICK s \in TopicSet : x \in {s} \X (1..f[s])   BY DEF Messages
  <2>2. f[s] \in Nat   OBVIOUS
  <2>3. QED   BY <2>1, <2>2
<1>2. ASSUME NEW x \in A PROVE x \in Messages(f)
  <2>1. x = <<x[1], x[2]>> /\ x[1] \in TopicSet /\ x[2] \in 1..f[x[1]]   OBVIOUS
  <2>2. x \in {x[1]} \X (1..f[x[1]])   BY <2>1
  <2>3. QED   BY <2>1, <2>2 DEF Messages
<1>3. QED   BY <1>1, <1>2

\* What was sent is handled or on its way.
LEMMA SentIsPassedOrOnTheWay ==
  ASSUME IInv
  PROVE  Sent = Passed \union OnTheWay /\ Passed \intersect OnTheWay = {}
<1>1. /\ sent \in [Sources -> Nat] /\ pos \in [TopicSet -> Nat] /\ Sources \subseteq TopicSet
  BY PlanFacts DEF IInv, Types, Sources
<1>2. \A s \in Sources : pos[s] \in Nat /\ sent[s] \in Nat /\ pos[s] <= sent[s]
  BY <1>1 DEF IInv, Streams
<1>3. ASSUME NEW x \in OnTheWay
      PROVE  /\ x[1] \in Sources /\ x[2] \in (pos[x[1]] + 1)..sent[x[1]] /\ x = <<x[1], x[2]>>
  <2>1. PICK s \in Sources : x \in {s} \X ((pos[s] + 1)..sent[s])   BY DEF OnTheWay
  <2>2. QED   BY <2>1
<1>4. ASSUME NEW x \in OnTheWay PROVE x \in Sent /\ x \notin Passed
  <2>1. x[1] \in Sources /\ x[2] \in (pos[x[1]] + 1)..sent[x[1]] /\ x = <<x[1], x[2]>>
    BY <1>3
  <2>2. x[2] \in 1..sent[x[1]] /\ x[2] \in Nat /\ x[2] \notin 1..pos[x[1]]   BY <1>2, <2>1
  <2>3. QED   BY <2>1, <2>2 DEF Sent, Passed
<1>5. ASSUME NEW x \in Sent, x \notin Passed PROVE x \in OnTheWay
  <2>1. x = <<x[1], x[2]>> /\ x[1] \in Sources /\ x[2] \in Nat /\ x[2] \in 1..sent[x[1]]
    BY DEF Sent
  <2>2. x \in TopicSet \X Nat   BY <1>1, <2>1
  <2>3. x[2] \notin 1..pos[x[1]]   BY <1>5, <2>2 DEF Passed
  <2>4. x[2] \in (pos[x[1]] + 1)..sent[x[1]]   BY <1>2, <2>1, <2>3
  <2>5. x \in {x[1]} \X ((pos[x[1]] + 1)..sent[x[1]])   BY <2>1, <2>4
  <2>6. QED   BY <2>1, <2>5 DEF OnTheWay
<1>6. QED   BY <1>4, <1>5, PassedIsSent DEF NoneUnsent

\* If every source was found in the warmup, every measured message is shown by the counters, is
\* on its way, or is lost in a burst or at the tail: the counters, which start again at every
\* beginning of a stream, then start again only while nothing has been measured, and no more
\* was handled by then than the warmup has sent.
THEOREM PrimingWorks == Spec => []MeasuredAccounted
<1>1. ASSUME IInv, Accounted, ~late
      PROVE  measured <= num_rcv_msgs + num_unrec_loss + Total(burst) + Cardinality(OnTheWay)
  <2>1. /\ IsFiniteSet(Sent) /\ Cardinality(Sent) = warm + measured
        /\ IsFiniteSet(Passed) /\ IsFiniteSet(Bursts)
        /\ Cardinality(Passed) <= warm + num_rcv_msgs + num_unrec_loss + Cardinality(Bursts)
    BY <1>1 DEF IInv, Sizes, Accounted
  <2>2. OnTheWay \subseteq Sent /\ Sent = Passed \union OnTheWay /\ Passed \intersect OnTheWay = {}
    BY <1>1, SentIsPassedOrOnTheWay
  <2>3. IsFiniteSet(OnTheWay)   BY <2>1, <2>2, FS_Subset
  <2>4. Cardinality(Sent) = Cardinality(Passed) + Cardinality(OnTheWay)
    <3>1. Cardinality(Passed \union OnTheWay)
            = Cardinality(Passed) + Cardinality(OnTheWay) - Cardinality(Passed \intersect OnTheWay)
      BY <2>1, <2>3, FS_Union
    <3>2. Cardinality(Passed \intersect OnTheWay) = 0   BY <2>2, FS_EmptySet
    <3>3. Cardinality(Passed) \in Nat /\ Cardinality(OnTheWay) \in Nat
      BY <2>1, <2>3, FS_CardinalityType
    <3>4. QED   BY <2>2, <3>1, <3>2, <3>3
  <2>5. Total(burst) = Cardinality(Bursts)
    <3>1. burst \in [TopicSet -> Nat]   BY <1>1 DEF IInv, Types
    <3>2. QED   BY <3>1, MessagesOf DEF Bursts, Total
  <2>6. /\ warm \in Nat /\ measured \in Nat /\ num_rcv_msgs \in Nat /\ num_unrec_loss \in Nat
        /\ Cardinality(Passed) \in Nat /\ Cardinality(Bursts) \in Nat
        /\ Cardinality(OnTheWay) \in Nat
    <3>1. /\ plan \in Plans /\ warm \in 0..plan.warmup /\ measured \in 0..plan.msgs
          /\ num_rcv_msgs \in Nat /\ num_unrec_loss \in Nat
      BY <1>1 DEF IInv, Types
    <3>2. plan.warmup \in Nat /\ plan.msgs \in Nat   BY <3>1, PlanFacts
    <3>3. QED   BY <2>1, <2>3, <3>1, <3>2, FS_CardinalityType
  <2>7. QED   BY <2>1, <2>4, <2>5, <2>6
<1>2. IInv /\ Accounted => MeasuredAccounted   BY <1>1 DEF MeasuredAccounted
<1>3. QED   BY <1>2, Invariance, AInit, AStep, PTL DEF Spec

----------------------------------------------------------------------------
(* Types.                                                                  *)

\* What Types leaves out of TypeOK.
Rest ==
  /\ SubTypeOK
  /\ run \in 1..MaxRuns
  /\ stale \subseteq TopicSet
  /\ late \in BOOLEAN

LEMMA RestInit == Init => Rest
<1> SUFFICES ASSUME Init PROVE Rest   OBVIOUS
<1>1. 0 \in 0..Topics   BY TopicsAssumption
<1>2. 1 \in 1..MaxRuns   BY RunsAssumption
<1>3. SubTypeOK   BY <1>1 DEF Init, SubInit, SubTypeOK
<1>4. QED   BY <1>2, <1>3 DEF Init, Rest

LEMMA RestStep == ASSUME IInv, Rest, [Next]_vars PROVE Rest'
<1>1. Topics \in Nat /\ MaxRuns \in Nat   BY TopicsAssumption, RunsAssumption
<1>2. CASE Publishes
  BY <1>2 DEF Publishes, Rest, SubTypeOK, subVars, netVars
<1>3. CASE NextRun
  <2>1. run' \in 1..MaxRuns   BY <1>1, <1>3 DEF NextRun, Rest
  <2>2. stale' \subseteq TopicSet   BY <1>3 DEF NextRun, Rest
  <2>3. QED   BY <1>3, <2>1, <2>2 DEF NextRun, Rest, SubTypeOK, subVars
<1>4. CASE Creates
  <2>1. num_rcvs' \in 0..Topics   BY <1>1, <1>4 DEF Creates, CreateReceiver, Rest, SubTypeOK
  <2>2. QED
    BY <1>4, <2>1 DEF Creates, CreateReceiver, Rest, SubTypeOK, netVars, counters
<1>5. ASSUME NEW s \in TopicSet, StreamBegins(s) PROVE Rest'
  BY <1>5 DEF StreamBegins, Bos, Rest, SubTypeOK
<1>6. ASSUME NEW s \in TopicSet, NEW rx \in BOOLEAN, Delivers(s, rx) PROVE Rest'
  <2>1. num_rcv_msgs' \in Nat /\ num_rx_msgs' \in Nat
    BY <1>6 DEF Delivers, Data, Rest, SubTypeOK
  <2>2. QED   BY <1>6, <2>1 DEF Delivers, Data, Rest, SubTypeOK
<1>7. ASSUME NEW s \in TopicSet, Loses(s) PROVE Rest'
  <2>1. num_unrec_loss' \in Nat   BY <1>7 DEF Loses, UnrecoverableLoss, Rest, SubTypeOK
  <2>2. QED   BY <1>7, <2>1 DEF Loses, UnrecoverableLoss, Rest, SubTypeOK
<1>8. ASSUME Eos PROVE SubTypeOK'
  <2>1. report' \in Reports   BY <1>8 DEF Eos, Rest, SubTypeOK, Reports
  <2>2. QED   BY <1>8, <2>1 DEF Eos, Rest, SubTypeOK, counters
<1>9. ASSUME NEW s \in TopicSet, StreamEnds(s) \/ OldStreamEnds(s) PROVE Rest'
  BY <1>8, <1>9 DEF StreamEnds, OldStreamEnds, Rest
<1>10. ASSUME NEW s \in TopicSet, LosesInBurst(s) PROVE Rest'
  BY <1>10 DEF LosesInBurst, OtherEvent, subVars, Rest, SubTypeOK, counters
<1>11. CASE SubscriberFails
  BY <1>11 DEF SubscriberFails, SubFails, netVars, counters, Rest, SubTypeOK
<1>12. CASE Finished \/ UNCHANGED vars
  BY <1>12 DEF Finished, vars, subVars, netVars, Rest, SubTypeOK
<1>13. QED
  BY <1>2, <1>3, <1>4, <1>5, <1>6, <1>7, <1>9, <1>10, <1>11, <1>12 DEF Next, Network

\* The transport is done with no more than was sent, and delivers and loses no more than it is
\* done with; the counters of rcv_callback() stay numbers through every end of stream.
THEOREM TypeCorrect == Spec => []TypeOK
<1>1. ASSUME IInv, Rest PROVE TypeOK
  <2>1. ASSUME NEW s \in TopicSet
        PROVE  /\ pos[s] \in 0..(IF s \in Sources THEN sent[s] ELSE 0)
               /\ got[s] + lost[s] + burst[s] \in 0..pos[s]
    <3>1. /\ pos[s] \in Nat /\ got[s] \in Nat /\ lost[s] \in Nat /\ burst[s] \in Nat
          /\ got[s] + lost[s] + burst[s] <= pos[s]
      BY <1>1 DEF IInv, Types, Streams
    <3>2. s \in Sources => pos[s] <= sent[s] /\ sent[s] \in Nat
      BY <1>1 DEF IInv, Types, Streams
    <3>3. s \notin Sources => pos[s] = 0   BY <1>1 DEF IInv, Types, Streams
    <3>4. QED   BY <3>1, <3>2, <3>3
  <2>2. QED   BY <1>1, <2>1 DEF IInv, Types, Rest, TypeOK
<1>2. QED   BY <1>1, Invariance, RestInit, RestStep, PTL DEF Spec
=============================================================================
