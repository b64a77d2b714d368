---------------------------- MODULE UmPubProofs ----------------------------
(***************************************************************************)
(* Proofs about UmPub, for every set of options, flight limit and number   *)
(* of forced reclaims.                                                     *)
(***************************************************************************)
EXTENDS UmPub, FiniteSetTheorems, TLAPS

\* What an option record is made of.
LEMMA OptTypes ==
  ASSUME opt \in Options
  PROVE  /\ opt.persist \in BOOLEAN /\ opt.generic \in BOOLEAN /\ opt.hist \in BOOLEAN
         /\ opt.srcs \in Nat /\ opt.warmup \in Int /\ opt.msgs \in Nat \ {0}
BY OptionsAssumption

\* The steps of either thread keep the types and the control structure.
LEMMA TypeStep ==
  ASSUME TypeOK, Control, [Next]_vars
  PROVE  TypeOK' /\ Control'
<1>0. /\ opt.srcs \in Nat /\ opt.warmup \in Int /\ opt.msgs \in Nat \ {0}
      /\ opt.persist \in BOOLEAN /\ MAX_SRCS \in Nat
  BY OptTypes, LimitsAssumption DEF TypeOK
<1>a. opt' = opt /\ Srcs' = Srcs
  BY DEF Next, Main, MainFails, Callback, Acks, Reclaims, Registers, Terminated, vars, Srcs
<1>b. \A s \in Srcs \union {0} : s \in Int /\ (opt.srcs > 0 /\ s # opt.srcs - 1 => s + 1 \in Srcs)
  BY <1>0 DEF Srcs
<1> USE <1>0, <1>a, <1>b DEF TypeOK, Control, Before, After, num_sends
<1>1. CASE Main
  <2> ~died /\ MainStep /\ UNCHANGED <<opt, ctxVars>>
    BY <1>1 DEF Main
  <2> USE DEF ctxVars
  <2>1. CASE CreateSource   BY <2>1 DEF CreateSource
  <2>2. CASE SourcesCreated   BY <2>2 DEF SourcesCreated, EnterLoop
  <2>3. CASE RegistrationWait \/ RegistrationDone
    BY <2>3 DEF RegistrationWait, RegistrationDone, mainVars
  <2>4. CASE StartWarmup   BY <2>4 DEF StartWarmup, EnterLoop
  <2>5. CASE StartTimed   BY <2>5 DEF StartTimed, EnterLoop
  <2>6. CASE Send
    <3>1. sent' \in [Srcs -> Nat]
      <4>1. sent' = [sent EXCEPT ![local_cur_src] = @ + 1]   BY <2>6 DEF Send
      <4>2. opt.srcs > 0 /\ sent \in [Srcs -> Nat] /\ local_cur_src \in Srcs \union {0}
        BY <2>6 DEF Send
      <4> HIDE DEF TypeOK, Control, ctxVars
      <4>3. local_cur_src \in Srcs   BY <1>0, <4>2 DEF Srcs
      <4>4. QED   BY <4>1, <4>2, <4>3
    <3>2. TypeOK'   BY <2>6, <3>1 DEF Send
    <3>3. Control'   BY <2>6 DEF Send
    <3>4. QED   BY <3>2, <3>3
  <2>7. CASE CountSend   BY <2>7 DEF CountSend, NextSrc
  <2>8. CASE LoopExit   BY <2>8 DEF LoopExit
  <2>9. CASE Report   BY <2>9 DEF Report, Goto
  <2>10. CASE DrainDone   BY <2>10 DEF DrainDone, Goto
  <2>11. CASE DrainWait   BY <2>11 DEF DrainWait, Goto
  <2>12. CASE DeleteSources   BY <2>12 DEF DeleteSources, Goto
  <2>13. CASE ContextDelete   BY <2>13 DEF ContextDelete, Goto
  <2>14. CASE TooManySources \/ SendNowhere
    BY <2>14 DEF TooManySources, SendNowhere, mainVars
  <2>15. QED
    BY <2>1, <2>2, <2>3, <2>4, <2>5, <2>6, <2>7, <2>8, <2>9, <2>10, <2>11, <2>12, <2>13, <2>14
    DEF MainStep
<1>2. CASE MainFails
  BY <1>2 DEF MainFails, CreateFails, SendFails, HistAsserts, DeleteFails, mainVars, ctxVars
<1>3. CASE Callback
  <2> ~died /\ CallbackStep /\ UNCHANGED opt
    BY <1>3 DEF Callback
  <2> USE DEF mainVars
  <2>1. CASE StableSub   BY <2>1 DEF StableSub
  <2>2. CASE StableAssert
    <3>1. died' \in BOOLEAN   BY <2>2 DEF StableAssert
    <3>2. UNCHANGED <<mainVars, registration_complete, cb_val, registered, repeated, reclaimed,
                      cur_flight_size, unstable>> /\ cb' = "idle"
      BY <2>2 DEF StableAssert
    <3>3. QED   BY <3>1, <3>2
  <2>3. CASE ReclaimLoad   BY <2>3 DEF ReclaimLoad
  <2>4. CASE ReclaimStore   BY <2>4 DEF ReclaimStore
  <2>5. QED   BY <2>1, <2>2, <2>3, <2>4 DEF CallbackStep
<1>4. CASE Acks
  BY <1>4 DEF Acks, StoreAck, mainVars
<1>5. CASE Reclaims
  BY <1>5 DEF Reclaims, ForceReclaim, mainVars
<1>6. ASSUME NEW s \in Srcs, Registers(s)
      PROVE  TypeOK' /\ Control'
  BY <1>6 DEF Registers, RegistrationComplete, mainVars
<1>7. CASE UNCHANGED vars
  BY <1>7 DEF vars, mainVars, ctxVars
<1>8. QED
  BY <1>1, <1>2, <1>3, <1>4, <1>5, <1>6, <1>7 DEF Next, Terminated

\* Type correctness: no count goes below zero but the flight size, the rotation stays
\* among the sources, the drain gives up after the fourth check.
THEOREM TypeCorrect == Spec => [](TypeOK /\ Control)
<1>1. Init => TypeOK /\ Control
  <2> SUFFICES ASSUME Init PROVE TypeOK /\ Control
    OBVIOUS
  <2>1. opt.srcs \in Nat /\ opt.warmup \in Int
    BY OptTypes DEF Init
  <2>2. 0 \in 0..opt.srcs /\ 0 <= MAX_SRCS   BY <2>1, LimitsAssumption
  <2>3. sent \in [Srcs -> Nat]   BY DEF Init
  <2>4. TypeOK
    <3>1. died \in BOOLEAN /\ opt \in Options   BY DEF Init
    <3>2. warmup_loops = opt.warmup /\ num_srcs = 0   BY DEF Init
    <3>3. QED   BY <2>2, <2>3, <3>1, <3>2 DEF Init, TypeOK
  <2>5. Control   BY DEF Init, Control, Before, After
  <2>6. QED   BY <2>4, <2>5
<1>2. TypeOK /\ Control /\ [Next]_vars => (TypeOK /\ Control)'
  BY TypeStep
<1>3. QED   BY <1>1, <1>2, PTL DEF Spec

----------------------------------------------------------------------------
(* The flight counter.                                                     *)

FlightInv == FlightBalance /\ FlightNeverOverstated /\ Reclaiming

\* Which steps touch what the flight counter is compared with.
LEMMA FlightStep ==
  ASSUME TypeOK, FlightInv, [Next]_vars
  PROVE  FlightInv'
<1>0. /\ cur_flight_size \in Int /\ unstable \in Nat /\ cb_val \in Int /\ reclaimed \in Nat
      /\ cb \in {"idle", "stable", "assert", "reclaim_load", "reclaim_store"}
  BY DEF TypeOK
<1> USE <1>0 DEF FlightInv, FlightBalance, FlightNeverOverstated, Reclaiming,
                 Uncounted, AckPending, ReclaimPending
<1>1. CASE Main
  <2>0. ~died /\ MainStep /\ UNCHANGED <<opt, ctxVars>>   BY <1>1 DEF Main
  <2>1. CASE Send   BY <2>0, <2>1 DEF Send, ctxVars
  <2>2. CASE CountSend   BY <2>0, <2>2 DEF CountSend, ctxVars
  <2>3. CASE ~Send /\ ~CountSend
    <3>1. UNCHANGED <<cur_flight_size, unstable>> /\ pc # "count" /\ pc' # "count"
      BY <2>0, <2>3 DEF MainStep, CreateSource, TooManySources, SendNowhere, SourcesCreated,
        RegistrationWait, RegistrationDone, mainVars, StartWarmup, StartTimed, EnterLoop,
        LoopExit, Report, DrainDone, DrainWait, DeleteSources, ContextDelete, Goto
    <3>2. QED   BY <2>0, <3>1 DEF ctxVars
  <2>4. QED   BY <2>1, <2>2, <2>3
<1>2. CASE MainFails
  BY <1>2 DEF MainFails, CreateFails, SendFails, HistAsserts, DeleteFails, mainVars, ctxVars
<1>3. CASE Callback
  <2>0. CallbackStep   BY <1>3 DEF Callback
  <2>1. CASE StableSub   BY <2>1 DEF StableSub, mainVars
  <2>2. CASE StableAssert   BY <2>2 DEF StableAssert, mainVars
  <2>3. CASE ReclaimLoad   BY <2>3 DEF ReclaimLoad, mainVars
  <2>4. CASE ReclaimStore   BY <2>4 DEF ReclaimStore, mainVars
  <2>5. QED   BY <2>0, <2>1, <2>2, <2>3, <2>4 DEF CallbackStep
<1>4. CASE Acks
  BY <1>4 DEF Acks, StoreAck, mainVars
<1>5. CASE Reclaims
  BY <1>5 DEF Reclaims, ForceReclaim, mainVars
<1>6. ASSUME NEW s \in Srcs, Registers(s)
      PROVE  FlightInv'
  BY <1>6 DEF Registers, RegistrationComplete, mainVars
<1>7. CASE UNCHANGED vars
  BY <1>7 DEF vars, mainVars, ctxVars
<1>8. QED
  BY <1>1, <1>2, <1>3, <1>4, <1>5, <1>6, <1>7 DEF Next, Terminated

LEMMA FlightInit == Init => FlightInv
BY DEF Init, FlightInv, FlightBalance, FlightNeverOverstated, Reclaiming,
   Uncounted, AckPending, ReclaimPending

\* Without forced reclaims the two threads never lose an update of the counter: it is
\* off by the message being counted and the event being applied, never by more.
THEOREM FlightExact == Spec => []FlightBalance
<1>1. TypeOK /\ FlightInv /\ [Next]_vars => FlightInv'
  BY FlightStep
<1>2. FlightInv => FlightBalance
  BY DEF FlightInv
<1>3. QED   BY <1>1, <1>2, FlightInit, TypeCorrect, PTL DEF Spec

\* With forced reclaims, whose decrement is not atomic, the counter may be too low but
\* is never too high.
THEOREM FlightNotTooHigh == Spec => []FlightNeverOverstated
<1>1. TypeOK /\ FlightInv /\ [Next]_vars => FlightInv'
  BY FlightStep
<1>2. FlightInv => FlightNeverOverstated
  BY DEF FlightInv
<1>3. QED   BY <1>1, <1>2, FlightInit, TypeCorrect, PTL DEF Spec

----------------------------------------------------------------------------
(* The wait for the Stores at the end.                                     *)

LEMMA DrainStep ==
  ASSUME TypeOK, Control, FlightInv, DrainedMeansStable, [Next]_vars
  PROVE  DrainedMeansStable'
<1>0. /\ cur_flight_size \in Int /\ unstable \in Nat /\ num_checks \in 0..4
      /\ reclaimed \in Nat
  BY DEF TypeOK
<1> USE <1>0 DEF DrainedMeansStable, Control
<1>1. CASE Main
  <2>0. ~died /\ MainStep /\ UNCHANGED <<opt, ctxVars>>   BY <1>1 DEF Main
  <2>1. CASE Report   BY <2>0, <2>1 DEF Report, Goto, ctxVars
  <2>2. CASE DrainDone
    <3>1. pc = "drain" /\ cur_flight_size <= 0 /\ UNCHANGED unstable
      BY <2>2 DEF DrainDone, Goto
    <3>2. reclaimed = 0 => unstable = 0
      BY <3>1 DEF FlightInv, FlightBalance, Uncounted, AckPending
    <3>3. QED   BY <2>0, <3>1, <3>2 DEF ctxVars
  <2>3. CASE DrainWait   BY <2>0, <2>3 DEF DrainWait, Goto, ctxVars
  <2>4. CASE DeleteSources \/ ContextDelete
    BY <2>0, <2>4 DEF DeleteSources, ContextDelete, Goto, ctxVars
  <2>5. CASE CreateSource \/ SourcesCreated \/ RegistrationWait \/ RegistrationDone
             \/ StartWarmup \/ StartTimed \/ Send \/ CountSend \/ LoopExit
             \/ TooManySources \/ SendNowhere
    <3>1. pc' \notin {"linger", "deleted", "done"}
      BY <2>5 DEF TooManySources, SendNowhere, CreateSource, SourcesCreated,
        RegistrationWait, RegistrationDone, StartWarmup, StartTimed, EnterLoop, Send,
        CountSend, LoopExit, mainVars
    <3>2. QED   BY <3>1
  <2>6. QED   BY <2>0, <2>1, <2>2, <2>3, <2>4, <2>5 DEF MainStep
<1>2. CASE MainFails
  BY <1>2 DEF MainFails, CreateFails, SendFails, HistAsserts, DeleteFails, mainVars, ctxVars
<1>3. CASE Callback
  BY <1>3 DEF Callback, CallbackStep, StableSub, StableAssert, ReclaimLoad, ReclaimStore,
    mainVars
<1>4. CASE Acks
  BY <1>4 DEF Acks, StoreAck, mainVars
<1>5. CASE Reclaims
  BY <1>5 DEF Reclaims, ForceReclaim, mainVars
<1>6. ASSUME NEW s \in Srcs, Registers(s)
      PROVE  DrainedMeansStable'
  BY <1>6 DEF Registers, RegistrationComplete, mainVars
<1>7. CASE UNCHANGED vars
  BY <1>7 DEF vars, mainVars, ctxVars
<1>8. QED
  BY <1>1, <1>2, <1>3, <1>4, <1>5, <1>6, <1>7 DEF Next, Terminated

\* A publisher that does not give up deletes its sources only when every message is
\* stable at its Store.
THEOREM DrainSound == Spec => []DrainedMeansStable
<1>1. Init => FlightInv /\ DrainedMeansStable
  BY FlightInit DEF Init, DrainedMeansStable
<1>2. TypeOK /\ Control /\ FlightInv /\ DrainedMeansStable /\ [Next]_vars
        => (FlightInv /\ DrainedMeansStable)'
  BY FlightStep, DrainStep
<1>3. QED   BY <1>1, <1>2, TypeCorrect, PTL DEF Spec

----------------------------------------------------------------------------
(* The wait for the registrations.                                         *)

LEMMA RegisteredStep ==
  ASSUME TypeOK, Control, Registered, [Next]_vars
  PROVE  Registered'
<1>0. /\ opt.srcs \in Nat /\ opt.persist \in BOOLEAN
      /\ registered \subseteq Srcs /\ sent \in [Srcs -> Nat]
      /\ repeated \in Nat
  BY OptTypes DEF TypeOK
<1>a. opt' = opt /\ Srcs' = Srcs
  BY DEF Next, Main, MainFails, Callback, Acks, Reclaims, Registers, Terminated, vars, Srcs
<1>b. IsFiniteSet(Srcs) /\ Cardinality(Srcs) = opt.srcs
  BY <1>0, FS_Interval DEF Srcs
<1>c. IsFiniteSet(registered)   BY <1>0, <1>b, FS_Subset
<1> USE <1>0, <1>a DEF Registered, Before
<1>1. CASE Main
  <2>0. ~died /\ MainStep /\ UNCHANGED <<opt, ctxVars>>   BY <1>1 DEF Main
  <2>1. CASE CreateSource \/ TooManySources \/ SourcesCreated
    <3>1. UNCHANGED <<registered, repeated, registration_complete, sent>> /\ pc \in Before
      BY <2>0, <2>1 DEF CreateSource, TooManySources, mainVars, SourcesCreated, ctxVars
    <3>2. opt.persist => pc' \in Before
      BY <2>1 DEF CreateSource, TooManySources, mainVars, SourcesCreated
    <3>3. QED   BY <3>1, <3>2
  <2>2. CASE RegistrationDone
    <3>0. ~(registration_complete < num_srcs) /\ num_srcs = opt.srcs
      BY <2>2 DEF RegistrationDone, RegistrationsMissing, Control
    <3>1. /\ UNCHANGED <<registered, repeated, registration_complete, sent>>
          /\ registration_complete >= opt.srcs /\ pc' \notin Before
      BY <2>0, <2>2, <3>0, <1>c, FS_CardinalityType DEF RegistrationDone, ctxVars
    <3>2. Cardinality(Srcs \ registered) = opt.srcs - Cardinality(registered)
      <4>1. Srcs \cap registered = registered   OBVIOUS
      <4>2. Cardinality(Srcs \ registered) = Cardinality(Srcs) - Cardinality(Srcs \cap registered)
        BY <1>b, FS_Difference
      <4>3. QED   BY <1>b, <4>1, <4>2
    <3>3. Cardinality(registered) \in Nat   BY <1>c, FS_CardinalityType
    <3>4. Cardinality(Srcs \ registered) <= repeated   BY <3>1, <3>2, <3>3
    <3>5. QED   BY <3>1, <3>4
  <2>3. CASE RegistrationWait
    BY <2>0, <2>3 DEF RegistrationWait, mainVars, ctxVars
  <2>4. CASE ~(\/ CreateSource \/ TooManySources \/ SourcesCreated
               \/ RegistrationWait \/ RegistrationDone)
    <3>1. /\ UNCHANGED <<registered, repeated, registration_complete>>
          /\ pc \notin Before /\ pc' \notin Before
      BY <2>0, <2>4 DEF MainStep, StartWarmup, StartTimed, EnterLoop, Send, SendNowhere,
        mainVars, CountSend, LoopExit, Report, DrainDone, DrainWait, DeleteSources,
        ContextDelete, Goto, ctxVars
    <3>2. QED   BY <3>1
  <2>5. QED   BY <2>1, <2>2, <2>3, <2>4
<1>2. CASE MainFails
  BY <1>2 DEF MainFails, CreateFails, SendFails, HistAsserts, DeleteFails, mainVars, ctxVars
<1>3. CASE Callback
  BY <1>3 DEF Callback, CallbackStep, StableSub, StableAssert, ReclaimLoad, ReclaimStore,
    mainVars
<1>4. CASE Acks
  BY <1>4 DEF Acks, StoreAck, mainVars
<1>5. CASE Reclaims
  BY <1>5 DEF Reclaims, ForceReclaim, mainVars
<1>6. ASSUME NEW s \in Srcs, Registers(s)
      PROVE  Registered'
  <2>1. /\ registered' = registered \union {s}
        /\ repeated' = IF s \in registered THEN repeated + 1 ELSE repeated
        /\ registration_complete' = registration_complete + 1 /\ UNCHANGED <<pc, sent>>
    BY <1>6 DEF Registers, RegistrationComplete, mainVars
  <2>2. Cardinality(registered) \in Nat   BY <1>c, FS_CardinalityType
  <2>3. Cardinality(registered') = Cardinality(registered) + (IF s \in registered THEN 0 ELSE 1)
    <3>1. CASE s \in registered
      <4>1. registered' = registered   BY <2>1, <3>1
      <4>2. QED   BY <3>1, <4>1, <2>2
    <3>2. CASE s \notin registered   BY <1>c, <2>1, <3>2, FS_AddElement
    <3>3. QED   BY <3>1, <3>2
  <2>4. registration_complete' = Cardinality(registered') + repeated'   BY <2>1, <2>2, <2>3
  <2>5. Cardinality(Srcs \ registered') <= Cardinality(Srcs \ registered)
    <3>1. (Srcs \ registered') \subseteq (Srcs \ registered)   BY <2>1
    <3>2. IsFiniteSet(Srcs \ registered)   BY <1>b, FS_Difference
    <3>3. QED   BY <3>1, <3>2, FS_Subset
  <2>6. Cardinality(Srcs \ registered) \in Nat /\ Cardinality(Srcs \ registered') \in Nat
    BY <1>b, FS_Difference, FS_CardinalityType
  <2>7. opt.persist /\ pc' \notin Before => Cardinality(Srcs \ registered') <= repeated'
    BY <2>1, <2>5, <2>6
  <2>8. QED   BY <2>1, <2>4, <2>7
<1>7. CASE UNCHANGED vars
  BY <1>7 DEF vars, mainVars, ctxVars
<1>8. QED
  BY <1>1, <1>2, <1>3, <1>4, <1>5, <1>6, <1>7 DEF Next, Terminated

\* With persistence, no source carries a message before as many registration events have come
\* as there are sources, so before every source is registered if none came twice.
THEOREM RegisteredFirst == Spec => []SendsOnlyRegistered
<1>1. Init => Registered
  <2> SUFFICES ASSUME Init PROVE Registered
    OBVIOUS
  <2>1. Cardinality(registered) = 0   BY FS_EmptySet DEF Init
  <2>2. QED   BY <2>1 DEF Init, Registered, Before
<1>2. TypeOK /\ Control /\ Registered /\ [Next]_vars => Registered'
  BY RegisteredStep
<1>3. TypeOK /\ Registered => SendsOnlyRegistered
  BY DEF TypeOK, Registered, SendsOnlyRegistered
<1>4. QED   BY <1>1, <1>2, <1>3, TypeCorrect, PTL DEF Spec

----------------------------------------------------------------------------
(* The rotation over the sources and the peak of the flight size.          *)

LEMMA RotationStep ==
  ASSUME TypeOK, Control, LoadBalanced, PeakReported, [Next]_vars
  PROVE  LoadBalanced' /\ PeakReported'
<1>0. /\ opt.srcs \in Nat /\ Srcs = 0..(opt.srcs - 1)
      /\ sent \in [Srcs -> Nat]
      /\ cur_flight_size \in Int /\ peak \in Nat /\ max_flight_size \in Nat
  BY OptTypes DEF TypeOK, Srcs
<1>a. opt' = opt /\ Srcs' = Srcs
  BY DEF Next, Main, MainFails, Callback, Acks, Reclaims, Registers, Terminated, vars, Srcs
<1>b. ASSUME Turn' = Turn, sent' = sent, peak' = peak, max_flight_size' = max_flight_size
      PROVE  LoadBalanced' /\ PeakReported'
  BY <1>a, <1>b DEF LoadBalanced, PeakReported
<1>1. CASE Main
  <2>0. ~died /\ MainStep /\ UNCHANGED <<opt, ctxVars>>   BY <1>1 DEF Main
  <2>1. CASE Send
    <3>1. /\ pc = "send" /\ pc' = "count" /\ num_srcs = opt.srcs /\ local_cur_src \in Srcs
          /\ sent' = [sent EXCEPT ![local_cur_src] = @ + 1]
          /\ UNCHANGED <<local_cur_src, num_srcs, peak, max_flight_size>>
      BY <1>0, <2>1 DEF Send, Control, TypeOK
    <3>2. /\ Turn = local_cur_src
          /\ Turn' = IF local_cur_src = opt.srcs - 1 THEN 0 ELSE local_cur_src + 1
      BY <3>1 DEF Turn, NextSrc
    <3>3. LoadBalanced'
      <4> SUFFICES ASSUME NEW i \in Srcs, NEW j \in Srcs, i < j
                   PROVE  sent'[i] = sent'[j] + (IF i < Turn' /\ Turn' <= j THEN 1 ELSE 0)
        BY <1>a DEF LoadBalanced
      <4>1. sent[i] = sent[j] + (IF i < local_cur_src /\ local_cur_src <= j THEN 1 ELSE 0)
        BY <3>2 DEF LoadBalanced
      <4>2. /\ sent'[i] = IF i = local_cur_src THEN sent[i] + 1 ELSE sent[i]
            /\ sent'[j] = IF j = local_cur_src THEN sent[j] + 1 ELSE sent[j]
        BY <1>0, <3>1
      <4>3. sent[i] \in Nat /\ sent[j] \in Nat   BY <1>0
      <4>4. QED   BY <1>0, <3>1, <3>2, <4>1, <4>2, <4>3
    <3>4. PeakReported'   BY <3>1 DEF PeakReported
    <3>5. QED   BY <3>3, <3>4
  <2>2. CASE CountSend
    <3>1. Turn' = Turn /\ sent' = sent
      BY <2>2 DEF CountSend, Turn, NextSrc
    <3>2. LoadBalanced'   BY <3>1, <1>a DEF LoadBalanced
    <3>3. PeakReported'   BY <1>0, <2>2 DEF CountSend, PeakReported
    <3>4. QED   BY <3>2, <3>3
  <2>3. CASE ~Send /\ ~CountSend
    <3>1. Turn' = Turn /\ UNCHANGED <<sent, peak, max_flight_size>>
      BY <2>0, <2>3 DEF MainStep, CreateSource, TooManySources, SendNowhere, SourcesCreated,
        RegistrationWait, RegistrationDone, mainVars, StartWarmup, StartTimed, EnterLoop,
        LoopExit, Report, DrainDone, DrainWait, DeleteSources, ContextDelete, Goto, Turn
    <3>2. QED   BY <3>1, <1>b
  <2>4. QED   BY <2>1, <2>2, <2>3
<1>2. CASE ~Main
  <2>1. UNCHANGED mainVars
    BY <1>2 DEF Next, MainFails, CreateFails, SendFails, HistAsserts, DeleteFails, Callback,
      CallbackStep, StableSub, StableAssert, ReclaimLoad, ReclaimStore, Acks, StoreAck,
      Reclaims, ForceReclaim, Registers, RegistrationComplete, Terminated, vars
  <2>2. QED   BY <2>1, <1>b DEF mainVars, Turn, NextSrc
<1>3. QED   BY <1>1, <1>2

RotationInv == LoadBalanced /\ PeakReported

LEMMA RotationInit == Init => RotationInv
<1> SUFFICES ASSUME Init PROVE LoadBalanced /\ PeakReported
  BY DEF RotationInv
<1>1. Turn = 0 /\ sent = [s \in Srcs |-> 0]   BY DEF Init, Turn
<1>2. Srcs \subseteq Nat   BY OptTypes DEF Init, Srcs
<1>3. LoadBalanced   BY <1>1, <1>2 DEF LoadBalanced
<1>4. PeakReported   BY DEF Init, PeakReported
<1>5. QED   BY <1>3, <1>4

\* Over all the calls of send_loop() together the sources differ by one message at most,
\* the first ones being ahead.
THEOREM Rotation == Spec => []LoadBalanced
<1>1. TypeOK /\ Control /\ RotationInv /\ [Next]_vars => RotationInv'
  BY RotationStep DEF RotationInv
<1>2. RotationInv => LoadBalanced
  BY DEF RotationInv
<1>3. QED   BY <1>1, <1>2, RotationInit, TypeCorrect, PTL DEF Spec

\* max_flight_size misses the true peak of the flight size by at most one.
THEOREM PeakOfFlight == Spec => []PeakReported
<1>1. TypeOK /\ Control /\ RotationInv /\ [Next]_vars => RotationInv'
  BY RotationStep DEF RotationInv
<1>2. RotationInv => PeakReported
  BY DEF RotationInv
<1>3. QED   BY <1>1, <1>2, RotationInit, TypeCorrect, PTL DEF Spec

----------------------------------------------------------------------------
(* The histogram.                                                          *)

LEMMA SampledStep ==
  ASSUME TypeOK, Control, Sampled, [Next]_vars
  PROVE  Sampled'
<1>0. num_sent \in Nat /\ hist_num_samples \in Nat
  BY DEF TypeOK
<1>a. opt' = opt
  BY DEF Next, Main, MainFails, Callback, Acks, Reclaims, Registers, Terminated, vars
<1>1. CASE Main
  <2>0. MainStep   BY <1>1 DEF Main
  <2>1. CASE SourcesCreated \/ StartWarmup \/ StartTimed
    BY <1>0, <1>a, <2>1 DEF SourcesCreated, StartWarmup, StartTimed, EnterLoop, Sampled,
      Control, Before
  <2>2. CASE CountSend
    <3>1. CASE opt.hist   BY <1>0, <1>a, <2>2, <3>1 DEF CountSend, Sampled
    <3>2. CASE ~opt.hist   BY <1>0, <1>a, <2>2, <3>2 DEF CountSend, Sampled
    <3>3. QED   BY <3>1, <3>2
  <2>3. CASE ~(SourcesCreated \/ StartWarmup \/ StartTimed \/ CountSend)
    <3>1. UNCHANGED <<call, num_sent, hist_num_samples>>
      BY <2>0, <2>3 DEF MainStep, CreateSource, TooManySources, SendNowhere,
        RegistrationWait, RegistrationDone, mainVars, Send, LoopExit, Report, DrainDone,
        DrainWait, DeleteSources, ContextDelete, Goto
    <3>2. QED   BY <3>1, <1>a DEF Sampled
  <2>4. QED   BY <2>1, <2>2, <2>3
<1>2. CASE ~Main
  <2>1. UNCHANGED mainVars
    BY <1>2 DEF Next, MainFails, CreateFails, SendFails, HistAsserts, DeleteFails, Callback,
      CallbackStep, StableSub, StableAssert, ReclaimLoad, ReclaimStore, Acks, StoreAck,
      Reclaims, ForceReclaim, Registers, RegistrationComplete, Terminated, vars
  <2>2. QED   BY <2>1, <1>a DEF mainVars, Sampled
<1>3. QED   BY <1>1, <1>2

\* The histogram that is printed holds one sample for each timed message and none of the
\* warmup.
THEOREM HistogramMeasuresTimedLoop == Spec => []HistMeasuredOnly
<1>1. Init => Sampled
  BY DEF Init, Sampled
<1>2. TypeOK /\ Control /\ Sampled /\ [Next]_vars => Sampled'
  BY SampledStep
<1>3. Control /\ Sampled => HistMeasuredOnly
  BY DEF Control, Sampled, HistMeasuredOnly, After
<1>4. QED   BY <1>1, <1>2, <1>3, TypeCorrect, PTL DEF Spec

----------------------------------------------------------------------------
(* The publisher implements PubRun.                                        *)

LEMMA PlannedStep ==
  ASSUME TypeOK, Control, Planned, [Next]_vars
  PROVE  Planned'
<1>0. /\ opt.srcs \in Nat /\ opt.warmup \in Int /\ opt.persist \in BOOLEAN
      /\ num_sent \in Nat /\ warmup_loops \in Int
      /\ call \in {"none", "prime", "warmup", "timed"}
  BY OptTypes DEF TypeOK
<1>a. opt' = opt
  BY DEF Next, Main, MainFails, Callback, Acks, Reclaims, Registers, Terminated, vars
<1>b. PrimeSent' = PrimeSent /\ WarmupLeft' = WarmupLeft
  BY <1>a DEF PrimeSent, WarmupLeft
<1>c. /\ PrimeSent \in {0, opt.srcs}
      /\ opt.persist \/ opt.warmup <= 0 => PrimeSent = 0
      /\ ~opt.persist /\ opt.warmup > 0 => PrimeSent = opt.srcs
      /\ WarmupLeft = IF opt.warmup > PrimeSent THEN opt.warmup - PrimeSent ELSE 0
  BY <1>0 DEF PrimeSent, WarmupLeft
<1> USE <1>0, <1>a, <1>b, <1>c DEF Planned, Control, Before, num_sends
<1>1. CASE Main
  <2>0. MainStep   BY <1>1 DEF Main
  <2>1. CASE SourcesCreated
    <3>1. CASE ~opt.persist /\ warmup_loops > 0   BY <2>1, <3>1 DEF SourcesCreated, EnterLoop
    <3>2. CASE opt.persist \/ ~(warmup_loops > 0)   BY <2>1, <3>2 DEF SourcesCreated, EnterLoop
    <3>3. QED   BY <3>1, <3>2
  <2>2. CASE StartWarmup
    BY <2>2 DEF StartWarmup, EnterLoop, After
  <2>3. CASE StartTimed
    BY <2>3 DEF StartTimed, EnterLoop, After
  <2>4. CASE LoopExit
    <3>1. CASE call = "prime"   BY <2>4, <3>1 DEF LoopExit
    <3>2. CASE call = "warmup"   BY <2>4, <3>2 DEF LoopExit
    <3>3. CASE call = "timed"   BY <2>4, <3>3 DEF LoopExit
    <3>4. QED   BY <2>4, <3>1, <3>2, <3>3 DEF LoopExit
  <2>5. CASE Send \/ CountSend
    BY <2>5 DEF Send, CountSend
  <2>6. CASE CreateSource \/ TooManySources \/ SendNowhere
             \/ RegistrationWait \/ RegistrationDone
    BY <2>6 DEF CreateSource, TooManySources, SendNowhere, RegistrationWait,
      RegistrationDone, mainVars
  <2>7. CASE Report \/ DrainDone \/ DrainWait \/ DeleteSources \/ ContextDelete
    BY <2>7 DEF Report, DrainDone, DrainWait, DeleteSources, ContextDelete, Goto, After
  <2>8. QED   BY <2>0, <2>1, <2>2, <2>3, <2>4, <2>5, <2>6, <2>7 DEF MainStep
<1>2. CASE ~Main
  <2>1. UNCHANGED mainVars
    BY <1>2 DEF Next, MainFails, CreateFails, SendFails, HistAsserts, DeleteFails, Callback,
      CallbackStep, StableSub, StableAssert, ReclaimLoad, ReclaimStore, Acks, StoreAck,
      Reclaims, ForceReclaim, Registers, RegistrationComplete, Terminated, vars
  <2>2. QED   BY <2>1 DEF mainVars
<1>3. QED   BY <1>1, <1>2

\* Every step of either thread is a step of PubRun or leaves its variables alone.
LEMMA RunStep ==
  ASSUME TypeOK, Control, Planned, [Next]_vars
  PROVE  [Run!RunNext]_(Run!runVars)
<1> DEFINE plan  == [srcs |-> opt.srcs, warmup |-> PrimeSent + WarmupLeft, msgs |-> opt.msgs]
           warm  == CASE call = "none"   -> 0
                      [] call = "prime"  -> Accepted
                      [] call = "warmup" -> PrimeSent + Accepted
                      [] call = "timed"  -> PrimeSent + WarmupLeft
           measured == IF call = "timed" THEN Accepted ELSE 0
<1>0. /\ opt.srcs \in Nat /\ opt.warmup \in Int /\ opt.msgs \in Nat
      /\ num_sent \in Nat /\ warmup_loops \in Int
      /\ call \in {"none", "prime", "warmup", "timed"}
  BY OptTypes DEF TypeOK
<1>a. opt' = opt
  BY DEF Next, Main, MainFails, Callback, Acks, Reclaims, Registers, Terminated, vars
<1>b. PrimeSent' = PrimeSent /\ WarmupLeft' = WarmupLeft /\ plan' = plan
  BY <1>a DEF PrimeSent, WarmupLeft
<1>c. PrimeSent \in Nat /\ WarmupLeft \in Nat
  BY <1>0 DEF PrimeSent, WarmupLeft
<1>s. ASSUME UNCHANGED <<RunStage, warm, measured, Turn, sent>>
      PROVE  UNCHANGED Run!runVars
  BY <1>s, <1>b DEF Run!runVars
<1>1. CASE Main /\ ~TooManySources /\ ~SendNowhere
  <2>0. ~died /\ died' = died /\ MainStep
    BY <1>1 DEF Main, MainStep, CreateSource, SourcesCreated, RegistrationWait,
      RegistrationDone, mainVars, StartWarmup, StartTimed, Send, CountSend, LoopExit, Report,
      DrainDone, DrainWait, DeleteSources, ContextDelete, Goto
  <2>1. CASE Send
    <3>1. /\ pc = "send" /\ pc' = "count" /\ num_sent < num_sends /\ num_srcs = opt.srcs
          /\ local_cur_src \in Srcs
          /\ sent' = [sent EXCEPT ![local_cur_src] = @ + 1]
          /\ UNCHANGED <<call, num_sent, num_srcs, local_cur_src>>
      BY <1>0, <2>1 DEF Send, Control, TypeOK, Srcs
    <3>2. /\ Turn = local_cur_src
          /\ Turn' = IF Turn = opt.srcs - 1 THEN 0 ELSE Turn + 1
      BY <3>1 DEF Turn, NextSrc
    <3>3. Run!SendOnTurn   BY <3>1, <3>2 DEF Run!SendOnTurn, Run!Sources, Srcs
    <3>4. Accepted = num_sent /\ Accepted' = num_sent + 1
      BY <1>0, <3>1 DEF Accepted, Uncounted
    <3>5. RunStage' = RunStage /\ RunStage = IF call = "timed" THEN "measure" ELSE "warmup"
      BY <2>0, <3>1 DEF RunStage
    <3>6. CASE call = "timed"
      <4>1. warm' = warm /\ measured = num_sent /\ measured' = num_sent + 1
        BY <3>1, <3>4, <3>6, <1>b
      <4>2. num_sent < opt.msgs   BY <3>1, <3>6 DEF num_sends
      <4>3. Run!MeasuredSend
        BY <3>3, <3>5, <3>6, <4>1, <4>2, <1>b DEF Run!MeasuredSend
      <4>4. QED   BY <4>3 DEF Run!RunNext
    <3>7. CASE call \in {"prime", "warmup"}
      <4>1. measured = 0 /\ measured' = 0   BY <3>1, <3>7
      <4>2. CASE call = "prime"
        <5>1. warm = num_sent /\ warm' = num_sent + 1   BY <3>1, <3>4, <4>2
        <5>2. num_sent < PrimeSent + WarmupLeft
          BY <1>0, <1>c, <3>1, <4>2 DEF num_sends, Planned
        <5>3. Run!WarmupSend
          BY <3>3, <3>5, <4>1, <4>2, <5>1, <5>2, <1>b DEF Run!WarmupSend
        <5>4. QED   BY <5>3 DEF Run!RunNext
      <4>3. CASE call = "warmup"
        <5>1. warm = PrimeSent + num_sent /\ warm' = PrimeSent + num_sent + 1
          BY <1>0, <1>b, <1>c, <3>1, <3>4, <4>3
        <5>2. PrimeSent + num_sent < PrimeSent + WarmupLeft
          BY <1>0, <1>c, <3>1, <4>3 DEF num_sends, Planned
        <5>3. Run!WarmupSend
          BY <3>3, <3>5, <4>1, <4>3, <5>1, <5>2, <1>b DEF Run!WarmupSend
        <5>4. QED   BY <5>3 DEF Run!RunNext
      <4>4. QED   BY <3>7, <4>2, <4>3
    <3>8. QED   BY <1>0, <3>1, <3>6, <3>7 DEF Control
  <2>2. CASE StartTimed
    <3>1. /\ pc \in {"measure", "warm"} /\ pc' = "send" /\ call' = "timed" /\ num_sent' = 0
          /\ local_cur_src' = global_cur_src /\ sent' = sent
          /\ pc = "warm" => warmup_loops <= 0
      BY <2>2 DEF StartTimed, EnterLoop
    <3>2. call # "timed"   BY <3>1 DEF Control, After
    <3>3. Turn' = Turn   BY <3>1 DEF Turn
    <3>4. RunStage = "warmup" /\ RunStage' = "measure"
      BY <2>0, <3>1, <3>2 DEF RunStage
    <3>5. Accepted = num_sent /\ Accepted' = 0   BY <1>0, <3>1 DEF Accepted, Uncounted
    <3>6. warm = PrimeSent + WarmupLeft
      <4>1. CASE call = "none"
        BY <1>0, <1>c, <3>1, <4>1 DEF Planned, WarmupLeft, PrimeSent
      <4>2. CASE call = "prime"
        BY <1>0, <1>c, <3>1, <3>5, <4>2 DEF Planned
      <4>3. CASE call = "warmup"
        BY <1>0, <1>c, <3>1, <3>5, <4>3 DEF Planned
      <4>4. QED   BY <1>0, <3>2, <4>1, <4>2, <4>3
    <3>7. warm' = PrimeSent + WarmupLeft /\ measured = 0 /\ measured' = 0
      BY <1>b, <3>1, <3>2, <3>5
    <3>8. Run!StartMeasure
      BY <1>b, <3>1, <3>3, <3>4, <3>6, <3>7 DEF Run!StartMeasure
    <3>9. QED   BY <3>8 DEF Run!RunNext
  <2>3. CASE StartWarmup
    <3>1. /\ pc = "warm" /\ pc' = "send" /\ call' = "warmup" /\ num_sent' = 0
          /\ local_cur_src' = global_cur_src /\ sent' = sent
      BY <2>3 DEF StartWarmup, EnterLoop
    <3>2. call \in {"none", "prime"}   BY <1>0, <3>1 DEF Control, After, Planned
    <3>3. Accepted = num_sent /\ Accepted' = 0   BY <1>0, <3>1 DEF Accepted, Uncounted
    <3>4. warm = PrimeSent   BY <1>c, <3>1, <3>2, <3>3 DEF Planned
    <3>5. warm' = PrimeSent   BY <1>b, <1>c, <3>1, <3>3
    <3>6. UNCHANGED <<RunStage, measured, Turn>>
      BY <2>0, <3>1, <3>2 DEF RunStage, Turn
    <3>7. QED   BY <1>s, <3>1, <3>4, <3>5, <3>6
  <2>4. CASE SourcesCreated
    <3>1. /\ pc = "create" /\ pc' \in {"send", "reg_wait", "warm"} /\ call = "none"
          /\ sent' = sent /\ global_cur_src' = global_cur_src
          /\ pc' = "send" => call' = "prime" /\ num_sent' = 0 /\ local_cur_src' = global_cur_src
          /\ pc' # "send" => call' = call
      <4>1. CASE ~opt.persist /\ warmup_loops > 0
        BY <2>4, <4>1 DEF SourcesCreated, EnterLoop, Control, Before
      <4>2. CASE opt.persist \/ ~(warmup_loops > 0)
        BY <2>4, <4>2 DEF SourcesCreated, EnterLoop, Control, Before
      <4>3. QED   BY <4>1, <4>2
    <3>2. UNCHANGED <<RunStage, warm, measured, Turn>>
      BY <2>0, <3>1 DEF RunStage, Turn, Accepted, Uncounted
    <3>3. QED   BY <1>s, <3>1, <3>2
  <2>5. CASE LoopExit
    <3>1. /\ pc = "send" /\ pc' \in {"warm", "measure", "report"}
          /\ global_cur_src' = local_cur_src
          /\ UNCHANGED <<call, num_sent, local_cur_src, sent>>
      BY <2>5 DEF LoopExit
    <3>2. UNCHANGED <<RunStage, warm, measured, Turn>>
      BY <1>b, <2>0, <3>1 DEF RunStage, Turn, Accepted, Uncounted
    <3>3. QED   BY <1>s, <3>1, <3>2
  <2>6. CASE CountSend
    <3>1. /\ pc = "count" /\ pc' = "send" /\ num_sent' = num_sent + 1
          /\ local_cur_src' = NextSrc(local_cur_src)
          /\ UNCHANGED <<call, sent>>
      BY <2>6 DEF CountSend
    <3>2. UNCHANGED <<RunStage, Turn>>   BY <2>0, <3>1 DEF RunStage, Turn
    <3>3. Accepted' = Accepted   BY <1>0, <3>1 DEF Accepted, Uncounted
    <3>4. UNCHANGED <<warm, measured>>   BY <1>b, <3>1, <3>3
    <3>5. QED   BY <1>s, <3>1, <3>2, <3>4
  <2>7. CASE Report
    <3>1. /\ pc = "report" /\ pc' \in {"drain", "linger"} /\ call = "timed"
          /\ num_sent = opt.msgs
          /\ UNCHANGED <<call, num_sent, global_cur_src, sent>>
      BY <2>7 DEF Report, Goto, Control, After
    <3>2. RunStage = "measure" /\ RunStage' = "reported" /\ Turn' = Turn
      BY <2>0, <3>1 DEF RunStage, Turn
    <3>3. Accepted = num_sent /\ Accepted' = num_sent   BY <1>0, <3>1 DEF Accepted, Uncounted
    <3>4. warm' = warm /\ measured = opt.msgs /\ measured' = measured
      BY <1>b, <3>1, <3>3
    <3>5. Run!ReportRate   BY <1>b, <3>1, <3>2, <3>4 DEF Run!ReportRate
    <3>6. QED   BY <3>5 DEF Run!RunNext
  <2>8. CASE DeleteSources
    <3>1. /\ pc = "linger" /\ pc' = "deleted"
          /\ UNCHANGED <<call, num_sent, global_cur_src, sent>>
      BY <2>8 DEF DeleteSources, Goto
    <3>2. RunStage = "reported" /\ RunStage' = "closed" /\ Turn' = Turn
      BY <2>0, <3>1 DEF RunStage, Turn
    <3>3. UNCHANGED <<warm, measured>>   BY <1>b, <3>1 DEF Accepted, Uncounted
    <3>4. Run!CloseSources   BY <1>b, <3>1, <3>2, <3>3 DEF Run!CloseSources
    <3>5. QED   BY <3>4 DEF Run!RunNext
  <2>9. CASE CreateSource \/ RegistrationWait \/ RegistrationDone
    <3>1. /\ pc \in {"create", "reg_wait"} /\ pc' \in {"create", "reg_wait", "warm"}
          /\ UNCHANGED <<call, num_sent, global_cur_src, sent>> /\ call = "none"
      BY <2>9 DEF CreateSource, TooManySources, SendNowhere, RegistrationWait,
        RegistrationDone, mainVars, Control, Before
    <3>2. UNCHANGED <<RunStage, warm, measured, Turn>>
      BY <1>b, <2>0, <3>1 DEF RunStage, Turn, Accepted, Uncounted
    <3>3. QED   BY <1>s, <3>1, <3>2
  <2>10. CASE DrainDone \/ DrainWait \/ ContextDelete
    <3>1. /\ \/ pc \in {"drain", "linger"} /\ pc' \in {"drain", "linger"}
             \/ pc = "deleted" /\ pc' = "done"
          /\ UNCHANGED <<call, num_sent, global_cur_src, sent>>
      BY <2>10 DEF DrainDone, DrainWait, ContextDelete, Goto
    <3>2. UNCHANGED <<RunStage, warm, measured, Turn>>
      BY <1>b, <2>0, <3>1 DEF RunStage, Turn, Accepted, Uncounted
    <3>3. QED   BY <1>s, <3>1, <3>2
  <2>11. QED
    BY <1>1, <2>0, <2>1, <2>2, <2>3, <2>4, <2>5, <2>6, <2>7, <2>8, <2>9, <2>10 DEF MainStep
<1>2. CASE ~Main \/ TooManySources \/ SendNowhere
  <2>1. UNCHANGED mainVars /\ (died => died')
    BY <1>2 DEF Next, TooManySources, SendNowhere, MainFails, CreateFails, SendFails,
      HistAsserts, DeleteFails, Callback, CallbackStep, StableSub, StableAssert, ReclaimLoad,
      ReclaimStore, Acks, StoreAck, Reclaims, ForceReclaim, Registers, RegistrationComplete,
      Terminated, vars
  <2>2. UNCHANGED <<warm, measured, Turn, sent>>
    BY <1>b, <2>1 DEF mainVars, Turn, NextSrc, Accepted, Uncounted
  <2>3. CASE died \/ ~died'
    <3>1. UNCHANGED RunStage   BY <2>1, <2>3 DEF RunStage, mainVars
    <3>2. QED   BY <1>s, <2>2, <3>1
  <2>4. CASE ~died /\ died'
    <3>1. RunStage # "failed" /\ RunStage' = "failed"   BY <2>4 DEF RunStage
    <3>2. Run!Fail   BY <1>b, <2>2, <3>1 DEF Run!Fail
    <3>3. QED   BY <3>2 DEF Run!RunNext
  <2>5. QED   BY <2>3, <2>4
<1>3. QED   BY <1>1, <1>2

\* Whatever the threads and the Stores do, a run of um_perf_pub is a run of PubRun: the
\* planned warmup, then exactly the planned messages, in rotation, and the report only
\* after the last of them.
THEOREM ImplementsPubRun == Spec => RefinesPubRun
<1>1. Init => Run!RunInit /\ Planned
  <2> SUFFICES ASSUME Init PROVE Run!RunInit /\ Planned
    OBVIOUS
  <2>1. /\ opt.srcs \in Nat /\ opt.warmup \in Int /\ opt.msgs \in Nat \ {0}
    BY OptTypes DEF Init
  <2>2. PrimeSent \in Nat /\ WarmupLeft \in Nat   BY <2>1 DEF PrimeSent, WarmupLeft
  <2>3. [srcs |-> opt.srcs, warmup |-> PrimeSent + WarmupLeft, msgs |-> opt.msgs]
          \in [srcs : Nat, warmup : Nat, msgs : Nat \ {0}]
    BY <2>1, <2>2
  <2>4. RunStage = "warmup" /\ Turn = 0   BY DEF Init, RunStage, Turn
  <2>5. Run!RunInit
    BY <2>3, <2>4 DEF Init, Run!RunInit, Run!Sources, Srcs
  <2>6. Planned   BY DEF Init, Planned
  <2>7. QED   BY <2>5, <2>6
<1>2. TypeOK /\ Control /\ Planned /\ [Next]_vars => [Run!RunNext]_(Run!runVars) /\ Planned'
  BY RunStep, PlannedStep
<1>3. QED   BY <1>1, <1>2, TypeCorrect, PTL DEF Spec, RefinesPubRun, Run!RunSpec
=============================================================================
