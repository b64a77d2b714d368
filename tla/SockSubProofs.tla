---------------------------- MODULE SockSubProofs ----------------------------
(***************************************************************************)
(* Proofs about SockSub, for any size of the socket buffer and any number  *)
(* of datagrams and errors.                                                *)
(***************************************************************************)
EXTENDS SockSub, TLAPS

----------------------------------------------------------------------------
(* The inductive invariant.                                                *)

\* What was accepted has been read, has been found damaged or is in the buffer.
Accounted == accepted = read + discarded + Len(buffer)

\* An event is reported for a reason, and what can be read at it is still there.
EventHolds ==
  pc = "event" =>
    /\ events # {}
    /\ "err" \in events => errors > 0
    /\ "in" \in events => buffer # <<>>

\* An error pending, or an empty datagram buffered, has come up.
FaultsCounted ==
  /\ error => errors > 0
  /\ \A k \in DOMAIN buffer : buffer[k] = "empty" => empties > 0

IInv == TypeOK /\ Accounted /\ EventHolds /\ FaultsCounted /\ DeafOnlyAfterFault

LEMMA InitInv == Init => IInv
<1> SUFFICES ASSUME Init PROVE IInv   OBVIOUS
<1>1. BufferLimit \in Nat /\ MaxArrivals \in Nat /\ MaxErrors \in Nat   BY LimitsAssumption
<1>2. buffer \in Seq(Datagrams) /\ Len(buffer) = 0 /\ DOMAIN buffer = {}
  BY DEF Init
<1>3. TypeOK
  <2>1. /\ pc \in {"epoll", "event"} /\ events \subseteq {"in", "err"} /\ count \in Counts
        /\ open \in BOOLEAN /\ error \in BOOLEAN
    BY DEF Init, Counts
  <2>2. /\ arrived \in 0..MaxArrivals /\ accepted \in 0..arrived /\ read \in 0..accepted
        /\ discarded \in 0..(accepted - read)
        /\ errors \in 0..MaxErrors /\ empties \in 0..accepted
    BY <1>1 DEF Init
  <2>3. QED   BY <1>1, <1>2, <2>1, <2>2 DEF TypeOK
<1>4. Accounted /\ EventHolds /\ FaultsCounted /\ DeafOnlyAfterFault
  BY <1>2 DEF Init, Accounted, EventHolds, FaultsCounted, DeafOnlyAfterFault
<1>5. QED   BY <1>3, <1>4 DEF IInv

\* The datagram that is appended.
LEMMA AppendStep ==
  ASSUME NEW s \in Seq(Datagrams), NEW d \in Datagrams
  PROVE  /\ Append(s, d) \in Seq(Datagrams)
         /\ Len(Append(s, d)) = Len(s) + 1
         /\ Append(s, d) # <<>>
         /\ \A k \in DOMAIN Append(s, d) :
              (k \in DOMAIN s /\ Append(s, d)[k] = s[k]) \/ Append(s, d)[k] = d
OBVIOUS

\* The datagram that is taken.
LEMMA TailStep ==
  ASSUME NEW s \in Seq(Datagrams), s # <<>>
  PROVE  /\ Tail(s) \in Seq(Datagrams)
         /\ Len(Tail(s)) = Len(s) - 1
         /\ 1 \in DOMAIN s /\ Head(s) = s[1] /\ Head(s) \in Datagrams
         /\ \A k \in DOMAIN Tail(s) : k + 1 \in DOMAIN s /\ Tail(s)[k] = s[k + 1]
OBVIOUS

LEMMA StepInv == IInv /\ [Next]_vars => IInv'
<1> SUFFICES ASSUME IInv, [Next]_vars PROVE IInv'   OBVIOUS
<1>1. BufferLimit \in Nat /\ MaxArrivals \in Nat /\ MaxErrors \in Nat   BY LimitsAssumption
<1>2. /\ TypeOK /\ Accounted /\ EventHolds /\ FaultsCounted /\ DeafOnlyAfterFault
      /\ buffer \in Seq(Datagrams) /\ Len(buffer) \in Nat
  BY DEF IInv, TypeOK
<1> USE DEF Accounted, EventHolds, FaultsCounted, DeafOnlyAfterFault
<1>3. ASSUME NEW d \in Datagrams, Arrives(d) PROVE IInv'
  <2>1. CASE open /\ Len(buffer) < BufferLimit
    <3>1. buffer' = Append(buffer, d)   BY <1>3, <2>1 DEF Arrives
    <3>2. /\ buffer' \in Seq(Datagrams) /\ Len(buffer') = Len(buffer) + 1
          /\ buffer' # <<>>
          /\ \A k \in DOMAIN buffer' :
               (k \in DOMAIN buffer /\ buffer'[k] = buffer[k]) \/ buffer'[k] = d
      BY <1>2, <3>1, AppendStep
    <3>3. /\ accepted' = accepted + 1 /\ arrived' = arrived + 1 /\ arrived < MaxArrivals
          /\ empties' = IF d = "empty" THEN empties + 1 ELSE empties
          /\ UNCHANGED <<pc, events, count, open, error, errors, read, discarded>>
      BY <1>3, <2>1 DEF Arrives
    <3>4. TypeOK'   BY <1>1, <1>2, <2>1, <3>2, <3>3 DEF TypeOK
    <3>5. Accounted' /\ EventHolds' /\ DeafOnlyAfterFault'
      BY <1>2, <3>2, <3>3 DEF TypeOK
    <3>6. FaultsCounted'   BY <1>2, <3>2, <3>3 DEF TypeOK
    <3>7. QED   BY <3>4, <3>5, <3>6 DEF IInv
  <2>2. CASE ~(open /\ Len(buffer) < BufferLimit)
    <3>1. /\ arrived' = arrived + 1 /\ arrived < MaxArrivals
          /\ UNCHANGED <<pc, events, count, open, error, errors, read, discarded, buffer, accepted, empties>>
      BY <1>3, <2>2 DEF Arrives
    <3>2. TypeOK'   BY <1>1, <1>2, <3>1 DEF TypeOK
    <3>3. QED   BY <1>2, <3>1, <3>2 DEF IInv
  <2>3. QED   BY <2>1, <2>2
<1>4. ASSUME Breaks PROVE IInv'
  <2>1. TypeOK'   BY <1>1, <1>2, <1>4 DEF TypeOK, Breaks
  <2>2. QED   BY <1>1, <1>2, <1>4, <2>1 DEF TypeOK, Breaks, IInv
<1>5. ASSUME EpollReturns PROVE IInv'
  <2>1. Ready \subseteq {"in", "err"} /\ Ready # {}   BY <1>5 DEF EpollReturns, Ready
  <2>2. TypeOK'   BY <1>2, <1>5, <2>1 DEF TypeOK, EpollReturns, net
  <2>3. EventHolds'   BY <1>2, <1>5, <2>1 DEF EpollReturns, net, Ready
  <2>4. QED   BY <1>2, <1>5, <2>2, <2>3 DEF EpollReturns, net, IInv
<1>6. ASSUME CloseOnError PROVE IInv'
  <2>1. errors > 0
    <3>1. "err" \in events   BY <1>2, <1>6 DEF CloseOnError, TypeOK
    <3>2. QED   BY <1>2, <1>6, <3>1 DEF CloseOnError
  <2>2. TypeOK'   BY <1>2, <1>6 DEF TypeOK, CloseOnError, net
  <2>3. QED   BY <1>2, <1>6, <2>1, <2>2 DEF CloseOnError, net, IInv
<1>7. ASSUME Receive PROVE IInv'
  <2>0. pc = "event" /\ "in" \in events /\ buffer # <<>> /\ pc' = "epoll" /\ open' = ~Closing(count')
    BY <1>2, <1>7 DEF Receive
  <2>1. CASE error
    <3>1. count' = "error" /\ UNCHANGED <<buffer, read, discarded, events, arrived, accepted, errors, empties>>
          /\ error' = FALSE
      BY <1>7, <2>1 DEF Receive
    <3>2. open' = TRUE   BY <2>0, <3>1 DEF Closing
    <3>3. TypeOK'   BY <1>2, <2>0, <3>1, <3>2 DEF TypeOK, Counts
    <3>4. QED   BY <1>2, <2>0, <3>1, <3>2, <3>3 DEF IInv
  <2>2. CASE ~error
    <3>1. /\ buffer' = Tail(buffer)
          /\ count' = IF Head(buffer) = "damaged" THEN "again" ELSE Head(buffer)
          /\ \/ read' = read + 1 /\ discarded' = discarded
             \/ read' = read /\ discarded' = discarded + 1
          /\ UNCHANGED <<error, events, arrived, accepted, errors, empties>>
      BY <1>7, <2>2 DEF Receive
    <3>2. /\ buffer' \in Seq(Datagrams) /\ Len(buffer') = Len(buffer) - 1
          /\ 1 \in DOMAIN buffer /\ Head(buffer) = buffer[1] /\ Head(buffer) \in Datagrams
          /\ \A k \in DOMAIN buffer' : k + 1 \in DOMAIN buffer /\ buffer'[k] = buffer[k + 1]
      BY <1>2, <2>0, <3>1, TailStep
    <3>3. open' \in BOOLEAN   BY <2>0 DEF Closing
    <3>4. TypeOK'
      <4>1. read' \in 0..accepted' /\ discarded' \in 0..(accepted' - read')
        <5>1. /\ read \in Nat /\ discarded \in Nat /\ accepted \in Nat
              /\ accepted = read + discarded + Len(buffer) /\ accepted' = accepted
          BY <1>2, <3>1 DEF TypeOK
        <5>2. Len(buffer) >= 1   BY <1>2, <3>2
        <5>3. read' \in Nat /\ discarded' \in Nat /\ read' + discarded' <= accepted
          BY <3>1, <5>1, <5>2
        <5>4. QED   BY <5>1, <5>3
      <4>2. count' \in Counts   BY <3>1, <3>2 DEF Counts, Datagrams
      <4>3. QED   BY <1>1, <1>2, <2>0, <3>1, <3>2, <3>3, <4>1, <4>2 DEF TypeOK
    <3>5. Accounted' /\ EventHolds'   BY <1>2, <2>0, <3>1, <3>2 DEF TypeOK
    <3>6. FaultsCounted' /\ DeafOnlyAfterFault'
      BY <1>2, <2>0, <3>1, <3>2 DEF Closing
    <3>7. QED   BY <3>4, <3>5, <3>6 DEF IInv
  <2>3. QED   BY <2>1, <2>2
<1>8. CASE UNCHANGED vars
  <2>1. TypeOK'   BY <1>2, <1>8 DEF TypeOK, vars, net
  <2>2. QED   BY <1>2, <1>8, <2>1 DEF vars, net, IInv
<1>9. QED   BY <1>3, <1>4, <1>5, <1>6, <1>7, <1>8 DEF Next, Loop, Idle

LEMMA Invariance == Spec => []IInv
BY InitInv, StepInv, PTL DEF Spec

\* The type invariant: in particular, no datagram is read that was not accepted.
THEOREM TypeCorrect == Spec => []TypeOK
BY Invariance, PTL DEF IInv

\* Without an error on the socket and without an empty datagram the socket stays open.
THEOREM DeafForCause == Spec => []DeafOnlyAfterFault
BY Invariance, PTL DEF IInv
=============================================================================
