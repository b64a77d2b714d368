------------------------------- MODULE SockSub ------------------------------
(***************************************************************************)
(* sock_perf_sub: the receive loop of main() on its one socket.            *)
(*                                                                         *)
(* The socket is external: a datagram that arrives is buffered, or dropped *)
(* when the buffer is full; a damaged one is found out and discarded by    *)
(* the recvfrom() that would have returned it.  main() registers it with epoll without        *)
(* EPOLLET, so it is reported as long as something is buffered or an error *)
(* is pending; a closed descriptor is reported no more.                    *)
(***************************************************************************)
EXTENDS Integers, Sequences

CONSTANTS
  BufferLimit,   \* datagrams the socket buffer holds
  MaxArrivals,   \* bound: datagrams that arrive
  MaxErrors      \* bound: errors that come up on the socket

ASSUME LimitsAssumption ==
  BufferLimit \in Nat \ {0} /\ MaxArrivals \in Nat /\ MaxErrors \in Nat

VARIABLES
  pc,            \* "epoll" in epoll_wait(), "event" with an event in hand
  events,        \* the flags of that event
  count,         \* what the last recvfrom() has returned, "none" before
  open,          \* the socket is open
  buffer,        \* external: datagrams buffered, a sequence over Datagrams
  error,         \* external: an error is pending on the socket
  arrived,       \* history: datagrams that reached the host
  accepted,      \* history: datagrams buffered
  read,          \* history: datagrams recvfrom() has returned
  discarded,     \* history: damaged datagrams discarded by recvfrom()
  errors,        \* history: errors that came up
  empties        \* history: empty datagrams buffered

net == <<buffer, error, arrived, accepted, errors, empties>>
vars == <<pc, events, count, open, net, read, discarded>>

\* With contents, of length zero, or damaged on the way.
Datagrams == {"data", "empty", "damaged"}
Counts == {"none", "data", "empty", "error", "again"}

TypeOK ==
  /\ pc \in {"epoll", "event"}
  /\ events \subseteq {"in", "err"}
  /\ count \in Counts
  /\ open \in BOOLEAN
  /\ buffer \in Seq(Datagrams) /\ Len(buffer) <= BufferLimit
  /\ error \in BOOLEAN
  /\ arrived \in 0..MaxArrivals
  /\ accepted \in 0..arrived
  /\ read \in 0..accepted
  /\ discarded \in 0..(accepted - read)
  /\ errors \in 0..MaxErrors
  /\ empties \in 0..accepted

Init ==
  /\ pc = "epoll"
  /\ events = {}
  /\ count = "none"
  /\ open = TRUE
  /\ buffer = <<>>
  /\ error = FALSE
  /\ arrived = 0
  /\ accepted = 0
  /\ read = 0
  /\ discarded = 0
  /\ errors = 0
  /\ empties = 0

----------------------------------------------------------------------------
(* External: the network and the socket.                                   *)

Arrives(d) ==
  /\ arrived < MaxArrivals
  /\ arrived' = arrived + 1
  /\ IF open /\ Len(buffer) < BufferLimit
       THEN /\ buffer' = Append(buffer, d)
            /\ accepted' = accepted + 1
            /\ empties' = IF d = "empty" THEN empties + 1 ELSE empties
       ELSE UNCHANGED <<buffer, accepted, empties>>
  /\ UNCHANGED <<pc, events, count, open, error, errors, read, discarded>>

Breaks ==
  /\ open
  /\ errors < MaxErrors
  /\ error' = TRUE
  /\ errors' = errors + 1
  /\ UNCHANGED <<pc, events, count, open, buffer, arrived, accepted, empties, read, discarded>>

MutReady ==   \* registered with EPOLLET: only the first datagram of a burst is reported
  (IF Len(buffer) = 1 THEN {"in"} ELSE {}) \union (IF error THEN {"err"} ELSE {})

\* The flags epoll_wait() reports for the socket: main() registers it with EPOLLIN alone,
\* so for as long as something is buffered, and errors are always reported.
Ready == (IF buffer # <<>> THEN {"in"} ELSE {}) \union (IF error THEN {"err"} ELSE {})

----------------------------------------------------------------------------
\* epoll_wait() without a timeout returns an event.
EpollReturns ==
  /\ pc = "epoll"
  /\ open
  /\ Ready # {}
  /\ events' = Ready
  /\ pc' = "event"
  /\ UNCHANGED <<count, open, net, read, discarded>>

\* EPOLLERR, or not ready for reading: "epoll error", and the socket is closed.
CloseOnError ==
  /\ pc = "event"
  /\ "err" \in events \/ "in" \notin events
  /\ open' = FALSE
  /\ pc' = "epoll"
  /\ UNCHANGED <<events, count, net, read, discarded>>

MutClosing(c) == c \in {"empty", "data"}   \* closes after the first datagram
Closing(c) == c = "empty"

\* The event allows a read: at most one datagram is taken.  A length of zero closes the
\* socket.  A failing recvfrom() does not: it returns an error that has come up since the
\* event, and has it cleared, or EAGAIN, the datagram it was told of being damaged.
Receive ==
  /\ pc = "event"
  /\ "err" \notin events /\ "in" \in events
  /\ IF error
       THEN /\ count' = "error"
            /\ error' = FALSE
            /\ UNCHANGED <<buffer, read, discarded>>
       ELSE /\ buffer' = Tail(buffer)
            /\ IF Head(buffer) = "damaged"
                 THEN count' = "again" /\ discarded' = discarded + 1 /\ UNCHANGED read
                 ELSE count' = Head(buffer) /\ read' = read + 1 /\ UNCHANGED discarded
            /\ UNCHANGED error
  /\ open' = ~Closing(count')
  /\ pc' = "epoll"
  /\ UNCHANGED <<events, arrived, accepted, errors, empties>>

Loop == EpollReturns \/ CloseOnError \/ Receive
Idle == pc = "epoll" /\ (~open \/ Ready = {}) /\ UNCHANGED vars   \* blocked in epoll_wait()

Next == Loop \/ Breaks \/ (\E d \in Datagrams : Arrives(d)) \/ Idle

\* The process is scheduled; the network owes nothing.
Spec == Init /\ [][Next]_vars /\ WF_vars(Loop)

----------------------------------------------------------------------------
(* Properties.                                                             *)

\* One recvfrom() for each event is enough, also when it returns EAGAIN: every datagram
\* the socket has accepted is read in the end, bursts included, or found damaged, unless
\* the socket is closed.
EverythingRead ==
  \A k \in 1..MaxArrivals : (accepted >= k) ~> (read + discarded >= k \/ ~open)

\* The loop goes deaf -- the socket closed, epoll_wait() without end -- only after an
\* error on the socket or a datagram without contents, which no publisher of the
\* repository sends (ASSRT(o_msg_len > 0)).
DeafOnlyAfterFault == ~open => errors > 0 \/ empties > 0
=============================================================================
