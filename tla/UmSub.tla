------------------------------- MODULE UmSub --------------------------------
(***************************************************************************)
(* um_perf_sub: the receivers and rcv_callback().                          *)
(*                                                                         *)
(* main() creates one receiver per topic, all with the same callback, and  *)
(* sleeps.  The context thread calls rcv_callback() for every event of     *)
(* every topic, one after the other; its counters are function statics, so *)
(* all topics share them.  A module that composes this one says which      *)
(* events come and when.                                                   *)
(*                                                                         *)
(* No program of the repository sets FLAGS_TIMESTAMP in a message, so the  *)
(* latency statistics never run; they are left out.                        *)
(***************************************************************************)
EXTENDS Integers

CONSTANT Topics   \* number of topics of the -t option

ASSUME TopicsAssumption == Topics \in Nat

MAX_RCVS == 16

VARIABLES
  o_exit_on_eos,
  num_rcvs,                                 \* receivers created so far
  num_rcv_msgs, num_rx_msgs, num_unrec_loss,
  report,                                   \* the last "rcv event EOS" line
  exited

subVars == <<o_exit_on_eos, num_rcvs, num_rcv_msgs, num_rx_msgs, num_unrec_loss, report, exited>>
counters == <<num_rcv_msgs, num_rx_msgs, num_unrec_loss>>

NoReport == [num_rcv_msgs |-> -1, num_rx_msgs |-> -1, num_unrec_loss |-> -1]
Reports == [num_rcv_msgs : Nat, num_rx_msgs : Nat, num_unrec_loss : Nat]

SubTypeOK ==
  /\ o_exit_on_eos \in BOOLEAN
  /\ num_rcvs \in 0..Topics
  /\ num_rcv_msgs \in Nat
  /\ num_rx_msgs \in Nat
  /\ num_unrec_loss \in Nat
  /\ report = NoReport \/ report \in Reports
  /\ exited \in BOOLEAN

SubInit ==
  /\ o_exit_on_eos \in BOOLEAN
  /\ num_rcvs = 0
  /\ num_rcv_msgs = 0
  /\ num_rx_msgs = 0
  /\ num_unrec_loss = 0
  /\ report = NoReport
  /\ exited = FALSE

\* main(): lbm_rcv_create() for the next topic of the list.
CreateReceiver ==
  /\ ~exited
  /\ num_rcvs < Topics
  /\ num_rcvs < MAX_RCVS
  /\ num_rcvs' = num_rcvs + 1
  /\ UNCHANGED <<o_exit_on_eos, counters, report, exited>>

\* The process exits with an error: a topic too many, a call of the library while the
\* receivers are created, or cprt_set_affinity() in rcv_callback() at a BOS.
SubFails ==
  /\ ~exited
  /\ exited' = TRUE
  /\ UNCHANGED <<o_exit_on_eos, num_rcvs, counters, report>>

----------------------------------------------------------------------------
(* rcv_callback(), by the type of the event.                               *)

MutBos ==   \* the statics keep their values from the run before
  /\ ~exited
  /\ UNCHANGED subVars

MutBosLoss ==   \* the losses of the run before stay
  /\ ~exited
  /\ num_rcv_msgs' = 0
  /\ num_rx_msgs' = 0
  /\ UNCHANGED <<o_exit_on_eos, num_rcvs, num_unrec_loss, report, exited>>

\* LBM_MSG_BOS: a source begins, the counters start again.
Bos ==
  /\ ~exited
  /\ num_rcv_msgs' = 0
  /\ num_rx_msgs' = 0
  /\ num_unrec_loss' = 0
  /\ UNCHANGED <<o_exit_on_eos, num_rcvs, report, exited>>

MutEos ==   \* the counters start again at the end of a stream
  /\ ~exited
  /\ report' = [num_rcv_msgs |-> num_rcv_msgs, num_rx_msgs |-> num_rx_msgs,
                num_unrec_loss |-> num_unrec_loss]
  /\ exited' = o_exit_on_eos
  /\ num_rcv_msgs' = 0
  /\ num_rx_msgs' = 0
  /\ num_unrec_loss' = 0
  /\ UNCHANGED <<o_exit_on_eos, num_rcvs>>

\* LBM_MSG_EOS: the counters are printed; with -E the process exits.
Eos ==
  /\ ~exited
  /\ report' = [num_rcv_msgs |-> num_rcv_msgs, num_rx_msgs |-> num_rx_msgs,
                num_unrec_loss |-> num_unrec_loss]
  /\ exited' = o_exit_on_eos
  /\ UNCHANGED <<o_exit_on_eos, num_rcvs, counters>>

\* LBM_MSG_UNRECOVERABLE_LOSS: one message will not come any more.
UnrecoverableLoss ==
  /\ ~exited
  /\ num_unrec_loss' = num_unrec_loss + 1
  /\ UNCHANGED <<o_exit_on_eos, num_rcvs, num_rcv_msgs, num_rx_msgs, report, exited>>

\* LBM_MSG_UNRECOVERABLE_LOSS_BURST, a registration error or any other event: a line is
\* printed and nothing is counted.
OtherEvent ==
  /\ ~exited
  /\ UNCHANGED subVars

\* LBM_MSG_DATA, with or without LBM_MSG_FLAG_RETRANSMIT.
Data(rx) ==
  /\ ~exited
  /\ num_rcv_msgs' = num_rcv_msgs + 1
  /\ num_rx_msgs' = IF rx THEN num_rx_msgs + 1 ELSE num_rx_msgs
  /\ UNCHANGED <<o_exit_on_eos, num_rcvs, num_unrec_loss, report, exited>>
=============================================================================
