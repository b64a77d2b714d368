------------------------------- MODULE PubRun -------------------------------
(***************************************************************************)
(* What a run of the publisher promises, whatever the threads, the Stores  *)
(* and the flight size do: first all the messages of the warmup, then      *)
(* exactly the messages to measure, over the sources in rotation, then the *)
(* report, then the sources are closed.  At any point it may exit with an  *)
(* error instead; without a source it cannot send and can do nothing else. *)
(***************************************************************************)
EXTENDS Integers

CONSTANT Plans   \* what runs may be asked to send

ASSUME PlansAssumption ==
  Plans \subseteq [srcs : Nat, warmup : Nat, msgs : Nat \ {0}]

VARIABLES
  plan,      \* what this run is to send
  stage,     \* "warmup", "measure", "reported", "closed" or "failed"
  warm,      \* messages sent in the warmup
  measured,  \* messages sent in the timed loop
  turn,      \* the source that carries the next message
  sent       \* messages sent on each source

runVars == <<plan, stage, warm, measured, turn, sent>>

Sources == 0..(plan.srcs - 1)

RunInit ==
  /\ plan \in Plans
  /\ stage = "warmup"
  /\ warm = 0
  /\ measured = 0
  /\ turn = 0
  /\ sent = [s \in Sources |-> 0]

SendOnTurn ==
  /\ turn \in Sources
  /\ sent' = [sent EXCEPT ![turn] = @ + 1]
  /\ turn' = IF turn = plan.srcs - 1 THEN 0 ELSE turn + 1

WarmupSend ==
  /\ stage = "warmup"
  /\ warm < plan.warmup
  /\ SendOnTurn
  /\ warm' = warm + 1
  /\ UNCHANGED <<plan, stage, measured>>

MeasuredSend ==
  /\ stage = "measure"
  /\ measured < plan.msgs
  /\ SendOnTurn
  /\ measured' = measured + 1
  /\ UNCHANGED <<plan, stage, warm>>

StartMeasure ==
  /\ stage = "warmup"
  /\ warm = plan.warmup
  /\ stage' = "measure"
  /\ UNCHANGED <<plan, warm, measured, turn, sent>>

ReportRate ==
  /\ stage = "measure"
  /\ measured = plan.msgs
  /\ stage' = "reported"
  /\ UNCHANGED <<plan, warm, measured, turn, sent>>

CloseSources ==
  /\ stage = "reported"
  /\ stage' = "closed"
  /\ UNCHANGED <<plan, warm, measured, turn, sent>>

Fail ==
  /\ stage # "failed"
  /\ stage' = "failed"
  /\ UNCHANGED <<plan, warm, measured, turn, sent>>

RunNext ==
  \/ WarmupSend \/ MeasuredSend
  \/ StartMeasure \/ ReportRate \/ CloseSources \/ Fail

RunSpec == RunInit /\ [][RunNext]_runVars
=============================================================================
