------------------------------- MODULE MCWaiting -------------------------------
(***************************************************************************)
(* The components that let callers wait for each other or for something to *)
(* become free: DeploymentGate, PaymentStatus, PermitPool and ReviewBatch. *)
(* They share nothing, so one run checks them side by side: a behaviour    *)
(* chooses a component at the start and takes that component's steps.      *)
(***************************************************************************)
EXTENDS DeploymentGate, PaymentStatus, PermitPool

CONSTANTS Reviewers, Waiters, TimedWaiters

VARIABLES component, kind, approved, waiter

batchVars == <<kind, approved, waiter>>

Batch == INSTANCE ReviewBatch WITH Timed <- TimedWaiters

ASSUME WaitingAssumption ==
  GateAssumption /\ PaymentAssumption /\ PoolAssumption /\ Batch!BatchAssumption

MCInit ==
  /\ component \in {"gate", "payment", "pool", "batch"}
  /\ Init /\ PaymentInit /\ PoolInit /\ Batch!Init

MCNext ==
  /\ UNCHANGED component
  /\ \/ component = "gate" /\ Next /\ UNCHANGED <<paymentVars, poolVars, batchVars>>
     \/ component = "payment" /\ PaymentNext /\ UNCHANGED <<gateVars, poolVars, batchVars>>
     \/ component = "pool" /\ PoolNext /\ UNCHANGED <<gateVars, paymentVars, batchVars>>
     \/ component = "batch" /\ Batch!Next /\ UNCHANGED <<gateVars, paymentVars, poolVars>>

MCVars == <<component, gateVars, paymentVars, poolVars, batchVars>>

(* No fair action of the gate is enabled while it is not the component.    *)
MCSpec == MCInit /\ [][MCNext]_MCVars /\ Fairness

(* The variables of the components have their types.                       *)
TypesOK == TypeOK /\ PaymentTypeOK /\ PoolTypeOK /\ Batch!TypeOK

(* ReviewBatch: see NobodySleepsOnApproved and AnswersAreCurrent there.    *)
BatchNobodySleeps == TypesOK /\ Batch!NobodySleepsOnApproved
BatchAnswersAreCurrent == Batch!AnswersAreCurrent
=============================================================================
