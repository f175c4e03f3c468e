------------------------------- MODULE MCBatches -------------------------------
(***************************************************************************)
(* Calls that run a batch and wait for it: RetryExecutor,                  *)
(* AsyncBatchUploader, CheckoutChecks and FraudScoreBatch.  They share     *)
(* nothing, so one run checks them side by side: a behaviour chooses a     *)
(* component at the start and takes that component's steps.                *)
(***************************************************************************)
EXTENDS RetryExecutor, Sequences

CONSTANTS
  Files, SecondBatch, MaxConcurrent, Cancellable, AsyncEndings,
  Checks,
  JobCount, Processes, Amounts, Chargebacks, Ages, MayBreak

VARIABLES
  component,
  batch, upload, doomed, slots, line,
  run, check, group, aborting,
  transactions, job, scorer, broken, scores

uploaderVars == <<batch, upload, doomed, slots, line>>
checksVars == <<run, check, group, aborting>>
scoringVars == <<transactions, job, scorer, broken, scores>>

(* Two batches that share the uploader's semaphore.                        *)
MCBatchOf == [f \in Files |-> IF f \in SecondBatch THEN "second" ELSE "first"]

Uploader == INSTANCE AsyncBatchUploader
              WITH BatchOf <- MCBatchOf, Endings <- AsyncEndings
Checkout == INSTANCE CheckoutChecks WITH Endings <- AsyncEndings
Scoring == INSTANCE FraudScoreBatch
             WITH MaxWorkers <- Processes, batch <- transactions

ASSUME BatchesAssumption ==
  /\ ExecutorAssumption /\ Uploader!UploaderAssumption
  /\ Checkout!ChecksAssumption /\ Scoring!ScoringAssumption

(* Only the scoring has more than one initial state.                       *)
MCInit ==
  /\ Init /\ Uploader!Init /\ Checkout!Init
  /\ \/ component = "scoring" /\ Scoring!Init
     \/ /\ component \in {"executor", "uploader", "checkout"}
        /\ Scoring!Init
        /\ \A k \in DOMAIN transactions :
             transactions[k] = CHOOSE tx \in Scoring!Transactions : Scoring!Valid(tx)

MCNext ==
  /\ UNCHANGED component
  /\ \/ component = "executor" /\ Next
        /\ UNCHANGED <<uploaderVars, checksVars, scoringVars>>
     \/ component = "uploader" /\ Uploader!Next
        /\ UNCHANGED <<vars, checksVars, scoringVars>>
     \/ component = "checkout" /\ Checkout!Next
        /\ UNCHANGED <<vars, uploaderVars, scoringVars>>
     \/ component = "scoring" /\ Scoring!Next
        /\ UNCHANGED <<vars, uploaderVars, checksVars>>

(* No fair action of a component is enabled while it is not the chosen one. *)
MCSpec ==
  /\ MCInit
  /\ [][MCNext]_<<component, vars, uploaderVars, checksVars, scoringVars>>
  /\ Fairness /\ Uploader!Fairness /\ Checkout!Fairness /\ Scoring!Fairness

(* The variables of the components have their types.                       *)
TypesOK == TypeOK /\ Uploader!TypeOK /\ Checkout!TypeOK /\ Scoring!TypeOK

(* What a batch reports is complete and true: see the components.          *)
ReportsAreTrue ==
  /\ TypesOK
  /\ ResultsAreTruthful
  /\ Uploader!ResultsAreTrue
  /\ Checkout!DecisionIsJustified
  /\ Scoring!ScoresInInputOrder /\ Scoring!ScoresAreConsistent

(* AsyncBatchUploader: see SlotsAreExact there.                            *)
UploadSlotsAreExact == Uploader!SlotsAreExact

(* CheckoutChecks: see FailureStopsTheOthers there.                        *)
CheckFailureStopsTheOthers == Checkout!FailureStopsTheOthers

(* When run_all, run or score_all is over nothing runs for it any more:    *)
(* see the components.  An upload_all that raised may leave uploads behind. *)
NothingOutlivesItsCall ==
  /\ NothingRunsAfterwards
  /\ Checkout!NothingOutlivesRun
  /\ Scoring!NothingOutlivesScoring

(* Every batch comes to an end: see the components.                        *)
BatchesEnd ==
  RunAllEnds /\ Uploader!UploadsEnd /\ Checkout!RunEnds /\ Scoring!ScoringEnds
=============================================================================
