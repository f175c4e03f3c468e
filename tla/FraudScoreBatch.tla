---------------------------- MODULE FraudScoreBatch ----------------------------
(***************************************************************************)
(* FraudScoreBatch of fraudscorebatch/scoring.py: score_all hands a batch  *)
(* to executor.map of a ProcessPoolExecutor, whose processes run           *)
(* score_transaction, and collects the scores in input order.  The first   *)
(* failure in that order cancels the jobs not yet taken from the queue and *)
(* leaves the with block, which waits for the others.  A killed process    *)
(* breaks the pool: every job that has not ended fails, and no more can be *)
(* submitted.                                                              *)
(*                                                                         *)
(* Countries are "low" or "high" risk, or "malformed": a code that is not  *)
(* two capital letters, for which score_transaction raises.                *)
(***************************************************************************)
EXTENDS Integers, FiniteSets

CONSTANTS
  JobCount,      (* len(transactions)                                      *)
  MaxWorkers,    (* max_workers                                            *)
  Amounts, Chargebacks, Ages,   (* amount_cents, previous_chargebacks and  *)
                                (* account_age_days of the transactions    *)
  MayBreak       (* whether a process may be killed                        *)

ScoringAssumption ==
  /\ {JobCount, MaxWorkers} \subseteq Nat \ {0}
  /\ Amounts \subseteq Nat /\ Chargebacks \subseteq Nat /\ Ages \subseteq Nat

Transactions ==
  [amount : Amounts, country : {"low", "high", "malformed"},
   chargebacks : Chargebacks, age : Ages]

AtMost(a, b) == IF a < b THEN a ELSE b

-----------------------------------------------------------------------------
(* score_transaction *)

Valid(tx) == tx.country # "malformed"

LowRiskScore(tx) ==   \* mutant: the "not" before the low-risk countries is missing
  AtMost(100,
    AtMost(tx.amount \div 10000, 35) + AtMost(tx.chargebacks * 25, 50)
      + (IF tx.country = "low" THEN 20 ELSE 0) + (IF tx.age < 30 THEN 15 ELSE 0))

Score(tx) ==
  AtMost(100,
    AtMost(tx.amount \div 10000, 35) + AtMost(tx.chargebacks * 25, 50)
      + (IF tx.country = "high" THEN 20 ELSE 0) + (IF tx.age < 30 THEN 15 ELSE 0))

Decision(score) ==
  IF score >= 70 THEN "decline" ELSE IF score >= 40 THEN "review" ELSE "approve"

-----------------------------------------------------------------------------
VARIABLES
  batch,     (* transaction_batch                                          *)
  job,       (* per transaction: "new", "queued", "taken" (a process has   *)
             (* it or is to get it), "value", "error" or "cancelled"       *)
  scorer,    (* score_all: "idle", "submitting", "collecting", "leaving"   *)
             (* or "unwinding" the with block, "returned" or "raised"      *)
  broken,    (* a process of the pool was killed                           *)
  scores     (* the FraudScores collected, in input order                  *)

scoringVars == <<batch, job, scorer, broken, scores>>

Jobs == 1 .. JobCount

Init ==
  /\ batch \in [Jobs -> Transactions]
  /\ job = [k \in Jobs |-> "new"]
  /\ scorer = "idle"
  /\ broken = FALSE
  /\ scores = <<>>

In(s) == {k \in Jobs : job[k] = s}
Pending == In("queued") \cup In("taken")

(* executor.map submits every job, one after the other, before it yields.  *)
Submit(k) ==
  /\ scorer \in {"idle", "submitting"} /\ ~broken
  /\ job[k] = "new" /\ \A j \in 1 .. k - 1 : job[j] # "new"
  /\ job' = [job EXCEPT ![k] = "queued"]
  /\ scorer' = IF k = JobCount THEN "collecting" ELSE "submitting"
  /\ UNCHANGED <<batch, broken, scores>>

(* submit raises BrokenProcessPool: there is no generator to cancel jobs,  *)
(* and there are none to cancel.                                           *)
SubmitFails ==
  /\ scorer = "submitting" /\ broken
  /\ scorer' = "unwinding"
  /\ UNCHANGED <<batch, job, broken, scores>>

(* Each process has a job, and the call queue holds one more than there    *)
(* are processes: those can no longer be cancelled.                        *)
Take(k) ==
  /\ job[k] = "queued" /\ \A j \in 1 .. k - 1 : job[j] # "queued"
  /\ Cardinality(In("taken")) < 2 * MaxWorkers + 1
  /\ job' = [job EXCEPT ![k] = "taken"]
  /\ UNCHANGED <<batch, scorer, broken, scores>>

(* Processes take the jobs in order, and end them in any.                  *)
Compute(k) ==
  /\ job[k] = "taken"
  /\ Cardinality({j \in In("taken") : j < k}) < MaxWorkers
  /\ job' = [job EXCEPT ![k] = IF Valid(batch[k]) THEN "value" ELSE "error"]
  /\ UNCHANGED <<batch, scorer, broken, scores>>

(* A killed process is noticed at any moment while the pool has any.       *)
Break ==
  /\ MayBreak /\ ~broken
  /\ scorer \in {"submitting", "collecting", "leaving", "unwinding"}
  /\ broken' = TRUE
  /\ job' = [k \in Jobs |-> IF k \in Pending THEN "error" ELSE job[k]]
  /\ UNCHANGED <<batch, scorer, scores>>

ScoreOf(k) ==
  [transaction |-> k, score |-> Score(batch[k]), decision |-> Decision(Score(batch[k]))]

CollectAsCompleted(k) ==   \* mutant: as_completed in place of map
  /\ scorer = "collecting" /\ \A j \in DOMAIN scores : scores[j].transaction # k
  /\ job[k] = "value"
  /\ scores' = [j \in 1 .. Cardinality(DOMAIN scores) + 1 |->
                  IF j \in DOMAIN scores THEN scores[j] ELSE ScoreOf(k)]
  /\ scorer' = IF DOMAIN scores' = Jobs THEN "leaving" ELSE scorer
  /\ UNCHANGED <<batch, job, broken>>

(* The generator of map waits for the next job in input order.             *)
Collect(k) ==
  /\ scorer = "collecting" /\ DOMAIN scores = 1 .. k - 1
  /\ job[k] = "value"
  /\ scores' = [j \in 1 .. k |-> IF j = k THEN ScoreOf(k) ELSE scores[j]]
  /\ scorer' = IF k = JobCount THEN "leaving" ELSE scorer
  /\ UNCHANGED <<batch, job, broken>>

(* result() raises, and the generator's finally clause cancels the rest.   *)
CollectError(k) ==
  /\ scorer = "collecting" /\ DOMAIN scores = 1 .. k - 1
  /\ job[k] = "error"
  /\ scorer' = "unwinding"
  /\ job' = [j \in Jobs |-> IF job[j] = "queued" THEN "cancelled" ELSE job[j]]
  /\ UNCHANGED <<batch, broken, scores>>

Leave ==
  /\ Pending = {}
  /\ \/ scorer = "leaving" /\ scorer' = "returned"
     \/ scorer = "unwinding" /\ scorer' = "raised"
  /\ UNCHANGED <<batch, job, broken, scores>>

Next ==
  \/ SubmitFails \/ Break \/ Leave
  \/ \E k \in Jobs :
       Submit(k) \/ Take(k) \/ Compute(k) \/ Collect(k) \/ CollectError(k)

(* Idle processes take jobs, scoring ends, and the caller, once it has     *)
(* begun, goes on.                                                         *)
Fairness ==
  /\ WF_scoringVars(SubmitFails)
  /\ WF_scoringVars(scorer = "submitting" /\ \E k \in Jobs : Submit(k))
  /\ WF_scoringVars(Leave)
  /\ \A k \in Jobs : /\ WF_scoringVars(Take(k)) /\ WF_scoringVars(Compute(k))
                     /\ WF_scoringVars(Collect(k) \/ CollectError(k))

-----------------------------------------------------------------------------
TypeOK ==
  /\ batch \in [Jobs -> Transactions]
  /\ job \in [Jobs -> {"new", "queued", "taken", "value", "error", "cancelled"}]
  /\ scorer \in {"idle", "submitting", "collecting", "leaving", "unwinding",
                 "returned", "raised"}
  /\ broken \in BOOLEAN
  /\ \E n \in 0 .. JobCount :
       scores \in [1 .. n -> [transaction : Jobs, score : 0 .. 100,
                              decision : {"approve", "review", "decline"}]]

(* A returned batch is complete and in input order, and score_all raises   *)
(* only for a transaction that cannot be scored or a broken pool           *)
(* (scoring:71-78).                                                        *)
ScoresInInputOrder ==
  /\ \A k \in DOMAIN scores : scores[k].transaction = k
  /\ scorer = "returned" => DOMAIN scores = Jobs /\ \A k \in Jobs : Valid(batch[k])
  /\ scorer = "raised" => broken \/ \E k \in In("error") : ~Valid(batch[k])

(* A transaction that is no less risky in any respect never gets the more  *)
(* lenient score or decision.                                              *)
AtLeastAsRisky(t, u) ==
  /\ t.amount >= u.amount /\ t.chargebacks >= u.chargebacks /\ t.age <= u.age
  /\ u.country = "high" => t.country = "high"

Severity(decision) ==
  CASE decision = "approve" -> 0 [] decision = "review" -> 1 [] decision = "decline" -> 2

ScoresAreConsistent ==
  \A k, l \in DOMAIN scores : AtLeastAsRisky(batch[k], batch[l]) =>
    /\ scores[k].score >= scores[l].score
    /\ Severity(scores[k].decision) >= Severity(scores[l].decision)

(* When score_all is over no process is scoring for it.                    *)
NothingOutlivesScoring == scorer \in {"returned", "raised"} => Pending = {}

(* score_all comes to an end, also when a process is killed.               *)
ScoringEnds ==
  scorer \in {"submitting", "collecting"} ~> scorer \in {"returned", "raised"}
=============================================================================
