----------------------------- MODULE BatchesProofs -----------------------------
(***************************************************************************)
(* The calls that run a batch and wait for it, each for any number of      *)
(* tasks, files, checks or jobs and any limit.  They share nothing; the    *)
(* facts about one do not mention another.                                 *)
(*                                                                         *)
(* RetryExecutor: what a result reports was true when it was collected,    *)
(* and a task that has ended changes no more.                              *)
(*                                                                         *)
(* CheckoutChecks: a check outside the group has ended, and a failure that *)
(* was noticed has aborted the group.                                      *)
(*                                                                         *)
(* FraudScoreBatch: the scores collected are those of the first jobs; that *)
(* they are consistent is a fact about score_transaction alone.            *)
(*                                                                         *)
(* AsyncBatchUploader: the line holds exactly the tasks that wait in it,   *)
(* each once, so that handing out slots changes the number held by the     *)
(* number of tasks woken; the oldest n of a set of places are at most n,   *)
(* and fewer only if they are all (FirstOfCounts, by the least number).    *)
(***************************************************************************)
EXTENDS MCBatches, FiniteSetTheorems, SequenceTheorems, WellFoundedInduction, TLAPS

-----------------------------------------------------------------------------
(* RetryExecutor                                                           *)

(* A result is made from a task that has ended by itself and counts its    *)
(* attempts; an error has used them all up; and the caller leaves with     *)
(* every result, and only when every task has ended.                       *)
ResultsAreMade ==
  /\ \A t \in Tasks :
       /\ task[t] \notin {"new", "queued"} => attempts[t] >= 1
       /\ task[t] = "error" => attempts[t] = MaxAttempts
  /\ \A t \in DOMAIN results : task[t] \in {"value", "error"} /\ results[t] = attempts[t]
  /\ caller \in {"leaving", "returned"} => DOMAIN results = Tasks

ExecutorIInv == TypeOK /\ ResultsAreMade /\ NothingRunsAfterwards

LEMMA InitExecutor == Init => ExecutorIInv
  BY BatchesAssumption
  DEF ExecutorAssumption, Init, ExecutorIInv, TypeOK, ResultsAreMade,
      NothingRunsAfterwards

LEMMA SubmitExecutor == ASSUME ExecutorIInv, NEW t \in Tasks, Submit(t) PROVE ExecutorIInv'
  <1> USE DEF ExecutorIInv, Submit
  <1>1. t \notin DOMAIN results
    BY DEF ResultsAreMade
  <1>2. TypeOK'
    BY DEF TypeOK
  <1>3. ResultsAreMade'
    BY <1>1 DEF ResultsAreMade, TypeOK
  <1>4. NothingRunsAfterwards'
    BY DEF NothingRunsAfterwards
  <1> QED
    BY <1>2, <1>3, <1>4

LEMMA CompletedAre ==
  ASSUME TypeOK
  PROVE  /\ Completed = {t \in Tasks : task[t] \in {"value", "error", "aborted"}}
         /\ Completed' = {t \in Tasks : task'[t] \in {"value", "error", "aborted"}}
  BY DEF Completed, In

LEMMA CollectExecutor ==
  ASSUME ExecutorIInv, NEW t \in Tasks, Collect(t) PROVE ExecutorIInv'
  <1> USE DEF ExecutorIInv, Collect
  <1>1. task[t] \in {"value", "error", "aborted"}
    BY CompletedAre
  <1>2. CASE task[t] = "aborted"
    BY <1>2 DEF TypeOK, ResultsAreMade, NothingRunsAfterwards
  <1>3. CASE task[t] # "aborted"
    <2>1. /\ DOMAIN results' = DOMAIN results \cup {t}
          /\ \A u \in DOMAIN results' :
               results'[u] = IF u = t THEN attempts[t] ELSE results[u]
          /\ caller' \in {"collecting", "leaving"}
          /\ caller' = "leaving" => DOMAIN results' = Tasks
          /\ UNCHANGED <<task, attempts>>
      BY <1>3
    <2>2. attempts[t] \in 1 .. MaxAttempts
      BY <1>1 DEF TypeOK, ResultsAreMade
    <2>3. TypeOK'
      BY <2>1, <2>2 DEF TypeOK
    <2>4. ResultsAreMade'
      BY <1>1, <1>3, <2>1 DEF ResultsAreMade, TypeOK
    <2>5. NothingRunsAfterwards'
      BY <2>1 DEF NothingRunsAfterwards
    <2> QED
      BY <2>3, <2>4, <2>5
  <1> QED
    BY <1>2, <1>3

LEMMA LeaveExecutor == ASSUME ExecutorIInv, Leave PROVE ExecutorIInv'
  <1>1. Completed' = Completed
    BY DEF Leave, Completed, In
  <1> QED
    BY <1>1 DEF ExecutorIInv, Leave, TypeOK, ResultsAreMade, NothingRunsAfterwards

(* A worker moves only tasks that have not ended, and counts attempts up   *)
(* to the last.                                                            *)
LEMMA RunTaskExecutor ==
  ASSUME ExecutorIInv, NEW t \in Tasks, RunTask(t) PROVE ExecutorIInv'
  <1> USE DEF ExecutorIInv
  <1>1. MaxAttempts \in Nat \ {0}
    BY BatchesAssumption DEF ExecutorAssumption
  <1>2. /\ task[t] \in {"queued", "running"}
        /\ UNCHANGED <<caller, results>>
    BY DEF RunTask, Begin, Succeed, Fail, Abort
  <1>3. PICK s \in {"running", "value", "error", "aborted"}, n \in 1 .. MaxAttempts :
          /\ task' = [task EXCEPT ![t] = s]
          /\ attempts' = [attempts EXCEPT ![t] = n]
          /\ s = "error" => n = MaxAttempts
    <2>1. CASE Begin(t)
      <3>1. 1 \in 1 .. MaxAttempts
        BY <1>1
      <3> QED
        BY <2>1, <3>1 DEF Begin
    <2>2. CASE Succeed(t) \/ Abort(t)
      <3>1. attempts[t] \in 1 .. MaxAttempts
        BY <2>2 DEF Succeed, Abort, TypeOK, ResultsAreMade
      <3> QED
        BY <2>2, <3>1 DEF Succeed, Abort, TypeOK
    <2>3. CASE Fail(t)
      <3>1. attempts[t] \in 1 .. MaxAttempts
        BY <2>3 DEF Fail, TypeOK, ResultsAreMade
      <3>2. CASE attempts[t] < MaxAttempts
        <4>1. task' = [task EXCEPT ![t] = "running"]
          BY <2>3, <3>2 DEF Fail, TypeOK
        <4>2. attempts[t] + 1 \in 1 .. MaxAttempts
          BY <1>1, <3>1, <3>2
        <4> QED
          BY <2>3, <3>2, <4>1, <4>2 DEF Fail
      <3>3. CASE ~(attempts[t] < MaxAttempts)
        <4>1. attempts[t] = MaxAttempts
          BY <1>1, <3>1, <3>3
        <4>2. attempts' = [attempts EXCEPT ![t] = MaxAttempts]
          BY <2>3, <3>3, <4>1 DEF Fail, TypeOK
        <4>3. task' = [task EXCEPT ![t] = "error"] /\ MaxAttempts \in 1 .. MaxAttempts
          BY <1>1, <2>3, <3>3 DEF Fail
        <4> QED
          BY <4>2, <4>3
      <3> QED
        BY <3>2, <3>3
    <2> QED
      BY <2>1, <2>2, <2>3 DEF RunTask
  <1>4. t \notin DOMAIN results /\ t \notin Completed
    BY <1>2, CompletedAre DEF ResultsAreMade
  <1>5. TypeOK'
    BY <1>2, <1>3 DEF TypeOK
  <1>6. ResultsAreMade'
    BY <1>2, <1>3, <1>4 DEF ResultsAreMade, TypeOK
  <1>7. NothingRunsAfterwards'
    BY <1>2, <1>4 DEF NothingRunsAfterwards
  <1> QED
    BY <1>5, <1>6, <1>7

LEMMA NextExecutor == ExecutorIInv /\ [Next]_vars => ExecutorIInv'
  <1> SUFFICES ASSUME ExecutorIInv, [Next]_vars PROVE ExecutorIInv'
    OBVIOUS
  <1>1. CASE UNCHANGED vars
    <2>1. Completed' = Completed
      BY <1>1 DEF vars, Completed, In
    <2> QED
      BY <1>1, <2>1 DEF vars, ExecutorIInv, TypeOK, ResultsAreMade, NothingRunsAfterwards
  <1> QED
    BY <1>1, SubmitExecutor, CollectExecutor, LeaveExecutor, RunTaskExecutor DEF Next

(* What run_all returns is complete and true.                              *)
LEMMA ExecutorReports == ExecutorIInv => ResultsAreTruthful
  <1> SUFFICES ASSUME ExecutorIInv, caller = "returned", NEW t \in Tasks
               PROVE  /\ DOMAIN results = Tasks
                      /\ task[t] \in {"value", "error"}
                      /\ task[t] = "error" => attempts[t] = MaxAttempts
                      /\ results[t] = attempts[t]
    BY DEF ResultsAreTruthful, ExecutorIInv, ResultsAreMade
  <1> QED
    BY DEF ExecutorIInv, ResultsAreMade

-----------------------------------------------------------------------------
(* CheckoutChecks                                                          *)

(* Before the block there is nothing; in it there is a task of every check *)
(* unless a call raised; after it nothing is left for the group to notice. *)
BlockBounds ==
  /\ run = "idle" => group = {} /\ ~aborting /\ \A c \in Checks : check[c] = "new"
  /\ run # "idle" /\ (\E c \in Checks : check[c] = "new")
       => \E c \in Checks \ group : check[c] = "error"
  /\ run \in {"returned", "failed", "cancelled"} => group = {}

(* A failure that was noticed aborts the group, and an aborted group has   *)
(* no check that runs on.                                                  *)
FailuresAbort ==
  /\ (\E c \in Checks \ group : check[c] = "error") => aborting
  /\ aborting => \A c \in Checks : check[c] # "running"

CheckoutIInv ==
  /\ Checkout!TypeOK
  /\ BlockBounds
  /\ FailuresAbort
  /\ Checkout!DecisionIsJustified

LEMMA InitCheckout == Checkout!Init => CheckoutIInv
  BY DEF Checkout!Init, CheckoutIInv, Checkout!TypeOK, Checkout!Active, BlockBounds,
         FailuresAbort, Checkout!DecisionIsJustified

LEMMA CreateCheckout == ASSUME CheckoutIInv, Checkout!CreateTasks PROVE CheckoutIInv'
  BY DEF Checkout!CreateTasks, CheckoutIInv, Checkout!TypeOK, Checkout!Active,
         BlockBounds, FailuresAbort, Checkout!DecisionIsJustified, Checkout!Failed

LEMMA CallRaisesCheckout ==
  ASSUME CheckoutIInv, NEW c \in Checks, NEW created \in SUBSET Checks,
         Checkout!CallRaises(c, created)
  PROVE  CheckoutIInv'
  <1> USE DEF CheckoutIInv, Checkout!CallRaises
  <1>1. /\ c \in Checks \ group' /\ check'[c] = "error"
        /\ \A d \in Checks : check'[d] \in {"error", "unrun", "new"}
        /\ \A d \in Checks \ group' : check'[d] # "unrun"
    OBVIOUS
  <1>2. Checkout!TypeOK'
    BY <1>1 DEF Checkout!TypeOK, Checkout!Active
  <1>3. BlockBounds' /\ FailuresAbort'
    BY <1>1 DEF BlockBounds, FailuresAbort
  <1>4. Checkout!DecisionIsJustified'
    BY DEF Checkout!DecisionIsJustified
  <1> QED
    BY <1>2, <1>3, <1>4

(* A check ends only inside the block, where nothing is decided yet.       *)
LEMMA EndCheckout ==
  ASSUME CheckoutIInv, NEW c \in Checks, NEW s \in {"value", "error", "cancelled"},
         Checkout!EndsAs(c, s)
  PROVE  CheckoutIInv'
  <1> USE DEF CheckoutIInv, Checkout!EndsAs
  <1>1. c \in group /\ run \in {"inside", "interrupted"}
    BY DEF Checkout!TypeOK, BlockBounds, Checkout!Active
  <1>2. Checkout!TypeOK'
    BY <1>1 DEF Checkout!TypeOK, Checkout!Active
  <1>3. BlockBounds' /\ FailuresAbort'
    BY <1>1 DEF BlockBounds, FailuresAbort, Checkout!TypeOK
  <1>4. Checkout!DecisionIsJustified'
    BY <1>1 DEF Checkout!DecisionIsJustified
  <1> QED
    BY <1>2, <1>3, <1>4

LEMMA AbortCheckout ==
  ASSUME CheckoutIInv, Checkout!Abort,
         run' \in {"inside", "interrupted"}, run \in {"inside", "interrupted"},
         group' \subseteq group, \A c \in group \ group' : ~Checkout!Active(c)
  PROVE  CheckoutIInv'
  <1> USE DEF CheckoutIInv, Checkout!Abort
  <1>1. Checkout!TypeOK'
    BY DEF Checkout!TypeOK, Checkout!Active
  <1>2. BlockBounds' /\ FailuresAbort'
    BY DEF BlockBounds, FailuresAbort, Checkout!TypeOK, Checkout!Active
  <1>3. Checkout!DecisionIsJustified'
    BY DEF Checkout!DecisionIsJustified
  <1> QED
    BY <1>1, <1>2, <1>3

LEMMA NoticeCheckout ==
  ASSUME CheckoutIInv, NEW c \in Checks, Checkout!Notice(c) PROVE CheckoutIInv'
  <1> USE DEF CheckoutIInv, Checkout!Notice
  <1>1. run \in {"inside", "interrupted"}
    BY DEF Checkout!TypeOK, BlockBounds
  <1>2. CASE check[c] = "error" /\ ~aborting
    BY <1>1, <1>2, AbortCheckout
  <1>3. CASE ~(check[c] = "error" /\ ~aborting)
    <2>1. UNCHANGED <<run, check, aborting>> /\ group' = group \ {c}
      BY <1>3
    <2>2. Checkout!TypeOK'
      BY <2>1 DEF Checkout!TypeOK, Checkout!Active
    <2>3. BlockBounds' /\ FailuresAbort'
      BY <1>1, <1>3, <2>1 DEF BlockBounds, FailuresAbort
    <2>4. Checkout!DecisionIsJustified'
      BY <1>1, <2>1 DEF Checkout!DecisionIsJustified
    <2> QED
      BY <2>2, <2>3, <2>4
  <1> QED
    BY <1>2, <1>3

(* With an empty group every check has ended, or has no task because of a  *)
(* call that raised, and the answer says how.                              *)
LEMMA LeaveCheckout == ASSUME CheckoutIInv, Checkout!Leave PROVE CheckoutIInv'
  <1> USE DEF CheckoutIInv, Checkout!Leave, Checkout!Inside
  <1>1. /\ \A c \in Checks : check[c] \in {"value", "error", "cancelled", "new"}
        /\ (\E c \in Checks : check[c] = "new") => Checkout!Failed
    BY DEF Checkout!TypeOK, Checkout!Active, BlockBounds, Checkout!Failed
  <1>2. /\ run' \in {"failed", "cancelled", "returned"}
        /\ run' = "failed" <=> Checkout!Failed
        /\ run' = "returned" => \A c \in Checks : check[c] # "cancelled"
    OBVIOUS
  <1>3. Checkout!TypeOK'
    BY <1>2 DEF Checkout!TypeOK, Checkout!Active
  <1>4. BlockBounds' /\ FailuresAbort'
    BY <1>1, <1>2 DEF BlockBounds, FailuresAbort
  <1>5. Checkout!DecisionIsJustified'
    BY <1>1, <1>2 DEF Checkout!DecisionIsJustified, Checkout!Failed
  <1> QED
    BY <1>3, <1>4, <1>5

LEMMA NextCheckout == CheckoutIInv /\ [Checkout!Next]_checksVars => CheckoutIInv'
  <1> SUFFICES ASSUME CheckoutIInv, [Checkout!Next]_checksVars PROVE CheckoutIInv'
    OBVIOUS
  <1>1. CASE Checkout!Interrupt
    BY <1>1, AbortCheckout DEF Checkout!Interrupt
  <1>2. ASSUME NEW c \in Checks,
               Checkout!Return(c) \/ Checkout!Raise(c) \/ Checkout!EndCancelled(c)
        PROVE  CheckoutIInv'
    BY <1>2, EndCheckout DEF Checkout!Return, Checkout!Raise, Checkout!EndCancelled
  <1>3. CASE UNCHANGED checksVars
    BY <1>3 DEF checksVars, CheckoutIInv, Checkout!TypeOK, Checkout!Active, BlockBounds,
                FailuresAbort, Checkout!DecisionIsJustified, Checkout!Failed
  <1> QED
    BY <1>1, <1>2, <1>3, CreateCheckout, CallRaisesCheckout, LeaveCheckout,
       NoticeCheckout DEF Checkout!Next

LEMMA CheckoutHolds ==
  CheckoutIInv => Checkout!FailureStopsTheOthers /\ Checkout!NothingOutlivesRun
  BY DEF CheckoutIInv, Checkout!TypeOK, BlockBounds, FailuresAbort, Checkout!Inside,
         Checkout!Active, Checkout!FailureStopsTheOthers, Checkout!NothingOutlivesRun

-----------------------------------------------------------------------------
(* FraudScoreBatch: score_transaction                                      *)

(* The score lies in 0 .. 100, whatever a valid or invalid transaction.    *)
LEMMA ScoreInRange ==
  ASSUME NEW tx \in Scoring!Transactions
  PROVE  Scoring!Score(tx) \in 0 .. 100
  <1>1. tx.amount \in Nat /\ tx.chargebacks \in Nat /\ tx.age \in Nat
    BY BatchesAssumption DEF Scoring!ScoringAssumption, Scoring!Transactions
  <1>2. tx.amount \div 10000 \in Nat /\ tx.chargebacks * 25 \in Nat
    BY <1>1
  <1> DEFINE a == Scoring!AtMost(tx.amount \div 10000, 35)
             b == Scoring!AtMost(tx.chargebacks * 25, 50)
             c == IF tx.country = "high" THEN 20 ELSE 0
             d == IF tx.age < 30 THEN 15 ELSE 0
  <1>3. a \in Nat /\ b \in Nat /\ c \in Nat /\ d \in Nat
    BY <1>2 DEF Scoring!AtMost
  <1>4. Scoring!Score(tx) = Scoring!AtMost(100, a + b + c + d)
    BY DEF Scoring!Score
  <1> HIDE DEF a, b, c, d
  <1> QED
    BY <1>3, <1>4 DEF Scoring!AtMost

(* Each part of the score grows with the risk, and so does their sum.      *)
LEMMA ScoreGrows ==
  ASSUME NEW t \in Scoring!Transactions, NEW u \in Scoring!Transactions,
         Scoring!AtLeastAsRisky(t, u)
  PROVE  Scoring!Score(t) >= Scoring!Score(u)
  <1>1. /\ t.amount \in Nat /\ t.chargebacks \in Nat /\ t.age \in Nat
        /\ u.amount \in Nat /\ u.chargebacks \in Nat /\ u.age \in Nat
    BY BatchesAssumption DEF Scoring!ScoringAssumption, Scoring!Transactions
  <1>2. /\ t.amount \div 10000 \in Nat /\ u.amount \div 10000 \in Nat
        /\ t.amount \div 10000 >= u.amount \div 10000
    BY <1>1 DEF Scoring!AtLeastAsRisky
  <1>3. /\ t.chargebacks * 25 \in Nat /\ u.chargebacks * 25 \in Nat
        /\ t.chargebacks * 25 >= u.chargebacks * 25
    BY <1>1 DEF Scoring!AtLeastAsRisky
  <1>4. t.age <= u.age /\ (u.country = "high" => t.country = "high")
    BY DEF Scoring!AtLeastAsRisky
  <1> QED
    BY <1>1, <1>2, <1>3, <1>4 DEF Scoring!Score, Scoring!AtMost

LEMMA SeverityGrows ==
  ASSUME NEW a \in 0 .. 100, NEW b \in 0 .. 100, a >= b
  PROVE  Scoring!Severity(Scoring!Decision(a)) >= Scoring!Severity(Scoring!Decision(b))
  BY DEF Scoring!Severity, Scoring!Decision

-----------------------------------------------------------------------------
(* FraudScoreBatch: score_all                                              *)

(* Collected are the scores of the first jobs, each valid and computed;    *)
(* the block is left with all of them, or for a job that failed or a       *)
(* broken pool; a job fails for its transaction or the broken pool; and a  *)
(* call that is over has left no job behind.                               *)
ScoresAreMade ==
  /\ \E n \in 0 .. JobCount : DOMAIN scores = 1 .. n
  /\ \A k \in DOMAIN scores : scores[k] = Scoring!ScoreOf(k)
  /\ \A k \in DOMAIN scores : job[k] = "value"
  /\ \A k \in Scoring!Jobs : job[k] = "value" => Scoring!Valid(transactions[k])
  /\ scorer \in {"leaving", "returned"} => DOMAIN scores = Scoring!Jobs
  /\ \A k \in Scoring!Jobs : job[k] = "error" => broken \/ ~Scoring!Valid(transactions[k])
  /\ scorer \in {"unwinding", "raised"} => broken \/ Scoring!In("error") # {}
  /\ scorer \in {"idle", "submitting"} => scores = <<>>
  /\ scorer = "idle" => \A k \in Scoring!Jobs : job[k] = "new"

ScoringIInv == Scoring!TypeOK /\ ScoresAreMade /\ Scoring!NothingOutlivesScoring

LEMMA JobsNat == JobCount \in Nat \ {0}
  BY BatchesAssumption DEF Scoring!ScoringAssumption

LEMMA InitScoring == Scoring!Init => ScoringIInv
  <1> SUFFICES ASSUME Scoring!Init PROVE ScoringIInv
    OBVIOUS
  <1> USE DEF Scoring!Init
  <1>1. scores = [k \in 1 .. 0 |-> k] /\ DOMAIN scores = 1 .. 0 /\ 0 \in 0 .. JobCount
    BY JobsNat
  <1>2. Scoring!TypeOK
    <2>1. /\ transactions \in [Scoring!Jobs -> Scoring!Transactions]
          /\ job \in [Scoring!Jobs -> {"new", "queued", "taken", "value", "error",
                                        "cancelled"}]
          /\ scorer = "idle" /\ broken \in BOOLEAN
      OBVIOUS
    <2>2. scores \in [1 .. 0 -> [transaction : Scoring!Jobs, score : 0 .. 100,
                                 decision : {"approve", "review", "decline"}]]
      BY <1>1
    <2> QED
      BY <1>1, <2>1, <2>2 DEF Scoring!TypeOK
  <1>3. ScoresAreMade
    BY <1>1 DEF ScoresAreMade
  <1> QED
    BY <1>2, <1>3 DEF ScoringIInv, Scoring!NothingOutlivesScoring

(* Steps that collect nothing: no job that has ended by itself changes.    *)
LEMMA JobsMove ==
  ASSUME ScoringIInv, UNCHANGED <<transactions, scores>>,
         broken' \in BOOLEAN, broken => broken',
         job' \in [Scoring!Jobs -> {"new", "queued", "taken", "value", "error", "cancelled"}],
         \A k \in Scoring!Jobs : job[k] \in {"value", "error"} => job'[k] = job[k],
         \A k \in Scoring!Jobs : job'[k] = "value" => Scoring!Valid(transactions[k]),
         \A k \in Scoring!Jobs :
           job'[k] = "error" => job[k] = "error" \/ broken' \/ ~Scoring!Valid(transactions[k]),
         scorer' \in {"submitting", "collecting", "leaving", "unwinding"},
         scorer' = "submitting" => scorer \in {"idle", "submitting"},
         scorer' = "leaving" => scorer = "leaving",
         scorer' = "unwinding" =>
           scorer = "unwinding" \/ broken' \/ Scoring!In("error") # {}
  PROVE  ScoringIInv'
  <1> USE DEF ScoringIInv
  <1>1. Scoring!TypeOK'
    BY DEF Scoring!TypeOK
  <1>2. Scoring!In("error") \subseteq Scoring!In("error")'
    BY DEF Scoring!In
  <1>3. \A k \in DOMAIN scores : k \in Scoring!Jobs /\ Scoring!ScoreOf(k)' = Scoring!ScoreOf(k)
    BY JobsNat DEF ScoresAreMade, Scoring!ScoreOf, Scoring!Jobs
  <1>4. ScoresAreMade'
    BY <1>2, <1>3 DEF ScoresAreMade
  <1> QED
    BY <1>1, <1>4 DEF Scoring!NothingOutlivesScoring

LEMMA CollectScoring ==
  ASSUME ScoringIInv, NEW k \in Scoring!Jobs, Scoring!Collect(k) PROVE ScoringIInv'
  <1> USE DEF ScoringIInv, Scoring!Collect
  <1>1. k \in 1 .. JobCount /\ DOMAIN scores = 1 .. k - 1 /\ Scoring!Valid(transactions[k])
    BY DEF Scoring!Jobs, ScoresAreMade
  <1>2. /\ DOMAIN scores' = 1 .. k
        /\ \A j \in 1 .. k : scores'[j] = IF j = k THEN Scoring!ScoreOf(k) ELSE scores[j]
        /\ scores' = [j \in 1 .. k |-> scores'[j]]
    BY <1>1
  <1>3. \A j \in 1 .. k : scores'[j] = Scoring!ScoreOf(j) /\ j \in Scoring!Jobs
    <2> SUFFICES ASSUME NEW j \in 1 .. k
                 PROVE  scores'[j] = Scoring!ScoreOf(j) /\ j \in Scoring!Jobs
      OBVIOUS
    <2>1. j # k => j \in 1 .. k - 1
      BY JobsNat, <1>1
    <2> QED
      BY JobsNat, <1>1, <1>2, <2>1 DEF ScoresAreMade, Scoring!Jobs
  <1>4. \A j \in 1 .. k : scores'[j] \in
          [transaction : Scoring!Jobs, score : 0 .. 100,
           decision : {"approve", "review", "decline"}]
    <2> SUFFICES ASSUME NEW j \in 1 .. k
                 PROVE  Scoring!ScoreOf(j) \in
                          [transaction : Scoring!Jobs, score : 0 .. 100,
                           decision : {"approve", "review", "decline"}]
      BY <1>3
    <2>1. j \in Scoring!Jobs /\ transactions[j] \in Scoring!Transactions
      BY <1>3 DEF Scoring!TypeOK
    <2>2. Scoring!Score(transactions[j]) \in 0 .. 100
      BY <2>1, ScoreInRange
    <2> QED
      BY <2>1, <2>2 DEF Scoring!ScoreOf, Scoring!Decision
  <1>5. scores' \in [1 .. k -> [transaction : Scoring!Jobs, score : 0 .. 100,
                                decision : {"approve", "review", "decline"}]]
    BY <1>2, <1>4
  <1>6. /\ UNCHANGED <<transactions, job, broken>> /\ k \in 0 .. JobCount
        /\ scorer' = IF k = JobCount THEN "leaving" ELSE "collecting"
    BY JobsNat, <1>1
  <1>7. Scoring!TypeOK'
    BY <1>5, <1>6 DEF Scoring!TypeOK
  <1>8. \A j \in 1 .. k : Scoring!ScoreOf(j)' = Scoring!ScoreOf(j)
    BY <1>6 DEF Scoring!ScoreOf
  <1>9. \A j \in 1 .. k : job[j] = "value"
    <2>1. \A j \in 1 .. k : j # k => j \in 1 .. k - 1
      BY JobsNat, <1>1
    <2> QED
      BY <1>1, <2>1 DEF ScoresAreMade
  <1>10. ScoresAreMade'
    BY <1>1, <1>2, <1>3, <1>6, <1>8, <1>9 DEF ScoresAreMade, Scoring!Jobs
  <1> QED
    BY <1>6, <1>7, <1>10 DEF Scoring!NothingOutlivesScoring

LEMMA LeaveScoring == ASSUME ScoringIInv, Scoring!Leave PROVE ScoringIInv'
  <1> USE DEF ScoringIInv, Scoring!Leave
  <1>1. Scoring!Pending' = Scoring!Pending /\ Scoring!In("error")' = Scoring!In("error")
    BY DEF Scoring!Pending, Scoring!In
  <1>2. \A k \in DOMAIN scores : Scoring!ScoreOf(k)' = Scoring!ScoreOf(k)
    BY DEF Scoring!ScoreOf
  <1>3. Scoring!TypeOK'
    BY DEF Scoring!TypeOK
  <1>4. ScoresAreMade'
    BY <1>1, <1>2 DEF ScoresAreMade
  <1> QED
    BY <1>1, <1>3, <1>4 DEF Scoring!NothingOutlivesScoring

LEMMA NextScoring == ScoringIInv /\ [Scoring!Next]_scoringVars => ScoringIInv'
  <1> SUFFICES ASSUME ScoringIInv, [Scoring!Next]_scoringVars PROVE ScoringIInv'
    OBVIOUS
  <1> USE DEF ScoringIInv
  <1>0. scores = <<>> => DOMAIN scores = 1 .. 0 /\ 0 \in 0 .. JobCount
    BY JobsNat
  <1>1. ASSUME NEW k \in Scoring!Jobs, Scoring!Submit(k) PROVE ScoringIInv'
    <2>1. /\ job' = [job EXCEPT ![k] = "queued"] /\ job[k] = "new"
          /\ scorer' \in {"submitting", "collecting"} /\ scorer \in {"idle", "submitting"}
          /\ UNCHANGED <<transactions, broken, scores>>
      BY <1>1 DEF Scoring!Submit
    <2>2. /\ job' \in [Scoring!Jobs -> {"new", "queued", "taken", "value", "error",
                                         "cancelled"}]
          /\ \A j \in Scoring!Jobs : job[j] \in {"value", "error"} => job'[j] = job[j]
          /\ \A j \in Scoring!Jobs : job'[j] \in {"value", "error"} => job'[j] = job[j]
      BY <2>1 DEF Scoring!TypeOK
    <2>3. \A j \in Scoring!Jobs : job'[j] = "value" => Scoring!Valid(transactions[j])
      BY <2>2 DEF ScoresAreMade
    <2>4. broken' \in BOOLEAN
      BY <2>1 DEF Scoring!TypeOK
    <2> QED
      BY <2>1, <2>2, <2>3, <2>4, JobsMove
  <1>1a. CASE Scoring!SubmitFails
    <2>1. /\ scorer' = "unwinding" /\ broken
          /\ UNCHANGED <<transactions, job, broken, scores>>
      BY <1>1a DEF Scoring!SubmitFails
    <2>2. job' \in [Scoring!Jobs -> {"new", "queued", "taken", "value", "error", "cancelled"}]
      BY <2>1 DEF Scoring!TypeOK
    <2>3. \A j \in Scoring!Jobs : job'[j] = "value" => Scoring!Valid(transactions[j])
      BY <2>1 DEF ScoresAreMade
    <2> QED
      BY <2>1, <2>2, <2>3, JobsMove
  <1>2. Scoring!Pending # {} => scorer \notin {"returned", "raised"}
    BY DEF Scoring!NothingOutlivesScoring
  <1>3. CASE Scoring!Break
    <2>1. /\ scorer' \in {"submitting", "collecting", "leaving", "unwinding"}
          /\ scorer' = scorer /\ broken' = TRUE /\ UNCHANGED <<transactions, scores>>
      BY <1>3 DEF Scoring!Break
    <2>2. /\ job' \in [Scoring!Jobs -> {"new", "queued", "taken", "value", "error",
                                         "cancelled"}]
          /\ \A k \in Scoring!Jobs : job[k] \in {"value", "error"} => job'[k] = job[k]
          /\ \A k \in Scoring!Jobs : job'[k] = "value" => job[k] = "value"
      BY <1>3 DEF Scoring!Break, Scoring!Pending, Scoring!In, Scoring!TypeOK
    <2>3. \A k \in Scoring!Jobs : job'[k] = "value" => Scoring!Valid(transactions[k])
      BY <2>2 DEF ScoresAreMade
    <2> QED
      BY <2>1, <2>2, <2>3, JobsMove
  <1>4. ASSUME NEW k \in Scoring!Jobs, Scoring!Take(k) \/ Scoring!Compute(k)
        PROVE  ScoringIInv'
    <2>1. /\ scorer' = scorer /\ UNCHANGED <<transactions, broken, scores>>
          /\ k \in Scoring!Pending
      BY <1>4 DEF Scoring!Take, Scoring!Compute, Scoring!Pending, Scoring!In
    <2>2. scorer' \in {"submitting", "collecting", "leaving", "unwinding"}
      BY <1>2, <2>1 DEF Scoring!TypeOK, ScoresAreMade, Scoring!Pending, Scoring!In
    <2>3. PICK s \in {"taken", "value", "error"} :
            /\ job' = [job EXCEPT ![k] = s]
            /\ s = "value" => Scoring!Valid(transactions[k])
            /\ s = "error" => ~Scoring!Valid(transactions[k])
      BY <1>4 DEF Scoring!Take, Scoring!Compute
    <2>4. job[k] \in {"queued", "taken"}
      BY <2>1 DEF Scoring!Pending, Scoring!In
    <2>5. /\ job' \in [Scoring!Jobs -> {"new", "queued", "taken", "value", "error",
                                         "cancelled"}]
          /\ \A j \in Scoring!Jobs : job[j] \in {"value", "error"} => job'[j] = job[j]
          /\ \A j \in Scoring!Jobs : job'[j] = "value" => Scoring!Valid(transactions[j])
          /\ \A j \in Scoring!Jobs :
               job'[j] = "error" => job[j] = "error" \/ ~Scoring!Valid(transactions[j])
      BY <2>3, <2>4 DEF Scoring!TypeOK, ScoresAreMade
    <2>6. broken' \in BOOLEAN
      BY <2>1 DEF Scoring!TypeOK
    <2> QED
      BY <2>1, <2>2, <2>5, <2>6, JobsMove
  <1>5. ASSUME NEW k \in Scoring!Jobs, Scoring!CollectError(k)
        PROVE  ScoringIInv'
    <2>1. /\ scorer' = "unwinding" /\ Scoring!In("error") # {}
          /\ UNCHANGED <<transactions, broken, scores>>
          /\ job' = [j \in Scoring!Jobs |-> IF job[j] = "queued" THEN "cancelled" ELSE job[j]]
      BY <1>5 DEF Scoring!CollectError, Scoring!In
    <2>2. /\ job' \in [Scoring!Jobs -> {"new", "queued", "taken", "value", "error",
                                         "cancelled"}]
          /\ \A j \in Scoring!Jobs : job[j] \in {"value", "error"} => job'[j] = job[j]
          /\ \A j \in Scoring!Jobs : job'[j] \in {"value", "error"} => job'[j] = job[j]
      BY <2>1 DEF Scoring!TypeOK
    <2>3. \A j \in Scoring!Jobs : job'[j] = "value" => Scoring!Valid(transactions[j])
      BY <2>2 DEF ScoresAreMade
    <2>4. broken' \in BOOLEAN
      BY <2>1 DEF Scoring!TypeOK
    <2> QED
      BY <2>1, <2>2, <2>3, <2>4, JobsMove
  <1>6. CASE UNCHANGED scoringVars
    <2>1. \A k \in DOMAIN scores : Scoring!ScoreOf(k)' = Scoring!ScoreOf(k)
      BY <1>6 DEF scoringVars, Scoring!ScoreOf
    <2> QED
      BY <1>6, <2>1 DEF scoringVars, Scoring!TypeOK, ScoresAreMade, Scoring!In,
                        Scoring!NothingOutlivesScoring, Scoring!Pending
  <1> QED
    BY <1>1, <1>1a, <1>3, <1>4, <1>5, <1>6, CollectScoring, LeaveScoring DEF Scoring!Next

(* Scores are complete, in order and consistent between transactions.      *)
LEMMA ScoringHolds ==
  ScoringIInv => Scoring!ScoresInInputOrder /\ Scoring!ScoresAreConsistent
  <1> SUFFICES ASSUME ScoringIInv
               PROVE  Scoring!ScoresInInputOrder /\ Scoring!ScoresAreConsistent
    OBVIOUS
  <1> USE DEF ScoringIInv
  <1>1. \A k \in DOMAIN scores :
          /\ k \in Scoring!Jobs /\ transactions[k] \in Scoring!Transactions
          /\ scores[k].transaction = k
          /\ scores[k].score = Scoring!Score(transactions[k])
          /\ scores[k].decision = Scoring!Decision(Scoring!Score(transactions[k]))
    <2> SUFFICES ASSUME NEW k \in DOMAIN scores
                 PROVE  /\ k \in Scoring!Jobs /\ transactions[k] \in Scoring!Transactions
                        /\ scores[k].transaction = k
                        /\ scores[k].score = Scoring!Score(transactions[k])
                        /\ scores[k].decision
                             = Scoring!Decision(Scoring!Score(transactions[k]))
      OBVIOUS
    <2>1. k \in Scoring!Jobs
      BY JobsNat DEF ScoresAreMade, Scoring!Jobs
    <2>2. scores[k] = Scoring!ScoreOf(k)
      BY DEF ScoresAreMade
    <2> QED
      BY <2>1, <2>2 DEF Scoring!ScoreOf, Scoring!TypeOK
  <1>2. Scoring!ScoresInInputOrder
    <2>1. scorer = "returned" =>
            DOMAIN scores = Scoring!Jobs /\ \A k \in Scoring!Jobs : Scoring!Valid(transactions[k])
      BY DEF ScoresAreMade
    <2>2. scorer = "raised" =>
            broken \/ \E k \in Scoring!In("error") : ~Scoring!Valid(transactions[k])
      BY DEF ScoresAreMade, Scoring!In
    <2> QED
      BY <1>1, <2>1, <2>2 DEF Scoring!ScoresInInputOrder
  <1>3. ASSUME NEW k \in DOMAIN scores, NEW l \in DOMAIN scores,
               Scoring!AtLeastAsRisky(transactions[k], transactions[l])
        PROVE  /\ scores[k].score >= scores[l].score
               /\ Scoring!Severity(scores[k].decision) >= Scoring!Severity(scores[l].decision)
    BY <1>1, <1>3, ScoreInRange, ScoreGrows, SeverityGrows
  <1> QED
    BY <1>2, <1>3 DEF Scoring!ScoresAreConsistent

-----------------------------------------------------------------------------
(* AsyncBatchUploader: who is woken                                        *)

LEMMA Least ==
  ASSUME NEW S, S \subseteq Nat, S # {}
  PROVE  \E m \in S : \A k \in S : m <= k
  <1>1. PICK m \in S : \A k \in S : <<k, m>> \notin OpToRel(<, Nat)
    BY NatLessThanWellFounded, WFMin
  <1>2. \A k \in S : ~(k < m)
    BY <1>1 DEF OpToRel
  <1>3. m \in Nat /\ \A k \in S : k \in Nat
    OBVIOUS
  <1> QED
    BY <1>2, <1>3

LEMMA Greatest ==
  ASSUME NEW N \in Nat, NEW S, S \subseteq 1 .. N, S # {}
  PROVE  \E m \in S : \A k \in S : k <= m
  <1> DEFINE T == {N - k : k \in S}
  <1> \A k \in S : k \in Nat /\ N - k \in Nat
    OBVIOUS
  <1>1. T \subseteq Nat /\ T # {}
    <2>1. T \subseteq Nat
      OBVIOUS
    <2>2. PICK k \in S : TRUE
      OBVIOUS
    <2>3. N - k \in T
      BY <2>2
    <2> QED
      BY <2>1, <2>3
  <1>2. PICK t \in T : \A u \in T : t <= u
    BY <1>1, Least
  <1>3. PICK m \in S : t = N - m
    OBVIOUS
  <1>4. ASSUME NEW k \in S PROVE k <= m
    <2>1. t <= N - k
      BY <1>2
    <2> QED
      BY <1>3, <2>1
  <1> QED
    BY <1>3, <1>4

(* The oldest n of a set of places: at most n, and all if they are fewer.  *)
FirstOf(n, Q) == {i \in Q : Cardinality({j \in Q : j <= i}) <= n}

LEMMA FirstOfCounts ==
  ASSUME NEW N \in Nat, NEW Q, Q \subseteq 1 .. N, NEW n \in Nat
  PROVE  /\ IsFiniteSet(FirstOf(n, Q))
         /\ Cardinality(FirstOf(n, Q)) \in 0 .. n
         /\ Cardinality(FirstOf(n, Q)) < n => FirstOf(n, Q) = Q
  <1> DEFINE O == FirstOf(n, Q)
  <1>1. IsFiniteSet(Q) /\ O \subseteq Q /\ Q \subseteq Nat
    <2>1. IsFiniteSet(1 .. N)
      BY FS_Interval
    <2>2. 1 .. N \subseteq Nat
      OBVIOUS
    <2> QED
      BY <2>1, <2>2, FS_Subset DEF FirstOf
  <1>2. IsFiniteSet(O) /\ Cardinality(O) \in Nat
    BY <1>1, FS_Subset, FS_CardinalityType
  <1>3. ASSUME O # {} PROVE Cardinality(O) <= n
    <2>1. PICK m \in O : \A k \in O : k <= m
      <3>1. O \subseteq 1 .. N
        BY <1>1
      <3> QED
        BY <1>3, <3>1, Greatest
    <2> DEFINE R == {j \in Q : j <= m}
    <2>2. O \subseteq R /\ IsFiniteSet(R)
      BY <1>1, <2>1, FS_Subset
    <2>3. Cardinality(O) <= Cardinality(R) /\ Cardinality(R) \in Nat
      BY <2>2, FS_Subset, FS_CardinalityType
    <2>4. Cardinality(R) <= n
      BY <2>1 DEF FirstOf
    <2> QED
      BY <1>2, <2>3, <2>4
  <1>4. Cardinality(O) \in 0 .. n
    BY <1>2, <1>3, FS_EmptySet
  <1>5. ASSUME Cardinality(O) < n, O # Q PROVE FALSE
    <2>1. Q \ O \subseteq Nat /\ Q \ O # {}
      BY <1>1, <1>5
    <2>2. PICK m \in Q \ O : \A k \in Q \ O : m <= k
      BY <2>1, Least
    <2> DEFINE R == {j \in Q : j <= m}
    <2>3. IsFiniteSet(R) /\ m \in R /\ Cardinality(R) \in Nat
      BY <1>1, <2>1, FS_Subset, FS_CardinalityType
    <2>4. R \ {m} \subseteq O
      <3>1. \A j \in R : j \in Nat /\ m \in Nat /\ (j # m => ~(m <= j))
        BY <2>1
      <3> QED
        BY <2>2, <3>1
    <2>5. Cardinality(R \ {m}) = Cardinality(R) - 1 /\ Cardinality(R \ {m}) <= Cardinality(O)
      BY <1>2, <2>3, <2>4, FS_RemoveElement, FS_Subset
    <2>6. ~(Cardinality(R) <= n)
      BY <2>2 DEF FirstOf
    <2> QED
      BY <1>2, <1>5, <2>3, <2>5, <2>6
  <1> QED
    BY <1>2, <1>4, <1>5

-----------------------------------------------------------------------------
(* AsyncBatchUploader: slots and the line                                  *)

UploadStates == {"new", "ready", "queued", "granted", "left", "uploading",
                 "value", "error", "cancelled"}

HeldIn(uploads) == {f \in Files : uploads[f] \in {"granted", "uploading"}}

(* Every slot is free or held, and the line is exactly of those that are   *)
(* queued, have been granted a slot or have been cancelled there.          *)
SlotsCounted(n, uploads, waiting) ==
  /\ n \in Nat
  /\ uploads \in [Files -> UploadStates]
  /\ waiting \in Seq(Files)
  /\ n + Cardinality(HeldIn(uploads)) = MaxConcurrent
  /\ \A i, j \in DOMAIN waiting : waiting[i] = waiting[j] => i = j
  /\ \A f \in Files : uploads[f] \in {"queued", "granted", "left"}
                        <=> \E i \in DOMAIN waiting : waiting[i] = f

(* The instance has a copy of FiniteSets of its own.                       *)
LEMMA UploaderCardinality ==
  ASSUME NEW S
  PROVE  /\ Uploader!Cardinality(S) = Cardinality(S)
         /\ Uploader!IsFiniteSet(S) <=> IsFiniteSet(S)
  <1>1. Uploader!Cardinality(S) = Cardinality(S)
    BY DEF Uploader!Cardinality, Cardinality
  <1>2. Uploader!IsFiniteSet(S) <=> IsFiniteSet(S)
    BY DEF Uploader!IsFiniteSet, IsFiniteSet
  <1> QED
    BY <1>1, <1>2

LEMMA UploaderConstants == IsFiniteSet(Files) /\ MaxConcurrent \in Nat \ {0}
  BY BatchesAssumption, UploaderCardinality DEF Uploader!UploaderAssumption

LEMMA OldestAre ==
  ASSUME NEW n, NEW uploads, NEW waiting
  PROVE  Uploader!Oldest(n, uploads, waiting)
           = FirstOf(n, {i \in DOMAIN waiting : uploads[waiting[i]] = "queued"})
  BY UploaderCardinality DEF Uploader!Oldest, FirstOf

LEMMA HeldFinite ==
  ASSUME NEW uploads
  PROVE  IsFiniteSet(HeldIn(uploads)) /\ Cardinality(HeldIn(uploads)) \in Nat
  <1>1. HeldIn(uploads) \subseteq Files
    BY DEF HeldIn
  <1> QED
    BY <1>1, UploaderConstants, FS_Subset, FS_CardinalityType

(* A slot that is handed over is no longer free but held: waking changes   *)
(* nothing but that.                                                       *)
LEMMA WakeCounts ==
  ASSUME NEW n, NEW uploads, NEW waiting, SlotsCounted(n, uploads, waiting),
         NEW woken, IsFiniteSet(woken), Cardinality(woken) \in 0 .. n,
         woken \subseteq {i \in DOMAIN waiting : uploads[waiting[i]] = "queued"},
         Uploader!Wake(woken, n, uploads, waiting)
  PROVE  /\ SlotsCounted(slots', upload', line')
         /\ \A f \in Files : upload'[f] = IF \E i \in woken : waiting[i] = f
                                          THEN "granted" ELSE uploads[f]
  <1> DEFINE W == {waiting[i] : i \in woken}
  <1> USE DEF SlotsCounted
  <1>1. /\ slots' = n - Cardinality(woken) /\ line' = waiting
        /\ upload' = [f \in Files |-> IF f \in W THEN "granted" ELSE uploads[f]]
    <2>1. \A f : f \in W <=> \E i \in woken : waiting[i] = f
      OBVIOUS
    <2> HIDE DEF W
    <2> QED
      BY <2>1, UploaderCardinality DEF Uploader!Wake
  <1>2. \A i \in woken : i \in DOMAIN waiting /\ waiting[i] \in Files
    OBVIOUS
  <1>3. W \subseteq Files /\ \A f \in W : uploads[f] = "queued"
    BY <1>2
  <1>4. IsFiniteSet(W) /\ Cardinality(W) = Cardinality(woken)
    <2> DEFINE g == [i \in woken |-> waiting[i]]
    <2>1. g \in [woken -> W] /\ \A f \in W : \E i \in woken : g[i] = f
      OBVIOUS
    <2>2. \A i, j \in woken : g[i] = g[j] => i = j
      BY <1>2
    <2> HIDE DEF g, W
    <2>3. g \in Bijection(woken, W)
      <3>1. g \in Injection(woken, W)
        BY <2>1, <2>2 DEF Injection, IsInjective
      <3>2. g \in Surjection(woken, W)
        BY <2>1 DEF Surjection
      <3> QED
        BY <3>1, <3>2 DEF Bijection
    <2>4. ExistsBijection(woken, W)
      BY <2>3 DEF ExistsBijection
    <2> QED
      BY <2>4, FS_Bijection
  <1>5. HeldIn(upload') = HeldIn(uploads) \cup W /\ HeldIn(uploads) \cap W = {}
    BY <1>1, <1>3 DEF HeldIn
  <1>6. Cardinality(HeldIn(upload')) = Cardinality(HeldIn(uploads)) + Cardinality(woken)
    <2>1. Cardinality(HeldIn(uploads) \cap W) = 0
      BY <1>5, FS_EmptySet
    <2>2. Cardinality(HeldIn(uploads) \cup W)
            = Cardinality(HeldIn(uploads)) + Cardinality(W)
                - Cardinality(HeldIn(uploads) \cap W)
      BY <1>4, HeldFinite, FS_Union
    <2>3. Cardinality(HeldIn(uploads)) \in Nat /\ Cardinality(W) \in Nat
      BY <1>4, HeldFinite
    <2> HIDE DEF W
    <2> QED
      BY <1>4, <1>5, <2>1, <2>2, <2>3
  <1>7. slots' \in Nat /\ slots' + Cardinality(HeldIn(upload')) = MaxConcurrent
    BY <1>1, <1>6, HeldFinite
  <1>8. upload' \in [Files -> UploadStates]
    BY <1>1 DEF UploadStates
  <1>9. \A f \in Files : upload'[f] \in {"queued", "granted", "left"}
                           <=> uploads[f] \in {"queued", "granted", "left"}
    BY <1>1, <1>3
  <1>10. SlotsCounted(slots', upload', line')
    BY <1>1, <1>7, <1>8, <1>9
  <1> QED
    BY <1>1, <1>10

(* Nobody else's upload changes; and a slot that is left over finds nobody *)
(* in line, or, after a release, somebody about to look.                   *)
LEMMA HandOutCounts ==
  ASSUME NEW n, NEW uploads, NEW waiting, SlotsCounted(n, uploads, waiting),
         Uploader!HandOut(n, uploads, waiting)
  PROVE  /\ SlotsCounted(slots', upload', line')
         /\ \A f \in Files : uploads[f] # "queued" => upload'[f] = uploads[f]
         /\ \A f \in Files : upload'[f] \in {uploads[f], "granted"}
         /\ slots' > 0 => \A f \in Files : upload'[f] # "queued"
  <1> DEFINE Q == {i \in DOMAIN waiting : uploads[waiting[i]] = "queued"}
             O == FirstOf(n, Q)
  <1>1. Uploader!Wake(O, n, uploads, waiting)
    BY OldestAre DEF Uploader!HandOut
  <1>2. n \in Nat /\ Len(waiting) \in Nat /\ Q \subseteq 1 .. Len(waiting)
    BY DEF SlotsCounted
  <1>3. /\ IsFiniteSet(O) /\ Cardinality(O) \in 0 .. n
        /\ Cardinality(O) < n => O = Q
    BY <1>2, FirstOfCounts
  <1>4. O \subseteq Q
    BY DEF FirstOf
  <1> HIDE DEF O
  <1>5. /\ SlotsCounted(slots', upload', line')
        /\ \A f \in Files : upload'[f] = IF \E i \in O : waiting[i] = f
                                         THEN "granted" ELSE uploads[f]
    BY <1>1, <1>3, <1>4, WakeCounts
  <1>6. slots' = n - Cardinality(O)
    BY <1>1, UploaderCardinality DEF Uploader!Wake
  <1>7. ASSUME slots' > 0, NEW f \in Files, uploads[f] = "queued"
        PROVE  \E i \in O : waiting[i] = f
    BY <1>2, <1>3, <1>6, <1>7 DEF SlotsCounted
  <1>8. \A i \in O : uploads[waiting[i]] = "queued"
    BY <1>4
  <1> QED
    BY <1>5, <1>7, <1>8

LEMMA HandOutOneCounts ==
  ASSUME slots \in Nat, NEW uploads, SlotsCounted(slots + 1, uploads, line),
         Uploader!HandOutOne(uploads)
  PROVE  /\ SlotsCounted(slots', upload', line')
         /\ \A f \in Files : uploads[f] # "queued" => upload'[f] = uploads[f]
         /\ \A f \in Files : upload'[f] \in {uploads[f], "granted"}
         /\ \/ \A f \in Files : upload'[f] # "queued"
            \/ \E f \in Files : upload'[f] = "granted"
  <1> DEFINE Q == {i \in DOMAIN line : uploads[line[i]] = "queued"}
             O == FirstOf(1, Q)
  <1>1. Uploader!Wake(O, slots + 1, uploads, line)
    BY OldestAre DEF Uploader!HandOutOne
  <1>2. slots + 1 \in Nat /\ Len(line) \in Nat /\ Q \subseteq 1 .. Len(line)
    BY DEF SlotsCounted
  <1>3. /\ IsFiniteSet(O) /\ Cardinality(O) \in 0 .. 1
        /\ Cardinality(O) < 1 => O = Q
    BY <1>2, FirstOfCounts
  <1>4. O \subseteq Q
    BY DEF FirstOf
  <1> HIDE DEF O
  <1>5. Cardinality(O) \in 0 .. slots + 1
    BY <1>3
  <1>6. /\ SlotsCounted(slots', upload', line')
        /\ \A f \in Files : upload'[f] = IF \E i \in O : line[i] = f
                                         THEN "granted" ELSE uploads[f]
    BY <1>1, <1>2, <1>3, <1>4, <1>5, WakeCounts
  <1>7. CASE O = {}
    <2>1. Q = {}
      BY <1>3, <1>7, FS_EmptySet
    <2>2. \A f \in Files : uploads[f] # "queued"
      BY <2>1 DEF SlotsCounted
    <2> QED
      BY <1>6, <1>7, <2>2
  <1>8. CASE O # {}
    <2>1. PICK i \in O : i \in DOMAIN line /\ uploads[line[i]] = "queued"
      BY <1>4, <1>8
    <2>2. line[i] \in Files
      BY <2>1 DEF SlotsCounted
    <2>3. \A j \in O : uploads[line[j]] = "queued"
      BY <1>4
    <2> QED
      BY <1>6, <2>1, <2>2, <2>3
  <1> QED
    BY <1>7, <1>8

LEMMA RemoveAtIs ==
  ASSUME NEW S, NEW s \in Seq(S), NEW i \in 1 .. Len(s)
  PROVE  /\ Uploader!RemoveAt(s, i) \in Seq(S)
         /\ Len(Uploader!RemoveAt(s, i)) = Len(s) - 1
         /\ \A k \in 1 .. Len(s) - 1 :
              Uploader!RemoveAt(s, i)[k] = IF k < i THEN s[k] ELSE s[k + 1]
  <1> DEFINE a == SubSeq(s, 1, i - 1)
             b == SubSeq(s, i + 1, Len(s))
  <1>1. /\ a \in Seq(S) /\ Len(a) = i - 1
        /\ \A k \in 1 .. i - 1 : a[k] = s[k]
    OBVIOUS
  <1>2. /\ b \in Seq(S) /\ Len(b) = Len(s) - i
        /\ \A k \in 1 .. Len(s) - i : b[k] = s[k + i]
    OBVIOUS
  <1>3. Uploader!RemoveAt(s, i) = a \o b
    BY DEF Uploader!RemoveAt
  <1> HIDE DEF a, b
  <1>4. a \o b \in Seq(S) /\ Len(a \o b) = Len(s) - 1
    <2>1. a \o b \in Seq(S)
      BY <1>1, <1>2
    <2>2. Len(a \o b) = Len(a) + Len(b)
      BY <1>1, <1>2, ConcatProperties
    <2>3. Len(a) + Len(b) = Len(s) - 1
      BY <1>1, <1>2
    <2> QED
      BY <2>1, <2>2, <2>3
  <1>5. ASSUME NEW k \in 1 .. Len(s) - 1
        PROVE  (a \o b)[k] = IF k < i THEN s[k] ELSE s[k + 1]
    <2>1. CASE k < i
      BY <1>1, <1>2, <2>1
    <2>2. CASE ~(k < i)
      <3>1. k > Len(a) /\ k - Len(a) \in 1 .. Len(s) - i /\ (k - Len(a)) + i = k + 1
        BY <1>1, <2>2
      <3>2. (a \o b)[k] = b[k - Len(a)]
        BY <1>1, <1>2, <3>1
      <3> QED
        BY <1>2, <2>2, <3>1, <3>2
    <2> QED
      BY <2>1, <2>2
  <1> QED
    BY <1>3, <1>4, <1>5

(* A task that leaves the line leaves the others where they are in it.     *)
LEMMA WithoutWaiterIs ==
  ASSUME line \in Seq(Files), NEW f \in Files,
         \A i, j \in DOMAIN line : line[i] = line[j] => i = j,
         \E i \in DOMAIN line : line[i] = f
  PROVE  /\ Uploader!WithoutWaiter(f) \in Seq(Files)
         /\ \A i, j \in DOMAIN Uploader!WithoutWaiter(f) :
              Uploader!WithoutWaiter(f)[i] = Uploader!WithoutWaiter(f)[j] => i = j
         /\ \A g \in Files :
              (\E i \in DOMAIN Uploader!WithoutWaiter(f) : Uploader!WithoutWaiter(f)[i] = g)
                <=> g # f /\ \E i \in DOMAIN line : line[i] = g
  <1> DEFINE p == CHOOSE i \in DOMAIN line : line[i] = f
             r == Uploader!WithoutWaiter(f)
  <1>1. p \in 1 .. Len(line) /\ line[p] = f
    OBVIOUS
  <1>2. r = Uploader!RemoveAt(line, p)
    BY DEF Uploader!WithoutWaiter
  <1> HIDE DEF p, r
  <1>3. /\ r \in Seq(Files) /\ Len(r) = Len(line) - 1
        /\ \A k \in 1 .. Len(line) - 1 : r[k] = IF k < p THEN line[k] ELSE line[k + 1]
    BY <1>1, <1>2, RemoveAtIs
  <1>4. ASSUME NEW i \in DOMAIN r, NEW j \in DOMAIN r, r[i] = r[j] PROVE i = j
    <2>1. /\ i \in Nat /\ j \in Nat /\ p \in Nat
          /\ i \in DOMAIN line /\ j \in DOMAIN line
          /\ i + 1 \in DOMAIN line /\ j + 1 \in DOMAIN line
      BY <1>1, <1>3
    <2> QED
      BY <1>3, <1>4, <2>1
  <1>5. ASSUME NEW g \in Files
        PROVE  (\E i \in DOMAIN r : r[i] = g) <=> g # f /\ \E i \in DOMAIN line : line[i] = g
    <2>1. ASSUME NEW i \in DOMAIN r, r[i] = g
          PROVE  g # f /\ \E k \in DOMAIN line : line[k] = g
      <3>1. i \in DOMAIN line /\ i + 1 \in DOMAIN line /\ i \in Nat /\ p \in Nat
        BY <1>1, <1>3
      <3> QED
        BY <1>1, <1>3, <2>1, <3>1
    <2>2. ASSUME g # f, NEW k \in DOMAIN line, line[k] = g
          PROVE  \E i \in DOMAIN r : r[i] = g
      <3>1. k # p /\ k \in Nat /\ p \in Nat
        BY <1>1, <2>2
      <3>2. CASE k < p
        <4>1. k \in DOMAIN r /\ r[k] = line[k]
          BY <1>1, <1>3, <3>2
        <4> QED
          BY <2>2, <4>1
      <3>3. CASE k > p
        <4>1. k - 1 \in DOMAIN r /\ r[k - 1] = line[k]
          BY <1>1, <1>3, <3>3
        <4> QED
          BY <2>2, <4>1
      <3> QED
        BY <3>1, <3>2, <3>3
    <2> QED
      BY <2>1, <2>2
  <1> QED
    BY <1>3, <1>4, <1>5 DEF r

-----------------------------------------------------------------------------
(* AsyncBatchUploader: the actions                                         *)

(* No slot lies idle beside a task in line, unless one is about to look.   *)
NobodyIdles ==
  slots > 0 => \/ \A f \in Files : upload[f] # "queued"
               \/ \E f \in Files : upload[f] = "granted"

UploaderIInv ==
  /\ SlotsCounted(slots, upload, line)
  /\ NobodyIdles
  /\ batch \in [Uploader!Batches ->
       {"idle", "gathering", "cancelling", "returned", "raised", "cancelled"}]
  /\ doomed \subseteq Files
  /\ \A f \in Files : batch[MCBatchOf[f]] = "idle" => upload[f] = "new"
  /\ Uploader!ResultsAreTrue

LEMMA InitUploader == Uploader!Init => UploaderIInv
  <1> SUFFICES ASSUME Uploader!Init PROVE UploaderIInv
    OBVIOUS
  <1> USE DEF Uploader!Init
  <1>1. HeldIn(upload) = {}
    BY DEF HeldIn
  <1>2. slots + Cardinality(HeldIn(upload)) = MaxConcurrent /\ slots \in Nat
    BY <1>1, FS_EmptySet, UploaderConstants
  <1>3. SlotsCounted(slots, upload, line)
    BY <1>2 DEF SlotsCounted, UploadStates
  <1>4. NobodyIdles
    BY DEF NobodyIdles
  <1>5. batch \in [Uploader!Batches ->
          {"idle", "gathering", "cancelling", "returned", "raised", "cancelled"}]
    OBVIOUS
  <1>6. Uploader!ResultsAreTrue
    BY DEF Uploader!ResultsAreTrue
  <1> QED
    BY <1>3, <1>4, <1>5, <1>6 DEF UploaderIInv

(* What a task does with its own upload and the line leaves the uploads    *)
(* that have not begun, or have ended, as they are.                        *)
LEMMA UploadMoves ==
  ASSUME UploaderIInv, UNCHANGED batch, doomed' \subseteq doomed,
         SlotsCounted(slots', upload', line'), NobodyIdles',
         \A f \in Files : upload[f] \in {"new", "value", "error", "cancelled"}
                            => upload'[f] = upload[f]
  PROVE  UploaderIInv'
  <1> USE DEF UploaderIInv
  <1>1. Uploader!ResultsAreTrue'
    BY DEF Uploader!ResultsAreTrue, Uploader!FilesOf, Uploader!In
  <1>2. \A f \in Files : batch'[MCBatchOf[f]] = "idle" => upload'[f] = "new"
    OBVIOUS
  <1> QED
    BY <1>1, <1>2

(* An upload that neither takes nor gives back a slot.                     *)
LEMMA HeldSame ==
  ASSUME NEW u, NEW v,
         \A f \in Files : u[f] \in {"granted", "uploading"} <=> v[f] \in {"granted", "uploading"}
  PROVE  HeldIn(u) = HeldIn(v)
  BY DEF HeldIn

LEMMA HeldMore ==
  ASSUME NEW u, NEW v, NEW f \in Files, f \notin HeldIn(u), v[f] \in {"granted", "uploading"},
         \A g \in Files : g # f => v[g] = u[g]
  PROVE  Cardinality(HeldIn(v)) = Cardinality(HeldIn(u)) + 1
  <1>1. HeldIn(v) = HeldIn(u) \cup {f}
    BY DEF HeldIn
  <1> QED
    BY <1>1, HeldFinite, FS_AddElement

LEMMA HeldLess ==
  ASSUME NEW u, NEW v, NEW f \in Files, f \in HeldIn(u), v[f] \notin {"granted", "uploading"},
         \A g \in Files : g # f => v[g] = u[g]
  PROVE  Cardinality(HeldIn(v)) = Cardinality(HeldIn(u)) - 1
  <1>1. HeldIn(v) = HeldIn(u) \ {f}
    BY DEF HeldIn
  <1> QED
    BY <1>1, HeldFinite, FS_RemoveElement

LEMMA AcquireUploader ==
  ASSUME UploaderIInv, NEW f \in Files, Uploader!Acquire(f) PROVE UploaderIInv'
  <1> USE DEF UploaderIInv
  <1>1. /\ upload[f] = "ready" /\ UNCHANGED <<batch, doomed>>
        /\ upload \in [Files -> UploadStates] /\ line \in Seq(Files) /\ slots \in Nat
    BY DEF Uploader!Acquire, SlotsCounted
  <1>2. CASE Uploader!Locked
    <2>1. /\ upload' = [upload EXCEPT ![f] = "queued"]
          /\ line' = Append(line, f) /\ slots' = slots
      BY <1>2 DEF Uploader!Acquire, Uploader!Set
    <2>2. /\ line' \in Seq(Files) /\ Len(line') = Len(line) + 1
          /\ \A i \in 1 .. Len(line) + 1 :
               line'[i] = IF i = Len(line) + 1 THEN f ELSE line[i]
      BY <1>1, <2>1
    <2>3. \A i \in DOMAIN line : line[i] # f
      BY <1>1 DEF SlotsCounted
    <2>4. HeldIn(upload') = HeldIn(upload)
      BY <1>1, <2>1 DEF HeldIn
    <2>5. \A i, j \in DOMAIN line' : line'[i] = line'[j] => i = j
      BY <1>1, <2>2, <2>3 DEF SlotsCounted
    <2>6. ASSUME NEW g \in Files
          PROVE  upload'[g] \in {"queued", "granted", "left"}
                   <=> \E i \in DOMAIN line' : line'[i] = g
      <3>1. CASE g = f
        <4>1. Len(line) + 1 \in DOMAIN line' /\ line'[Len(line) + 1] = f
          BY <1>1, <2>2
        <4> QED
          BY <1>1, <2>1, <3>1, <4>1
      <3>2. CASE g # f
        <4>1. (\E i \in DOMAIN line' : line'[i] = g) <=> \E i \in DOMAIN line : line[i] = g
          BY <1>1, <2>2, <3>2
        <4> QED
          BY <1>1, <2>1, <3>2, <4>1 DEF SlotsCounted
      <3> QED
        BY <3>1, <3>2
    <2>7. upload' \in [Files -> UploadStates]
      BY <1>1, <2>1 DEF UploadStates
    <2>8. SlotsCounted(slots', upload', line')
      BY <2>1, <2>2, <2>4, <2>5, <2>6, <2>7 DEF SlotsCounted
    <2>9. NobodyIdles'
      <3>1. CASE slots = 0
        BY <2>1, <3>1 DEF NobodyIdles
      <3>2. CASE slots # 0
        <4>1. PICK i \in DOMAIN line : upload[line[i]] # "left"
          BY <1>2, <3>2 DEF Uploader!Locked
        <4>2. line[i] \in Files /\ upload[line[i]] \in {"queued", "granted"}
          BY <1>1, <4>1 DEF SlotsCounted
        <4>3. \E g \in Files : upload[g] = "granted"
          BY <1>1, <3>2, <4>2 DEF NobodyIdles
        <4> QED
          BY <1>1, <2>1, <4>3 DEF NobodyIdles
      <3> QED
        BY <3>1, <3>2
    <2> QED
      BY <1>1, <2>1, <2>8, <2>9, UploadMoves
  <1>3. CASE ~Uploader!Locked
    <2>1. /\ upload' = [upload EXCEPT ![f] = "uploading"]
          /\ line' = line /\ slots' = slots - 1 /\ slots # 0
      BY <1>3 DEF Uploader!Acquire, Uploader!Set, Uploader!Locked
    <2>2. Cardinality(HeldIn(upload')) = Cardinality(HeldIn(upload)) + 1
      BY <1>1, <2>1, HeldMore DEF HeldIn
    <2>3. slots' \in Nat /\ slots' + Cardinality(HeldIn(upload')) = MaxConcurrent
      <3>1. /\ slots + Cardinality(HeldIn(upload)) = MaxConcurrent
            /\ Cardinality(HeldIn(upload)) \in Nat
        BY HeldFinite DEF SlotsCounted
      <3> QED
        BY <1>1, <2>1, <2>2, <3>1
    <2>4. SlotsCounted(slots', upload', line')
      BY <1>1, <2>1, <2>3 DEF SlotsCounted, UploadStates
    <2>5. NobodyIdles'
      BY <1>1, <2>1 DEF NobodyIdles
    <2> QED
      BY <1>1, <2>1, <2>4, <2>5, UploadMoves
  <1> QED
    BY <1>2, <1>3

(* A task that leaves the line for the upload, or with what it was handed, *)
(* leaves the others in it, and hands out what is free.                    *)
LEMMA LeaveLine ==
  ASSUME UploaderIInv, NEW f \in Files, upload[f] \in {"granted", "left"},
         NEW s \in {"uploading", "cancelled"}, NEW n \in Nat,
         n + Cardinality(HeldIn([upload EXCEPT ![f] = s])) = MaxConcurrent,
         Uploader!HandOut(n, [upload EXCEPT ![f] = s], Uploader!WithoutWaiter(f)),
         UNCHANGED batch, doomed' \subseteq doomed
  PROVE  UploaderIInv'
  <1> DEFINE u == [upload EXCEPT ![f] = s]
             r == Uploader!WithoutWaiter(f)
  <1> USE DEF UploaderIInv
  <1>1. upload \in [Files -> UploadStates] /\ u \in [Files -> UploadStates]
    BY DEF SlotsCounted, UploadStates
  <1>2. /\ r \in Seq(Files)
        /\ \A i, j \in DOMAIN r : r[i] = r[j] => i = j
        /\ \A g \in Files : (\E i \in DOMAIN r : r[i] = g)
                              <=> g # f /\ \E i \in DOMAIN line : line[i] = g
    BY WithoutWaiterIs DEF SlotsCounted
  <1>3. \A g \in Files : u[g] = IF g = f THEN s ELSE upload[g]
    BY <1>1
  <1> HIDE DEF r, u
  <1>4. ASSUME NEW g \in Files
        PROVE  u[g] \in {"queued", "granted", "left"} <=> \E i \in DOMAIN r : r[i] = g
    BY <1>2, <1>3 DEF SlotsCounted
  <1>5. SlotsCounted(n, u, r)
    BY <1>1, <1>2, <1>4 DEF SlotsCounted, u
  <1>6. Uploader!HandOut(n, u, r)
    BY DEF u, r
  <1>7. /\ SlotsCounted(slots', upload', line')
        /\ \A g \in Files : u[g] # "queued" => upload'[g] = u[g]
        /\ slots' > 0 => \A g \in Files : upload'[g] # "queued"
    BY <1>5, <1>6, HandOutCounts
  <1>8. NobodyIdles'
    BY <1>7 DEF NobodyIdles
  <1>9. \A g \in Files : upload[g] \in {"new", "value", "error", "cancelled"}
                           => upload'[g] = upload[g]
    BY <1>3, <1>7
  <1> QED
    BY <1>7, <1>8, <1>9, UploadMoves

LEMMA GrantedUploader ==
  ASSUME UploaderIInv, NEW f \in Files, Uploader!Granted(f) PROVE UploaderIInv'
  <1> DEFINE u == [upload EXCEPT ![f] = "uploading"]
  <1>1. /\ upload[f] = "granted" /\ UNCHANGED <<batch, doomed>>
        /\ Uploader!HandOut(slots, u, Uploader!WithoutWaiter(f))
    BY DEF Uploader!Granted, Uploader!Set
  <1>2. upload \in [Files -> UploadStates] /\ slots \in Nat
    BY DEF UploaderIInv, SlotsCounted
  <1>3. HeldIn(u) = HeldIn(upload)
    BY <1>1, <1>2 DEF HeldIn
  <1>4. slots + Cardinality(HeldIn(u)) = MaxConcurrent
    BY <1>3 DEF UploaderIInv, SlotsCounted
  <1> QED
    BY <1>1, <1>2, <1>4, LeaveLine

LEMMA GiveUpUploader ==
  ASSUME UploaderIInv, NEW f \in Files, Uploader!GiveUp(f) PROVE UploaderIInv'
  <1> DEFINE u == [upload EXCEPT ![f] = "cancelled"]
  <1>1. UNCHANGED batch /\ doomed' \subseteq doomed
    BY DEF Uploader!GiveUp
  <1>2. upload \in [Files -> UploadStates] /\ slots \in Nat
    BY DEF UploaderIInv, SlotsCounted
  <1>3. /\ slots + Cardinality(HeldIn(upload)) = MaxConcurrent
        /\ Cardinality(HeldIn(upload)) \in Nat
    BY HeldFinite DEF UploaderIInv, SlotsCounted
  <1>4. CASE upload[f] = "ready" /\ upload' = u /\ UNCHANGED <<slots, line>>
    <2>1. HeldIn(upload') = HeldIn(upload)
      BY <1>2, <1>4 DEF HeldIn
    <2>2. upload' \in [Files -> UploadStates]
      BY <1>2, <1>4 DEF UploadStates
    <2>3. \A g \in Files : upload'[g] \in {"queued", "granted", "left"}
                             <=> upload[g] \in {"queued", "granted", "left"}
      BY <1>2, <1>4
    <2>4. SlotsCounted(slots', upload', line')
      BY <1>4, <2>1, <2>2, <2>3 DEF UploaderIInv, SlotsCounted
    <2>5. NobodyIdles'
      BY <1>2, <1>4 DEF UploaderIInv, NobodyIdles
    <2> QED
      BY <1>1, <1>2, <1>4, <2>4, <2>5, UploadMoves
  <1>5. CASE /\ upload[f] = "left"
             /\ Uploader!HandOut(slots, u, Uploader!WithoutWaiter(f))
    <2>1. HeldIn(u) = HeldIn(upload)
      BY <1>2, <1>5 DEF HeldIn
    <2> QED
      BY <1>1, <1>2, <1>3, <1>5, <2>1, LeaveLine
  <1>6. CASE /\ upload[f] = "granted"
             /\ Uploader!HandOut(slots + 1, u, Uploader!WithoutWaiter(f))
    <2>1. Cardinality(HeldIn(u)) = Cardinality(HeldIn(upload)) - 1
      BY <1>2, <1>6, HeldLess DEF HeldIn
    <2>2. slots + 1 \in Nat /\ (slots + 1) + Cardinality(HeldIn(u)) = MaxConcurrent
      BY <1>2, <1>3, <2>1
    <2> QED
      BY <1>1, <1>6, <2>2, LeaveLine
  <1> QED
    BY <1>4, <1>5, <1>6 DEF Uploader!GiveUp, Uploader!Set

(* Leaving the upload releases its slot, however it ended.                 *)
LEMMA EndUploader ==
  ASSUME UploaderIInv, NEW f \in Files, NEW s \in {"value", "error", "cancelled"},
         Uploader!End(f, s)
  PROVE  UploaderIInv'
  <1> DEFINE u == [upload EXCEPT ![f] = s]
  <1>1. /\ upload[f] = "uploading" /\ UNCHANGED batch /\ doomed' \subseteq doomed
        /\ Uploader!HandOutOne(u)
    BY DEF Uploader!End, Uploader!Set
  <1>2. /\ upload \in [Files -> UploadStates] /\ slots \in Nat
        /\ u \in [Files -> UploadStates]
    BY DEF UploaderIInv, SlotsCounted, UploadStates
  <1>3. \A g \in Files : u[g] = IF g = f THEN s ELSE upload[g]
    BY <1>2
  <1> HIDE DEF u
  <1>4. Cardinality(HeldIn(u)) = Cardinality(HeldIn(upload)) - 1
    <2>1. f \in HeldIn(upload) /\ u[f] \notin {"granted", "uploading"}
      BY <1>1, <1>3 DEF HeldIn
    <2> QED
      BY <1>3, <2>1, HeldLess
  <1>5. slots + 1 \in Nat /\ (slots + 1) + Cardinality(HeldIn(u)) = MaxConcurrent
    <2>1. /\ slots + Cardinality(HeldIn(upload)) = MaxConcurrent
          /\ Cardinality(HeldIn(upload)) \in Nat
      BY HeldFinite DEF UploaderIInv, SlotsCounted
    <2> QED
      BY <1>2, <1>4, <2>1
  <1>6. \A g \in Files : u[g] \in {"queued", "granted", "left"}
                           <=> upload[g] \in {"queued", "granted", "left"}
    BY <1>1, <1>3
  <1>7. SlotsCounted(slots + 1, u, line)
    BY <1>2, <1>5, <1>6 DEF UploaderIInv, SlotsCounted
  <1>8. /\ SlotsCounted(slots', upload', line')
        /\ \A g \in Files : u[g] # "queued" => upload'[g] = u[g]
        /\ \/ \A g \in Files : upload'[g] # "queued"
           \/ \E g \in Files : upload'[g] = "granted"
    BY <1>1, <1>2, <1>7, HandOutOneCounts
  <1>9. NobodyIdles'
    BY <1>8 DEF NobodyIdles
  <1>10. \A g \in Files : upload[g] \in {"new", "value", "error", "cancelled"}
                            => upload'[g] = upload[g]
    BY <1>1, <1>3, <1>8
  <1> QED
    BY <1>1, <1>8, <1>9, <1>10, UploadMoves

(* upload_all begins with uploads that are all new.                        *)
LEMMA BeginUploader ==
  ASSUME UploaderIInv, NEW b \in Uploader!Batches, Uploader!Begin(b) PROVE UploaderIInv'
  <1> USE DEF UploaderIInv
  <1>1. /\ batch[b] = "idle" /\ batch' = [batch EXCEPT ![b] = "gathering"]
        /\ UNCHANGED <<doomed, slots, line>>
        /\ upload \in [Files -> UploadStates]
    BY DEF Uploader!Begin, SlotsCounted
  <1>2. \A f \in Files : upload'[f] = IF MCBatchOf[f] = b THEN "ready" ELSE upload[f]
    BY DEF Uploader!Begin, Uploader!FilesOf
  <1>3. \A f \in Files : MCBatchOf[f] = b => upload[f] = "new"
    BY <1>1
  <1>4. upload' \in [Files -> UploadStates]
    BY <1>1 DEF Uploader!Begin, UploadStates
  <1>5. HeldIn(upload') = HeldIn(upload)
    BY <1>2, <1>3 DEF HeldIn
  <1>6. SlotsCounted(slots', upload', line')
    BY <1>1, <1>2, <1>3, <1>4, <1>5 DEF SlotsCounted
  <1>7. NobodyIdles'
    BY <1>1, <1>2, <1>3 DEF NobodyIdles
  <1>8. Uploader!ResultsAreTrue'
    BY <1>1, <1>2, <1>3 DEF Uploader!ResultsAreTrue, Uploader!FilesOf, Uploader!In
  <1>9. \A f \in Files : batch'[MCBatchOf[f]] = "idle" => upload'[f] = "new"
    <2>1. \A f \in Files : MCBatchOf[f] \in Uploader!Batches
      BY DEF Uploader!Batches
    <2> QED
      BY <1>1, <1>2, <2>1
  <1> QED
    BY <1>1, <1>6, <1>7, <1>8, <1>9

LEMMA GatheredUploader ==
  ASSUME UploaderIInv, NEW b \in Uploader!Batches, Uploader!Gathered(b) PROVE UploaderIInv'
  <1> USE DEF UploaderIInv
  <1>1. /\ UNCHANGED <<upload, doomed, slots, line>> /\ batch[b] # "idle"
        /\ \E s \in {"returned", "raised", "cancelled"} :
             /\ batch' = [batch EXCEPT ![b] = s]
             /\ s = "returned" => Uploader!FilesOf(b) \subseteq
                                    Uploader!In("value") \cup Uploader!In("error")
             /\ s = "raised" => Uploader!FilesOf(b) \cap Uploader!In("cancelled") # {}
    BY DEF Uploader!Gathered
  <1>2. SlotsCounted(slots', upload', line') /\ NobodyIdles'
    BY <1>1 DEF NobodyIdles
  <1>3. Uploader!ResultsAreTrue'
    BY <1>1 DEF Uploader!ResultsAreTrue, Uploader!In
  <1>4. \A f \in Files : batch'[MCBatchOf[f]] = "idle" => batch[MCBatchOf[f]] = "idle"
    <2>1. \A f \in Files : MCBatchOf[f] \in Uploader!Batches
      BY DEF Uploader!Batches
    <2> QED
      BY <1>1, <2>1
  <1> QED
    BY <1>1, <1>2, <1>3, <1>4

(* A cancelled caller takes its tasks' places in line from them.           *)
LEMMA CancelUploader ==
  ASSUME UploaderIInv, NEW b \in Uploader!Batches, Uploader!Cancel(b) PROVE UploaderIInv'
  <1> USE DEF UploaderIInv
  <1>1. /\ UNCHANGED <<slots, line>> /\ upload \in [Files -> UploadStates]
        /\ batch[b] = "gathering" /\ batch' = [batch EXCEPT ![b] = "cancelling"]
    BY DEF Uploader!Cancel, SlotsCounted
  <1>2. doomed' \subseteq Files
    BY DEF Uploader!Cancel, Uploader!FilesOf
  <1>3. \A f \in Files : \/ upload'[f] = upload[f]
                         \/ upload[f] = "queued" /\ upload'[f] = "left"
    BY DEF Uploader!Cancel
  <1>4. upload' \in [Files -> UploadStates]
    BY <1>1 DEF Uploader!Cancel, UploadStates
  <1>5. HeldIn(upload') = HeldIn(upload)
    BY <1>3 DEF HeldIn
  <1>6. SlotsCounted(slots', upload', line')
    BY <1>1, <1>3, <1>4, <1>5 DEF SlotsCounted
  <1>7. NobodyIdles'
    BY <1>1, <1>3 DEF NobodyIdles
  <1>8. Uploader!ResultsAreTrue'
    BY <1>1, <1>3 DEF Uploader!ResultsAreTrue, Uploader!FilesOf, Uploader!In
  <1>9. \A f \in Files : batch'[MCBatchOf[f]] = "idle" => upload'[f] = "new"
    <2>1. \A f \in Files : MCBatchOf[f] \in Uploader!Batches
      BY DEF Uploader!Batches
    <2> QED
      BY <1>1, <1>3, <2>1
  <1> QED
    BY <1>1, <1>2, <1>6, <1>7, <1>8, <1>9

LEMMA NextUploader == UploaderIInv /\ [Uploader!Next]_uploaderVars => UploaderIInv'
  <1> SUFFICES ASSUME UploaderIInv, [Uploader!Next]_uploaderVars PROVE UploaderIInv'
    OBVIOUS
  <1>1. ASSUME NEW f \in Files,
               Uploader!Return(f) \/ Uploader!Raise(f) \/ Uploader!EndCancelled(f)
        PROVE  UploaderIInv'
    BY <1>1, EndUploader DEF Uploader!Return, Uploader!Raise, Uploader!EndCancelled
  <1>2. ASSUME NEW f \in Files, Uploader!UploadOne(f) PROVE UploaderIInv'
    BY <1>1, <1>2, AcquireUploader, GrantedUploader, GiveUpUploader DEF Uploader!UploadOne
  <1>3. CASE UNCHANGED uploaderVars
    <2>1. UNCHANGED <<batch, upload, doomed, slots, line>>
      BY <1>3 DEF uploaderVars
    <2>2. NobodyIdles'
      BY <2>1 DEF UploaderIInv, NobodyIdles
    <2>3. SlotsCounted(slots', upload', line')
      BY <2>1 DEF UploaderIInv
    <2> QED
      BY <2>1, <2>2, <2>3, UploadMoves
  <1> QED
    BY <1>2, <1>3, BeginUploader, GatheredUploader, CancelUploader DEF Uploader!Next

LEMMA UploaderHolds ==
  UploaderIInv => Uploader!TypeOK /\ Uploader!SlotsAreExact /\ Uploader!ResultsAreTrue
  <1> SUFFICES ASSUME UploaderIInv PROVE Uploader!TypeOK /\ Uploader!SlotsAreExact
    BY DEF UploaderIInv
  <1>1. slots \in Nat /\ slots + Cardinality(HeldIn(upload)) = MaxConcurrent
    BY DEF UploaderIInv, SlotsCounted
  <1>2. Uploader!In("granted") \cup Uploader!In("uploading") = HeldIn(upload)
    BY DEF Uploader!In, HeldIn
  <1>3. slots \in 0 .. MaxConcurrent
    BY <1>1, HeldFinite, UploaderConstants
  <1>4. Uploader!TypeOK
    BY <1>3 DEF UploaderIInv, SlotsCounted, UploadStates, Uploader!TypeOK
  <1>5. slots > 0 /\ Uploader!In("queued") # {} => Uploader!In("granted") # {}
    BY DEF UploaderIInv, NobodyIdles, Uploader!In
  <1> QED
    BY <1>1, <1>2, <1>4, <1>5, UploaderCardinality DEF Uploader!SlotsAreExact

-----------------------------------------------------------------------------
(* The run checks the components side by side as each is specified: what   *)
(* is proved of a component holds in the run.                              *)
LEMMA RunTakesTheirSteps ==
  MCSpec => /\ Spec
            /\ Uploader!Init /\ [][Uploader!Next]_uploaderVars
            /\ Checkout!Init /\ [][Checkout!Next]_checksVars
            /\ Scoring!Init /\ [][Scoring!Next]_scoringVars
  <1>1. MCInit => Init /\ Uploader!Init /\ Checkout!Init /\ Scoring!Init
    BY DEF MCInit
  <1>2. [MCNext]_<<component, vars, uploaderVars, checksVars, scoringVars>>
          => /\ [Next]_vars /\ [Uploader!Next]_uploaderVars
             /\ [Checkout!Next]_checksVars /\ [Scoring!Next]_scoringVars
    BY DEF MCNext
  <1> QED
    BY <1>1, <1>2, PTL DEF MCSpec, Spec

LEMMA AllInvariants ==
  MCSpec => [](ExecutorIInv /\ UploaderIInv /\ CheckoutIInv /\ ScoringIInv)
  BY RunTakesTheirSteps, InitExecutor, NextExecutor, InitUploader, NextUploader,
     InitCheckout, NextCheckout, InitScoring, NextScoring, PTL DEF Spec

(* What a batch reports is complete and true: run_all's results, uploads,  *)
(* the checks' verdict and the scores, whatever fails, aborts, is          *)
(* cancelled or is killed, in whatever order the parts end; and the four   *)
(* components keep their types.                                            *)
THEOREM BatchesReportTruly == MCSpec => []ReportsAreTrue
  <1>1. ExecutorIInv /\ UploaderIInv /\ CheckoutIInv /\ ScoringIInv => ReportsAreTrue
    BY ExecutorReports, UploaderHolds, ScoringHolds
    DEF ReportsAreTrue, TypesOK, ExecutorIInv, CheckoutIInv, ScoringIInv
  <1> QED
    BY <1>1, AllInvariants, PTL

(* The cap on uploads holds over all batches, no slot is ever lost, and    *)
(* none lies idle beside a task in line, for any number of files, batches  *)
(* and slots, whoever is cancelled where (_upload_one:83).                 *)
THEOREM SlotsStayExact == MCSpec => []UploadSlotsAreExact
  <1>1. UploaderIInv => UploadSlotsAreExact
    BY UploaderHolds DEF UploadSlotsAreExact
  <1> QED
    BY <1>1, AllInvariants, PTL

(* Once the group has noticed a failed check, no other check runs on       *)
(* uncancelled (checks:35-44).                                             *)
THEOREM FailureStops == MCSpec => []CheckFailureStopsTheOthers
  <1>1. CheckoutIInv => CheckFailureStopsTheOthers
    BY CheckoutHolds DEF CheckFailureStopsTheOthers
  <1> QED
    BY <1>1, AllInvariants, PTL

(* When run_all, run or score_all is over, nothing runs for it any more,   *)
(* however it ended (executor:69, checks:35, scoring:71).                  *)
THEOREM NothingOutlives == MCSpec => []NothingOutlivesItsCall
  <1>1. ExecutorIInv /\ CheckoutIInv /\ ScoringIInv => NothingOutlivesItsCall
    BY CheckoutHolds DEF NothingOutlivesItsCall, ExecutorIInv, ScoringIInv
  <1> QED
    BY <1>1, AllInvariants, PTL
=============================================================================
