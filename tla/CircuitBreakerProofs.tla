------------------------ MODULE CircuitBreakerProofs ------------------------
(* What CircuitBreaker guarantees for every set of threads, threshold and  *)
(* timeout.                                                                *)
EXTENDS CircuitBreaker, TLAPS

(* TrialIsExclusive holds because an open or half-open circuit has reached *)
(* its threshold, and because a circuit that is not half-open has no trial *)
(* in flight; together with the types this is inductive.                   *)
IInv == TypeOK /\ TrialIsExclusive /\ CountMatchesState

LEMMA InitIInv == Init => IInv
  BY BreakerAssumption
     DEF Init, IInv, TypeOK, TrialIsExclusive, CountMatchesState, Trials,
         States, NotOpened, Outside, Admitted

(* Calls that do not end: admission and rejection (_before_call). *)
LEMMA CallIInv == ASSUME IInv, NEW t \in Threads, Call(t) PROVE IInv'
<1> USE BreakerAssumption DEF IInv, TypeOK, TrialIsExclusive,
      CountMatchesState, Trials, States, NotOpened, Outside, Admitted
<1>1. CASE AdmitClosed(t)
  BY <1>1 DEF AdmitClosed
<1>2. CASE AdmitTrial(t)
  BY <1>2 DEF AdmitTrial, CooledDown
<1>3. CASE Reject(t)
  BY <1>3 DEF Reject, FailFast
<1>4. QED BY <1>1, <1>2, <1>3 DEF Call

(* Calls that end: _record_success, _record_failure, or no record at all. *)
LEMMA FinishIInv == ASSUME IInv, NEW t \in Threads, Finish(t) PROVE IInv'
<1> USE BreakerAssumption DEF IInv, TypeOK, TrialIsExclusive,
      CountMatchesState, Trials, States, NotOpened, Outside, Admitted
<1>1. CASE RecordSuccess(t)
  BY <1>1 DEF RecordSuccess, Overdue, Leave
<1>2. CASE RecordFailure(t)
  <2>1. CASE phase[t] = "half_open" /\ Open /\ UNCHANGED consecutiveFailures
    BY <1>2, <2>1 DEF RecordFailure, Open, Leave
  <2>2. CASE Overdue(t) /\ UNCHANGED <<state, consecutiveFailures, sinceOpened>>
    BY <1>2, <2>2 DEF RecordFailure, Leave
  <2>3. CASE phase[t] = "closed" /\ ~Overdue(t) /\ CountFailure
    BY <1>2, <2>3 DEF RecordFailure, CountFailure, Overdue, Open, Leave
  <2>4. QED BY <1>2, <2>1, <2>2, <2>3 DEF RecordFailure
<1>3. CASE Abort(t)
  BY <1>3 DEF Abort, Leave
<1>4. QED BY <1>1, <1>2, <1>3 DEF Finish

LEMMA NextIInv == IInv /\ [Next]_vars => IInv'
<1> SUFFICES ASSUME IInv, [Next]_vars PROVE IInv'
  OBVIOUS
<1> USE BreakerAssumption DEF IInv, TypeOK, TrialIsExclusive,
      CountMatchesState, Trials, States, NotOpened, Outside, Admitted
<1>1. CASE Tick
  BY <1>1 DEF Tick
<1>2. CASE \E t \in Threads : Call(t)
  BY <1>2, CallIInv
<1>3. CASE \E t \in Threads : Finish(t)
  BY <1>3, FinishIInv
<1>4. CASE UNCHANGED vars
  BY <1>4 DEF vars
<1>5. QED BY <1>1, <1>2, <1>3, <1>4 DEF Next

LEMMA SpecIInv == Spec => []IInv
  BY InitIInv, NextIInv, PTL DEF Spec

-----------------------------------------------------------------------------
(* The shared state of the breaker is always well formed: the failure      *)
(* count never passes the threshold and the cooldown never the timeout.    *)
THEOREM TypeCorrect == Spec => []TypeOK
  BY SpecIInv, PTL DEF IInv

(* At most one trial call is in flight, and the circuit stays half-open    *)
(* while it is: concurrent slow calls cannot disturb it.                   *)
THEOREM TrialExclusive == Spec => []TrialIsExclusive
  BY SpecIInv, PTL DEF IInv

(* The failure count and the state never disagree, and the RuntimeError    *)
(* "invalid circuit breaker state" of _before_call is unreachable.         *)
THEOREM CountAgrees == Spec => []CountMatchesState
  BY SpecIInv, PTL DEF IInv

(* A circuit that is not closed is only closed by the end of its trial.    *)
THEOREM TrialCloses == Spec => OnlyTrialCloses
<1> USE DEF IInv, TypeOK, TrialIsExclusive, Trials, Outside, Admitted
<1>1. IInv /\ [Next]_vars
        => [state # "CLOSED" /\ state' = "CLOSED"
              => Trials # {} /\ Trials' = {}]_vars
  <2> SUFFICES ASSUME IInv, Next, state # "CLOSED", state' = "CLOSED"
               PROVE  Trials # {} /\ Trials' = {}
    BY DEF vars
  <2>1. PICK t \in Threads : RecordSuccess(t)
    BY DEF Next, Tick, Call, AdmitClosed, AdmitTrial, Reject, Finish,
           RecordFailure, Abort, CountFailure, Open
  <2>2. t \in Trials
    BY <2>1 DEF RecordSuccess, Overdue
  <2>3. QED BY <2>1, <2>2 DEF RecordSuccess, Leave
<1>2. QED BY <1>1, SpecIInv, PTL DEF Spec, OnlyTrialCloses

(* The cooldown of an open circuit is never restarted: neither rejected    *)
(* calls nor late failures postpone the next trial.                        *)
THEOREM CooldownAdvances == Spec => CooldownNeverRestarts
<1>1. IInv /\ [Next]_vars
        => [state = "OPEN" /\ state' = "OPEN" => sinceOpened' >= sinceOpened]_vars
  <2> SUFFICES ASSUME IInv, Next, state = "OPEN", state' = "OPEN"
               PROVE  sinceOpened' >= sinceOpened
    BY DEF vars
  <2> USE DEF IInv, TypeOK, NotOpened
  <2>1. sinceOpened \in Int
    BY BreakerAssumption
  <2>2. CASE Tick
    BY <2>1, <2>2 DEF Tick
  <2>3. ASSUME NEW t \in Threads, Call(t) PROVE sinceOpened' = sinceOpened
    BY <2>3 DEF Call, AdmitClosed, AdmitTrial, Reject
  <2>4. ASSUME NEW t \in Threads, Finish(t) PROVE sinceOpened' = sinceOpened
    <3>1. phase[t] # "half_open"
      BY DEF TrialIsExclusive, Trials
    <3>2. QED BY <2>4, <3>1 DEF Finish, RecordSuccess, RecordFailure, Abort, Overdue
  <2>5. QED BY <2>1, <2>2, <2>3, <2>4 DEF Next
<1>2. QED BY <1>1, SpecIInv, PTL DEF Spec, CooldownNeverRestarts

(* A trial call that ends without an abort closes or reopens the circuit.  *)
THEOREM TrialIsDecisive == Spec => TrialDecides
<1>1. IInv /\ [Next]_vars
        => [\A t \in Trials :
              t \notin Trials' => state' # "HALF_OPEN" \/ phase'[t] = "aborted"]_vars
  <2> SUFFICES ASSUME IInv, Next, NEW t \in Trials, t \notin Trials',
                      phase'[t] # "aborted"
               PROVE  state' # "HALF_OPEN"
    BY DEF vars
  <2> USE DEF IInv, TypeOK, Trials
  <2>1. t \in Threads /\ phase[t] = "half_open" /\ phase'[t] # "half_open"
    OBVIOUS
  <2>2. PICK u \in Threads : Call(u) \/ Finish(u)
    BY <2>1 DEF Next, Tick
  <2>3. u = t
    BY <2>1, <2>2 DEF Call, AdmitClosed, AdmitTrial, Reject, Finish,
       RecordSuccess, RecordFailure, Abort, Leave
  <2>4. RecordSuccess(t) \/ RecordFailure(t)
    BY <2>1, <2>2, <2>3
       DEF Call, AdmitClosed, AdmitTrial, Reject, Outside, Finish, Abort
  <2>5. QED BY <2>1, <2>4 DEF RecordSuccess, RecordFailure, Overdue, Open
<1>2. QED BY <1>1, SpecIInv, PTL DEF Spec, TrialDecides
=============================================================================
