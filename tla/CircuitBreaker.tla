--------------------------- MODULE CircuitBreaker ---------------------------
(***************************************************************************)
(* CircuitBreaker of src/concurrencyexamples/circuitbreaker/breaker.py:    *)
(* request threads share the state of one circuit.  Each of _before_call,  *)
(* _record_success and _record_failure is one critical section of _lock,   *)
(* hence one action; the partner operation itself runs between two of      *)
(* them, outside the lock.                                                 *)
(*                                                                         *)
(* The clock is only ever read as _clock() - _opened_at < timeout, so it   *)
(* is kept as the age of the last opening, saturated at the timeout.       *)
(***************************************************************************)
EXTENDS Integers

CONSTANTS
  Threads,            (* request threads                                   *)
  FailureThreshold,   (* failure_threshold                                 *)
  RecoveryTimeout,    (* recovery_timeout, in clock ticks                  *)
  Endings             (* how a partner operation may end (see AllEndings)  *)

(* "return": normally; "raise": with an Exception; "abort": with another   *)
(* BaseException (SystemExit, KeyboardInterrupt, CancelledError), which    *)
(* the `except Exception` of call() does not catch.                        *)
AllEndings == {"return", "raise", "abort"}

ASSUME BreakerAssumption ==
  /\ FailureThreshold \in Nat \ {0}
  /\ RecoveryTimeout \in Nat
  /\ Endings \subseteq AllEndings

VARIABLES
  state,                (* _state                                          *)
  consecutiveFailures,  (* _consecutive_failures                           *)
  sinceOpened,          (* age of _opened_at, NotOpened when it is None    *)
  phase                 (* per thread: its place in call()                 *)

vars == <<state, consecutiveFailures, sinceOpened, phase>>

States == {"CLOSED", "OPEN", "HALF_OPEN"}
NotOpened == -1

(* "out": not in call(); "rejected": its last call got CircuitOpenError;   *)
(* "aborted": its last operation ended with another BaseException;         *)
(* "closed", "half_open": running the operation, with this admitted_state. *)
Outside == {"out", "rejected", "aborted"}
Admitted == {"closed", "half_open"}

Init ==
  /\ state = "CLOSED"
  /\ consecutiveFailures = 0
  /\ sinceOpened = NotOpened
  /\ phase = [t \in Threads |-> "out"]

-----------------------------------------------------------------------------
(* _before_call *)

CooledDown == sinceOpened >= RecoveryTimeout

AdmitClosed(t) ==
  /\ phase[t] \in Outside
  /\ state = "CLOSED"
  /\ phase' = [phase EXCEPT ![t] = "closed"]
  /\ UNCHANGED <<state, consecutiveFailures, sinceOpened>>

AdmitTrialKeepingOpen(t) ==   \* mutant: the state is not moved to HALF_OPEN
  /\ phase[t] \in Outside
  /\ state = "OPEN" /\ CooledDown
  /\ phase' = [phase EXCEPT ![t] = "half_open"]
  /\ UNCHANGED <<state, consecutiveFailures, sinceOpened>>

AdmitTrial(t) ==
  /\ phase[t] \in Outside
  /\ state = "OPEN" /\ CooledDown
  /\ state' = "HALF_OPEN"
  /\ phase' = [phase EXCEPT ![t] = "half_open"]
  /\ UNCHANGED <<consecutiveFailures, sinceOpened>>

FailFast == state = "HALF_OPEN" \/ (state = "OPEN" /\ ~CooledDown)

RejectAndRestamp(t) ==   \* mutant: a rejected call restarts the cooldown
  /\ phase[t] \in Outside
  /\ FailFast
  /\ phase' = [phase EXCEPT ![t] = "rejected"]
  /\ sinceOpened' = 0
  /\ UNCHANGED <<state, consecutiveFailures>>

Reject(t) ==
  /\ phase[t] \in Outside
  /\ FailFast
  /\ phase' = [phase EXCEPT ![t] = "rejected"]
  /\ UNCHANGED <<state, consecutiveFailures, sinceOpened>>

-----------------------------------------------------------------------------
(* _record_success and _record_failure *)

Leave(t) == phase' = [phase EXCEPT ![t] = "out"]

OverdueNever(t) == FALSE   \* mutant: every success closes the circuit

(* The call was admitted while the circuit was closed, and it is no longer. *)
Overdue(t) == phase[t] = "closed" /\ state # "CLOSED"

RecordSuccess(t) ==
  /\ phase[t] \in Admitted
  /\ "return" \in Endings
  /\ Leave(t)
  /\ \/ Overdue(t) /\ UNCHANGED <<state, consecutiveFailures, sinceOpened>>
     \/ /\ ~Overdue(t)
        /\ state' = "CLOSED"
        /\ consecutiveFailures' = 0
        /\ sinceOpened' = NotOpened

Open == state' = "OPEN" /\ sinceOpened' = 0

CountFailure ==
  /\ consecutiveFailures' = consecutiveFailures + 1
  /\ IF consecutiveFailures' >= FailureThreshold
     THEN Open
     ELSE UNCHANGED <<state, sinceOpened>>

RecordFailureUnguarded(t) ==   \* mutant: overdue failures are counted too
  /\ phase[t] \in Admitted
  /\ "raise" \in Endings
  /\ Leave(t)
  /\ \/ phase[t] = "half_open" /\ Open /\ UNCHANGED consecutiveFailures
     \/ phase[t] = "closed" /\ CountFailure

RecordFailureIgnoringTrial(t) ==   \* mutant: a failed trial is not recorded
  /\ phase[t] \in Admitted
  /\ "raise" \in Endings
  /\ Leave(t)
  /\ \/ state # "CLOSED" /\ UNCHANGED <<state, consecutiveFailures, sinceOpened>>
     \/ state = "CLOSED" /\ CountFailure

RecordFailure(t) ==
  /\ phase[t] \in Admitted
  /\ "raise" \in Endings
  /\ Leave(t)
  /\ \/ phase[t] = "half_open" /\ Open /\ UNCHANGED consecutiveFailures
     \/ Overdue(t) /\ UNCHANGED <<state, consecutiveFailures, sinceOpened>>
     \/ phase[t] = "closed" /\ ~Overdue(t) /\ CountFailure

(* The exception passes through call() and nothing is recorded. *)
Abort(t) ==
  /\ phase[t] \in Admitted
  /\ "abort" \in Endings
  /\ phase' = [phase EXCEPT ![t] = "aborted"]
  /\ UNCHANGED <<state, consecutiveFailures, sinceOpened>>

-----------------------------------------------------------------------------
(* The clock passed to the constructor. *)
Tick ==
  /\ sinceOpened \in 0 .. RecoveryTimeout - 1
  /\ sinceOpened' = sinceOpened + 1
  /\ UNCHANGED <<state, consecutiveFailures, phase>>

Call(t) == AdmitClosed(t) \/ AdmitTrial(t) \/ Reject(t)
Finish(t) == RecordSuccess(t) \/ RecordFailure(t) \/ Abort(t)

Next == Tick \/ \E t \in Threads : Call(t) \/ Finish(t)

Spec == Init /\ [][Next]_vars

(* Time passes, operations end, and requests keep arriving. *)
Fairness ==
  /\ WF_vars(Tick)
  /\ WF_vars(\E t \in Threads : Call(t))
  /\ \A t \in Threads : WF_vars(Finish(t))

FairSpec == Spec /\ Fairness

-----------------------------------------------------------------------------
TypeOK ==
  /\ state \in States
  /\ consecutiveFailures \in 0 .. FailureThreshold
  /\ sinceOpened \in NotOpened .. RecoveryTimeout
  /\ phase \in [Threads -> Outside \cup Admitted]

Trials == {t \in Threads : phase[t] = "half_open"}

(* While a trial call runs, the circuit is half-open and no other trial    *)
(* runs: nothing a slower call records may reopen, close or readmit under  *)
(* it (_before_call:84, _record_success:97, _record_failure:112).          *)
TrialIsExclusive ==
  \A t \in Trials : state = "HALF_OPEN" /\ \A u \in Trials : u = t

(* The failure count and the state never disagree: the circuit is closed   *)
(* exactly when fewer than failure_threshold failures stand, and an open   *)
(* circuit always has an opening time (the RuntimeError at line 88 is      *)
(* unreachable).                                                           *)
CountMatchesState ==
  /\ state = "CLOSED" <=> consecutiveFailures < FailureThreshold
  /\ state = "CLOSED" <=> sinceOpened = NotOpened

(* Only the trial call that was let through closes a circuit that is not   *)
(* closed: a late success of a call admitted earlier does not.             *)
OnlyTrialCloses ==
  [][state # "CLOSED" /\ state' = "CLOSED" => Trials # {} /\ Trials' = {}]_vars

(* Once open, the cooldown only advances: neither a rejected call nor the  *)
(* late failure of a call admitted earlier restarts it.                    *)
CooldownNeverRestarts ==
  [][state = "OPEN" /\ state' = "OPEN" => sinceOpened' >= sinceOpened]_vars

(* A trial call that ends, other than by an abort, decides the circuit: it *)
(* is closed or open again.  Only an aborted trial leaves it half-open     *)
(* with nobody testing it, and then for ever (call:63-68).                 *)
TrialDecides ==
  [][\A t \in Trials :
       t \notin Trials' => state' # "HALF_OPEN" \/ phase'[t] = "aborted"]_vars

(* An open circuit is eventually tried again, however many calls it        *)
(* rejects and however late the failures of earlier calls come in.         *)
CircuitIsRetried == state = "OPEN" ~> state = "HALF_OPEN"
=============================================================================
