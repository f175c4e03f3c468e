----------------------------- MODULE PaymentStatus -----------------------------
(***************************************************************************)
(* AsyncPaymentStatus of asyncpaymentstatus/status.py, for one payment:    *)
(* tasks mark it succeeded or failed, and others wait for the result on    *)
(* the payment's asyncio.Event.  Code between two awaits is atomic.        *)
(*                                                                         *)
(* asyncio.wait_for with a timeout of zero never runs the coroutine it is  *)
(* given: it wraps it in a task, finds the task not done and cancels it.   *)
(***************************************************************************)
CONSTANTS
  Markers,   (* tasks that mark the payment                                *)
  Callers,   (* tasks that call wait_for_result                            *)
  TimedCallers,   (* the callers that pass a positive timeout              *)
  Polling    (* the callers that pass a timeout of zero                    *)

PaymentAssumption ==
  /\ TimedCallers \subseteq Callers /\ Polling \subseteq Callers
  /\ TimedCallers \cap Polling = {}

Outcomes == {"succeeded", "failed"}
Pending == "pending"

VARIABLES
  result,   (* state.result, Pending when None                             *)
  marked,   (* per marker: "idle", or the outcome it set, or "refused"     *)
  caller,   (* "idle", "waiting", "polling", "woken", "timeout" or the     *)
            (* outcome it returned                                         *)
  early     (* callers that called before the result was there (observed)  *)

paymentVars == <<result, marked, caller, early>>

PaymentInit ==
  /\ result = Pending
  /\ marked = [m \in Markers |-> "idle"]
  /\ caller = [c \in Callers |-> "idle"]
  /\ early = {}

MarkAgain(m, outcome) ==   \* mutant: an earlier result is not looked at
  /\ marked[m] = "idle"
  /\ result' = outcome
  /\ marked' = [marked EXCEPT ![m] = outcome]
  /\ caller' = [c \in Callers |-> IF caller[c] = "waiting" THEN "woken" ELSE caller[c]]
  /\ UNCHANGED early

(* mark_succeeded and mark_failed: the event wakes all who wait for it.    *)
Mark(m, outcome) ==
  /\ marked[m] = "idle"
  /\ \/ /\ result = Pending
        /\ result' = outcome
        /\ marked' = [marked EXCEPT ![m] = outcome]
        /\ caller' = [c \in Callers |->
                        IF caller[c] = "waiting" THEN "woken" ELSE caller[c]]
     \/ /\ result # Pending
        /\ marked' = [marked EXCEPT ![m] = "refused"]
        /\ UNCHANGED <<result, caller>>
  /\ UNCHANGED early

-----------------------------------------------------------------------------
(* wait_for_result *)

WaitForResult(c) ==
  /\ caller[c] = "idle"
  /\ early' = IF result = Pending THEN early \cup {c} ELSE early
  /\ caller' = [caller EXCEPT ![c] =
                  IF c \in Polling THEN "polling"
                  ELSE IF result = Pending THEN "waiting" ELSE result]
  /\ UNCHANGED <<result, marked>>

(* The timeout expires, possibly after the event was set and before the    *)
(* task has run again.                                                     *)
TimesOut(c) ==
  /\ \/ caller[c] = "polling"
     \/ c \in TimedCallers /\ caller[c] \in {"waiting", "woken"}
  /\ caller' = [caller EXCEPT ![c] = "timeout"]
  /\ UNCHANGED <<result, marked, early>>

ResumesWithoutResult(c) ==   \* mutant: the last return is missing
  /\ caller[c] = "woken"
  /\ caller' = [caller EXCEPT ![c] = "None"]
  /\ UNCHANGED <<result, marked, early>>

Resumes(c) ==
  /\ caller[c] = "woken"
  /\ caller' = [caller EXCEPT ![c] = result]
  /\ UNCHANGED <<result, marked, early>>

PaymentNext ==
  \/ \E m \in Markers, outcome \in Outcomes : Mark(m, outcome)
  \/ \E c \in Callers : WaitForResult(c) \/ TimesOut(c) \/ Resumes(c)

PaymentSpec == PaymentInit /\ [][PaymentNext]_paymentVars

-----------------------------------------------------------------------------
PaymentTypeOK ==
  /\ result \in Outcomes \cup {Pending}
  /\ marked \in [Markers -> Outcomes \cup {"idle", "refused"}]
  /\ caller \in [Callers -> Outcomes \cup {"idle", "waiting", "polling", "woken", "timeout"}]
  /\ early \subseteq Callers

(* The first result wins: the marker that was told so is the only one, and *)
(* every caller that returns a result, however late it resumes, returns    *)
(* that marker's (class description, lines 42-44).                         *)
FirstResultWins ==
  /\ \A m, n \in Markers :
       marked[m] \in Outcomes /\ marked[n] \in Outcomes => m = n
  /\ \A c \in Callers : caller[c] \in Outcomes =>
       \E m \in Markers : marked[m] = caller[c]
  /\ \A c \in Callers : caller[c] = "waiting" => result = Pending

(* A caller that comes after the result returns it (lines 6-8).            *)
LaterWaitersReturn ==
  \A c \in Callers : caller[c] = "timeout" => c \in early
=============================================================================
