--------------------------- MODULE ScheduledCleanup ---------------------------
(***************************************************************************)
(* ScheduledCleanup of scheduledcleanup/cleanup.py: one background thread  *)
(* runs a cleanup function after every interval until an Event asks it to  *)
(* stop.  start is one critical section of _lock; stop reads _thread under *)
(* the lock, and sets the event and joins without it.                      *)
(***************************************************************************)
EXTENDS Integers

CONSTANTS
  Stoppers,   (* threads that call stop                                    *)
  Timed,      (* the stoppers that pass a timeout                          *)
  MayFail,    (* whether the system may refuse to start a thread           *)
  Endings     (* how the cleanup function may end (see AllEndings)         *)

(* "return"; "raise" an Exception; "abort": a BaseException outside        *)
(* Exception; "stop": it calls stop() itself, which sets the event and     *)
(* then raises RuntimeError, for a thread cannot join itself.              *)
AllEndings == {"return", "raise", "abort", "stop"}

CleanupAssumption ==
  /\ Timed \subseteq Stoppers
  /\ MayFail \in BOOLEAN
  /\ Endings \subseteq AllEndings

VARIABLES
  started,         (* _started                                             *)
  thread,          (* _thread: "none", "failed" (never started), "waiting" *)
                   (* in the event's wait, "due", "cleaning" or "ended"    *)
  stopRequested,   (* the event _stop_requested                            *)
  errors,          (* len(_errors), counted up to MaxErrors                *)
  stopper,         (* where each stopping thread is, or its answer         *)
  lateRuns         (* cleanups begun since the event was set (observed)    *)

vars == <<started, thread, stopRequested, errors, stopper, lateRuns>>

MaxErrors == 2    \* bound: further errors are not counted
MaxLateRuns == 3  \* bound: further late cleanups are not counted

Init ==
  /\ started = FALSE
  /\ thread = "none"
  /\ stopRequested = FALSE
  /\ errors = 0
  /\ stopper = [s \in Stoppers |-> "idle"]
  /\ lateRuns = 0

Alive == thread \in {"waiting", "due", "cleaning"}
UpTo(bound, n) == IF n > bound THEN bound ELSE n

-----------------------------------------------------------------------------
(* start; a second call raises RuntimeError and changes nothing.           *)
Start ==
  /\ ~started
  /\ started' = TRUE
  /\ stopRequested' = FALSE
  /\ thread' = "waiting"
  /\ UNCHANGED <<errors, stopper, lateRuns>>

(* Thread.start() raises; _started and _thread keep their new values.      *)
StartFails ==
  /\ MayFail
  /\ ~started
  /\ started' = TRUE
  /\ stopRequested' = FALSE
  /\ thread' = "failed"
  /\ UNCHANGED <<errors, stopper, lateRuns>>

-----------------------------------------------------------------------------
(* stop: read _thread, set the event, join, look whether it is alive.      *)

ReadThread(s) ==
  /\ stopper[s] \notin {"setting", "joining"}
  /\ stopper' = [stopper EXCEPT ![s] =
                   IF thread = "none" THEN "not_started" ELSE "setting"]
  /\ UNCHANGED <<started, thread, stopRequested, errors, lateRuns>>

ForgetEvent(s) ==   \* mutant: the event is not set
  /\ stopper[s] = "setting"
  /\ stopper' = [stopper EXCEPT ![s] = "joining"]
  /\ UNCHANGED <<started, thread, stopRequested, errors, lateRuns>>

SetEvent(s) ==
  /\ stopper[s] = "setting"
  /\ stopRequested' = TRUE
  /\ stopper' = [stopper EXCEPT ![s] = "joining"]
  /\ UNCHANGED <<started, thread, errors, lateRuns>>

JoinOnce(s) ==   \* mutant: True is returned without looking at is_alive
  /\ stopper[s] = "joining"
  /\ ~Alive \/ s \in Timed
  /\ stopper' = [stopper EXCEPT ![s] = IF thread = "failed" THEN "raised" ELSE "true"]
  /\ UNCHANGED <<started, thread, stopRequested, errors, lateRuns>>

Join(s) ==
  /\ stopper[s] = "joining"
  /\ ~Alive \/ s \in Timed
  /\ stopper' = [stopper EXCEPT ![s] =
                   CASE thread = "failed" -> "raised"
                     [] thread = "ended" -> "true"
                     [] OTHER -> "false"]
  /\ UNCHANGED <<started, thread, stopRequested, errors, lateRuns>>

-----------------------------------------------------------------------------
(* _run *)

ElapseRegardless ==   \* mutant: the result of wait is ignored
  /\ thread = "waiting"
  /\ thread' = "due"
  /\ UNCHANGED <<started, stopRequested, errors, stopper, lateRuns>>

(* wait(interval) returns False: the interval passed with the event unset. *)
Elapse ==
  /\ thread = "waiting"
  /\ ~stopRequested
  /\ thread' = "due"
  /\ UNCHANGED <<started, stopRequested, errors, stopper, lateRuns>>

(* wait(interval) returns True, and the loop ends. *)
End ==
  /\ thread = "waiting"
  /\ stopRequested
  /\ thread' = "ended"
  /\ UNCHANGED <<started, stopRequested, errors, stopper, lateRuns>>

(* The event may have been set since wait returned False. *)
BeginCleanup ==
  /\ thread = "due"
  /\ thread' = "cleaning"
  /\ lateRuns' = IF stopRequested THEN UpTo(MaxLateRuns, lateRuns + 1) ELSE lateRuns
  /\ UNCHANGED <<started, stopRequested, errors, stopper>>

CleanupReturns ==
  /\ thread = "cleaning" /\ "return" \in Endings
  /\ thread' = "waiting"
  /\ UNCHANGED <<started, stopRequested, errors, stopper, lateRuns>>

CleanupRaises ==
  /\ thread = "cleaning" /\ "raise" \in Endings
  /\ thread' = "waiting"
  /\ errors' = UpTo(MaxErrors, errors + 1)
  /\ UNCHANGED <<started, stopRequested, stopper, lateRuns>>

CleanupStops ==
  /\ thread = "cleaning" /\ "stop" \in Endings
  /\ thread' = "waiting"
  /\ stopRequested' = TRUE
  /\ errors' = UpTo(MaxErrors, errors + 1)
  /\ UNCHANGED <<started, stopper, lateRuns>>

(* The exception ends the thread and is not recorded. *)
CleanupAborts ==
  /\ thread = "cleaning" /\ "abort" \in Endings
  /\ thread' = "ended"
  /\ UNCHANGED <<started, stopRequested, errors, stopper, lateRuns>>

Cleanup == CleanupReturns \/ CleanupRaises \/ CleanupStops \/ CleanupAborts
Run == Elapse \/ End \/ BeginCleanup \/ Cleanup
Stop(s) == ReadThread(s) \/ SetEvent(s) \/ Join(s)

Next == Start \/ StartFails \/ Run \/ \E s \in Stoppers : Stop(s)

Spec == Init /\ [][Next]_vars

(* Time passes, cleanups end, and a stop that has begun goes on.  Nobody   *)
(* is obliged to start or to stop.                                         *)
Fairness ==
  /\ WF_vars(Run)
  /\ \A s \in Stoppers : WF_vars(SetEvent(s) \/ Join(s))

FairSpec == Spec /\ Fairness

-----------------------------------------------------------------------------
TypeOK ==
  /\ started \in BOOLEAN
  /\ thread \in {"none", "failed", "waiting", "due", "cleaning", "ended"}
  /\ stopRequested \in BOOLEAN
  /\ errors \in 0 .. MaxErrors
  /\ stopper \in [Stoppers -> {"idle", "not_started", "setting", "joining",
                               "true", "false", "raised"}]
  /\ lateRuns \in 0 .. MaxLateRuns

(* Once stop has returned True for a worker that had been started, that    *)
(* worker has ended and no cleanup ever begins again.                      *)
TrueMeansEnded ==
  [][(\E s \in Stoppers : stopper[s] = "true") => thread = "ended" /\ thread' = "ended"]_vars

(* After the event is set at most one more cleanup begins: the one whose   *)
(* interval had just passed.                                               *)
AtMostOneLateRun == lateRuns <= 1

(* A worker asked to stop ends, and every stop call returns. *)
StopTakesEffect ==
  /\ stopRequested ~> ~Alive
  /\ \A s \in Stoppers : stopper[s] = "setting"
       ~> stopper[s] \in {"true", "false", "raised"}
=============================================================================
