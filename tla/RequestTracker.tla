---------------------------- MODULE RequestTracker ----------------------------
(***************************************************************************)
(* RequestTracker of requesttracker/tracker.py: request handlers, shutdown *)
(* and waiters share a count and a flag under one threading.Condition.     *)
(* Each block under the condition is one action.  A waiter in wait_for     *)
(* gives the lock up while it waits; notified or timed out, it has to take *)
(* the lock again, and evaluates the predicate again when it has it.       *)
(***************************************************************************)
EXTENDS Integers, FiniteSets

CONSTANTS
  Requests,   (* threads that enter track_request, again and again         *)
  Waiters,    (* threads that call wait_until_drained                      *)
  Timed       (* the waiters that pass a timeout                           *)

TrackerAssumption ==
  /\ IsFiniteSet(Requests)
  /\ Timed \subseteq Waiters

VARIABLES
  active,     (* _active_requests                                          *)
  shutdown,   (* _shutdown_started                                         *)
  request,    (* "out", "inside" its with block, or "rejected"             *)
  waiter      (* "idle"; "waiting" in the wait set; "notified" or "late":  *)
              (* out of it, without the lock; or what the call returned    *)

vars == <<active, shutdown, request, waiter>>

Init ==
  /\ active = 0
  /\ shutdown = FALSE
  /\ request = [r \in Requests |-> "out"]
  /\ waiter = [w \in Waiters |-> "idle"]

-----------------------------------------------------------------------------
IsDrained == active = 0

NotifyNobody == UNCHANGED waiter   \* mutant: notify_all is not called

NotifyAll ==
  waiter' = [w \in Waiters |->
               IF waiter[w] = "waiting" THEN "notified" ELSE waiter[w]]

(* track_request *)

EnterAnyway(r) ==   \* mutant: _shutdown_started is not checked
  /\ request[r] # "inside"
  /\ request' = [request EXCEPT ![r] = "inside"]
  /\ active' = active + 1
  /\ UNCHANGED <<shutdown, waiter>>

Enter(r) ==
  /\ request[r] # "inside"
  /\ ~shutdown
  /\ request' = [request EXCEPT ![r] = "inside"]
  /\ active' = active + 1
  /\ UNCHANGED <<shutdown, waiter>>

(* ShutdownStartedError *)
Reject(r) ==
  /\ request[r] # "inside"
  /\ shutdown
  /\ request' = [request EXCEPT ![r] = "rejected"]
  /\ UNCHANGED <<active, shutdown, waiter>>

ExitAfterNotify(r) ==   \* mutant: the zero test precedes the decrement
  /\ request[r] = "inside"
  /\ request' = [request EXCEPT ![r] = "out"]
  /\ active' = active - 1
  /\ IF IsDrained THEN NotifyAll ELSE UNCHANGED waiter
  /\ UNCHANGED shutdown

(* However the with block ends.                                            *)
Exit(r) ==
  /\ request[r] = "inside"
  /\ request' = [request EXCEPT ![r] = "out"]
  /\ active' = active - 1
  /\ IF IsDrained' THEN NotifyAll ELSE UNCHANGED waiter
  /\ UNCHANGED shutdown

BeginShutdown ==
  /\ shutdown' = TRUE
  /\ IF IsDrained THEN NotifyAll ELSE UNCHANGED waiter
  /\ UNCHANGED <<active, request>>

-----------------------------------------------------------------------------
(* wait_until_drained *)

Wait(w) ==
  /\ waiter[w] \notin {"waiting", "notified", "late"}
  /\ waiter' = [waiter EXCEPT ![w] = IF IsDrained THEN "true" ELSE "waiting"]
  /\ UNCHANGED <<active, shutdown, request>>

(* The timeout expires: in the wait set, or on the way to the lock.        *)
Expire(w) ==
  /\ w \in Timed
  /\ waiter[w] \in {"waiting", "notified"}
  /\ waiter' = [waiter EXCEPT ![w] = "late"]
  /\ UNCHANGED <<active, shutdown, request>>

ResumeAtOnce(w) ==   \* mutant: wait in place of wait_for
  /\ waiter[w] \in {"notified", "late"}
  /\ waiter' = [waiter EXCEPT ![w] =
                  IF waiter[w] = "late" THEN "false" ELSE "true"]
  /\ UNCHANGED <<active, shutdown, request>>

Resume(w) ==
  /\ waiter[w] \in {"notified", "late"}
  /\ waiter' = [waiter EXCEPT ![w] =
                  IF IsDrained THEN "true"
                  ELSE IF waiter[w] = "late" THEN "false" ELSE "waiting"]
  /\ UNCHANGED <<active, shutdown, request>>

TrackRequest(r) == Enter(r) \/ Reject(r) \/ Exit(r)
WaitUntilDrained(w) == Wait(w) \/ Expire(w) \/ Resume(w)

Next ==
  \/ BeginShutdown
  \/ \E r \in Requests : TrackRequest(r)
  \/ \E w \in Waiters : WaitUntilDrained(w)

Spec == Init /\ [][Next]_vars

(* Requests end, and a waiter that may take the lock takes it.  Nobody is  *)
(* obliged to begin a request, a shutdown or a wait, or to time out.       *)
Fairness ==
  /\ \A r \in Requests : WF_vars(Exit(r))
  /\ \A w \in Waiters : WF_vars(Resume(w))

FairSpec == Spec /\ Fairness

-----------------------------------------------------------------------------
TypeOK ==
  /\ active \in Nat
  /\ shutdown \in BOOLEAN
  /\ request \in [Requests -> {"out", "inside", "rejected"}]
  /\ waiter \in [Waiters ->
       {"idle", "waiting", "notified", "late", "true", "false"}]

Inside == {r \in Requests : request[r] = "inside"}

(* The count is the number of requests in their with block. *)
CountIsExact == active = Cardinality(Inside)

(* No wakeup is lost: nobody sleeps in the wait set of a drained tracker,  *)
(* for nothing would wake it (track_request:50, begin_shutdown:57).        *)
NoLostWakeup == \A w \in Waiters : waiter[w] = "waiting" => active > 0

(* wait_until_drained returns True only at a moment when no request is     *)
(* active, though new ones may have started after its notification.        *)
TrueMeansDrained ==
  [][\A w \in Waiters :
       waiter'[w] = "true" /\ waiter[w] # "true" => Inside' = {}]_vars

(* After shutdown began, drained is final: the process may exit.           *)
DrainedIsFinal ==
  [][shutdown /\ Inside = {} => shutdown' /\ Inside' = {}]_vars

(* After shutdown every waiter returns. *)
WaitersReturn ==
  \A w \in Waiters :
    shutdown /\ waiter[w] = "waiting" ~> waiter[w] \in {"true", "false"}
=============================================================================
