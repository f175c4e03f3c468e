-------------------------------- MODULE MCLocks --------------------------------
(***************************************************************************)
(* State that threads or tasks share under one lock or condition:          *)
(* RequestTracker and ScheduledCleanup, which a service needs to shut      *)
(* down, AsyncSeatBooking and the four LockedStores.  They share nothing,  *)
(* so one run checks them side by side: a behaviour chooses a component at *)
(* the start and takes that component's steps.                             *)
(***************************************************************************)
EXTENDS AsyncSeatBooking

CONSTANTS Requests, Waiters, Timed,
          Stoppers, TimedStoppers, MayFail, Endings,
          Threads, Stock, Operations

VARIABLES component,
          active, shutdown, request, waiter,
          started, cleaner, stopRequested, errors, stopper, lateRuns,
          kind, owner, depth, thread, op, seen, accepted, stock,
          events, total, best, flags

trackerVars == <<active, shutdown, request, waiter>>
cleanupVars == <<started, cleaner, stopRequested, errors, stopper, lateRuns>>
storeVars == <<kind, owner, depth, thread, op, seen, accepted, stock, events,
               total, best, flags>>

Tracker == INSTANCE RequestTracker
Cleanup == INSTANCE ScheduledCleanup WITH Timed <- TimedStoppers, thread <- cleaner
Store == INSTANCE LockedStores

ASSUME TrackerAssumption == Tracker!TrackerAssumption
ASSUME CleanupAssumption == Cleanup!CleanupAssumption
ASSUME StoresAssumption == Store!StoresAssumption

(* The kind of store matters only where the stores are the component.      *)
MCInit ==
  /\ component \in {"tracker", "cleanup", "seats", "stores"}
  /\ Tracker!Init /\ Cleanup!Init /\ Init /\ Store!Init
  /\ component # "stores" => kind = "flags"

MCNext ==
  /\ UNCHANGED component
  /\ \/ /\ component = "tracker" /\ Tracker!Next
        /\ UNCHANGED <<cleanupVars, vars, storeVars>>
     \/ /\ component = "cleanup" /\ Cleanup!Next
        /\ UNCHANGED <<trackerVars, vars, storeVars>>
     \/ /\ component = "seats" /\ Next
        /\ UNCHANGED <<trackerVars, cleanupVars, storeVars>>
     \/ /\ component = "stores" /\ Store!Next
        /\ UNCHANGED <<trackerVars, cleanupVars, vars>>

(* No action with fairness is enabled in an initial state, so the fairness *)
(* of the components that are not chosen demands nothing.                  *)
MCSpec ==
  /\ MCInit /\ [][MCNext]_<<component, trackerVars, cleanupVars, vars, storeVars>>
  /\ Tracker!Fairness /\ Cleanup!Fairness /\ Store!Fairness

(* RequestTracker: see the properties of these names there.                *)
NoLostWakeup == Tracker!NoLostWakeup
TrueMeansDrained == Tracker!TrueMeansDrained
DrainedIsFinal == Tracker!DrainedIsFinal
WaitersReturn == Tracker!WaitersReturn

(* ScheduledCleanup: see TrueMeansEnded, AtMostOneLateRun and              *)
(* StopTakesEffect there.                                                  *)
CleanupTrueMeansEnded == Cleanup!TrueMeansEnded
CleanupAtMostOneLateRun == Cleanup!AtMostOneLateRun
CleanupStopTakesEffect == Cleanup!StopTakesEffect

(* The variables of the seats and the stores have their types.             *)
TypesOK == TypeOK /\ Store!TypeOK

(* LockedStores: see LooksAtomic and OperationsEnd there.                  *)
StoresLookAtomic == TypesOK /\ Store!LooksAtomic
OperationsEnd == Store!OperationsEnd
=============================================================================
