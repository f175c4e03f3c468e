--------------------------- MODULE ShutdownProofs ---------------------------
(* What a service that shuts down relies on: RequestTracker, for every     *)
(* finite set of request threads and every set of waiters, and             *)
(* ScheduledCleanup, for any threads that call stop, whatever the cleanup  *)
(* function does and whether or not the worker starts.                     *)
EXTENDS MCLocks, FiniteSetTheorems, TLAPS

-----------------------------------------------------------------------------
(* RequestTracker                                                          *)

(* Nobody sleeps on a drained tracker because the last exit notifies under *)
(* the lock that counts; that an exit never takes the count below zero     *)
(* needs the count to be exact.                                            *)
IInv == Tracker!TypeOK /\ Tracker!CountIsExact /\ Tracker!NoLostWakeup

-----------------------------------------------------------------------------
(* The count and the set of requests it counts.                            *)

LEMMA SameFiniteSets ==
  \A S : /\ Tracker!IsFiniteSet(S) <=> IsFiniteSet(S)
         /\ Tracker!Cardinality(S) = Cardinality(S)
  BY DEF Tracker!IsFiniteSet, IsFiniteSet, Tracker!Cardinality, Cardinality

LEMMA InsideIsFinite == IsFiniteSet(Tracker!Inside)
<1>1. IsFiniteSet(Requests)
  BY TrackerAssumption, SameFiniteSets DEF Tracker!TrackerAssumption
<1>2. QED BY <1>1, FS_Subset DEF Tracker!Inside

(* An exact count is zero only when nobody is inside. *)
LEMMA ZeroMeansNobody ==
  ASSUME Tracker!CountIsExact PROVE active = 0 <=> Tracker!Inside = {}
  BY InsideIsFinite, SameFiniteSets, FS_EmptySet DEF Tracker!CountIsExact

(* Of a thread inside its with block, a request has been counted. *)
LEMMA InsideIsCounted ==
  ASSUME Tracker!TypeOK, Tracker!CountIsExact,
         NEW r \in Requests, request[r] = "inside"
  PROVE  active - 1 \in Nat
<1>1. active # 0
  BY ZeroMeansNobody DEF Tracker!Inside
<1>2. QED BY <1>1 DEF Tracker!TypeOK

LEMMA EnterCounts ==
  ASSUME Tracker!TypeOK, Tracker!CountIsExact,
         NEW r \in Requests, request[r] # "inside",
         request' = [request EXCEPT ![r] = "inside"], active' = active + 1
  PROVE  Tracker!CountIsExact'
<1>1. Tracker!Inside' = Tracker!Inside \cup {r} /\ r \notin Tracker!Inside
  BY DEF Tracker!Inside, Tracker!TypeOK
<1>2. Tracker!Cardinality(Tracker!Inside') = Tracker!Cardinality(Tracker!Inside) + 1
  BY <1>1, InsideIsFinite, SameFiniteSets, FS_AddElement
<1>3. QED BY <1>2 DEF Tracker!CountIsExact

LEMMA ExitCounts ==
  ASSUME Tracker!TypeOK, Tracker!CountIsExact,
         NEW r \in Requests, request[r] = "inside",
         request' = [request EXCEPT ![r] = "out"], active' = active - 1
  PROVE  Tracker!CountIsExact'
<1>1. Tracker!Inside' = Tracker!Inside \ {r} /\ r \in Tracker!Inside
  BY DEF Tracker!Inside, Tracker!TypeOK
<1>2. Tracker!Cardinality(Tracker!Inside') = Tracker!Cardinality(Tracker!Inside) - 1
  BY <1>1, InsideIsFinite, SameFiniteSets, FS_RemoveElement
<1>3. QED BY <1>2 DEF Tracker!CountIsExact

LEMMA SameRequests ==
  ASSUME Tracker!CountIsExact, UNCHANGED <<active, request>>
  PROVE  Tracker!CountIsExact' /\ Tracker!Inside' = Tracker!Inside
  BY DEF Tracker!CountIsExact, Tracker!Inside

-----------------------------------------------------------------------------
(* The actions.                                                            *)

LEMMA InitIInv == Tracker!Init => IInv
<1> SUFFICES ASSUME Tracker!Init PROVE IInv
  OBVIOUS
<1>1. Tracker!TypeOK
  BY DEF Tracker!Init, Tracker!TypeOK
<1>2. Tracker!Inside = {}
  BY DEF Tracker!Init, Tracker!Inside
<1>3. Tracker!CountIsExact
  BY <1>2, SameFiniteSets, FS_EmptySet DEF Tracker!Init, Tracker!CountIsExact
<1>4. Tracker!NoLostWakeup
  BY DEF Tracker!Init, Tracker!NoLostWakeup
<1>5. QED BY <1>1, <1>3, <1>4 DEF IInv

LEMMA TrackRequestIInv ==
  ASSUME IInv, NEW r \in Requests, Tracker!TrackRequest(r) PROVE IInv'
<1> USE DEF IInv
<1>1. CASE Tracker!Enter(r)
  <2>1. Tracker!TypeOK'
    BY <1>1 DEF Tracker!Enter, Tracker!TypeOK
  <2>2. Tracker!CountIsExact'
    BY <1>1, EnterCounts DEF Tracker!Enter
  <2>3. Tracker!NoLostWakeup'
    BY <1>1 DEF Tracker!Enter, Tracker!TypeOK, Tracker!NoLostWakeup
  <2>4. QED BY <2>1, <2>2, <2>3
<1>2. CASE Tracker!Reject(r)
  <2>1. Tracker!TypeOK' /\ Tracker!NoLostWakeup'
    BY <1>2 DEF Tracker!Reject, Tracker!TypeOK, Tracker!NoLostWakeup
  <2>2. Tracker!Inside' = Tracker!Inside
    BY <1>2 DEF Tracker!Reject, Tracker!Inside, Tracker!TypeOK
  <2>3. Tracker!CountIsExact'
    BY <1>2, <2>2 DEF Tracker!Reject, Tracker!CountIsExact
  <2>4. QED BY <2>1, <2>3
<1>3. CASE Tracker!Exit(r)
  <2>1. active' \in Nat
    BY <1>3, InsideIsCounted DEF Tracker!Exit
  <2>2. Tracker!TypeOK'
    BY <1>3, <2>1 DEF Tracker!Exit, Tracker!NotifyAll, Tracker!TypeOK
  <2>3. Tracker!CountIsExact'
    BY <1>3, ExitCounts DEF Tracker!Exit
  <2>4. Tracker!NoLostWakeup'
    <3>1. CASE Tracker!IsDrained'
      BY <1>3, <3>1 DEF Tracker!Exit, Tracker!NotifyAll, Tracker!NoLostWakeup
    <3>2. CASE ~Tracker!IsDrained'
      BY <2>1, <3>2 DEF Tracker!IsDrained, Tracker!NoLostWakeup
    <3>3. QED BY <3>1, <3>2
  <2>5. QED BY <2>2, <2>3, <2>4
<1>4. QED BY <1>1, <1>2, <1>3 DEF Tracker!TrackRequest

LEMMA BeginShutdownIInv == ASSUME IInv, Tracker!BeginShutdown PROVE IInv'
<1> USE DEF IInv, Tracker!BeginShutdown
<1>1. Tracker!TypeOK'
  BY DEF Tracker!NotifyAll, Tracker!TypeOK
<1>2. Tracker!NoLostWakeup'
  BY DEF Tracker!NotifyAll, Tracker!NoLostWakeup
<1>3. QED BY <1>1, <1>2, SameRequests

LEMMA WaitIInv ==
  ASSUME IInv, NEW w \in Waiters, Tracker!WaitUntilDrained(w) PROVE IInv'
<1> USE DEF IInv
<1>1. UNCHANGED <<active, shutdown, request>>
  BY DEF Tracker!WaitUntilDrained, Tracker!Wait, Tracker!Expire, Tracker!Resume
<1>2. Tracker!TypeOK'
  BY <1>1 DEF Tracker!WaitUntilDrained, Tracker!Wait, Tracker!Expire,
              Tracker!Resume, Tracker!TypeOK
<1>3. waiter'[w] = "waiting" => active # 0
  BY DEF Tracker!WaitUntilDrained, Tracker!Wait, Tracker!Expire,
         Tracker!Resume, Tracker!IsDrained, Tracker!TypeOK
<1>4. \A v \in Waiters : v # w => waiter'[v] = waiter[v]
  BY DEF Tracker!WaitUntilDrained, Tracker!Wait, Tracker!Expire,
         Tracker!Resume, Tracker!TypeOK
<1>5. Tracker!NoLostWakeup'
  BY <1>1, <1>3, <1>4 DEF Tracker!NoLostWakeup, Tracker!TypeOK
<1>6. QED BY <1>1, <1>2, <1>5, SameRequests

LEMMA NextIInv == IInv /\ [Tracker!Next]_Tracker!vars => IInv'
<1> SUFFICES ASSUME IInv, [Tracker!Next]_Tracker!vars PROVE IInv'
  OBVIOUS
<1>1. CASE Tracker!BeginShutdown
  BY <1>1, BeginShutdownIInv
<1>2. CASE \E r \in Requests : Tracker!TrackRequest(r)
  BY <1>2, TrackRequestIInv
<1>3. CASE \E w \in Waiters : Tracker!WaitUntilDrained(w)
  BY <1>3, WaitIInv
<1>4. CASE UNCHANGED Tracker!vars
  <2>1. Tracker!TypeOK' /\ Tracker!NoLostWakeup'
    BY <1>4 DEF IInv, Tracker!vars, Tracker!TypeOK, Tracker!NoLostWakeup
  <2>2. Tracker!CountIsExact'
    BY <1>4, SameRequests DEF IInv, Tracker!vars
  <2>3. QED BY <2>1, <2>2 DEF IInv
<1>5. QED BY <1>1, <1>2, <1>3, <1>4 DEF Tracker!Next

LEMMA SpecIInv == Tracker!Spec => []IInv
  BY InitIInv, NextIInv, PTL DEF Tracker!Spec

-----------------------------------------------------------------------------
(* The tracker's state is well formed, for any threads and waiters.        *)
THEOREM TypeCorrect == Tracker!Spec => []Tracker!TypeOK
  BY SpecIInv, PTL DEF IInv

(* The count is always the number of requests inside their with block,     *)
(* however many enter, end and are rejected concurrently (tracker:41-50).  *)
THEOREM CountExact == Tracker!Spec => []Tracker!CountIsExact
  BY SpecIInv, PTL DEF IInv

(* No waiter sleeps on a drained tracker, whatever notifications, timeouts *)
(* and new requests race (track_request:50, wait_until_drained:63).        *)
THEOREM NobodySleepsDrained == Tracker!Spec => []NoLostWakeup
  BY SpecIInv, PTL DEF IInv, NoLostWakeup

(* wait_until_drained answers True only when no request is active.         *)
THEOREM TrueIsTrue == Tracker!Spec => TrueMeansDrained
<1>1. IInv /\ [Tracker!Next]_Tracker!vars
        => [\A w \in Waiters :
              waiter'[w] = "true" /\ waiter[w] # "true"
                => Tracker!Inside' = {}]_Tracker!vars
  <2> SUFFICES ASSUME IInv, Tracker!Next, NEW w \in Waiters,
                      waiter'[w] = "true", waiter[w] # "true"
               PROVE  Tracker!Inside' = {}
    BY DEF Tracker!vars
  <2> USE DEF IInv
  <2>1. PICK v \in Waiters : Tracker!WaitUntilDrained(v)
    BY DEF Tracker!Next, Tracker!BeginShutdown, Tracker!TrackRequest,
           Tracker!Enter, Tracker!Reject, Tracker!Exit, Tracker!NotifyAll
  <2>2. active = 0 /\ UNCHANGED <<active, request>>
    BY <2>1 DEF Tracker!WaitUntilDrained, Tracker!Wait, Tracker!Expire,
                Tracker!Resume, Tracker!IsDrained, Tracker!TypeOK
  <2>3. QED BY <2>2, ZeroMeansNobody, SameRequests
<1>2. QED BY <1>1, SpecIInv, PTL DEF Tracker!Spec, TrueMeansDrained,
                                     Tracker!TrueMeansDrained

(* Once shutdown has begun and no request is active, none ever is again.   *)
THEOREM DrainedStaysDrained == Tracker!Spec => DrainedIsFinal
<1>1. IInv /\ [Tracker!Next]_Tracker!vars
        => [shutdown /\ Tracker!Inside = {}
              => shutdown' /\ Tracker!Inside' = {}]_Tracker!vars
  <2> SUFFICES ASSUME IInv, Tracker!Next, shutdown, Tracker!Inside = {}
               PROVE  shutdown' /\ Tracker!Inside' = {}
    BY DEF Tracker!vars
  <2> USE DEF IInv
  <2>1. CASE Tracker!BeginShutdown
    BY <2>1 DEF Tracker!BeginShutdown, Tracker!Inside
  <2>2. ASSUME NEW r \in Requests, Tracker!TrackRequest(r)
        PROVE  shutdown' /\ Tracker!Inside' = {}
    BY <2>2 DEF Tracker!TrackRequest, Tracker!Enter, Tracker!Reject,
                Tracker!Exit, Tracker!Inside, Tracker!TypeOK
  <2>3. ASSUME NEW w \in Waiters, Tracker!WaitUntilDrained(w)
        PROVE  shutdown' /\ Tracker!Inside' = {}
    BY <2>3 DEF Tracker!WaitUntilDrained, Tracker!Wait, Tracker!Expire,
                Tracker!Resume, Tracker!Inside
  <2>4. QED BY <2>1, <2>2, <2>3 DEF Tracker!Next
<1>2. QED BY <1>1, SpecIInv, PTL DEF Tracker!Spec, DrainedIsFinal,
                                     Tracker!DrainedIsFinal

-----------------------------------------------------------------------------
(* ScheduledCleanup                                                        *)

(* The worker exists from start on, and only then does stop go on to the   *)
(* event: so start never clears an event that a stop has set.              *)
StartedFirst ==
  /\ started <=> cleaner # "none"
  /\ stopRequested => started
  /\ \A s \in Stoppers : stopper[s] = "setting" => started

(* Late runs need the event set, and use up the one interval that had      *)
(* passed when it was set.                                                 *)
LateRunsCounted ==
  /\ lateRuns \in Nat
  /\ ~stopRequested => lateRuns = 0
  /\ cleaner = "due" => lateRuns = 0

(* An answer True was given about a worker that had ended.                 *)
TrueKnowsEnded == (\E s \in Stoppers : stopper[s] = "true") => cleaner = "ended"

CleanupIInv ==
  /\ Cleanup!TypeOK
  /\ StartedFirst
  /\ LateRunsCounted
  /\ Cleanup!AtMostOneLateRun
  /\ TrueKnowsEnded

-----------------------------------------------------------------------------
(* The counters saturate.                                                  *)

LEMMA UpToBounds ==
  ASSUME NEW bound \in Nat, NEW n \in Nat
  PROVE  /\ Cleanup!UpTo(bound, n) \in 0 .. bound
         /\ n <= bound => Cleanup!UpTo(bound, n) = n
  BY DEF Cleanup!UpTo

LEMMA InitCleanup == Cleanup!Init => CleanupIInv
<1> SUFFICES ASSUME Cleanup!Init PROVE CleanupIInv
  OBVIOUS
<1> USE DEF Cleanup!Init
<1>1. started \in BOOLEAN /\ stopRequested \in BOOLEAN
  BY Zenon
<1>2. errors \in 0 .. Cleanup!MaxErrors /\ lateRuns \in 0 .. Cleanup!MaxLateRuns
  BY DEF Cleanup!MaxErrors, Cleanup!MaxLateRuns
<1>3. Cleanup!TypeOK
  BY <1>1, <1>2 DEF Cleanup!TypeOK
<1>4. /\ StartedFirst /\ LateRunsCounted
      /\ Cleanup!AtMostOneLateRun /\ TrueKnowsEnded
  BY DEF StartedFirst, LateRunsCounted, Cleanup!AtMostOneLateRun, TrueKnowsEnded
<1>5. QED BY <1>3, <1>4 DEF CleanupIInv

LEMMA StartCleanup ==
  ASSUME CleanupIInv, Cleanup!Start \/ Cleanup!StartFails PROVE CleanupIInv'
<1> USE DEF CleanupIInv, StartedFirst
<1>1. cleaner = "none" /\ ~stopRequested /\ lateRuns = 0
  BY DEF Cleanup!Start, Cleanup!StartFails, LateRunsCounted
<1>2. /\ started' = TRUE /\ stopRequested' = FALSE
      /\ cleaner' \in {"waiting", "failed"}
      /\ UNCHANGED <<errors, stopper, lateRuns>>
  BY DEF Cleanup!Start, Cleanup!StartFails
<1>3. Cleanup!TypeOK'
  BY <1>2 DEF Cleanup!TypeOK
<1>4. StartedFirst'
  BY <1>2
<1>5. LateRunsCounted' /\ Cleanup!AtMostOneLateRun'
  BY <1>1, <1>2 DEF LateRunsCounted, Cleanup!AtMostOneLateRun
<1>6. TrueKnowsEnded'
  BY <1>1, <1>2 DEF TrueKnowsEnded
<1>7. QED BY <1>3, <1>4, <1>5, <1>6

LEMMA StopCleanup ==
  ASSUME CleanupIInv, NEW s \in Stoppers, Cleanup!Stop(s) PROVE CleanupIInv'
<1> USE DEF CleanupIInv
<1>1. CASE Cleanup!ReadThread(s)
  BY <1>1 DEF Cleanup!ReadThread, Cleanup!TypeOK, StartedFirst, LateRunsCounted,
              Cleanup!AtMostOneLateRun, TrueKnowsEnded
<1>2. CASE Cleanup!SetEvent(s)
  BY <1>2 DEF Cleanup!SetEvent, Cleanup!TypeOK, StartedFirst, LateRunsCounted,
              Cleanup!AtMostOneLateRun, TrueKnowsEnded
<1>3. CASE Cleanup!Join(s)
  <2>1. UNCHANGED <<started, cleaner, stopRequested, errors, lateRuns>>
    BY <1>3 DEF Cleanup!Join
  <2>2. /\ stopper' = [stopper EXCEPT ![s] = stopper'[s]]
        /\ stopper'[s] \in {"raised", "true", "false"}
        /\ stopper'[s] = "true" => cleaner = "ended"
    BY <1>3 DEF Cleanup!Join, Cleanup!TypeOK
  <2>3. Cleanup!TypeOK' /\ StartedFirst'
    BY <2>1, <2>2 DEF Cleanup!TypeOK, StartedFirst
  <2>4. LateRunsCounted' /\ Cleanup!AtMostOneLateRun'
    BY <2>1 DEF LateRunsCounted, Cleanup!AtMostOneLateRun
  <2>5. TrueKnowsEnded'
    BY <2>1, <2>2 DEF TrueKnowsEnded, Cleanup!TypeOK
  <2>6. QED BY <2>3, <2>4, <2>5
<1>4. QED BY <1>1, <1>2, <1>3 DEF Cleanup!Stop

LEMMA RunCleanup == ASSUME CleanupIInv, Cleanup!Run PROVE CleanupIInv'
<1> USE DEF CleanupIInv, Cleanup!MaxErrors, Cleanup!MaxLateRuns
<1>1. UNCHANGED <<started, stopper>> /\ cleaner # "none" /\ cleaner # "ended"
  BY DEF Cleanup!Run, Cleanup!Elapse, Cleanup!End, Cleanup!BeginCleanup,
         Cleanup!Cleanup, Cleanup!CleanupReturns, Cleanup!CleanupRaises,
         Cleanup!CleanupStops, Cleanup!CleanupAborts
<1>2. started /\ \A s \in Stoppers : stopper[s] # "true"
  BY <1>1 DEF StartedFirst, TrueKnowsEnded
<1>3. cleaner' \in {"waiting", "due", "cleaning", "ended"}
  BY DEF Cleanup!Run, Cleanup!Elapse, Cleanup!End, Cleanup!BeginCleanup,
         Cleanup!Cleanup, Cleanup!CleanupReturns, Cleanup!CleanupRaises,
         Cleanup!CleanupStops, Cleanup!CleanupAborts
<1>4. StartedFirst' /\ TrueKnowsEnded'
  BY <1>1, <1>2, <1>3 DEF StartedFirst, TrueKnowsEnded
<1>5. errors' \in 0 .. Cleanup!MaxErrors /\ stopRequested' \in BOOLEAN
  <2>1. \/ errors' = errors
        \/ errors' = Cleanup!UpTo(Cleanup!MaxErrors, errors + 1)
    BY DEF Cleanup!Run, Cleanup!Elapse, Cleanup!End, Cleanup!BeginCleanup,
           Cleanup!Cleanup, Cleanup!CleanupReturns, Cleanup!CleanupRaises,
           Cleanup!CleanupStops, Cleanup!CleanupAborts
  <2>2. stopRequested' = stopRequested \/ stopRequested' = TRUE
    BY DEF Cleanup!Run, Cleanup!Elapse, Cleanup!End, Cleanup!BeginCleanup,
           Cleanup!Cleanup, Cleanup!CleanupReturns, Cleanup!CleanupRaises,
           Cleanup!CleanupStops, Cleanup!CleanupAborts
  <2>3. errors' \in 0 .. Cleanup!MaxErrors
    BY <2>1 DEF Cleanup!UpTo, Cleanup!TypeOK
  <2>4. stopRequested' \in BOOLEAN
    BY <2>2, Zenon DEF Cleanup!TypeOK
  <2>5. QED BY <2>3, <2>4
<1>6. /\ LateRunsCounted' /\ Cleanup!AtMostOneLateRun'
      /\ lateRuns' \in 0 .. Cleanup!MaxLateRuns
  <2>1. CASE Cleanup!Elapse \/ Cleanup!End
    BY <2>1 DEF Cleanup!Elapse, Cleanup!End, LateRunsCounted,
                Cleanup!AtMostOneLateRun, Cleanup!TypeOK
  <2>2. CASE Cleanup!BeginCleanup
    <3>1. lateRuns = 0 /\ cleaner' = "cleaning" /\ stopRequested' = stopRequested
      BY <2>2 DEF Cleanup!BeginCleanup, LateRunsCounted
    <3>2. lateRuns' = IF stopRequested THEN 1 ELSE 0
      BY <2>2, <3>1, UpToBounds DEF Cleanup!BeginCleanup
    <3>3. QED BY <3>1, <3>2 DEF LateRunsCounted, Cleanup!AtMostOneLateRun
  <2>3. CASE Cleanup!Cleanup
    BY <2>3 DEF Cleanup!Cleanup, Cleanup!CleanupReturns, Cleanup!CleanupRaises,
                Cleanup!CleanupStops, Cleanup!CleanupAborts, LateRunsCounted,
                Cleanup!AtMostOneLateRun, Cleanup!TypeOK
  <2>4. QED BY <2>1, <2>2, <2>3 DEF Cleanup!Run
<1>7. Cleanup!TypeOK'
  BY <1>1, <1>3, <1>5, <1>6 DEF Cleanup!TypeOK
<1>8. QED BY <1>4, <1>6, <1>7

LEMMA NextCleanup == CleanupIInv /\ [Cleanup!Next]_Cleanup!vars => CleanupIInv'
<1> SUFFICES ASSUME CleanupIInv, [Cleanup!Next]_Cleanup!vars PROVE CleanupIInv'
  OBVIOUS
<1>1. CASE Cleanup!Start \/ Cleanup!StartFails
  BY <1>1, StartCleanup
<1>2. CASE Cleanup!Run
  BY <1>2, RunCleanup
<1>3. CASE \E s \in Stoppers : Cleanup!Stop(s)
  BY <1>3, StopCleanup
<1>4. CASE UNCHANGED Cleanup!vars
  BY <1>4 DEF CleanupIInv, Cleanup!vars, Cleanup!TypeOK, StartedFirst,
              LateRunsCounted, Cleanup!AtMostOneLateRun, TrueKnowsEnded
<1>5. QED BY <1>1, <1>2, <1>3, <1>4 DEF Cleanup!Next

LEMMA CleanupInvariant == Cleanup!Spec => []CleanupIInv
  BY InitCleanup, NextCleanup, PTL DEF Cleanup!Spec

-----------------------------------------------------------------------------
(* The cleanup's state is well formed, for any callers of stop and ends.   *)
THEOREM CleanupTypeCorrect == Cleanup!Spec => []Cleanup!TypeOK
  BY CleanupInvariant, PTL DEF CleanupIInv

(* At most one cleanup begins after the event was set, however many        *)
(* threads call stop and whenever (_run:76).                               *)
THEOREM OneLateRun == Cleanup!Spec => []CleanupAtMostOneLateRun
  BY CleanupInvariant, PTL DEF CleanupIInv, CleanupAtMostOneLateRun

(* A stop that answered True speaks of a worker that has ended for good:   *)
(* neither a cleanup nor another start revives it (stop:62, start:40).     *)
THEOREM TrueIsForEver == Cleanup!Spec => CleanupTrueMeansEnded
<1>1. CleanupIInv /\ [Cleanup!Next]_Cleanup!vars
        => [(\E s \in Stoppers : stopper[s] = "true")
              => cleaner = "ended" /\ cleaner' = "ended"]_Cleanup!vars
  <2> SUFFICES ASSUME CleanupIInv, Cleanup!Next,
                      \E s \in Stoppers : stopper[s] = "true"
               PROVE  cleaner = "ended" /\ cleaner' = "ended"
    BY DEF Cleanup!vars
  <2> USE DEF CleanupIInv
  <2>1. cleaner = "ended" /\ started
    BY DEF TrueKnowsEnded, StartedFirst
  <2>2. CASE \E s \in Stoppers : Cleanup!Stop(s)
    BY <2>1, <2>2 DEF Cleanup!Stop, Cleanup!ReadThread, Cleanup!SetEvent,
                      Cleanup!Join
  <2>3. ~Cleanup!Run
    BY <2>1 DEF Cleanup!Run, Cleanup!Elapse, Cleanup!End, Cleanup!BeginCleanup,
                Cleanup!Cleanup, Cleanup!CleanupReturns, Cleanup!CleanupRaises,
                Cleanup!CleanupStops, Cleanup!CleanupAborts
  <2>4. QED BY <2>1, <2>2, <2>3 DEF Cleanup!Next, Cleanup!Start,
                                    Cleanup!StartFails
<1>2. QED
  BY <1>1, CleanupInvariant, PTL
  DEF Cleanup!Spec, CleanupTrueMeansEnded, Cleanup!TrueMeansEnded

-----------------------------------------------------------------------------
(* The run that checks the components side by side checks each one as it  *)
(* is specified: what is proved of a component holds in the run.           *)
LEMMA RunTakesTheirSteps == MCSpec => Tracker!Spec /\ Cleanup!Spec
<1>1. MCInit => Tracker!Init /\ Cleanup!Init
  BY DEF MCInit
<1>2. [MCNext]_<<component, trackerVars, cleanupVars, vars, storeVars>>
        => [Tracker!Next]_Tracker!vars /\ [Cleanup!Next]_Cleanup!vars
  <2> USE DEF trackerVars, cleanupVars, Tracker!vars, Cleanup!vars
  <2>1. CASE MCNext
    BY <2>1 DEF MCNext
  <2>2. CASE UNCHANGED <<component, trackerVars, cleanupVars, vars, storeVars>>
    BY <2>2
  <2>3. QED BY <2>1, <2>2
<1>3. QED BY <1>1, <1>2, PTL DEF MCSpec, Tracker!Spec, Cleanup!Spec
=============================================================================
