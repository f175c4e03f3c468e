------------------------------ MODULE PermitPool ------------------------------
(***************************************************************************)
(* ConnectionPool (connectionpool/pool.py), DownloadPool                   *)
(* (downloadpool/pool.py) and ApiRateLimiter (ratelimiter/limiter.py):     *)
(* threads take one of a fixed number of permits, use it and give it back, *)
(* with an optional timeout on the wait.  queue.Queue.get and              *)
(* threading.Semaphore.acquire wait in the same way: while no permit is    *)
(* free the thread sleeps on a condition; giving one back notifies one     *)
(* sleeper, whichever; and who has the lock first takes the permit,        *)
(* notified or not.                                                        *)
(*                                                                         *)
(* Permits are connections, handed out first in, first out.  Those of the  *)
(* semaphores have no identity: which one is handed out does not matter.   *)
(***************************************************************************)
EXTENDS Integers, Sequences, FiniteSets

CONSTANTS
  Threads,       (* request handlers, download and API workers             *)
  Capacity,      (* len(connections), max_concurrent, max_in_flight        *)
  TimedThreads   (* the threads that pass a timeout                        *)

PoolAssumption ==
  /\ IsFiniteSet(Threads) /\ TimedThreads \subseteq Threads
  /\ Capacity \in Nat \ {0}

Permits == 1 .. Capacity
NoPermit == 0

VARIABLES
  free,      (* _available, or the value of _slots and _permits            *)
  thread,    (* "outside", "waiting", "late" (its timeout is over, it      *)
             (* waits for the lock), "holding" or "refused"                *)
  permit,    (* the permit each thread holds                               *)
  sleepers   (* the condition's waiters not yet notified                   *)

poolVars == <<free, thread, permit, sleepers>>

PoolInit ==
  /\ free = [k \in Permits |-> k]
  /\ thread = [t \in Threads |-> "outside"]
  /\ permit = [t \in Threads |-> NoPermit]
  /\ sleepers = {}

-----------------------------------------------------------------------------
Take(t) ==
  /\ free # <<>>
  /\ free' = Tail(free)
  /\ permit' = [permit EXCEPT ![t] = Head(free)]
  /\ thread' = [thread EXCEPT ![t] = "holding"]
  /\ sleepers' = sleepers \ {t}

FallAsleep(t) ==
  /\ free = <<>>
  /\ thread' = [thread EXCEPT ![t] = "waiting"]
  /\ sleepers' = sleepers \cup {t}
  /\ UNCHANGED <<free, permit>>

(* checkout, run and acquire up to the first wait. *)
Call(t) ==
  /\ thread[t] \in {"outside", "refused"}
  /\ Take(t) \/ FallAsleep(t)

(* A thread whose timeout is over stays among the sleepers until it has    *)
(* the lock: a notification may still be spent on it.                      *)
Expire(t) ==
  /\ t \in TimedThreads /\ thread[t] = "waiting"
  /\ thread' = [thread EXCEPT ![t] = "late"]
  /\ UNCHANGED <<free, permit, sleepers>>

Refuse(t) ==
  /\ free = <<>>
  /\ thread' = [thread EXCEPT ![t] = "refused"]
  /\ sleepers' = sleepers \ {t}
  /\ UNCHANGED <<free, permit>>

(* Awake with the lock, notified or late: test again.                      *)
Resume(t) ==
  \/ thread[t] = "waiting" /\ t \notin sleepers /\ (Take(t) \/ FallAsleep(t))
  \/ thread[t] = "late" /\ (Take(t) \/ Refuse(t))

(* The sleeper it picks is still waiting, but no longer asleep.            *)
NotifyOne ==
  \/ sleepers = {} /\ UNCHANGED sleepers
  \/ \E t \in sleepers : sleepers' = sleepers \ {t}

GiveBackSilently(t) ==   \* mutant: the permit is put back without notifying
  /\ thread[t] = "holding"
  /\ free' = Append(free, permit[t])
  /\ thread' = [thread EXCEPT ![t] = "outside"]
  /\ permit' = [permit EXCEPT ![t] = NoPermit]
  /\ UNCHANGED sleepers

GiveBackOnReturn(t) ==   \* mutant: no finally, a use that raises keeps it
  /\ thread[t] = "holding"
  /\ free' = free \/ free' = Append(free, permit[t])
  /\ thread' = [thread EXCEPT ![t] = "outside"]
  /\ permit' = [permit EXCEPT ![t] = NoPermit]
  /\ NotifyOne

(* The finally clause, whether the use returned or raised.                 *)
GiveBack(t) ==
  /\ thread[t] = "holding"
  /\ free' = Append(free, permit[t])
  /\ thread' = [thread EXCEPT ![t] = "outside"]
  /\ permit' = [permit EXCEPT ![t] = NoPermit]
  /\ NotifyOne

PoolNext == \E t \in Threads : Call(t) \/ Expire(t) \/ Resume(t) \/ GiveBack(t)

PoolSpec == PoolInit /\ [][PoolNext]_poolVars

-----------------------------------------------------------------------------
PoolTypeOK ==
  /\ free \in Seq(Permits)
  /\ thread \in [Threads -> {"outside", "waiting", "late", "holding", "refused"}]
  /\ permit \in [Threads -> Permits \cup {NoPermit}]
  /\ sleepers \subseteq {t \in Threads : thread[t] \in {"waiting", "late"}}

(* Every permit is free or held by exactly one thread, and only by one     *)
(* that is between its checkout and its finally clause: two threads never  *)
(* share a connection, the pool never runs dry, and put_nowait never finds *)
(* its queue full (connectionpool:38-42, downloadpool:41-48,               *)
(* ratelimiter:35-42).                                                     *)
PermitsConserved ==
  /\ \A p \in Permits :
       Cardinality({k \in DOMAIN free : free[k] = p})
         + Cardinality({t \in Threads : permit[t] = p}) = 1
  /\ \A t \in Threads : permit[t] # NoPermit <=> thread[t] = "holding"

(* The threads on their way to the lock.                                   *)
Coming == {t \in Threads : thread[t] \in {"waiting", "late"}} \ sleepers

(* While anyone sleeps, at least as many threads are on their way to the   *)
(* lock as there are free permits, however takers barge in and timeouts    *)
(* race notifications: nobody sleeps beside a permit nobody comes for.     *)
NobodySleepsInVain == sleepers # {} => Len(free) <= Cardinality(Coming)
=============================================================================
