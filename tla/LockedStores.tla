----------------------------- MODULE LockedStores -----------------------------
(***************************************************************************)
(* Four stores whose operations are one critical section each:             *)
(* InventoryReservation (inventoryreservation/inventory.py),               *)
(* PaymentWebhookProcessor (paymentwebhook/processor.py), Leaderboard      *)
(* (leaderboard/scores.py) and FeatureFlags (featureflags/flags.py).  The  *)
(* lock is explicit here: an operation acquires it, reads, writes and      *)
(* releases in separate actions, so that the stores may be seen to need    *)
(* it.  The lock of FeatureFlags is an RLock, taken again by is_enabled.   *)
(*                                                                         *)
(* Products and players are independent; there is one of them.  Operations *)
(* are numbered: the quantity to reserve, the event to process (its number *)
(* is its amount), the score to record, the snapshot to install; Read is   *)
(* summary and enabled_flags.                                              *)
(***************************************************************************)
EXTENDS Integers, Sequences, FiniteSets, FiniteSetsExt

CONSTANTS
  Threads,     (* checkout callers, webhook workers, request threads ...   *)
  Stock,       (* the initial stock of the product                         *)
  Operations   (* the numbers of the operations a thread may call          *)

Read == 0
NoThread == "none"

StoresAssumption ==
  /\ NoThread \notin Threads
  /\ Stock \in Nat
  /\ Operations \subseteq Nat \ {Read}

Kinds == {"inventory", "webhook", "leaderboard", "flags"}

(* Snapshots of two flags, 1 enabled, 0 disabled: any two differ in both.  *)
Snapshot(n) == IF n % 2 = 0 THEN <<0, 1>> ELSE <<1, 0>>

VARIABLES
  kind,      (* which of the four classes this is                          *)
  owner,     (* who has _lock                                              *)
  depth,     (* how often: 2 only in the RLock                             *)
  thread,    (* "idle", "locked", "checked" (an event), "writing", "done"  *)
  op,        (* the operation each thread calls                            *)
  seen,      (* the values it has read                                     *)
  accepted,  (* threads whose call answered True                           *)
  stock,     (* _stock                                                     *)
  events,    (* _processed_event_ids                                       *)
  total,     (* _total_cents                                               *)
  best,      (* _scores, -1 for no entry                                   *)
  flags      (* _flags                                                     *)

storeVars == <<kind, owner, depth, thread, op, seen, accepted, stock, events,
               total, best, flags>>
content == <<stock, events, total, best, flags>>

Init ==
  /\ kind \in Kinds
  /\ owner = NoThread /\ depth = 0
  /\ thread = [t \in Threads |-> "idle"]
  /\ op = [t \in Threads |-> Read]
  /\ seen = [t \in Threads |-> <<>>]
  /\ accepted = {}
  /\ stock = Stock
  /\ events = {} /\ total = 0
  /\ best = -1
  /\ flags = Snapshot(0)

-----------------------------------------------------------------------------
AcquireAnyway(t, n) ==   \* mutant: no with statement around the operation
  /\ thread[t] = "idle"
  /\ n = Read => kind \in {"webhook", "flags"}
  /\ thread' = [thread EXCEPT ![t] = "locked"]
  /\ op' = [op EXCEPT ![t] = n]
  /\ owner' = t /\ depth' = 1
  /\ UNCHANGED <<kind, seen, accepted, content>>

(* A thread calls an operation and enters its with block.                  *)
Acquire(t, n) ==
  /\ thread[t] = "idle"
  /\ n = Read => kind \in {"webhook", "flags"}
  /\ owner = NoThread
  /\ thread' = [thread EXCEPT ![t] = "locked"]
  /\ op' = [op EXCEPT ![t] = n]
  /\ owner' = t /\ depth' = 1
  /\ UNCHANGED <<kind, seen, accepted, content>>

Note(t, value) ==
  /\ seen' = [seen EXCEPT ![t] = Append(@, value)]
  /\ thread' = [thread EXCEPT ![t] = "writing"]
  /\ UNCHANGED <<kind, owner, depth, op, accepted>>

Release(t, answer) ==
  /\ thread' = [thread EXCEPT ![t] = "done"]
  /\ accepted' = IF answer THEN accepted \cup {t} ELSE accepted
  /\ owner' = NoThread /\ depth' = 0
  /\ UNCHANGED <<kind, op>>

At(t, k, s) == kind = k /\ thread[t] = s

-----------------------------------------------------------------------------
(* reserve *)
ReadStock(t) == At(t, "inventory", "locked") /\ Note(t, stock) /\ UNCHANGED content

Reserve(t) ==
  /\ At(t, "inventory", "writing")
  /\ LET available == seen[t][1] IN
       IF available < op[t]
       THEN Release(t, FALSE) /\ UNCHANGED stock
       ELSE Release(t, TRUE) /\ stock' = available - op[t]
  /\ UNCHANGED <<seen, events, total, best, flags>>

(* process *)
CheckEvent(t) ==
  /\ At(t, "webhook", "locked") /\ op[t] # Read
  /\ IF op[t] \in events
     THEN Release(t, FALSE)
     ELSE /\ thread' = [thread EXCEPT ![t] = "checked"]
          /\ UNCHANGED <<kind, owner, depth, op, accepted>>
  /\ UNCHANGED <<seen, content>>

NoteEvent(t) ==
  /\ At(t, "webhook", "checked")
  /\ events' = events \cup {op[t]}
  /\ Note(t, total)
  /\ UNCHANGED <<stock, total, best, flags>>

AddAmount(t) ==
  /\ At(t, "webhook", "writing") /\ op[t] # Read
  /\ total' = seen[t][1] + op[t]
  /\ Release(t, TRUE)
  /\ UNCHANGED <<seen, stock, events, best, flags>>

(* summary *)
CountEvents(t) ==
  /\ At(t, "webhook", "locked") /\ op[t] = Read
  /\ Note(t, Cardinality(events)) /\ UNCHANGED content

ReadTotal(t) ==
  /\ At(t, "webhook", "writing") /\ op[t] = Read
  /\ seen' = [seen EXCEPT ![t] = Append(@, total)]
  /\ Release(t, FALSE) /\ UNCHANGED content

(* record_score *)
ReadScore(t) == At(t, "leaderboard", "locked") /\ Note(t, best) /\ UNCHANGED content

RecordScore(t) ==
  /\ At(t, "leaderboard", "writing")
  /\ best' = IF op[t] > seen[t][1] THEN op[t] ELSE best
  /\ Release(t, FALSE)
  /\ UNCHANGED <<seen, stock, events, total, flags>>

(* replace_all *)
ReplaceAll(t) ==
  /\ At(t, "flags", "locked") /\ op[t] # Read
  /\ flags' = Snapshot(op[t])
  /\ Release(t, FALSE)
  /\ UNCHANGED <<seen, stock, events, total, best>>

(* enabled_flags: is_enabled takes the lock again for every name.          *)
Reading(t) == At(t, "flags", "locked") /\ op[t] = Read

AcquireOnce(t) ==   \* mutant: a Lock in place of the RLock
  /\ Reading(t) /\ Len(seen[t]) < Len(flags)
  /\ owner = NoThread /\ depth' = depth + 1 /\ owner' = t
  /\ UNCHANGED <<kind, thread, op, seen, accepted, content>>

AcquireAgain(t) ==
  /\ Reading(t) /\ Len(seen[t]) < Len(flags)
  /\ owner = t /\ depth = 1 /\ depth' = 2
  /\ UNCHANGED <<kind, owner, thread, op, seen, accepted, content>>

IsEnabled(t) ==
  /\ Reading(t) /\ depth = 2
  /\ seen' = [seen EXCEPT ![t] = Append(@, flags[Len(@) + 1])]
  /\ depth' = 1
  /\ UNCHANGED <<kind, owner, thread, op, accepted, content>>

EnabledFlags(t) ==
  /\ Reading(t) /\ Len(seen[t]) = Len(flags)
  /\ Release(t, FALSE) /\ UNCHANGED <<seen, content>>

-----------------------------------------------------------------------------
Operate(t) ==
  \/ ReadStock(t) \/ Reserve(t)
  \/ CheckEvent(t) \/ NoteEvent(t) \/ AddAmount(t)
  \/ CountEvents(t) \/ ReadTotal(t)
  \/ ReadScore(t) \/ RecordScore(t)
  \/ ReplaceAll(t) \/ AcquireAgain(t) \/ IsEnabled(t) \/ EnabledFlags(t)

Next ==
  \E t \in Threads : Operate(t) \/ \E n \in Operations \cup {Read} : Acquire(t, n)

(* A thread in its critical section goes on.                               *)
Fairness == \A t \in Threads : WF_storeVars(Operate(t))

-----------------------------------------------------------------------------
TypeOK ==
  /\ kind \in Kinds
  /\ owner \in Threads \cup {NoThread} /\ depth \in 0 .. 2
  /\ thread \in [Threads -> {"idle", "locked", "checked", "writing", "done"}]
  /\ op \in [Threads -> Operations \cup {Read}]
  /\ seen \in [Threads -> Seq(Int)]
  /\ accepted \subseteq Threads
  /\ stock \in Nat /\ total \in Nat /\ best \in Int
  /\ events \subseteq Operations
  /\ flags \in {Snapshot(0), Snapshot(1)}

Done == {t \in Threads : thread[t] = "done"}

(* The stores look as if every operation happened at once, one after the   *)
(* other: stock never oversold and refused only if too low, each event     *)
(* counted once and summaries consistent, the highest score kept, and      *)
(* enabled_flags true of one snapshot (inventory:4-5, processor:32-34,     *)
(* scores:31-32, flags:19-21).                                             *)
StockIsExact ==
  /\ owner = NoThread => stock = Stock - MapThenSumSet(LAMBDA t : op[t], accepted)
  /\ \A t \in Done \ accepted : stock < op[t]

EventsCountOnce ==
  /\ owner = NoThread => total = SumSet(events)
  /\ \A t, u \in accepted : t # u => op[t] # op[u]
  /\ \A t \in Done : op[t] = Read =>
       \E S \in SUBSET Operations : seen[t] = <<Cardinality(S), SumSet(S)>>

BestIsKept == \A t \in Done : best >= op[t]

SnapshotIsOne ==
  \A t \in Done : op[t] = Read => seen[t] \in {Snapshot(0), Snapshot(1)}

LooksAtomic ==
  CASE kind = "inventory" -> StockIsExact
    [] kind = "webhook" -> EventsCountOnce
    [] kind = "leaderboard" -> BestIsKept
    [] kind = "flags" -> SnapshotIsOne

(* Every operation ends, nested ones too: the lock of FeatureFlags is      *)
(* reentrant (flags:7-9).                                                  *)
OperationsEnd == \A t \in Threads : thread[t] = "locked" ~> thread[t] = "done"
=============================================================================
