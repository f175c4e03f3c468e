------------------------------ MODULE TicketQueue ------------------------------
(***************************************************************************)
(* SupportQueue of supportqueue/queue.py and its asyncio counterpart       *)
(* AsyncShippingQueue of asyncshippingqueue/queue.py: producers submit     *)
(* tickets with a priority, workers take the most urgent one, and ties are *)
(* broken by a sequence number.  A thread takes its number under one lock  *)
(* and puts the ticket under another, so numbers may enter the queue out   *)
(* of order; a task does both without suspending.  Support workers get     *)
(* None from an empty queue, dispatchers wait, with or without a timeout.  *)
(***************************************************************************)
EXTENDS Integers, FiniteSets

CONSTANTS
  Tickets,    (* each is submitted once, by a producer of its own          *)
  Urgent,     (* the tickets with the lower priority number                *)
  Workers,    (* agents or carrier workers                                 *)
  Timed,      (* the workers that pass a timeout to dispatch_next          *)
  Joiners     (* threads or tasks that call join                           *)

QueueAssumption ==
  /\ IsFiniteSet(Tickets) /\ Urgent \subseteq Tickets
  /\ IsFiniteSet(Workers) /\ Timed \subseteq Workers

Kinds == {"threads", "tasks"}   \* SupportQueue, AsyncShippingQueue
NoTicket == "none"

VARIABLES
  kind,          (* which of the two classes this is                       *)
  nextSequence,  (* _next_sequence                                         *)
  sequence,      (* per ticket: its sequence number, -1 before             *)
  queued,        (* the tickets in _queue                                  *)
  unfinished,    (* submitted tickets not yet marked task_done             *)
  worker,        (* "idle", "waiting" or "handling"                        *)
  ticket,        (* what each worker got last                              *)
  submitted,     (* the tickets whose submit has returned                  *)
  joiner,        (* "idle", "waiting", "woken" (a task) or "returned"      *)
  before,        (* per ticket: submitted when its submit began (observed) *)
  atJoin         (* submitted when each join was called (observed)         *)

vars == <<kind, nextSequence, sequence, queued, unfinished, worker, ticket,
          submitted, joiner, before, atJoin>>

Init ==
  /\ kind \in Kinds
  /\ nextSequence = 0
  /\ sequence = [t \in Tickets |-> -1]
  /\ queued = {}
  /\ unfinished = 0
  /\ worker = [w \in Workers |-> "idle"]
  /\ ticket = [w \in Workers |-> NoTicket]
  /\ submitted = {}
  /\ joiner = [j \in Joiners |-> "idle"]
  /\ before = [t \in Tickets |-> {}]
  /\ atJoin = [j \in Joiners |-> {}]

-----------------------------------------------------------------------------
(* submit *)

NumberAgain(t) ==   \* mutant: _next_sequence is not incremented
  /\ sequence[t] = -1
  /\ sequence' = [sequence EXCEPT ![t] = nextSequence]
  /\ before' = [before EXCEPT ![t] = submitted]
  /\ UNCHANGED nextSequence

(* Under _sequence_lock. *)
Number(t) ==
  /\ sequence[t] = -1
  /\ sequence' = [sequence EXCEPT ![t] = nextSequence]
  /\ nextSequence' = nextSequence + 1
  /\ before' = [before EXCEPT ![t] = submitted]

Put(t) ==
  /\ queued' = queued \cup {t}
  /\ unfinished' = unfinished + 1
  /\ submitted' = submitted \cup {t}

SubmitAsTask(t) ==
  /\ kind = "tasks" /\ Number(t) /\ Put(t)
  /\ UNCHANGED <<kind, worker, ticket, joiner, atJoin>>

TakeNumber(t) ==
  /\ kind = "threads" /\ Number(t)
  /\ UNCHANGED <<kind, queued, unfinished, worker, ticket, submitted, joiner, atJoin>>

PutNumbered(t) ==
  /\ kind = "threads" /\ sequence[t] # -1 /\ t \notin submitted
  /\ Put(t)
  /\ UNCHANGED <<kind, nextSequence, sequence, worker, ticket, joiner, before, atJoin>>

-----------------------------------------------------------------------------
(* claim_next and dispatch_next *)

PriorityOf(t) == IF t \in Urgent THEN 0 ELSE 1

(* The order of the heap: tuples (priority, sequence, ticket). *)
Precedes(t, u) ==
  \/ PriorityOf(t) < PriorityOf(u)
  \/ PriorityOf(t) = PriorityOf(u) /\ sequence[t] <= sequence[u]

Ready(w) ==
  worker[w] = "waiting" \/ (worker[w] = "idle" /\ kind = "threads")

Take(w, t) ==
  /\ Ready(w)
  /\ t \in queued /\ \A u \in queued : Precedes(t, u)
  /\ queued' = queued \ {t}
  /\ worker' = [worker EXCEPT ![w] = "handling"]
  /\ ticket' = [ticket EXCEPT ![w] = t]
  /\ UNCHANGED <<kind, nextSequence, sequence, unfinished, submitted, joiner,
                 before, atJoin>>

Answers(w, state, t) ==
  /\ worker' = [worker EXCEPT ![w] = state]
  /\ ticket' = [ticket EXCEPT ![w] = t]
  /\ UNCHANGED <<kind, nextSequence, sequence, queued, unfinished, submitted,
                 joiner, before, atJoin>>

(* claim_next: Empty. *)
ClaimNothing(w) ==
  kind = "threads" /\ worker[w] = "idle" /\ queued = {} /\ Answers(w, "idle", NoTicket)

Dispatch(w) ==
  kind = "tasks" /\ worker[w] = "idle" /\ Answers(w, "waiting", NoTicket)

(* A zero timeout expires whatever is queued; get() takes an item in its   *)
(* last step, so a dispatch that times out has taken none.                 *)
Expire(w) ==
  w \in Timed /\ worker[w] = "waiting" /\ Answers(w, "idle", NoTicket)

(* At zero every joining task is due to return; a joining thread will look *)
(* at the count again.                                                     *)
WakeTasks ==
  [j \in Joiners |->
     IF kind = "tasks" /\ joiner[j] = "waiting" THEN "woken" ELSE joiner[j]]

TaskDone(w) ==
  /\ worker[w] = "handling"
  /\ worker' = [worker EXCEPT ![w] = "idle"]
  /\ unfinished' = unfinished - 1
  /\ joiner' = IF unfinished' = 0 THEN WakeTasks ELSE joiner
  /\ UNCHANGED <<kind, nextSequence, sequence, queued, ticket, submitted,
                 before, atJoin>>

-----------------------------------------------------------------------------
Join(j) ==
  /\ joiner[j] = "idle"
  /\ joiner' = [joiner EXCEPT ![j] = IF unfinished = 0 THEN "returned" ELSE "waiting"]
  /\ atJoin' = [atJoin EXCEPT ![j] = submitted]
  /\ UNCHANGED <<kind, nextSequence, sequence, queued, unfinished, worker, ticket,
                 submitted, before>>

JoinReturns(j) ==
  /\ \/ joiner[j] = "waiting" /\ kind = "threads" /\ unfinished = 0
     \/ joiner[j] = "woken"
  /\ joiner' = [joiner EXCEPT ![j] = "returned"]
  /\ UNCHANGED <<kind, nextSequence, sequence, queued, unfinished, worker, ticket,
                 submitted, before, atJoin>>

Submit(t) == SubmitAsTask(t) \/ TakeNumber(t) \/ PutNumbered(t)

Next ==
  \/ \E t \in Tickets : Submit(t)
  \/ \E w \in Workers :
       \/ \E t \in Tickets : Take(w, t)
       \/ ClaimNothing(w) \/ Dispatch(w) \/ Expire(w) \/ TaskDone(w)
  \/ \E j \in Joiners : Join(j) \/ JoinReturns(j)

Spec == Init /\ [][Next]_vars

-----------------------------------------------------------------------------
Handling == {w \in Workers : worker[w] = "handling"}

TypeOK ==
  /\ kind \in Kinds
  /\ nextSequence \in 0 .. Cardinality(Tickets)
  /\ sequence \in [Tickets -> -1 .. Cardinality(Tickets)]
  /\ queued \subseteq Tickets /\ submitted \subseteq Tickets
  /\ worker \in [Workers -> {"idle", "waiting", "handling"}]
  /\ ticket \in [Workers -> Tickets \cup {NoTicket}]
  /\ unfinished \in 0 .. Cardinality(Tickets)
  /\ joiner \in [Joiners -> {"idle", "waiting", "woken", "returned"}]
  /\ before \in [Tickets -> SUBSET Tickets]
  /\ atJoin \in [Joiners -> SUBSET Tickets]

(* The count join waits for is what is queued or in a worker's hands: a    *)
(* dispatch that times out has taken nothing, a claim of None marks        *)
(* nothing (supportqueue:68-78, asyncshippingqueue:68-84).                 *)
UnfinishedIsWhatIsLeft == unfinished = Cardinality(queued) + Cardinality(Handling)

(* When join returns, every ticket submitted before the call has been      *)
(* handled: it is neither queued nor in a worker's hands.                  *)
JoinCoversEarlierTickets ==
  \A j \in Joiners : joiner[j] \in {"woken", "returned"} =>
    /\ atJoin[j] \cap queued = {}
    /\ \A w \in Handling : ticket[w] \notin atJoin[j]

(* No ticket is overtaken: when a worker takes one, no ticket left in the  *)
(* queue is more urgent, or equally urgent with a submit that had returned *)
(* before the taken one's began (supportqueue:10-11, lines 62-66).         *)
NoTicketOvertaken ==
  \A t \in queued \ queued', u \in queued' :
    /\ PriorityOf(t) <= PriorityOf(u)
    /\ PriorityOf(t) = PriorityOf(u) => u \notin before[t]
=============================================================================
