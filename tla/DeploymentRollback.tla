-------------------------- MODULE DeploymentRollback --------------------------
(***************************************************************************)
(* DeploymentRollback of deploymentrollback/rollback.py: deployment        *)
(* workers put rollback actions on a queue.LifoQueue; rollback workers     *)
(* take them off in drain and run them; others wait in join.  run_next     *)
(* takes an action in one step of the queue's lock and calls the handler   *)
(* in a later one, outside any lock.                                       *)
(*                                                                         *)
(* Actions are numbered in the order of registration.                      *)
(***************************************************************************)
EXTENDS Integers, Sequences, FiniteSets

CONSTANTS
  Rollbackers,   (* threads that call drain                                *)
  Joiners,       (* threads that call join                                 *)
  MaxActions     (* bound: how many actions are ever registered            *)

RollbackAssumption ==
  /\ IsFiniteSet(Rollbackers)
  /\ MaxActions \in Nat

Actions == 1 .. MaxActions
NoAction == 0

VARIABLES
  registered,   (* how many actions have been registered                   *)
  stack,        (* the actions in _queue, the latest last                  *)
  unfinished,   (* registered and not yet marked task_done                 *)
  rollbacker,   (* "idle", "taking", "claimed", "running", "returned",      *)
                (* "raised"                                                *)
  action,       (* the action each rollback worker has claimed             *)
  joiner,       (* "idle", "waiting" or "returned"                         *)
  ran,          (* actions in the order their handlers were called         *)
  ended,        (* actions whose handlers have ended                       *)
  atClaim,      (* registered when each action was claimed (observed only) *)
  atJoin        (* registered when each join was called (observed only)    *)

vars == <<registered, stack, unfinished, rollbacker, action, joiner,
          ran, ended, atClaim, atJoin>>

Init ==
  /\ registered = 0
  /\ stack = <<>>
  /\ unfinished = 0
  /\ rollbacker = [r \in Rollbackers |-> "idle"]
  /\ action = [r \in Rollbackers |-> NoAction]
  /\ joiner = [c \in Joiners |-> "idle"]
  /\ ran = <<>>
  /\ ended = {}
  /\ atClaim = [a \in Actions |-> 0]
  /\ atJoin = [c \in Joiners |-> 0]

-----------------------------------------------------------------------------
Register ==
  /\ registered < MaxActions
  /\ registered' = registered + 1
  /\ stack' = Append(stack, registered + 1)
  /\ unfinished' = unfinished + 1
  /\ UNCHANGED <<rollbacker, action, joiner, ran, ended, atClaim, atJoin>>

(* drain; a thread may call it again after it returned or raised. *)
Drain(r) ==
  /\ rollbacker[r] \in {"idle", "returned", "raised"}
  /\ rollbacker' = [rollbacker EXCEPT ![r] = "taking"]
  /\ UNCHANGED <<registered, stack, unfinished, action, joiner, ran, ended, atClaim, atJoin>>

TakeOldest(r) ==   \* mutant: a Queue in place of the LifoQueue
  /\ rollbacker[r] = "taking"
  /\ stack # <<>>
  /\ action' = [action EXCEPT ![r] = Head(stack)]
  /\ stack' = Tail(stack)
  /\ atClaim' = [atClaim EXCEPT ![Head(stack)] = registered]
  /\ rollbacker' = [rollbacker EXCEPT ![r] = "claimed"]
  /\ UNCHANGED <<registered, unfinished, joiner, ran, ended, atJoin>>

(* run_next: get(block=False) *)
Take(r) ==
  /\ rollbacker[r] = "taking"
  /\ stack # <<>>
  /\ action' = [action EXCEPT ![r] = stack[Len(stack)]]
  /\ stack' = SubSeq(stack, 1, Len(stack) - 1)
  /\ atClaim' = [atClaim EXCEPT ![stack[Len(stack)]] = registered]
  /\ rollbacker' = [rollbacker EXCEPT ![r] = "claimed"]
  /\ UNCHANGED <<registered, unfinished, joiner, ran, ended, atJoin>>

(* Empty: run_next returns False, and drain returns. *)
DrainReturns(r) ==
  /\ rollbacker[r] = "taking"
  /\ stack = <<>>
  /\ rollbacker' = [rollbacker EXCEPT ![r] = "returned"]
  /\ UNCHANGED <<registered, stack, unfinished, action, joiner, ran,
                 ended, atClaim, atJoin>>

CallHandler(r) ==
  /\ rollbacker[r] = "claimed"
  /\ rollbacker' = [rollbacker EXCEPT ![r] = "running"]
  /\ ran' = Append(ran, action[r])
  /\ UNCHANGED <<registered, stack, unfinished, action, joiner, ended, atClaim, atJoin>>

TaskDone(r) ==
  /\ unfinished' = unfinished - 1
  /\ ended' = ended \cup {action[r]}
  /\ action' = [action EXCEPT ![r] = NoAction]

HandlerReturns(r) ==
  /\ rollbacker[r] = "running"
  /\ TaskDone(r)
  /\ rollbacker' = [rollbacker EXCEPT ![r] = "taking"]
  /\ UNCHANGED <<registered, stack, joiner, ran, atClaim, atJoin>>

HandlerRaisesUnmarked(r) ==   \* mutant: task_done is not in a finally clause
  /\ rollbacker[r] = "running"
  /\ ended' = ended \cup {action[r]}
  /\ action' = [action EXCEPT ![r] = NoAction]
  /\ rollbacker' = [rollbacker EXCEPT ![r] = "raised"]
  /\ UNCHANGED <<registered, stack, unfinished, joiner, ran, atClaim, atJoin>>

(* Any exception leaves run_next and drain, after task_done.               *)
HandlerRaises(r) ==
  /\ rollbacker[r] = "running"
  /\ TaskDone(r)
  /\ rollbacker' = [rollbacker EXCEPT ![r] = "raised"]
  /\ UNCHANGED <<registered, stack, joiner, ran, atClaim, atJoin>>

(* join *)
Join(c) ==
  /\ joiner[c] = "idle"
  /\ joiner' = [joiner EXCEPT ![c] = "waiting"]
  /\ atJoin' = [atJoin EXCEPT ![c] = registered]
  /\ UNCHANGED <<registered, stack, unfinished, rollbacker, action,
                 ran, ended, atClaim>>

JoinReturns(c) ==
  /\ joiner[c] = "waiting"
  /\ unfinished = 0
  /\ joiner' = [joiner EXCEPT ![c] = "returned"]
  /\ UNCHANGED <<registered, stack, unfinished, rollbacker, action,
                 ran, ended, atClaim, atJoin>>

RunNext(r) ==
  \/ Take(r) \/ DrainReturns(r)
  \/ CallHandler(r) \/ HandlerReturns(r) \/ HandlerRaises(r)

Next ==
  \/ Register
  \/ \E r \in Rollbackers : Drain(r) \/ RunNext(r)
  \/ \E c \in Joiners : Join(c) \/ JoinReturns(c)

Spec == Init /\ [][Next]_vars

-----------------------------------------------------------------------------
TypeOK ==
  /\ registered \in 0 .. MaxActions
  /\ stack \in Seq(Actions)
  /\ unfinished \in 0 .. MaxActions
  /\ rollbacker \in [Rollbackers ->
       {"idle", "taking", "claimed", "running", "returned", "raised"}]
  /\ action \in [Rollbackers -> Actions \cup {NoAction}]
  /\ joiner \in [Joiners -> {"idle", "waiting", "returned"}]
  /\ ran \in Seq(Actions)
  /\ ended \subseteq Actions
  /\ atClaim \in [Actions -> 0 .. MaxActions]
  /\ atJoin \in [Joiners -> 0 .. MaxActions]

Claimed == {r \in Rollbackers : action[r] # NoAction}

(* Every registered action is on the stack, claimed by one worker or       *)
(* ended, also when handlers raise; no handler is called twice; and the    *)
(* count join waits for is exactly what has not ended.                     *)
EachActionOnce ==
  /\ unfinished = Len(stack) + Cardinality(Claimed)
  /\ \A a \in 1 .. registered :
       Cardinality({k \in DOMAIN stack : stack[k] = a})
         + Cardinality({r \in Rollbackers : action[r] = a})
         + Cardinality({a} \cap ended) = 1
  /\ \A k, l \in DOMAIN ran : k # l => ran[k] # ran[l]

(* When join returns, every action registered before the call has ended.   *)
JoinCoversEarlierActions ==
  \A c \in Joiners : joiner[c] = "returned" => 1 .. atJoin[c] \subseteq ended

(* Actions are claimed in the reverse order of registration, by however    *)
(* many workers: when one is taken off the stack, no action registered     *)
(* later is left on it.                                                    *)
ClaimedInReverse ==
  \A k \in DOMAIN stack : \A a \in 1 .. stack[k] - 1 :
    stack[k] > atClaim[a]

(* Handlers are called in the reverse order of registration: one runs      *)
(* before a later-registered one only if that was registered after the     *)
(* earlier had been taken off the stack (lines 4-5 and 46-47).             *)
ReverseOrder ==
  \A k, l \in DOMAIN ran :
    k < l /\ ran[k] < ran[l] => ran[l] > atClaim[ran[k]]

=============================================================================
