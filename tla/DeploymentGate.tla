---------------------------- MODULE DeploymentGate ----------------------------
(***************************************************************************)
(* DeploymentGate of barrierdeployment/deployment.py over the              *)
(* threading.Barrier it delegates to.  A block under the barrier's         *)
(* condition is one action.  Every change of the state notifies all, so a  *)
(* sleeping worker comes back exactly when its predicate has become true;  *)
(* one whose timeout is over tests it once more, and breaks the barrier    *)
(* only if the state is still "filling".  The barrier's count is the       *)
(* number of workers waiting: the last to arrive leaves in the same block. *)
(***************************************************************************)
EXTENDS Integers, FiniteSets

CONSTANTS
  Workers,   (* the deployment workers; each may call again and again      *)
  Required,  (* required_workers                                           *)
  Timed      (* the workers that pass a timeout                            *)

GateAssumption ==
  IsFiniteSet(Workers) /\ Required \in Nat /\ Required >= 2 /\ Timed \subseteq Workers

VARIABLES
  state,     (* _barrier._state: "filling" 0, "draining" 1, "resetting" -1, *)
             (* "broken" -2                                                *)
  worker     (* "outside", "entering" (blocked at a gate that empties),    *)
             (* "waiting", "through" or "refused"                          *)

gateVars == <<state, worker>>

Init == state = "filling" /\ worker = [w \in Workers |-> "outside"]

Waiting == {w \in Workers : worker[w] = "waiting"}
Becomes(w, s) == worker' = [worker EXCEPT ![w] = s]

-----------------------------------------------------------------------------
(* wait_until_ready *)

Arrive(w) ==
  /\ worker[w] # "waiting" /\ state = "filling"
  /\ IF Cardinality(Waiting) + 1 = Required
     THEN state' = "draining" /\ Becomes(w, "through")
     ELSE state' = state /\ Becomes(w, "waiting")

(* An emptying gate makes arriving workers wait, without a timeout.        *)
Block(w) ==
  /\ worker[w] \in {"outside", "through", "refused"}
  /\ state \in {"draining", "resetting"}
  /\ Becomes(w, "entering") /\ UNCHANGED state

TurnAway(w) ==
  /\ worker[w] # "waiting" /\ state = "broken"
  /\ Becomes(w, "refused") /\ UNCHANGED state

(* A gate that empties fills again when the last worker has left it.       *)
Leave(w) ==
  /\ worker[w] = "waiting" /\ state # "filling"
  /\ Becomes(w, IF state = "draining" THEN "through" ELSE "refused")
  /\ state' = IF Waiting = {w} /\ state # "broken" THEN "filling" ELSE state

TimeOutAlone(w) ==   \* mutant: the late worker goes, the barrier stays intact
  /\ w \in Timed /\ worker[w] = "waiting" /\ state = "filling"
  /\ Becomes(w, "refused") /\ UNCHANGED state

TimeOut(w) ==
  /\ w \in Timed /\ worker[w] = "waiting" /\ state = "filling"
  /\ Becomes(w, "refused") /\ state' = "broken"

ResetWhileDraining ==   \* mutant: workers already released are refused
  /\ state' = IF Waiting = {} THEN "filling" ELSE "resetting"
  /\ UNCHANGED worker

Reset ==
  /\ state' = IF Waiting = {} THEN "filling"
              ELSE IF state = "draining" THEN "draining" ELSE "resetting"
  /\ UNCHANGED worker

WaitUntilReady(w) ==
  Arrive(w) \/ Block(w) \/ TurnAway(w) \/ Leave(w) \/ TimeOut(w)

Next == Reset \/ \E w \in Workers : WaitUntilReady(w)

Spec == Init /\ [][Next]_gateVars

(* A worker that can leave does, and a timeout expires.  Nobody is obliged *)
(* to come or to reset, and a blocked worker may find the gate taken.      *)
Fairness == \A w \in Workers : WF_gateVars(Leave(w)) /\ WF_gateVars(TimeOut(w))

-----------------------------------------------------------------------------
TypeOK ==
  /\ state \in {"filling", "draining", "resetting", "broken"}
  /\ worker \in [Workers -> {"outside", "entering", "waiting", "through", "refused"}]
  /\ Cardinality(Waiting) < Required
  /\ state \in {"draining", "resetting"} => Waiting # {}

(* The gate implements GateContract: the workers waiting together are all  *)
(* let through or all refused, whatever timeouts, resets and new arrivals  *)
(* come between their wakeups (deployment:7-9, 18-20).                     *)
Fate ==
  [w \in Workers |->
     CASE worker[w] = "waiting" /\ state = "filling" -> "gathered"
       [] worker[w] = "waiting" /\ state = "draining" -> "passing"
       [] worker[w] = "waiting" /\ state \in {"resetting", "broken"} -> "refusing"
       [] worker[w] = "entering" -> "outside"
       [] OTHER -> worker[w]]

Contract == INSTANCE GateContract WITH broken <- state = "broken", fate <- Fate

AllOrNone == Contract!Spec

(* One timeout frees all: nobody stays at a gate where a worker with a     *)
(* timeout waits (deployment:8-9).                                         *)
OneTimeoutFreesAll ==
  \A v \in Workers :
    worker[v] = "waiting" /\ Timed \cap Waiting # {} ~> worker[v] # "waiting"
=============================================================================
