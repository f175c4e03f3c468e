----------------------------- MODULE GateContract -----------------------------
(***************************************************************************)
(* What DeploymentGate (barrierdeployment/deployment.py) promises, without *)
(* a barrier: workers gather; the one that completes the required number   *)
(* lets all of them through, one that gives up breaks the gate for all,    *)
(* and a reset sends all of them away.  The fate of a gathering is decided *)
(* at once; its members learn of it one by one, and nobody gathers         *)
(* meanwhile.                                                              *)
(***************************************************************************)
EXTENDS Integers, FiniteSets

CONSTANTS
  Workers,   (* the deployment workers                                     *)
  Required   (* required_workers                                           *)

VARIABLES
  broken,    (* whether the gate is broken                                 *)
  fate       (* per worker: "outside", "gathered", "passing" or "refusing" *)
             (* (decided, not told), "through" or "refused"                *)

In(f) == {w \in Workers : fate[w] = f}
Members == In("gathered") \cup In("passing") \cup In("refusing")

Init == broken = FALSE /\ fate = [w \in Workers |-> "outside"]

(* The members of the gathering share the fate f, except worker w.         *)
Decide(f, w, own) ==
  fate' = [v \in Workers |-> IF v = w THEN own
                             ELSE IF v \in In("gathered") THEN f ELSE fate[v]]

MayGather(w) == ~broken /\ w \notin Members /\ Members = In("gathered")

Gather(w) ==
  /\ MayGather(w) /\ Cardinality(Members) + 1 < Required
  /\ fate' = [fate EXCEPT ![w] = "gathered"]
  /\ UNCHANGED broken

Complete(w) ==
  /\ MayGather(w) /\ Cardinality(Members) + 1 = Required
  /\ Decide("passing", w, "through")
  /\ UNCHANGED broken

GiveUp(w) ==
  w \in In("gathered") /\ Decide("refusing", w, "refused") /\ broken' = TRUE

Reset ==
  /\ broken' = FALSE
  /\ fate' = [v \in Workers |-> IF v \in In("gathered") THEN "refusing" ELSE fate[v]]

TurnAway(w) ==
  /\ broken /\ w \notin Members
  /\ fate' = [fate EXCEPT ![w] = "refused"]
  /\ UNCHANGED broken

Tell(w) ==
  /\ \/ w \in In("passing") /\ fate' = [fate EXCEPT ![w] = "through"]
     \/ w \in In("refusing") /\ fate' = [fate EXCEPT ![w] = "refused"]
  /\ UNCHANGED broken

(* A worker that has had its answer comes back. *)
Return(w) ==
  /\ w \notin Members
  /\ fate' = [fate EXCEPT ![w] = "outside"]
  /\ UNCHANGED broken

Next ==
  \/ Reset
  \/ \E w \in Workers :
       Gather(w) \/ Complete(w) \/ GiveUp(w) \/ TurnAway(w) \/ Tell(w) \/ Return(w)

Spec == Init /\ [][Next]_<<broken, fate>>
=============================================================================
