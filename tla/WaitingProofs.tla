----------------------------- MODULE WaitingProofs -----------------------------
(***************************************************************************)
(* The components whose callers wait for each other or for something to    *)
(* become free, each for any callers and any choice of timeouts.  They     *)
(* share nothing; the facts about one do not mention another.              *)
(*                                                                         *)
(* DeploymentGate keeps its types and implements GateContract, for any     *)
(* required number.  The type invariant is inductive; that an emptying     *)
(* gate has somebody to empty it is what lets the last one out find it     *)
(* filling.                                                                *)
(*                                                                         *)
(* PaymentStatus: the first result of a payment wins.  FirstResultWins is  *)
(* not inductive by itself: it has to be known that the marker which set   *)
(* the result is the only one that was told so, and that woken callers     *)
(* resume with a result there.                                             *)
(*                                                                         *)
(* PermitPool: permits are conserved and nobody sleeps in vain, for any    *)
(* capacity.  PermitsConserved counts; what is inductive is Exclusive:     *)
(* each permit is somewhere, and no two places hold the same.              *)
(* NobodySleepsInVain is inductive with the types: whoever takes a permit  *)
(* either was coming for it or leaves one thread fewer asleep, and         *)
(* GiveBack sends one for the permit it puts back.                         *)
(*                                                                         *)
(* ReviewBatch: whoever waits does so for a batch that is not approved,    *)
(* because every approval wakes all and every one that wakes looks again.  *)
(***************************************************************************)
EXTENDS MCWaiting, FiniteSetTheorems, TLAPS

-----------------------------------------------------------------------------
(* DeploymentGate                                                          *)

(* The workers that wait when w begins to, and when w has left.            *)
LEMMA WaitingAfter ==
  ASSUME TypeOK, NEW w \in Workers, NEW s, Becomes(w, s)
  PROVE  Waiting' = IF s = "waiting" THEN Waiting \cup {w} ELSE Waiting \ {w}
  BY DEF TypeOK, Becomes, Waiting

LEMMA WaitingFinite ==
  ASSUME GateAssumption
  PROVE  IsFiniteSet(Waiting) /\ Cardinality(Waiting) \in Nat
  <1>1. Waiting \subseteq Workers
    BY DEF Waiting
  <1> QED
    BY <1>1, FS_Subset, FS_CardinalityType DEF GateAssumption

LEMMA InitType == GateAssumption /\ Init => TypeOK
  <1> SUFFICES ASSUME GateAssumption, Init PROVE TypeOK
    OBVIOUS
  <1>1. Waiting = {}
    BY DEF Init, Waiting
  <1> QED
    BY <1>1, FS_EmptySet DEF Init, TypeOK, GateAssumption

LEMMA ArriveType ==
  ASSUME GateAssumption, TypeOK, NEW w \in Workers, Arrive(w)
  PROVE  TypeOK'
  <1>1. worker' \in [Workers -> {"outside", "entering", "waiting", "through", "refused"}]
    BY DEF Arrive, Becomes, TypeOK
  <1>2. CASE Cardinality(Waiting) + 1 = Required
    <2>1. state' = "draining" /\ Becomes(w, "through")
      BY <1>2 DEF Arrive
    <2>2. Waiting' = Waiting
      BY <2>1, WaitingAfter DEF Arrive, Waiting
    <2>3. Waiting # {}
      BY <1>2, FS_EmptySet DEF GateAssumption
    <2> QED
      BY <1>1, <2>1, <2>2, <2>3 DEF TypeOK
  <1>3. CASE Cardinality(Waiting) + 1 # Required
    <2>1. state' = "filling" /\ Becomes(w, "waiting") /\ w \notin Waiting
      BY <1>3 DEF Arrive, Waiting
    <2>2. Waiting' = Waiting \cup {w}
      BY <2>1, WaitingAfter
    <2>3. Cardinality(Waiting') = Cardinality(Waiting) + 1
      BY <2>1, <2>2, WaitingFinite, FS_AddElement
    <2>4. Cardinality(Waiting') < Required
      BY <1>3, <2>3, WaitingFinite DEF TypeOK, GateAssumption
    <2> QED
      BY <1>1, <2>1, <2>4 DEF TypeOK
  <1> QED
    BY <1>2, <1>3

(* A worker that goes makes the count no greater.                          *)
LEMMA FewerWait ==
  ASSUME GateAssumption, TypeOK, NEW w \in Workers, NEW s, s # "waiting", Becomes(w, s)
  PROVE  Cardinality(Waiting') < Required
  <1>1. Waiting' \subseteq Waiting
    BY WaitingAfter
  <1>2. Cardinality(Waiting') <= Cardinality(Waiting) /\ Cardinality(Waiting') \in Nat
    BY <1>1, WaitingFinite, FS_Subset, FS_CardinalityType
  <1> QED
    BY <1>2, WaitingFinite DEF TypeOK, GateAssumption

LEMMA OthersType ==
  ASSUME GateAssumption, TypeOK, NEW w \in Workers,
         Block(w) \/ TurnAway(w) \/ Leave(w) \/ TimeOut(w)
  PROVE  TypeOK'
  <1>1. PICK s \in {"entering", "through", "refused"} : Becomes(w, s)
    BY DEF Block, TurnAway, Leave, TimeOut
  <1>2. worker' \in [Workers -> {"outside", "entering", "waiting", "through", "refused"}]
    BY <1>1 DEF Becomes, TypeOK
  <1>3. Cardinality(Waiting') < Required
    BY <1>1, FewerWait
  <1>4. Waiting' = Waiting \ {w}
    BY <1>1, WaitingAfter
  <1>5. state' \in {"filling", "draining", "resetting", "broken"}
    BY DEF Block, TurnAway, Leave, TimeOut, TypeOK
  <1>6. state' \in {"draining", "resetting"} => Waiting' # {}
    <2>1. CASE Block(w)
      BY <1>4, <2>1 DEF Block, TypeOK, Waiting
    <2>2. CASE Leave(w)
      BY <1>4, <2>2 DEF Leave, TypeOK, Waiting
    <2> QED
      BY <2>1, <2>2 DEF TurnAway, TimeOut
  <1> QED
    BY <1>2, <1>3, <1>5, <1>6 DEF TypeOK

LEMMA NextType == GateAssumption /\ TypeOK /\ [Next]_gateVars => TypeOK'
  <1> SUFFICES ASSUME GateAssumption, TypeOK, [Next]_gateVars PROVE TypeOK'
    OBVIOUS
  <1>1. CASE Reset
    BY <1>1 DEF Reset, TypeOK, Waiting
  <1>2. ASSUME NEW w \in Workers, WaitUntilReady(w) PROVE TypeOK'
    BY <1>2, ArriveType, OthersType DEF WaitUntilReady
  <1>3. CASE UNCHANGED gateVars
    BY <1>3 DEF gateVars, TypeOK, Waiting
  <1> QED
    BY <1>1, <1>2, <1>3 DEF Next

(* The barrier's state is well formed: never more than required - 1 wait,  *)
(* and a gate that is being emptied has somebody left to empty it.         *)
THEOREM TypeCorrect == ASSUME GateAssumption PROVE Spec => []TypeOK
  <1>1. Init => TypeOK
    BY InitType
  <1>2. TypeOK /\ [Next]_gateVars => TypeOK'
    BY NextType
  <1> QED
    BY <1>1, <1>2, PTL DEF Spec

-----------------------------------------------------------------------------
(* What Fate says of each worker, case by case.                            *)
LEMMA FateIs ==
  ASSUME TypeOK, NEW w \in Workers
  PROVE  /\ worker[w] = "waiting" /\ state = "filling" => Fate[w] = "gathered"
         /\ worker[w] = "waiting" /\ state = "draining" => Fate[w] = "passing"
         /\ worker[w] = "waiting" /\ state \in {"resetting", "broken"}
              => Fate[w] = "refusing"
         /\ worker[w] = "entering" => Fate[w] = "outside"
         /\ worker[w] \in {"outside", "through", "refused"} => Fate[w] = worker[w]
  BY DEF Fate, TypeOK

LEMMA FateIsNext ==
  ASSUME TypeOK', NEW w \in Workers
  PROVE  /\ worker'[w] = "waiting" /\ state' = "filling" => Fate'[w] = "gathered"
         /\ worker'[w] = "waiting" /\ state' = "draining" => Fate'[w] = "passing"
         /\ worker'[w] = "waiting" /\ state' \in {"resetting", "broken"}
              => Fate'[w] = "refusing"
         /\ worker'[w] = "entering" => Fate'[w] = "outside"
         /\ worker'[w] \in {"outside", "through", "refused"} => Fate'[w] = worker'[w]
  BY DEF Fate, TypeOK

(* The members of the contract's gathering are the workers that wait, and  *)
(* they share one fate, which the state of the barrier determines.         *)
LEMMA MembersWait ==
  ASSUME TypeOK
  PROVE  /\ Contract!Members = Waiting
         /\ Contract!In("gathered") = IF state = "filling" THEN Waiting ELSE {}
         /\ Contract!In("passing") = IF state = "draining" THEN Waiting ELSE {}
         /\ Contract!In("refusing") =
              IF state \in {"resetting", "broken"} THEN Waiting ELSE {}
  <1>1. Contract!In("gathered") = IF state = "filling" THEN Waiting ELSE {}
    BY FateIs DEF Contract!In, Waiting, TypeOK
  <1>2. Contract!In("passing") = IF state = "draining" THEN Waiting ELSE {}
    BY FateIs DEF Contract!In, Waiting, TypeOK
  <1>3. Contract!In("refusing") =
          IF state \in {"resetting", "broken"} THEN Waiting ELSE {}
    BY FateIs DEF Contract!In, Waiting, TypeOK
  <1> QED
    BY <1>1, <1>2, <1>3 DEF Contract!Members, TypeOK

(* The instance has a copy of FiniteSets of its own.                       *)
LEMMA SameCardinality ==
  ASSUME NEW S
  PROVE  Contract!Cardinality(S) = Cardinality(S)
  BY DEF Contract!Cardinality, Cardinality

LEMMA ArriveGathers ==
  ASSUME GateAssumption, TypeOK, TypeOK', NEW w \in Workers, Arrive(w)
  PROVE  Contract!Gather(w) \/ Contract!Complete(w)
  <1>1. Contract!MayGather(w) /\ Contract!In("gathered") = Waiting
    BY MembersWait DEF Arrive, Contract!MayGather, Waiting
  <1>2. CASE Cardinality(Waiting) + 1 = Required
    <2>1. state' = "draining" /\ Becomes(w, "through")
      BY <1>2 DEF Arrive
    <2>2. ASSUME NEW v \in Workers
          PROVE  Fate'[v] = IF v = w THEN "through"
                            ELSE IF v \in Waiting THEN "passing" ELSE Fate[v]
      BY <2>1, FateIs, FateIsNext DEF Becomes, TypeOK, Waiting
    <2>3. Fate' = [v \in Workers |-> IF v = w THEN "through"
                     ELSE IF v \in Contract!In("gathered") THEN "passing" ELSE Fate[v]]
      BY <1>1, <2>2 DEF Fate
    <2>4. Contract!Cardinality(Contract!Members) + 1 = Required
      BY <1>2, MembersWait, SameCardinality
    <2>5. UNCHANGED (state = "broken")
      BY <2>1 DEF Arrive
    <2> QED
      BY <1>1, <2>3, <2>4, <2>5 DEF Contract!Complete, Contract!Decide
  <1>3. CASE Cardinality(Waiting) + 1 # Required
    <2>1. state' = "filling" /\ Becomes(w, "waiting")
      BY <1>3 DEF Arrive
    <2>2. ASSUME NEW v \in Workers
          PROVE  Fate'[v] = IF v = w THEN "gathered" ELSE Fate[v]
      BY <2>1, FateIs, FateIsNext DEF Becomes, TypeOK, Arrive
    <2>3. Fate' = [Fate EXCEPT ![w] = "gathered"]
      BY <2>2 DEF Fate
    <2>4. Contract!Cardinality(Contract!Members) + 1 < Required
      BY <1>3, WaitingFinite, MembersWait, SameCardinality DEF TypeOK, GateAssumption
    <2>5. UNCHANGED (state = "broken")
      BY <2>1 DEF Arrive
    <2> QED
      BY <1>1, <2>3, <2>4, <2>5 DEF Contract!Gather
  <1> QED
    BY <1>2, <1>3

LEMMA BlockReturns ==
  ASSUME TypeOK, TypeOK', NEW w \in Workers, Block(w)
  PROVE  Contract!Return(w)
  <1>1. ASSUME NEW v \in Workers
        PROVE  Fate'[v] = IF v = w THEN "outside" ELSE Fate[v]
    BY FateIs, FateIsNext DEF Block, Becomes, TypeOK
  <1>2. Fate' = [Fate EXCEPT ![w] = "outside"]
    BY <1>1 DEF Fate
  <1> QED
    BY <1>2, MembersWait DEF Contract!Return, Block, Waiting

LEMMA TurnAwayRefuses ==
  ASSUME TypeOK, TypeOK', NEW w \in Workers, TurnAway(w)
  PROVE  Contract!TurnAway(w)
  <1>1. ASSUME NEW v \in Workers
        PROVE  Fate'[v] = IF v = w THEN "refused" ELSE Fate[v]
    BY FateIs, FateIsNext DEF TurnAway, Becomes, TypeOK
  <1>2. Fate' = [Fate EXCEPT ![w] = "refused"]
    BY <1>1 DEF Fate
  <1> QED
    BY <1>2, MembersWait DEF Contract!TurnAway, TurnAway, Waiting

LEMMA LeaveTells ==
  ASSUME TypeOK, TypeOK', NEW w \in Workers, Leave(w)
  PROVE  Contract!Tell(w)
  <1> DEFINE s == IF state = "draining" THEN "through" ELSE "refused"
  <1>1. ASSUME NEW v \in Workers, v # w PROVE Fate'[v] = Fate[v]
    <2>1. worker'[v] = worker[v]
      BY <1>1 DEF Leave, Becomes, TypeOK
    <2>2. CASE worker[v] = "waiting"
      <3>1. state' = state
        BY <1>1, <2>2 DEF Leave, Waiting
      <3> QED
        BY <2>1, <3>1 DEF Fate
    <2>3. CASE worker[v] # "waiting"
      BY <2>1, <2>3, FateIs, FateIsNext DEF TypeOK
    <2> QED
      BY <2>2, <2>3
  <1>2. Fate'[w] = s
    BY FateIsNext DEF Leave, Becomes, TypeOK
  <1>3. Fate' = [Fate EXCEPT ![w] = s]
    BY <1>1, <1>2 DEF Fate
  <1>4. (state' = "broken") = (state = "broken")
    BY DEF Leave
  <1> QED
    BY <1>3, <1>4, MembersWait DEF Contract!Tell, Leave, Waiting, TypeOK

LEMMA TimeOutGivesUp ==
  ASSUME TypeOK, TypeOK', NEW w \in Workers, TimeOut(w)
  PROVE  Contract!GiveUp(w)
  <1>1. Contract!In("gathered") = Waiting /\ w \in Waiting
    BY MembersWait DEF TimeOut, Waiting
  <1>2. ASSUME NEW v \in Workers
        PROVE  Fate'[v] = IF v = w THEN "refused"
                          ELSE IF v \in Waiting THEN "refusing" ELSE Fate[v]
    BY FateIs, FateIsNext DEF TimeOut, Becomes, TypeOK, Waiting
  <1>3. Fate' = [v \in Workers |-> IF v = w THEN "refused"
                   ELSE IF v \in Contract!In("gathered") THEN "refusing" ELSE Fate[v]]
    BY <1>1, <1>2 DEF Fate
  <1> QED
    BY <1>1, <1>3 DEF Contract!GiveUp, Contract!Decide, TimeOut

LEMMA ResetSendsAway ==
  ASSUME TypeOK, TypeOK', Reset
  PROVE  Contract!Reset
  <1>1. Contract!In("gathered") = IF state = "filling" THEN Waiting ELSE {}
    BY MembersWait
  <1>2. ASSUME NEW v \in Workers
        PROVE  Fate'[v] = IF v \in Contract!In("gathered") THEN "refusing" ELSE Fate[v]
    BY <1>1, FateIs, FateIsNext DEF Reset, TypeOK, Waiting
  <1>3. Fate' = [v \in Workers |->
                   IF v \in Contract!In("gathered") THEN "refusing" ELSE Fate[v]]
    BY <1>2 DEF Fate
  <1> QED
    BY <1>3 DEF Contract!Reset, Reset

LEMMA StepContract ==
  ASSUME GateAssumption, TypeOK, TypeOK', [Next]_gateVars
  PROVE  [Contract!Next]_<<state = "broken", Fate>>
  <1>1. CASE Reset
    BY <1>1, ResetSendsAway DEF Contract!Next
  <1>2. ASSUME NEW w \in Workers, WaitUntilReady(w)
        PROVE  Contract!Next
    BY <1>2, ArriveGathers, BlockReturns, TurnAwayRefuses, LeaveTells, TimeOutGivesUp
       DEF WaitUntilReady, Contract!Next
  <1>3. CASE UNCHANGED gateVars
    BY <1>3 DEF gateVars, Fate
  <1> QED
    BY <1>1, <1>2, <1>3 DEF Next

LEMMA InitContract == Init => Contract!Init
  BY DEF Init, Contract!Init, Fate

(* The workers waiting together are all let through or all refused: the    *)
(* gate implements the contract, whatever timeouts, resets and arrivals    *)
(* come between their wakeups (wait_until_ready:35, reset:39).             *)
THEOREM GateImplementsContract == ASSUME GateAssumption PROVE Spec => AllOrNone
  <1>1. TypeOK /\ TypeOK' /\ [Next]_gateVars => [Contract!Next]_<<state = "broken", Fate>>
    BY StepContract
  <1> QED
    BY <1>1, InitContract, TypeCorrect, PTL DEF Spec, AllOrNone, Contract!Spec

-----------------------------------------------------------------------------
(* PaymentStatus                                                           *)

(* Until there is a result nobody was told to have set it or woken for it; *)
(* from then on exactly one marker was told so.                            *)
OneWinner ==
  /\ result = Pending =>
       /\ \A m \in Markers : marked[m] \notin Outcomes
       /\ \A c \in Callers : caller[c] \notin Outcomes \cup {"woken"}
  /\ result # Pending =>
       /\ \E m \in Markers : marked[m] = result
       /\ \A m \in Markers : marked[m] \in Outcomes => marked[m] = result
       /\ \A c \in Callers : caller[c] \in Outcomes => caller[c] = result

IInv == PaymentTypeOK /\ OneWinner /\ FirstResultWins

LEMMA InitIInv == PaymentInit => IInv
  BY DEF PaymentInit, IInv, PaymentTypeOK, OneWinner, FirstResultWins, Outcomes, Pending

LEMMA MarkIInv ==
  ASSUME IInv, NEW m \in Markers, NEW outcome \in Outcomes, Mark(m, outcome)
  PROVE  IInv'
  <1> USE DEF IInv, PaymentTypeOK, Outcomes, Pending
  <1>1. PaymentTypeOK'
    BY DEF Mark
  <1>2. CASE result = Pending
    <2>1. /\ result' = outcome
          /\ marked' = [marked EXCEPT ![m] = outcome]
          /\ caller' = [c \in Callers |-> IF caller[c] = "waiting" THEN "woken" ELSE caller[c]]
      BY <1>2 DEF Mark
    <2>2. OneWinner'
      BY <1>2, <2>1 DEF OneWinner
    <2>3. FirstResultWins'
      BY <1>2, <2>1 DEF OneWinner, FirstResultWins
    <2> QED
      BY <1>1, <2>2, <2>3
  <1>3. CASE result # Pending
    <2>1. /\ marked[m] = "idle" /\ marked' = [marked EXCEPT ![m] = "refused"]
          /\ UNCHANGED <<result, caller>>
      BY <1>3 DEF Mark
    <2>2. OneWinner'
      BY <1>3, <2>1 DEF OneWinner
    <2>3. FirstResultWins'
      BY <1>3, <2>1 DEF FirstResultWins
    <2> QED
      BY <1>1, <2>2, <2>3
  <1> QED
    BY <1>2, <1>3

LEMMA CallerIInv ==
  ASSUME IInv, NEW c \in Callers, WaitForResult(c) \/ TimesOut(c) \/ Resumes(c)
  PROVE  IInv'
  <1> USE DEF IInv, PaymentTypeOK, Outcomes, Pending
  <1>1. CASE WaitForResult(c)
    <2>1. PaymentTypeOK'
      BY <1>1 DEF WaitForResult
    <2>2. OneWinner'
      BY <1>1 DEF WaitForResult, OneWinner
    <2>3. FirstResultWins'
      BY <1>1 DEF WaitForResult, OneWinner, FirstResultWins
    <2> QED
      BY <2>1, <2>2, <2>3
  <1>2. CASE TimesOut(c)
    BY <1>2 DEF TimesOut, OneWinner, FirstResultWins
  <1>3. CASE Resumes(c)
    <2>1. result # Pending
      BY <1>3 DEF Resumes, OneWinner
    <2> QED
      BY <1>3, <2>1 DEF Resumes, OneWinner, FirstResultWins
  <1> QED
    BY <1>1, <1>2, <1>3

LEMMA NextIInv == IInv /\ [PaymentNext]_paymentVars => IInv'
  <1> SUFFICES ASSUME IInv, [PaymentNext]_paymentVars PROVE IInv'
    OBVIOUS
  <1>1. CASE UNCHANGED paymentVars
    BY <1>1 DEF paymentVars, IInv, PaymentTypeOK, OneWinner, FirstResultWins
  <1> QED
    BY <1>1, MarkIInv, CallerIInv DEF PaymentNext

LEMMA SpecIInv == PaymentSpec => []IInv
  BY InitIInv, NextIInv, PTL DEF PaymentSpec

-----------------------------------------------------------------------------
(* One marker is told to have set the result, every caller that returns a  *)
(* result returns that marker's, and none waits for an event that was set  *)
(* (mark_succeeded:55-61, wait_for_result:92-95).                          *)
THEOREM FirstWins == PaymentSpec => []FirstResultWins
  BY SpecIInv, PTL DEF IInv

(* A caller that resumes always finds a result: the RuntimeError of        *)
(* wait_for_result is unreachable (wait_for_result:93-94).                 *)
THEOREM WokenFindResult ==
  PaymentSpec => [](\A c \in Callers : caller[c] = "woken" => result # Pending)
  <1>1. IInv => \A c \in Callers : caller[c] = "woken" => result # Pending
    BY DEF IInv, OneWinner
  <1> QED
    BY <1>1, SpecIInv, PTL

-----------------------------------------------------------------------------
(* PermitPool                                                              *)

Exclusive ==
  /\ \A j, k \in DOMAIN free : free[j] = free[k] => j = k
  /\ \A t, u \in Threads : permit[t] = permit[u] /\ permit[t] # NoPermit => t = u
  /\ \A t \in Threads, k \in DOMAIN free : permit[t] # free[k]
  /\ \A p \in Permits : \/ \E k \in DOMAIN free : free[k] = p
                        \/ \E t \in Threads : permit[t] = p

HoldersHold == \A t \in Threads : permit[t] # NoPermit <=> thread[t] = "holding"

Held == PoolTypeOK /\ Exclusive /\ HoldersHold

-----------------------------------------------------------------------------
(* Sequences: what remains after Head, and what Append adds.               *)
LEMMA TailIs ==
  ASSUME NEW S, NEW s \in Seq(S), s # <<>>
  PROVE  /\ Tail(s) \in Seq(S) /\ Head(s) \in S /\ Head(s) = s[1] /\ 1 \in DOMAIN s
         /\ Len(Tail(s)) = Len(s) - 1 /\ Len(s) \in Nat \ {0}
         /\ DOMAIN s = 1 .. Len(s) /\ DOMAIN Tail(s) = 1 .. Len(s) - 1
         /\ \A k \in DOMAIN Tail(s) : Tail(s)[k] = s[k + 1] /\ k + 1 \in DOMAIN s
  OBVIOUS

LEMMA AppendIs ==
  ASSUME NEW S, NEW s \in Seq(S), NEW e \in S
  PROVE  /\ Append(s, e) \in Seq(S) /\ Len(Append(s, e)) = Len(s) + 1 /\ Len(s) \in Nat
         /\ DOMAIN s = 1 .. Len(s) /\ DOMAIN Append(s, e) = 1 .. Len(s) + 1
         /\ \A k \in DOMAIN s : Append(s, e)[k] = s[k]
         /\ Append(s, e)[Len(s) + 1] = e
  OBVIOUS

LEMMA PermitsAre == Permits = {n \in Nat : 1 <= n /\ n <= Capacity} /\ NoPermit \notin Permits
  BY DEF Permits, NoPermit

LEMMA InitHeld == PoolAssumption /\ PoolInit => Held
  <1> SUFFICES ASSUME PoolAssumption, PoolInit PROVE Held
    OBVIOUS
  <1>1. free \in Seq(Permits) /\ DOMAIN free = Permits
    BY DEF PoolAssumption, PoolInit, Permits
  <1>2. \A t \in Threads : permit[t] = NoPermit
    BY DEF PoolInit
  <1>3. \A k \in Permits : free[k] = k
    BY DEF PoolInit
  <1>4. PoolTypeOK /\ HoldersHold
    BY <1>1, <1>2 DEF PoolInit, PoolTypeOK, HoldersHold
  <1>5. Exclusive
    BY <1>1, <1>2, <1>3, PermitsAre DEF Exclusive
  <1> QED
    BY <1>4, <1>5 DEF Held

LEMMA TakeHeld ==
  ASSUME Held, NEW t \in Threads, permit[t] = NoPermit, Take(t)
  PROVE  Held'
  <1> USE DEF Held, PoolTypeOK
  <1>1. /\ free' = Tail(free) /\ permit' = [permit EXCEPT ![t] = free[1]]
        /\ free[1] \in Permits /\ 1 \in DOMAIN free
        /\ \A k \in DOMAIN free' : free'[k] = free[k + 1] /\ k + 1 \in DOMAIN free
        /\ DOMAIN free = 1 .. Len(free) /\ DOMAIN free' = 1 .. Len(free) - 1
        /\ Len(free) \in Nat \ {0}
    BY TailIs DEF Take
  <1>2. PoolTypeOK'
    BY <1>1, TailIs DEF Take
  <1>3. HoldersHold'
    BY <1>1, PermitsAre DEF HoldersHold, Take
  <1>4. \A j, k \in DOMAIN free' : free'[j] = free'[k] => j = k
    BY <1>1 DEF Exclusive
  <1>5. \A u, v \in Threads : permit'[u] = permit'[v] /\ permit'[u] # NoPermit => u = v
    BY <1>1 DEF Exclusive
  <1>6. \A u \in Threads, k \in DOMAIN free' : permit'[u] # free'[k]
    BY <1>1 DEF Exclusive
  <1>7. ASSUME NEW p \in Permits
        PROVE  (\E k \in DOMAIN free' : free'[k] = p) \/ (\E u \in Threads : permit'[u] = p)
    <2>1. CASE p = free[1]
      BY <1>1, <2>1
    <2>2. CASE \E k \in DOMAIN free : free[k] = p /\ k # 1
      <3>1. PICK k \in DOMAIN free : free[k] = p /\ k # 1
        BY <2>2
      <3>2. k - 1 \in DOMAIN free' /\ free'[k - 1] = p
        BY <1>1, <3>1
      <3> QED
        BY <3>2
    <2>3. CASE \E u \in Threads : permit[u] = p
      BY <1>1, <2>3, PermitsAre
    <2> QED
      BY <2>1, <2>2, <2>3 DEF Exclusive
  <1> QED
    BY <1>2, <1>3, <1>4, <1>5, <1>6, <1>7 DEF Exclusive

LEMMA GiveBackHeld ==
  ASSUME Held, NEW t \in Threads, GiveBack(t)
  PROVE  Held'
  <1> USE DEF Held, PoolTypeOK
  <1>1. permit[t] \in Permits
    BY DEF GiveBack, HoldersHold
  <1>2. /\ free' = Append(free, permit[t]) /\ permit' = [permit EXCEPT ![t] = NoPermit]
        /\ \A k \in DOMAIN free : free'[k] = free[k]
        /\ free'[Len(free) + 1] = permit[t]
        /\ DOMAIN free = 1 .. Len(free) /\ DOMAIN free' = 1 .. Len(free) + 1
        /\ Len(free) \in Nat
    BY <1>1, AppendIs DEF GiveBack
  <1>3. PoolTypeOK'
    BY <1>1, AppendIs DEF GiveBack, NotifyOne
  <1>4. HoldersHold'
    BY <1>2 DEF HoldersHold, GiveBack
  <1>5. \A k \in DOMAIN free' : k \in DOMAIN free \/ k = Len(free) + 1
    BY <1>2
  <1>6. \A j, k \in DOMAIN free' : free'[j] = free'[k] => j = k
    BY <1>2, <1>5 DEF Exclusive
  <1>7. \A u, v \in Threads : permit'[u] = permit'[v] /\ permit'[u] # NoPermit => u = v
    BY <1>2 DEF Exclusive
  <1>8. \A u \in Threads, k \in DOMAIN free' : permit'[u] # free'[k]
    BY <1>1, <1>2, <1>3, <1>5, PermitsAre DEF Exclusive
  <1>9. ASSUME NEW p \in Permits
        PROVE  (\E k \in DOMAIN free' : free'[k] = p) \/ (\E u \in Threads : permit'[u] = p)
    <2>1. CASE p = permit[t]
      BY <1>2, <2>1
    <2>2. CASE \E k \in DOMAIN free : free[k] = p
      BY <1>2, <2>2
    <2>3. CASE \E u \in Threads \ {t} : permit[u] = p
      BY <1>2, <2>3
    <2> QED
      BY <2>1, <2>2, <2>3 DEF Exclusive
  <1> QED
    BY <1>3, <1>4, <1>6, <1>7, <1>8, <1>9 DEF Exclusive

LEMMA NextHeld == Held /\ [PoolNext]_poolVars => Held'
  <1> SUFFICES ASSUME Held, [PoolNext]_poolVars PROVE Held'
    OBVIOUS
  <1>1. ASSUME UNCHANGED <<free, permit>>, PoolTypeOK', HoldersHold' PROVE Held'
    BY <1>1 DEF Held, Exclusive
  <1>2. ASSUME NEW t \in Threads, Call(t) \/ Resume(t) PROVE Held'
    <2>1. permit[t] = NoPermit
      BY <1>2 DEF Call, Resume, Held, HoldersHold
    <2>2. CASE Take(t)
      BY <2>1, <2>2, TakeHeld
    <2>3. CASE FallAsleep(t) \/ Refuse(t)
      BY <1>1, <2>1, <2>3 DEF FallAsleep, Refuse, Held, PoolTypeOK, HoldersHold
    <2> QED
      BY <1>2, <2>2, <2>3 DEF Call, Resume
  <1>3. ASSUME NEW t \in Threads, Expire(t) PROVE Held'
    BY <1>1, <1>3 DEF Expire, Held, PoolTypeOK, HoldersHold
  <1>4. CASE UNCHANGED poolVars
    BY <1>1, <1>4 DEF poolVars, Held, PoolTypeOK, HoldersHold
  <1> QED
    BY <1>2, <1>3, <1>4, GiveBackHeld DEF PoolNext

LEMMA SpecHeld == ASSUME PoolAssumption PROVE PoolSpec => []Held
  <1>1. PoolInit => Held
    BY InitHeld
  <1> QED
    BY <1>1, NextHeld, PTL DEF PoolSpec

-----------------------------------------------------------------------------
(* A set with exactly one element of a kind, or none, counts as such.      *)
LEMMA CountOne ==
  ASSUME NEW S, NEW e \in S, \A x \in S : x = e
  PROVE  Cardinality(S) = 1
  <1>1. S = {e}
    OBVIOUS
  <1> QED
    BY <1>1, FS_Singleton

LEMMA HeldConserves == Held => PermitsConserved
  <1> SUFFICES ASSUME Held, NEW p \in Permits
               PROVE  Cardinality({k \in DOMAIN free : free[k] = p})
                        + Cardinality({t \in Threads : permit[t] = p}) = 1
    BY DEF Held, HoldersHold, PermitsConserved
  <1> DEFINE F == {k \in DOMAIN free : free[k] = p}
             H == {t \in Threads : permit[t] = p}
  <1> USE DEF Held, Exclusive
  <1>1. CASE \E k \in DOMAIN free : free[k] = p
    <2>1. H = {}
      BY <1>1
    <2>2. Cardinality(F) = 1
      <3>1. PICK k \in DOMAIN free : free[k] = p
        BY <1>1
      <3>2. k \in F /\ \A j \in F : j = k
        BY <3>1
      <3> QED
        BY <3>2, CountOne
    <2> QED
      BY <2>1, <2>2, FS_EmptySet
  <1>2. CASE \E t \in Threads : permit[t] = p
    <2>1. F = {}
      BY <1>2
    <2>2. p # NoPermit
      BY PermitsAre
    <2>3. Cardinality(H) = 1
      <3>1. PICK t \in Threads : permit[t] = p
        BY <1>2
      <3>2. t \in H /\ \A u \in H : u = t
        BY <2>2, <3>1
      <3> QED
        BY <3>2, CountOne
    <2> QED
      BY <2>1, <2>3, FS_EmptySet
  <1> QED
    BY <1>1, <1>2

(* Every permit is free or held by exactly one thread between its checkout *)
(* and its finally clause.                                                 *)
THEOREM PermitsAreConserved == ASSUME PoolAssumption PROVE PoolSpec => []PermitsConserved
  BY HeldConserves, SpecHeld, PTL

-----------------------------------------------------------------------------
LEMMA ComingFinite ==
  ASSUME PoolAssumption
  PROVE  IsFiniteSet(Coming) /\ Cardinality(Coming) \in Nat
  <1>1. Coming \subseteq Threads
    BY DEF Coming
  <1> QED
    BY <1>1, FS_Subset, FS_CardinalityType DEF PoolAssumption

LEMMA InitAwake == PoolInit => NobodySleepsInVain
  BY DEF PoolInit, NobodySleepsInVain

LEMMA TakeAwake ==
  ASSUME PoolAssumption, Held, NobodySleepsInVain, NEW t \in Threads,
         Call(t) \/ Resume(t), Take(t)
  PROVE  NobodySleepsInVain'
  <1> SUFFICES ASSUME sleepers' # {} PROVE Len(free') <= Cardinality(Coming')
    BY DEF NobodySleepsInVain
  <1>1. sleepers # {} /\ Len(free') = Len(free) - 1 /\ Len(free) \in Nat \ {0}
    BY TailIs DEF Take, Held, PoolTypeOK
  <1>2. Coming' = Coming \ {t}
    BY DEF Coming, Take, Held, PoolTypeOK
  <1>3. Cardinality(Coming') >= Cardinality(Coming) - 1 /\ Cardinality(Coming') \in Nat
    <2>1. CASE t \in Coming
      <3>1. Cardinality(Coming \ {t}) = Cardinality(Coming) - 1
        BY <2>1, ComingFinite, FS_RemoveElement
      <3>2. IsFiniteSet(Coming \ {t})
        BY ComingFinite, FS_Subset
      <3>3. Cardinality(Coming \ {t}) \in Nat
        BY <3>2, FS_CardinalityType
      <3> QED
        BY <1>2, <3>1, <3>3, ComingFinite
    <2>2. CASE t \notin Coming
      <3>1. Coming' = Coming
        BY <1>2, <2>2
      <3> QED
        BY <3>1, ComingFinite
    <2> QED
      BY <2>1, <2>2
  <1> QED
    BY <1>1, <1>3, ComingFinite DEF NobodySleepsInVain

LEMMA GiveBackAwake ==
  ASSUME PoolAssumption, Held, NobodySleepsInVain, NEW t \in Threads, GiveBack(t)
  PROVE  NobodySleepsInVain'
  <1> SUFFICES ASSUME sleepers' # {} PROVE Len(free') <= Cardinality(Coming')
    BY DEF NobodySleepsInVain
  <1>1. permit[t] \in Permits
    BY DEF GiveBack, Held, HoldersHold, PoolTypeOK
  <1>2. Len(free') = Len(free) + 1 /\ Len(free) \in Nat
    BY <1>1, AppendIs DEF GiveBack, Held, PoolTypeOK
  <1>3. PICK u \in sleepers : sleepers' = sleepers \ {u}
    BY DEF GiveBack, NotifyOne
  <1>4. u \in Threads /\ u # t /\ thread[u] \in {"waiting", "late"}
    BY <1>3 DEF Held, PoolTypeOK, GiveBack
  <1>5. Coming' = Coming \cup {u} /\ u \notin Coming
    BY <1>3, <1>4 DEF Coming, GiveBack, Held, PoolTypeOK
  <1>6. Cardinality(Coming') = Cardinality(Coming) + 1
    BY <1>5, ComingFinite, FS_AddElement
  <1> QED
    BY <1>2, <1>3, <1>6, ComingFinite DEF NobodySleepsInVain

LEMMA NextAwake ==
  PoolAssumption /\ Held /\ NobodySleepsInVain /\ [PoolNext]_poolVars => NobodySleepsInVain'
  <1> SUFFICES ASSUME PoolAssumption, Held, NobodySleepsInVain, [PoolNext]_poolVars
               PROVE  NobodySleepsInVain'
    OBVIOUS
  <1>1. ASSUME NEW t \in Threads, FallAsleep(t) \/ Refuse(t) PROVE NobodySleepsInVain'
    <2>1. IsFiniteSet(Coming') /\ Coming' \subseteq Threads
      BY FS_Subset DEF Coming, PoolAssumption
    <2>2. Len(free') = 0 /\ Cardinality(Coming') \in Nat
      BY <1>1, <2>1, FS_CardinalityType DEF FallAsleep, Refuse
    <2> QED
      BY <2>2 DEF NobodySleepsInVain
  <1>2. ASSUME NEW t \in Threads, Expire(t) PROVE NobodySleepsInVain'
    <2>1. Coming' = Coming
      BY <1>2 DEF Expire, Coming, Held, PoolTypeOK
    <2> QED
      BY <1>2, <2>1 DEF Expire, NobodySleepsInVain
  <1>3. ASSUME NEW t \in Threads, Call(t) \/ Resume(t) PROVE NobodySleepsInVain'
    BY <1>1, <1>3, TakeAwake DEF Call, Resume
  <1>4. CASE UNCHANGED poolVars
    BY <1>4 DEF poolVars, NobodySleepsInVain, Coming
  <1> QED
    BY <1>2, <1>3, <1>4, GiveBackAwake DEF PoolNext

(* While a thread sleeps, every free permit has a thread coming for it:    *)
(* no notification is lost to barging takers or expired timeouts.          *)
THEOREM NobodyLeftAsleep == ASSUME PoolAssumption PROVE PoolSpec => []NobodySleepsInVain
  <1>1. Held /\ NobodySleepsInVain /\ [PoolNext]_poolVars => NobodySleepsInVain'
    BY NextAwake
  <1> QED
    BY <1>1, InitAwake, SpecHeld, PTL DEF PoolSpec

-----------------------------------------------------------------------------
(* ReviewBatch                                                             *)

BatchIInv == Batch!TypeOK /\ Batch!NobodySleepsOnApproved

LEMMA InitBatch == Batch!Init => BatchIInv
  BY DEF Batch!Init, BatchIInv, Batch!TypeOK, Batch!NobodySleepsOnApproved

LEMMA ApproveBatch ==
  ASSUME BatchIInv, NEW r \in Reviewers, Batch!Approve(r)
  PROVE  /\ BatchIInv'
         /\ \A w \in Waiters : waiter'[w] # waiter[w] => waiter'[w] = "notified"
  BY DEF BatchIInv, Batch!Approve, Batch!NotifyAll, Batch!TypeOK,
         Batch!NobodySleepsOnApproved

(* A waiter that moves goes to sleep only on a batch that is not approved, *)
(* and answers what holds then.                                            *)
LEMMA WaiterBatch ==
  ASSUME BatchIInv, NEW w \in Waiters, Batch!WaitUntilApproved(w)
  PROVE  /\ BatchIInv'
         /\ \A v \in Waiters : waiter'[v] # waiter[v] =>
              /\ waiter'[v] = "true" => Batch!IsApproved'
              /\ waiter'[v] = "false" /\ kind = "threads" => ~Batch!IsApproved'
  <1> USE DEF BatchIInv, Batch!Moves
  <1>1. PICK s \in {"waiting", "late", "true", "false"} :
          /\ waiter' = [waiter EXCEPT ![w] = s] /\ UNCHANGED <<kind, approved>>
          /\ s = "waiting" => ~Batch!IsApproved
          /\ s = "true" => Batch!IsApproved
          /\ s = "false" /\ kind = "threads" => ~Batch!IsApproved
    BY DEF Batch!WaitUntilApproved, Batch!Wait, Batch!Expire, Batch!ResumeNotified,
           Batch!ResumeLate
  <1>2. Batch!IsApproved' = Batch!IsApproved
    BY <1>1 DEF Batch!IsApproved
  <1>3. Batch!TypeOK'
    BY <1>1 DEF Batch!TypeOK
  <1>4. Batch!NobodySleepsOnApproved'
    BY <1>1, <1>2 DEF Batch!TypeOK, Batch!NobodySleepsOnApproved
  <1> QED
    BY <1>1, <1>2, <1>3, <1>4 DEF Batch!TypeOK

LEMMA NextBatch == BatchIInv /\ [Batch!Next]_batchVars => BatchIInv'
  <1> SUFFICES ASSUME BatchIInv, [Batch!Next]_batchVars PROVE BatchIInv'
    OBVIOUS
  <1>1. CASE UNCHANGED batchVars
    BY <1>1 DEF batchVars, BatchIInv, Batch!TypeOK, Batch!NobodySleepsOnApproved,
                Batch!IsApproved
  <1> QED
    BY <1>1, ApproveBatch, WaiterBatch DEF Batch!Next

-----------------------------------------------------------------------------
(* The run checks the components side by side as each is specified: what   *)
(* is proved of a component holds in the run.                              *)
LEMMA RunTakesTheirSteps ==
  MCSpec => /\ Spec /\ PaymentSpec /\ PoolSpec
            /\ Batch!Init /\ [][Batch!Next]_batchVars
  <1>1. MCInit => Init /\ PaymentInit /\ PoolInit /\ Batch!Init
    BY DEF MCInit
  <1>2. [MCNext]_MCVars => /\ [Next]_gateVars /\ [PaymentNext]_paymentVars
                           /\ [PoolNext]_poolVars /\ [Batch!Next]_batchVars
    BY DEF MCNext, MCVars
  <1> QED
    BY <1>1, <1>2, PTL DEF MCSpec, Spec, PaymentSpec, PoolSpec

(* Nobody sleeps in the wait set of an approved batch, however approvals,  *)
(* timeouts and new waiters race; and all four components keep their types *)
(* (approve:48, wait_until_approved:53).                                   *)
THEOREM NobodySleepsOnABatch == MCSpec => []BatchNobodySleeps
  <1>1. MCSpec => []TypeOK /\ []PaymentTypeOK /\ []PoolTypeOK /\ []BatchIInv
    BY RunTakesTheirSteps, TypeCorrect, SpecIInv, SpecHeld, InitBatch, NextBatch,
       WaitingAssumption, PTL DEF IInv, Held
  <1> QED
    BY <1>1, PTL DEF BatchNobodySleeps, TypesOK, BatchIInv

(* Answers of a batch are never stale: True is returned only when it is    *)
(* approved, and a thread's False only when it is not                      *)
(* (wait_until_approved:53, both classes).                                 *)
THEOREM BatchAnswersTruly == MCSpec => BatchAnswersAreCurrent
  <1>1. BatchIInv /\ [Batch!Next]_batchVars
          => [\A w \in Waiters : waiter'[w] # waiter[w] =>
                /\ waiter'[w] = "true" => Batch!IsApproved'
                /\ waiter'[w] = "false" /\ kind = "threads"
                     => ~Batch!IsApproved']_batchVars
    BY ApproveBatch, WaiterBatch DEF Batch!Next
  <1> QED
    BY <1>1, RunTakesTheirSteps, InitBatch, NextBatch, PTL
    DEF BatchAnswersAreCurrent, Batch!AnswersAreCurrent, batchVars, Batch!vars
=============================================================================
