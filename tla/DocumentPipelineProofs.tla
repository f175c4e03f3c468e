----------------------- MODULE DocumentPipelineProofs -----------------------
(* What DocumentPipeline guarantees for every number of stages, documents  *)
(* and closing threads.                                                    *)
EXTENDS DocumentPipeline, FiniteSetTheorems, TLAPS

(* Whatever is in flight was accepted, or is the sentinel of a close.      *)
Accounted ==
  /\ \A i \in Stages : \A x \in InFlight(i) :
       x \in 1 .. accepted \/ (x = Sentinel /\ closed)
  /\ Published \subseteq 1 .. accepted
  /\ Failed \subseteq 1 .. accepted

(* A failed document goes no further. *)
FailedStops ==
  \A d \in Failed : d \notin Published /\ \A i \in Stages : d \notin InFlight(i)

(* A worker that returned left nothing in flight at or before its stage.   *)
StoppedLast ==
  \A i \in Stages : worker[i] = "stopped" =>
    closed /\ \A j \in Stages : j <= i => InFlight(j) = {}

IInv == TypeOK /\ InOrder /\ Accounted /\ FailedStops /\ StoppedLast

(* The documents that are settled or in flight. *)
Whereabouts ==
  Documents \cap (Published \cup Failed \cup UNION {InFlight(i) : i \in Stages})

(* The two facts that hold only while no stage ends its worker thread:     *)
(* nothing is lost, and a True answer of close means every worker returned.*)
Kept ==
  /\ \A i \in Stages : worker[i] # "dead"
  /\ 1 .. accepted \subseteq Whereabouts
  /\ \A c \in Closers : closer[c] = "true" => AllStopped

-----------------------------------------------------------------------------
(* Queues as sequences of numbers: put appends, get takes the head.        *)

LEMMA AppendItems ==
  ASSUME NEW S, NEW s \in Seq(S), NEW x \in S
  PROVE  /\ Append(s, x) \in Seq(S)
         /\ Items(Append(s, x)) = Items(s) \cup {x}
<1>1. Append(s, x) \in Seq(S) /\ Len(Append(s, x)) = Len(s) + 1
  OBVIOUS
<1>2. \A k \in 1 .. Len(s) : Append(s, x)[k] = s[k]
  OBVIOUS
<1>3. Append(s, x)[Len(s) + 1] = x
  OBVIOUS
<1>4. DOMAIN s = 1 .. Len(s) /\ DOMAIN Append(s, x) = 1 .. (Len(s) + 1)
  BY <1>1
<1>5. 1 .. (Len(s) + 1) = (1 .. Len(s)) \cup {Len(s) + 1}
  OBVIOUS
<1>6. QED BY <1>1, <1>2, <1>3, <1>4, <1>5 DEF Items

LEMMA AppendIncreasing ==
  ASSUME NEW S \in SUBSET Int, NEW s \in Seq(S), NEW x \in S,
         Increasing(s), \A y \in Items(s) : y < x
  PROVE  Increasing(Append(s, x))
<1>1. /\ DOMAIN s = 1 .. Len(s)
      /\ DOMAIN Append(s, x) = 1 .. (Len(s) + 1)
      /\ \A k \in 1 .. Len(s) : Append(s, x)[k] = s[k]
      /\ Append(s, x)[Len(s) + 1] = x
  OBVIOUS
<1>2. ASSUME NEW k \in 1 .. (Len(s) + 1), NEW l \in 1 .. (Len(s) + 1), k < l
      PROVE  Append(s, x)[k] < Append(s, x)[l]
  <2>1. k \in 1 .. Len(s)
    BY <1>2
  <2>2. CASE l = Len(s) + 1
    BY <1>1, <2>1, <2>2 DEF Items
  <2>3. CASE l \in 1 .. Len(s)
    BY <1>1, <1>2, <2>1, <2>3 DEF Increasing
  <2>4. QED BY <2>2, <2>3
<1>3. QED BY <1>1, <1>2 DEF Increasing

LEMMA HeadOfIncreasing ==
  ASSUME NEW S \in SUBSET Int, NEW s \in Seq(S), s # <<>>, Increasing(s)
  PROVE  /\ Head(s) \in S /\ Tail(s) \in Seq(S)
         /\ Items(s) = {Head(s)} \cup Items(Tail(s))
         /\ \A y \in Items(Tail(s)) : Head(s) < y
         /\ Increasing(Tail(s))
<1>1. /\ Len(s) \in Nat \ {0}
      /\ DOMAIN s = 1 .. Len(s)
      /\ Head(s) = s[1] /\ s[1] \in S
      /\ Tail(s) \in Seq(S)
      /\ DOMAIN Tail(s) = 1 .. (Len(s) - 1)
      /\ \A k \in 1 .. (Len(s) - 1) : Tail(s)[k] = s[k + 1]
  OBVIOUS
<1>2. Items(s) = {Head(s)} \cup Items(Tail(s))
  <2>1. \A k \in 1 .. Len(s) : k = 1 \/ k - 1 \in 1 .. (Len(s) - 1)
    BY <1>1
  <2>2. \A k \in 1 .. Len(s) : k # 1 => s[k] = Tail(s)[k - 1]
    BY <1>1, <2>1
  <2>3. \A k \in 1 .. (Len(s) - 1) : k + 1 \in 1 .. Len(s)
    BY <1>1
  <2>4. 1 \in 1 .. Len(s)
    BY <1>1
  <2>5. ASSUME NEW k \in 1 .. Len(s)
        PROVE  s[k] \in {Head(s)} \cup Items(Tail(s))
    BY <1>1, <2>1, <2>2 DEF Items
  <2>6. {Head(s)} \cup Items(Tail(s)) \subseteq Items(s)
    BY <1>1, <2>3, <2>4 DEF Items
  <2>7. QED BY <1>1, <2>5, <2>6 DEF Items
<1>3. \A y \in Items(Tail(s)) : Head(s) < y
  BY <1>1 DEF Items, Increasing
<1>4. Increasing(Tail(s))
  BY <1>1 DEF Increasing
<1>5. QED BY <1>1, <1>2, <1>3, <1>4

-----------------------------------------------------------------------------
(* The steps of the pipeline.                                              *)

Numbers == Documents \cup {Sentinel}

LEMMA NumberFacts ==
  /\ Numbers \in SUBSET Int /\ Numbers = 1 .. (MaxDocuments + 1)
  /\ \A x \in Numbers : x # Nothing /\ (x = Sentinel \/ x < Sentinel)
  /\ Sentinel \notin Documents
  BY PipelineAssumption DEF Numbers, Documents, Sentinel, Nothing

LEMMA InitIInv == Init => IInv
<1> SUFFICES ASSUME Init PROVE IInv
  OBVIOUS
<1> USE PipelineAssumption DEF Init
<1>1. \A i \in Stages : InFlight(i) = {}
  BY DEF InFlight, InQueue, Items
<1>2. Published = {} /\ Failed = {}
  BY DEF Published, Items, Failed
<1>3. TypeOK
  <2>1. <<>> \in Seq(Documents \cup {Sentinel}) /\ <<>> \in Seq(Documents)
        /\ <<>> \in Seq(Documents \X Stages)
    OBVIOUS
  <2>2. accepted \in 0 .. MaxDocuments
    OBVIOUS
  <2>2a. closed \in BOOLEAN
    BY Zenon
  <2>3. queues \in [Stages -> Seq(Documents \cup {Sentinel})]
    BY <2>1
  <2>4. held \in [Stages -> Documents \cup {Sentinel, Nothing}]
    OBVIOUS
  <2>5. worker \in [Stages -> {"running", "stopped", "dead"}]
    OBVIOUS
  <2>6. results \in Seq(Documents) /\ failures \in Seq(Documents \X Stages)
    BY <2>1
  <2>7. QED BY <2>2, <2>3, <2>4, <2>5, <2>6, <2>2a DEF TypeOK
<1>4. InOrder
  BY <1>1, <1>2 DEF InOrder, Increasing, InQueue, Items
<1>5. Accounted /\ FailedStops /\ StoppedLast
  BY <1>1, <1>2 DEF Accounted, FailedStops, StoppedLast
<1>6. QED BY <1>3, <1>4, <1>5 DEF IInv

LEMMA SubmitIInv == ASSUME IInv, Submit PROVE IInv'
<1> USE PipelineAssumption, NumberFacts DEF IInv
<1> DEFINE d == accepted + 1
<1>1. /\ d \in Documents /\ d \in Numbers /\ accepted' = d /\ ~closed
      /\ 1 \in Stages
  BY DEF Submit, Accepting, TypeOK, Numbers, Documents, Stages
<1>2. /\ queues'[1] = Append(queues[1], d)
      /\ \A i \in Stages : i # 1 => queues'[i] = queues[i]
      /\ queues[1] \in Seq(Numbers)
      /\ UNCHANGED <<closed, held, worker, results, failures, closer>>
  BY <1>1 DEF Submit, Put, TypeOK, Numbers
<1>3. /\ InQueue(1)' = InQueue(1) \cup {d} /\ queues'[1] \in Seq(Numbers)
      /\ \A i \in Stages : i # 1 => InQueue(i)' = InQueue(i)
  BY <1>1, <1>2, AppendItems DEF InQueue
<1>4. /\ InFlight(1)' = InFlight(1) \cup {d}
      /\ \A i \in Stages : i # 1 => InFlight(i)' = InFlight(i)
      /\ Published' = Published /\ Failed' = Failed
  BY <1>2, <1>3 DEF InFlight, Published, Failed
<1>5. /\ \A i \in Stages : \A x \in InFlight(i) : x \in 1 .. accepted
      /\ \A x \in 1 .. accepted : x < d
  BY <1>1 DEF Accounted, TypeOK
<1>6. TypeOK'
  BY <1>1, <1>2, <1>3 DEF TypeOK, Submit, Put, Numbers, Documents
<1>7. InOrder'
  <2>1. Increasing(queues'[1])
    <3>1. \A y \in Items(queues[1]) : y < d
      BY <1>1, <1>5 DEF InFlight, InQueue
    <3>2. Increasing(queues[1])
      BY <1>1 DEF InOrder
    <3>3. QED BY <1>1, <1>2, <3>1, <3>2, AppendIncreasing
  <2>2. \A i \in Stages : Increasing(queues'[i])
    BY <1>2, <2>1 DEF InOrder
  <2>3. ASSUME NEW i \in Stages, held[i] # Nothing
        PROVE  \A x \in InQueue(i)' : held[i] < x
    <3>1. held[i] < d
      BY <1>5, <2>3 DEF InFlight
    <3>2. \A x \in InQueue(i) : held[i] < x
      BY <2>3 DEF InOrder
    <3>3. QED BY <1>3, <3>1, <3>2
  <2>4. ASSUME NEW i \in Stages, NEW x \in InFlight(i)'
        PROVE  \A e \in Published : e < x
    BY <1>4, <1>5, <2>4 DEF InOrder, Accounted
  <2>5. ASSUME NEW i \in Stages, NEW x \in InFlight(i)',
               NEW j \in Stages, i < j, NEW y \in InFlight(j)'
        PROVE  y < x
    BY <1>4, <1>5, <2>5 DEF InOrder, Stages
  <2>6. QED BY <1>2, <1>4, <2>2, <2>3, <2>4, <2>5 DEF InOrder
<1>8. Accounted'
  <2>1. 1 .. accepted \subseteq 1 .. d /\ d \in 1 .. d
    BY <1>1 DEF TypeOK
  <2>2. QED BY <1>1, <1>2, <1>4, <1>5, <2>1 DEF Accounted
<1>9. FailedStops'
  BY <1>1, <1>4, <1>5 DEF FailedStops, Accounted
<1>10. StoppedLast'
  BY <1>1, <1>2 DEF StoppedLast
<1>11. QED BY <1>6, <1>7, <1>8, <1>9, <1>10

(* close marks the pipeline closed, and its first call puts the sentinel    *)
(* behind everything accepted.                                             *)
LEMMA BeginCloseIInv ==
  ASSUME IInv, NEW c \in Closers, BeginClose(c) PROVE IInv'
<1> USE PipelineAssumption, NumberFacts DEF IInv
<1>1. /\ closed' = TRUE /\ 1 \in Stages /\ Sentinel \in Numbers
      /\ UNCHANGED <<accepted, held, worker, results, failures>>
      /\ closer' \in [Closers -> {"idle", "joining", "true", "false"}]
  BY DEF BeginClose, Stages, Numbers, TypeOK
<1>2. Published' = Published /\ Failed' = Failed
  BY <1>1 DEF Published, Failed
<1>3. CASE closed
  <2>1. queues' = queues
    BY <1>3 DEF BeginClose
  <2>2. \A i \in Stages : InQueue(i)' = InQueue(i) /\ InFlight(i)' = InFlight(i)
    BY <1>1, <2>1 DEF InQueue, InFlight
  <2>3. TypeOK'
    BY <1>1, <2>1 DEF TypeOK
  <2>4. InOrder'
    BY <1>1, <1>2, <2>1, <2>2 DEF InOrder
  <2>5. Accounted' /\ FailedStops' /\ StoppedLast'
    BY <1>1, <1>2, <2>2 DEF Accounted, FailedStops, StoppedLast
  <2>6. QED BY <2>3, <2>4, <2>5
<1>4. CASE ~closed
  <2>1. /\ queues'[1] = Append(queues[1], Sentinel)
        /\ \A i \in Stages : i # 1 => queues'[i] = queues[i]
        /\ queues[1] \in Seq(Numbers)
        /\ queues' = [queues EXCEPT ![1] = Append(@, Sentinel)]
    BY <1>1, <1>4 DEF BeginClose, Put, TypeOK, Numbers
  <2>2. /\ InQueue(1)' = InQueue(1) \cup {Sentinel} /\ queues'[1] \in Seq(Numbers)
        /\ \A i \in Stages : i # 1 => InQueue(i)' = InQueue(i)
    BY <1>1, <2>1, AppendItems DEF InQueue
  <2>3. /\ InFlight(1)' = InFlight(1) \cup {Sentinel}
        /\ \A i \in Stages : i # 1 => InFlight(i)' = InFlight(i)
    BY <1>1, <2>2 DEF InFlight
  <2>4. /\ \A i \in Stages : \A x \in InFlight(i) : x \in 1 .. accepted
        /\ \A x \in 1 .. accepted : x < Sentinel
    BY <1>4 DEF Accounted, TypeOK, Sentinel
  <2>5. TypeOK'
    BY <1>1, <2>1, <2>2 DEF TypeOK, Numbers
  <2>6. InOrder'
    <3>1. Increasing(queues'[1])
      <4>1. \A y \in Items(queues[1]) : y < Sentinel
        BY <1>1, <2>4 DEF InFlight, InQueue
      <4>2. Increasing(queues[1])
        BY <1>1 DEF InOrder
      <4>3. QED BY <1>1, <2>1, <4>1, <4>2, AppendIncreasing
    <3>2. \A i \in Stages : Increasing(queues'[i])
      BY <2>1, <3>1 DEF InOrder
    <3>3. ASSUME NEW i \in Stages, held[i] # Nothing
          PROVE  \A x \in InQueue(i)' : held[i] < x
      <4>1. held[i] < Sentinel
        BY <2>4, <3>3 DEF InFlight
      <4>2. \A x \in InQueue(i) : held[i] < x
        BY <3>3 DEF InOrder
      <4>3. QED BY <2>2, <4>1, <4>2
    <3>4. ASSUME NEW i \in Stages, NEW x \in InFlight(i)'
          PROVE  \A e \in Published : e < x
      BY <2>3, <2>4, <3>4 DEF InOrder, Accounted
    <3>5. ASSUME NEW i \in Stages, NEW x \in InFlight(i)',
                 NEW j \in Stages, i < j, NEW y \in InFlight(j)'
          PROVE  y < x
      BY <2>3, <2>4, <3>5 DEF InOrder, Stages
    <3>6. QED BY <1>1, <1>2, <3>2, <3>3, <3>4, <3>5 DEF InOrder
  <2>7. Accounted'
    BY <1>1, <1>2, <2>3 DEF Accounted
  <2>8. FailedStops'
    BY <1>1, <1>2, <2>3, <2>4 DEF FailedStops, Accounted
  <2>9. StoppedLast'
    BY <1>1, <1>4 DEF StoppedLast
  <2>10. QED BY <2>5, <2>6, <2>7, <2>8, <2>9
<1>5. QED BY <1>3, <1>4

LEMMA EndCloseIInv ==
  ASSUME IInv, NEW c \in Closers, EndClose(c) PROVE IInv'
<1>1. /\ UNCHANGED <<accepted, closed, queues, held, worker, results, failures>>
      /\ closer' \in [Closers -> {"idle", "joining", "true", "false"}]
  BY DEF IInv, TypeOK, EndClose
<1>2. \A i \in Stages : InQueue(i)' = InQueue(i) /\ InFlight(i)' = InFlight(i)
  BY <1>1 DEF InQueue, InFlight
<1>3. Published' = Published /\ Failed' = Failed
  BY <1>1 DEF Published, Failed
<1>4. TypeOK'
  BY <1>1 DEF IInv, TypeOK
<1>5. InOrder'
  BY <1>1, <1>2, <1>3 DEF IInv, InOrder
<1>6. Accounted' /\ FailedStops' /\ StoppedLast'
  BY <1>1, <1>2, <1>3 DEF IInv, Accounted, FailedStops, StoppedLast
<1>7. QED BY <1>4, <1>5, <1>6 DEF IInv

LEMMA TakeIInv == ASSUME IInv, NEW i \in Stages, Take(i) PROVE IInv'
<1> USE NumberFacts DEF IInv
<1> DEFINE h == Head(queues[i])
<1>1. /\ held[i] = Nothing /\ queues[i] # <<>>
      /\ queues[i] \in Seq(Numbers) /\ Increasing(queues[i])
      /\ held'[i] = h /\ queues'[i] = Tail(queues[i])
      /\ \A j \in Stages : j # i => held'[j] = held[j] /\ queues'[j] = queues[j]
      /\ UNCHANGED <<accepted, closed, worker, results, failures, closer>>
  BY DEF Take, TypeOK, InOrder, Numbers
<1>2. /\ h \in Numbers /\ Tail(queues[i]) \in Seq(Numbers)
      /\ InQueue(i) = {h} \cup InQueue(i)'
      /\ \A y \in InQueue(i)' : h < y
      /\ Increasing(queues'[i])
  <2>1. /\ h \in Numbers /\ Tail(queues[i]) \in Seq(Numbers)
        /\ Items(queues[i]) = {h} \cup Items(Tail(queues[i]))
        /\ \A y \in Items(Tail(queues[i])) : h < y
        /\ Increasing(Tail(queues[i]))
    BY <1>1, HeadOfIncreasing
  <2>2. InQueue(i)' = Items(Tail(queues[i])) /\ InQueue(i) = Items(queues[i])
    BY <1>1 DEF InQueue
  <2>3. QED BY <1>1, <2>1, <2>2
<1>3. /\ \A j \in Stages : j # i => InQueue(j)' = InQueue(j)
      /\ \A j \in Stages : InFlight(j)' = InFlight(j)
      /\ Published' = Published /\ Failed' = Failed
  BY <1>1, <1>2 DEF InQueue, InFlight, Published, Failed
<1>4. TypeOK'
  BY <1>1, <1>2 DEF TypeOK, Take, Numbers
<1>5. InOrder'
  BY <1>1, <1>2, <1>3 DEF InOrder
<1>6. Accounted' /\ FailedStops' /\ StoppedLast'
  BY <1>1, <1>3 DEF Accounted, FailedStops, StoppedLast
<1>7. QED BY <1>4, <1>5, <1>6

(* A worker that lets go of its item without passing it on. *)
LEMMA ReleaseFacts ==
  ASSUME IInv, NEW i \in Stages, held[i] # Nothing, Release(i)
  PROVE  /\ held' \in [Stages -> Documents \cup {Sentinel, Nothing}]
         /\ held'[i] = Nothing
         /\ held[i] \in Numbers /\ held[i] \in InFlight(i)
         /\ \A x \in InQueue(i) : held[i] < x
         /\ \A j \in Stages : j # i => held'[j] = held[j]
         /\ InFlight(i) = {held[i]} \cup InQueue(i)
         /\ held[i] \notin InQueue(i)
         /\ \A j \in Stages : j # i => held[i] \notin InFlight(j)
<1> USE NumberFacts DEF IInv
<1>1. /\ held' = [held EXCEPT ![i] = Nothing]
      /\ held[i] \in Numbers /\ held[i] \in InFlight(i)
      /\ InFlight(i) = {held[i]} \cup InQueue(i)
      /\ \A x \in InQueue(i) : held[i] < x
  BY DEF Release, TypeOK, InFlight, InOrder, Numbers
<1>2. held[i] \notin InQueue(i)
  BY <1>1
<1>3. ASSUME NEW j \in Stages, j # i PROVE held[i] \notin InFlight(j)
  <2>1. i < j \/ j < i
    BY <1>3 DEF Stages
  <2>2. held[i] \in InFlight(j) => held[i] < held[i]
    BY <1>1, <2>1 DEF InOrder
  <2>3. QED BY <1>1, <2>2
<1>4. QED BY <1>1, <1>2, <1>3 DEF TypeOK

LEMMA DropIInv ==
  ASSUME IInv, NEW i \in Stages, held[i] # Nothing, Release(i),
         UNCHANGED <<accepted, closed, queues, results, closer>>,
         TypeOK', \A j \in Stages : worker'[j] = "stopped" => worker[j] = "stopped",
         Failed' \subseteq Failed \cup ({held[i]} \ {Sentinel})
  PROVE  IInv'
<1> USE NumberFacts DEF IInv
<1>1. /\ InFlight(i)' = InQueue(i)
      /\ \A j \in Stages : j # i => InFlight(j)' = InFlight(j)
      /\ \A j \in Stages : InQueue(j)' = InQueue(j)
      /\ Published' = Published
  BY ReleaseFacts DEF InFlight, InQueue, Published
<1>2. \A j \in Stages : InFlight(j)' \subseteq InFlight(j) /\ held[i] \notin InFlight(j)'
  BY <1>1, ReleaseFacts
<1>3. InOrder'
  BY <1>1, <1>2, ReleaseFacts DEF InOrder
<1>4. Accounted'
  BY <1>1, <1>2, ReleaseFacts DEF Accounted
<1>5. held[i] \notin Published
  <2>1. held[i] \in Published => held[i] < held[i]
    BY ReleaseFacts DEF InOrder
  <2>2. QED BY <2>1, ReleaseFacts
<1>6. FailedStops'
  BY <1>1, <1>2, <1>5 DEF FailedStops
<1>7. StoppedLast'
  BY <1>2 DEF StoppedLast
<1>8. QED BY <1>3, <1>4, <1>6, <1>7

LEMMA RecordFailureIInv ==
  ASSUME IInv, NEW i \in Stages, RecordFailure(i)
  PROVE  IInv' /\ Failed' = Failed \cup {held[i]}
<1> USE NumberFacts DEF IInv
<1> DEFINE f == <<held[i], i>>
<1>1. /\ held[i] \in Documents /\ held[i] \in Numbers /\ held[i] # Nothing
      /\ held[i] # Sentinel
      /\ Release(i) /\ failures' = Append(failures, f)
      /\ UNCHANGED <<accepted, closed, queues, worker, results, closer>>
  BY DEF RecordFailure, Running, Numbers
<1>2. failures \in Seq(Documents \X Stages) /\ f \in Documents \X Stages
  BY <1>1 DEF TypeOK
<1>3. failures' \in Seq(Documents \X Stages)
  BY <1>1, <1>2
<1>4. TypeOK'
  BY <1>1, <1>3, ReleaseFacts DEF TypeOK
<1>5. Items(failures') = Items(failures) \cup {f}
  BY <1>1, <1>2, AppendItems
<1>6. Failed = {g[1] : g \in Items(failures)}
  BY DEF Failed, Items
<1>7. Failed' = {g[1] : g \in Items(failures')}
  BY DEF Failed, Items
<1>8. Failed' = Failed \cup {held[i]}
  <2>1. f[1] = held[i]
    OBVIOUS
  <2>2. {g[1] : g \in Items(failures) \cup {f}}
          = {g[1] : g \in Items(failures)} \cup {f[1]}
    OBVIOUS
  <2>3. QED BY <1>5, <1>6, <1>7, <2>1, <2>2
<1>9. QED BY <1>1, <1>4, <1>8, DropIInv

LEMMA AbortIInv == ASSUME IInv, NEW i \in Stages, Abort(i) PROVE IInv'
<1> USE NumberFacts DEF IInv
<1>1. /\ held[i] \in Numbers /\ held[i] # Nothing /\ Release(i)
      /\ worker' = [worker EXCEPT ![i] = "dead"]
      /\ UNCHANGED <<accepted, closed, queues, results, failures, closer>>
  BY DEF Abort, Running, Numbers
<1>2. TypeOK'
  BY <1>1, ReleaseFacts DEF TypeOK
<1>3. \A j \in Stages : worker'[j] = "stopped" => worker[j] = "stopped"
  BY <1>1 DEF TypeOK
<1>4. Failed' = Failed
  BY <1>1 DEF Failed
<1>5. QED BY <1>1, <1>2, <1>3, <1>4, DropIInv

(* A worker of any stage but the last hands its item to the next stage:    *)
(* it comes behind everything there and before everything left behind.     *)
LEMMA PassOn ==
  ASSUME IInv, NEW i \in Stages, i # StageCount, held[i] # Nothing,
         Release(i), Put(i + 1, held[i]), UNCHANGED <<accepted, closed, results, failures>>
  PROVE  /\ InOrder' /\ Accounted' /\ FailedStops'
         /\ queues' \in [Stages -> Seq(Documents \cup {Sentinel})]
         /\ i + 1 \in Stages
         /\ InFlight(i)' = InQueue(i)
         /\ InFlight(i + 1)' = InFlight(i + 1) \cup {held[i]}
         /\ \A k \in Stages : k # i /\ k # i + 1 => InFlight(k)' = InFlight(k)
<1> USE PipelineAssumption, NumberFacts DEF IInv
<1> DEFINE j == i + 1
           d == held[i]
<1>1. j \in Stages /\ i < j /\ i # j
  BY DEF Stages
<1>2. /\ queues[j] \in Seq(Numbers) /\ queues'[j] = Append(queues[j], d)
      /\ \A k \in Stages : k # j => queues'[k] = queues[k]
      /\ d \in Numbers
  BY <1>1, ReleaseFacts DEF Put, TypeOK, Numbers
<1>3. /\ InQueue(j)' = InQueue(j) \cup {d} /\ queues'[j] \in Seq(Numbers)
      /\ \A k \in Stages : k # j => InQueue(k)' = InQueue(k)
  <2> HIDE DEF IInv, j, d
  <2>1. /\ Append(queues[j], d) \in Seq(Numbers)
        /\ Items(Append(queues[j], d)) = Items(queues[j]) \cup {d}
    BY <1>2, AppendItems
  <2>2. InQueue(j)' = Items(queues'[j])
    BY DEF InQueue
  <2>3. InQueue(j)' = InQueue(j) \cup {d} /\ queues'[j] \in Seq(Numbers)
    BY <1>2, <2>1, <2>2 DEF InQueue
  <2>4. \A k \in Stages : k # j => InQueue(k)' = InQueue(k)
    BY <1>2 DEF InQueue
  <2>5. QED BY <2>3, <2>4
<1>4. /\ InFlight(i)' = InQueue(i)
      /\ InFlight(j)' = InFlight(j) \cup {d}
      /\ \A k \in Stages : k # i /\ k # j => InFlight(k)' = InFlight(k)
  <2>1. InFlight(i)' = InQueue(i)
    BY <1>1, <1>3, ReleaseFacts DEF InFlight
  <2>2. held'[j] = held[j]
    BY <1>1, ReleaseFacts
  <2>3. InFlight(j)' = InFlight(j) \cup {d}
    BY <1>3, <2>2 DEF InFlight
  <2>4. \A k \in Stages : k # i /\ k # j => InFlight(k)' = InFlight(k)
    BY <1>3, ReleaseFacts DEF InFlight
  <2>5. QED BY <2>1, <2>3, <2>4
<1>5. Published' = Published /\ Failed' = Failed
  BY DEF Published, Failed
<1>6. \A y \in InFlight(j) : y < d
  BY <1>1, ReleaseFacts DEF InOrder
<1>7. InOrder'
  <2>1. \A k \in Stages : Increasing(queues'[k])
    <3>1. \A y \in Items(queues[j]) : y < d
      BY <1>6 DEF InFlight, InQueue
    <3>2. Increasing(queues[j])
      BY <1>1 DEF InOrder
    <3>3. Increasing(queues'[j])
      BY <1>2, <3>1, <3>2, AppendIncreasing
    <3>4. QED BY <1>2, <3>3 DEF InOrder
  <2>2. ASSUME NEW k \in Stages, held'[k] # Nothing
        PROVE  \A x \in InQueue(k)' : held'[k] < x
    <3>1. k # i /\ held'[k] = held[k] /\ held[k] # Nothing
      BY <2>2, ReleaseFacts
    <3>2. \A x \in InQueue(k) : held[k] < x
      BY <3>1 DEF InOrder
    <3>3. CASE k = j
      BY <1>3, <1>6, <3>1, <3>2, <3>3 DEF InFlight
    <3>4. CASE k # j
      BY <1>3, <3>1, <3>2, <3>4
    <3>5. QED BY <3>3, <3>4
  <2>3. ASSUME NEW k \in Stages, NEW x \in InFlight(k)'
        PROVE  \A e \in Published : e < x
    <3>1. x \in InFlight(k) \/ x = d
      BY <1>4, <2>3, ReleaseFacts
    <3>2. d \in InFlight(i)
      BY ReleaseFacts
    <3>3. QED BY <3>1, <3>2 DEF InOrder
  <2>4. ASSUME NEW k \in Stages, NEW x \in InFlight(k)',
               NEW l \in Stages, k < l, NEW y \in InFlight(l)'
        PROVE  y < x
    <3>1. d \in InFlight(i) /\ \A z \in InQueue(i) : d < z
      BY ReleaseFacts
    <3>2. \/ y \in InFlight(l) /\ (l # i \/ y \in InQueue(i))
          \/ y = d /\ l = j
      BY <1>4, <2>4, ReleaseFacts
    <3>3. \/ x \in InFlight(k) /\ (k # i \/ x \in InQueue(i))
          \/ x = d /\ k = j
      BY <1>4, <2>4, ReleaseFacts
    <3>4. CASE x \in InFlight(k) /\ y \in InFlight(l)
      BY <2>4, <3>4 DEF InOrder
    <3>5. CASE x = d /\ k = j /\ y \in InFlight(l)
      <4>1. i < l
        BY <2>4, <3>5 DEF Stages
      <4>2. QED BY <3>1, <3>5, <4>1 DEF InOrder
    <3>6. CASE y = d /\ l = j /\ x \in InFlight(k)
      <4>1. k < i \/ k = i
        BY <2>4, <3>6 DEF Stages
      <4>2. CASE k < i
        BY <3>1, <3>6, <4>2 DEF InOrder
      <4>3. CASE k = i
        BY <1>1, <3>1, <3>3, <3>6, <4>3
      <4>4. QED BY <4>1, <4>2, <4>3
    <3>7. k # l
      BY <2>4 DEF Stages
    <3>8. QED BY <3>2, <3>3, <3>4, <3>5, <3>6, <3>7
  <2>5. Increasing(results')
    BY DEF InOrder
  <2>6. QED BY <1>5, <2>1, <2>2, <2>3, <2>4, <2>5 DEF InOrder
<1>8. \A k \in Stages : \A x \in InFlight(k)' : x \in InFlight(k) \/ x = d
  BY <1>4, ReleaseFacts
<1>9. Accounted'
  BY <1>5, <1>8, ReleaseFacts DEF Accounted
<1>10. FailedStops'
  BY <1>5, <1>8, ReleaseFacts DEF FailedStops
<1>11. queues' \in [Stages -> Seq(Documents \cup {Sentinel})]
  BY <1>3 DEF Put, TypeOK, Numbers
<1>12. QED BY <1>1, <1>4, <1>7, <1>9, <1>10, <1>11

(* No stage at or before a returned worker's has anything to hand on. *)
LEMMA HolderRuns ==
  ASSUME IInv, NEW i \in Stages, held[i] # Nothing,
         NEW k \in Stages, worker[k] = "stopped"
  PROVE  k < i
<1>1. \A j \in Stages : j <= k => InFlight(j) = {}
  BY DEF IInv, StoppedLast
<1>2. held[i] \in InFlight(i)
  BY DEF InFlight
<1>3. QED BY <1>1, <1>2 DEF Stages

LEMMA ForwardIInv == ASSUME IInv, NEW i \in Stages, Forward(i) PROVE IInv'
<1> USE PipelineAssumption, NumberFacts DEF IInv
<1> DEFINE d == held[i]
<1>1. /\ d \in Documents /\ d \in Numbers /\ d # Nothing /\ d # Sentinel
      /\ Release(i)
      /\ UNCHANGED <<accepted, closed, worker, failures, closer>>
  BY DEF Forward, Running, Numbers
<1>2. CASE i # StageCount
  <2>1. Put(i + 1, d) /\ results' = results
    BY <1>2 DEF Forward
  <2>2. TypeOK'
    BY <1>1, <1>2, <2>1, PassOn, ReleaseFacts DEF TypeOK
  <2>3. ASSUME NEW k \in Stages, worker[k] = "stopped",
               NEW j \in Stages, j <= k
        PROVE  InFlight(j)' = {}
    <3>1. k < i
      BY <1>1, <2>3, HolderRuns
    <3>2. j # i /\ j # i + 1
      BY <2>3, <3>1 DEF Stages
    <3>3. InFlight(j)' = InFlight(j)
      BY <1>1, <1>2, <2>1, <3>2, PassOn
    <3>4. QED BY <2>3, <3>3 DEF StoppedLast
  <2>4. StoppedLast'
    BY <1>1, <2>3 DEF StoppedLast
  <2>5. QED BY <1>1, <1>2, <2>1, <2>2, <2>4, PassOn
<1>3. CASE i = StageCount
  <2>1. results' = Append(results, d) /\ queues' = queues
    BY <1>3 DEF Forward
  <2>2. results \in Seq(Documents) /\ results' \in Seq(Documents)
        /\ Documents \in SUBSET Int
    BY <1>1, <2>1 DEF TypeOK, Documents
  <2>3. Published' = Published \cup {d} /\ Failed' = Failed
    BY <1>1, <2>1, <2>2, AppendItems DEF Published, Failed
  <2>4. /\ InFlight(i)' = InQueue(i)
        /\ \A j \in Stages : j # i => InFlight(j)' = InFlight(j)
        /\ \A j \in Stages : InQueue(j)' = InQueue(j)
    BY <1>1, <2>1, ReleaseFacts DEF InFlight, InQueue
  <2>5. \A j \in Stages : InFlight(j)' \subseteq InFlight(j) \ {d}
    BY <1>1, <2>4, ReleaseFacts
  <2>6. d \in InFlight(i) /\ \A x \in InQueue(i) : d < x
    BY <1>1, ReleaseFacts
  <2>7. \A j \in Stages : \A x \in InFlight(j)' : d < x
    <3>1. \A j \in Stages : j # i => j < i
      BY <1>3 DEF Stages
    <3>2. \A j \in Stages : j # i => \A x \in InFlight(j) : d < x
      BY <2>6, <3>1 DEF InOrder
    <3>3. QED BY <2>4, <2>6, <3>2
  <2>8. TypeOK'
    BY <1>1, <2>1, <2>2, ReleaseFacts DEF TypeOK
  <2>9. InOrder'
    <3>1. \A e \in Published : e < d
      BY <2>6 DEF InOrder
    <3>2. Increasing(results')
      BY <1>1, <2>1, <2>2, <3>1, AppendIncreasing DEF InOrder, Published
    <3>3. \A j \in Stages : \A x \in InFlight(j)' : \A e \in Published' : e < x
      BY <2>3, <2>5, <2>7 DEF InOrder
    <3>4. \A j \in Stages : held'[j] # Nothing => \A x \in InQueue(j)' : held'[j] < x
      BY <1>1, <2>4, ReleaseFacts DEF InOrder
    <3>5. \A j \in Stages : Increasing(queues'[j])
      BY <2>1 DEF InOrder
    <3>6. \A j, k \in Stages : j < k =>
            \A x \in InFlight(j)' : \A y \in InFlight(k)' : y < x
      BY <2>5 DEF InOrder
    <3>7. QED BY <3>2, <3>3, <3>4, <3>5, <3>6 DEF InOrder
  <2>10. Accounted'
    <3>1. d \in 1 .. accepted
      BY <1>1, <2>6 DEF Accounted
    <3>2. QED BY <1>1, <2>3, <2>5, <3>1 DEF Accounted
  <2>11. FailedStops'
    BY <2>3, <2>5, <2>6 DEF FailedStops
  <2>12. StoppedLast'
    BY <1>1, <2>5 DEF StoppedLast
  <2>13. QED BY <2>8, <2>9, <2>10, <2>11, <2>12
<1>4. QED BY <1>2, <1>3

LEMMA StopIInv == ASSUME IInv, NEW i \in Stages, Stop(i) PROVE IInv'
<1> USE PipelineAssumption, NumberFacts DEF IInv
<1>1. /\ held[i] = Sentinel /\ held[i] \in Numbers /\ held[i] # Nothing
      /\ Release(i) /\ worker' = [worker EXCEPT ![i] = "stopped"]
      /\ UNCHANGED <<accepted, closed, results, failures, closer>>
  BY DEF Stop, Numbers
<1>2. /\ Sentinel \in InFlight(i)
      /\ \A x \in InQueue(i) : Sentinel < x
  BY <1>1, ReleaseFacts
<1>3. \A j \in Stages : \A x \in InFlight(j) : ~(Sentinel < x)
  <2>1. \A x \in 1 .. accepted : ~(Sentinel < x)
    BY DEF TypeOK, Sentinel
  <2>2. ~(Sentinel < Sentinel)
    BY DEF Sentinel
  <2>3. QED BY <2>1, <2>2 DEF Accounted
<1>4. InQueue(i) = {}
  BY <1>2, <1>3 DEF InFlight
<1>5. closed
  BY <1>2 DEF Accounted, TypeOK, Sentinel
<1>6. ASSUME NEW j \in Stages, j < i PROVE InFlight(j) = {}
  <2>1. \A x \in InFlight(j) : Sentinel < x
    BY <1>2, <1>6 DEF InOrder
  <2>2. QED BY <1>3, <2>1
<1>7. CASE i # StageCount
  <2>1. Put(i + 1, held[i])
    BY <1>1, <1>7 DEF Stop
  <2>2. TypeOK'
    BY <1>1, <1>7, <2>1, PassOn, ReleaseFacts DEF TypeOK
  <2>3. ASSUME NEW k \in Stages, worker'[k] = "stopped",
               NEW j \in Stages, j <= k
        PROVE  InFlight(j)' = {}
    <3>1. k <= i
      BY <1>1, <2>3, HolderRuns DEF Stages, TypeOK
    <3>2. j <= i /\ j # i + 1
      BY <2>3, <3>1 DEF Stages
    <3>3. CASE j = i
      BY <1>1, <1>4, <1>7, <2>1, <3>3, PassOn
    <3>4. CASE j # i
      <4>1. j < i
        BY <3>2, <3>4 DEF Stages
      <4>2. InFlight(j)' = InFlight(j)
        BY <1>1, <1>7, <2>1, <3>2, <3>4, PassOn
      <4>3. QED BY <1>6, <4>1, <4>2
    <3>5. QED BY <3>3, <3>4
  <2>4. StoppedLast'
    BY <1>1, <1>5, <2>3 DEF StoppedLast
  <2>5. QED BY <1>1, <1>7, <2>1, <2>2, <2>4, PassOn
<1>8. CASE i = StageCount
  <2>1. queues' = queues
    BY <1>8 DEF Stop
  <2>2. /\ InFlight(i)' = InQueue(i)
        /\ \A j \in Stages : j # i => InFlight(j)' = InFlight(j)
        /\ \A j \in Stages : InQueue(j)' = InQueue(j)
        /\ Published' = Published /\ Failed' = Failed
    BY <1>1, <2>1, ReleaseFacts DEF InFlight, InQueue, Published, Failed
  <2>3. TypeOK'
    BY <1>1, <2>1, ReleaseFacts DEF TypeOK
  <2>4. \A j \in Stages : InFlight(j)' = {}
    <3>1. \A j \in Stages : j = i \/ j < i
      BY <1>8 DEF Stages
    <3>2. QED BY <1>4, <1>6, <2>2, <3>1
  <2>5. InOrder'
    BY <1>1, <2>1, <2>2, <2>4, ReleaseFacts DEF InOrder
  <2>6. Accounted' /\ FailedStops'
    BY <1>1, <2>2, <2>4 DEF Accounted, FailedStops
  <2>7. StoppedLast'
    BY <1>1, <1>5, <2>4 DEF StoppedLast
  <2>8. QED BY <2>3, <2>5, <2>6, <2>7
<1>9. QED BY <1>7, <1>8

LEMMA NextIInv == IInv /\ [Next]_vars => IInv'
<1> SUFFICES ASSUME IInv, [Next]_vars PROVE IInv'
  OBVIOUS
<1>1. CASE Submit
  BY <1>1, SubmitIInv
<1>2. ASSUME NEW c \in Closers, Close(c) PROVE IInv'
  BY <1>2, BeginCloseIInv, EndCloseIInv DEF Close
<1>3. ASSUME NEW i \in Stages, RunStage(i) PROVE IInv'
  BY <1>3, TakeIInv, ForwardIInv, RecordFailureIInv, AbortIInv, StopIInv
     DEF RunStage
<1>4. CASE UNCHANGED vars
  <2>1. UNCHANGED <<accepted, closed, queues, held, worker, results, failures, closer>>
    BY <1>4 DEF vars
  <2>2. \A i \in Stages : InQueue(i)' = InQueue(i) /\ InFlight(i)' = InFlight(i)
    BY <2>1 DEF InQueue, InFlight
  <2>3. Published' = Published /\ Failed' = Failed
    BY <2>1 DEF Published, Failed
  <2>4. TypeOK'
    BY <2>1 DEF IInv, TypeOK
  <2>5. InOrder'
    BY <2>1, <2>2, <2>3 DEF IInv, InOrder
  <2>6. Accounted' /\ FailedStops' /\ StoppedLast'
    BY <2>1, <2>2, <2>3 DEF IInv, Accounted, FailedStops, StoppedLast
  <2>7. QED BY <2>4, <2>5, <2>6 DEF IInv
<1>5. QED BY <1>1, <1>2, <1>3, <1>4 DEF Next

LEMMA SpecIInv == Spec => []IInv
  BY InitIInv, NextIInv, PTL DEF Spec

-----------------------------------------------------------------------------
(* The state of the pipeline is always well formed. *)
THEOREM TypeCorrect == Spec => []TypeOK
  BY SpecIInv, PTL DEF IInv

(* Documents never overtake one another, and results are published in the  *)
(* order of acceptance, whatever stages do and whoever closes.             *)
THEOREM OrderKept == Spec => []InOrder
  BY SpecIInv, PTL DEF IInv

-----------------------------------------------------------------------------
(* While no stage ends its worker thread, nothing is lost.                 *)

(* A step moves documents on, adds the one it accepts, and loses none.     *)
LEMMA StepKeeps ==
  ASSUME IInv, Next, \A i \in Stages : ~Abort(i)
  PROVE  /\ Whereabouts \subseteq Whereabouts'
         /\ accepted' = accepted \/ (accepted' = accepted + 1 /\ accepted' \in Whereabouts')
<1> USE PipelineAssumption, NumberFacts DEF IInv
<1>1. CASE Submit
  <2> DEFINE d == accepted + 1
  <2>1. /\ d \in Documents /\ d \in Numbers /\ accepted' = d /\ 1 \in Stages
        /\ queues[1] \in Seq(Numbers)
        /\ queues'[1] = Append(queues[1], d)
        /\ \A i \in Stages : i # 1 => queues'[i] = queues[i]
        /\ UNCHANGED <<held, results, failures>>
    BY <1>1 DEF Submit, Accepting, Put, TypeOK, Numbers, Documents, Stages
  <2>2. d \in InQueue(1)' /\ \A i \in Stages : InQueue(i) \subseteq InQueue(i)'
    <3>1. Items(queues'[1]) = Items(queues[1]) \cup {d}
      BY <2>1, AppendItems
    <3>2. QED BY <2>1, <3>1 DEF InQueue
  <2>3. Published' = Published /\ Failed' = Failed
    BY <2>1 DEF Published, Failed
  <2>4. d \in InFlight(1)' /\ \A i \in Stages : InFlight(i) \subseteq InFlight(i)'
    BY <2>1, <2>2 DEF InFlight
  <2>5. QED BY <2>1, <2>3, <2>4 DEF Whereabouts
<1>2. ASSUME NEW c \in Closers, BeginClose(c)
      PROVE  Whereabouts \subseteq Whereabouts' /\ accepted' = accepted
  <2>1. /\ \A i \in Stages : queues[i] \in Seq(Numbers)
        /\ \A i \in Stages : queues'[i] = queues[i] \/ queues'[i] = Append(queues[i], Sentinel)
        /\ Sentinel \in Numbers
        /\ UNCHANGED <<accepted, held, results, failures>>
    BY <1>2 DEF BeginClose, Put, TypeOK, Numbers
  <2>2. \A i \in Stages : InQueue(i) \subseteq InQueue(i)'
    <3>1. \A i \in Stages : Items(Append(queues[i], Sentinel))
                              = Items(queues[i]) \cup {Sentinel}
      BY <2>1, AppendItems
    <3>2. QED BY <2>1, <3>1 DEF InQueue
  <2>3. Published' = Published /\ Failed' = Failed
    BY <2>1 DEF Published, Failed
  <2>4. \A i \in Stages : InFlight(i) \subseteq InFlight(i)'
    BY <2>1, <2>2 DEF InFlight
  <2>5. QED BY <2>1, <2>3, <2>4 DEF Whereabouts
<1>3. ASSUME NEW c \in Closers, EndClose(c)
      PROVE  Whereabouts' = Whereabouts /\ accepted' = accepted
  BY <1>3 DEF EndClose, Whereabouts, Published, Failed, InFlight, InQueue
<1>4. ASSUME NEW i \in Stages, Take(i)
      PROVE  Whereabouts \subseteq Whereabouts' /\ accepted' = accepted
  <2>1. /\ held[i] = Nothing /\ held'[i] = Head(queues[i])
        /\ queues[i] \in Seq(Numbers) /\ queues[i] # <<>> /\ Increasing(queues[i])
        /\ queues'[i] = Tail(queues[i])
        /\ \A j \in Stages : j # i => held'[j] = held[j] /\ queues'[j] = queues[j]
        /\ UNCHANGED <<accepted, results, failures>>
    BY <1>4 DEF Take, TypeOK, InOrder, Numbers
  <2>2. /\ InQueue(i) = {held'[i]} \cup InQueue(i)' /\ held'[i] \in Numbers
        /\ \A j \in Stages : j # i => InQueue(j)' = InQueue(j)
    BY <2>1, HeadOfIncreasing DEF InQueue
  <2>3. \A j \in Stages : InFlight(j) \subseteq InFlight(j)'
    BY <2>1, <2>2 DEF InFlight
  <2>4. Published' = Published /\ Failed' = Failed
    BY <2>1 DEF Published, Failed
  <2>5. QED BY <2>1, <2>3, <2>4 DEF Whereabouts
<1>5. ASSUME NEW i \in Stages, Forward(i)
      PROVE  Whereabouts \subseteq Whereabouts' /\ accepted' = accepted
  <2>1. /\ held[i] \in Documents /\ held[i] # Nothing /\ Release(i)
        /\ UNCHANGED <<accepted, closed, failures>>
    BY <1>5 DEF Forward, Running, Numbers
  <2>2. CASE i # StageCount
    <3>1. Put(i + 1, held[i]) /\ results' = results
      BY <1>5, <2>2 DEF Forward
    <3>3. /\ InFlight(i)' = InQueue(i) /\ InFlight(i + 1)' = InFlight(i + 1) \cup {held[i]}
          /\ i + 1 \in Stages /\ InFlight(i) = {held[i]} \cup InQueue(i)
          /\ \A k \in Stages : k # i /\ k # i + 1 => InFlight(k)' = InFlight(k)
      BY <2>1, <2>2, <3>1, PassOn, ReleaseFacts
    <3>2. \A j \in Stages : InFlight(j) \subseteq InFlight(j)' \cup InFlight(i + 1)'
      BY <3>3
    <3>4. Published' = Published /\ Failed' = Failed
      BY <2>1, <3>1 DEF Published, Failed
    <3>5. QED BY <2>1, <3>2, <3>3, <3>4 DEF Whereabouts
  <2>3. CASE i = StageCount
    <3>1. results' = Append(results, held[i]) /\ queues' = queues
      BY <1>5, <2>3 DEF Forward
    <3>2. Published' = Published \cup {held[i]} /\ Failed' = Failed
      BY <2>1, <3>1, AppendItems DEF Published, Failed, TypeOK
    <3>3. \A j \in Stages : InFlight(j) \subseteq InFlight(j)' \cup {held[i]}
      BY <2>1, <3>1, ReleaseFacts DEF InFlight, InQueue
    <3>4. QED BY <2>1, <3>2, <3>3 DEF Whereabouts
  <2>4. QED BY <2>2, <2>3
<1>6. ASSUME NEW i \in Stages, RecordFailure(i)
      PROVE  Whereabouts \subseteq Whereabouts' /\ accepted' = accepted
  <2>1. /\ held[i] # Nothing /\ Release(i)
        /\ UNCHANGED <<accepted, queues, results>>
    BY <1>6 DEF RecordFailure, Running, Numbers
  <2>2. Failed' = Failed \cup {held[i]} /\ Published' = Published
    BY <1>6, <2>1, RecordFailureIInv DEF Published
  <2>3. \A j \in Stages : InFlight(j) \subseteq InFlight(j)' \cup {held[i]}
    BY <2>1, ReleaseFacts DEF InFlight, InQueue
  <2>4. QED BY <2>1, <2>2, <2>3 DEF Whereabouts
<1>7. ASSUME NEW i \in Stages, Stop(i)
      PROVE  Whereabouts \subseteq Whereabouts' /\ accepted' = accepted
  <2>1. /\ held[i] = Sentinel /\ held[i] # Nothing /\ Release(i)
        /\ UNCHANGED <<accepted, closed, results, failures>>
    BY <1>7 DEF Stop, Numbers
  <2>2. Published' = Published /\ Failed' = Failed
    BY <2>1 DEF Published, Failed
  <2>3. CASE i # StageCount
    <3>1. Put(i + 1, held[i])
      BY <1>7, <2>1, <2>3 DEF Stop
    <3>2. /\ InFlight(i)' = InQueue(i) /\ InFlight(i + 1)' = InFlight(i + 1) \cup {held[i]}
          /\ i + 1 \in Stages /\ InFlight(i) = {held[i]} \cup InQueue(i)
          /\ \A k \in Stages : k # i /\ k # i + 1 => InFlight(k)' = InFlight(k)
      BY <2>1, <2>3, <3>1, PassOn, ReleaseFacts
    <3>3. \A j \in Stages : InFlight(j) \subseteq InFlight(j)' \cup {Sentinel}
      BY <2>1, <3>2
    <3>4. QED BY <2>1, <2>2, <3>3 DEF Whereabouts
  <2>4. CASE i = StageCount
    <3>1. queues' = queues
      BY <1>7, <2>4 DEF Stop
    <3>2. \A j \in Stages : InFlight(j) \subseteq InFlight(j)' \cup {Sentinel}
      BY <2>1, <3>1, ReleaseFacts DEF InFlight, InQueue
    <3>3. QED BY <2>1, <2>2, <3>2 DEF Whereabouts
  <2>5. QED BY <2>3, <2>4
<1>8. QED
  BY <1>1, <1>2, <1>3, <1>4, <1>5, <1>6, <1>7 DEF Next, Close, RunStage

LEMMA NextKept ==
  ASSUME IInv, Kept, [Next]_vars, "abort" \notin Endings PROVE Kept'
<1>0. \A i \in Stages : ~Abort(i)
  BY DEF Abort
<1>1. CASE UNCHANGED vars
  BY <1>1 DEF vars, Kept, AllStopped, Whereabouts, InFlight, InQueue,
     Published, Failed
<1>2. CASE Next
  <2>1. 1 .. accepted' \subseteq Whereabouts'
    <3>1. accepted \in Nat
      BY PipelineAssumption DEF IInv, TypeOK
    <3>2. 1 .. accepted \subseteq Whereabouts'
      BY <1>0, <1>2, StepKeeps DEF Kept
    <3>3. CASE accepted' = accepted
      BY <3>2, <3>3
    <3>4. CASE accepted' = accepted + 1 /\ accepted' \in Whereabouts'
      <4>1. 1 .. (accepted + 1) = (1 .. accepted) \cup {accepted + 1}
        BY <3>1
      <4>2. QED BY <3>2, <3>4, <4>1
    <3>5. QED BY <1>0, <1>2, <3>3, <3>4, StepKeeps
  <2>2. \A i \in Stages : worker'[i] \in {worker[i], "stopped"}
    BY <1>2 DEF Next, Submit, Close, BeginClose, EndClose, RunStage, Take,
       Forward, RecordFailure, Abort, Stop, IInv, TypeOK
  <2>3. \A i \in Stages : worker'[i] # "dead"
    BY <2>2 DEF Kept
  <2>4. AllStopped => AllStopped'
    BY <2>2 DEF AllStopped
  <2>5. ASSUME NEW c \in Closers, closer'[c] = "true" PROVE AllStopped
    <3>1. closer \in [Closers -> {"idle", "joining", "true", "false"}]
      BY DEF IInv, TypeOK
    <3>2. closer[c] = "true" \/ (EndClose(c) /\ AllStopped)
      BY <1>2, <2>5, <3>1 DEF Next, Submit, Close, BeginClose, EndClose,
         RunStage, Take, Forward, RecordFailure, Abort, Stop
    <3>3. QED BY <3>2 DEF Kept
  <2>6. QED BY <2>1, <2>3, <2>4, <2>5 DEF Kept
<1>3. QED BY <1>1, <1>2

LEMMA InitKept == Init => Kept
  BY PipelineAssumption DEF Init, Kept

LEMMA SpecKept == ASSUME "abort" \notin Endings PROVE Spec => []Kept
<1>1. IInv /\ Kept /\ [Next]_vars => Kept'
  BY NextKept
<1>2. QED BY <1>1, InitKept, SpecIInv, PTL DEF Spec

(* A stopped pipeline has settled every document it accepted.              *)
LEMMA StoppedSettled ==
  ASSUME IInv, Kept, AllStopped, NEW d \in 1 .. accepted PROVE Settled(d)
<1>1. \A i \in Stages : worker[i] = "stopped"
  BY DEF AllStopped, Kept, IInv, TypeOK
<1>2. \A i \in Stages : InFlight(i) = {}
  BY <1>1 DEF IInv, StoppedLast, Stages
<1>3. QED BY <1>2 DEF Kept, Whereabouts, Settled

(* A close that answers True has drained the pipeline, for any number of   *)
(* stages, documents, failures and concurrent closers.                     *)
THEOREM CloseDrains ==
  ASSUME "abort" \notin Endings PROVE Spec => []CloseTrueMeansSettled
<1>1. IInv /\ Kept => CloseTrueMeansSettled
  BY StoppedSettled DEF CloseTrueMeansSettled, Kept
<1>2. QED BY <1>1, SpecIInv, SpecKept, PTL

-----------------------------------------------------------------------------
(* Every accepted document is in exactly one place.                        *)

(* No document fails twice. *)
FailuresOnce ==
  \A k, l \in DOMAIN failures : failures[k][1] = failures[l][1] => k = l

LEMMA NextFailuresOnce == IInv /\ FailuresOnce /\ [Next]_vars => FailuresOnce'
<1> SUFFICES ASSUME IInv, FailuresOnce, [Next]_vars PROVE FailuresOnce'
  OBVIOUS
<1>1. CASE UNCHANGED failures
  BY <1>1 DEF FailuresOnce
<1>2. ASSUME NEW i \in Stages, RecordFailure(i) PROVE FailuresOnce'
  <2> DEFINE f == <<held[i], i>>
  <2>1. /\ failures' = Append(failures, f) /\ held[i] # Nothing
        /\ held[i] \in Documents /\ failures \in Seq(Documents \X Stages)
    BY <1>2, NumberFacts DEF RecordFailure, Running, IInv, TypeOK, Numbers
  <2>2. f \in Documents \X Stages /\ f[1] = held[i]
    BY <2>1
  <2> HIDE DEF f
  <2>3. /\ \A k \in DOMAIN failures' : k \in DOMAIN failures \/ k = Len(failures) + 1
        /\ \A k \in DOMAIN failures : failures'[k] = failures[k]
        /\ failures'[Len(failures) + 1] = f
    BY <2>1, <2>2
  <2>4. held[i] \in InFlight(i)
    BY <2>1 DEF InFlight
  <2>5. held[i] \notin Failed
    BY <2>4 DEF IInv, FailedStops
  <2>6. \A k \in DOMAIN failures : failures[k][1] # f[1]
    BY <2>2, <2>5 DEF Failed
  <2>7. QED BY <2>3, <2>6 DEF FailuresOnce
<1>3. QED
  BY <1>1, <1>2 DEF Next, vars, Submit, Close, BeginClose, EndClose, RunStage,
     Take, Forward, Abort, Stop

LEMMA SpecFailuresOnce == Spec => []FailuresOnce
<1>1. Init => FailuresOnce
  BY DEF Init, FailuresOnce
<1>2. QED BY <1>1, NextFailuresOnce, SpecIInv, PTL DEF Spec

(* Where an item is, as a property of its place.                           *)
PlaceOf(p, d) ==
  \/ \E i \in Stages : \E k \in DOMAIN queues[i] : p = <<i, k>> /\ queues[i][k] = d
  \/ \E i \in Stages : p = <<i, 0>> /\ held[i] = d
  \/ \E k \in DOMAIN results : p = <<StageCount + 1, k>> /\ results[k] = d
  \/ \E k \in DOMAIN failures : p = <<StageCount + 2, k>> /\ failures[k][1] = d

LEMMA PlacesAre == ASSUME NEW p, NEW d PROVE p \in Places(d) <=> PlaceOf(p, d)
<1> DEFINE Q == UNION {{<<i, k>> : k \in {l \in DOMAIN queues[i] : queues[i][l] = d}} :
                         i \in Stages}
           H == {<<i, 0>> : i \in {j \in Stages : held[j] = d}}
           R == {<<StageCount + 1, k>> : k \in {j \in DOMAIN results : results[j] = d}}
           F == {<<StageCount + 2, k>> :
                   k \in {j \in DOMAIN failures : failures[j][1] = d}}
<1>1. p \in Q <=> \E i \in Stages : \E k \in DOMAIN queues[i] : p = <<i, k>> /\ queues[i][k] = d
  OBVIOUS
<1>2. p \in H <=> \E i \in Stages : p = <<i, 0>> /\ held[i] = d
  OBVIOUS
<1>3. p \in R <=> \E k \in DOMAIN results : p = <<StageCount + 1, k>> /\ results[k] = d
  OBVIOUS
<1>4. p \in F <=> \E k \in DOMAIN failures : p = <<StageCount + 2, k>> /\ failures[k][1] = d
  OBVIOUS
<1>5. Places(d) = Q \cup H \cup R \cup F
  BY DEF Places
<1> HIDE DEF Q, H, R, F
<1>6. QED BY <1>1, <1>2, <1>3, <1>4, <1>5 DEF PlaceOf

(* A document that is nowhere is neither settled nor in flight.            *)
LEMMA NowhereIs ==
  ASSUME NEW d \in Documents PROVE Places(d) = {} <=> d \notin Whereabouts
<1>1. d # Nothing
  BY DEF Documents, Nothing
<1>2. Places(d) # {} <=> \E p : PlaceOf(p, d)
  BY PlacesAre
<1>3. (\E p : PlaceOf(p, d)) <=>
        \/ \E i \in Stages : \E k \in DOMAIN queues[i] : queues[i][k] = d
        \/ \E i \in Stages : held[i] = d
        \/ \E k \in DOMAIN results : results[k] = d
        \/ \E k \in DOMAIN failures : failures[k][1] = d
  BY DEF PlaceOf
<1>4. d \in Whereabouts <=>
        \/ \E i \in Stages : d \in InFlight(i)
        \/ d \in Published
        \/ d \in Failed
  BY DEF Whereabouts
<1>5. \A i \in Stages :
        d \in InFlight(i) <=> held[i] = d \/ \E k \in DOMAIN queues[i] : queues[i][k] = d
  BY <1>1 DEF InFlight, InQueue, Items
<1>6. d \in Published <=> \E k \in DOMAIN results : results[k] = d
  BY DEF Published, Items
<1>7. d \in Failed <=> \E k \in DOMAIN failures : failures[k][1] = d
  BY DEF Failed
<1>8. QED BY <1>2, <1>3, <1>4, <1>5, <1>6, <1>7

(* What is in order is nowhere twice.                                      *)
LEMMA IncreasingOnce ==
  ASSUME NEW S \in SUBSET Int, NEW s \in Seq(S), Increasing(s),
         NEW k \in DOMAIN s, NEW l \in DOMAIN s, s[k] = s[l]
  PROVE  k = l
<1>0. DOMAIN s = 1 .. Len(s) /\ Len(s) \in Nat /\ \A m \in 1 .. Len(s) : s[m] \in S
  OBVIOUS
<1>1. k \in Int /\ l \in Int
  BY <1>0
<1>2. \A x \in S : ~(x < x)
  OBVIOUS
<1>3. ~(s[k] < s[l]) /\ ~(s[l] < s[k])
  BY <1>0, <1>2
<1>4. QED BY <1>1, <1>3 DEF Increasing

LEMMA OnePlace ==
  ASSUME IInv, FailuresOnce, NEW d \in Documents, NEW p \in Places(d), NEW q \in Places(d)
  PROVE  p = q
<1> USE NumberFacts DEF IInv
<1>1. d \in Int /\ d # Nothing /\ ~(d < d)
  BY DEF Documents, Nothing
<1>2. \A i, j \in Stages : d \in InFlight(i) /\ d \in InFlight(j) => i = j
  <2>1. \A i, j \in Stages : i = j \/ i < j \/ j < i
    BY DEF Stages
  <2>2. QED BY <1>1, <2>1 DEF InOrder
<1>3. /\ d \in Published => \A i \in Stages : d \notin InFlight(i)
      /\ d \in Failed => d \notin Published /\ \A i \in Stages : d \notin InFlight(i)
  BY <1>1 DEF InOrder, FailedStops
<1>4. \A i \in Stages : held[i] = d => d \notin InQueue(i) /\ d \in InFlight(i)
  BY <1>1 DEF InOrder, InFlight
<1>5. \A i \in Stages : \A k \in DOMAIN queues[i] :
        queues[i][k] = d => d \in InQueue(i) /\ d \in InFlight(i)
  BY <1>1 DEF InFlight, InQueue, Items
<1>6. \A k \in DOMAIN results : results[k] = d => d \in Published
  BY DEF Published, Items
<1>7. \A k \in DOMAIN failures : failures[k][1] = d => d \in Failed
  BY DEF Failed
<1>8. ASSUME NEW i \in Stages, NEW k \in DOMAIN queues[i], NEW l \in DOMAIN queues[i],
             queues[i][k] = d, queues[i][l] = d
      PROVE  k = l
  <2>1. queues[i] \in Seq(Numbers) /\ Increasing(queues[i])
    BY DEF TypeOK, InOrder, Numbers
  <2>2. QED BY <1>8, <2>1, IncreasingOnce
<1>9. ASSUME NEW k \in DOMAIN results, NEW l \in DOMAIN results,
             results[k] = d, results[l] = d
      PROVE  k = l
  <2>1. results \in Seq(Documents) /\ Increasing(results) /\ Documents \in SUBSET Int
    BY DEF TypeOK, InOrder, Documents
  <2>2. QED BY <1>9, <2>1, IncreasingOnce
<1> HIDE DEF IInv
<1>10. PlaceOf(p, d) /\ PlaceOf(q, d)
  BY PlacesAre
<1>11. ASSUME NEW i \in Stages, NEW k \in DOMAIN queues[i], p = <<i, k>>, queues[i][k] = d
       PROVE  q = p
  <2>1. d \notin Published /\ d \notin Failed /\ d \in InFlight(i) /\ d \in InQueue(i)
    BY <1>3, <1>5, <1>11
  <2>2. PICK j \in Stages : \E l \in DOMAIN queues[j] : q = <<j, l>> /\ queues[j][l] = d
    BY <1>2, <1>4, <1>6, <1>7, <1>10, <2>1 DEF PlaceOf
  <2>3. j = i
    BY <1>2, <1>5, <2>1, <2>2
  <2>4. QED BY <1>8, <1>11, <2>2, <2>3
<1>12. ASSUME NEW i \in Stages, p = <<i, 0>>, held[i] = d PROVE q = p
  <2>1. d \notin Published /\ d \notin Failed /\ d \in InFlight(i) /\ d \notin InQueue(i)
    BY <1>3, <1>4, <1>12
  <2>2. PICK j \in Stages : q = <<j, 0>> /\ held[j] = d
    BY <1>2, <1>5, <1>6, <1>7, <1>10, <2>1 DEF PlaceOf
  <2>3. j = i
    BY <1>2, <1>4, <2>1, <2>2
  <2>4. QED BY <1>12, <2>2, <2>3
<1>13. ASSUME NEW k \in DOMAIN results, p = <<StageCount + 1, k>>, results[k] = d PROVE q = p
  <2>1. d \notin Failed /\ \A i \in Stages : d \notin InFlight(i)
    BY <1>3, <1>6, <1>13
  <2>2. PICK l \in DOMAIN results : q = <<StageCount + 1, l>> /\ results[l] = d
    BY <1>4, <1>5, <1>7, <1>10, <2>1 DEF PlaceOf
  <2>3. QED BY <1>9, <1>13, <2>2
<1>14. ASSUME NEW k \in DOMAIN failures, p = <<StageCount + 2, k>>, failures[k][1] = d
       PROVE  q = p
  <2>1. d \notin Published /\ \A i \in Stages : d \notin InFlight(i)
    BY <1>3, <1>7, <1>14
  <2>2. PICK l \in DOMAIN failures : q = <<StageCount + 2, l>> /\ failures[l][1] = d
    BY <1>4, <1>5, <1>6, <1>10, <2>1 DEF PlaceOf
  <2>3. QED BY <1>14, <2>2 DEF FailuresOnce
<1>15. QED BY <1>10, <1>11, <1>12, <1>13, <1>14 DEF PlaceOf

-----------------------------------------------------------------------------
(* Nothing turns up again but what is accepted.                            *)
LEMMA StepAddsNothing ==
  ASSUME IInv, Next
  PROVE  \/ Whereabouts' \subseteq Whereabouts
         \/ accepted' = accepted + 1 /\ Whereabouts' \subseteq Whereabouts \cup {accepted'}
<1> USE PipelineAssumption, NumberFacts DEF IInv
<1>0. \A S, T : (\A i \in Stages : InFlight(i)' \subseteq S)
               /\ Published' \subseteq S /\ Failed' \subseteq S
               /\ Documents \cap S \subseteq T => Whereabouts' \subseteq T
  BY DEF Whereabouts
<1> DEFINE Everywhere == Published \cup Failed \cup UNION {InFlight(i) : i \in Stages}
<1>00. ASSUME NEW x, \A i \in Stages : InFlight(i)' \subseteq Everywhere \cup {x, Sentinel},
              Published' \cup Failed' \subseteq Everywhere
       PROVE  Whereabouts' \subseteq Whereabouts \cup ({x} \ {Sentinel})
  <2>1. Documents \cap (Everywhere \cup {x, Sentinel}) \subseteq Whereabouts \cup ({x} \ {Sentinel})
    BY <1>00 DEF Whereabouts, Everywhere
  <2>2. QED BY <1>0, <1>00, <2>1
<1> HIDE DEF Everywhere
<1>1. /\ Published \subseteq Everywhere /\ Failed \subseteq Everywhere
      /\ \A i \in Stages : InFlight(i) \subseteq Everywhere /\ InQueue(i) \subseteq Everywhere
      /\ \A i \in Stages : held[i] # Nothing => held[i] \in Everywhere
  BY DEF Everywhere, InFlight
<1>2. ASSUME UNCHANGED <<results, failures>>
      PROVE  Published' \cup Failed' \subseteq Everywhere
  BY <1>1, <1>2 DEF Published, Failed
<1>3. CASE Submit
  <2> DEFINE d == accepted + 1
  <2>1. /\ d \in Documents /\ d \in Numbers /\ accepted' = d /\ 1 \in Stages
        /\ queues[1] \in Seq(Numbers) /\ queues'[1] = Append(queues[1], d)
        /\ \A i \in Stages : i # 1 => queues'[i] = queues[i]
        /\ UNCHANGED <<held, results, failures>>
    BY <1>3 DEF Submit, Accepting, Put, TypeOK, Numbers, Documents, Stages
  <2>2. \A i \in Stages : InQueue(i)' \subseteq InQueue(i) \cup {d}
    <3>1. Items(queues'[1]) = Items(queues[1]) \cup {d}
      BY <2>1, AppendItems
    <3>2. QED BY <2>1, <3>1 DEF InQueue
  <2>3. \A i \in Stages : InFlight(i)' \subseteq Everywhere \cup {d, Sentinel}
    BY <1>1, <2>1, <2>2 DEF InFlight
  <2>4. QED BY <1>00, <1>2, <2>1, <2>3
<1>4. ASSUME NEW c \in Closers, BeginClose(c)
      PROVE  Whereabouts' \subseteq Whereabouts
  <2>1. /\ \A i \in Stages : queues[i] \in Seq(Numbers)
        /\ \A i \in Stages : queues'[i] = queues[i] \/ queues'[i] = Append(queues[i], Sentinel)
        /\ Sentinel \in Numbers
        /\ UNCHANGED <<accepted, held, results, failures>>
    BY <1>4 DEF BeginClose, Put, TypeOK, Numbers
  <2>2. \A i \in Stages : InQueue(i)' \subseteq InQueue(i) \cup {Sentinel}
    <3>1. \A i \in Stages : Items(Append(queues[i], Sentinel))
                              = Items(queues[i]) \cup {Sentinel}
      BY <2>1, AppendItems
    <3>2. QED BY <2>1, <3>1 DEF InQueue
  <2>3. \A i \in Stages : InFlight(i)' \subseteq Everywhere \cup {Sentinel, Sentinel}
    BY <1>1, <2>1, <2>2 DEF InFlight
  <2>4. QED BY <1>00, <1>2, <2>1, <2>3
<1>5. ASSUME NEW c \in Closers, EndClose(c)
      PROVE  Whereabouts' \subseteq Whereabouts
  BY <1>5 DEF EndClose, Whereabouts, Published, Failed, InFlight, InQueue
<1>6. ASSUME NEW i \in Stages, Take(i)
      PROVE  Whereabouts' \subseteq Whereabouts
  <2>1. /\ held[i] = Nothing /\ held'[i] = Head(queues[i])
        /\ queues[i] \in Seq(Numbers) /\ queues[i] # <<>> /\ Increasing(queues[i])
        /\ queues'[i] = Tail(queues[i])
        /\ \A j \in Stages : j # i => held'[j] = held[j] /\ queues'[j] = queues[j]
        /\ UNCHANGED <<accepted, results, failures>>
    BY <1>6 DEF Take, TypeOK, InOrder, Numbers
  <2>2. /\ InQueue(i) = {held'[i]} \cup InQueue(i)' /\ held'[i] \in Numbers
        /\ \A j \in Stages : j # i => InQueue(j)' = InQueue(j)
    BY <2>1, HeadOfIncreasing DEF InQueue
  <2>3. \A j \in Stages : InFlight(j)' \subseteq Everywhere \cup {Sentinel, Sentinel}
    BY <1>1, <2>1, <2>2 DEF InFlight
  <2>4. QED BY <1>00, <1>2, <2>1, <2>3
<1>7. ASSUME NEW i \in Stages, Forward(i) \/ Stop(i)
      PROVE  Whereabouts' \subseteq Whereabouts
  <2>1. /\ held[i] \in Numbers /\ held[i] # Nothing /\ Release(i)
        /\ held[i] = Sentinel \/ held[i] \in Documents
        /\ UNCHANGED <<accepted, closed, failures>>
    BY <1>7 DEF Forward, Stop, Running, Numbers
  <2>2. CASE i # StageCount
    <3>1. Put(i + 1, held[i]) /\ results' = results
      BY <1>7, <2>1, <2>2 DEF Forward, Stop
    <3>2. /\ InFlight(i)' = InQueue(i) /\ InFlight(i + 1)' = InFlight(i + 1) \cup {held[i]}
          /\ i + 1 \in Stages
          /\ \A k \in Stages : k # i /\ k # i + 1 => InFlight(k)' = InFlight(k)
      BY <2>1, <2>2, <3>1, PassOn
    <3>3. \A j \in Stages : InFlight(j)' \subseteq Everywhere \cup {Sentinel, Sentinel}
      BY <1>1, <2>1, <3>2
    <3>4. QED BY <1>00, <1>2, <2>1, <3>1, <3>3
  <2>3. CASE i = StageCount
    <3>1. /\ queues' = queues
          /\ results' = results \/ (results' = Append(results, held[i]) /\ held[i] \in Documents)
      BY <1>7, <2>3 DEF Forward, Stop, Running
    <3>2. Published' \subseteq Published \cup {held[i]} /\ Failed' = Failed
      <4>1. CASE results' = results
        BY <2>1, <4>1 DEF Published, Failed
      <4>2. CASE results' = Append(results, held[i]) /\ held[i] \in Documents
        BY <2>1, <4>2, AppendItems DEF Published, Failed, TypeOK
      <4>3. QED BY <3>1, <4>1, <4>2
    <3>3. \A j \in Stages : InFlight(j)' \subseteq Everywhere \cup {Sentinel, Sentinel}
      BY <1>1, <2>1, <3>1, ReleaseFacts DEF InFlight, InQueue
    <3>4. QED BY <1>00, <1>1, <2>1, <3>2, <3>3
  <2>4. QED BY <2>2, <2>3
<1>8. ASSUME NEW i \in Stages, RecordFailure(i) \/ Abort(i)
      PROVE  Whereabouts' \subseteq Whereabouts
  <2>1. /\ held[i] # Nothing /\ Release(i)
        /\ UNCHANGED <<accepted, queues, results>>
    BY <1>8 DEF RecordFailure, Abort, Running, Numbers
  <2>2. Failed' \subseteq Failed \cup {held[i]} /\ Published' = Published
    <3>1. CASE RecordFailure(i)
      BY <2>1, <3>1, RecordFailureIInv DEF Published
    <3>2. CASE Abort(i)
      BY <2>1, <3>2 DEF Abort, Published, Failed
    <3>3. QED BY <1>8, <3>1, <3>2
  <2>3. \A j \in Stages : InFlight(j)' \subseteq Everywhere \cup {Sentinel, Sentinel}
    BY <1>1, <2>1, ReleaseFacts DEF InFlight, InQueue
  <2>4. QED BY <1>00, <1>1, <2>1, <2>2, <2>3
<1>9. QED
  BY <1>3, <1>4, <1>5, <1>6, <1>7, <1>8 DEF Next, Close, RunStage

Dead == {i \in Stages : worker[i] = "dead"}

(* Lost are the accepted documents that are nowhere.                       *)
LEMMA LostIs ==
  ASSUME TypeOK PROVE Lost = (1 .. accepted) \ Whereabouts /\ IsFiniteSet(Lost)
<1>1. 1 .. accepted \subseteq Documents /\ accepted \in Nat
  BY PipelineAssumption DEF TypeOK, Documents
<1>2. Lost = (1 .. accepted) \ Whereabouts
  BY <1>1, NowhereIs DEF Lost
<1>3. Lost \subseteq 1 .. accepted /\ IsFiniteSet(1 .. accepted)
  BY <1>1, FS_Interval DEF Lost
<1>4. QED BY <1>2, <1>3, FS_Subset

LEMMA DeadIsFinite == IsFiniteSet(Dead)
<1>1. Dead \subseteq Stages /\ IsFiniteSet(Stages)
  BY PipelineAssumption, FS_Interval DEF Dead, Stages
<1>2. QED BY <1>1, FS_Subset

LEMMA AbortLoses ==
  ASSUME IInv, IInv', NEW i \in Stages, Abort(i)
  PROVE  /\ Lost' = Lost \cup {held[i]} /\ held[i] \notin Lost
         /\ Dead' = Dead \cup {i} /\ i \notin Dead
<1> USE NumberFacts DEF IInv
<1>1. /\ held[i] \in Documents /\ held[i] # Nothing /\ Release(i)
      /\ worker[i] = "running" /\ worker' = [worker EXCEPT ![i] = "dead"]
      /\ UNCHANGED <<accepted, closed, queues, results, failures, closer>>
  BY DEF Abort, Running, Numbers
<1>2. Dead' = Dead \cup {i} /\ i \notin Dead
  BY <1>1 DEF Dead, TypeOK
<1>3. /\ held[i] \in InFlight(i) /\ InFlight(i)' = InFlight(i) \ {held[i]}
      /\ \A j \in Stages : j # i => InFlight(j)' = InFlight(j) /\ held[i] \notin InFlight(j)
      /\ Published' = Published /\ Failed' = Failed
  BY <1>1, ReleaseFacts DEF InFlight, InQueue, Published, Failed
<1>4. held[i] \in 1 .. accepted
  BY <1>1, <1>3 DEF Accounted
<1>5. held[i] \notin Published /\ held[i] \notin Failed
  <2>1. held[i] \in Published => held[i] < held[i]
    BY <1>3 DEF InOrder
  <2>2. held[i] \in Int
    BY <1>1 DEF Documents
  <2>3. QED BY <1>3, <2>1, <2>2 DEF FailedStops
<1>6. Whereabouts' = Whereabouts \ {held[i]} /\ held[i] \in Whereabouts
  BY <1>1, <1>3, <1>5 DEF Whereabouts
<1>7. Lost' = (1 .. accepted) \ Whereabouts'
  <2>1. (TypeOK => Lost = (1 .. accepted) \ Whereabouts)'
    BY LostIs, PTL
  <2>2. QED BY <1>1, <2>1
<1>8. Lost = (1 .. accepted) \ Whereabouts
  BY LostIs
<1>9. QED BY <1>2, <1>4, <1>6, <1>7, <1>8

(* As many documents are lost as workers have died.                        *)
LostAreTheDeads == Cardinality(Lost) = Cardinality(Dead)

LEMMA NextLost == IInv /\ IInv' /\ LostAreTheDeads /\ [Next]_vars => LostAreTheDeads'
<1> SUFFICES ASSUME IInv, IInv', LostAreTheDeads, [Next]_vars PROVE LostAreTheDeads'
  OBVIOUS
<1>1. CASE UNCHANGED vars
  BY <1>1 DEF vars, LostAreTheDeads, Lost, Dead, Places
<1>2. ASSUME NEW i \in Stages, Abort(i) PROVE LostAreTheDeads'
  <2>1. /\ Lost' = Lost \cup {held[i]} /\ held[i] \notin Lost
        /\ Dead' = Dead \cup {i} /\ i \notin Dead
    BY <1>2, AbortLoses
  <2>2. Cardinality(Lost') = Cardinality(Lost) + 1
    BY <2>1, LostIs, FS_AddElement DEF IInv
  <2>3. Cardinality(Dead') = Cardinality(Dead) + 1
    BY <2>1, DeadIsFinite, FS_AddElement
  <2>4. QED BY <2>2, <2>3 DEF LostAreTheDeads
<1>3. CASE Next /\ \A i \in Stages : ~Abort(i)
  <2>1. Dead' = Dead
    <3>1. \A i \in Stages : worker'[i] = "dead" <=> worker[i] = "dead"
      BY <1>3 DEF Next, Submit, Close, BeginClose, EndClose, RunStage, Take,
         Forward, RecordFailure, Stop, IInv, TypeOK
    <3>2. QED BY <3>1 DEF Dead
  <2>2. /\ Whereabouts \subseteq Whereabouts'
        /\ accepted' = accepted \/ (accepted' = accepted + 1 /\ accepted' \in Whereabouts')
    BY <1>3, StepKeeps
  <2>3. \/ Whereabouts' \subseteq Whereabouts
        \/ accepted' = accepted + 1 /\ Whereabouts' \subseteq Whereabouts \cup {accepted'}
    BY <1>3, StepAddsNothing
  <2>4. accepted \in Nat /\ accepted' \in Nat
    BY PipelineAssumption DEF IInv, TypeOK
  <2>5. (1 .. accepted') \ Whereabouts' = (1 .. accepted) \ Whereabouts
    <3>1. CASE accepted' = accepted
      <4>1. Whereabouts' \subseteq Whereabouts
        BY <2>3, <2>4, <3>1
      <4>2. QED BY <2>2, <3>1, <4>1
    <3>2. CASE accepted' = accepted + 1 /\ accepted' \in Whereabouts'
      BY <2>2, <2>3, <2>4, <3>2
    <3>3. QED BY <2>2, <3>1, <3>2
  <2>6. Lost = (1 .. accepted) \ Whereabouts
    BY LostIs DEF IInv
  <2>7. Lost' = (1 .. accepted') \ Whereabouts'
    <3>1. (TypeOK => Lost = (1 .. accepted) \ Whereabouts)'
      BY LostIs, PTL
    <3>2. QED BY <3>1 DEF IInv
  <2>8. QED BY <2>1, <2>5, <2>6, <2>7 DEF LostAreTheDeads
<1>4. QED BY <1>1, <1>2, <1>3

LEMMA InitLost == Init => LostAreTheDeads
<1> SUFFICES ASSUME Init PROVE LostAreTheDeads
  OBVIOUS
<1>1. Lost = {} /\ Dead = {}
  BY DEF Init, Lost, Dead
<1>2. QED BY <1>1 DEF LostAreTheDeads

(* Every accepted document is in exactly one place, however workers,       *)
(* submitters and closers interleave, and as many are lost as workers have *)
(* been ended by an exception that is not an Exception.                    *)
THEOREM EachDocumentOnce == Spec => []ExactlyOnce
<1>1. IInv /\ FailuresOnce /\ LostAreTheDeads => ExactlyOnce
  <2> SUFFICES ASSUME IInv, FailuresOnce, LostAreTheDeads PROVE ExactlyOnce
    OBVIOUS
  <2>1. ASSUME NEW d \in (1 .. accepted) \ Lost PROVE Cardinality(Places(d)) = 1
    <3>1. d \in Documents /\ Places(d) # {}
      BY PipelineAssumption DEF IInv, TypeOK, Documents, Lost
    <3>2. PICK p : p \in Places(d)
      BY <3>1
    <3>3. Places(d) = {p}
      BY <3>1, <3>2, OnePlace
    <3>4. QED BY <3>3, FS_Singleton
  <2>2. QED BY <2>1 DEF ExactlyOnce, LostAreTheDeads, Dead
<1>2. IInv /\ IInv' /\ LostAreTheDeads /\ [Next]_vars => LostAreTheDeads'
  BY NextLost
<1>3. QED BY <1>1, <1>2, InitLost, SpecIInv, SpecFailuresOnce, PTL DEF Spec

-----------------------------------------------------------------------------
(* The pipeline implements DocumentService.                                *)

LEMMA InitService == Init => Service!Init
<1> SUFFICES ASSUME Init PROVE Service!Init
  OBVIOUS
<1>1. Failed = {}
  BY DEF Init, Failed
<1>2. AllStopped = FALSE
  BY PipelineAssumption DEF Init, AllStopped, Stages
<1>3. QED BY <1>1, <1>2, Zenon DEF Init, Service!Init

(* What leaves the last stage is the oldest document not yet settled.      *)
LEMMA OldestFirst ==
  ASSUME IInv, Kept, NEW i \in Stages, Forward(i), i = StageCount
  PROVE  /\ held[i] \in Service!Pending
         /\ \A e \in Service!Pending : held[i] <= e
<1> USE NumberFacts DEF IInv
<1>1. /\ held[i] \in Documents /\ held[i] \in Numbers /\ held[i] # Nothing
      /\ Release(i) /\ held[i] # Sentinel
  BY DEF Forward, Running, Numbers
<1>2. held[i] \in InFlight(i) /\ \A x \in InQueue(i) : held[i] < x
  BY <1>1, ReleaseFacts
<1>3. held[i] \in 1 .. accepted
  BY <1>1, <1>2 DEF Accounted
<1>4. held[i] \notin Failed
  BY <1>2 DEF FailedStops
<1>5. held[i] \notin Published
  <2>1. held[i] \in Published => held[i] < held[i]
    BY <1>2 DEF InOrder
  <2>2. QED BY <1>1, <2>1
<1>6. Service!Pending = {d \in 1 .. accepted : d \notin Published /\ d \notin Failed}
  BY DEF Service!Pending, Service!Published, Published, Items
<1>7. ASSUME NEW e \in Service!Pending PROVE held[i] <= e
  <2>1. PICK j \in Stages : e \in InFlight(j)
    BY <1>6 DEF Kept, Whereabouts
  <2>2. CASE j = i
    <3>1. e = held[i] \/ held[i] < e
      BY <1>1, <1>2, <2>1, <2>2, ReleaseFacts
    <3>2. QED BY <1>1, <1>6, <3>1
  <2>3. CASE j # i
    <3>1. j < i
      BY <2>3 DEF Stages
    <3>2. held[i] < e
      BY <1>2, <2>1, <3>1 DEF InOrder
    <3>3. QED BY <1>1, <1>6, <3>2
  <2>4. QED BY <2>2, <2>3
<1>8. QED BY <1>3, <1>4, <1>5, <1>6, <1>7

LEMMA StepService ==
  ASSUME IInv, IInv', Kept, Kept', [Next]_vars, "abort" \notin Endings
  PROVE  Service!Next \/ UNCHANGED Service!vars
<1> USE DEF IInv
<1>1. ASSUME UNCHANGED <<accepted, closed, worker, results, failures>>
      PROVE  UNCHANGED Service!vars
  BY <1>1 DEF Service!vars, AllStopped, Failed
<1>2. CASE UNCHANGED vars
  BY <1>1, <1>2 DEF vars
<1>3. CASE Submit
  <2>1. /\ ~closed /\ accepted' = accepted + 1
        /\ UNCHANGED <<closed, worker, results, failures>>
    BY <1>3 DEF Submit, Accepting
  <2>2. AllStopped' = AllStopped /\ Failed' = Failed
    BY <2>1 DEF AllStopped, Failed
  <2>3. Service!Accept
    BY <2>1, <2>2 DEF Service!Accept
  <2>4. QED BY <2>3 DEF Service!Next
<1>4. ASSUME NEW c \in Closers, BeginClose(c) PROVE Service!Next
  <2>1. closed' = TRUE /\ UNCHANGED <<accepted, worker, results, failures>>
    BY <1>4 DEF BeginClose
  <2>2. AllStopped' = AllStopped /\ Failed' = Failed
    BY <2>1 DEF AllStopped, Failed
  <2>3. Service!Close
    BY <2>1, <2>2 DEF Service!Close
  <2>4. QED BY <2>3 DEF Service!Next
<1>5. ASSUME NEW c \in Closers, EndClose(c) PROVE UNCHANGED Service!vars
  BY <1>1, <1>5 DEF EndClose
<1>6. ASSUME NEW i \in Stages, Take(i) PROVE UNCHANGED Service!vars
  BY <1>1, <1>6 DEF Take
<1>7. ASSUME NEW i \in Stages, Forward(i)
      PROVE  Service!Next \/ UNCHANGED Service!vars
  <2>1. UNCHANGED <<accepted, closed, worker, failures>>
    BY <1>7 DEF Forward
  <2>2. AllStopped' = AllStopped /\ Failed' = Failed
    BY <2>1 DEF AllStopped, Failed
  <2>3. CASE i # StageCount
    BY <1>1, <1>7, <2>1, <2>3 DEF Forward
  <2>4. CASE i = StageCount
    <3>1. results' = Append(results, held[i])
      BY <1>7, <2>4 DEF Forward
    <3>2. held[i] \in Service!Pending /\ \A e \in Service!Pending : held[i] <= e
      BY <1>7, <2>4, OldestFirst
    <3>3. Service!Publish(held[i])
      BY <2>1, <2>2, <3>1, <3>2 DEF Service!Publish
    <3>4. QED BY <3>2, <3>3 DEF Service!Next
  <2>5. QED BY <2>3, <2>4
<1>8. ASSUME NEW i \in Stages, RecordFailure(i) PROVE Service!Next
  <2>1. /\ held[i] \in Documents /\ held[i] \in InFlight(i)
        /\ UNCHANGED <<accepted, closed, worker, results>>
    BY <1>8, NumberFacts DEF RecordFailure, Running, InFlight, Numbers
  <2>2. AllStopped' = AllStopped /\ Failed' = Failed \cup {held[i]}
    BY <1>8, <2>1, RecordFailureIInv DEF AllStopped
  <2>3. held[i] \in 1 .. accepted /\ held[i] \notin Failed
    BY <2>1, NumberFacts DEF Accounted, FailedStops
  <2>4. held[i] \notin Published
    <3>1. held[i] \in Published => held[i] < held[i]
      BY <2>1 DEF InOrder
    <3>2. QED BY <2>1, <3>1 DEF Documents
  <2>5. held[i] \in Service!Pending
    BY <2>3, <2>4 DEF Service!Pending, Service!Published, Published, Items
  <2>6. Service!Fail(held[i])
    BY <2>1, <2>2, <2>5 DEF Service!Fail
  <2>7. QED BY <2>5, <2>6 DEF Service!Next
<1>9. ASSUME NEW i \in Stages, Stop(i)
      PROVE  Service!Next \/ UNCHANGED Service!vars
  <2>1. /\ UNCHANGED <<accepted, closed, results, failures>>
        /\ worker[i] = "running" /\ worker' = [worker EXCEPT ![i] = "stopped"]
    BY <1>9 DEF Stop
  <2>2. Failed' = Failed /\ Published' = Published /\ ~AllStopped
    BY <2>1 DEF Failed, Published, AllStopped
  <2>3. CASE ~AllStopped'
    <3>1. AllStopped' = AllStopped
      BY <2>2, <2>3 DEF AllStopped
    <3>2. QED BY <2>1, <2>2, <3>1 DEF Service!vars
  <2>4. CASE AllStopped'
    <3>1. \A d \in 1 .. accepted' : Settled(d)'
      <4>1. \A k \in Stages : worker'[k] = "stopped"
        BY <2>4 DEF AllStopped, Kept, TypeOK
      <4>2. \A k \in Stages : InFlight(k)' = {}
        BY <4>1 DEF StoppedLast, Stages
      <4>3. QED BY <4>2 DEF Kept, Whereabouts, Settled
    <3>2. Service!Pending = {}
      BY <2>1, <2>2, <3>1
         DEF Settled, Service!Pending, Service!Published, Published, Items
    <3>3. closed
      BY <2>1, <2>4 DEF StoppedLast, TypeOK
    <3>4. Service!Stop
      BY <2>1, <2>2, <2>4, <3>2, <3>3 DEF Service!Stop, AllStopped
    <3>5. QED BY <3>4 DEF Service!Next
  <2>5. QED BY <2>3, <2>4
<1>10. ASSUME NEW i \in Stages PROVE ~Abort(i)
  BY DEF Abort
<1>11. QED
  BY <1>2, <1>3, <1>4, <1>5, <1>6, <1>7, <1>8, <1>9, <1>10
     DEF Next, Close, RunStage

(* While stages only return or raise Exception, every behaviour of the     *)
(* pipeline is one of the service: publication in order of acceptance,     *)
(* each document settled once, stopped only when all are settled.          *)
THEOREM PipelineRefinesService ==
  ASSUME "abort" \notin Endings PROVE Spec => ImplementsService
<1>1. IInv /\ IInv' /\ Kept /\ Kept' /\ [Next]_vars => [Service!Next]_Service!vars
  BY StepService
<1>2. QED
  BY <1>1, InitService, SpecIInv, SpecKept, PTL
     DEF Spec, ImplementsService, Service!Spec
=============================================================================
