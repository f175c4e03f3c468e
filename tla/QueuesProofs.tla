------------------------------ MODULE QueuesProofs ------------------------------
(***************************************************************************)
(* The queues with task accounting, each for any finite sets of workers    *)
(* and tickets, any callers and any bound.  They share nothing; the facts  *)
(* about one do not mention another.                                       *)
(*                                                                         *)
(* AsyncJobQueue: a stop is safe because its tokens are put when nothing   *)
(* is unfinished and nothing can be submitted any more: from then on the   *)
(* queue holds nothing but tokens, no more than there are workers that     *)
(* have not taken one (TokensAreLast).  It has to be known as well that    *)
(* only one stop gets that far (OneStop), where every job is               *)
(* (JobsAreSomewhere) and that it is nowhere else (JobsAreOnce).           *)
(*                                                                         *)
(* DeploymentRollback: the stack holds actions in the order of             *)
(* registration, and when an action was claimed no later one was           *)
(* registered than there are now.                                          *)
(*                                                                         *)
(* TicketQueue: the tickets left (queued or in a worker's hands) are as    *)
(* many as the count says; only new tickets join them, so what a join      *)
(* covers stays covered; and a ticket submitted before another was begun   *)
(* has the smaller number.                                                 *)
(***************************************************************************)
EXTENDS MCQueues, FiniteSetTheorems, SequenceTheorems, TLAPS

-----------------------------------------------------------------------------
(* AsyncJobQueue                                                           *)

CountIsExact == unfinished = Len(queue) + Cardinality(Busy)

OnlyRunningWork ==
  /\ \A w \in Workers : item[w] # NoItem => worker[w] = "running"
  /\ ~started => \A w \in Workers : worker[w] = "new"

JobsAreSomewhere ==
  /\ \A j \in 1 .. submitted :
       \/ j \in processed
       \/ \E k \in DOMAIN queue : queue[k] = j
       \/ \E w \in Workers : item[w] = j
  /\ processed \subseteq 1 .. submitted
  /\ \A k \in DOMAIN queue : queue[k] \in 1 .. submitted \cup {StopToken}
  /\ \A w \in Workers : item[w] \in 0 .. submitted
  /\ \A c \in Callers : mark[c] <= submitted

InStop(c) == caller[c] \notin {"idle", "unstarted", "skipped"}

OneStop ==
  /\ \A c \in Stoppers : InStop(c) => stopping
  /\ \A c, d \in Stoppers : InStop(c) /\ InStop(d) => c = d
  /\ \A c \in Stoppers : caller[c] = "woken" => unfinished = 0
  /\ \A c \in Stoppers : caller[c] = "stopped" => \A w \in Workers : worker[w] = "done"

Gone == {w \in Workers : worker[w] = "done"}

TokensPut ==
  \/ Gone # {}
  \/ \E k \in DOMAIN queue : queue[k] = StopToken
  \/ \E c \in Stoppers : caller[c] \in {"gathering", "stopped", "raised"}

TokensAreLast ==
  TokensPut =>
    /\ \E c \in Stoppers : caller[c] \in {"gathering", "stopped", "raised", "cancelled"}
    /\ processed = 1 .. submitted
    /\ Busy = {}
    /\ \A k \in DOMAIN queue : queue[k] = StopToken
    /\ Len(queue) + Cardinality(Gone) <= Cardinality(Workers)

IInv ==
  /\ TypeOK /\ CountIsExact /\ OnlyRunningWork /\ JobsAreSomewhere
  /\ OneStop /\ TokensAreLast /\ JoinCoversEarlierJobs

-----------------------------------------------------------------------------
(* Sequences: what a put and a get do to the queue.                        *)
LEMMA AppendIs ==
  ASSUME NEW S, NEW s \in Seq(S), NEW e \in S
  PROVE  /\ Append(s, e) \in Seq(S)
         /\ Len(Append(s, e)) = Len(s) + 1
         /\ DOMAIN s \subseteq DOMAIN Append(s, e)
         /\ \A k \in DOMAIN s : Append(s, e)[k] = s[k]
         /\ Len(s) + 1 \in DOMAIN Append(s, e)
         /\ Append(s, e)[Len(s) + 1] = e
         /\ \A k \in DOMAIN Append(s, e) : k \in DOMAIN s \/ k = Len(s) + 1
  OBVIOUS

LEMMA TailIs ==
  ASSUME NEW S, NEW s \in Seq(S), s # <<>>
  PROVE  /\ Tail(s) \in Seq(S) /\ Len(s) \in Nat \ {0}
         /\ 1 \in DOMAIN s /\ Head(s) = s[1]
         /\ Len(Tail(s)) = Len(s) - 1
         /\ \A k \in DOMAIN Tail(s) : k + 1 \in DOMAIN s /\ Tail(s)[k] = s[k + 1]
         /\ \A k \in DOMAIN s : k = 1 \/ (k - 1 \in DOMAIN Tail(s) /\ Tail(s)[k - 1] = s[k])
  OBVIOUS

LEMMA TokensAre ==
  /\ Cardinality(Workers) \in Nat
  /\ Tokens \in Seq({StopToken}) /\ Len(Tokens) = Cardinality(Workers)
  /\ \A k \in DOMAIN Tokens : Tokens[k] = StopToken
  <1>1. Cardinality(Workers) \in Nat
    BY JobQueueAssumption, FS_CardinalityType
  <1> QED
    BY <1>1 DEF Tokens

(* Counting workers: how many are busy, and how many have taken a token.   *)
LEMMA SetsAreFinite ==
  /\ IsFiniteSet(Busy) /\ Cardinality(Busy) \in Nat
  /\ IsFiniteSet(Gone) /\ Cardinality(Gone) \in Nat
  <1>1. Busy \subseteq Workers /\ Gone \subseteq Workers
    BY DEF Busy, Gone
  <1> QED
    BY <1>1, JobQueueAssumption, FS_Subset, FS_CardinalityType

LEMMA SameBusy ==
  ASSUME UNCHANGED item
  PROVE  Busy' = Busy /\ Cardinality(Busy)' = Cardinality(Busy)
  BY DEF Busy

LEMMA OneMoreBusy ==
  ASSUME TypeOK, NEW w \in Workers, NEW j \in Jobs,
         item[w] = NoItem, item' = [item EXCEPT ![w] = j]
  PROVE  Cardinality(Busy)' = Cardinality(Busy) + 1
  <1>1. Busy' = Busy \cup {w} /\ w \notin Busy
    BY DEF Busy, TypeOK, NoItem, Jobs
  <1> QED
    BY <1>1, SetsAreFinite, FS_AddElement

LEMMA OneLessBusy ==
  ASSUME TypeOK, NEW w \in Workers,
         item[w] # NoItem, item' = [item EXCEPT ![w] = NoItem]
  PROVE  Cardinality(Busy)' = Cardinality(Busy) - 1
  <1>1. Busy' = Busy \ {w} /\ w \in Busy
    BY DEF Busy, TypeOK
  <1> QED
    BY <1>1, SetsAreFinite, FS_RemoveElement

(* When nothing is unfinished, every job submitted has been processed.     *)
LEMMA ZeroMeansProcessed ==
  TypeOK /\ CountIsExact /\ JobsAreSomewhere /\ unfinished = 0
    => queue = <<>> /\ Busy = {} /\ processed = 1 .. submitted
  <1> SUFFICES ASSUME TypeOK, CountIsExact, JobsAreSomewhere, unfinished = 0
               PROVE  queue = <<>> /\ Busy = {} /\ processed = 1 .. submitted
    OBVIOUS
  <1>1. Len(queue) = 0 /\ Cardinality(Busy) = 0
    BY SetsAreFinite DEF TypeOK, CountIsExact
  <1>2. queue = <<>>
    BY <1>1 DEF TypeOK
  <1>3. Busy = {}
    BY <1>1, SetsAreFinite, FS_EmptySet
  <1>4. \A w \in Workers : item[w] = NoItem
    BY <1>3 DEF Busy
  <1>5. \A j \in 1 .. submitted : j # NoItem /\ DOMAIN queue = {}
    BY <1>2 DEF NoItem
  <1>6. 1 .. submitted \subseteq processed
    BY <1>4, <1>5 DEF JobsAreSomewhere
  <1> QED
    BY <1>2, <1>3, <1>6 DEF JobsAreSomewhere

LEMMA InitIInv == Init => IInv
  <1> SUFFICES ASSUME Init PROVE IInv
    OBVIOUS
  <1> USE JobQueueAssumption DEF Init
  <1>1. Busy = {} /\ Gone = {}
    BY DEF Busy, Gone
  <1>2. Cardinality(Busy) = 0 /\ Cardinality(Gone) = 0
    BY <1>1, FS_EmptySet
  <1>3. TypeOK
    <2>1. queue \in Seq(Jobs \cup {StopToken}) /\ failures \in Seq(Jobs)
      OBVIOUS
    <2>2. submitted \in 0 .. MaxJobs /\ mark \in [Callers -> 0 .. MaxJobs]
      OBVIOUS
    <2> QED
      BY <2>1, <2>2 DEF TypeOK
  <1>4. CountIsExact
    BY <1>2 DEF CountIsExact
  <1>5. OnlyRunningWork /\ JobsAreSomewhere /\ OneStop /\ JoinCoversEarlierJobs
    BY DEF OnlyRunningWork, JobsAreSomewhere, OneStop, JoinCoversEarlierJobs, InStop,
           Callers, NoItem
  <1>6. ~TokensPut
    BY <1>1 DEF TokensPut, Callers
  <1> QED
    BY <1>3, <1>4, <1>5, <1>6 DEF IInv, TokensAreLast

-----------------------------------------------------------------------------
(* One lemma per operation.                                                *)
LEMMA StartIInv == ASSUME IInv, Start PROVE IInv'
  <1> USE DEF IInv, Start
  <1>1. Gone = {} /\ Gone' = {}
    BY DEF Gone, OnlyRunningWork
  <1>2. TypeOK'
    BY DEF TypeOK
  <1>3. CountIsExact'
    BY SameBusy DEF CountIsExact
  <1>4. OnlyRunningWork' /\ JobsAreSomewhere'
    BY DEF OnlyRunningWork, JobsAreSomewhere, TypeOK
  <1>5. OneStop'
    <2>1. \A c \in Stoppers : caller[c] # "stopped"
      BY JobQueueAssumption DEF OneStop, OnlyRunningWork
    <2> QED
      BY <2>1 DEF OneStop, InStop
  <1>6. TokensAreLast'
    BY <1>1, SameBusy DEF TokensAreLast, TokensPut
  <1>7. JoinCoversEarlierJobs'
    BY DEF JoinCoversEarlierJobs
  <1> QED
    BY <1>2, <1>3, <1>4, <1>5, <1>6, <1>7

LEMMA SubmitIInv == ASSUME IInv, Submit PROVE IInv'
  <1> USE DEF IInv, Submit, Accepting
  <1>1. submitted + 1 \in Jobs /\ submitted + 1 # StopToken
    BY JobQueueAssumption DEF TypeOK, Jobs, StopToken
  <1>2. TypeOK'
    BY <1>1, AppendIs DEF TypeOK, Jobs
  <1>3. CountIsExact'
    BY <1>1, AppendIs, SameBusy, SetsAreFinite DEF CountIsExact, TypeOK
  <1>4. OnlyRunningWork'
    BY DEF OnlyRunningWork
  <1>5. JobsAreSomewhere'
    <2> DEFINE new == submitted + 1
    <2>1. \A j \in 1 .. submitted' : j \in 1 .. submitted \/ j = new
      BY DEF TypeOK
    <2>2. 1 .. submitted \subseteq 1 .. submitted' /\ new \in 1 .. submitted'
          /\ 0 .. submitted \subseteq 0 .. submitted'
      BY DEF TypeOK
    <2>3. /\ \A k \in DOMAIN queue : k \in DOMAIN queue' /\ queue'[k] = queue[k]
          /\ Len(queue) + 1 \in DOMAIN queue' /\ queue'[Len(queue) + 1] = new
          /\ \A k \in DOMAIN queue' : k \in DOMAIN queue \/ k = Len(queue) + 1
      BY <1>1, AppendIs DEF TypeOK
    <2>4. \A c \in Callers : mark'[c] <= submitted'
      BY DEF JobsAreSomewhere, TypeOK
    <2> QED
      BY <2>1, <2>2, <2>3, <2>4 DEF JobsAreSomewhere
  <1>6. OneStop'
    BY DEF OneStop, InStop
  <1>7. TokensAreLast'
    <2>1. ~TokensPut
      BY DEF TokensAreLast, OneStop, InStop
    <2>2. \A k \in DOMAIN queue' : queue'[k] # StopToken
      BY <1>1, <2>1, AppendIs DEF TokensPut, TypeOK
    <2> QED
      BY <2>1, <2>2 DEF TokensAreLast, TokensPut, Gone
  <1>8. JoinCoversEarlierJobs'
    BY DEF JoinCoversEarlierJobs
  <1> QED
    BY <1>2, <1>3, <1>4, <1>5, <1>6, <1>7, <1>8

(* What a step that leaves queue, jobs and workers alone cannot disturb.   *)
LEMMA CallerStep ==
  ASSUME IInv, UNCHANGED <<started, submitted, queue, unfinished, item, worker, processed>>
  PROVE  CountIsExact' /\ OnlyRunningWork' /\ Gone' = Gone /\ Busy' = Busy
  BY SameBusy DEF IInv, CountIsExact, OnlyRunningWork, Gone

LEMMA JoinIInv ==
  ASSUME IInv, NEW c \in Joiners, JoinTask(c) PROVE IInv'
  <1> USE DEF IInv
  <1>0. c \in Callers /\ c \notin Stoppers
    BY JobQueueAssumption DEF Callers
  <1>1. /\ UNCHANGED <<started, stopping, submitted, queue, unfinished, item, worker,
                       processed, failures>>
        /\ \A d \in Stoppers : caller'[d] = caller[d] /\ d \in Callers
    BY <1>0 DEF JoinTask, Join, JoinReturns, TypeOK, Callers
  <1>2. TypeOK'
    BY <1>0 DEF JoinTask, Join, JoinReturns, TypeOK
  <1>3. CountIsExact' /\ OnlyRunningWork' /\ Gone' = Gone /\ Busy' = Busy
    BY <1>1, CallerStep
  <1>4. \A d \in Callers : mark'[d] <= submitted
    <2>1. submitted <= submitted
      BY DEF TypeOK
    <2>2. \A d \in Callers : mark'[d] = mark[d] \/ mark'[d] = submitted
      BY <1>0 DEF JoinTask, Join, JoinReturns, TypeOK
    <2> QED
      BY <2>1, <2>2 DEF JobsAreSomewhere
  <1>5. JobsAreSomewhere'
    BY <1>1, <1>4 DEF JobsAreSomewhere
  <1>6. OneStop'
    BY <1>1 DEF OneStop, InStop
  <1>7. TokensAreLast'
    BY <1>1, <1>3 DEF TokensAreLast, TokensPut
  <1>8. JoinCoversEarlierJobs'
    <2>1. CASE Join(c)
      <3>1. caller'[c] = "returned" => processed = 1 .. submitted
        BY <1>0, <2>1, ZeroMeansProcessed DEF Join, Drained, TypeOK
      <3> QED
        BY <1>0, <2>1, <3>1 DEF Join, JoinCoversEarlierJobs, TypeOK
    <2>2. CASE JoinReturns(c)
      BY <1>0, <2>2 DEF JoinReturns, JoinCoversEarlierJobs, TypeOK
    <2> QED
      BY <2>1, <2>2 DEF JoinTask
  <1> QED
    BY <1>2, <1>3, <1>5, <1>6, <1>7, <1>8

(* Tokens are put when everything submitted has been processed and nothing *)
(* can be submitted any more.                                              *)
LEMMA PutTokensIInv ==
  ASSUME IInv, NEW c \in Stoppers, PutTokens(c), unfinished = 0, ~TokensPut,
         \A d \in Stoppers : d # c => ~InStop(d),
         stopping' = TRUE, mark'[c] \in 0 .. submitted,
         \A d \in Callers : d # c => mark'[d] = mark[d],
         mark' \in [Callers -> 0 .. MaxJobs],
         UNCHANGED <<started, submitted, item, worker, processed, failures>>
  PROVE  IInv'
  <1> USE DEF IInv, PutTokens
  <1>0. c \in Callers
    BY DEF Callers
  <1>1. queue = <<>> /\ Busy = {} /\ processed = 1 .. submitted
    BY ZeroMeansProcessed
  <1>2. /\ queue' \in Seq(Jobs \cup {StopToken}) /\ Len(queue') = Cardinality(Workers)
        /\ \A k \in DOMAIN queue' : queue'[k] = StopToken
    <2>1. queue' = Tokens
      BY <1>1, TokensAre
    <2> QED
      BY <2>1, TokensAre
  <1>3. unfinished' = Cardinality(Workers) /\ unfinished' \in Nat
    BY TokensAre DEF TypeOK
  <1>4. /\ caller' \in [Callers -> {"idle", "joining", "woken", "returned", "unstarted",
                                    "skipped", "gathering", "stopped", "raised", "cancelled"}]
        /\ caller'[c] = "gathering"
        /\ \A d \in Callers : d # c => caller'[d] = caller[d]
    BY <1>0 DEF TypeOK
  <1>5. TypeOK'
    BY <1>2, <1>3, <1>4 DEF TypeOK
  <1>6. CountIsExact'
    BY <1>1, <1>2, <1>3, SameBusy, SetsAreFinite, FS_EmptySet, TokensAre DEF CountIsExact
  <1>7. OnlyRunningWork'
    BY DEF OnlyRunningWork
  <1>8. JobsAreSomewhere'
    <2>1. \A d \in Callers : mark'[d] <= submitted
      <3>1. mark'[c] <= submitted
        BY DEF TypeOK
      <3> QED
        BY <3>1 DEF JobsAreSomewhere
    <2> QED
      BY <1>1, <1>2, <2>1 DEF JobsAreSomewhere
  <1>9. OneStop'
    BY <1>4 DEF OneStop, InStop, Callers
  <1>10. TokensAreLast'
    <2>1. Gone' = {}
      BY DEF TokensPut, Gone
    <2>2. Len(queue') + Cardinality(Gone)' <= Cardinality(Workers)
      BY <1>2, <2>1, FS_EmptySet, TokensAre
    <2> QED
      BY <1>1, <1>2, <1>4, <2>2, SameBusy DEF TokensAreLast
  <1>11. JoinCoversEarlierJobs'
    BY <1>1, <1>4 DEF JoinCoversEarlierJobs, TypeOK
  <1> QED
    BY <1>5, <1>6, <1>7, <1>8, <1>9, <1>10, <1>11

LEMMA StopIInv ==
  ASSUME IInv, NEW c \in Stoppers, StopSkips(c) \/ Stop(c) \/ StopResumes(c) PROVE IInv'
  <1> USE DEF IInv
  <1>0. c \in Callers /\ submitted \in 0 .. submitted /\ submitted \in 0 .. MaxJobs
    BY JobQueueAssumption DEF Callers, TypeOK
  <1>1. CASE StopSkips(c)
    <2> USE <1>1 DEF StopSkips
    <2>1. /\ caller'[c] \in {"unstarted", "skipped"}
          /\ \A d \in Callers : d # c => caller'[d] = caller[d]
      BY <1>0 DEF TypeOK
    <2>2. TypeOK'
      BY <1>0 DEF TypeOK
    <2>3. CountIsExact' /\ OnlyRunningWork' /\ Gone' = Gone /\ Busy' = Busy
      BY CallerStep
    <2>4. JobsAreSomewhere'
      BY DEF JobsAreSomewhere
    <2>5. OneStop'
      BY <2>1 DEF OneStop, InStop, Callers
    <2>6. TokensAreLast'
      BY <2>1, <2>3 DEF TokensAreLast, TokensPut, Callers
    <2>7. JoinCoversEarlierJobs'
      BY <2>1 DEF JoinCoversEarlierJobs
    <2> QED
      BY <2>2, <2>3, <2>4, <2>5, <2>6, <2>7
  <1>2. CASE Stop(c)
    <2> USE <1>2 DEF Stop
    <2>1. \A d \in Stoppers : ~InStop(d)
      BY DEF OneStop
    <2>2. ~TokensPut
      BY <2>1 DEF TokensAreLast, InStop
    <2>3. /\ mark'[c] = submitted /\ mark' \in [Callers -> 0 .. MaxJobs]
          /\ \A d \in Callers : d # c => mark'[d] = mark[d]
      BY <1>0 DEF TypeOK
    <2>4. CASE Drained
      BY <1>0, <2>1, <2>2, <2>3, <2>4, PutTokensIInv DEF Drained
    <2>5. CASE ~Drained
      <3>1. /\ caller'[c] = "joining" /\ UNCHANGED <<queue, unfinished>>
            /\ \A d \in Callers : d # c => caller'[d] = caller[d]
        BY <1>0, <2>5 DEF TypeOK
      <3>2. TypeOK'
        BY <1>0, <2>3, <2>5 DEF TypeOK
      <3>3. CountIsExact' /\ OnlyRunningWork' /\ Gone' = Gone /\ Busy' = Busy
        BY <3>1, CallerStep
      <3>4. \A d \in Callers : mark'[d] <= submitted
        BY <1>0, <2>3 DEF JobsAreSomewhere
      <3>5. JobsAreSomewhere'
        BY <3>1, <3>4 DEF JobsAreSomewhere
      <3>6. OneStop'
        BY <2>1, <3>1 DEF OneStop, InStop, Callers
      <3>7. TokensAreLast'
        BY <2>2, <3>1, <3>3 DEF TokensAreLast, TokensPut, Callers
      <3>8. JoinCoversEarlierJobs'
        BY <2>3, <3>1 DEF JoinCoversEarlierJobs
      <3> QED
        BY <3>2, <3>3, <3>5, <3>6, <3>7, <3>8
    <2> QED
      BY <2>4, <2>5
  <1>3. CASE StopResumes(c)
    <2> USE <1>3 DEF StopResumes
    <2>1. unfinished = 0 /\ stopping = TRUE
      BY DEF OneStop, InStop, TypeOK
    <2>2. \A d \in Stoppers : d # c => ~InStop(d)
      BY DEF OneStop, InStop
    <2>3. ~TokensPut
      BY <2>2 DEF TokensAreLast, InStop
    <2>4. mark[c] \in 0 .. submitted
      BY <1>0 DEF JobsAreSomewhere, TypeOK
    <2> QED
      BY <2>1, <2>2, <2>3, <2>4, PutTokensIInv DEF TypeOK
  <1> QED
    BY <1>1, <1>2, <1>3

LEMMA StopEndsIInv ==
  ASSUME IInv, NEW c \in Stoppers, Gathered(c) \/ CancelStop(c) PROVE IInv'
  <1> USE DEF IInv
  <1>0. c \in Callers /\ InStop(c)
    BY DEF Callers, Gathered, CancelStop, InStop
  <1>1. CASE Gathered(c)
    <2> USE <1>1 DEF Gathered
    <2>1. /\ \/ caller'[c] = "stopped" /\ \A w \in Workers : worker[w] = "done"
             \/ caller'[c] = "raised"
          /\ \A d \in Callers : d # c => caller'[d] = caller[d]
      BY <1>0 DEF TypeOK
    <2>2. TypeOK'
      BY <1>0 DEF TypeOK
    <2>3. CountIsExact' /\ OnlyRunningWork' /\ Gone' = Gone /\ Busy' = Busy
      BY CallerStep
    <2>4. JobsAreSomewhere'
      BY DEF JobsAreSomewhere
    <2>5. OneStop'
      BY <1>0, <2>1 DEF OneStop, InStop, Callers
    <2>6. TokensAreLast'
      <3>1. TokensPut
        BY DEF TokensPut
      <3> QED
        BY <1>0, <2>1, <2>3, <3>1 DEF TokensAreLast
    <2>7. JoinCoversEarlierJobs'
      BY <1>0, <2>1 DEF JoinCoversEarlierJobs
    <2> QED
      BY <2>2, <2>3, <2>4, <2>5, <2>6, <2>7
  <1>2. CASE CancelStop(c)
    <2> USE <1>2 DEF CancelStop
    <2>1. /\ caller'[c] = "cancelled"
          /\ \A d \in Callers : d # c => caller'[d] = caller[d]
      BY <1>0 DEF TypeOK
    <2>2. \A d \in Stoppers : d # c => ~InStop(d)
      BY <1>0 DEF OneStop
    <2>3. TypeOK'
      BY <1>0 DEF TypeOK
    <2>4. Gone' = Gone /\ Busy' = Busy
      BY DEF Gone, Busy
    <2>5. CountIsExact'
      BY <2>4, SameBusy DEF CountIsExact
    <2>6. OnlyRunningWork'
      <3>1. CASE caller[c] = "gathering"
        <4>1. Busy = {}
          BY <3>1 DEF TokensAreLast, TokensPut
        <4> QED
          BY <4>1 DEF OnlyRunningWork, Busy
      <3>2. CASE caller[c] # "gathering"
        BY <3>2 DEF OnlyRunningWork
      <3> QED
        BY <3>1, <3>2
    <2>7. JobsAreSomewhere'
      BY DEF JobsAreSomewhere
    <2>8. OneStop'
      BY <1>0, <2>1, <2>2 DEF OneStop, InStop, Callers
    <2>9. TokensAreLast'
      BY <2>1, <2>4, <1>0 DEF TokensAreLast, TokensPut, Callers
    <2>10. JoinCoversEarlierJobs'
      BY <2>1 DEF JoinCoversEarlierJobs
    <2> QED
      BY <2>3, <2>5, <2>6, <2>7, <2>8, <2>9, <2>10
  <1> QED
    BY <1>1, <1>2

LEMMA GetIInv == ASSUME IInv, NEW w \in Workers, Get(w) PROVE IInv'
  <1> USE DEF IInv, Get
  <1> DEFINE j == Head(queue)
  <1>1. /\ j \in Jobs /\ j # NoItem /\ j # StopToken
        /\ 1 \in DOMAIN queue /\ j = queue[1] /\ j \in 1 .. submitted
    BY TailIs, JobQueueAssumption DEF TypeOK, Jobs, NoItem, StopToken, JobsAreSomewhere
  <1>2. TypeOK'
    BY <1>1, TailIs DEF TypeOK
  <1>3. CountIsExact'
    <2>1. Cardinality(Busy)' = Cardinality(Busy) + 1
      BY <1>1, OneMoreBusy
    <2>2. Len(queue') = Len(queue) - 1 /\ Len(queue) \in Nat
      BY TailIs DEF TypeOK
    <2> QED
      BY <2>1, <2>2, SetsAreFinite DEF CountIsExact
  <1>4. OnlyRunningWork'
    BY DEF OnlyRunningWork, TypeOK
  <1>5. JobsAreSomewhere'
    <2>1. item'[w] = j /\ \A v \in Workers : v # w => item'[v] = item[v]
      BY DEF TypeOK
    <2>2. \A i \in 1 .. submitted :
            \/ i \in processed
            \/ \E k \in DOMAIN queue' : queue'[k] = i
            \/ \E v \in Workers : item'[v] = i
      <3> SUFFICES ASSUME NEW i \in 1 .. submitted, i \notin processed
                   PROVE  \/ \E k \in DOMAIN queue' : queue'[k] = i
                          \/ \E v \in Workers : item'[v] = i
        OBVIOUS
      <3>1. CASE \E k \in DOMAIN queue : queue[k] = i
        <4>1. PICK k \in DOMAIN queue : queue[k] = i
          BY <3>1
        <4>2. k = 1 \/ (k - 1 \in DOMAIN queue' /\ queue'[k - 1] = queue[k])
          BY <4>1, TailIs DEF TypeOK
        <4> QED
          BY <1>1, <2>1, <4>1, <4>2
      <3>2. CASE \E v \in Workers : item[v] = i
        BY <2>1, <3>2 DEF NoItem
      <3> QED
        BY <3>1, <3>2 DEF JobsAreSomewhere
    <2>3. \A k \in DOMAIN queue' : queue'[k] \in 1 .. submitted \cup {StopToken}
      BY TailIs DEF JobsAreSomewhere, TypeOK
    <2>4. \A v \in Workers : item'[v] \in 0 .. submitted
      BY <1>1, <2>1 DEF JobsAreSomewhere
    <2> QED
      BY <2>2, <2>3, <2>4 DEF JobsAreSomewhere
  <1>6. OneStop'
    BY DEF OneStop, InStop
  <1>7. TokensAreLast'
    <2>1. ~TokensPut
      BY <1>1 DEF TokensAreLast
    <2>2. \A k \in DOMAIN queue' : queue'[k] # StopToken
      BY <2>1, TailIs DEF TokensPut, TypeOK
    <2> QED
      BY <2>1, <2>2 DEF TokensAreLast, TokensPut, Gone
  <1>8. JoinCoversEarlierJobs'
    BY DEF JoinCoversEarlierJobs
  <1> QED
    BY <1>2, <1>3, <1>4, <1>5, <1>6, <1>7, <1>8

(* task_done wakes nobody but callers that wait in join, and only at zero. *)
LEMMA TaskDoneWakes ==
  ASSUME NEW w \in Workers, TaskDone(w)
  PROVE  \A c \in Callers : \/ caller'[c] = caller[c]
                            \/ caller[c] = "joining" /\ caller'[c] = "woken" /\ unfinished' = 0
  <1> TAKE c \in Callers
  <1>1. caller'[c] = IF unfinished' = 0 /\ caller[c] = "joining" THEN "woken" ELSE caller[c]
    BY DEF TaskDone
  <1> QED
    BY <1>1

LEMMA EndJobIInv ==
  ASSUME IInv, NEW w \in Workers, Return(w) \/ Raise(w) \/ Cancel(w) PROVE IInv'
  <1> USE DEF IInv
  <1> DEFINE j == item[w]
  <1>0. /\ j \in Jobs /\ j # NoItem /\ w \in Busy /\ worker[w] = "running"
        /\ TaskDone(w) /\ processed' = processed \cup {j}
        /\ UNCHANGED <<started, stopping, submitted, queue, mark>>
        /\ failures' = failures \/ failures' = Append(failures, j)
        /\ worker' = worker \/ worker' = [worker EXCEPT ![w] = "cancelled"]
    BY DEF Return, Raise, Cancel, Handling, OnlyRunningWork, Busy, NoItem, Jobs
  <1>1. /\ item' = [item EXCEPT ![w] = NoItem] /\ item'[w] = NoItem
        /\ \A v \in Workers : v # w => item'[v] = item[v]
    BY <1>0 DEF TaskDone, TypeOK
  <1>2. /\ Cardinality(Busy)' = Cardinality(Busy) - 1 /\ Cardinality(Busy)' \in Nat
        /\ unfinished' = unfinished - 1 /\ unfinished' \in Nat
        /\ unfinished' = Len(queue') + Cardinality(Busy)'
    <2>1. Cardinality(Busy)' = Cardinality(Busy) - 1
      BY <1>0, <1>1, OneLessBusy
    <2>2. Busy' \subseteq Busy
      BY <1>1 DEF Busy
    <2>3. Cardinality(Busy)' \in Nat
      BY <2>2, SetsAreFinite, FS_Subset, FS_CardinalityType
    <2>4. Len(queue) \in Nat
      BY DEF TypeOK
    <2>5. unfinished' = unfinished - 1 /\ queue' = queue
      BY <1>0 DEF TaskDone
    <2> QED
      BY <2>1, <2>3, <2>4, <2>5, SetsAreFinite DEF CountIsExact
  <1>3. TypeOK'
    <2>1. failures' \in Seq(Jobs)
      <3>1. failures \in Seq(Jobs) /\ j \in Jobs
        BY <1>0 DEF TypeOK
      <3> QED
        BY <1>0, <3>1, AppendIs
    <2>2. caller' \in [Callers -> {"idle", "joining", "woken", "returned", "unstarted",
                                   "skipped", "gathering", "stopped", "raised", "cancelled"}]
      BY <1>0 DEF TypeOK, TaskDone
    <2> QED
      BY <1>0, <1>1, <1>2, <2>1, <2>2 DEF TypeOK
  <1>4. CountIsExact'
    BY <1>2 DEF CountIsExact
  <1>5. OnlyRunningWork'
    BY <1>0, <1>1 DEF OnlyRunningWork, TypeOK
  <1>6. JobsAreSomewhere'
    <2>1. \A i \in 1 .. submitted :
            \/ i \in processed'
            \/ \E k \in DOMAIN queue : queue[k] = i
            \/ \E v \in Workers : item'[v] = i
      BY <1>0, <1>1 DEF JobsAreSomewhere
    <2>2. j \in 1 .. submitted /\ NoItem \in 0 .. submitted
      BY <1>0 DEF JobsAreSomewhere, Jobs, NoItem, TypeOK
    <2>3. \A v \in Workers : item'[v] \in 0 .. submitted
      BY <1>1, <2>2 DEF JobsAreSomewhere
    <2> QED
      BY <1>0, <2>1, <2>2, <2>3 DEF JobsAreSomewhere
  <1>7. ~TokensPut
    BY <1>0 DEF TokensAreLast
  <1>8. \A c \in Callers : \/ caller'[c] = caller[c]
                           \/ caller[c] = "joining" /\ caller'[c] = "woken" /\ unfinished' = 0
    BY <1>0, TaskDoneWakes
  <1>9. OneStop'
    <2>1. unfinished # 0
      BY <1>2 DEF TypeOK
    <2>2. \A c \in Stoppers : caller[c] # "stopped"
      BY <1>7 DEF TokensPut
    <2> QED
      BY <1>0, <1>8, <2>1, <2>2 DEF OneStop, InStop, Callers
  <1>10. TokensAreLast'
    <2>1. Gone' = Gone
      BY <1>0 DEF Gone, TypeOK
    <2>2. \A c \in Stoppers : c \in Callers
      BY DEF Callers
    <2>3. ~TokensPut'
      BY <1>0, <1>7, <1>8, <2>1, <2>2 DEF TokensPut
    <2> QED
      BY <2>3 DEF TokensAreLast
  <1>11. JoinCoversEarlierJobs'
    <2>1. unfinished' = 0 => processed' = 1 .. submitted
      <3>1. (TypeOK /\ CountIsExact /\ JobsAreSomewhere /\ unfinished = 0
               => queue = <<>> /\ Busy = {} /\ processed = 1 .. submitted)'
        BY ZeroMeansProcessed, PTL
      <3> QED
        BY <1>0, <1>3, <1>4, <1>6, <3>1
    <2> QED
      BY <1>0, <1>6, <1>8, <2>1 DEF JoinCoversEarlierJobs, JobsAreSomewhere, TypeOK
  <1> QED
    BY <1>3, <1>4, <1>5, <1>6, <1>9, <1>10, <1>11

LEMMA TakeTokenIInv == ASSUME IInv, NEW w \in Workers, TakeToken(w) PROVE IInv'
  <1> USE DEF IInv, TakeToken
  <1>0. /\ 1 \in DOMAIN queue /\ queue[1] = StopToken /\ TokensPut
        /\ Len(queue) \in Nat \ {0} /\ Len(queue') = Len(queue) - 1
        /\ queue' \in Seq(Jobs \cup {StopToken})
        /\ \A k \in DOMAIN queue' : k + 1 \in DOMAIN queue /\ queue'[k] = queue[k + 1]
    BY TailIs DEF TypeOK, TokensPut
  <1>1. /\ Busy = {} /\ processed = 1 .. submitted
        /\ \A k \in DOMAIN queue' : queue'[k] = StopToken
        /\ \A v \in Workers : item[v] = NoItem
    BY <1>0 DEF TokensAreLast, Busy
  <1>2. item' = item /\ Busy' = Busy /\ Cardinality(Busy)' = 0
    <2>1. item' = item
      BY <1>1 DEF TaskDone, TypeOK
    <2> QED
      BY <1>1, <2>1, SameBusy, FS_EmptySet
  <1>3. unfinished = Len(queue) /\ unfinished' = Len(queue')
    <2>1. Cardinality(Busy) = 0
      BY <1>1, FS_EmptySet
    <2> QED
      BY <1>0, <2>1 DEF TaskDone, CountIsExact
  <1>4. TypeOK'
    <2>1. caller' \in [Callers -> {"idle", "joining", "woken", "returned", "unstarted",
                                   "skipped", "gathering", "stopped", "raised", "cancelled"}]
      BY DEF TypeOK, TaskDone
    <2>2. unfinished' \in Nat
      BY <1>0, <1>3
    <2> QED
      BY <1>0, <1>2, <2>1, <2>2 DEF TypeOK
  <1>5. CountIsExact'
    BY <1>0, <1>2, <1>3 DEF CountIsExact
  <1>6. OnlyRunningWork'
    BY <1>1, <1>2 DEF OnlyRunningWork
  <1>7. JobsAreSomewhere'
    BY <1>1, <1>2 DEF JobsAreSomewhere
  <1>8. \A c \in Callers : \/ caller'[c] = caller[c]
                           \/ caller[c] = "joining" /\ caller'[c] = "woken" /\ unfinished' = 0
    BY TaskDoneWakes
  <1>9. OneStop'
    <2>1. unfinished # 0 /\ \A c \in Stoppers : caller[c] # "stopped"
      BY <1>0, <1>3 DEF OneStop
    <2> QED
      BY <1>8, <2>1 DEF OneStop, InStop, Callers
  <1>10. TokensAreLast'
    <2>1. \E c \in Stoppers : caller'[c] \in {"gathering", "stopped", "raised", "cancelled"}
      BY <1>0, <1>8 DEF TokensAreLast, Callers
    <2>2. Cardinality(Gone)' = Cardinality(Gone) + 1
      <3>1. Gone' = Gone \cup {w} /\ w \notin Gone
        BY DEF Gone, TypeOK
      <3> QED
        BY <3>1, SetsAreFinite, FS_AddElement
    <2>3. Len(queue') + Cardinality(Gone)' <= Cardinality(Workers)
      BY <1>0, <2>2, SetsAreFinite, TokensAre DEF TokensAreLast
    <2> QED
      BY <1>1, <1>2, <2>1, <2>3 DEF TokensAreLast
  <1>11. JoinCoversEarlierJobs'
    BY <1>1, <1>8 DEF JoinCoversEarlierJobs, JobsAreSomewhere, TypeOK
  <1> QED
    BY <1>4, <1>5, <1>6, <1>7, <1>9, <1>10, <1>11

LEMMA NextIInv == IInv /\ [Next]_vars => IInv'
  <1> SUFFICES ASSUME IInv, [Next]_vars PROVE IInv'
    OBVIOUS
  <1>1. CASE UNCHANGED vars
    BY <1>1 DEF vars, IInv, TypeOK, CountIsExact, OnlyRunningWork, JobsAreSomewhere, OneStop,
       TokensAreLast, TokensPut, JoinCoversEarlierJobs, InStop, Gone, Busy
  <1>2. ASSUME NEW w \in Workers, Work(w) PROVE IInv'
    BY <1>2, GetIInv, EndJobIInv, TakeTokenIInv DEF Work
  <1>3. ASSUME NEW c \in Stoppers, StopTask(c) PROVE IInv'
    BY <1>3, StopIInv, StopEndsIInv DEF StopTask
  <1> QED
    BY <1>1, <1>2, <1>3, StartIInv, SubmitIInv, JoinIInv DEF Next

-----------------------------------------------------------------------------
(* Every job is in one place only.                                         *)
JobsAreOnce ==
  /\ \A k, l \in DOMAIN queue : queue[k] = queue[l] /\ queue[k] # StopToken => k = l
  /\ \A v, w \in Workers : item[v] = item[w] /\ item[v] # NoItem => v = w
  /\ \A k \in DOMAIN queue : queue[k] \notin processed
  /\ \A k \in DOMAIN queue, w \in Workers : queue[k] # item[w]
  /\ \A w \in Workers : item[w] \notin processed

LEMMA InitJobsOnce == Init => JobsAreOnce
  BY DEF Init, JobsAreOnce

LEMMA NumbersOfItems ==
  ASSUME TypeOK
  PROVE  /\ StopToken \notin Jobs /\ NoItem \notin Jobs /\ NoItem # StopToken
         /\ processed \subseteq Jobs
         /\ \A w \in Workers : item[w] \in Jobs \cup {NoItem}
         /\ \A k \in DOMAIN queue : queue[k] \in Jobs \cup {StopToken}
  BY JobQueueAssumption DEF TypeOK, Jobs, NoItem, StopToken

LEMMA SubmitJobsOnce == ASSUME IInv, JobsAreOnce, Submit PROVE JobsAreOnce'
  <1> DEFINE new == submitted + 1
  <1>1. /\ new \in Jobs /\ submitted \in Nat
        /\ new # StopToken
    BY JobQueueAssumption DEF IInv, TypeOK, Jobs, StopToken, Submit, Accepting
  <1>2. /\ \A k \in DOMAIN queue : queue[k] # new
        /\ \A w \in Workers : item[w] # new
        /\ new \notin processed
    BY <1>1 DEF IInv, JobsAreSomewhere
  <1>3. /\ \A k \in DOMAIN queue : k \in DOMAIN queue' /\ queue'[k] = queue[k]
        /\ queue'[Len(queue) + 1] = new
        /\ \A k \in DOMAIN queue' : k \in DOMAIN queue \/ k = Len(queue) + 1
    BY <1>1, AppendIs DEF IInv, TypeOK, Submit
  <1>4. UNCHANGED <<item, processed>>
    BY DEF Submit
  <1> HIDE DEF new
  <1> QED
    BY <1>2, <1>3, <1>4 DEF JobsAreOnce

LEMMA TailJobsOnce ==
  ASSUME IInv, JobsAreOnce, NEW w \in Workers, Get(w) \/ TakeToken(w) PROVE JobsAreOnce'
  <1>0. /\ queue # <<>> /\ queue' = Tail(queue) /\ processed' = processed
        /\ item[w] = NoItem /\ w \in Workers
    BY DEF Get, TakeToken
  <1>1. /\ \A k \in DOMAIN queue' : k \in Int /\ k + 1 \in DOMAIN queue /\ queue'[k] = queue[k + 1]
        /\ 1 \in DOMAIN queue /\ Head(queue) = queue[1]
        /\ \A k \in DOMAIN queue' : k + 1 # 1
    BY <1>0, TailIs DEF IInv, TypeOK
  <1>2. \A k, l \in DOMAIN queue' :
          queue'[k] = queue'[l] /\ queue'[k] # StopToken => k = l
    <2> SUFFICES ASSUME NEW k \in DOMAIN queue', NEW l \in DOMAIN queue',
                        queue'[k] = queue'[l], queue'[k] # StopToken
                 PROVE  k = l
      OBVIOUS
    <2>1. k + 1 = l + 1
      BY <1>1 DEF JobsAreOnce
    <2> QED
      BY <1>1, <2>1
  <1>3. CASE Get(w)
    <2>1. /\ item'[w] = queue[1] /\ queue[1] \in Jobs
          /\ \A v \in Workers : v # w => item'[v] = item[v]
      BY <1>1, <1>3 DEF Get, IInv, TypeOK
    <2>2. \A k \in DOMAIN queue' : queue'[k] # queue[1]
      <3>1. queue[1] # StopToken
        BY <2>1, NumbersOfItems DEF IInv
      <3>2. \A l \in DOMAIN queue : queue[1] = queue[l] => l = 1
        BY <1>1, <3>1 DEF JobsAreOnce
      <3> QED
        BY <1>1, <3>2
    <2> QED
      BY <1>0, <1>1, <1>2, <2>1, <2>2 DEF JobsAreOnce
  <1>4. CASE TakeToken(w)
    <2>1. \A v \in Workers : item'[v] = item[v]
      BY <1>0, <1>4 DEF TakeToken, TaskDone, IInv, TypeOK
    <2> QED
      BY <1>0, <1>1, <1>2, <2>1 DEF JobsAreOnce
  <1> QED
    BY <1>3, <1>4

LEMMA EndJobJobsOnce ==
  ASSUME IInv, JobsAreOnce, NEW w \in Workers, Return(w) \/ Raise(w) \/ Cancel(w)
  PROVE  JobsAreOnce'
  <1>1. /\ item[w] \in Jobs /\ processed' = processed \cup {item[w]}
        /\ queue' = queue /\ item' = [item EXCEPT ![w] = NoItem]
    BY DEF Return, Raise, Cancel, TaskDone, Handling
  <1>2. item'[w] = NoItem /\ \A v \in Workers : v # w => item'[v] = item[v]
    BY <1>1 DEF IInv, TypeOK
  <1>3. /\ \A k \in DOMAIN queue : queue[k] # NoItem
        /\ NoItem \notin processed /\ item[w] # NoItem
    BY <1>1, NumbersOfItems DEF IInv
  <1>4. \A v \in Workers : v # w => item[v] # item[w]
    BY <1>3 DEF JobsAreOnce
  <1> QED
    BY <1>1, <1>2, <1>3, <1>4 DEF JobsAreOnce

(* The tokens are put into an empty queue.                                 *)
LEMMA PutTokensJobsOnce ==
  ASSUME IInv, JobsAreOnce, NEW c \in Stoppers, PutTokens(c), unfinished = 0,
         UNCHANGED <<item, processed>>
  PROVE  JobsAreOnce'
  <1>1. queue' = <<>> \o Tokens
    BY ZeroMeansProcessed DEF IInv, PutTokens
  <1>2. \A k \in DOMAIN queue' : queue'[k] = StopToken
    BY <1>1, TokensAre
  <1> QED
    BY <1>2, NumbersOfItems DEF IInv, JobsAreOnce

LEMMA NextJobsOnce == IInv /\ JobsAreOnce /\ [Next]_vars => JobsAreOnce'
  <1> SUFFICES ASSUME IInv, JobsAreOnce, [Next]_vars PROVE JobsAreOnce'
    OBVIOUS
  <1>1. CASE UNCHANGED <<queue, item, processed>>
    BY <1>1 DEF JobsAreOnce
  <1>2. CASE Start \/ (\E c \in Joiners : JoinTask(c))
    BY <1>1, <1>2 DEF Start, JoinTask, Join, JoinReturns
  <1>3. ASSUME NEW w \in Workers, Work(w) PROVE JobsAreOnce'
    BY <1>3, TailJobsOnce, EndJobJobsOnce DEF Work
  <1>4. ASSUME NEW c \in Stoppers, StopTask(c) PROVE JobsAreOnce'
    <2>1. CASE StopSkips(c) \/ Gathered(c) \/ CancelStop(c)
      BY <1>1, <2>1 DEF StopSkips, Gathered, CancelStop
    <2>2. CASE Stop(c)
      <3>1. CASE Drained
        BY <2>2, <3>1, PutTokensJobsOnce DEF Stop, Drained
      <3>2. CASE ~Drained
        BY <1>1, <2>2, <3>2 DEF Stop
      <3> QED
        BY <3>1, <3>2
    <2>3. CASE StopResumes(c)
      <3>1. unfinished = 0
        BY <2>3 DEF StopResumes, IInv, OneStop
      <3> QED
        BY <2>3, <3>1, PutTokensJobsOnce DEF StopResumes
    <2> QED
      BY <1>4, <2>1, <2>2, <2>3 DEF StopTask
  <1> QED
    BY <1>1, <1>2, <1>3, <1>4, SubmitJobsOnce DEF Next, vars

LEMMA SpecIInv == Spec => [](IInv /\ JobsAreOnce)
  BY InitIInv, NextIInv, InitJobsOnce, NextJobsOnce, PTL DEF Spec

(* Whatever is in exactly one of three places is counted once.             *)
LEMMA CountedOnce ==
  ASSUME NEW A, NEW B, NEW C,
         \/ (\E x : A = {x}) /\ B = {} /\ C = {}
         \/ A = {} /\ (\E x : B = {x}) /\ C = {}
         \/ A = {} /\ B = {} /\ (\E x : C = {x})
  PROVE  Cardinality(A) + Cardinality(B) + Cardinality(C) = 1
  <1> DEFINE n(S) == Cardinality(S)
  <1>1. n({}) = 0
    BY FS_EmptySet
  <1>2. \A x : n({x}) = 1
    BY FS_Singleton
  <1>3. ASSUME NEW S, \E x : S = {x} PROVE n(S) = 1
    BY <1>2, <1>3
  <1> HIDE DEF n
  <1>4. n(A) + n(B) + n(C) = 1
    BY <1>1, <1>3
  <1> QED
    BY <1>4 DEF n

LEMMA JobsAreCounted ==
  ASSUME IInv, JobsAreOnce PROVE UnfinishedIsWhatIsLeft
  <1>1. ASSUME NEW j \in 1 .. submitted
        PROVE  Cardinality({k \in DOMAIN queue : queue[k] = j})
                 + Cardinality({w \in Workers : item[w] = j})
                 + Cardinality({j} \cap processed) = 1
    <2> DEFINE A == {k \in DOMAIN queue : queue[k] = j}
               B == {w \in Workers : item[w] = j}
               C == {j} \cap processed
    <2>1. j # StopToken /\ j # NoItem
      BY JobQueueAssumption DEF IInv, TypeOK, Jobs, NoItem, StopToken
    <2> DEFINE Alone == \/ (\E x : A = {x}) /\ B = {} /\ C = {}
                        \/ A = {} /\ (\E x : B = {x}) /\ C = {}
                        \/ A = {} /\ B = {} /\ (\E x : C = {x})
    <2>2. ASSUME j \in processed PROVE Alone
      <3>1. A = {} /\ B = {} /\ C = {j}
        BY <2>2 DEF JobsAreOnce
      <3> QED
        BY <3>1
    <2>3. ASSUME NEW k \in DOMAIN queue, queue[k] = j PROVE Alone
      <3>1. A = {k} /\ B = {} /\ C = {}
        BY <2>1, <2>3 DEF JobsAreOnce
      <3> QED
        BY <3>1
    <2>4. ASSUME NEW w \in Workers, item[w] = j PROVE Alone
      <3>1. A = {} /\ B = {w} /\ C = {}
        BY <2>1, <2>4 DEF JobsAreOnce
      <3> QED
        BY <3>1
    <2>5. Alone
      BY <2>2, <2>3, <2>4 DEF IInv, JobsAreSomewhere
    <2> HIDE DEF A, B, C
    <2>6. Cardinality(A) + Cardinality(B) + Cardinality(C) = 1
      BY <2>5, CountedOnce
    <2> QED
      BY <2>6 DEF A, B, C
  <1> QED
    BY <1>1 DEF UnfinishedIsWhatIsLeft, IInv, CountIsExact

-----------------------------------------------------------------------------
(* DeploymentRollback                                                      *)

RollbackCountIsExact ==
  /\ pending = Len(stack) + Cardinality(Rollback!Claimed)
  /\ pending + Cardinality(ended) = registered

(* The stack holds actions in the order of registration, and whoever       *)
(* claimed one did so when no more had been registered than now.           *)
StackIsOrdered ==
  /\ \A k, l \in DOMAIN stack : k < l => stack[k] < stack[l]
  /\ \A k \in DOMAIN stack : stack[k] <= registered
  /\ \A a \in Rollback!Actions : atClaim[a] <= registered
  /\ Rollback!ClaimedInReverse

ActionsAreSomewhere ==
  /\ \A a \in 1 .. registered :
       \/ a \in ended
       \/ \E k \in DOMAIN stack : stack[k] = a
       \/ \E r \in Rollbackers : action[r] = a
  /\ \A r \in Rollbackers : action[r] <= registered
  /\ ended \subseteq 1 .. registered
  /\ \A c \in Joiners : atJoin[c] <= registered

ActionsAreOnce ==
  /\ \A q, r \in Rollbackers : action[q] = action[r] /\ action[q] # 0 => q = r
  /\ \A k \in DOMAIN stack : stack[k] \notin ended
  /\ \A k \in DOMAIN stack, r \in Rollbackers : stack[k] # action[r]
  /\ \A r \in Rollbackers : action[r] \notin ended
  /\ \A r \in Rollbackers : action[r] # 0 <=> rollbacker[r] \in {"claimed", "running"}

(* A handler that was called has ended or is being run.                    *)
HandlersAreOnce ==
  /\ \A k, l \in DOMAIN ran : k # l => ran[k] # ran[l]
  /\ \A k \in DOMAIN ran :
       \/ ran[k] \in ended
       \/ \E r \in Rollbackers : rollbacker[r] = "running" /\ action[r] = ran[k]

RollbackIInv ==
  /\ Rollback!TypeOK /\ RollbackCountIsExact /\ StackIsOrdered
  /\ ActionsAreSomewhere /\ ActionsAreOnce /\ HandlersAreOnce
  /\ Rollback!JoinCoversEarlierActions

LEMMA RollbackConstants ==
  /\ IsFiniteSet(Rollbackers) /\ MaxActions \in Nat
  /\ Rollback!NoAction = 0 /\ Rollback!Actions = 1 .. MaxActions
  /\ \A S : Rollback!Cardinality(S) = Cardinality(S)
  <1>1. Rollback!IsFiniteSet(Rollbackers) /\ MaxActions \in Nat
    BY QueuesAssumption DEF Rollback!RollbackAssumption
  <1>2. IsFiniteSet(Rollbackers)
    BY <1>1 DEF Rollback!IsFiniteSet, IsFiniteSet
  <1>3. \A S : Rollback!Cardinality(S) = Cardinality(S)
    BY DEF Rollback!Cardinality, Cardinality, Rollback!IsFiniteSet, IsFiniteSet
  <1> QED
    BY <1>1, <1>2, <1>3 DEF Rollback!NoAction, Rollback!Actions

LEMMA ClaimedIsFinite ==
  /\ IsFiniteSet(Rollback!Claimed) /\ Cardinality(Rollback!Claimed) \in Nat
  <1>1. Rollback!Claimed \subseteq Rollbackers
    BY DEF Rollback!Claimed
  <1> QED
    BY <1>1, RollbackConstants, FS_Subset, FS_CardinalityType

LEMMA EndedIsFinite ==
  ASSUME Rollback!TypeOK
  PROVE  IsFiniteSet(ended) /\ Cardinality(ended) \in Nat
  <1>1. ended \subseteq 1 .. MaxActions /\ IsFiniteSet(1 .. MaxActions)
    BY RollbackConstants, FS_Interval DEF Rollback!TypeOK
  <1> QED
    BY <1>1, FS_Subset, FS_CardinalityType

LEMMA InitRollback == Rollback!Init => RollbackIInv
  <1> SUFFICES ASSUME Rollback!Init PROVE RollbackIInv
    OBVIOUS
  <1> USE DEF Rollback!Init
  <1>1. Rollback!TypeOK
    <2>1. /\ stack \in Seq(Rollback!Actions) /\ ran \in Seq(Rollback!Actions)
          /\ 0 \in 0 .. MaxActions
      BY RollbackConstants
    <2> QED
      BY <2>1 DEF Rollback!TypeOK
  <1>2. RollbackCountIsExact
    <2>1. Rollback!Claimed = {} /\ ended = {} /\ Len(stack) = 0
      BY DEF Rollback!Claimed
    <2> QED
      BY <2>1, FS_EmptySet DEF RollbackCountIsExact
  <1>3. StackIsOrdered
    BY DEF StackIsOrdered, Rollback!ClaimedInReverse
  <1>4. ActionsAreSomewhere /\ ActionsAreOnce
    BY RollbackConstants DEF ActionsAreSomewhere, ActionsAreOnce
  <1>5. HandlersAreOnce /\ Rollback!JoinCoversEarlierActions
    BY DEF HandlersAreOnce, Rollback!JoinCoversEarlierActions
  <1> QED
    BY <1>1, <1>2, <1>3, <1>4, <1>5 DEF RollbackIInv

LEMMA StackItems ==
  ASSUME Rollback!TypeOK
  PROVE  \A k \in DOMAIN stack : stack[k] \in Rollback!Actions /\ stack[k] \in Int
  <1>1. \A k \in DOMAIN stack : stack[k] \in Rollback!Actions
    BY DEF Rollback!TypeOK
  <1> QED
    BY <1>1 DEF Rollback!Actions

LEMMA RegisterRollback == ASSUME RollbackIInv, Rollback!Register PROVE RollbackIInv'
  <1> USE DEF RollbackIInv
  <1> DEFINE new == registered + 1
  <1>1. /\ new \in Rollback!Actions /\ registered \in Nat /\ new \in 0 .. MaxActions
        /\ registered' = new /\ pending' = pending + 1
        /\ UNCHANGED <<rollbacker, action, joiner, ran, ended, atClaim, atJoin>>
    BY RollbackConstants DEF Rollback!TypeOK, Rollback!Register
  <1>2. /\ stack' \in Seq(Rollback!Actions) /\ Len(stack') = Len(stack) + 1 /\ Len(stack) \in Nat
        /\ \A k \in DOMAIN stack : k \in DOMAIN stack' /\ stack'[k] = stack[k] /\ k < Len(stack) + 1
        /\ Len(stack) + 1 \in DOMAIN stack' /\ stack'[Len(stack) + 1] = new
        /\ \A k \in DOMAIN stack' : k \in DOMAIN stack \/ k = Len(stack) + 1
        /\ \A k \in DOMAIN stack' : ~ (Len(stack) + 1 < k)
    BY <1>1, AppendIs DEF Rollback!TypeOK, Rollback!Register
  <1>3. Rollback!Claimed' = Rollback!Claimed
    BY <1>1 DEF Rollback!Claimed
  <1>4. RollbackCountIsExact'
    BY <1>1, <1>2, <1>3, ClaimedIsFinite, EndedIsFinite DEF RollbackCountIsExact, Rollback!TypeOK
  <1>5. Rollback!TypeOK'
    <2>1. pending' + Cardinality(ended) = new
      BY <1>1, <1>4 DEF RollbackCountIsExact
    <2>2. pending' \in Nat
      BY <1>1 DEF Rollback!TypeOK
    <2>3. Cardinality(ended) \in Nat /\ new \in 0 .. MaxActions
      BY <1>1, EndedIsFinite
    <2> HIDE DEF RollbackIInv, new
    <2>4. pending' \in 0 .. MaxActions
      BY <2>1, <2>2, <2>3, RollbackConstants
    <2> QED
      BY <1>1, <1>2, <2>4 DEF Rollback!TypeOK, RollbackIInv, new
  <1>6. /\ \A k \in DOMAIN stack : stack[k] \in Int /\ stack[k] < new /\ stack[k] <= new
        /\ \A a \in Rollback!Actions : atClaim[a] <= new /\ new > atClaim[a]
        /\ new <= new
    <2>1. ASSUME NEW k \in DOMAIN stack
          PROVE  stack[k] \in Int /\ stack[k] < new /\ stack[k] <= new
      <3>1. stack[k] <= registered
        BY DEF StackIsOrdered
      <3>2. stack[k] \in Int
        BY StackItems
      <3> QED
        BY <1>1, <3>1, <3>2
    <2>2. ASSUME NEW a \in Rollback!Actions PROVE atClaim[a] <= new /\ new > atClaim[a]
      <3>1. atClaim[a] \in Int /\ atClaim[a] <= registered
        BY DEF StackIsOrdered, Rollback!TypeOK
      <3> QED
        BY <1>1, <3>1
    <2>3. new <= new
      BY <1>1
    <2> QED
      BY <2>1, <2>2, <2>3
  <1>7. StackIsOrdered'
    <2>1. 1 .. new - 1 \subseteq Rollback!Actions
      <3>1. new \in 0 .. MaxActions /\ MaxActions \in Nat
        BY <1>1, RollbackConstants
      <3> HIDE DEF new, RollbackIInv
      <3> QED
        BY <3>1 DEF Rollback!Actions
    <2> HIDE DEF new
    <2>2. Rollback!ClaimedInReverse'
      BY <1>1, <1>2, <1>6, <2>1 DEF StackIsOrdered, Rollback!ClaimedInReverse
    <2>3. \A k, l \in DOMAIN stack' : k < l => stack'[k] < stack'[l]
      BY <1>2, <1>6 DEF StackIsOrdered
    <2>4. \A k \in DOMAIN stack' : stack'[k] <= new
      BY <1>2, <1>6
    <2> QED
      BY <1>1, <1>6, <2>2, <2>3, <2>4 DEF StackIsOrdered
  <1>8. /\ \A a \in 1 .. new : a \in 1 .. registered \/ a = new
        /\ 1 .. registered \subseteq 1 .. new
        /\ \A r \in Rollbackers : action[r] <= new /\ action[r] # new
        /\ \A c \in Joiners : atJoin[c] <= new
        /\ new \notin ended
    BY <1>1 DEF ActionsAreSomewhere, Rollback!TypeOK, Rollback!Actions, Rollback!NoAction
  <1> HIDE DEF new
  <1>9. ActionsAreSomewhere'
    BY <1>1, <1>2, <1>8 DEF ActionsAreSomewhere
  <1>10. ActionsAreOnce'
    BY <1>1, <1>2, <1>6, <1>8 DEF ActionsAreOnce
  <1>11. HandlersAreOnce' /\ Rollback!JoinCoversEarlierActions'
    BY <1>1 DEF HandlersAreOnce, Rollback!JoinCoversEarlierActions
  <1> QED
    BY <1>4, <1>5, <1>7, <1>9, <1>10, <1>11

(* The steps of a worker that neither claims nor ends anything.            *)
LEMMA IdleRollback ==
  ASSUME RollbackIInv, NEW r \in Rollbackers, Rollback!Drain(r) \/ Rollback!DrainReturns(r)
  PROVE  RollbackIInv'
  <1> USE DEF RollbackIInv
  <1>1. PICK s \in {"taking", "returned"} : rollbacker' = [rollbacker EXCEPT ![r] = s]
    BY DEF Rollback!Drain, Rollback!DrainReturns
  <1>2. /\ UNCHANGED <<registered, stack, pending, action, joiner, ran, ended, atClaim, atJoin>>
        /\ rollbacker[r] \notin {"claimed", "running"}
    BY DEF Rollback!Drain, Rollback!DrainReturns
  <1>3. /\ rollbacker'[r] \notin {"claimed", "running"}
        /\ \A q \in Rollbackers : q # r => rollbacker'[q] = rollbacker[q]
    BY <1>1 DEF Rollback!TypeOK
  <1>4. Rollback!TypeOK'
    BY <1>1, <1>2 DEF Rollback!TypeOK
  <1>5. RollbackCountIsExact' /\ StackIsOrdered' /\ ActionsAreSomewhere'
    BY <1>2 DEF RollbackCountIsExact, StackIsOrdered, ActionsAreSomewhere, Rollback!Claimed,
           Rollback!ClaimedInReverse
  <1>6. ActionsAreOnce'
    BY <1>2, <1>3 DEF ActionsAreOnce
  <1>7. HandlersAreOnce' /\ Rollback!JoinCoversEarlierActions'
    BY <1>2, <1>3 DEF HandlersAreOnce, Rollback!JoinCoversEarlierActions
  <1> QED
    BY <1>4, <1>5, <1>6, <1>7

LEMMA FrontIs ==
  ASSUME NEW S, NEW s \in Seq(S), s # <<>>
  PROVE  LET f == SubSeq(s, 1, Len(s) - 1) IN
         /\ f \in Seq(S) /\ Len(s) \in DOMAIN s /\ s[Len(s)] \in S
         /\ Len(s) \in Nat /\ Len(f) = Len(s) - 1
         /\ \A k \in DOMAIN f : k \in DOMAIN s /\ f[k] = s[k] /\ k < Len(s)
         /\ \A k \in DOMAIN s : k \in DOMAIN f \/ k = Len(s)
  <1> DEFINE n == Len(s)
             f == SubSeq(s, 1, n - 1)
  <1>1. n \in Nat \ {0} /\ DOMAIN s = 1 .. n /\ \A k \in 1 .. n : s[k] \in S
    OBVIOUS
  <1> HIDE DEF n
  <1>2. 1 \in Int /\ n - 1 \in Int /\ n - 1 \in Nat
    BY <1>1
  <1>3. /\ f \in Seq(S) /\ Len(f) = n - 1
        /\ \A k \in 1 .. n - 1 : f[k] = s[k]
    BY <1>1, <1>2, SubSeqProperties DEF n
  <1>4. DOMAIN f = 1 .. n - 1
    BY <1>3
  <1> QED
    BY <1>1, <1>3, <1>4 DEF n

LEMMA TakeRollback ==
  ASSUME RollbackIInv, NEW r \in Rollbackers, Rollback!Take(r) PROVE RollbackIInv'
  <1> USE DEF RollbackIInv
  <1> DEFINE n == Len(stack)
             top == stack[n]
  <1>1. /\ stack' \in Seq(Rollback!Actions) /\ n \in DOMAIN stack /\ top \in Rollback!Actions
        /\ n \in Nat /\ Len(stack') = n - 1
        /\ \A k \in DOMAIN stack' : k \in DOMAIN stack /\ stack'[k] = stack[k] /\ k < n
        /\ \A k \in DOMAIN stack : k \in DOMAIN stack' \/ k = n
    BY FrontIs DEF Rollback!Take, Rollback!TypeOK
  <1>2. /\ action' = [action EXCEPT ![r] = top]
        /\ rollbacker' = [rollbacker EXCEPT ![r] = "claimed"]
        /\ atClaim' = [atClaim EXCEPT ![top] = registered]
        /\ UNCHANGED <<registered, pending, joiner, ran, ended, atJoin>>
        /\ rollbacker[r] = "taking"
    BY DEF Rollback!Take
  <1> HIDE DEF top, n
  <1>3. /\ action'[r] = top /\ rollbacker'[r] = "claimed" /\ atClaim'[top] = registered
        /\ \A q \in Rollbackers : q # r => action'[q] = action[q] /\ rollbacker'[q] = rollbacker[q]
        /\ \A a \in Rollback!Actions : a # top => atClaim'[a] = atClaim[a]
    BY <1>1, <1>2 DEF Rollback!TypeOK
  <1>4. action[r] = 0 /\ top # 0
    BY <1>1, <1>2, RollbackConstants DEF ActionsAreOnce
  <1>5. Rollback!TypeOK'
    BY <1>1, <1>2 DEF Rollback!TypeOK
  <1>6. RollbackCountIsExact'
    <2>1. Rollback!Claimed' = Rollback!Claimed \cup {r} /\ r \notin Rollback!Claimed
      BY <1>3, <1>4 DEF Rollback!Claimed, Rollback!NoAction
    <2>2. Cardinality(Rollback!Claimed') = Cardinality(Rollback!Claimed) + 1
      BY <2>1, ClaimedIsFinite, FS_AddElement
    <2> QED
      BY <1>1, <1>2, <2>2, ClaimedIsFinite DEF RollbackCountIsExact, n
  <1>7. StackIsOrdered'
    <2>1. registered <= registered
      BY DEF Rollback!TypeOK
    <2>2. Rollback!ClaimedInReverse'
      <3> SUFFICES ASSUME NEW k \in DOMAIN stack', NEW b \in 1 .. stack'[k] - 1
                   PROVE  stack'[k] > atClaim'[b]
        BY DEF Rollback!ClaimedInReverse
      <3>1. stack[k] < top /\ stack[k] \in 1 .. MaxActions
        <4>1. k \in DOMAIN stack /\ k < n /\ n \in DOMAIN stack
          BY <1>1
        <4>2. stack[k] < stack[n]
          BY <4>1 DEF StackIsOrdered
        <4> QED
          BY <4>1, <4>2, StackItems, RollbackConstants DEF top
      <3>2. b \in 1 .. stack[k] - 1 /\ stack'[k] = stack[k]
        BY <1>1
      <3>3. b # top /\ b \in Rollback!Actions
        BY <1>1, <3>1, <3>2, RollbackConstants
      <3> QED
        BY <1>1, <1>3, <3>2, <3>3 DEF StackIsOrdered, Rollback!ClaimedInReverse
    <2> QED
      BY <1>1, <1>2, <1>3, <2>1, <2>2 DEF StackIsOrdered
  <1>8. \A k \in DOMAIN stack' : stack'[k] # top
    BY <1>1 DEF StackIsOrdered, Rollback!TypeOK, Rollback!Actions, top
  <1>9. ActionsAreSomewhere'
    <2>1. top <= registered
      BY <1>1 DEF StackIsOrdered, top
    <2>2. \A r1 \in Rollbackers : action'[r1] <= registered
      BY <1>3, <2>1 DEF ActionsAreSomewhere
    <2>3. ASSUME NEW a \in 1 .. registered
          PROVE  \/ a \in ended
                 \/ \E k \in DOMAIN stack' : stack'[k] = a
                 \/ \E q \in Rollbackers : action'[q] = a
      <3>1. CASE \E k \in DOMAIN stack : stack[k] = a
        BY <1>1, <1>3, <3>1 DEF top
      <3>2. CASE \E q \in Rollbackers : action[q] = a
        <4>1. a # 0
          OBVIOUS
        <4> QED
          BY <1>3, <1>4, <3>2, <4>1
      <3> QED
        BY <3>1, <3>2 DEF ActionsAreSomewhere
    <2> QED
      BY <1>2, <2>2, <2>3 DEF ActionsAreSomewhere
  <1>10. ActionsAreOnce'
    <2>1. top \notin ended /\ \A q \in Rollbackers : action[q] # top
      BY <1>1 DEF ActionsAreOnce, top
    <2> QED
      BY <1>1, <1>2, <1>3, <1>4, <1>8, <2>1 DEF ActionsAreOnce
  <1>11. HandlersAreOnce' /\ Rollback!JoinCoversEarlierActions'
    BY <1>2, <1>3 DEF HandlersAreOnce, Rollback!JoinCoversEarlierActions
  <1> QED
    BY <1>5, <1>6, <1>7, <1>9, <1>10, <1>11

LEMMA CallRollback ==
  ASSUME RollbackIInv, NEW r \in Rollbackers, Rollback!CallHandler(r) PROVE RollbackIInv'
  <1> USE DEF RollbackIInv
  <1> DEFINE a == action[r]
  <1>1. /\ rollbacker[r] = "claimed" /\ rollbacker' = [rollbacker EXCEPT ![r] = "running"]
        /\ UNCHANGED <<registered, stack, pending, action, joiner, ended, atClaim, atJoin>>
        /\ ran' = Append(ran, a)
    BY DEF Rollback!CallHandler
  <1>2. a # 0 /\ a \in Rollback!Actions
    BY <1>1 DEF ActionsAreOnce, Rollback!TypeOK, Rollback!NoAction
  <1> HIDE DEF a
  <1>3. /\ ran' \in Seq(Rollback!Actions)
        /\ \A k \in DOMAIN ran : k \in DOMAIN ran' /\ ran'[k] = ran[k]
        /\ ran'[Len(ran) + 1] = a
        /\ \A k \in DOMAIN ran' : k \in DOMAIN ran \/ k = Len(ran) + 1
    BY <1>1, <1>2, AppendIs DEF Rollback!TypeOK
  <1>4. /\ rollbacker'[r] = "running"
        /\ \A q \in Rollbackers : q # r => rollbacker'[q] = rollbacker[q]
    BY <1>1 DEF Rollback!TypeOK
  <1>5. Rollback!TypeOK'
    BY <1>1, <1>3 DEF Rollback!TypeOK
  <1>6. RollbackCountIsExact' /\ StackIsOrdered' /\ ActionsAreSomewhere'
    BY <1>1 DEF RollbackCountIsExact, StackIsOrdered, ActionsAreSomewhere, Rollback!Claimed,
           Rollback!ClaimedInReverse
  <1>7. ActionsAreOnce'
    BY <1>1, <1>4 DEF ActionsAreOnce
  <1>8. \A k \in DOMAIN ran : ran[k] # a
    <2> SUFFICES ASSUME NEW k \in DOMAIN ran, ran[k] = a PROVE FALSE
      OBVIOUS
    <2>1. a \notin ended
      BY DEF ActionsAreOnce, a
    <2>2. PICK q \in Rollbackers : rollbacker[q] = "running" /\ action[q] = a
      BY <2>1 DEF HandlersAreOnce
    <2>3. q = r
      BY <1>2, <2>2 DEF ActionsAreOnce, a
    <2> QED
      BY <1>1, <2>2, <2>3
  <1>9. HandlersAreOnce'
    <2>1. \A k, l \in DOMAIN ran' : k # l => ran'[k] # ran'[l]
      BY <1>3, <1>8 DEF HandlersAreOnce
    <2>2. \A k \in DOMAIN ran' :
            \/ ran'[k] \in ended
            \/ \E q \in Rollbackers : rollbacker'[q] = "running" /\ action[q] = ran'[k]
      BY <1>1, <1>3, <1>4 DEF HandlersAreOnce, a
    <2> QED
      BY <1>1, <2>1, <2>2 DEF HandlersAreOnce
  <1>10. Rollback!JoinCoversEarlierActions'
    BY <1>1 DEF Rollback!JoinCoversEarlierActions
  <1> QED
    BY <1>5, <1>6, <1>7, <1>9, <1>10

LEMMA EndRollback ==
  ASSUME RollbackIInv, NEW r \in Rollbackers,
         Rollback!HandlerReturns(r) \/ Rollback!HandlerRaises(r)
  PROVE  RollbackIInv'
  <1> USE DEF RollbackIInv
  <1> DEFINE a == action[r]
  <1>1. PICK s \in {"taking", "raised"} : rollbacker' = [rollbacker EXCEPT ![r] = s]
    BY DEF Rollback!HandlerReturns, Rollback!HandlerRaises
  <1>2. /\ rollbacker[r] = "running" /\ ended' = ended \cup {a}
        /\ action' = [action EXCEPT ![r] = 0] /\ pending' = pending - 1
        /\ UNCHANGED <<registered, stack, joiner, ran, atClaim, atJoin>>
    BY RollbackConstants
    DEF Rollback!HandlerReturns, Rollback!HandlerRaises, Rollback!TaskDone
  <1>3. a # 0 /\ a \in Rollback!Actions /\ a \notin ended
    BY <1>2 DEF ActionsAreOnce, Rollback!TypeOK, Rollback!NoAction
  <1>4. /\ action'[r] = 0 /\ rollbacker'[r] = s
        /\ \A q \in Rollbackers : q # r => action'[q] = action[q] /\ rollbacker'[q] = rollbacker[q]
    BY <1>1, <1>2 DEF Rollback!TypeOK
  <1>5. RollbackCountIsExact' /\ pending' \in Nat
    <2>1. Rollback!Claimed' = Rollback!Claimed \ {r} /\ r \in Rollback!Claimed
      BY <1>3, <1>4 DEF Rollback!Claimed, Rollback!NoAction
    <2>2. Cardinality(Rollback!Claimed') = Cardinality(Rollback!Claimed) - 1
      BY <2>1, ClaimedIsFinite, FS_RemoveElement
    <2>3. Cardinality(Rollback!Claimed') \in Nat
      BY <2>1, ClaimedIsFinite, FS_RemoveElement, FS_CardinalityType
    <2>4. Cardinality(ended') = Cardinality(ended) + 1
      BY <1>2, <1>3, EndedIsFinite, FS_AddElement
    <2> HIDE DEF a
    <2>5. Len(stack) \in Nat /\ Len(stack') = Len(stack)
      BY <1>2 DEF Rollback!TypeOK
    <2>6. /\ Cardinality(Rollback!Claimed) \in Nat /\ Cardinality(ended) \in Nat
          /\ pending = Len(stack) + Cardinality(Rollback!Claimed)
          /\ pending + Cardinality(ended) = registered
          /\ pending' = pending - 1 /\ registered' = registered
      BY <1>2, ClaimedIsFinite, EndedIsFinite, FS_CardinalityType
      DEF RollbackCountIsExact
    <2>7. pending' = Len(stack') + Cardinality(Rollback!Claimed') /\ pending' \in Nat
      BY <2>2, <2>3, <2>5, <2>6
    <2>8. pending' + Cardinality(ended') = registered'
      BY <2>4, <2>5, <2>6
    <2> QED
      BY <2>7, <2>8 DEF RollbackCountIsExact
  <1>6. Rollback!TypeOK'
    <2>1. pending \in 0 .. MaxActions /\ pending' = pending - 1 /\ pending' \in Nat
      BY <1>2, <1>5 DEF Rollback!TypeOK
    <2>2. pending' \in 0 .. MaxActions
      BY <2>1, RollbackConstants
    <2> QED
      BY <1>1, <1>2, <1>3, <2>2 DEF Rollback!TypeOK, Rollback!NoAction
  <1>7. StackIsOrdered'
    BY <1>2 DEF StackIsOrdered, Rollback!ClaimedInReverse
  <1>8. ActionsAreSomewhere'
    <2>1. a \in 1 .. registered /\ 0 <= registered
      BY <1>3 DEF ActionsAreSomewhere, Rollback!TypeOK, Rollback!Actions
    <2>2. ASSUME NEW b \in 1 .. registered
          PROVE  \/ b \in ended'
                 \/ \E k \in DOMAIN stack' : stack'[k] = b
                 \/ \E q \in Rollbackers : action'[q] = b
      BY <1>2, <1>4 DEF ActionsAreSomewhere
    <2>3. \A q \in Rollbackers : action'[q] <= registered
      BY <1>4, <2>1 DEF ActionsAreSomewhere
    <2> QED
      BY <1>2, <2>1, <2>2, <2>3 DEF ActionsAreSomewhere
  <1>9. ActionsAreOnce'
    <2>1. \A k \in DOMAIN stack : stack[k] # 0 /\ stack[k] # a
      BY RollbackConstants DEF ActionsAreOnce, Rollback!TypeOK
    <2>2. \A q \in Rollbackers : q # r => action[q] # a
      BY <1>3 DEF ActionsAreOnce
    <2>3. 0 \notin ended'
      BY <1>2, <1>3, RollbackConstants DEF Rollback!TypeOK
    <2> HIDE DEF a
    <2> QED
      BY <1>2, <1>3, <1>4, <2>1, <2>2, <2>3 DEF ActionsAreOnce
  <1>10. HandlersAreOnce'
    <2>1. ASSUME NEW k \in DOMAIN ran
          PROVE  \/ ran[k] \in ended'
                 \/ \E q \in Rollbackers : rollbacker'[q] = "running" /\ action'[q] = ran[k]
      <3>1. CASE ran[k] \in ended
        BY <1>2, <3>1
      <3>2. ASSUME NEW q \in Rollbackers, rollbacker[q] = "running", action[q] = ran[k]
            PROVE  \/ ran[k] \in ended'
                   \/ \E p \in Rollbackers : rollbacker'[p] = "running" /\ action'[p] = ran[k]
        BY <1>2, <1>4, <3>2
      <3> QED
        BY <3>1, <3>2 DEF HandlersAreOnce
    <2> QED
      BY <1>2, <2>1 DEF HandlersAreOnce
  <1>11. Rollback!JoinCoversEarlierActions'
    BY <1>2 DEF Rollback!JoinCoversEarlierActions
  <1> QED
    BY <1>5, <1>6, <1>7, <1>8, <1>9, <1>10, <1>11

(* At zero, everything registered has ended.                               *)
LEMMA ZeroMeansEnded ==
  ASSUME RollbackIInv, pending = 0 PROVE 1 .. registered \subseteq ended
  <1> USE DEF RollbackIInv
  <1>1. Len(stack) = 0 /\ Cardinality(Rollback!Claimed) = 0
    BY ClaimedIsFinite DEF RollbackCountIsExact, Rollback!TypeOK
  <1>2. DOMAIN stack = {}
    BY <1>1 DEF Rollback!TypeOK
  <1>3. \A r \in Rollbackers : action[r] = 0
    BY <1>1, ClaimedIsFinite, FS_EmptySet DEF Rollback!Claimed, Rollback!NoAction
  <1>4. \A a \in 1 .. registered : a # 0
    OBVIOUS
  <1> QED
    BY <1>2, <1>3, <1>4 DEF ActionsAreSomewhere

LEMMA JoinRollback ==
  ASSUME RollbackIInv, NEW c \in Joiners, Rollback!Join(c) \/ Rollback!JoinReturns(c)
  PROVE  RollbackIInv'
  <1> USE DEF RollbackIInv
  <1>1. UNCHANGED <<registered, stack, pending, rollbacker, action, ran, ended, atClaim>>
    BY DEF Rollback!Join, Rollback!JoinReturns
  <1>2. RollbackCountIsExact' /\ StackIsOrdered'
    BY <1>1 DEF RollbackCountIsExact, StackIsOrdered, Rollback!ClaimedInReverse, Rollback!Claimed
  <1>3. ActionsAreOnce' /\ HandlersAreOnce'
    BY <1>1 DEF ActionsAreOnce, HandlersAreOnce
  <1>4. Rollback!TypeOK'
    BY <1>1 DEF Rollback!TypeOK, Rollback!Join, Rollback!JoinReturns
  <1>5. Rollback!JoinCoversEarlierActions'
    <2>1. CASE Rollback!Join(c)
      BY <2>1 DEF Rollback!Join, Rollback!JoinCoversEarlierActions, Rollback!TypeOK
    <2>2. CASE Rollback!JoinReturns(c)
      <3>1. 1 .. atJoin[c] \subseteq 1 .. registered
        BY DEF ActionsAreSomewhere, Rollback!TypeOK
      <3> QED
        BY <1>1, <2>2, <3>1, ZeroMeansEnded
        DEF Rollback!JoinReturns, Rollback!JoinCoversEarlierActions, Rollback!TypeOK
    <2> QED
      BY <2>1, <2>2
  <1>6. ActionsAreSomewhere'
    <2>1. \A d \in Joiners : atJoin'[d] = atJoin[d] \/ atJoin'[d] = registered
      BY DEF Rollback!Join, Rollback!JoinReturns, Rollback!TypeOK
    <2>2. registered <= registered
      BY DEF Rollback!TypeOK
    <2> QED
      BY <1>1, <2>1, <2>2 DEF ActionsAreSomewhere
  <1> QED
    BY <1>2, <1>3, <1>4, <1>5, <1>6

LEMMA NextRollback == RollbackIInv /\ [Rollback!Next]_rollbackVars => RollbackIInv'
  <1> SUFFICES ASSUME RollbackIInv, [Rollback!Next]_rollbackVars PROVE RollbackIInv'
    OBVIOUS
  <1>1. CASE UNCHANGED rollbackVars
    <2> USE <1>1 DEF rollbackVars, RollbackIInv
    <2>1. Rollback!TypeOK' /\ RollbackCountIsExact' /\ StackIsOrdered'
      BY DEF Rollback!TypeOK, RollbackCountIsExact, StackIsOrdered, Rollback!Claimed,
             Rollback!ClaimedInReverse
    <2>2. ActionsAreSomewhere' /\ ActionsAreOnce' /\ HandlersAreOnce'
      BY DEF ActionsAreSomewhere, ActionsAreOnce, HandlersAreOnce
    <2>3. Rollback!JoinCoversEarlierActions'
      BY DEF Rollback!JoinCoversEarlierActions
    <2> QED
      BY <2>1, <2>2, <2>3
  <1>2. ASSUME NEW r \in Rollbackers, Rollback!Drain(r) \/ Rollback!RunNext(r)
        PROVE  RollbackIInv'
    BY <1>2, IdleRollback, TakeRollback, CallRollback, EndRollback DEF Rollback!RunNext
  <1> QED
    BY <1>1, <1>2, RegisterRollback, JoinRollback DEF Rollback!Next

LEMMA RollbackReports ==
  ASSUME RollbackIInv PROVE Rollback!EachActionOnce /\ Rollback!ClaimedInReverse
  <1> USE DEF RollbackIInv
  <1>1. ASSUME NEW a \in 1 .. registered
        PROVE  Cardinality({k \in DOMAIN stack : stack[k] = a})
                 + Cardinality({r \in Rollbackers : action[r] = a})
                 + Cardinality({a} \cap ended) = 1
    <2> DEFINE A == {k \in DOMAIN stack : stack[k] = a}
               B == {r \in Rollbackers : action[r] = a}
               C == {a} \cap ended
               Alone == \/ (\E x : A = {x}) /\ B = {} /\ C = {}
                        \/ A = {} /\ (\E x : B = {x}) /\ C = {}
                        \/ A = {} /\ B = {} /\ (\E x : C = {x})
    <2>1. a # 0
      OBVIOUS
    <2>2. ASSUME a \in ended PROVE Alone
      <3>1. A = {} /\ B = {} /\ C = {a}
        BY <2>2 DEF ActionsAreOnce
      <3> QED
        BY <3>1
    <2>3. ASSUME NEW k \in DOMAIN stack, stack[k] = a PROVE Alone
      <3>1. \A l \in DOMAIN stack : stack[l] = a => l = k
        BY <2>3 DEF StackIsOrdered, Rollback!TypeOK, Rollback!Actions
      <3>2. A = {k} /\ B = {} /\ C = {}
        BY <2>3, <3>1 DEF ActionsAreOnce
      <3> QED
        BY <3>2
    <2>4. ASSUME NEW r \in Rollbackers, action[r] = a PROVE Alone
      <3>1. A = {} /\ B = {r} /\ C = {}
        BY <2>1, <2>4 DEF ActionsAreOnce
      <3> QED
        BY <3>1
    <2>5. Alone
      BY <2>2, <2>3, <2>4 DEF ActionsAreSomewhere
    <2> HIDE DEF A, B, C
    <2>6. Cardinality(A) + Cardinality(B) + Cardinality(C) = 1
      BY <2>5, CountedOnce
    <2> QED
      BY <2>6 DEF A, B, C
  <1>2. Rollback!EachActionOnce
    BY <1>1, RollbackConstants
    DEF Rollback!EachActionOnce, RollbackCountIsExact, HandlersAreOnce
  <1> QED
    BY <1>2 DEF StackIsOrdered

LEMMA RollbackHolds == Rollback!Spec => []RollbackIInv
  BY InitRollback, NextRollback, PTL DEF Rollback!Spec, Rollback!vars, rollbackVars

-----------------------------------------------------------------------------
(* TicketQueue                                                             *)

(* The tickets that are queued or in a worker's hands, and those that have *)
(* a number.                                                               *)
InHands(t) == \E w \in Desk!Handling : ticket[w] = t
Left == {t \in Tickets : t \in queued \/ InHands(t)}
Numbered == {t \in Tickets : sequence[t] # -1}

DeskCountIsExact ==
  /\ open = Cardinality(queued) + Cardinality(Desk!Handling)
  /\ open = Cardinality(Left)
  /\ nextSequence = Cardinality(Numbered)

TicketsAreOnce ==
  /\ \A w \in Desk!Handling : ticket[w] \in accepted \ queued
  /\ \A v, w \in Desk!Handling : ticket[v] = ticket[w] => v = w
  /\ queued \subseteq accepted

(* A ticket submitted before another was numbered has the smaller number.  *)
NumbersAreOrdered ==
  /\ \A t \in Tickets : sequence[t] < nextSequence
  /\ \A t \in accepted : sequence[t] # -1
  /\ \A t \in Tickets, u \in Tickets :
       u \in before[t] => u \in accepted /\ sequence[u] < sequence[t]

JoinsCoverTickets ==
  \A j \in Joiners :
    /\ atWatch[j] \subseteq accepted
    /\ watcher[j] \in {"woken", "returned"} => atWatch[j] \cap Left = {}

DeskIInv ==
  /\ Desk!TypeOK /\ DeskCountIsExact /\ TicketsAreOnce
  /\ NumbersAreOrdered /\ JoinsCoverTickets

LEMMA DeskConstants ==
  /\ IsFiniteSet(Tickets) /\ IsFiniteSet(Workers) /\ Cardinality(Tickets) \in Nat
  /\ \A S : Desk!Cardinality(S) = Cardinality(S)
  <1>1. Desk!IsFiniteSet(Tickets) /\ Desk!IsFiniteSet(Workers)
    BY QueuesAssumption DEF Desk!QueueAssumption
  <1>2. IsFiniteSet(Tickets) /\ IsFiniteSet(Workers)
    BY <1>1 DEF Desk!IsFiniteSet, IsFiniteSet
  <1>3. \A S : Desk!Cardinality(S) = Cardinality(S)
    BY DEF Desk!Cardinality, Cardinality, Desk!IsFiniteSet, IsFiniteSet
  <1> QED
    BY <1>2, <1>3, FS_CardinalityType

LEMMA DeskFinite ==
  ASSUME Desk!TypeOK
  PROVE  /\ IsFiniteSet(queued) /\ Cardinality(queued) \in Nat
         /\ IsFiniteSet(Desk!Handling) /\ Cardinality(Desk!Handling) \in Nat
         /\ IsFiniteSet(Left) /\ Cardinality(Left) \in 0 .. Cardinality(Tickets)
         /\ IsFiniteSet(Numbered) /\ Cardinality(Numbered) \in 0 .. Cardinality(Tickets)
  <1>1. /\ queued \subseteq Tickets /\ Left \subseteq Tickets /\ Numbered \subseteq Tickets
        /\ Desk!Handling \subseteq Workers
    BY DEF Desk!TypeOK, Left, Numbered, Desk!Handling
  <1>2. ASSUME NEW S \in SUBSET Tickets
        PROVE  IsFiniteSet(S) /\ Cardinality(S) \in 0 .. Cardinality(Tickets)
    <2>1. IsFiniteSet(S) /\ Cardinality(S) <= Cardinality(Tickets)
      BY DeskConstants, FS_Subset
    <2>2. Cardinality(S) \in Nat
      BY <2>1, FS_CardinalityType
    <2> QED
      BY <2>1, <2>2, DeskConstants
  <1>3. IsFiniteSet(Desk!Handling) /\ Cardinality(Desk!Handling) \in Nat
    BY <1>1, DeskConstants, FS_Subset, FS_CardinalityType
  <1> QED
    BY <1>1, <1>2, <1>3

(* The counters are within the bounds of their type.                       *)
LEMMA CountersFit ==
  ASSUME Desk!TypeOK, DeskCountIsExact
  PROVE  open \in 0 .. Cardinality(Tickets) /\ nextSequence \in 0 .. Cardinality(Tickets)
  BY DeskFinite DEF DeskCountIsExact

LEMMA InitDesk == Desk!Init => DeskIInv
  <1> SUFFICES ASSUME Desk!Init PROVE DeskIInv
    OBVIOUS
  <1> USE DEF Desk!Init
  <1>1. Desk!Handling = {} /\ Left = {} /\ Numbered = {} /\ queued = {}
    BY DEF Desk!Handling, Left, InHands, Numbered
  <1>2. DeskCountIsExact
    BY <1>1, FS_EmptySet DEF DeskCountIsExact
  <1>3. Desk!TypeOK
    <2>1. 0 \in 0 .. Cardinality(Tickets) /\ -1 \in -1 .. Cardinality(Tickets)
      BY DeskConstants
    <2> QED
      BY <2>1, DeskConstants DEF Desk!TypeOK
  <1>4. TicketsAreOnce
    BY <1>1 DEF TicketsAreOnce
  <1>5. NumbersAreOrdered
    BY DEF NumbersAreOrdered
  <1>6. JoinsCoverTickets
    BY DEF JoinsCoverTickets
  <1> QED
    BY <1>2, <1>3, <1>4, <1>5, <1>6 DEF DeskIInv

-----------------------------------------------------------------------------
(* submit: its two halves, which a task takes in one step.                 *)
LEMMA NumberDesk ==
  ASSUME DeskIInv, NEW t \in Tickets, Desk!Number(t)
  PROVE  /\ nextSequence' \in 0 .. Cardinality(Tickets) /\ nextSequence' = Cardinality(Numbered)'
         /\ sequence' \in [Tickets -> -1 .. Cardinality(Tickets)]
         /\ before' \in [Tickets -> SUBSET Tickets]
         /\ t \notin accepted
         /\ accepted \subseteq accepted' /\ accepted' \subseteq accepted \cup {t}
              => NumbersAreOrdered'
  <1> USE DEF DeskIInv
  <1>1. /\ sequence[t] = -1 /\ sequence' = [sequence EXCEPT ![t] = nextSequence]
        /\ nextSequence' = nextSequence + 1 /\ before' = [before EXCEPT ![t] = accepted]
    BY DEF Desk!Number
  <1>2. nextSequence \in 0 .. Cardinality(Tickets) /\ Cardinality(Tickets) \in Nat
    BY DeskConstants DEF Desk!TypeOK
  <1>3. /\ sequence'[t] = nextSequence /\ before'[t] = accepted
        /\ \A u \in Tickets : u # t => sequence'[u] = sequence[u] /\ before'[u] = before[u]
    BY <1>1 DEF Desk!TypeOK
  <1>4. /\ sequence' \in [Tickets -> -1 .. Cardinality(Tickets)]
        /\ before' \in [Tickets -> SUBSET Tickets]
    <2>1. /\ sequence \in [Tickets -> -1 .. Cardinality(Tickets)]
          /\ before \in [Tickets -> SUBSET Tickets] /\ accepted \subseteq Tickets
      BY DeskConstants DEF Desk!TypeOK
    <2>2. nextSequence \in -1 .. Cardinality(Tickets)
      BY <1>2
    <2> QED
      BY <1>1, <2>1, <2>2
  <1>5. t \notin accepted
    BY <1>1 DEF NumbersAreOrdered
  <1>6. nextSequence' = Cardinality(Numbered)'
    <2>1. Numbered' = Numbered \cup {t} /\ t \notin Numbered
      BY <1>1, <1>2, <1>3 DEF Numbered
    <2>2. Cardinality(Numbered') = Cardinality(Numbered) + 1
      BY <2>1, DeskFinite, FS_AddElement
    <2> QED
      BY <1>1, <2>2 DEF DeskCountIsExact
  <1>7. nextSequence' \in 0 .. Cardinality(Tickets)
    <2>1. Numbered' \subseteq Tickets
      BY DEF Numbered
    <2>2. IsFiniteSet(Numbered') /\ Cardinality(Numbered') <= Cardinality(Tickets)
      BY <2>1, DeskConstants, FS_Subset
    <2>3. Cardinality(Numbered') \in Nat
      BY <2>2, FS_CardinalityType
    <2> QED
      BY <1>2, <1>6, <2>2, <2>3
  <1>8. ASSUME accepted \subseteq accepted', accepted' \subseteq accepted \cup {t}
        PROVE  NumbersAreOrdered'
    <2>1. ASSUME NEW u \in Tickets PROVE sequence'[u] < nextSequence' /\ sequence[u] \in Int
      BY <1>1, <1>2, <1>3 DEF NumbersAreOrdered, Desk!TypeOK
    <2>2. ASSUME NEW u \in accepted' PROVE sequence'[u] # -1
      <3>1. accepted \subseteq Tickets
        BY DEF Desk!TypeOK
      <3> QED
        BY <1>2, <1>3, <1>8, <3>1 DEF NumbersAreOrdered
    <2>3. ASSUME NEW x \in Tickets, NEW u \in Tickets, u \in before'[x]
          PROVE  u \in accepted /\ sequence'[u] < sequence'[x]
      <3>1. CASE x = t
        BY <1>3, <1>5, <2>3, <3>1 DEF NumbersAreOrdered
      <3>2. CASE x # t
        <4>1. u \in accepted /\ sequence[u] < sequence[x]
          BY <1>3, <2>3, <3>2 DEF NumbersAreOrdered
        <4> QED
          BY <1>3, <1>5, <3>2, <4>1
      <3> QED
        BY <3>1, <3>2
    <2> QED
      BY <1>8, <2>1, <2>2, <2>3 DEF NumbersAreOrdered
  <1> QED
    BY <1>4, <1>5, <1>6, <1>7, <1>8

LEMMA PutDesk ==
  ASSUME DeskIInv, NEW t \in Tickets, Desk!Put(t), t \notin accepted,
         UNCHANGED <<agent, ticket, watcher, atWatch>>
  PROVE  /\ queued' \subseteq Tickets /\ accepted' = accepted \cup {t}
         /\ accepted' \subseteq Tickets
         /\ open' = Cardinality(queued)' + Cardinality(Desk!Handling)'
         /\ open' = Cardinality(Left)' /\ open' \in 0 .. Cardinality(Tickets)
         /\ TicketsAreOnce' /\ JoinsCoverTickets'
  <1> USE DEF DeskIInv
  <1>1. /\ queued' = queued \cup {t} /\ open' = open + 1 /\ accepted' = accepted \cup {t}
    BY DEF Desk!Put
  <1>2. queued \subseteq Tickets /\ accepted \subseteq Tickets
    BY DEF Desk!TypeOK
  <1>3. t \notin queued /\ Desk!Handling' = Desk!Handling
    BY DEF TicketsAreOnce, Desk!Handling
  <1>4. \A u : InHands(u)' <=> InHands(u)
    BY <1>3 DEF InHands
  <1>5. Left' = Left \cup {t} /\ t \notin Left
    BY <1>1, <1>3, <1>4 DEF Left, InHands, TicketsAreOnce
  <1>6. open' = Cardinality(queued)' + Cardinality(Desk!Handling)' /\ open' = Cardinality(Left)'
    <2>1. Cardinality(queued') = Cardinality(queued) + 1
      BY <1>1, <1>3, DeskFinite, FS_AddElement
    <2>2. Cardinality(Left') = Cardinality(Left) + 1
      BY <1>5, DeskFinite, FS_AddElement
    <2> QED
      BY <1>1, <1>3, <2>1, <2>2, DeskFinite DEF DeskCountIsExact
  <1>7. open' \in 0 .. Cardinality(Tickets)
    <2>1. Left' \subseteq Tickets
      BY DEF Left
    <2>2. IsFiniteSet(Left') /\ Cardinality(Left') <= Cardinality(Tickets)
      BY <2>1, DeskConstants, FS_Subset
    <2>3. Cardinality(Left') \in Nat
      BY <2>2, FS_CardinalityType
    <2> QED
      BY <1>6, <2>2, <2>3, DeskConstants
  <1>8. TicketsAreOnce'
    BY <1>1, <1>3 DEF TicketsAreOnce
  <1>9. JoinsCoverTickets'
    BY <1>1, <1>5 DEF JoinsCoverTickets
  <1> QED
    BY <1>1, <1>2, <1>6, <1>7, <1>8, <1>9

LEMMA SubmitDesk ==
  ASSUME DeskIInv, NEW t \in Tickets, Desk!Submit(t) PROVE DeskIInv'
  <1> USE DEF DeskIInv
  <1>1. CASE Desk!SubmitAsTask(t)
    <2>1. Desk!Number(t) /\ Desk!Put(t) /\ UNCHANGED <<kind, agent, ticket, watcher, atWatch>>
      BY <1>1 DEF Desk!SubmitAsTask
    <2>2. /\ nextSequence' \in 0 .. Cardinality(Tickets)
          /\ nextSequence' = Cardinality(Numbered)'
          /\ sequence' \in [Tickets -> -1 .. Cardinality(Tickets)]
          /\ before' \in [Tickets -> SUBSET Tickets]
          /\ t \notin accepted
          /\ accepted \subseteq accepted' /\ accepted' \subseteq accepted \cup {t}
              => NumbersAreOrdered'
      BY <2>1, NumberDesk
    <2>3. /\ queued' \subseteq Tickets /\ accepted' = accepted \cup {t}
          /\ accepted' \subseteq Tickets
          /\ open' = Cardinality(queued)' + Cardinality(Desk!Handling)'
          /\ open' = Cardinality(Left)' /\ open' \in 0 .. Cardinality(Tickets)
          /\ TicketsAreOnce' /\ JoinsCoverTickets'
      BY <2>1, <2>2, PutDesk
    <2>4. Desk!TypeOK'
      BY <2>1, <2>2, <2>3, DeskConstants DEF Desk!TypeOK
    <2>5. DeskCountIsExact'
      BY <2>2, <2>3 DEF DeskCountIsExact
    <2> QED
      BY <2>2, <2>3, <2>4, <2>5
  <1>2. CASE Desk!TakeNumber(t)
    <2>1. /\ Desk!Number(t)
          /\ UNCHANGED <<kind, queued, open, agent, ticket, accepted, watcher, atWatch>>
      BY <1>2 DEF Desk!TakeNumber
    <2>2. /\ nextSequence' \in 0 .. Cardinality(Tickets)
          /\ nextSequence' = Cardinality(Numbered)'
          /\ sequence' \in [Tickets -> -1 .. Cardinality(Tickets)]
          /\ before' \in [Tickets -> SUBSET Tickets]
          /\ accepted \subseteq accepted' /\ accepted' \subseteq accepted \cup {t}
              => NumbersAreOrdered'
      BY <2>1, NumberDesk
    <2>3. Desk!Handling' = Desk!Handling /\ Left' = Left
      BY <2>1 DEF Desk!Handling, Left, InHands
    <2>4. Desk!TypeOK'
      BY <2>1, <2>2, DeskConstants DEF Desk!TypeOK
    <2>5. DeskCountIsExact'
      BY <2>1, <2>2, <2>3 DEF DeskCountIsExact
    <2>6. TicketsAreOnce' /\ JoinsCoverTickets'
      BY <2>1, <2>3 DEF TicketsAreOnce, JoinsCoverTickets
    <2> QED
      BY <2>1, <2>2, <2>4, <2>5, <2>6
  <1>3. CASE Desk!PutNumbered(t)
    <2>1. /\ Desk!Put(t) /\ t \notin accepted /\ sequence[t] # -1
          /\ UNCHANGED <<kind, nextSequence, sequence, agent, ticket, watcher, before, atWatch>>
      BY <1>3 DEF Desk!PutNumbered
    <2>2. /\ queued' \subseteq Tickets /\ accepted' = accepted \cup {t}
          /\ accepted' \subseteq Tickets
          /\ open' = Cardinality(queued)' + Cardinality(Desk!Handling)'
          /\ open' = Cardinality(Left)' /\ open' \in 0 .. Cardinality(Tickets)
          /\ TicketsAreOnce' /\ JoinsCoverTickets'
      BY <2>1, PutDesk
    <2>3. Desk!TypeOK'
      BY <2>1, <2>2, DeskConstants DEF Desk!TypeOK
    <2>4. DeskCountIsExact'
      BY <2>1, <2>2 DEF DeskCountIsExact, Numbered
    <2>5. NumbersAreOrdered'
      BY <2>1, <2>2 DEF NumbersAreOrdered
    <2> QED
      BY <2>2, <2>3, <2>4, <2>5
  <1> QED
    BY <1>1, <1>2, <1>3 DEF Desk!Submit

-----------------------------------------------------------------------------
(* claim_next and dispatch_next *)
LEMMA TakeDesk ==
  ASSUME DeskIInv, NEW w \in Workers, NEW t \in Tickets, Desk!Take(w, t) PROVE DeskIInv'
  <1> USE DEF DeskIInv
  <1>1. /\ agent[w] # "handling" /\ t \in queued /\ queued' = queued \ {t}
        /\ agent' = [agent EXCEPT ![w] = "handling"] /\ ticket' = [ticket EXCEPT ![w] = t]
        /\ UNCHANGED <<kind, nextSequence, sequence, open, accepted, watcher, before, atWatch>>
    BY DEF Desk!Take, Desk!Ready
  <1>2. /\ agent'[w] = "handling" /\ ticket'[w] = t
        /\ \A v \in Workers : v # w => agent'[v] = agent[v] /\ ticket'[v] = ticket[v]
    BY <1>1 DEF Desk!TypeOK
  <1>3. Desk!Handling' = Desk!Handling \cup {w} /\ w \notin Desk!Handling
    BY <1>1, <1>2 DEF Desk!Handling
  <1>4. Left' = Left
    <2>1. ASSUME NEW u \in Tickets PROVE InHands(u)' <=> InHands(u) \/ u = t
      BY <1>2, <1>3 DEF InHands, Desk!Handling
    <2> QED
      BY <1>1, <2>1 DEF Left
  <1>5. Desk!TypeOK'
    BY <1>1 DEF Desk!TypeOK
  <1>6. DeskCountIsExact'
    <2>1. Cardinality(queued') = Cardinality(queued) - 1
      BY <1>1, DeskFinite, FS_RemoveElement
    <2>2. Cardinality(Desk!Handling') = Cardinality(Desk!Handling) + 1
      BY <1>3, DeskFinite, FS_AddElement
    <2>3. Numbered' = Numbered
      BY <1>1 DEF Numbered
    <2> QED
      BY <1>1, <1>4, <2>1, <2>2, <2>3, DeskFinite DEF DeskCountIsExact
  <1>7. TicketsAreOnce'
    <2>1. \A v \in Desk!Handling : v \in Workers /\ v # w /\ ticket[v] # t
      BY <1>1, <1>3 DEF TicketsAreOnce, Desk!Handling
    <2> QED
      BY <1>1, <1>2, <1>3, <2>1 DEF TicketsAreOnce
  <1>8. NumbersAreOrdered' /\ JoinsCoverTickets'
    BY <1>1, <1>4 DEF NumbersAreOrdered, JoinsCoverTickets
  <1> QED
    BY <1>5, <1>6, <1>7, <1>8

(* A claim of None, a dispatch that begins to wait and one that expires.   *)
LEMMA AnswersDesk ==
  ASSUME DeskIInv, NEW w \in Workers,
         Desk!ClaimNothing(w) \/ Desk!Dispatch(w) \/ Desk!Expire(w)
  PROVE  DeskIInv'
  <1> USE DEF DeskIInv
  <1>1. PICK s \in {"idle", "waiting"} :
          /\ agent[w] # "handling" /\ agent' = [agent EXCEPT ![w] = s]
          /\ ticket' = [ticket EXCEPT ![w] = Desk!NoTicket]
          /\ UNCHANGED <<kind, nextSequence, sequence, queued, open, accepted,
                         watcher, before, atWatch>>
    BY DEF Desk!ClaimNothing, Desk!Dispatch, Desk!Expire, Desk!Answers
  <1>2. /\ agent'[w] = s
        /\ \A v \in Workers : v # w => agent'[v] = agent[v] /\ ticket'[v] = ticket[v]
    BY <1>1 DEF Desk!TypeOK
  <1>3. Desk!Handling' = Desk!Handling /\ \A v \in Desk!Handling : ticket'[v] = ticket[v]
    BY <1>1, <1>2 DEF Desk!Handling
  <1>4. Left' = Left /\ Numbered' = Numbered
    BY <1>1, <1>3 DEF Left, InHands, Numbered
  <1>5. Desk!TypeOK'
    BY <1>1 DEF Desk!TypeOK
  <1>6. DeskCountIsExact' /\ TicketsAreOnce'
    BY <1>1, <1>3, <1>4 DEF DeskCountIsExact, TicketsAreOnce
  <1>7. NumbersAreOrdered' /\ JoinsCoverTickets'
    BY <1>1, <1>4 DEF NumbersAreOrdered, JoinsCoverTickets
  <1> QED
    BY <1>5, <1>6, <1>7

LEMMA TaskDoneDesk ==
  ASSUME DeskIInv, NEW w \in Workers, Desk!TaskDone(w) PROVE DeskIInv'
  <1> USE DEF DeskIInv
  <1>1. /\ agent[w] = "handling" /\ agent' = [agent EXCEPT ![w] = "idle"]
        /\ open' = open - 1
        /\ UNCHANGED <<kind, nextSequence, sequence, queued, ticket, accepted, before, atWatch>>
    BY DEF Desk!TaskDone
  <1>2. agent'[w] = "idle" /\ \A v \in Workers : v # w => agent'[v] = agent[v]
    BY <1>1 DEF Desk!TypeOK
  <1>3. Desk!Handling' = Desk!Handling \ {w} /\ w \in Desk!Handling
    BY <1>1, <1>2 DEF Desk!Handling
  <1>4. Left' = Left \ {ticket[w]} /\ ticket[w] \in Left
    <2>1. /\ ticket[w] \in Tickets /\ ticket[w] \notin queued
          /\ \A v \in Desk!Handling : v # w => ticket[v] # ticket[w]
      BY <1>3 DEF TicketsAreOnce, Desk!TypeOK
    <2>2. ASSUME NEW u \in Tickets PROVE InHands(u)' <=> InHands(u) /\ u # ticket[w]
      BY <1>1, <1>3, <2>1 DEF InHands
    <2>3. InHands(ticket[w])
      BY <1>3 DEF InHands
    <2> QED
      BY <1>1, <2>1, <2>2, <2>3 DEF Left
  <1>5. DeskCountIsExact' /\ open' \in Nat
    <2>1. Cardinality(Desk!Handling') = Cardinality(Desk!Handling) - 1
      BY <1>3, DeskFinite, FS_RemoveElement
    <2>2. Cardinality(Left') = Cardinality(Left) - 1 /\ IsFiniteSet(Left')
      BY <1>4, DeskFinite, FS_RemoveElement
    <2>3. Cardinality(Left') \in Nat /\ Numbered' = Numbered
      BY <1>1, <2>2, FS_CardinalityType DEF Numbered
    <2> QED
      BY <1>1, <2>1, <2>2, <2>3, DeskFinite DEF DeskCountIsExact
  <1>6. /\ watcher' \in [Joiners -> {"idle", "waiting", "woken", "returned"}]
        /\ \A j \in Joiners : watcher'[j] = watcher[j] \/ open' = 0
    BY DEF Desk!TaskDone, Desk!WakeTasks, Desk!TypeOK
  <1>7. Desk!TypeOK'
    <2>1. open' \in 0 .. Cardinality(Tickets)
      BY <1>1, <1>5, DeskConstants DEF Desk!TypeOK
    <2> QED
      BY <1>1, <1>6, <2>1, DeskConstants DEF Desk!TypeOK
  <1>8. TicketsAreOnce'
    BY <1>1, <1>3 DEF TicketsAreOnce
  <1>9. NumbersAreOrdered'
    BY <1>1 DEF NumbersAreOrdered
  <1>10. JoinsCoverTickets'
    <2>1. open' = 0 => Left' = {}
      <3>1. Cardinality(Left') = open' /\ IsFiniteSet(Left')
        BY <1>4, <1>5, DeskFinite, FS_RemoveElement DEF DeskCountIsExact
      <3> QED
        BY <3>1, FS_EmptySet
    <2> QED
      BY <1>1, <1>4, <1>6, <2>1 DEF JoinsCoverTickets
  <1> QED
    BY <1>5, <1>7, <1>8, <1>9, <1>10

LEMMA JoinDesk ==
  ASSUME DeskIInv, NEW j \in Joiners, Desk!Join(j) \/ Desk!JoinReturns(j) PROVE DeskIInv'
  <1> USE DEF DeskIInv
  <1>1. UNCHANGED <<kind, nextSequence, sequence, queued, open, agent, ticket, accepted, before>>
    BY DEF Desk!Join, Desk!JoinReturns
  <1>2. Left' = Left /\ Desk!Handling' = Desk!Handling /\ Numbered' = Numbered
    BY <1>1 DEF Left, InHands, Desk!Handling, Numbered
  <1>3. /\ Desk!TypeOK'
        /\ \A i \in Joiners : i # j => watcher'[i] = watcher[i] /\ atWatch'[i] = atWatch[i]
        /\ atWatch'[j] \in {accepted, atWatch[j]}
        /\ watcher'[j] \in {"woken", "returned"} =>
             open = 0 \/ (watcher[j] = "woken" /\ atWatch'[j] = atWatch[j])
    BY <1>1 DEF Desk!TypeOK, Desk!Join, Desk!JoinReturns
  <1>4. DeskCountIsExact' /\ TicketsAreOnce' /\ NumbersAreOrdered'
    BY <1>1, <1>2 DEF DeskCountIsExact, TicketsAreOnce, NumbersAreOrdered
  <1>5. JoinsCoverTickets'
    <2>1. open = 0 => Left = {}
      BY DeskFinite, FS_EmptySet DEF DeskCountIsExact
    <2> QED
      BY <1>1, <1>2, <1>3, <2>1 DEF JoinsCoverTickets
  <1> QED
    BY <1>3, <1>4, <1>5

LEMMA NextDesk == DeskIInv /\ [Desk!Next]_ticketVars => DeskIInv'
  <1> SUFFICES ASSUME DeskIInv, [Desk!Next]_ticketVars PROVE DeskIInv'
    OBVIOUS
  <1>1. CASE UNCHANGED ticketVars
    <2> USE <1>1 DEF ticketVars, DeskIInv
    <2>1. Left' = Left /\ Desk!Handling' = Desk!Handling /\ Numbered' = Numbered
      BY DEF Left, InHands, Desk!Handling, Numbered
    <2>2. Desk!TypeOK' /\ DeskCountIsExact' /\ TicketsAreOnce'
      BY <2>1 DEF Desk!TypeOK, DeskCountIsExact, TicketsAreOnce
    <2>3. NumbersAreOrdered' /\ JoinsCoverTickets'
      BY <2>1 DEF NumbersAreOrdered, JoinsCoverTickets
    <2> QED
      BY <2>2, <2>3
  <1>2. ASSUME NEW w \in Workers,
               \/ \E t \in Tickets : Desk!Take(w, t)
               \/ Desk!ClaimNothing(w) \/ Desk!Dispatch(w) \/ Desk!Expire(w)
               \/ Desk!TaskDone(w)
        PROVE  DeskIInv'
    BY <1>2, TakeDesk, AnswersDesk, TaskDoneDesk
  <1> QED
    BY <1>1, <1>2, SubmitDesk, JoinDesk DEF Desk!Next

(* Only Take removes a ticket from the queue: one that precedes all others. *)
LEMMA NobodyIsOvertaken ==
  ASSUME DeskIInv, [Desk!Next]_ticketVars PROVE Desk!NoTicketOvertaken
  <1> SUFFICES ASSUME NEW t \in queued \ queued', NEW u \in queued'
               PROVE  /\ Desk!PriorityOf(t) <= Desk!PriorityOf(u)
                      /\ Desk!PriorityOf(t) = Desk!PriorityOf(u) => u \notin before[t]
    BY DEF Desk!NoTicketOvertaken
  <1> USE DEF DeskIInv
  <1>1. PICK w \in Workers, x \in Tickets : Desk!Take(w, x)
    <2>1. queued' # queued
      OBVIOUS
    <2>2. ~ \E x \in Tickets : Desk!Submit(x)
      BY DEF Desk!Submit, Desk!SubmitAsTask, Desk!TakeNumber, Desk!PutNumbered, Desk!Put
    <2>3. ~ \E j \in Joiners : Desk!Join(j) \/ Desk!JoinReturns(j)
      BY DEF Desk!Join, Desk!JoinReturns
    <2>4. ~ \E v \in Workers : \/ Desk!ClaimNothing(v) \/ Desk!Dispatch(v)
                               \/ Desk!Expire(v) \/ Desk!TaskDone(v)
      BY DEF Desk!ClaimNothing, Desk!Dispatch, Desk!Expire, Desk!Answers, Desk!TaskDone
    <2> QED
      BY <2>1, <2>2, <2>3, <2>4 DEF Desk!Next, ticketVars
  <1>2. x = t /\ u \in queued /\ Desk!Precedes(t, u) /\ t \in Tickets /\ u \in Tickets
    BY <1>1 DEF Desk!Take, Desk!TypeOK
  <1>3. Desk!PriorityOf(t) \in Int /\ Desk!PriorityOf(u) \in Int
    BY DEF Desk!PriorityOf
  <1>4. sequence[t] \in Int /\ sequence[u] \in Int
    BY <1>2 DEF Desk!TypeOK
  <1>5. u \in before[t] => sequence[u] < sequence[t]
    BY <1>2 DEF NumbersAreOrdered
  <1> QED
    BY <1>2, <1>3, <1>4, <1>5 DEF Desk!Precedes

LEMMA DeskReports ==
  ASSUME DeskIInv PROVE Desk!UnfinishedIsWhatIsLeft /\ Desk!JoinCoversEarlierTickets
  <1> USE DEF DeskIInv
  <1>1. Desk!UnfinishedIsWhatIsLeft
    BY DeskConstants DEF Desk!UnfinishedIsWhatIsLeft, DeskCountIsExact
  <1>2. Desk!JoinCoversEarlierTickets
    <2> SUFFICES ASSUME NEW j \in Joiners, watcher[j] \in {"woken", "returned"}
                 PROVE  /\ atWatch[j] \cap queued = {}
                        /\ \A w \in Desk!Handling : ticket[w] \notin atWatch[j]
      BY DEF Desk!JoinCoversEarlierTickets
    <2>1. atWatch[j] \cap Left = {} /\ queued \subseteq Tickets
      BY DEF JoinsCoverTickets, Desk!TypeOK
    <2>2. queued \subseteq Left
      BY <2>1 DEF Left
    <2>3. ASSUME NEW w \in Desk!Handling PROVE ticket[w] \in Left
      BY DEF Left, InHands, TicketsAreOnce, Desk!TypeOK
    <2> QED
      BY <2>1, <2>2, <2>3
  <1> QED
    BY <1>1, <1>2

LEMMA DeskHolds == Desk!Spec => []DeskIInv
  BY InitDesk, NextDesk, PTL DEF Desk!Spec, Desk!vars, ticketVars

-----------------------------------------------------------------------------
(* The state is well formed.                                               *)
THEOREM TypeCorrect == Spec => []TypeOK
  BY SpecIInv, PTL DEF IInv

(* The count of unfinished items is what is queued or in a worker's hands, *)
(* and every job submitted is in exactly one place.                        *)
THEOREM AccountingExact == Spec => []UnfinishedIsWhatIsLeft
  BY SpecIInv, JobsAreCounted, PTL DEF IInv

(* When join returns, every job submitted before the call has been         *)
(* processed (join:62).                                                    *)
THEOREM JoinsCover == Spec => []JoinCoversEarlierJobs
  BY SpecIInv, PTL DEF IInv

(* A stop that went through leaves no job, no worker and no token behind   *)
(* (stop:66-75).                                                           *)
THEOREM StopDrains == Spec => []StoppedMeansDrained
  <1>1. IInv => StoppedMeansDrained
    <2> SUFFICES ASSUME IInv, NEW c \in Stoppers, caller[c] = "stopped"
                 PROVE  AllEnded /\ processed = 1 .. submitted /\ queue = <<>> /\ unfinished = 0
      BY DEF StoppedMeansDrained
    <2> USE DEF IInv
    <2>1. TokensPut /\ Gone = Workers /\ AllEnded
      BY DEF TokensPut, OneStop, Gone, AllEnded
    <2>2. Len(queue) = 0 /\ Busy = {}
      BY <2>1, TokensAre DEF TokensAreLast, TypeOK
    <2>3. queue = <<>> /\ unfinished = 0
      BY <2>2, FS_EmptySet DEF TypeOK, CountIsExact
    <2> QED
      BY <2>1, <2>3 DEF TokensAreLast
  <1> QED
    BY <1>1, SpecIInv, PTL

-----------------------------------------------------------------------------
(* The run.                                                                *)

(* A behaviour of the run is one of each component: its steps are taken    *)
(* while the others' variables stay as they are.                           *)
LEMMA RunTakesTheirSteps == MCSpec => FairSpec /\ Rollback!Spec /\ Desk!Spec
  <1>1. MCInit => Init /\ Rollback!Init /\ Desk!Init
    BY DEF MCInit
  <1>2. [MCNext]_<<component, vars, rollbackVars, ticketVars>>
          => [Next]_vars /\ [Rollback!Next]_rollbackVars /\ [Desk!Next]_ticketVars
    BY DEF MCNext
  <1> QED
    BY <1>1, <1>2, PTL
    DEF MCSpec, FairSpec, Spec, Rollback!Spec, Desk!Spec, Rollback!vars, Desk!vars,
        rollbackVars, ticketVars

LEMMA AllHold == MCSpec => [](IInv /\ JobsAreOnce /\ RollbackIInv /\ DeskIInv)
  BY RunTakesTheirSteps, SpecIInv, RollbackHolds, DeskHolds, PTL DEF FairSpec

(* What each queue counts as unfinished is what is queued or in somebody's *)
(* hands, and every item is in exactly one place (asyncjobqueue _worker,   *)
(* rollback run_next, support and shipping queue task_done).               *)
THEOREM AccountingIsAlwaysExact == MCSpec => []AccountingIsExact
  <1>1. IInv /\ JobsAreOnce /\ RollbackIInv /\ DeskIInv => AccountingIsExact
    <2> SUFFICES ASSUME IInv, JobsAreOnce, RollbackIInv, DeskIInv PROVE AccountingIsExact
      OBVIOUS
    <2>1. TypesOK
      BY DEF TypesOK, IInv, RollbackIInv, DeskIInv
    <2> QED
      BY <2>1, JobsAreCounted, RollbackReports, DeskReports DEF AccountingIsExact
  <1> QED
    BY <1>1, AllHold, PTL

(* A join that returns covers whatever was put before it was called, in    *)
(* each of the queues.                                                     *)
THEOREM JoinsCoverTheirItems == MCSpec => []JoinsCoverEarlierItems
  <1>1. IInv /\ RollbackIInv /\ DeskIInv => JoinsCoverEarlierItems
    BY DeskReports DEF JoinsCoverEarlierItems, IInv, RollbackIInv
  <1> QED
    BY <1>1, AllHold, PTL

(* Every step takes actions in the reverse order of registration, and      *)
(* tickets by urgency and then in order.                                   *)
THEOREM ItemsAreTakenInOrder == MCSpec => TakenInOrder
  <1>1. RollbackIInv => Rollback!ClaimedInReverse
    BY RollbackReports
  <1>2. DeskIInv /\ [Desk!Next]_ticketVars => Desk!NoTicketOvertaken
    BY NobodyIsOvertaken
  <1> QED
    BY <1>1, <1>2, AllHold, RunTakesTheirSteps, PTL
    DEF TakenInOrder, Desk!Spec, Desk!vars, ticketVars
=============================================================================
