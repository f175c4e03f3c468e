---------------------------- MODULE AsyncJobQueue ----------------------------
(***************************************************************************)
(* AsyncJobQueue of asyncjobqueue/queue.py: worker tasks of one event loop *)
(* take jobs from an asyncio.Queue.  Code between two awaits is atomic, so *)
(* an action is what a task does from one suspension to the next.  The     *)
(* queue is unbounded: submit never suspends.                              *)
(*                                                                         *)
(* Jobs are numbered in the order of submission.  The _finished event of   *)
(* asyncio.Queue wakes every task waiting in join at the moment the count  *)
(* of unfinished items is zero; the task resumes later, without looking at *)
(* the count again.                                                        *)
(***************************************************************************)
EXTENDS Integers, Sequences, FiniteSets

CONSTANTS
  Workers,      (* the worker tasks: worker_count of them                  *)
  Joiners,      (* tasks that call join                                    *)
  Stoppers,     (* tasks that call stop                                    *)
  Cancellable,  (* stoppers that may be cancelled (asyncio.wait_for)       *)
  MaxJobs,      (* bound: how many jobs are ever submitted                 *)
  Endings       (* how a handler may end (see AllEndings)                  *)

(* "return", "raise" an Exception, or "cancel": CancelledError, which is   *)
(* not an Exception and ends the worker task.                              *)
AllEndings == {"return", "raise", "cancel"}

ASSUME JobQueueAssumption ==
  /\ IsFiniteSet(Workers) /\ Workers # {}
  /\ Joiners \cap Stoppers = {}
  /\ Cancellable \subseteq Stoppers
  /\ MaxJobs \in Nat
  /\ Endings \subseteq AllEndings

Jobs == 1 .. MaxJobs
StopToken == MaxJobs + 1
NoItem == 0
Callers == Joiners \cup Stoppers

VARIABLES
  started,     (* _started                                                 *)
  stopping,    (* _stopping                                                *)
  submitted,   (* how many jobs submit has put into the queue              *)
  queue,       (* items of _queue                                          *)
  unfinished,  (* items put into _queue and not yet marked task_done       *)
  item,        (* the job each worker is handling                          *)
  worker,      (* "new", "running", "done" or "cancelled"                  *)
  processed,   (* jobs whose handler has ended                             *)
  failures,    (* _failures, as the jobs whose handler raised              *)
  caller,      (* where each calling task is in join or stop               *)
  mark         (* jobs submitted when the caller called (observed only)    *)

vars == <<started, stopping, submitted, queue, unfinished, item, worker,
          processed, failures, caller, mark>>

Init ==
  /\ started = FALSE
  /\ stopping = FALSE
  /\ submitted = 0
  /\ queue = <<>>
  /\ unfinished = 0
  /\ item = [w \in Workers |-> NoItem]
  /\ worker = [w \in Workers |-> "new"]
  /\ processed = {}
  /\ failures = <<>>
  /\ caller = [c \in Callers |-> "idle"]
  /\ mark = [c \in Callers |-> 0]

-----------------------------------------------------------------------------
(* start and submit; a refused call raises RuntimeError and changes nothing. *)

Start ==
  /\ ~started
  /\ started' = TRUE
  /\ worker' = [w \in Workers |-> "running"]
  /\ UNCHANGED <<stopping, submitted, queue, unfinished, item, processed,
                 failures, caller, mark>>

AcceptingLate == started /\ submitted < MaxJobs   \* mutant: _stopping ignored

Accepting == started /\ ~stopping /\ submitted < MaxJobs

Submit ==
  /\ Accepting
  /\ submitted' = submitted + 1
  /\ queue' = Append(queue, submitted + 1)
  /\ unfinished' = unfinished + 1
  /\ UNCHANGED <<started, stopping, item, worker, processed, failures, caller, mark>>

-----------------------------------------------------------------------------
(* join and stop *)

DrainedQueue == queue = <<>>   \* mutant: jobs being handled are not counted

Drained == unfinished = 0

Join(c) ==
  /\ caller[c] = "idle"
  /\ caller' = [caller EXCEPT ![c] = IF Drained THEN "returned" ELSE "joining"]
  /\ mark' = [mark EXCEPT ![c] = submitted]
  /\ UNCHANGED <<started, stopping, submitted, queue, unfinished, item, worker,
                 processed, failures>>

JoinReturns(c) ==
  /\ caller[c] = "woken"
  /\ caller' = [caller EXCEPT ![c] = "returned"]
  /\ UNCHANGED <<started, stopping, submitted, queue, unfinished, item, worker,
                 processed, failures, mark>>

OneToken == <<StopToken>>   \* mutant: the loop over _workers is missing

Tokens == [k \in 1 .. Cardinality(Workers) |-> StopToken]

(* Put a token for each worker, then wait for the workers in gather.       *)
PutTokens(c) ==
  /\ queue' = queue \o Tokens
  /\ unfinished' = unfinished + Len(Tokens)
  /\ caller' = [caller EXCEPT ![c] = "gathering"]

(* The early return of stop: nothing was started, or a stop was called     *)
(* before, whatever has become of it.                                      *)
StopSkips(c) ==
  /\ caller[c] = "idle"
  /\ ~started \/ stopping
  /\ caller' = [caller EXCEPT ![c] = IF started THEN "skipped" ELSE "unstarted"]
  /\ UNCHANGED <<started, stopping, submitted, queue, unfinished, item, worker,
                 processed, failures, mark>>

Stop(c) ==
  /\ caller[c] = "idle"
  /\ started /\ ~stopping
  /\ stopping' = TRUE
  /\ mark' = [mark EXCEPT ![c] = submitted]
  /\ IF Drained
     THEN PutTokens(c)
     ELSE /\ caller' = [caller EXCEPT ![c] = "joining"]
          /\ UNCHANGED <<queue, unfinished>>
  /\ UNCHANGED <<started, submitted, item, worker, processed, failures>>

StopResumes(c) ==
  /\ caller[c] = "woken"
  /\ PutTokens(c)
  /\ UNCHANGED <<started, stopping, submitted, item, worker, processed,
                 failures, mark>>

(* gather returns when every worker is done, and raises CancelledError as  *)
(* soon as one was cancelled.                                              *)
Gathered(c) ==
  /\ caller[c] = "gathering"
  /\ \/ /\ \A w \in Workers : worker[w] = "done"
        /\ caller' = [caller EXCEPT ![c] = "stopped"]
     \/ /\ \E w \in Workers : worker[w] = "cancelled"
        /\ caller' = [caller EXCEPT ![c] = "raised"]
  /\ UNCHANGED <<started, stopping, submitted, queue, unfinished, item, worker,
                 processed, failures, mark>>

(* The call of stop is cancelled: in join nothing else happens; in gather  *)
(* every worker that has not ended is cancelled with it, at its get().     *)
CancelStop(c) ==
  /\ c \in Cancellable
  /\ caller[c] \in {"joining", "woken", "gathering"}
  /\ caller' = [caller EXCEPT ![c] = "cancelled"]
  /\ worker' = [w \in Workers |->
                  IF caller[c] = "gathering" /\ worker[w] = "running"
                  THEN "cancelled" ELSE worker[w]]
  /\ UNCHANGED <<started, stopping, submitted, queue, unfinished, item, processed,
                 failures, mark>>

-----------------------------------------------------------------------------
(* _worker *)

(* A worker takes a job and runs its handler up to the first await. *)
Get(w) ==
  /\ worker[w] = "running" /\ item[w] = NoItem
  /\ queue # <<>> /\ Head(queue) \in Jobs
  /\ item' = [item EXCEPT ![w] = Head(queue)]
  /\ queue' = Tail(queue)
  /\ UNCHANGED <<started, stopping, submitted, unfinished, worker, processed,
                 failures, caller, mark>>

Handling(w) == item[w] \in Jobs

TaskDoneTwice(w) ==   \* mutant: marked in the handler's path and in finally
  /\ item' = [item EXCEPT ![w] = NoItem]
  /\ unfinished' = unfinished - 2
  /\ caller' = caller

(* task_done in the finally clause wakes the joins at zero. *)
TaskDone(w) ==
  /\ item' = [item EXCEPT ![w] = NoItem]
  /\ unfinished' = unfinished - 1
  /\ caller' = [c \in Callers |->
                  IF unfinished' = 0 /\ caller[c] = "joining"
                  THEN "woken" ELSE caller[c]]

Return(w) ==
  /\ Handling(w) /\ "return" \in Endings
  /\ processed' = processed \cup {item[w]}
  /\ TaskDone(w)
  /\ UNCHANGED <<started, stopping, submitted, queue, worker, failures, mark>>

Raise(w) ==
  /\ Handling(w) /\ "raise" \in Endings
  /\ processed' = processed \cup {item[w]}
  /\ failures' = Append(failures, item[w])
  /\ TaskDone(w)
  /\ UNCHANGED <<started, stopping, submitted, queue, worker, mark>>

Cancel(w) ==
  /\ Handling(w) /\ "cancel" \in Endings
  /\ processed' = processed \cup {item[w]}
  /\ worker' = [worker EXCEPT ![w] = "cancelled"]
  /\ TaskDone(w)
  /\ UNCHANGED <<started, stopping, submitted, queue, failures, mark>>

(* There is no await between taking a token and the end of the worker. *)
TakeToken(w) ==
  /\ worker[w] = "running" /\ item[w] = NoItem
  /\ queue # <<>> /\ Head(queue) = StopToken
  /\ queue' = Tail(queue)
  /\ worker' = [worker EXCEPT ![w] = "done"]
  /\ TaskDone(w)
  /\ UNCHANGED <<started, stopping, submitted, processed, failures, mark>>

Work(w) == Get(w) \/ Return(w) \/ Raise(w) \/ Cancel(w) \/ TakeToken(w)

JoinTask(c) == Join(c) \/ JoinReturns(c)
StopTask(c) ==
  StopSkips(c) \/ Stop(c) \/ StopResumes(c) \/ Gathered(c) \/ CancelStop(c)

Next ==
  \/ Start \/ Submit
  \/ \E w \in Workers : Work(w)
  \/ \E c \in Joiners : JoinTask(c)
  \/ \E c \in Stoppers : StopTask(c)

Spec == Init /\ [][Next]_vars

(* The event loop runs every ready task, and handlers end.  Nobody is      *)
(* obliged to start, submit, join or stop.                                 *)
Fairness ==
  /\ \A w \in Workers : WF_vars(Work(w))
  /\ \A c \in Joiners : WF_vars(JoinReturns(c))
  /\ \A c \in Stoppers : WF_vars(StopResumes(c) \/ Gathered(c))

FairSpec == Spec /\ Fairness

-----------------------------------------------------------------------------
TypeOK ==
  /\ started \in BOOLEAN /\ stopping \in BOOLEAN
  /\ submitted \in 0 .. MaxJobs
  /\ queue \in Seq(Jobs \cup {StopToken})
  /\ unfinished \in Nat
  /\ item \in [Workers -> Jobs \cup {NoItem}]
  /\ worker \in [Workers -> {"new", "running", "done", "cancelled"}]
  /\ processed \subseteq Jobs
  /\ failures \in Seq(Jobs)
  /\ caller \in [Callers -> {"idle", "joining", "woken", "returned", "unstarted",
                             "skipped", "gathering", "stopped", "raised", "cancelled"}]
  /\ mark \in [Callers -> 0 .. MaxJobs]

Busy == {w \in Workers : item[w] # NoItem}
AllEnded == \A w \in Workers : worker[w] # "running"

(* The task accounting is exact: what is unfinished is what is queued or   *)
(* in the hands of a worker, so a join is never woken early or for ever    *)
(* late; and every job is in exactly one of the three places.              *)
UnfinishedIsWhatIsLeft ==
  /\ unfinished = Len(queue) + Cardinality(Busy)
  /\ \A j \in 1 .. submitted :
       Cardinality({k \in DOMAIN queue : queue[k] = j})
         + Cardinality({w \in Workers : item[w] = j})
         + Cardinality({j} \cap processed) = 1

(* When join returns, every job submitted before the call has been         *)
(* processed, even if later jobs have arrived since (join:62).             *)
JoinCoversEarlierJobs ==
  \A c \in Callers : caller[c] \in {"returned", "woken", "gathering", "stopped"}
    => 1 .. mark[c] \subseteq processed

(* When a stop has gone through, all jobs are processed, no worker is left *)
(* running and no token is left over (stop:66-75).                        *)
StoppedMeansDrained ==
  \A c \in Stoppers : caller[c] = "stopped" =>
    AllEnded /\ processed = 1 .. submitted /\ queue = <<>> /\ unfinished = 0

(* Every submitted job is processed, every join returns, and every stop of *)
(* a started queue is followed by the end of all workers: one that is on   *)
(* goes through, and one that returned because of another is followed by   *)
(* the end that the other brings (stop:67-75, _worker:87-91).  A cancelled *)
(* worker excuses all of that; a cancelled stop excuses itself and those   *)
(* that returned because of it: EveryStopStops is about them.              *)
EverythingEnds ==
  LET Excused == \E w \in Workers : worker[w] = "cancelled"
      StopCancelled == \E c \in Stoppers : caller[c] = "cancelled"
  IN
    /\ \A j \in Jobs : submitted >= j ~> j \in processed \/ Excused
    /\ \A c \in Joiners : caller[c] = "joining" ~> caller[c] = "returned" \/ Excused
    /\ \A c \in Stoppers :
         /\ caller[c] \in {"joining", "gathering"}
              ~> caller[c] = "stopped" \/ caller[c] = "cancelled" \/ Excused
         /\ caller[c] = "skipped" ~> AllEnded \/ StopCancelled \/ Excused

(* "Drain submitted jobs and stop all worker tasks" (stop:67): when a stop *)
(* of a started queue has returned, the workers end, whatever happened to  *)
(* an earlier stop.                                                        *)
EveryStopStops ==
  \A c \in Stoppers : caller[c] \in {"stopped", "skipped"} ~> AllEnded
=============================================================================
