-------------------------- MODULE DocumentPipeline --------------------------
(***************************************************************************)
(* DocumentPipeline of documentpipeline/pipeline.py: one queue and one     *)
(* worker thread per stage.  submit and close put into the first queue     *)
(* under _lock; each worker takes from its own queue, runs its stage       *)
(* outside any lock, and puts into the next queue, or appends to _results  *)
(* or _failures under _lock.  The queues are unbounded, so put never       *)
(* blocks, and nobody reads their task accounting (task_done).             *)
(*                                                                         *)
(* Documents are numbered in the order in which submit accepted them, and  *)
(* the sentinel is the number after all of them: what travels through a    *)
(* queue is then in order exactly when its numbers increase.               *)
(***************************************************************************)
EXTENDS Integers, Sequences, FiniteSets

CONSTANTS
  StageCount,     (* len(stages)                                           *)
  MaxDocuments,   (* bound: how many documents are ever submitted          *)
  Closers,        (* threads that call close                               *)
  TimedClosers,   (* those that pass a timeout                             *)
  Endings         (* how a stage function may end (see AllEndings)         *)

(* "return": an output; "raise": an Exception; "abort": a BaseException    *)
(* that `except Exception` does not catch, such as SystemExit.             *)
AllEndings == {"return", "raise", "abort"}

ASSUME PipelineAssumption ==
  /\ StageCount \in Nat \ {0}
  /\ MaxDocuments \in Nat
  /\ TimedClosers \subseteq Closers
  /\ Endings \subseteq AllEndings

Stages == 1 .. StageCount
Documents == 1 .. MaxDocuments
Sentinel == MaxDocuments + 1
Nothing == 0

VARIABLES
  accepted,   (* number of documents accepted by submit                    *)
  closed,     (* _closed                                                   *)
  queues,     (* _queues, one per stage                                    *)
  held,       (* what each worker has taken and not finished with          *)
  worker,     (* "running", "stopped" (returned) or "dead" (exception)     *)
  results,    (* _results                                                  *)
  failures,   (* _failures, as pairs <<document, stage>>                   *)
  closer      (* per closing thread: "idle", "joining" or what it returned *)

vars == <<accepted, closed, queues, held, worker, results, failures, closer>>

AllStopped == \A i \in Stages : worker[i] # "running"

Init ==
  /\ accepted = 0
  /\ closed = FALSE
  /\ queues = [i \in Stages |-> <<>>]
  /\ held = [i \in Stages |-> Nothing]
  /\ worker = [i \in Stages |-> "running"]
  /\ results = <<>>
  /\ failures = <<>>
  /\ closer = [c \in Closers |-> "idle"]

-----------------------------------------------------------------------------
(* submit and close *)

Put(i, item) == queues' = [queues EXCEPT ![i] = Append(@, item)]

AcceptingLate == accepted < MaxDocuments   \* mutant: _closed is not checked

(* submit raises RuntimeError, changing nothing, once the pipeline is closed. *)
Accepting == ~closed /\ accepted < MaxDocuments

Submit ==
  /\ Accepting
  /\ accepted' = accepted + 1
  /\ Put(1, accepted + 1)
  /\ UNCHANGED <<closed, held, worker, results, failures, closer>>

BeginClose(c) ==
  /\ closer[c] = "idle"
  /\ closer' = [closer EXCEPT ![c] = "joining"]
  /\ closed' = TRUE
  /\ IF closed THEN UNCHANGED queues ELSE Put(1, Sentinel)
  /\ UNCHANGED <<accepted, held, worker, results, failures>>

(* The joins of one call return when every worker has ended or, with a     *)
(* timeout, at any moment before; the answer is read afterwards.           *)
EndClose(c) ==
  /\ closer[c] = "joining"
  /\ AllStopped \/ c \in TimedClosers
  /\ closer' = [closer EXCEPT ![c] =
                                IF AllStopped THEN "true" ELSE "false"]
  /\ UNCHANGED <<accepted, closed, queues, held, worker, results, failures>>

-----------------------------------------------------------------------------
(* _run_stage *)

Take(i) ==
  /\ worker[i] = "running" /\ held[i] = Nothing
  /\ queues[i] # <<>>
  /\ held' = [held EXCEPT ![i] = Head(queues[i])]
  /\ queues' = [queues EXCEPT ![i] = Tail(@)]
  /\ UNCHANGED <<accepted, closed, worker, results, failures, closer>>

Running(i) == worker[i] = "running" /\ held[i] \in Documents

Release(i) == held' = [held EXCEPT ![i] = Nothing]

ForwardInFront(i) ==   \* mutant: the next stage is handed the item first
  /\ Running(i) /\ "return" \in Endings
  /\ Release(i)
  /\ IF i = StageCount
     THEN results' = Append(results, held[i]) /\ UNCHANGED queues
     ELSE /\ queues' = [queues EXCEPT ![i + 1] = <<held[i]>> \o @]
          /\ UNCHANGED results
  /\ UNCHANGED <<accepted, closed, worker, failures, closer>>

(* _forward_item *)
Forward(i) ==
  /\ Running(i) /\ "return" \in Endings
  /\ Release(i)
  /\ IF i = StageCount
     THEN results' = Append(results, held[i]) /\ UNCHANGED queues
     ELSE Put(i + 1, held[i]) /\ UNCHANGED results
  /\ UNCHANGED <<accepted, closed, worker, failures, closer>>

RecordFailureAndForward(i) ==   \* mutant: the `continue` is missing
  /\ Running(i) /\ "raise" \in Endings
  /\ Release(i)
  /\ failures' = Append(failures, <<held[i], i>>)
  /\ IF i = StageCount
     THEN results' = Append(results, held[i]) /\ UNCHANGED queues
     ELSE Put(i + 1, held[i]) /\ UNCHANGED results
  /\ UNCHANGED <<accepted, closed, worker, closer>>

RecordFailure(i) ==
  /\ Running(i) /\ "raise" \in Endings
  /\ Release(i)
  /\ failures' = Append(failures, <<held[i], i>>)
  /\ UNCHANGED <<accepted, closed, queues, worker, results, closer>>

(* The exception ends the worker thread; its item is lost. *)
Abort(i) ==
  /\ Running(i) /\ "abort" \in Endings
  /\ Release(i)
  /\ worker' = [worker EXCEPT ![i] = "dead"]
  /\ UNCHANGED <<accepted, closed, queues, results, failures, closer>>

StopAlone(i) ==   \* mutant: the sentinel is not forwarded
  /\ worker[i] = "running" /\ held[i] = Sentinel
  /\ Release(i)
  /\ worker' = [worker EXCEPT ![i] = "stopped"]
  /\ UNCHANGED <<accepted, closed, queues, results, failures, closer>>

(* _forward_sentinel, then return *)
Stop(i) ==
  /\ worker[i] = "running" /\ held[i] = Sentinel
  /\ Release(i)
  /\ worker' = [worker EXCEPT ![i] = "stopped"]
  /\ IF i = StageCount THEN UNCHANGED queues ELSE Put(i + 1, Sentinel)
  /\ UNCHANGED <<accepted, closed, results, failures, closer>>

RunStage(i) == Take(i) \/ Forward(i) \/ RecordFailure(i) \/ Abort(i) \/ Stop(i)
Close(c) == BeginClose(c) \/ EndClose(c)

Next ==
  \/ Submit
  \/ \E c \in Closers : Close(c)
  \/ \E i \in Stages : RunStage(i)

Spec == Init /\ [][Next]_vars

(* Worker threads are scheduled and stage functions end; a join returns    *)
(* once the workers have ended.  Nobody is obliged to submit or to close.  *)
Fairness ==
  /\ \A i \in Stages : WF_vars(RunStage(i))
  /\ \A c \in Closers : WF_vars(EndClose(c))

FairSpec == Spec /\ Fairness

-----------------------------------------------------------------------------
TypeOK ==
  /\ accepted \in 0 .. MaxDocuments
  /\ closed \in BOOLEAN
  /\ queues \in [Stages -> Seq(Documents \cup {Sentinel})]
  /\ held \in [Stages -> Documents \cup {Sentinel, Nothing}]
  /\ worker \in [Stages -> {"running", "stopped", "dead"}]
  /\ results \in Seq(Documents)
  /\ failures \in Seq(Documents \X Stages)
  /\ closer \in [Closers -> {"idle", "joining", "true", "false"}]

Items(s) == {s[k] : k \in DOMAIN s}
Increasing(s) == \A k, l \in DOMAIN s : k < l => s[k] < s[l]

InQueue(i) == Items(queues[i])
InFlight(i) == InQueue(i) \cup ({held[i]} \ {Nothing})
Published == Items(results)
Failed == {failures[k][1] : k \in DOMAIN failures}

Settled(d) == d \in Published \/ d \in Failed

(* Where d is: at <<i, k>> in the queue of stage i, at <<i, 0>> in the      *)
(* hands of its worker, among the results (as if they were the queue of a  *)
(* further stage) or among the failures (of yet another).                  *)
Places(d) ==
  (UNION {{<<i, k>> : k \in {l \in DOMAIN queues[i] : queues[i][l] = d}} :
            i \in Stages})
  \cup {<<i, 0>> : i \in {j \in Stages : held[j] = d}}
  \cup {<<StageCount + 1, k>> : k \in {j \in DOMAIN results : results[j] = d}}
  \cup {<<StageCount + 2, k>> : k \in {j \in DOMAIN failures : failures[j][1] = d}}

Lost == {d \in 1 .. accepted : Places(d) = {}}

(* Every accepted document is at all times in exactly one place, however   *)
(* workers, submitters and closers interleave: none is settled twice or    *)
(* both published and failed, and none is lost but the one a worker was    *)
(* running when an exception other than Exception ended its thread.        *)
ExactlyOnce ==
  /\ \A d \in (1 .. accepted) \ Lost : Cardinality(Places(d)) = 1
  /\ Cardinality(Lost) = Cardinality({i \in Stages : worker[i] = "dead"})

(* No document overtakes another: results are published in the order of    *)
(* acceptance, whatever each stage drops, and behind a document only later *)
(* ones are in flight.  A stage therefore takes the sentinel last.         *)
InOrder ==
  /\ Increasing(results)
  /\ \A i \in Stages :
       /\ Increasing(queues[i])
       /\ held[i] # Nothing => \A x \in InQueue(i) : held[i] < x
       /\ \A x \in InFlight(i) :
            /\ \A d \in Published : d < x
            /\ \A j \in Stages : i < j => \A y \in InFlight(j) : y < x

(* When close returns True, every accepted document has been settled       *)
(* ("Drain queued documents", close:89).                                   *)
CloseTrueMeansSettled ==
  \A c \in Closers : closer[c] = "true" =>
    \A d \in 1 .. accepted : Settled(d)

(* After close every worker ends, so a close without a timeout returns;    *)
(* and every accepted document is settled whether or not anyone closes.    *)
PipelineDrains ==
  /\ closed ~> AllStopped
  /\ \A d \in Documents : d <= accepted ~> Settled(d)

(* The pipeline does what DocumentService promises. *)
Service == INSTANCE DocumentService
             WITH stopped <- AllStopped, failed <- Failed
ImplementsService == Service!Spec
=============================================================================
