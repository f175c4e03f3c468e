----------------------------- MODULE RetryExecutor -----------------------------
(***************************************************************************)
(* RetryExecutor of retryexecutor/executor.py: run_all submits its tasks   *)
(* to a ThreadPoolExecutor, whose workers run each with retries, collects  *)
(* the futures as they complete and leaves the pool's with block, which    *)
(* waits for every task, queued ones included, whatever ended the block.   *)
(*                                                                         *)
(* Tasks are numbered in the order of the mapping.                         *)
(***************************************************************************)
EXTENDS Integers, FiniteSets

CONSTANTS
  TaskCount,     (* len(tasks)                                             *)
  MaxWorkers,    (* max_workers                                            *)
  MaxAttempts,   (* max_attempts                                           *)
  Endings        (* how an attempt may end: "return", "raise" an           *)
                 (* Exception, or "abort" with another BaseException       *)

ExecutorAssumption ==
  /\ {TaskCount, MaxWorkers, MaxAttempts} \subseteq Nat \ {0}
  /\ Endings \subseteq {"return", "raise", "abort"}

Tasks == 1 .. TaskCount

VARIABLES
  caller,      (* run_all: "submitting", "collecting", "leaving" or        *)
               (* "unwinding" the with block, "returned" or "raised"       *)
  task,        (* per task: "new", "queued", "running", or the state of    *)
               (* its future: "value", "error" (a RetryResult) or "aborted"*)
  attempts,    (* per task: attempts begun                                 *)
  results      (* per task in the dict results: the attempts it reports    *)

vars == <<caller, task, attempts, results>>

Init ==
  /\ caller = "submitting"
  /\ task = [t \in Tasks |-> "new"]
  /\ attempts = [t \in Tasks |-> 0]
  /\ results = [t \in {} |-> 0]

In(state) == {t \in Tasks : task[t] = state}
Completed == In("value") \cup In("error") \cup In("aborted")

-----------------------------------------------------------------------------
(* run_all *)

Submit(t) ==
  /\ caller = "submitting"
  /\ task[t] = "new" /\ \A u \in 1 .. t - 1 : task[u] # "new"
  /\ task' = [task EXCEPT ![t] = "queued"]
  /\ caller' = IF t = TaskCount THEN "collecting" ELSE caller
  /\ UNCHANGED <<attempts, results>>

(* as_completed yields a future; result() raises what aborted it.          *)
Collect(t) ==
  /\ caller = "collecting"
  /\ t \in Completed \ DOMAIN results
  /\ IF task[t] = "aborted"
     THEN caller' = "unwinding" /\ UNCHANGED results
     ELSE /\ results' = [u \in DOMAIN results \cup {t} |->
                           IF u = t THEN attempts[t] ELSE results[u]]
          /\ caller' = IF DOMAIN results' = Tasks THEN "leaving" ELSE caller
  /\ UNCHANGED <<task, attempts>>

LeaveAtOnce ==   \* mutant: shutdown(wait=False)
  /\ \/ caller = "leaving" /\ caller' = "returned"
     \/ caller = "unwinding" /\ caller' = "raised"
  /\ UNCHANGED <<task, attempts, results>>

(* ThreadPoolExecutor.__exit__ is shutdown(wait=True).                     *)
Leave ==
  /\ Completed = Tasks
  /\ \/ caller = "leaving" /\ caller' = "returned"
     \/ caller = "unwinding" /\ caller' = "raised"
  /\ UNCHANGED <<task, attempts, results>>

-----------------------------------------------------------------------------
(* _run_with_retries, in a worker of the pool *)

Begin(t) ==
  /\ task[t] = "queued" /\ \A u \in 1 .. t - 1 : task[u] # "queued"
  /\ Cardinality(In("running")) < MaxWorkers
  /\ task' = [task EXCEPT ![t] = "running"]
  /\ attempts' = [attempts EXCEPT ![t] = 1]
  /\ UNCHANGED <<caller, results>>

Succeed(t) ==
  /\ task[t] = "running" /\ "return" \in Endings
  /\ task' = [task EXCEPT ![t] = "value"]
  /\ UNCHANGED <<caller, attempts, results>>

FailEarly(t) ==   \* mutant: range(1, max_attempts)
  /\ task[t] = "running" /\ "raise" \in Endings
  /\ IF attempts[t] + 1 < MaxAttempts
     THEN attempts' = [attempts EXCEPT ![t] = @ + 1] /\ UNCHANGED task
     ELSE task' = [task EXCEPT ![t] = "error"] /\ UNCHANGED attempts
  /\ UNCHANGED <<caller, results>>

Fail(t) ==
  /\ task[t] = "running" /\ "raise" \in Endings
  /\ IF attempts[t] < MaxAttempts
     THEN attempts' = [attempts EXCEPT ![t] = @ + 1] /\ UNCHANGED task
     ELSE task' = [task EXCEPT ![t] = "error"] /\ UNCHANGED attempts
  /\ UNCHANGED <<caller, results>>

(* The future keeps the exception, and the worker goes on.                 *)
Abort(t) ==
  /\ task[t] = "running" /\ "abort" \in Endings
  /\ task' = [task EXCEPT ![t] = "aborted"]
  /\ UNCHANGED <<caller, attempts, results>>

RunTask(t) == Begin(t) \/ Succeed(t) \/ Fail(t) \/ Abort(t)

Next == Leave \/ \E t \in Tasks : Submit(t) \/ Collect(t) \/ RunTask(t)

Spec == Init /\ [][Next]_vars

(* Idle workers take tasks, attempts end, and the caller goes on.          *)
Fairness ==
  /\ WF_vars(Leave)
  /\ \A t \in Tasks : WF_vars(Collect(t)) /\ WF_vars(RunTask(t))

-----------------------------------------------------------------------------
TypeOK ==
  /\ caller \in {"submitting", "collecting", "leaving", "unwinding", "returned", "raised"}
  /\ task \in [Tasks -> {"new", "queued", "running", "value", "error", "aborted"}]
  /\ attempts \in [Tasks -> 0 .. MaxAttempts]
  /\ DOMAIN results \subseteq Tasks
  /\ \A t \in DOMAIN results : results[t] \in 1 .. MaxAttempts

(* What run_all returns is complete and true: one result per task, a       *)
(* failure only after exactly max_attempts attempts, and the number of     *)
(* attempts it reports is the number that were made (executor:91-102).     *)
ResultsAreTruthful ==
  caller = "returned" =>
    /\ DOMAIN results = Tasks
    /\ \A t \in Tasks :
         /\ task[t] \in {"value", "error"}
         /\ task[t] = "error" => attempts[t] = MaxAttempts
         /\ results[t] = attempts[t]

(* When run_all is over, returned or raised, no partner call is running    *)
(* and none will start (executor:69).                                      *)
NothingRunsAfterwards == caller \in {"returned", "raised"} => Completed = Tasks

(* run_all comes to an end, also when an attempt aborts.                   *)
RunAllEnds == caller = "collecting" ~> caller \in {"returned", "raised"}
=============================================================================
