--------------------------- MODULE ImportJobEvents ---------------------------
(***************************************************************************)
(* ImportJobEventCollector of importjobevents/events.py: the parent starts *)
(* one process per job, collects their events from one                     *)
(* multiprocessing.Queue until it has a sentinel of each, and joins them.  *)
(*                                                                         *)
(* The queue is modelled as the code meets it.  A put appends to a buffer  *)
(* of the process; a feeder thread of that process takes the lock all      *)
(* writers share, writes the message into the pipe, which may be full, and *)
(* releases the lock.  A process that ends by itself first waits for its   *)
(* feeder.  One that is killed loses its buffer, and the lock if it had it *)
(* stays taken.                                                            *)
(***************************************************************************)
EXTENDS Integers, Sequences

CONSTANTS
  JobCount,      (* len(job_batch)                                         *)
  Failing,       (* the jobs with should_fail_validation                   *)
  Killable,      (* the jobs whose process may be killed from outside      *)
  PipeCapacity   (* how many messages the pipe holds                       *)

ASSUME ImportAssumption ==
  /\ JobCount \in Nat \ {0}
  /\ Failing \subseteq 1 .. JobCount
  /\ Killable \subseteq 1 .. JobCount
  /\ PipeCapacity \in Nat \ {0}

Jobs == 1 .. JobCount

(* What _run_import_job puts; "finished" is _WorkerFinished.               *)
Program(j) ==
  IF j \in Failing THEN <<"started", "parsed", "failed", "finished">>
                   ELSE <<"started", "parsed", "validated", "stored", "finished">>

VARIABLES
  parent,     (* "starting", "collecting", "joining", "returned", "raised" *)
  launched,   (* processes started                                         *)
  process,    (* per job: "new", "running", "exited" or "killed"           *)
  puts,       (* per job: how many of its messages it has put              *)
  buffer,     (* per job: put, and not yet written to the pipe             *)
  writer,     (* the job whose feeder holds the write lock, or 0           *)
  pipe,       (* messages <<job, message>> in the pipe                     *)
  collected,  (* collected_events, as pairs <<job, stage>>                 *)
  finished,   (* finished_workers                                          *)
  joined      (* processes joined                                          *)

vars == <<parent, launched, process, puts, buffer, writer, pipe, collected,
          finished, joined>>

Init ==
  /\ parent = "starting"
  /\ launched = 0
  /\ process = [j \in Jobs |-> "new"]
  /\ puts = [j \in Jobs |-> 0]
  /\ buffer = [j \in Jobs |-> <<>>]
  /\ writer = 0
  /\ pipe = <<>>
  /\ collected = <<>>
  /\ finished = 0
  /\ joined = 0

-----------------------------------------------------------------------------
(* collect *)

StartThenJoin ==   \* mutant: the processes are joined before collecting
  /\ parent = "starting"
  /\ launched' = launched + 1
  /\ process' = [process EXCEPT ![launched + 1] = "running"]
  /\ parent' = IF launched + 1 = JobCount THEN "joining" ELSE parent
  /\ UNCHANGED <<puts, buffer, writer, pipe, collected, finished, joined>>

Start ==
  /\ parent = "starting"
  /\ launched' = launched + 1
  /\ process' = [process EXCEPT ![launched + 1] = "running"]
  /\ parent' = IF launched + 1 = JobCount THEN "collecting" ELSE parent
  /\ UNCHANGED <<puts, buffer, writer, pipe, collected, finished, joined>>

Receive ==
  /\ parent = "collecting"
  /\ pipe # <<>>
  /\ pipe' = Tail(pipe)
  /\ LET message == Head(pipe)[2] IN
       \/ /\ message = "finished"
          /\ finished' = finished + 1
          /\ parent' = IF finished + 1 = JobCount THEN "joining" ELSE parent
          /\ UNCHANGED collected
       \/ /\ message # "finished"
          /\ collected' = Append(collected, Head(pipe))
          /\ UNCHANGED <<parent, finished>>
  /\ UNCHANGED <<launched, process, puts, buffer, writer, joined>>

JoinIgnoringExitCode ==   \* mutant: the exit code is not looked at
  /\ parent = "joining"
  /\ process[joined + 1] \in {"exited", "killed"}
  /\ joined' = joined + 1
  /\ parent' = IF joined + 1 = JobCount THEN "returned" ELSE parent
  /\ UNCHANGED <<launched, process, puts, buffer, writer, pipe, collected, finished>>

Join ==
  /\ parent = "joining"
  /\ \/ /\ process[joined + 1] = "exited"
        /\ joined' = joined + 1
        /\ parent' = IF joined + 1 = JobCount THEN "returned" ELSE parent
     \/ /\ process[joined + 1] = "killed"
        /\ parent' = "raised"
        /\ UNCHANGED joined
  /\ UNCHANGED <<launched, process, puts, buffer, writer, pipe, collected, finished>>

-----------------------------------------------------------------------------
(* _run_import_job, in a process of its own *)

Put(j) ==
  /\ process[j] = "running"
  /\ puts[j] < Len(Program(j))
  /\ puts' = [puts EXCEPT ![j] = @ + 1]
  /\ buffer' = [buffer EXCEPT ![j] = Append(@, Program(j)[puts[j] + 1])]
  /\ UNCHANGED <<parent, launched, process, writer, pipe, collected, finished, joined>>

TakeWriteLock(j) ==
  /\ process[j] = "running"
  /\ buffer[j] # <<>>
  /\ writer = 0
  /\ writer' = j
  /\ UNCHANGED <<parent, launched, process, puts, buffer, pipe, collected, finished, joined>>

Write(j) ==
  /\ process[j] = "running"
  /\ writer = j
  /\ Len(pipe) < PipeCapacity
  /\ pipe' = Append(pipe, <<j, Head(buffer[j])>>)
  /\ buffer' = [buffer EXCEPT ![j] = Tail(@)]
  /\ writer' = 0
  /\ UNCHANGED <<parent, launched, process, puts, collected, finished, joined>>

Exit(j) ==
  /\ process[j] = "running"
  /\ puts[j] = Len(Program(j)) /\ buffer[j] = <<>>
  /\ process' = [process EXCEPT ![j] = "exited"]
  /\ UNCHANGED <<parent, launched, puts, buffer, writer, pipe, collected, finished, joined>>

(* The environment: the process is killed, with a non-zero exit code. *)
Kill(j) ==
  /\ j \in Killable
  /\ process[j] = "running"
  /\ process' = [process EXCEPT ![j] = "killed"]
  /\ buffer' = [buffer EXCEPT ![j] = <<>>]
  /\ UNCHANGED <<parent, launched, puts, writer, pipe, collected, finished, joined>>

Parent == Start \/ Receive \/ Join
Worker(j) == Put(j) \/ Exit(j)
Feeder(j) == TakeWriteLock(j) \/ Write(j)

Next == Parent \/ \E j \in Jobs : Worker(j) \/ Feeder(j) \/ Kill(j)

Spec == Init /\ [][Next]_vars

(* Processes and feeder threads are scheduled, and no feeder waits for     *)
(* ever for a lock that others keep taking in turn.                        *)
Fairness ==
  /\ WF_vars(Parent)
  /\ \A j \in Jobs : WF_vars(Worker(j)) /\ SF_vars(TakeWriteLock(j)) /\ WF_vars(Write(j))

FairSpec == Spec /\ Fairness

-----------------------------------------------------------------------------
Messages == {"started", "parsed", "validated", "stored", "failed", "finished"}

TypeOK ==
  /\ parent \in {"starting", "collecting", "joining", "returned", "raised"}
  /\ launched \in 0 .. JobCount
  /\ process \in [Jobs -> {"new", "running", "exited", "killed"}]
  /\ \A j \in Jobs : puts[j] \in 0 .. Len(Program(j))
  /\ buffer \in [Jobs -> Seq(Messages)]
  /\ writer \in Jobs \cup {0}
  /\ pipe \in Seq(Jobs \X Messages)
  /\ collected \in Seq(Jobs \X (Messages \ {"finished"}))
  /\ finished \in 0 .. JobCount
  /\ joined \in 0 .. JobCount

(* The events of one job are collected: all of them, each once, in the     *)
(* order in which the job emitted them, and no other under its name.       *)
AllCollected(j) ==
  LET events == 1 .. Len(Program(j)) - 1
      own == {k \in DOMAIN collected : collected[k][1] = j}
  IN  \E position \in [events -> own] :
        /\ \A n \in events : collected[position[n]][2] = Program(j)[n]
        /\ \A m, n \in events : m < n => position[m] < position[n]
        /\ own = {position[n] : n \in events}

(* The variables have their types, and                                     *)
(* a tuple of events is returned only when it is complete: every process   *)
(* has exited by itself, even if all the sentinels had arrived before one  *)
(* was killed, and its events are there, each once and in the order it     *)
(* emitted them, with nothing left in a buffer or the pipe (106-122).      *)
ReturnedIsComplete ==
  /\ TypeOK
  /\ parent = "returned" =>
       /\ \A j \in Jobs : process[j] = "exited"
       /\ \A j \in Jobs : AllCollected(j)
       /\ \A j \in Jobs : buffer[j] = <<>>
       /\ pipe = <<>>

(* collect ends, with a result or with an error about a process that       *)
(* failed (lines 7-9 and 118).                                             *)
CollectEnds == parent = "starting" ~> parent \in {"returned", "raised"}

(* It does when no process is killed, however small the pipe: collect      *)
(* empties the pipe before it joins the processes that fill it.            *)
CollectEndsUnlessKilled ==
  parent = "starting" ~>
    parent \in {"returned", "raised"} \/ \E j \in Jobs : process[j] = "killed"
=============================================================================
