---------------------------- MODULE CheckoutChecks ----------------------------
(***************************************************************************)
(* CheckoutChecks.run of taskgroup/checks.py over asyncio.TaskGroup: one   *)
(* task per check.  The group learns of an ended task in a callback of its *)
(* own, later: it aborts at the first Exception, cancelling every check    *)
(* that has not ended, and the async with block ends when no task is left. *)
(* A check that ends cancelled is no failure to the group.                 *)
(***************************************************************************)
EXTENDS Integers, FiniteSets

CONSTANTS
  Checks,     (* the names of _checks                                      *)
  Endings     (* how a check may end by itself: "return", "raise" an       *)
              (* Exception, or "cancel", with CancelledError               *)

ChecksAssumption == Checks # {} /\ Endings \subseteq {"return", "raise", "cancel"}

VARIABLES
  run,        (* run: "idle", "inside" the block, "interrupted" (cancelled *)
              (* there), "returned", "failed" (ExceptionGroup) or          *)
              (* "cancelled" (CancelledError)                              *)
  check,      (* "new", "running", "cancelling" (it gets CancelledError),  *)
              (* "unrun" (the same, before it has run at all), or its end: *)
              (* "value", "error", "cancelled"                             *)
  group,      (* the tasks whose end the group has not noticed             *)
  aborting    (* the group has cancelled its tasks                         *)

checksVars == <<run, check, group, aborting>>

Init ==
  /\ run = "idle"
  /\ check = [c \in Checks |-> "new"]
  /\ group = {}
  /\ aborting = FALSE

-----------------------------------------------------------------------------
Inside == run \in {"inside", "interrupted"}
Active(c) == check[c] \in {"running", "cancelling", "unrun"}
Failed == \E c \in Checks : check[c] = "error"

CreateTasks ==
  /\ run = "idle"
  /\ run' = "inside"
  /\ check' = [c \in Checks |-> "running"]
  /\ group' = Checks
  /\ UNCHANGED aborting

(* A check function raises before it returns an awaitable: the block is    *)
(* left with its error, which cancels the tasks created before it, and no  *)
(* further check is called.                                                *)
CallRaises(c, created) ==
  /\ run = "idle" /\ "raise" \in Endings
  /\ c \notin created
  /\ run' = "inside"
  /\ check' = [d \in Checks |->
                 IF d = c THEN "error" ELSE IF d \in created THEN "unrun" ELSE "new"]
  /\ group' = created
  /\ aborting' = TRUE

EndsAs(c, s) ==
  /\ Active(c)
  /\ check' = [check EXCEPT ![c] = s]
  /\ UNCHANGED <<run, group, aborting>>

(* A cancelled check may also return or raise, if it suppresses that; one  *)
(* that has not run cannot.                                                *)
Return(c) == "return" \in Endings /\ check[c] # "unrun" /\ EndsAs(c, "value")
Raise(c) == "raise" \in Endings /\ check[c] # "unrun" /\ EndsAs(c, "error")
EndCancelled(c) ==
  ("cancel" \in Endings \/ check[c] # "running") /\ EndsAs(c, "cancelled")

Abort ==
  /\ aborting' = TRUE
  /\ check' = [c \in Checks |-> IF check[c] = "running" THEN "cancelling" ELSE check[c]]

NoticeQuietly(c) ==   \* mutant: gather, which does not cancel the siblings
  /\ c \in group /\ ~Active(c)
  /\ group' = group \ {c}
  /\ UNCHANGED <<run, check, aborting>>

Notice(c) ==
  /\ c \in group /\ ~Active(c)
  /\ group' = group \ {c}
  /\ IF check[c] = "error" /\ ~aborting THEN Abort ELSE UNCHANGED <<check, aborting>>
  /\ UNCHANGED run

(* The caller of run is cancelled while it waits for the group.            *)
Interrupt ==
  /\ run = "inside" /\ ~aborting
  /\ run' = "interrupted"
  /\ Abort
  /\ UNCHANGED group

LeaveAtOnce ==   \* mutant: the with block does not wait for cancelled checks
  /\ Inside /\ (group = {} \/ aborting)
  /\ run' = IF Failed THEN "failed"
            ELSE IF run = "interrupted" \/ \E c \in Checks : check[c] = "cancelled"
                 THEN "cancelled" ELSE "returned"
  /\ UNCHANGED <<check, group, aborting>>

(* An error of any check is raised before the cancellation; without errors *)
(* the dict is built, where result() raises for a cancelled check.         *)
Leave ==
  /\ Inside /\ group = {}
  /\ run' = IF Failed THEN "failed"
            ELSE IF run = "interrupted" \/ \E c \in Checks : check[c] = "cancelled"
                 THEN "cancelled" ELSE "returned"
  /\ UNCHANGED <<check, group, aborting>>

Next ==
  \/ CreateTasks \/ Interrupt \/ Leave
  \/ \E c \in Checks, created \in SUBSET Checks : CallRaises(c, created)
  \/ \E c \in Checks : Return(c) \/ Raise(c) \/ EndCancelled(c) \/ Notice(c)

(* The event loop runs ready tasks and callbacks, and checks end.          *)
Fairness ==
  /\ WF_checksVars(Leave)
  /\ \A c \in Checks :
       WF_checksVars(Return(c) \/ Raise(c) \/ EndCancelled(c)) /\ WF_checksVars(Notice(c))

-----------------------------------------------------------------------------
TypeOK ==
  /\ run \in {"idle", "inside", "interrupted", "returned", "failed", "cancelled"}
  /\ check \in [Checks -> {"new", "running", "cancelling", "unrun", "value", "error",
                            "cancelled"}]
  /\ group \subseteq Checks
  /\ aborting \in BOOLEAN
  /\ \A c \in Checks \ group : ~Active(c)

(* run returns only if every check succeeded, fails only if one failed, and *)
(* always then, also if it was cancelled meanwhile (checks:19-21, 35-44).  *)
DecisionIsJustified ==
  /\ run = "returned" => \A c \in Checks : check[c] = "value"
  /\ run \in {"returned", "failed", "cancelled"} => (run = "failed" <=> Failed)

(* Once the group has noticed a failure no check runs on uncancelled       *)
(* (checks:7-9).                                                           *)
FailureStopsTheOthers ==
  (\E c \in Checks \ group : check[c] = "error")
    => \A c \in Checks : check[c] # "running"

(* When run is over, every check has ended, cancelled ones too.             *)
NothingOutlivesRun == ~Inside => \A c \in Checks : ~Active(c)

(* run comes to an end, also when it or a check is cancelled.              *)
RunEnds == Inside ~> ~Inside
=============================================================================
