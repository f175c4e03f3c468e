------------------------------ MODULE ReviewBatch ------------------------------
(***************************************************************************)
(* BatchApproval of batchapproval/approval.py and its asyncio counterpart  *)
(* AsyncReviewBatch of asyncreviewbatch/review.py: reviewers approve, and  *)
(* waiters wait under a Condition until all required reviewers have.  Each *)
(* block under the condition is one action.  The two differ in what a      *)
(* waiter does when its timeout has expired: a thread evaluates the        *)
(* predicate once more, a task gets TimeoutError from asyncio.wait_for.    *)
(***************************************************************************)
CONSTANTS
  Reviewers,   (* _required_reviewers                                      *)
  Waiters,     (* threads or tasks that call wait_until_approved           *)
  Timed        (* the waiters that pass a timeout                          *)

BatchAssumption == Reviewers # {} /\ Timed \subseteq Waiters

Kinds == {"threads", "tasks"}   \* BatchApproval, AsyncReviewBatch

VARIABLES
  kind,       (* which of the two classes this is                          *)
  approved,   (* _approved_reviewers                                       *)
  waiter      (* "idle"; "waiting" in the wait set; "notified" or "late":  *)
              (* out of it, not yet resumed; or what the call returned     *)

vars == <<kind, approved, waiter>>

Init ==
  /\ kind \in Kinds
  /\ approved = {}
  /\ waiter = [w \in Waiters |-> "idle"]

IsApproved == Reviewers \subseteq approved

NotifyTooEarly ==   \* mutant: notify_all only if the batch was approved before
  waiter' = [w \in Waiters |->
               IF waiter[w] = "waiting" /\ IsApproved THEN "notified" ELSE waiter[w]]

NotifyAll ==
  waiter' = [w \in Waiters |-> IF waiter[w] = "waiting" THEN "notified" ELSE waiter[w]]

(* A duplicate approval returns False and changes nothing.                 *)
Approve(r) ==
  /\ r \notin approved
  /\ approved' = approved \cup {r}
  /\ NotifyAll
  /\ UNCHANGED kind

-----------------------------------------------------------------------------
Moves(w, state) == waiter' = [waiter EXCEPT ![w] = state] /\ UNCHANGED <<kind, approved>>

Wait(w) ==
  /\ waiter[w] \notin {"waiting", "notified", "late"}
  /\ Moves(w, IF IsApproved THEN "true" ELSE "waiting")

Expire(w) ==
  /\ w \in Timed
  /\ waiter[w] \in {"waiting", "notified"}
  /\ Moves(w, "late")

ResumeNotified(w) ==
  /\ waiter[w] = "notified"
  /\ Moves(w, IF IsApproved THEN "true" ELSE "waiting")

ResumeLateAsTask(w) ==   \* mutant: the result of wait, not of wait_for
  waiter[w] = "late" /\ Moves(w, "false")

ResumeLate(w) ==
  /\ waiter[w] = "late"
  /\ Moves(w, IF kind = "threads" /\ IsApproved THEN "true" ELSE "false")

WaitUntilApproved(w) == Wait(w) \/ Expire(w) \/ ResumeNotified(w) \/ ResumeLate(w)

Next ==
  \/ \E r \in Reviewers : Approve(r)
  \/ \E w \in Waiters : WaitUntilApproved(w)

-----------------------------------------------------------------------------
TypeOK ==
  /\ kind \in Kinds
  /\ approved \subseteq Reviewers
  /\ waiter \in [Waiters -> {"idle", "waiting", "notified", "late", "true", "false"}]

(* Nobody sleeps in the wait set of an approved batch, where no further    *)
(* approval would wake it (approve:48, both classes).                      *)
NobodySleepsOnApproved ==
  IsApproved => \A w \in Waiters : waiter[w] # "waiting"

(* Answers are never stale: True is returned only when the batch is        *)
(* approved, and a thread's False only when it is not, though the last     *)
(* approval may have raced its timeout (wait_until_approved:53).           *)
AnswersAreCurrent ==
  [][\A w \in Waiters : waiter'[w] # waiter[w] =>
       /\ waiter'[w] = "true" => IsApproved'
       /\ waiter'[w] = "false" /\ kind = "threads" => ~IsApproved']_vars
=============================================================================
