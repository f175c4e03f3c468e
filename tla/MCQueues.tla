------------------------------- MODULE MCQueues -------------------------------
(***************************************************************************)
(* Queues of work with task accounting: AsyncJobQueue, DeploymentRollback  *)
(* and TicketQueue.  They share nothing, so one run checks them side by    *)
(* side: a behaviour chooses a component at the start and takes that       *)
(* component's steps.                                                      *)
(***************************************************************************)
EXTENDS AsyncJobQueue

CONSTANTS Rollbackers, MaxActions, Tickets, Urgent, Timed

VARIABLES
  component,
  registered, stack, pending, rollbacker, action, joiner, ran, ended, atClaim,
  atJoin,
  kind, nextSequence, sequence, queued, open, agent, ticket, accepted, watcher,
  before, atWatch

rollbackVars == <<registered, stack, pending, rollbacker, action, joiner,
                  ran, ended, atClaim, atJoin>>
ticketVars == <<kind, nextSequence, sequence, queued, open, agent, ticket,
                accepted, watcher, before, atWatch>>

Rollback == INSTANCE DeploymentRollback WITH unfinished <- pending
Desk == INSTANCE TicketQueue
  WITH unfinished <- open, worker <- agent, submitted <- accepted,
       joiner <- watcher, atJoin <- atWatch

ASSUME QueuesAssumption == Rollback!RollbackAssumption /\ Desk!QueueAssumption

MCInit ==
  /\ component \in {"jobs", "rollback", "tickets"}
  /\ Init /\ Rollback!Init /\ Desk!Init

MCNext ==
  /\ UNCHANGED component
  /\ \/ component = "jobs" /\ Next /\ UNCHANGED <<rollbackVars, ticketVars>>
     \/ component = "rollback" /\ Rollback!Next /\ UNCHANGED <<vars, ticketVars>>
     \/ component = "tickets" /\ Desk!Next /\ UNCHANGED <<vars, rollbackVars>>

(* No fair action of the job queue is enabled while it is not the component. *)
MCSpec ==
  MCInit /\ [][MCNext]_<<component, vars, rollbackVars, ticketVars>> /\ Fairness

(* The variables of the components have their types.                       *)
TypesOK == TypeOK /\ Rollback!TypeOK /\ Desk!TypeOK

(* What a queue counts as unfinished is what is queued or in somebody's    *)
(* hands, and every item is in exactly one place: see                      *)
(* UnfinishedIsWhatIsLeft and EachActionOnce in the components.            *)
AccountingIsExact ==
  /\ TypesOK
  /\ UnfinishedIsWhatIsLeft /\ Rollback!EachActionOnce /\ Desk!UnfinishedIsWhatIsLeft

(* A join that returns covers whatever was put before it was called.       *)
JoinsCoverEarlierItems ==
  /\ JoinCoversEarlierJobs
  /\ Rollback!JoinCoversEarlierActions
  /\ Desk!JoinCoversEarlierTickets

(* Every step takes actions in reverse, and tickets by urgency and then in *)
(* order: see ClaimedInReverse and NoTicketOvertaken in the components.    *)
TakenInOrder ==
  [][Rollback!ClaimedInReverse' /\ Desk!NoTicketOvertaken]_<<rollbackVars, ticketVars>>
=============================================================================
