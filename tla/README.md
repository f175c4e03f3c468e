# Verification of python-concurrency-examples

This directory holds TLA+ models of the classes in
`src/src/concurrencyexamples/`, the TLC configurations that model-check them on
small instances, and TLAPS proofs of every safety property of those runs.
`PROJECT.json` lists the components, the runs, the source lines each definition
models, the hazards of the code and the theorems.

    tlc -workers 2 -config CircuitBreaker.cfg CircuitBreaker
    tlapm CircuitBreakerProofs.tla

## The system

The repository is a collection of small, self-contained components, each in a
package of its own with a pytest module. They do not call one
another: what interacts inside a component is the threads, asyncio tasks or
processes that share it, through the locks, conditions, queues and events of
Python's standard library. That library is the environment of the models; it is
modelled from how the code uses it.

### Inventory

State, operations and what is hard, per component. "Model" names the module.

| component | state it keeps | operations | what is hard, and what makes it correct | model |
|---|---|---|---|---|
| CircuitBreaker | state, consecutive failures, opening time, under one lock | `call` = `_before_call`, operation outside the lock, `_record_success` or `_record_failure` | an operation is judged by the state it was admitted in, long after: one trial at a time, only it decides, a cooldown nobody restarts | CircuitBreaker |
| DocumentPipeline | a queue and a worker thread per stage, results, failures, `_closed` | `submit`, `close`, `_run_stage` | hand-over between threads: nothing lost, duplicated or overtaken, the sentinel last, `close` true only when drained | DocumentPipeline, DocumentService |
| AsyncJobQueue | an asyncio.Queue, worker tasks, `_started`, `_stopping` | `start`, `submit`, `join`, `stop` | exact task accounting whatever a handler does; a join that resumes late; stop, cancellation and tokens | AsyncJobQueue |
| ImportJobEventCollector | a multiprocessing.Queue, one process per job | `collect`, `_run_import_job` | buffers, a full pipe, a shared write lock, killed processes: complete or an error, and always an end | ImportJobEvents |
| DeploymentRollback | a LifoQueue of actions | `register`, `run_next`, `drain`, `join` | handlers run outside the lock, and may raise: each once, in reverse, join not early | DeploymentRollback |
| RequestTracker | count of active requests, shutdown flag, under a Condition | `track_request`, `begin_shutdown`, `wait_until_drained` | lost wakeups, timeouts racing notifications: True means drained, drained is final | RequestTracker |
| ScheduledCleanup | a thread, a stop event, errors | `start`, `stop`, `_run` | stop racing the interval, a start that fails, a cleanup that stops itself | ScheduledCleanup |
| AsyncPaymentStatus | a result and an Event per payment | `mark_succeeded`, `mark_failed`, `wait_for_result` | two reports and late waiters: the first wins for everybody | PaymentStatus |
| BatchApproval, AsyncReviewBatch | approved reviewers under a Condition | `approve`, `wait_until_approved` | the last approval racing a timeout | ReviewBatch |
| RetryExecutor | a thread pool, futures | `run`, `run_all` | an attempt that aborts in the middle of the collection; the boundary of the attempts | RetryExecutor |
| SupportQueue, AsyncShippingQueue | a priority queue, a sequence counter | `submit`, `claim_next`/`dispatch_next`, `task_done`, `join` | two locks between number and queue; timeouts: nobody overtaken, nothing lost | TicketQueue |
| DeploymentGate | a threading.Barrier | `wait_until_ready`, `reset` | timeouts, resets and new arrivals between the wakeups of one generation: all or none of it | DeploymentGate, GateContract |
| AsyncBatchUploader | a semaphore shared by all batches, a gather per batch | `upload_all`, `_upload_one` | cancellation in line, with a slot handed over, and in the upload: the cap holds and no slot is lost | AsyncBatchUploader |
| ConnectionPool, DownloadPool, ApiRateLimiter | permits: a queue of connections, a semaphore | `checkout`, `run`, `acquire`: a permit, given back in `finally` | one notification per return, timeouts that race it, takers that barge in: permits conserved, nobody asleep beside one | PermitPool |
| FraudScoreBatch | a process pool | `score_all`, `score_transaction` | input order, the first failure cancels what it can, a killed process; the caps and thresholds of the score | FraudScoreBatch |
| CheckoutChecks | a TaskGroup | `run` | what one failed, cancelled or interrupted check does to its siblings | CheckoutChecks |
| AsyncSeatBooking | two maps under one asyncio.Lock | `book`, `cancel`, `booking_for_seat` | the maps stay inverse, ids come back | AsyncSeatBooking, SeatLedger |
| FeatureFlags, InventoryReservation, Leaderboard, PaymentWebhookProcessor | one or two fields under one lock | one critical section per operation, one of them nested | read, test and write belong together; the nested one needs an RLock | LockedStores |
| BoundedQueue, ServiceStartup, RequestContext, AsyncRequestContext | a library object | one-line delegation | the behaviour is the library's | not modelled |

## The modules and the code

Conventions. A block under a lock or condition, and in asyncio the code between
two awaits, is one action, because nobody can observe it half done; what the
code does outside (an operation, a stage, a handler, an attempt) lies between
two actions and ends by an action of its own. `Endings` says how such a call
may end: with a value, with an `Exception`, or with another `BaseException`
(`SystemExit`, `CancelledError`) that `except Exception` lets pass. A call that
only raises and changes no state is left out unless a property speaks of it.
Variables carry the names of the attributes; variables marked *(observed)* are
history that no action reads. Operators marked *mutant* are not part of a
specification: each is the definition after it with a plausible bug, kept to
show which property notices it.

- **CircuitBreaker.** `_before_call` is AdmitClosed, AdmitTrial or Reject, by
  the state found; `_record_success` and `_record_failure` are the actions of
  those names; Abort is the exception `call` does not catch. `phase` is a
  thread's place in `call` together with its `admitted_state`. The clock is only
  read as an age compared with the timeout, so `sinceOpened` is that age,
  saturated: Tick needs no bound.
- **DocumentService** is what the pipeline promises, with no stages, queues or
  threads: accept, publish the oldest pending document, fail one, close, stop
  when nothing is pending. **DocumentPipeline** has the queues, the workers and
  the closers. Submit and BeginClose are the two blocks under `_lock`; Take,
  Forward, RecordFailure, Abort and Stop are the turns of `_run_stage`. Numbering
  documents by acceptance, with the sentinel above them all, turns order into
  "the numbers increase". The refinement maps stopped to "every worker ended"
  and failed to the documents of `_failures`; the other variables keep their
  names, and moves between stages are stutters.
- **AsyncJobQueue.** Get runs to the first await of a handler; Return, Raise and
  Cancel are its endings with the `finally` clause; TaskDone wakes the joins at
  zero, and JoinReturns and StopResumes happen later without looking again, as
  in `asyncio.Queue.join`. CancelStop is a caller's `wait_for` around `stop`.
- **ImportJobEvents.** Start, Receive and Join are `collect`; Put and Exit are
  `_run_import_job`. TakeWriteLock and Write are the feeder thread that
  `multiprocessing.Queue` runs in each process, and Kill is a process killed from
  outside; a process that dies with the write lock never gives it back.
- **DeploymentRollback.** `drain` is Drain, then Take, CallHandler and
  HandlerReturns again and again, until DrainReturns or HandlerRaises. Taking and
  calling are separate actions, as the queue's lock is free in between.
- **RequestTracker.** Enter, Reject and Exit are `track_request`; Wait, Expire
  and Resume are `Condition.wait_for`: a waiter is in the wait set, or out of it
  (notified or late) and waiting for the lock, and evaluates the predicate again
  when it has it.
- **ScheduledCleanup.** `thread` says where `_run` is: in the event's wait, due
  (the wait returned False, the cleanup has not begun), or cleaning. `stop` is
  three actions, for it reads `_thread`, sets the event and joins separately.
- **PaymentStatus** models one payment. Waiters woken by the event resume in
  later actions. A timeout of zero is a caller of its own kind, because
  `asyncio.wait_for` then cancels the wait before it has run.
- **ReviewBatch** models two classes that differ in one line: after a timeout a
  thread's `Condition.wait_for` evaluates the predicate again, a task's
  `asyncio.wait_for` does not. `kind` chooses.
- **RetryExecutor.** Submit, Collect and Leave are `run_all`; Leave waits for
  every task, as `ThreadPoolExecutor.__exit__` does. Begin, Succeed, Fail and
  Abort are a pool worker in `_run_with_retries`.
- **TicketQueue** models both ticket queues; `kind` chooses. A thread takes its
  sequence number (TakeNumber) and puts the ticket (PutNumbered) under different
  locks; a task does both without suspending.

- **DeploymentGate** has the four states of `threading.Barrier`; the barrier's
  count is the number of workers waiting. Arrive by the last one starts the
  draining in the same block; Leave is a wakeup, and the last to leave lets the
  gate fill again; TimeOut breaks it, and only while it is filling, for a
  worker whose timeout is over tests the state once more. Block is a worker that
  arrives at an emptying gate, where the barrier makes it wait without a timeout.
  **GateContract** is what the gate promises: the fate of a gathering is decided
  at once and its members are told one by one. The refinement reads a worker's
  fate off its place and the barrier's state.
- **PermitPool** models three classes: a queue of connections and two semaphores
  wait in the same way. `sleepers` are the threads in the condition's wait set;
  NotifyOne picks any of them, also one whose timeout is over, and whoever has
  the lock first takes the permit.
- **AsyncBatchUploader.** Begin, Cancel and Gathered are `upload_all`; Acquire,
  Granted, GiveUp and End are `_upload_one` in `asyncio.Semaphore`, whose slots are
  handed to the oldest task in line before it runs. `doomed` are the tasks that get
  CancelledError when they run next.
- **CheckoutChecks.** The task group learns of an ended task in a callback
  (Notice), later than the end itself; Abort cancels every check that has not ended,
  and Leave waits for all of them. CallRaises is a check function that raises before
  there is a task for it: the tasks created before it are cancelled unrun.
- **FraudScoreBatch.** `Score` and `Decision` are `score_transaction`, computed
  for the transactions of the instance. Submit, Collect and CollectError are
  `executor.map` and its generator, Break a killed process, after which submitting
  fails as well (SubmitFails). Take limits what has left the queue to
  the processes and their call queue, as only the rest can be cancelled.
- **AsyncSeatBooking.** Nothing under the lock awaits, so each method is one
  action. **SeatLedger** is what it promises, seat by seat; the refinement maps a
  seat to the answer of `booking_for_seat`.
- **LockedStores** models four classes; `kind` chooses. Here the lock is not
  abstracted to one action: acquiring it, looking an event up, reading, and writing
  with the release are separate, so that StoresLookAtomic says the lock is needed
  and enough (the mutant AcquireAnyway leaves it out; AcquireOnce makes the RLock
  a Lock).

**MCLocks, MCQueues, MCWaiting and MCBatches** each check several components in
one run. The components share nothing, so a behaviour picks one in its initial
state and takes that component's steps; every property is a conjunction over the
components it speaks of, or is about one of them.

## The runs

| run | configuration | what it shows |
|---|---|---|
| breaker | 4 threads, threshold 3, cooldown 2, all endings | TrialIsExclusive, OnlyTrialCloses, CooldownNeverRestarts, TrialDecides, CircuitIsRetried |
| pipeline_safety | 3 stages, 3 documents, 2 closers, one timed, all endings | ExactlyOnce, InOrder |
| pipeline_service | the same without aborts | CloseTrueMeansSettled, ImplementsService, PipelineDrains |
| import | 2 processes, one failing, both killable, a pipe of 2 messages | ReturnedIsComplete, CollectEndsUnlessKilled |
| import_killed | 2 processes, one killable | **CollectEnds is violated** |
| queues | AsyncJobQueue: 2 workers, 3 jobs, a joiner, 2 stoppers, one cancellable, all endings; DeploymentRollback: 2 workers, 3 actions, a joiner; TicketQueue: 3 tickets, one urgent, 2 workers, one timed, a joiner | AccountingIsExact, JoinsCoverEarlierItems, StoppedMeansDrained, EverythingEnds, TakenInOrder |
| stop_cancelled | AsyncJobQueue: 2 workers, 2 jobs, 2 stoppers, one cancellable | **EveryStopStops is violated** |
| rollback_two | 2 rollback workers, 2 actions | **ReverseOrder is violated** |
| waiting | DeploymentGate: 4 workers, 3 required, one timed; PaymentStatus: 3 markers, 3 callers; ReviewBatch: 2 reviewers, 2 waiters, threads and tasks; PermitPool: 5 threads, 2 timed, 2 permits | AllOrNone, OneTimeoutFreesAll; FirstResultWins; BatchNobodySleeps, BatchAnswersAreCurrent; PermitsConserved, NobodySleepsInVain |
| waiting_later | 1 marker, 2 callers, one with timeout zero | **LaterWaitersReturn is violated** |
| batches | RetryExecutor: 4 tasks, 2 workers, 2 attempts; AsyncBatchUploader: 3 files and 1 in two batches, 2 slots, one batch cancellable; CheckoutChecks: 3 checks; FraudScoreBatch: 3 transactions, 1 process, which may be killed | ReportsAreTrue, UploadSlotsAreExact, CheckFailureStopsTheOthers, NothingOutlivesItsCall, BatchesEnd |
| locks | RequestTracker: 3 request threads, 2 waiters; ScheduledCleanup: 2 stoppers; one timed of each; AsyncSeatBooking: 3 ids, 2 customers, 3 seats; LockedStores: 3 threads, a stock of 4, operations 1 to 3 | NoLostWakeup, TrueMeansDrained, DrainedIsFinal, WaitersReturn; CleanupAtMostOneLateRun, CleanupTrueMeansEnded, CleanupStopTakesEffect; MapsAreInverse, ImplementsLedger; StoresLookAtomic, OperationsEnd |

The type invariants are conjuncts of an invariant of their run (TypeOK in
ReturnedIsComplete; TypesOK in AccountingIsExact, BatchNobodySleeps,
ReportsAreTrue and StoresLookAtomic); those of the breaker, the pipeline, the
tracker and the cleanup are only proved.

**Bounds.** The components are symmetric in their threads and compare numbers
only with each other, with zero and with one limit, so the bounds are set by
what has to meet. Four threads let one call open the circuit's third failure
while others are overdue, on trial and rejected. Three stages give a first,
an inner and a last one, and three documents one per stage, or two in one queue
behind a failing one. Three jobs over two workers leave one queued while both
are busy; with a joiner this is the smallest case in which join returns with
jobs unfinished. A pipe of two messages is smaller than what one process
writes, so joining before collecting deadlocks (the mutant StartThenJoin). Three
actions let one be registered while another is claimed and a third waits. Three
requests let the count pass through one and two with one thread still to enter.
Four tasks on two workers leave tasks queued while one aborts; three tickets give
an urgent one and two whose numbers can be swapped on the way into the queue.
Four workers at a gate for three let one arrive while a generation leaves. Five
threads for two permits let three be queued behind both, two with a timeout, so
that a notification can be spent on a late one beside others asleep. Three files
of one batch and one of another over two slots put a task of each in line behind
the same slot. Three transactions let the first fail while the second is with
the process and the third can still be cancelled (the pool's call queue, which
takes three jobs ahead of one process, is never full); amounts and chargebacks lie
on both sides of their caps, and the sums in all three decisions, at the boundary
of 70 and above 100. Three store operations on a stock of four make two succeed
and a third fail.
Named bounds in the modules: MaxDocuments, MaxJobs and MaxActions limit how much
is submitted; MaxErrors and MaxLateRuns saturate counters.

**Deadlock.** Only the breaker never stops: a thread may always call again. The
other components may come to rest, with everything submitted, processed and
closed, so their configurations disable the deadlock check; where being stuck
would be a fault a liveness property says so.

**Fairness.** What is assumed is what the runtime provides: a runnable thread,
process or ready task eventually runs, and functions passed in by the user end.
Nobody is obliged to submit, close, stop, shut down, mark, cancel or kill, and a
timeout need not expire, except at the gate, where OneTimeoutFreesAll is about
just that: a timeout given to `Barrier.wait` does expire, and a worker that was
woken leaves. A worker that arrives at an emptying gate is not covered by
fairness: it may find the gate taken again and again, and its timeout does not
run yet. The permit pool has no liveness property, because the code promises
none: a permit may always be taken by a thread that barges in, so that one
thread may starve (NobodySleepsInVain says what is promised in its place). Weak
fairness is enough except for the write lock of the import
queue, which other feeders may take in turn (strong fairness of TakeWriteLock:
the lock is a semaphore that wakes waiters). In the breaker the clock advances,
operations end and some thread keeps calling, since CircuitIsRetried needs a
request to retry with. In a run of several components the fairness of those not
chosen demands nothing, as none of their fair actions is enabled initially.

## What is proved

Every safety invariant and every action property of the passing runs, and the
three refinements, hold for every value of the constants allowed by the modules'
named assumptions, for which TLC's runs are small instances; two statements about the
pipeline need one hypothesis more, which its run makes as well. The components share
nothing, so each proof module speaks of one component at a time; where a property
is a conjunction over the components of an MC module, it is proved of the run's
own specification, MCSpec, from the lemma RunTakesTheirSteps: a behaviour of the
run is, for each component, a behaviour of that component. Fairness is used
nowhere in the proofs.

**CircuitBreakerProofs**, from BreakerAssumption (a positive threshold, a
natural timeout, any set of threads, any endings).

- TypeCorrect and TrialExclusive: the invariants of those runs. TrialIsExclusive
  is not inductive alone: a late failure would reopen the circuit under a trial
  if the count could be below the threshold while the circuit is not closed, so
  IInv adds CountMatchesState. It is the reason why late results are ignored
  safely, and CountAgrees states it: the RuntimeError of `_before_call` is
  unreachable.
- TrialCloses, CooldownAdvances and TrialIsDecisive: the action properties, each
  from IInv and a case split on the action.

**DocumentPipelineProofs**, from PipelineAssumption (at least one stage, any
number of documents and closers).

- TypeCorrect and OrderKept, for all endings. InOrder needs to know that what a
  worker holds or finds queued was accepted before anything submitted later, that
  the sentinel comes with a close (Accounted), that a failed document goes no
  further (FailedStops) and that nothing is in flight behind a worker that
  returned (StoppedLast); the conjunction IInv is inductive. The lemmas on Append
  and Head say that put and get keep a queue increasing.
- EachDocumentOnce (ExactlyOnce), for all endings. That no two places hold one
  document follows from InOrder, where queues increase and stages are apart, and
  from FailedStops; that none is listed twice among the failures is FailuresOnce.
  The rest counts: every step but an abort leaves the set of lost documents as it
  is, and an abort adds to it the one document its worker held (LostAreTheDeads).
- CloseDrains and PipelineRefinesService, under the additional hypothesis
  `"abort" \notin Endings`: no stage ends its worker thread. Kept is what that
  hypothesis adds to IInv: no worker is dead, every accepted document is settled
  or in flight, and a close that answered true has seen every worker return. Each
  step of the pipeline then is a step of DocumentService or a stutter: Forward
  of the last stage publishes the oldest pending document because everything
  older would have to be in flight ahead of it (OldestFirst). The hypothesis is
  needed: with aborts a document is lost and the refinement fails.

**ImportJobEventsProofs**, from ImportAssumption (any number of jobs, failing and
killable ones among them, a pipe of any positive size).

- ReturnIsComplete (ReturnedIsComplete). Progress says how far each job is, by two
  numbers: its first r messages are received, those up to w are written, and the
  rest of what it has put is in its buffer or died with it. Every step moves one
  of these numbers by one or none. `finished` is the number of jobs all of whose
  messages are received; when it is JobCount, the pipe and the collected events are
  determined. Exit codes are what rules out a process killed after its sentinel.

**ShutdownProofs**, about RequestTracker, from TrackerAssumption (a finite set of
request threads; any waiters), and about ScheduledCleanup, for any stopping
threads, any endings, a start that may fail or not.

- TypeCorrect, NobodySleepsDrained, TrueIsTrue, DrainedStaysDrained and
  CountExact. A sleeper is safe because the exit that brings the count to zero
  notifies; that an exit cannot take it below zero, and that zero means nobody is
  inside, needs CountIsExact, which ties the number to the threads inside their
  with block.
- CleanupTypeCorrect, OneLateRun (CleanupAtMostOneLateRun) and TrueIsForEver
  (CleanupTrueMeansEnded). StartedFirst says why start never clears an event a stop
  has set; LateRunsCounted, why the one late cleanup uses up the only interval
  that can have passed before the event was set.

**WaitingProofs**, from WaitingAssumption (finitely many workers at a gate that
requires two at least; finitely many threads and a positive capacity for the
pool; any markers, callers, reviewers and waiters).

- DeploymentGate. TypeCorrect contains that fewer than the required number wait,
  and that somebody is left to empty a gate that empties; the second is why such a
  gate always opens again. GateImplementsContract (AllOrNone): one lemma per action
  of the gate. The case that matters is Arrive of the last worker, which decides
  the fate of all that wait, and Leave, where the state may not go back to filling
  while anybody waits. Block and a worker's coming back are the contract's Return.
- PaymentStatus. FirstWins (FirstResultWins): OneWinner adds that the event is set
  with the result, by one marker, and that a woken caller has an event that is
  set. WokenFindResult: the RuntimeError of `wait_for_result` is unreachable.
- PermitPool. PermitsAreConserved: the cardinalities of PermitsConserved are not
  easily inductive, so Held says the same without counting (Exclusive: no permit is
  in two places, and each is in one), and HeldConserves gets from one to the other.
  NobodyLeftAsleep: NobodySleepsInVain is inductive with the types. A return adds
  a permit and, if anybody sleeps, a thread on its way; a take removes one permit
  and at most one thread; a thread sleeps or is refused only when nothing is free.
- ReviewBatch. NobodySleepsOnABatch (BatchNobodySleeps) and BatchAnswersTruly
  (BatchAnswersAreCurrent), for both classes: the approval that completes a batch
  wakes every sleeper in the same block, and nobody goes to sleep on one that is
  approved; what was approved stays so.

**QueuesProofs**, from JobQueueAssumption (finitely many workers, at least one;
any joiners, stoppers, endings), RollbackAssumption (finitely many rollback workers)
and QueueAssumption (finitely many tickets and workers).

- AsyncJobQueue: TypeCorrect, AccountingExact (UnfinishedIsWhatIsLeft), JoinsCover
  (JoinCoversEarlierJobs) and StopDrains (StoppedMeansDrained). When the count is
  zero the queue is empty and nobody is busy, so everything submitted has been
  processed, as every job is somewhere (ZeroMeansProcessed). Joins are woken at
  that moment and return later, when jobs may have come in again; a stop is woken as
  well, but only one stop gets past the `_stopping` test (OneStop) and nothing can
  be submitted any more, so it puts its tokens into an empty queue. From then on
  the queue holds nothing but tokens, at most as many as there are workers that
  have not taken one (TokensAreLast): when every worker has taken one, none is
  left. That a job is nowhere twice is JobsAreOnce; JobsAreCounted gets from there
  to the cardinalities.
- AccountingIsAlwaysExact, JoinsCoverTheirItems and ItemsAreTakenInOrder, the run's
  properties over all three queues. The rollback's stack increases and is bounded
  by what is registered (StackIsOrdered), so its top is the latest action left,
  and a handler is called once for each (HandlersAreOnce). Of the ticket queues,
  the tickets that are queued or in hands (Left) are as many as the count says;
  only new ones join them, so what a join covers stays covered. That numbers grow
  with the moment they were taken (NumbersAreOrdered) is what turns "the least
  number first" into "nobody overtaken".

**BatchesProofs**, from BatchesAssumption, the conjunction of the four modules'
own (finitely many files, at least one check, positive limits).

- BatchesReportTruly (ReportsAreTrue), SlotsStayExact (UploadSlotsAreExact),
  FailureStops (CheckFailureStopsTheOthers) and NothingOutlives
  (NothingOutlivesItsCall). RetryExecutor: a result is made of a task that had
  ended, and such a task changes no more (ResultsAreMade). CheckoutChecks: a check
  that is out of the group has ended, and a failure noticed has aborted the group
  (FailuresAbort). FraudScoreBatch: what is collected are the scores of the first
  jobs, all of which succeeded (ScoresAreMade); that they stay within bounds and
  agree with their decision is arithmetic about `score_transaction`, for all
  amounts and ages.
- AsyncBatchUploader is the long one. The line holds exactly the tasks that wait in
  it, each once; handing out n slots wakes the oldest n, or all if they are fewer
  (FirstOfCounts), so that the slots free and held always add up to the cap
  (SlotsCounted); and nobody waits beside a free slot, unless a slot given back
  was handed to a task that has not run yet, which will hand on the others
  (NobodyIdles).

**StoresProofs**, from BookingAssumption (None is no id) and StoresAssumption (no
thread is called none, the stock is a natural number, amounts are positive).

- MapsStayInverse: MapsAreInverse with the types is inductive.
  BookingImplementsLedger: a booking is a Reserve of SeatLedger and a cancellation
  a Vacate. Both need the inverse: that a booking which holds a seat in the
  ledger has it in its own map too (HeldMeansBooked) is why Reserve's guard holds.
- StoresAreAtomic (StoresLookAtomic). A thread is in its critical section exactly
  while it has the lock (Locking), so that what it has read is still there when it
  writes (Inventory, Webhook, Board), and what it is reading belongs to one
  snapshot (Flags). The stock left and the total of the noted events are sums over
  sets, and the library's SumSet and MapThenSumSet fold in an order that CHOOSE
  picks: the lemmas before this theorem show that the order does not matter
  (SumTakesAny) and what one element more adds.

**Only model-checked.** Liveness (CircuitIsRetried, PipelineDrains, EverythingEnds,
CollectEndsUnlessKilled, WaitersReturn, CleanupStopTakesEffect, OneTimeoutFreesAll,
BatchesEnd, OperationsEnd), which needs ENABLED and fairness: the proof system does
not reach them. The four properties that runs show violated have no proof.

**On the form of the proofs.** The library's induction theorems take an operator
as a parameter, which none of the provers here can instantiate. Where a proof needs
induction it goes by a least counterexample: a non-empty set of naturals has a
least element (in StoresProofs and BatchesProofs), and so has a non-empty family of
subsets of a finite set, by inclusion; both follow from the theorem on minima of
well-founded relations, which speaks of sets. What a recursive operator computes
could not be reached in this way: none is used in the modules that are proved about.

## Disagreements between the code and its documentation

1. *import_killed.* `collect` counts sentinels with a blocking `get` before it
   looks at an exit code (events.py:109), so a process that dies before its
   sentinel is written leaves the parent waiting for ever; lines 7-9 describe
   the sentinels as how the parent knows that all processes have stopped.
2. *rollback_two.* `run_next` calls the handler after the queue's lock is
   released (rollback.py:66), so two rollback workers may run handlers in the
   order of registration; lines 46-47 say last-in-first-out. The claims are in
   reverse order (ClaimedInReverse).
3. *waiting_later.* `wait_for_result(timeout=0)` raises TimeoutError though the
   result is there (status.py:92); lines 6-8 say that later waiters return
   immediately.

4. *stop_cancelled.* `stop` sets `_stopping` before it waits in `join`
   (queue.py:71-72) and leaves it set when that wait is cancelled, so every
   later `stop` returns at line 69 with the workers running for ever; line 67
   says "drain submitted jobs and stop all worker tasks". Without a cancelled
   stop or worker the property holds: it is a part of EverythingEnds.

Two docstrings say more than the code does, which the models follow; no property
is about them. `is_broken` (deployment.py:42) speaks of a gate that a timeout or
reset has broken, but a reset makes waiting workers get BrokenBarrierError
without breaking the gate: the answer is False. The id of a booking may be used
again once that booking was cancelled, though booking.py calls it one that may be
used once.

Behaviours the models show that no line of the repository contradicts:

- an aborted trial leaves the circuit HALF_OPEN and rejecting for ever (why
  TrialDecides excepts aborts);
- a stage that raises SystemExit ends its worker silently; later documents stay
  in a queue nobody reads (why ExactlyOnce counts dead workers). A cleanup
  that does so ends the cleanup thread in the same way;
- a second `stop` of AsyncJobQueue returns while the first is draining;
- a handler that ends with CancelledError takes its worker with it;
- `join` of the rollback and ticket queues waits for what was registered, not
  only for what was claimed;
- the notification of `begin_shutdown` is never needed: nobody sleeps in the
  wait set of a drained tracker (NoLostWakeup);
- `dispatch_next(timeout=0)` returns None whatever is queued;
- an asyncio reviewer wait that timed out may answer False although the last
  approval has just come in (why AnswersAreCurrent speaks of threads there);
- an upload that ends with CancelledError ends its batch's `gather` and leaves the
  other uploads of that batch running, with their slots (why ResultsAreTrue excepts
  it, and why NothingOutlivesItsCall does not speak of uploads);
- a check that ends with CancelledError does not stop the other checks; `run` then
  waits for them and raises a bare CancelledError, no ExceptionGroup;
- the asyncio.Lock of AsyncSeatBooking is never contended, as nothing under it
  awaits.

## What is not modelled

Getters that return a copy made under the lock are not actions. Stages, handlers
and cleanups do not call their component back, except a cleanup that calls `stop`;
a stage that calls `close` would join its own thread, which raises RuntimeError and
is recorded as that document's failure. Messages, names and exception texts are
abstracted to identities. BoundedQueue, ServiceStartup, RequestContext and
AsyncRequestContext hand every call to one library object (queue.Queue,
threading.Event, threading.local, ContextVar): a model of them would be one of the
standard library, and their tests reach what it would show.

## Plan

Done: every component but the four wrappers; proofs of every invariant, action
property and refinement that a passing run checks.

Worth adding next:

1. Abstract specifications of the queues with task accounting and of PermitPool,
   and proofs that the modules implement them, from the invariants proved here:
   one contract of put, take, done and join for three of the queues.
2. Proofs that the wait sets, buffers and lines are bounded by what the code gives
   them (the feeder's buffer by the program of its job, the line by the tasks).
