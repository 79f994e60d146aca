# go_hopper: a TLA+ model of its processes, worker pool and queues

GoHopper is an event-processing demo in Go on RabbitMQ: a publisher puts JSON
events on a topic exchange, a consumer process takes them off one queue, hands
them to a pool of workers with retries and backoff, and settles each delivery
with `Ack` or `Reject`; a second consumer reads a dead-letter queue.  This
directory models all three processes, the pool and the counters.  Paths are relative
to the repository; `worker.go` is `internal/processor/worker.go`, `manager.go`
is `internal/queue/manager.go`, `main.go` is `cmd/consumer/main.go`,
`handler.go` is `internal/processor/handler.go`.

## 1. Inventory

| Component | State | Operations | Hard because |
|---|---|---|---|
| Worker pool (`worker.go` WorkerPool, Worker) | `active`, `mu`, `ctx`, `quitChan`, `jobChan`, the workers' WaitGroup | `Start`, `Stop`, `SubmitJob`, `run`, `GetStats`, `UpdatePrometheusMetrics` | submitters, workers and `Stop` race; `Stop` waits under a lock; channels are closed under their users |
| Semaphore (`worker.go`) | `permits`, `active` | `Acquire`, `Release`, `GetStats` | permit and counter change in two steps; acquire against cancellation |
| Retries and failures (`worker.go`) | attempt number, last error | `processWithRetry`, `calculateExponentialBackoff`, `determineFailureType`, `handleFailure` | exactly one settlement on every path; off-by-one; shifts that overflow |
| Counters (`worker.go` Metrics) | an unprotected map, a map under a mutex, a `sync.Map`, atomics | four increments, `GetMetrics` | concurrent read-modify-write; a report that is no snapshot |
| Consumer process (`main.go`) | where main is, `mainCtx` | start, `processMessageWithWorkerPool`, signal, shutdown order, exit | a shutdown over running goroutines; death at any moment |
| Queue manager, consuming (`manager.go`) | connection, channel, deliveries | `Connect`, `SetupQueues`, `ConsumeMessages`, `processMessage`, `ConsumeDLQMessages`, `Close` | at-least-once delivery, prefetch, refused submissions, lost connections |
| Queue manager, publishing (`manager.go`) | channel | `PublishMessage`, `PublishEventMessage` | unroutable messages |
| Topology (`manager.go`, `configs/config.go`) | exchanges, queues, bindings | declarations, topic match | a rejected message without a dead-letter exchange |
| DLQ consumer (`cmd/dlq-consumer`) | none of its own | a switch on the DLQ reason, `Ack` | depends on a reason the broker never sees |
| Publisher (`cmd/publisher`) | event counter, `stopChan` | ticks, stop | an unbuffered stop channel |
| Message handler (`handler.go`) | none | `ProcessMessage` and one function per type | waits against deadlines; simulated errors and pauses; an ID that is indexed |
| Reporters (`main.go`) | the last statistics | `reportStats`, `healthCheck`, `startMetricsServer`, `/health` | they take the lock `Stop` holds, and main waits for them |
| Prometheus gauges (`internal/metrics`) | two gauges, counters | set and increment | values stored later than read |
| Message format, logger, configuration | - | encoding, output | - |

Interactions.  The broker delivers to the goroutine that `ConsumeMessages`
starts; it decodes and calls back into `main.go`, which builds a `Job` and
calls `SubmitJob`.  A worker takes the job from `jobChan`, takes a permit,
calls the handler up to `MaxRetries + 1` times, counts the job in the metrics,
reads the pool under `wp.mu` for the gauges, and answers the broker through
the delivery.  On a signal main cancels the consuming context, calls `Stop`,
waits for its reporting goroutines and closes the connection.

What makes each part correct.  Pool: a job has one owner and one settlement, a
graceful stop means what it says, nothing accepted is lost, no send on a closed
channel.  Consumer: no acknowledged message unhandled, none handled again
after its settlement, no delivery that nobody will settle while the process
runs, an end to every shutdown.  Counters: the two that are meant to be exact
are, and the other two are wrong in one direction only.

Semaphore: at most `max` inside, a counter that never strays, nobody waits for
ever.  Retries: bounded time, one verdict, a rejection that the attempts have
earned.  Topology: an event that was once routed stays routed, over other
processes' set-ups and broker restarts.  Publisher: events in order, no stop in
the middle of one.  DLQ consumer: every dead letter shown once per life and
settled.  Reporters: no half-stopped pool in a report, no shutdown that hangs.

The hazards behind these sentences, each at its line, are the list `hazards`
of `PROJECT.json`.

## 2. Modules

| Module | Models |
|---|---|
| `WorkerPool` | the pool: life cycle, `jobChan`, workers, permits, retries, settlement |
| `WorkerPoolProofs` | its inductive invariant and the theorems of section 4 |
| `SemaphoreProofs`, `DeadLettersProofs`, `TopologyProofs`, `ConsumerProofs`, `MetricsProofs`, `PoolLifecycleProofs` | the same for these modules |
| `ComponentProofs` | the same for `Failures` with `Backoff`, `Publisher` and `Reporters` |
| `WorkerPoolClaims` | what the repository's README says of a shutdown, under prompt handlers |
| `JobService` | abstract: what a pool promises for its jobs; `WorkerPool` implements it |
| `PoolLifecycle` | the pool's exported calls in any order and any pool size; `WorkerPool` implements it |
| `Semaphore` | `Acquire`, `Release`, `GetStats` with the channel's wait queue |
| `CountingSemaphore` | abstract: at most `Max` holders |
| `Consumer` | broker, consuming goroutine, main and process lives around an instance of `WorkerPool` |
| `Metrics` | the four counters and `GetMetrics`, one step per access of shared memory |
| `AtLeastOnce` | abstract: a queue and its consumer; `Consumer` and `DeadLetters` implement it |
| `Failures` | one job in time: handler, attempts, backoffs, failure type, settlement |
| `Backoff` | `calculateExponentialBackoff` in wrapping integers |
| `Topology` | `Connect`, `SetupQueues`, `PublishMessage` and the broker's exchange, queues, bindings |
| `Publisher` | both modes of `cmd/publisher` |
| `DeadLetters` | a rejected message, the dead-letter queue and `cmd/dlq-consumer` |
| `Reporters` | statistics, health check and metrics server against main's shutdown |
| `MCFailures`, `MCMetrics`, `MCTopology`, `MCWorkerPoolClaims` | symmetry sets and constants for TLC |

### WorkerPool

Each worker has a program counter: `select` is the `select` of `run`,
`acquire` the one of `Semaphore.Acquire`, `handle` a running handler call,
`backoff` the `select` between two attempts, `refresh` the read lock of
`UpdatePrometheusMetrics`, `settle` the `Ack` or `Reject`, `release` the
deferred `Release`.  `Stop` is six actions, one per observable effect, because
workers run between them: lock and cancel; `close(quitChan)`; the end of the
wait (all workers done, the timer, the caller's context); `close(jobChan)`;
`active = false` and unlock.

`wp.mu` is an RWMutex.  No reader section blocks (`SubmitJob`'s `select` has a
`default`), so a reader section is one atomic step with the guard `~locked`,
and `locked` is true exactly while `Stop` is between its lock and its return.
A `select` takes any ready case: `Receive`, `ReceiveNil` and `Quit` are
alternatives, and `SubmitRefused` is enabled beside `SubmitAccepted` when a
context is done.  `ReceiveNil` is the receive from a closed, empty channel:
`processJobWithSemaphore` reads `job.Message` of a nil pointer in either
branch, which ends the process (`crashed`).

Timers are not measured.  A backoff can end at any time; `Stop`'s timer can
fire at any time (under `Spec`: the safety results hold for any timeout).
Handler errors and their texts are one outcome, "failed": every branch of
`handleFailure` ends in one `Reject(false)`.  `okCalls`, `errCalls` and
`settled` record what the handler and the delivery saw.

`MaxRetries` is any integer, since `MAX_RETRIES` is read without a check; a
negative one skips the loop and rejects the job.  One process calls `Start`
once and `Stop` at most once, and submits a delivery once; nothing in `cmd/`
does otherwise.

Two abstractions are checked against it.  `JobService` is the pool as its users
see it: a job is accepted or refused, taken in order, tried, and settled by its
verdict.  `Fate` computes where a job is from its history and from who holds it.
`PoolLifecycle` is the other model of the same code: the k-th worker there is
`Order[k]` here, "working" from the receive to the read lock of the metrics
(after which only the settlement and the permit are left); a `Stop` is
`stopping` until it closes `jobChan`, and its steps before and after that are
stutters, except for the first.

### Consumer

`P == INSTANCE WorkerPool` over the same variables, with messages as jobs and
`ParentCancels <- FALSE` (main gives `Start` and `Stop` the root context it
never cancels).  Each action conjoins the pool's action with what it means
outside: `P!Settle` with the broker's bookkeeping, `P!CancelSubmit` with main's
signal.  The broker is external; the model has of it what the code relies on:
deliveries within `Qos(1)`, acknowledgement, rejection without a dead-letter
exchange, and requeueing of whatever was unacknowledged when the connection
ends.  `Boot` is a new process on the same queue, `Die` a kill or a panic at
any point, `ConnectionLost` a dead connection, after which nothing in the code
reconnects: the closed delivery channel yields zero deliveries at every turn of
the goroutine (`TakeZero`), whose rejection fails, to no effect (`RejectZero`).
`Close` may come any time after `Stop` returned: main's wait for its reporting
goroutines has a timeout.  `handled` is the set of messages that a handler call
has succeeded for in any life; the calls of the current one are the pool's
`okCalls` and `errCalls`, which `Boot` starts anew.

### Metrics

`m[key]++` is a read step and a write step; `Lock`/`Unlock` are the bounds of
the critical section, the `sync.Map` increment is its `Load` and its `Store`,
the atomic one a single step.  A worker counts one job in all four, in the
order of `updateMetricsWithRaceCondition`.  The reader is `GetMetrics` and the
logging of its result, which iterates the unprotected map.  Two goroutines in
that map at once are undefined behaviour: the program may lose an update or
die (`fatal`, a nondeterministic choice).  The unused atomics for retries and
DLQ and the `sync.Map` part of the report are left out.

### PoolLifecycle

`NewWorkerPool` makes the channels and the context once, and `Stop` ends them
for good.  This module gives any caller `Start`, `Stop` and `SubmitJob` in any
order on pools of 0, 1 or 2 workers.  Calls that are refused change nothing and
are no steps.  A worker is `select`, `working` or `ended`; a job is a number in
the channel.  The four ways to die are states (`panic`): the nil job, a send on
the closed channel, a second close, and `WaitGroup` misuse when a `Start` adds
to the group on which the goroutine of a timed-out `Stop` still waits.

That this model and `WorkerPool` agree on the calls both have is not left to
reading: `WorkerPool` with its one `Start` and one `Stop` implements it
(`ImplementsPoolLifecycle`).  Every `Start` is given the same context, which may
end (`RootEnds`): then workers leave, and `Acquire` may drop a job.

### Semaphore

Any number of goroutines.  A send that does not fit appends the goroutine to
the channel's queue; the receive of `Release` hands its place to the first one
there, as the Go runtime does, which is why a waiter is not overtaken for ever.
`active` changes in a step of its own, after the send and before the receive.
`ImplementsSemaphore` maps the abstract holders to the goroutines between send
and receive.  In the pool the semaphore never blocks (theorem `AcquireIsFree`);
this module is about the type itself.

### Failures and Backoff

A job is a record of what the code looks at: type, class of the last character
of the ID, decoded retry count, `MaxRetries`, base delay, `RetryTimeout`.  Time
advances by the waits of the code, in units of 25 ms, of which every duration
in it is a multiple; at the deadline itself either side of a `select` may win.
The handler's wait, dispatch and simulated pause are steps of their own, since
the deadline or the parent context can end each of them.  A delay that is not
positive fires at once.  An error is where it comes from and whether
`processWithRetry` wrapped it, which is all that `determineFailureType` and
`isRetryableError` can tell.  All types of failure end in one `Reject(false)`;
they differ in the type and in the retry counter.  An empty ID is indexed out
of range: the process panics.

`Backoff` does the arithmetic of Go: `1 << attempt` and products keep `Width`
bits, conversions from float truncate.  The rounding inside the floats is left
out.  The jitter is a function of the attempt number in the code; it is no
random choice.

### Topology and Publisher

Every process runs `Connect` (5 dials) and the seven steps of `SetupQueues`
with the `ROUTING_KEY` of its environment.  Processes die between any two
steps, the broker stops and starts, keeping what is durable.  A routing key is
a sequence of words, `Matches` is the broker's topic match.  Bindings
accumulate: a consumer with `event.#` keeps the events of a publisher with
`event.*` routed, now and after restarts.

`Publisher` starts after the set-up.  An event is its number.  A publication on
a lost connection fails or, when the loss is not noticed yet, appears to
succeed; one that has arrived may also be reported as failed.  `stopChan` has no room: main
waits until the loop is back at its `select`.

### DeadLetters

A message is in the main queue, in the dead-letter queue, unacknowledged,
settled or discarded.  The main queue has no dead-letter exchange
(run `dead_letters`), so a message reaches the DLQ only where an operator
gave the queue one by a broker policy, which is the constant
`HasDeadLetterExchange`.  Without it `GiveUp` discards the message ("lost"):
nobody ever has it to handle, and in `AtLeastOnce` it is one that has not
arrived.  The run has the exchange, since without it the DLQ consumer
has nothing to do; the proofs cover both.  The goroutine
of `ConsumeDLQMessages` takes zero deliveries from the closed channel of a lost
connection, which it rejects in vain, until the context ends.  The switch on
the reason is one step: all its branches acknowledge, and the reason is never
in the stored body (section 5).

### Reporters

`Reporters` keeps of the pool what its observers see: `active`, the context and
the RWMutex, where a waiting writer keeps new readers out.  `healthCheck` reads
`GetStats` and `IsActive` under two locks.  `GetQueueStats` may wait for the
broker without bound; main's wait for the reporters has a timeout.  The metrics
server has requests, which clients open and end.  `Shutdown` stops the
listener, and then waits for the open requests (`ServerCloses`) or, after 5 s,
gives up on them (`ShutdownTimesOut`); in both cases the goroutine ends for which
main waits.  `ListenAndServe` may also fail, which is only logged.

## 3. Runs

| Run | Module and bounds | Shows |
|---|---|---|
| `pool` | 2 workers, 3 jobs, 1 retry, a context that may end; `FairSpec` | every safety property of the pool, bounded work on each job; implements `JobService` and `PoolLifecycle`; `Stop` returns, workers end, accepted jobs are settled |
| `shutdown_finishes` | 2 workers, 2 jobs, `PromptSpec` | refuted: a job in progress finishes before `Stop` gives up |
| `consumer` | 2 workers, 3 messages (1 undecodable), 2 lives; `FairSpec` | at-least-once handling (refinement) over signals, kills and lost connections; what the prefetch guarantees; one success per life; a settled message meets no handler again; a graceful stop repeats no work; every message is settled and every shutdown ends |
| `dead_letters` | 1 worker, 1 message | refuted: a failed message reaches the DLQ |
| `metrics_counters` | 2 workers, 2 types, 2 jobs each | exact counters are exact, the lossy ones are bounded, reports are fresh |
| `semaphore` | 4 goroutines, 2 permits; `FairSpec` | the invariant, implements `CountingSemaphore`, waiters are served |
| `topology` | 2 processes, 2 binding keys, 2 events, 2 dials | no bind fails, routed events stay routed, queued events outlive the broker |
| `failures` | 6 types, 4 classes of IDs, retries -1, 0, 2, 20, 5 base delays, 6 deadlines (one of each negative), 16 bits | time is bounded, which retry can succeed, what a rejected job has behind it, who panics; delays are exact below the overflow, which comes only after the cap |
| `publisher` | both modes, 5 events; `FairSpec` | order of the events, stop between rounds, progress, end |
| `dlq_consumer` | 2 messages (1 undecodable), 2 lives; `FairSpec` | at-least-once (refinement), shown once per life, every dead letter is settled |
| `reporters` | the three reporters, 2 clients; `ReportersFairSpec` | no half stop is seen, what a graceful end leaves behind, the shutdown ends |
| `pool_lifecycle` | 0 to 2 workers, 2 starts, 4 jobs; `FairSpec` | only a restart or a forced stop can kill the process; a stopped pool takes no job again; workers end |

Properties whose name ends in `Inv` are conjunctions of a module's type
invariant and named parts (`PoolInv` is `TypeOK`, `ExclusiveOwnership`,
`SettledAtMostOnce`, `VerdictIsEarned`, `NoJobLost` and `AcquireNeverBlocks`,
`ConsumerInv` is `TypeOK`, `OneUnsettledJob`,
`SubmitNeverFull`, `OrphanOnlyAtShutdown` and `AckedWasHandled`); each part is
stated and explained where it is defined.

Why the bounds are enough.  Two workers are the smallest number that share the
channel, the semaphore and the counters; three jobs leave one in the channel
while both work.  `MaxRetries = 1` has a first, a last and a retried attempt.  A
channel that is full takes five jobs on two workers; `pool_lifecycle` reaches
that state (two jobs fill the channel of a one-worker pool), and the proof
covers any number of jobs.  Two lives make a redelivery to a fresh process possible, and the
undecodable message exercises the path past the pool.  Two jobs per worker in
`metrics_counters` let a counter overwrite a value that is not its own.
In `pool_lifecycle` a second `Stop` that gets past its check dies, so two starts
are all the starts there are to tell apart.  Four goroutines on two permits
make a queue of two waiters, of which the first or the second is cancelled.
The deadlines of `failures` are a negative and an expired one, one
shorter than some handlers and equal to one, the default, one that ends with a
simulated pause, and one beyond all pauses.  A width of 16 and the cap of 30 s, 1200 units, keep the
proportions of 64 bits of nanoseconds: the cap is reached well before the overflow, and 21
attempts go past all bits.  In `topology` two dials instead of five keep the
first, a later and the last attempt.  In `reporters` one client can end its
request while the other's stays open past the `Shutdown`.  `MaxCounter` bounds the publisher's
events, `MaxLives` the processes, `MaxStarts` and `MaxJobs` the calls, `Rounds`
the jobs a worker counts.  Symmetry is used on workers, message types and processes in
runs of invariants and action properties, never in a liveness run.

Deadlock is checked everywhere: `Done`, `Terminated`, `Dead`, `Finished` and
`Exited` (`MainExited`) are the stuttering steps of what has ended.

### Fairness

Weak fairness of each worker and of `Stop` says that the Go scheduler runs what
can run and that the 30 s timer fires; a handler call returns because its
selects watch the attempt's deadline (`context.WithTimeout`).  In `Consumer`
also the goroutine of `ConsumeMessages`, main after a signal, and the broker's
delivery are weakly fair.  Nothing is assumed of the environment: nobody has to
submit, signal, kill or restart, and contexts need not be cancelled.  A
`select` is not assumed fair between its cases.

In `Semaphore` a goroutine that has a permit goes on and releases it.  In
`Publisher` the ticker ticks, `Publish` returns, and main's send on
`stopChan` is strongly fair: Go's `select` picks at random among ready cases, so
the loop does not take a tick at every turn for ever.  The same holds for the
`ctx.Done()` cases of the loops of `Reporters`, which are strongly fair, while
the answer to `GetQueueStats` is not assumed at all, nor the end of a request:
the timeouts of main, `Stop` and the server's `Shutdown` are.  In
`DeadLetters` the broker delivers and the goroutine runs.  In `PoolLifecycle`
workers run, jobs end and `Stop`'s timer fires.  `Metrics`, `Topology` and
`Failures` are checked for safety only.

`PromptSpec` (in `WorkerPoolClaims`) is no fairness but a restriction: `Stop`'s
timer fires only when no worker can take a step, that is, every handler is far
faster than the timeout.  It makes the refutation of `ShutdownFinishesJobs`
independent of slow handlers.

## 4. Proofs

`WorkerPoolProofs` proves, for any finite set of workers, any set of jobs, any
integer `MaxRetries`, with and without a parent context that can be cancelled:

- `TypeCorrect`: `Spec => []TypeOK`;
- `Invariance`: `Spec => []IndInv`;
- from it every safety property that `pool` checks: `PoolIsSafe` (`PoolInv`),
  which is `OwnershipIsExclusive`, `SettledOnce`, `VerdictIsRight`, `JobsAreKept`
  (`NoJobLost`) and `AcquireIsFree`, no worker ever waits for a permit;
  `GracefulStopIsSafe` (`GracefulStopIsClean`) and the action property
  `NoSendOnClosed`;
- `WorkEnds` (`WorkIsBounded`): every step a worker takes on a job lowers
  `StepsLeft`, a natural number, until the job leaves its hands.  Of "every job
  ends" this is all but the scheduling: at most `2 * AllAttempts + 4` steps of
  one goroutine, whatever the others do;
- `PoolImplementsService` (`ImplementsJobService`);
- `PoolImplementsLifecycle` (`ImplementsPoolLifecycle`), for finite sets of jobs,
  as `PoolLifecycle` counts the accepted ones.

They rest on the assumptions named in `WorkerPool`: `Workers` is finite,
`MaxRetries` is an integer, `ParentCancels` a Boolean, `None` no job.

Why an inductive invariant is needed: that a delivery has at most one
settlement is no consequence of itself one step earlier; the worker about to
settle must be known to hold a job that is not settled, that nobody else holds
and that is not queued.  `IndInv` is the type invariant and these parts:

- `LifecycleInv`: which flags `Stop` has set at each of its steps, and that a
  drained stop left every worker exited;
- `WorkerInv`: the permits are exactly the workers in `Holding`, a worker holds
  a job exactly outside `select`, `none` and `exited`; at each place of the
  retry loop, how the attempt number and `failed` relate to the handler calls
  the job has seen, and that nothing is settled before `settle`;
- `JobInv` with `VerdictInv`: each job is new or refused, queued, held, settled
  or given up (untried, and only after a cancellation), with a history that
  explains its verdict;
- `ExclusiveOwnership` and `CrashOnlyAfterForcedStop`: nothing is in two
  places, and a panic needs a wait of `Stop` that was cut short.

The proof has one lemma per part and group of actions; operators on sequences
(what a tail keeps, what an append adds) are lemmas of their own.  The capacity
argument of `AcquireIsFree` is the cardinality of a proper subset.

The refinements are proved step by step, one lemma for each group of actions.  In
`JobService` a worker's step between two attempts is a stutter, and a job keeps
its fate unless it is the one in the worker's hands (`InHands`, `SameFate`).
`PoolImplementsLifecycle` needs three facts of its own.  A worker quits only once
`Stop` has begun or the context has ended (`QuitInv`).  `Order` is a bijection
between `1 .. n` and the workers, because a finite set has as many elements as
its numbering (`Numbering`).  And a `Stop` that gave up leaves a goroutine
waiting exactly until the last worker has exited, so that `leftover` can be told
from the workers' places.

`SemaphoreProofs` proves `Invariance` (`Spec => []IndInv`) and
`SemaphoreRefines` (`Spec => ImplementsSemaphore`) for any finite set of
goroutines and any number of permits.  Both rest on one idea: the two numbers
the code keeps are the sizes of sets of program places.  `permits` is the
number of goroutines between send and receive, `active` of those that have
counted themselves and not yet uncounted; the queue lists exactly those that
wait, each once, and only while the channel is full.  If a cancelled goroutine
kept its place, the receive of `Release` could hand a permit to one that left.

`DeadLettersProofs` proves `OncePerLife` (`Spec => []DeadLettersInv`) and
`DeadLettersRefine` (`Spec => ImplementsAtLeastOnce`) for any messages and lives,
with a dead-letter exchange and without one.  `IndInv` adds to
the checked invariant where the goroutine's message is at each of its steps
(`HeldInv`), and that whatever this life has shown and is still connected for
is settled or in the goroutine's hands (`LifeInv`).  A redelivery to the same
life would need an unsettled message that was shown; `LifeInv` leaves only the
one in hand.  In the refinement the end of a connection is one abstract step that
requeues everything unsettled.

`TopologyProofs` proves `SetupFindsItsEnds` (`Spec => []TopologyInv`),
`RoutedForGood` (`NothingDroppedOnceBound`) and `QueuedForGood`
(`QueueKeepsEvents`) for any processes, routing keys and events and any number
of dials; of `Matches` nothing is used, so that they hold for whatever way the
broker matches.  `IndInv` adds that all that is declared is durable
(`KeptInv`), that a process finds what its earlier steps declared, itself or
somebody before it (`SetupInv`), that the binding of every process that ever
got ready is there (`ServedInv`), and that only the main queue is bound to the
main exchange (`RoutesInv`).  A restart of the broker then changes neither
objects nor bindings, which is why a set-up may be cut by it at any step.

`ConsumerProofs` proves everything `consumer` checks except liveness, for any
messages, finite set of workers, number of retries and number of lives:
`ConsumerIsSafe` (`ConsumerInv`), `OneSuccessPerLife` (`HandledOncePerLife`),
`SettledStays` (`SettledIsFinal`), `GracefulStopIsFinal`
(`GracefulStopRepeatsNothing`), `PoolUsedAsSpecified`
(`PoolIsUsedAsSpecified`) and `ConsumerRefines` (`ImplementsAtLeastOnce`).  The
invariant of the pool is not proved again: `WorkerPoolProofs` is instantiated
over the consumer's variables, and every action of `Consumer` is a step of that
pool, a stutter of it, or a new life that starts it afresh.
`PoolUsedAsSpecified` is this fact stated as a theorem, and what carries every
result about the pool over to the consumer.  On top of it `ProcessInv` says who
has the one delivery of `Qos(1)`: `InHand` (the goroutine's buffer, the message
being decoded or submitted, the pool's unsettled jobs) has one member at most,
which is the unacknowledged one while the connection lives and one the broker
has taken back after that (`HandInv`).  So `SubmitJob` finds room, and a
message is handled with success once in a life at most (`okCalls` is 0 or 1):
a delivery is submitted once, and the pool makes no handler call after one that
succeeded (`HandledInv`).  A delivery that is in nobody's hands needs
the end of the submissions or a pool without workers (`OrphanInv`; the
run has workers, so the second case does not arise there).
`GracefulStopRepeatsNothing` needs the converse direction as well, from the pool
to the broker: while the connection lives, whatever this life has settled has
arrived (`ArrivedInv`).  After a drained stop nobody holds a job, so one that was
tried is settled, has arrived, and is not returned by `Close`.  After a stop that
timed out nothing of the kind holds (section 5).

`MetricsProofs` proves `SafeCountersLoseNothing` (`SafeCountersAreExact`),
`LossyCountersAreBounded` (`MetricsInv`) and `ReportsAreFresh`
(`ReportIsFresh`) for any finite sets of workers and types and any number of
jobs.  What a counter lacks of its updates is counted in workers: the mutex map
at a key is the updates begun, less the workers that carry that key and are not
past `Unlock` (`SafeInv`); the same for the atomic counters, by status.  That a
worker's `seen` is still the current value needs the mutex (`LockInv`), and a lossy counter
differs exactly in not having it: there only an upper bound is inductive, and
that a key once stored is never 0 again.  The report's comparison of the maps
with the atomic totals needs the sum over all types, which is the number of
pairs of a type and a unit of it, so that it grows by one with an added element.

So `ReportsAreFresh` bounds one direction: the map may be ahead of the atomic
counters, read after it, by one update of each worker; these may be ahead of the
map by whatever was counted between the two reads.

`ComponentProofs` has three smaller components.

- `Failures`: `RetriesRepeatTheFirst` (`JobInv`), `JobsEndInTime`
  (`JobTimeIsBounded`), `RejectionsAreEarned` (`RejectionIsEarned`) and
  `BackoffsGrowToTheCap` (`BackoffGrowsToTheCap`), for any sets of integers as
  configuration, negative ones included.  In `JobIndInv`, `TimeInv` charges each
  attempt its deadline and its pause, `RaceInv` says that whatever was tried
  again is `Doomed` (cancelled, simulated, or as slow as its deadline), so a
  retry can succeed only where the handler's wait ends at the deadline
  itself; `ErrorInv` says what a failed job has behind it: a cancelled backoff,
  or the last attempt of one that was `Doomed`, or no attempt at all.
- `Backoff`, in the same theorems: the run has 16 bits, the theorem any width
  from 3 bits on, the program's 64 among them.  `Wrap(x)` is the one integer of
  the range that differs from `x` by a multiple of `2^Width`; a
  multiplier that fits is the double of the one before it.  That `2^(n + 1)` is
  twice `2^n` is itself a lemma, proved by counting the subsets of `1 .. n`, as the
  prover knows no exponents.  The cap has to be at most an eighth of the
  range of the integers (`MaxDelayAssumption`; 30 s is far below it for 64 bits
  of nanoseconds).  With a fourth the statement is false: at a width of
  9 and a cap of 128 the jitter alone lifts a delay over the range.
- `Publisher`: `EventsArriveInOrder` (`PublisherInv`).  `PubInv` adds that while
  the connection is up the number of the event in hand is one more than what
  has arrived, or equal to it when the publication has just been made.
- `Reporters`: `ReportsSeeNoHalfStop` (`ReportersInv`), for any set of clients.
  Where main is tells the flags, and a reader has the lock exactly between its
  two reads (`RepLockInv`).  The goroutine of the metrics server has ended only
  with the server closed, hence without requests, or abandoned (`RepEndInv`).

The definitions of `Publisher` and `Reporters` carry the module's name
(`PublisherInit`, `ReportersNext`), so that one module can extend all three.

`PoolLifecycleProofs` proves `CallsAreRefused` (`RestartInv`) and
`StoppedTakesNothing` (`StoppedForGood`), for any sizes and numbers of calls.
`StopInv` ties the number of starts to the flags, `WorkersInv` says that a
`Stop` that waited for the only start left nobody behind.

All inductive invariants were also checked by TLC on the bounds of the runs.

Only model-checked: the liveness properties (the prover has no `ENABLED`);
`WorkEnds` is the part of the pool's that is safety.  Also what the recursive
function in `Matches` computes, of which the proofs use nothing.  Every invariant and
every action property or refinement of a passing run is a theorem.

## 5. What the runs and the models show of the code

Two sentences of the repository are refuted, each by a run:

1. `shutdown_finishes`.  `Stop` waits for the workers while it holds `wp.mu`;
   a worker that finished its handler needs the read lock (`worker.go:522`,
   `:799`) before it can acknowledge.  A worker that comes to this lock after
   `Stop` has taken it finishes its job only after the timer; only
   jobs already past it finish before (README.md:112 says otherwise).
2. `dead_letters`.  The main queue has no dead-letter exchange, so
   `Reject(false)` discards a failed message (README.md:129, :298).

The following is visible in the modules and in the exceptions the checked
properties have to make:

- After a `Stop` that timed out `jobChan` is closed, and a worker back at its
  `select` may receive the nil job and panic: `GracefulStopIsClean` and
  `RestartInv` need the exception (README.md:137).
- `SafeIncrementWithSyncMap` loses updates, although `worker.go:66` calls it
  thread-safe: `LossyWithinBounds` is all that holds of it.  Concurrent access
  to the unprotected map is a fatal error that `recover` does not catch
  (`worker.go:46`), on the path of every job.
- With `ROUTING_KEY=event.*` (`.env.example:20`, `configs/config.go:79`) the
  three-word keys of the publisher match no binding and the exchange drops them
  silently; `manager.go:172` alone defaults to `event.#`.
  `NothingDroppedOnceBound` speaks of events some process has bound.
- The backoff overflows: with a base of 1 s the 35th delay is not positive, and
  the worker retries without a pause.  `BackoffGrowsToTheCap` says that this
  only follows a pause of the maximal length, and theorem
  `BackoffsGrowToTheCap` says so of 64 bits as of any other width.
- `Job.RetryCount` is never incremented and errors are wrapped before they are
  compared (`worker.go:543-548`): the type `timeout` is never assigned, and
  `max_retries_exceeded` only to jobs whose `MaxRetries` is 0 or less or whose
  decoded count reaches it.  No property fixes this, since all types end
  in the same `Reject(false)`.  `retry_attempts_total` counts jobs that failed
  with a retryable error, not retries (`prometheus.go:45`).
- The DLQ reason and the error are written into a copy nobody reads again, so
  the DLQ consumer always takes its default branch (README.md:133).  Its main
  does not wait for its consuming goroutine and may close the connection before
  an ack, which is why a dead letter may be shown once in each life.
- main may log "All goroutines stopped gracefully" (`main.go:138`) while the
  metrics server still serves requests on which its `Shutdown` has given up:
  `GracefulMeansQuiet` needs the exception (README.md:137).
- `/health` is a constant (README.md:154), and the `active_workers` gauge counts a
  slice that never shrinks (`prometheus.go:56`).
- The `-workers` flag of the consumer is only logged, the pool's size is
  `MAX_CONCURRENT` (`main.go:67`, `:113`; README.md:110); and `OneUnsettledJob`
  shows that with a prefetch of 1 the pool never processes two messages at a
  time (README.md:109).

## 6. Not modelled

Logging, formatting and JSON: a body decodes or does not, and the setters of
`EventMessage` (`message.go:89-136`) change data that nothing here decides on
(`IncrementRetryCount` and `IsRetryable` have no caller).  `configs/config.go`
and `getEnv` read the environment once; their values are the constants of the
modules.  Prometheus' counters, gauges and histogram are atomics of the client
library; of the gauges only the lock taken to refresh them is modelled.  The
answer of `/health` depends on nothing.
`Worker.Stop` has no caller.  The logger's `Fatal` is the end of a process.
The connection's failure modes are one action, and a failed `Ack` is one whose
delivery is requeued.

## 7. Extending this

When the code changes, the places to start are `map` in `PROJECT.json` (which
lines a definition stands for) and `hazards` (what to say about them).  Two
things would need new modules: a reconnecting `Manager`, for which
`ConnectionLost` is the place, and a dead-letter exchange on the main queue,
which is `RejectedTo` in `Consumer` and `HasDeadLetterExchange` in `DeadLetters`.
The prefetch of 1 makes `OneUnsettledJob` true, and with it `SubmitNeverFull`; for
another `Prefetch` they have to be stated anew.  `WorkerPool` knows nothing of
the prefetch, and what is proved of it stays.
