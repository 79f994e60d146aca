------------------------------ MODULE WorkerPool ------------------------------
(***************************************************************************)
(* The worker pool of internal/processor/worker.go: WorkerPool.Start, Stop *)
(* and SubmitJob, the loop of each Worker goroutine, the semaphore permit  *)
(* a worker holds while it processes a job, the retry loop, and the single *)
(* Ack or Reject each job is meant to end with.                            *)
(*                                                                         *)
(* wp.mu is an RWMutex.  Every reader section of the pool (SubmitJob,      *)
(* UpdatePrometheusMetrics, GetStats, IsActive) is free of blocking calls, *)
(* so it is one atomic step guarded by ~locked; only Stop keeps the write  *)
(* lock over a wait, and `locked' says that it does.                       *)
(***************************************************************************)
EXTENDS Integers, Sequences, FiniteSets, Functions

CONSTANTS
    Workers,        \* the maxWorkers goroutines of the pool
    Jobs,           \* the jobs, one per broker delivery handed to SubmitJob
    MaxRetries,     \* Job.MaxRetries; any integer, it is read from MAX_RETRIES
    ParentCancels,  \* whether the ctx given to Start and Stop can be cancelled
    None            \* a worker that holds no job

ASSUME WorkersAssumption == IsFiniteSet(Workers)
ASSUME RetriesAssumption == MaxRetries \in Int
ASSUME ParentAssumption  == ParentCancels \in BOOLEAN
ASSUME NoneAssumption    == None \notin Jobs

VARIABLES
    active,      \* wp.active
    locked,      \* Stop holds wp.mu for writing
    cancelled,   \* wp.ctx is cancelled, and with it every worker's w.ctx
    quitClosed,  \* wp.quitChan is closed
    jobsClosed,  \* wp.jobChan is closed
    stopPc,      \* where the one call of Stop is
    outcome,     \* how Stop's wait ended
    submitDone,  \* the ctx that SubmitJob's caller passes is cancelled
    parentDone,  \* the ctx that Start's and Stop's caller passes is cancelled
    crashed,     \* a goroutine panicked: the process is dead
    jobChan,     \* contents of wp.jobChan
    status,      \* what SubmitJob answered for each job
    pc,          \* where each worker goroutine is
    job,         \* the job in each worker's hands
    attempt,     \* `attempt' of the worker's processWithRetry
    failed,      \* whether its lastErr is not nil
    permits,     \* the workers that hold a permit of wp.semaphore
    okCalls,     \* handler calls that returned nil, per job
    errCalls,    \* handler calls that returned an error, per job
    settled      \* the Ack and Reject calls made on each job's delivery

lifecycle  == <<active, locked, cancelled, quitClosed, jobsClosed, stopPc, outcome>>
contexts   == <<submitDone, parentDone>>
queueVars  == <<jobChan, status>>
workerVars == <<pc, job, attempt, failed, permits>>
history    == <<okCalls, errCalls, settled>>
poolVars   == <<lifecycle, contexts, crashed, queueVars>>
vars == <<poolVars, workerVars, history>>

\* make(chan *Job, maxWorkers*2), and the semaphore's capacity.
Capacity == 2 * Cardinality(Workers)
MaxPermits == Cardinality(Workers)

Locations == {"none", "select", "acquire", "handle", "backoff",
              "refresh", "settle", "release", "exited"}

\* Between Acquire's return and the end of Release.
Holding == {"handle", "backoff", "refresh", "settle", "release"}

\* How many handler calls fail before processWithRetry gives up.
AllAttempts == IF MaxRetries >= 0 THEN MaxRetries + 1 ELSE 0

Queued == Range(jobChan)
Held   == {job[w] : w \in Workers} \ {None}

-----------------------------------------------------------------------------
(* NewWorkerPool: nothing runs before Start. *)
Init ==
    /\ active = FALSE /\ locked = FALSE /\ cancelled = FALSE
    /\ quitClosed = FALSE /\ jobsClosed = FALSE
    /\ stopPc = "idle" /\ outcome = "none"
    /\ submitDone = FALSE /\ parentDone = FALSE /\ crashed = FALSE
    /\ jobChan = <<>> /\ status = [j \in Jobs |-> "new"]
    /\ pc = [w \in Workers |-> "none"]
    /\ job = [w \in Workers |-> None]
    /\ attempt = [w \in Workers |-> 0] /\ failed = [w \in Workers |-> FALSE]
    /\ permits = {}
    /\ okCalls = [j \in Jobs |-> 0] /\ errCalls = [j \in Jobs |-> 0]
    /\ settled = [j \in Jobs |-> <<>>]

(* Start spawns every worker under the lock.  The program calls it once. *)
Start ==
    /\ ~active /\ ~locked /\ stopPc = "idle"
    /\ active' = TRUE
    /\ pc' = [w \in Workers |-> "select"]
    /\ UNCHANGED <<locked, cancelled, quitClosed, jobsClosed, stopPc, outcome,
                   contexts, crashed, queueVars, job, attempt, failed, permits, history>>

-----------------------------------------------------------------------------
\* wp.mu.RLock: only a Stop in progress keeps readers out.
ReadLock_Skipped == TRUE
ReadLock == ~locked

HasRoom == Len(jobChan) < Capacity

(* SubmitJob.  Its select takes the send whenever the channel has room, but *)
(* it may as well take a context that is done; default only when full.      *)
SubmitAccepted(j) ==
    /\ ReadLock /\ status[j] = "new"
    /\ active /\ HasRoom
    /\ jobChan' = Append(jobChan, j)
    /\ status' = [status EXCEPT ![j] = "sent"]
    /\ UNCHANGED <<lifecycle, contexts, crashed, workerVars, history>>

SubmitRefused(j) ==
    /\ ReadLock /\ status[j] = "new"
    /\ ~active \/ submitDone \/ cancelled \/ ~HasRoom
    /\ status' = [status EXCEPT ![j] = "refused"]
    /\ UNCHANGED <<lifecycle, contexts, crashed, jobChan, workerVars, history>>

CancelSubmit ==
    /\ ~submitDone
    /\ submitDone' = TRUE
    /\ UNCHANGED <<lifecycle, parentDone, crashed, queueVars, workerVars, history>>

\* SubmitJob's ctx is derived from the one given to Start and Stop.
CancelParent ==
    /\ ParentCancels /\ ~parentDone
    /\ parentDone' = TRUE /\ submitDone' = TRUE
    /\ UNCHANGED <<lifecycle, crashed, queueVars, workerVars, history>>

-----------------------------------------------------------------------------
(* Stop: lock, cancel wp.ctx, close quitChan, wait for the workers, the     *)
(* timer or the ctx, close jobChan, clear active, unlock.                   *)
StopBegin ==
    /\ active /\ ~locked /\ stopPc = "idle"
    /\ locked' = TRUE /\ cancelled' = TRUE /\ stopPc' = "cancelled"
    /\ UNCHANGED <<active, quitClosed, jobsClosed, outcome,
                   contexts, crashed, queueVars, workerVars, history>>

StopCloseQuit ==
    /\ stopPc = "cancelled"
    /\ quitClosed' = TRUE /\ stopPc' = "waiting"
    /\ UNCHANGED <<active, locked, cancelled, jobsClosed, outcome,
                   contexts, crashed, queueVars, workerVars, history>>

StopWaitEnds(how) ==
    /\ stopPc = "waiting"
    /\ outcome' = how /\ stopPc' = "closing"
    /\ UNCHANGED <<active, locked, cancelled, quitClosed, jobsClosed,
                   contexts, crashed, queueVars, workerVars, history>>

\* wg.Wait returned: every worker has run wg.Done.
StopDrained_NoWait == StopWaitEnds("drained")
StopDrained == (\A w \in Workers : pc[w] = "exited") /\ StopWaitEnds("drained")
\* time.After(timeout), and the case for a ctx that is done.
StopTimeout_Missing == FALSE /\ StopWaitEnds("forced")
StopTimeout == StopWaitEnds("forced")
StopContext == parentDone /\ StopWaitEnds("forced")

StopCloseJobs ==
    /\ stopPc = "closing"
    /\ jobsClosed' = TRUE /\ stopPc' = "closed"
    /\ UNCHANGED <<active, locked, cancelled, quitClosed, outcome,
                   contexts, crashed, queueVars, workerVars, history>>

StopReturn ==
    /\ stopPc = "closed"
    /\ active' = FALSE /\ locked' = FALSE /\ stopPc' = "returned"
    /\ UNCHANGED <<cancelled, quitClosed, jobsClosed, outcome,
                   contexts, crashed, queueVars, workerVars, history>>

-----------------------------------------------------------------------------
(* Worker.run: the select picks any ready case. *)
Receive(w) ==
    /\ pc[w] = "select" /\ jobChan # <<>>
    /\ job' = [job EXCEPT ![w] = Head(jobChan)]
    /\ jobChan' = Tail(jobChan)
    /\ pc' = [pc EXCEPT ![w] = "acquire"]
    /\ UNCHANGED <<lifecycle, contexts, crashed, status, attempt, failed, permits, history>>

\* A closed and empty jobChan yields a nil *Job; processJobWithSemaphore reads
\* job.Message and the nil dereference takes the process down.
ReceiveNil(w) ==
    /\ pc[w] = "select" /\ jobChan = <<>> /\ jobsClosed
    /\ crashed' = TRUE
    /\ UNCHANGED <<lifecycle, contexts, queueVars, workerVars, history>>

\* quitChan, w.ctx.Done() and ctx.Done() of the select in run.
QuitReady_WhenEmpty == jobChan = <<>>
QuitReady == quitClosed \/ cancelled \/ parentDone

Quit(w) ==
    /\ pc[w] = "select" /\ QuitReady
    /\ pc' = [pc EXCEPT ![w] = "exited"]
    /\ UNCHANGED <<poolVars, job, attempt, failed, permits, history>>

\* The ctx a job is processed under descends from Start's ctx, not from wp.ctx.
JobContextDone_FromPool == parentDone \/ cancelled
JobContextDone == parentDone

(* processJobWithSemaphore: take a permit or, if the ctx is done, drop the  *)
(* job without settling its delivery.                                       *)
Acquire(w) ==
    /\ pc[w] = "acquire" /\ Cardinality(permits) < MaxPermits
    /\ permits' = permits \cup {w}
    /\ attempt' = [attempt EXCEPT ![w] = 0]
    /\ failed' = [failed EXCEPT ![w] = MaxRetries < 0]
    \* With a negative MaxRetries processWithRetry's loop body never runs.
    /\ pc' = [pc EXCEPT ![w] = IF MaxRetries >= 0 THEN "handle" ELSE "refresh"]
    /\ UNCHANGED <<poolVars, job, history>>

AcquireCancelled(w) ==
    /\ pc[w] = "acquire" /\ JobContextDone
    /\ job' = [job EXCEPT ![w] = None]
    /\ pc' = [pc EXCEPT ![w] = "select"]
    /\ UNCHANGED <<poolVars, attempt, failed, permits, history>>

LastAttempt_OneEarly(w) == attempt[w] + 1 = MaxRetries
LastAttempt(w) == attempt[w] = MaxRetries

(* processWithRetry: one handler call per attempt, a backoff in between.    *)
HandlerSucceeds_GoesOn(w) ==
    /\ pc[w] = "handle"
    /\ okCalls' = [okCalls EXCEPT ![job[w]] = @ + 1]
    /\ failed' = [failed EXCEPT ![w] = FALSE]
    /\ pc' = [pc EXCEPT ![w] = IF LastAttempt(w) THEN "refresh" ELSE "backoff"]
    /\ UNCHANGED <<poolVars, job, attempt, permits, errCalls, settled>>
HandlerSucceeds(w) ==
    /\ pc[w] = "handle"
    /\ okCalls' = [okCalls EXCEPT ![job[w]] = @ + 1]
    /\ failed' = [failed EXCEPT ![w] = FALSE]
    /\ pc' = [pc EXCEPT ![w] = "refresh"]
    /\ UNCHANGED <<poolVars, job, attempt, permits, errCalls, settled>>

HandlerFails(w) ==
    /\ pc[w] = "handle"
    /\ errCalls' = [errCalls EXCEPT ![job[w]] = @ + 1]
    /\ failed' = [failed EXCEPT ![w] = TRUE]
    /\ pc' = [pc EXCEPT ![w] = IF LastAttempt(w) THEN "refresh" ELSE "backoff"]
    /\ UNCHANGED <<poolVars, job, attempt, permits, okCalls, settled>>

BackoffElapsed_SameAttempt(w) ==
    /\ pc[w] = "backoff"
    /\ pc' = [pc EXCEPT ![w] = "handle"]
    /\ UNCHANGED <<poolVars, job, attempt, failed, permits, history>>
BackoffElapsed(w) ==
    /\ pc[w] = "backoff"
    /\ attempt' = [attempt EXCEPT ![w] = @ + 1]
    /\ pc' = [pc EXCEPT ![w] = "handle"]
    /\ UNCHANGED <<poolVars, job, failed, permits, history>>

BackoffCancelled(w) ==
    /\ pc[w] = "backoff" /\ JobContextDone
    /\ pc' = [pc EXCEPT ![w] = "refresh"]
    /\ UNCHANGED <<poolVars, job, attempt, failed, permits, history>>

\* updatePrometheusMetrics reads the pool under wp.mu.RLock.
Refresh(w) ==
    /\ pc[w] = "refresh" /\ ReadLock
    /\ pc' = [pc EXCEPT ![w] = "settle"]
    /\ UNCHANGED <<poolVars, job, attempt, failed, permits, history>>

Verdict(w) == IF failed[w] THEN "reject" ELSE "ack"

\* Delivery.Ack(false) after success; every failure type ends in Reject(false).
Settle(w) ==
    /\ pc[w] = "settle"
    /\ settled' = [settled EXCEPT ![job[w]] = Append(@, Verdict(w))]
    /\ pc' = [pc EXCEPT ![w] = "release"]
    /\ UNCHANGED <<poolVars, job, attempt, failed, permits, okCalls, errCalls>>

Release(w) ==
    /\ pc[w] = "release"
    /\ permits' = permits \ {w}
    /\ job' = [job EXCEPT ![w] = None]
    /\ pc' = [pc EXCEPT ![w] = "select"]
    /\ UNCHANGED <<poolVars, attempt, failed, history>>

-----------------------------------------------------------------------------
StopStep == \/ StopCloseQuit \/ StopDrained \/ StopTimeout \/ StopContext
            \/ StopCloseJobs \/ StopReturn

WorkerStep(w) ==
    \/ Receive(w) \/ ReceiveNil(w) \/ Quit(w)
    \/ Acquire(w) \/ AcquireCancelled(w)
    \/ HandlerSucceeds(w) \/ HandlerFails(w)
    \/ BackoffElapsed(w) \/ BackoffCancelled(w)
    \/ Refresh(w) \/ Settle(w) \/ Release(w)

Environment ==
    \/ Start \/ StopBegin \/ CancelSubmit \/ CancelParent
    \/ \E j \in Jobs : SubmitAccepted(j) \/ SubmitRefused(j)

\* The process is dead, or Stop has returned and every goroutine has ended.
Done ==
    /\ crashed \/ (stopPc = "returned" /\ \A w \in Workers : pc[w] = "exited")
    /\ UNCHANGED vars

\* Nothing of the process moves after a panic.
Next == \/ ~crashed /\ (Environment \/ StopStep \/ \E w \in Workers : WorkerStep(w))
        \/ Done

\* Goroutines that can run do run, and Stop's 30 s timer does fire.  A handler
\* call returns: its select statements all watch the attempt's deadline.  No
\* fairness on the environment: nobody has to submit, stop or cancel.
Fairness == WF_vars(~crashed /\ StopStep)
            /\ \A w \in Workers : WF_vars(~crashed /\ WorkerStep(w))

Spec     == Init /\ [][Next]_vars
FairSpec == Spec /\ Fairness

-----------------------------------------------------------------------------
(* Type invariant: every variable of the pool stays in its range. *)
TypeOK ==
    /\ {active, locked, cancelled, quitClosed, jobsClosed} \subseteq BOOLEAN
    /\ {submitDone, parentDone, crashed} \subseteq BOOLEAN
    /\ stopPc \in {"idle", "cancelled", "waiting", "closing", "closed", "returned"}
    /\ outcome \in {"none", "drained", "forced"}
    /\ jobChan \in Seq(Jobs) /\ Len(jobChan) <= Capacity
    /\ status \in [Jobs -> {"new", "sent", "refused"}]
    /\ pc \in [Workers -> Locations]
    /\ job \in [Workers -> Jobs \cup {None}]
    /\ attempt \in [Workers -> Nat] /\ failed \in [Workers -> BOOLEAN]
    /\ permits \subseteq Workers
    /\ okCalls \in [Jobs -> Nat] /\ errCalls \in [Jobs -> Nat]
    /\ settled \in [Jobs -> Seq({"ack", "reject"})]

(* A job that SubmitJob accepted has one owner at a time: one slot of the   *)
(* channel or one worker, never two, whatever goroutines interleave.        *)
ExclusiveOwnership ==
    /\ IsInjective(jobChan)
    /\ \A v, w \in Workers : job[v] = job[w] /\ job[v] # None => v = w
    /\ Queued \cap Held = {}

(* A delivery gets at most one Ack or Reject (a second one is a channel     *)
(* error in AMQP), and none while its job still waits for a worker.         *)
SettledAtMostOnce ==
    /\ \A j \in Jobs : Len(settled[j]) <= 1
    /\ \A j \in Queued : settled[j] = <<>>

(* The verdict is earned: Ack is only sent for a job whose handler returned *)
(* nil, once and as its last call, and Reject for one that never succeeded  *)
(* and used up all its MaxRetries + 1 attempts, unless a context ended it.  *)
VerdictIsEarned ==
    \A j \in Jobs :
        /\ settled[j] = <<"ack">> => okCalls[j] = 1
        /\ settled[j] = <<"reject">> =>
              okCalls[j] = 0 /\ (parentDone \/ errCalls[j] = AllAttempts)

(* No accepted job disappears: until its delivery is settled it is in the   *)
(* channel or with a worker.  Only Acquire's error path, which needs the    *)
(* parent context to be cancelled, lets go of an unsettled job, and only of *)
(* one that was never shown to the handler.                                 *)
NoJobLost ==
    \A j \in Jobs :
        status[j] = "sent" /\ settled[j] = <<>> /\ j \notin Queued \cup Held
            => parentDone /\ okCalls[j] + errCalls[j] = 0

(* The semaphore has a permit for every worker: Acquire never blocks, so it *)
(* can neither delay a job nor keep Stop waiting.                           *)
AcquireNeverBlocks ==
    \A w \in Workers : pc[w] = "acquire" => Cardinality(permits) < MaxPermits

(* What holds of the pool whatever Stop does: types, one owner and one      *)
(* settlement for each job, earned by its handler calls, none lost, and a   *)
(* free permit for every worker.                                            *)
PoolInv == /\ TypeOK /\ ExclusiveOwnership /\ SettledAtMostOnce
           /\ VerdictIsEarned /\ NoJobLost /\ AcquireNeverBlocks

(* When Stop reports that all workers stopped gracefully, no permit is out, *)
(* no worker holds a job, and the jobs left in the channel are untouched.   *)
(* Only a Stop whose wait was cut short can make a worker meet the nil job  *)
(* of the closed channel and crash the process.                             *)
GracefulStopIsClean ==
    /\ outcome = "drained" =>
          /\ permits = {} /\ Held = {}
          /\ \A j \in Queued : okCalls[j] + errCalls[j] = 0 /\ settled[j] = <<>>
    /\ crashed => outcome = "forced"

(* SubmitJob never sends on a closed channel (a panic in Go): the lock that *)
(* Stop holds keeps every sender out between the close and active = false.  *)
SendOnlyOnOpenChannel ==
    [][\A j \in Jobs : status[j] = "new" /\ status'[j] = "sent"
                        => ~jobsClosed /\ ~cancelled]_vars

(* The work on one job is bounded: with every step its worker comes nearer  *)
(* to the end of it, by a measure that is never negative, so that a job     *)
(* takes at most 2 * AllAttempts + 4 steps of one worker, however long Stop, *)
(* the context or other workers are at it.                                  *)
StepsLeft(w) ==
    CASE pc[w] = "acquire" -> 2 * AllAttempts + 3
      [] pc[w] = "handle"  -> 2 * (MaxRetries - attempt[w]) + 3
      [] pc[w] = "backoff" -> 2 * (MaxRetries - attempt[w]) + 2
      [] pc[w] = "refresh" -> 2
      [] pc[w] = "settle"  -> 1
      [] OTHER -> 0

WorkIsBounded ==
    [][\A w \in Workers :
            job[w] # None /\ pc'[w] # pc[w]
                => /\ StepsLeft(w) \in Nat
                   /\ job'[w] = None \/ StepsLeft(w)' < StepsLeft(w)]_vars

-----------------------------------------------------------------------------
(* The pool as a service: the place of a job is where its history and the   *)
(* goroutines that have it put it.                                          *)
Fate(j) ==
    CASE status[j] # "sent"                      -> status[j]
      [] status[j] = "sent" /\ settled[j] # <<>> -> Head(settled[j])
      [] status[j] = "sent" /\ settled[j] = <<>> ->
             IF okCalls[j] > 0 THEN "handled"
             ELSE IF j \in Queued \cup Held THEN "accepted" ELSE "abandoned"

Service == INSTANCE JobService WITH
    Attempts <- AllAttempts,
    phase    <- IF cancelled THEN "closed" ELSE IF active THEN "open" ELSE "created",
    cut      <- parentDone,
    waiting  <- jobChan,
    fate     <- [j \in Jobs |-> Fate(j)],
    tries    <- [j \in Jobs |-> okCalls[j] + errCalls[j]]

(* Seen through the jobs, the goroutines, channels and locks of the pool     *)
(* keep the promise of JobService: first come, first taken, MaxRetries + 1   *)
(* tries, one verdict, and only a cancelled context ends a job early.        *)
ImplementsJobService == Service!Spec

\* The workers by number, as PoolLifecycle has them, and its view of each.
Ids   == 1 .. Cardinality(Workers)
Order == CHOOSE f \in Bijection(Ids, Workers) : TRUE

Busy == {"acquire", "handle", "backoff", "refresh"}
View(w) == IF pc[w] = "exited" THEN "ended" ELSE IF pc[w] \in Busy THEN "working" ELSE "select"

Started   == active \/ stopPc # "idle"
AllExited == \A w \in Workers : pc[w] = "exited"
GaveUpWaiting == outcome = "forced" /\ jobsClosed

Lifecycle == INSTANCE PoolLifecycle WITH
    Sizes     <- {Cardinality(Workers)},
    MaxStarts <- 1,
    MaxJobs   <- Cardinality(Jobs),
    size      <- Cardinality(Workers),
    active    <- active /\ ~jobsClosed,
    rootDone  <- parentDone,
    quitClosed <- cancelled,
    queue     <- Len(jobChan),
    accepted  <- Cardinality({j \in Jobs : status[j] = "sent"}),
    worker    <- [i \in (IF Started THEN Ids ELSE {}) |-> View(Order[i])],
    stopping  <- stopPc \in {"cancelled", "waiting", "closing"},
    leftover  <- IF ~GaveUpWaiting THEN "none" ELSE IF AllExited THEN "woken" ELSE "waits",
    starts    <- IF Started THEN 1 ELSE 0,
    forced    <- GaveUpWaiting,
    panic     <- IF crashed THEN "nil_job" ELSE "none"

(* What main does with the pool is one of the call sequences PoolLifecycle   *)
(* allows, and its view of a worker, "working" until the read lock of the    *)
(* metrics is passed, is right: what is said there of any callers holds of   *)
(* this pool.                                                                *)
ImplementsPoolLifecycle == Lifecycle!Spec

-----------------------------------------------------------------------------
(* Stop returns and every worker ends although it waits under the lock that *)
(* its workers need to finish a job: the timer breaks the circular wait.  (A *)
(* worker may meet the closed jobChan, and a panic ends them all.)           *)
StopCompletes ==
    stopPc = "cancelled" ~>
        crashed \/ (stopPc = "returned" /\ \A w \in Workers : pc[w] = "exited")

(* Without a shutdown every accepted job is settled: again and again no     *)
(* accepted job is left to settle.                                          *)
SubmittedIsSettled ==
    []<>(\/ \A j \in Jobs : status[j] = "sent" => settled[j] # <<>>
         \/ stopPc # "idle" \/ parentDone)
=============================================================================
