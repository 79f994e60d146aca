--------------------------- MODULE PoolLifecycle ---------------------------
(***************************************************************************)
(* The worker pool of internal/processor/worker.go under any sequence of   *)
(* calls of its exported Start, Stop and SubmitJob, from any number of     *)
(* goroutines: a second Start, a Stop without a Start, a Start after a     *)
(* Stop, a pool without workers.  NewWorkerPool makes the channels and the *)
(* context once, and Stop ends them for good.  Every Start is given the    *)
(* same context, which may end.  WorkerPool has the life that main gives   *)
(* the pool, in detail; here a job is a number in the channel, and what a  *)
(* worker does with it is one state.                                       *)
(***************************************************************************)
EXTENDS Integers, FiniteSetsExt

CONSTANTS
    Sizes,      \* values of MAX_CONCURRENT
    MaxStarts,  \* bound on successful Starts
    MaxJobs     \* bound on accepted jobs

ASSUME SizesAssumption == Sizes \subseteq Nat
ASSUME LifecycleBounds == MaxStarts \in Nat /\ MaxJobs \in Nat

VARIABLES
    size,        \* wp.maxWorkers
    active,      \* wp.active
    rootDone,    \* the ctx given to Start is done
    quitClosed,  \* close(wp.quitChan) and wp.cancel() are done
    jobsClosed,  \* close(wp.jobChan) is done
    queue,       \* len(wp.jobChan)
    accepted,    \* history: jobs ever accepted
    worker,      \* where each worker of wp.workers is; it only grows
    stopping,    \* a Stop waits for the workers and holds wp.mu
    leftover,    \* the goroutine of a Stop that timed out: "none", "waits", "woken"
    starts,      \* history: successful Starts
    forced,      \* history: some Stop gave up waiting
    panic        \* why the process has died, or "none"

pool  == <<size, active, rootDone, quitClosed, jobsClosed, queue, accepted, starts, forced>>
vars  == <<pool, worker, stopping, leftover, panic>>

Init ==
    /\ size \in Sizes /\ worker = <<>>
    /\ active = FALSE /\ rootDone = FALSE /\ quitClosed = FALSE /\ jobsClosed = FALSE
    /\ queue = 0 /\ accepted = 0 /\ starts = 0 /\ forced = FALSE
    /\ stopping = FALSE /\ leftover = "none" /\ panic = "none"

\* wp.wg counts the workers that have not ended.
Alive == {i \in DOMAIN worker : worker[i] # "ended"}

AllIds == 1 .. MaxStarts * Max(Sizes)

Panics(why) == panic' = why /\ UNCHANGED <<pool, worker, stopping, leftover>>

-----------------------------------------------------------------------------
(* Start and SubmitJob; each holds wp.mu and returns an error at once when  *)
(* `active' is not what it needs, which changes nothing.                    *)
Start ==
    /\ ~stopping /\ ~active /\ starts < MaxStarts
    /\ worker' = [i \in 1 .. size * (starts + 1) |->
                     IF i \in DOMAIN worker THEN worker[i] ELSE "select"]
    /\ active' = TRUE /\ starts' = starts + 1
    /\ UNCHANGED <<size, rootDone, quitClosed, jobsClosed, queue, accepted, forced,
                   stopping, leftover, panic>>

\* The context ends; main never lets it, another caller may.
RootEnds ==
    /\ ~rootDone /\ rootDone' = TRUE
    /\ UNCHANGED <<size, active, quitClosed, jobsClosed, queue, accepted, starts, forced,
                   worker, stopping, leftover, panic>>

\* A Start behind a Stop that gave up adds to a WaitGroup somebody waits for.
LeftoverReturns ==
    /\ leftover = "woken"
    /\ \/ leftover' = "none" /\ UNCHANGED <<pool, worker, stopping, panic>>
       \/ Alive # {} /\ Panics("waitgroup_reused")

HasRoom == queue < 2 * size  \* without workers no capacity, and no receiver

CanSubmit_AnyTime == ~stopping
CanSubmit == ~stopping /\ active

Accept ==
    /\ CanSubmit /\ ~jobsClosed /\ HasRoom /\ accepted < MaxJobs
    /\ queue' = queue + 1 /\ accepted' = accepted + 1
    /\ UNCHANGED <<size, active, rootDone, quitClosed, jobsClosed, starts, forced,
                   worker, stopping, leftover, panic>>

\* The select may pick the send on the closed channel over the done context.
SendOnClosed == CanSubmit /\ jobsClosed /\ Panics("send_on_closed")

-----------------------------------------------------------------------------
(* Stop. *)
StopAllowed_Always == TRUE
StopAllowed == active

StopBegins ==
    /\ ~stopping /\ StopAllowed
    /\ IF quitClosed THEN Panics("close_of_closed")
       ELSE /\ quitClosed' = TRUE /\ stopping' = TRUE
            /\ UNCHANGED <<size, active, rootDone, jobsClosed, queue, accepted, starts, forced,
                           worker, leftover, panic>>

\* The workers are done, or the timer or the caller's ctx ends the wait.
StopEnds_StillLocked ==
    /\ stopping
    /\ jobsClosed' = TRUE /\ active' = FALSE /\ forced' = (Alive # {})
    /\ UNCHANGED <<size, rootDone, quitClosed, queue, accepted, starts, worker,
                   stopping, leftover, panic>>
StopEnds ==
    /\ stopping /\ stopping' = FALSE
    /\ jobsClosed' = TRUE /\ active' = FALSE
    /\ \/ Alive = {} /\ UNCHANGED <<forced, leftover>>
       \/ forced' = TRUE /\ leftover' = IF Alive = {} THEN "woken" ELSE "waits"
    /\ UNCHANGED <<size, rootDone, quitClosed, queue, accepted, starts, worker, panic>>

-----------------------------------------------------------------------------
(* A worker: run's select, and the job it has received. *)
Move(i, from, to) == worker[i] = from /\ worker' = [worker EXCEPT ![i] = to]

Receive(i) ==
    /\ queue > 0 /\ Move(i, "select", "working") /\ queue' = queue - 1
    /\ UNCHANGED <<size, active, rootDone, quitClosed, jobsClosed, accepted, starts,
                   forced, stopping, leftover, panic>>

\* A settlement comes after the read lock of UpdatePrometheusMetrics; without
\* a context Acquire may fail, and the job is dropped.
JobEnds(i) ==
    /\ ~stopping \/ rootDone
    /\ Move(i, "working", "select")
    /\ UNCHANGED <<pool, stopping, leftover, panic>>

\* The closed, empty channel yields the nil job, which is read with a permit
\* or without one.
ReceiveNil(i) ==
    /\ jobsClosed /\ queue = 0 /\ worker[i] = "select" /\ Panics("nil_job")

Quit(i) ==
    /\ quitClosed \/ rootDone
    /\ Move(i, "select", "ended")
    /\ leftover' = IF leftover = "waits" /\ Alive = {i} THEN "woken" ELSE leftover
    /\ UNCHANGED <<pool, stopping, panic>>

WorkerStep(i) == Receive(i) \/ JobEnds(i) \/ ReceiveNil(i) \/ Quit(i)

Next ==
    \/ /\ panic = "none"
       /\ \/ Start \/ RootEnds \/ Accept \/ SendOnClosed \/ StopBegins \/ StopEnds \/ LeftoverReturns
          \/ \E i \in DOMAIN worker : WorkerStep(i)
    \/ panic # "none" /\ UNCHANGED vars

\* The workers run, jobs end, the timer of Stop fires; callers need not call.
Fairness ==
    /\ WF_vars(panic = "none" /\ StopEnds)
    /\ \A i \in AllIds :
          WF_vars(panic = "none" /\ i \in DOMAIN worker /\ WorkerStep(i))

Spec     == Init /\ [][Next]_vars
FairSpec == Spec /\ Fairness

-----------------------------------------------------------------------------
(* Type invariant. *)
TypeOK ==
    /\ size \in Sizes /\ queue \in 0 .. 2 * size /\ accepted \in 0 .. MaxJobs
    /\ {active, rootDone, quitClosed, jobsClosed, stopping, forced} \subseteq BOOLEAN
    /\ DOMAIN worker = 1 .. size * starts
    /\ \A i \in DOMAIN worker : worker[i] \in {"select", "working", "ended"}
    /\ leftover \in {"none", "waits", "woken"} /\ starts \in 0 .. MaxStarts
    /\ panic \in {"none", "nil_job", "send_on_closed", "close_of_closed", "waitgroup_reused"}

(* Only a Start after a Stop, or a Stop that gave up, can kill the process:  *)
(* repeated Starts and Stops, and Stops and submissions without a Start, are *)
(* refused, in any order and from any goroutine.                             *)
PanicNeedsRestart ==
    panic # "none" => starts > 1 \/ (panic = "nil_job" /\ forced)

(* Types, and what it takes to kill the process. *)
RestartInv == TypeOK /\ PanicNeedsRestart

(* A pool that was stopped never takes another job, though a second Start    *)
(* reports success and IsActive is true again; nor does one without workers. *)
StoppedForGood ==
    [][accepted' > accepted => ~quitClosed /\ size > 0 /\ starts = 1]_vars

(* Whatever is called, no worker outlives the first Stop for ever, those of  *)
(* a later Start included.                                                   *)
WorkersEnd ==
    \A i \in AllIds :
        quitClosed ~> panic # "none" \/ i \notin DOMAIN worker \/ worker[i] = "ended"
=============================================================================
