------------------------------ MODULE Failures ------------------------------
(***************************************************************************)
(* One job from its first attempt to its settlement, with time: the        *)
(* handler of internal/processor/handler.go, processWithRetry's attempts   *)
(* and backoffs, determineFailureType and the handle...Failure functions   *)
(* of worker.go.  Errors are told apart by where they come from, since the *)
(* classification looks at their text; times are in units of 25 ms, of     *)
(* which every duration of the code is a multiple.                         *)
(***************************************************************************)
EXTENDS Integers, Backoff

CONSTANTS
    Types,          \* message types; all but "other" have a handler
    Ids,            \* last character of the ID: "error" for 0 and 5,
                    \* "timeout" for 2 and 7, "plain", "missing" for an empty ID
    RetryCounts,    \* Metadata.RetryCount as decoded
    MaxRetries,     \* values of MAX_RETRIES
    RetryTimeouts,  \* values of RETRY_TIMEOUT
    RetryDelays,    \* values of RETRY_DELAY
    CanCancel       \* whether the pool's parent context may end

ASSUME ConfigAssumption ==
    \A S \in {RetryCounts, MaxRetries, RetryTimeouts, RetryDelays} : S \subseteq Int

VARIABLES
    job,        \* the job, see its fields in Jobs
    stage,      \* where processWithRetry is
    attempt,    \* its loop variable
    elapsed,    \* since this attempt began
    busy,       \* time the worker has spent on the job
    error,      \* the last error: where it comes from, and whether it is wrapped
    cancelled,  \* the parent context is done
    verdict,    \* "none", "ack" or "reject"
    failure,    \* the failure type of a rejected job
    retryCounter  \* retry_attempts_total

vars == <<job, stage, attempt, elapsed, busy, error, cancelled, verdict, failure,
          retryCounter>>

Jobs == [type : Types, id : Ids, retryCount : RetryCounts,
         maxRetries : MaxRetries, delay : RetryDelays, timeout : RetryTimeouts]

\* getProcessingTime, and the pauses of the two simulated timeouts.
ProcessingTime(type) ==
    CASE type = "user.created"      -> 8
      [] type = "user.updated"      -> 6
      [] type = "order.created"     -> 12
      [] type = "payment.processed" -> 20
      [] type = "notification.sent" -> 4
      [] OTHER                    -> 2
SimulatedPause == [t \in {"user.created", "order.created"} |->
                      IF t = "user.created" THEN 2400 ELSE 1800]

NoError == [from |-> "nil", wrapped |-> FALSE]

Init ==
    /\ job \in Jobs /\ stage = "loop" /\ attempt = 0 /\ elapsed = 0 /\ busy = 0
    /\ error = NoError /\ cancelled = FALSE
    /\ verdict = "none" /\ failure = "none" /\ retryCounter = 0

-----------------------------------------------------------------------------
(* The attempt's context: done when its deadline has passed or its parent   *)
(* is done.  At the deadline itself either side of a select may win.        *)
CtxDone(t)  == cancelled \/ t >= job.timeout
CtxAlive(t) == ~cancelled /\ t <= job.timeout

\* The attempt ends with an error at time t, and with it perhaps the loop.
Fail(from, t) ==
    /\ elapsed' = t /\ busy' = busy + t
    /\ error' = [from |-> from, wrapped |-> attempt = job.maxRetries]
    /\ stage' = IF attempt = job.maxRetries THEN "failed" ELSE "backoff"
    /\ UNCHANGED <<job, attempt, cancelled, verdict, failure, retryCounter>>

Succeed ==
    /\ busy' = busy + elapsed /\ stage' = "succeeded"
    /\ UNCHANGED <<job, attempt, elapsed, error, cancelled, verdict, failure, retryCounter>>

GoTo(next, t) ==
    /\ stage' = next /\ elapsed' = t
    /\ UNCHANGED <<job, attempt, busy, error, cancelled, verdict, failure, retryCounter>>

\* for attempt := 0; attempt <= job.MaxRetries; attempt++
TriesLeft_OneFewer == attempt < job.maxRetries
TriesLeft == attempt <= job.maxRetries

(* ProcessMessage: the check at its entry, the wait, the type's handler.    *)
Enter ==
    /\ stage = "loop" /\ TriesLeft
    /\ \/ ~cancelled /\ job.timeout > 0 /\ GoTo("waiting", 0)
       \/ CtxDone(0) /\ Fail("entry", 0)

WaitEnds_IgnoresContext ==
    /\ stage = "waiting" /\ GoTo("dispatched", ProcessingTime(job.type))
WaitEnds ==
    /\ stage = "waiting" /\ CtxAlive(ProcessingTime(job.type))
    /\ GoTo("dispatched", ProcessingTime(job.type))

WaitCut ==
    /\ stage = "waiting"
    /\ \/ cancelled /\ Fail("wait", 0)
       \/ job.timeout <= ProcessingTime(job.type) /\ Fail("wait", job.timeout)

\* shouldSimulateError and shouldSimulateTimeout look at the ID of a message
\* that has not been retried, and index an empty one out of range.
Simulates_Always(class) == job.id = class
Simulates(class) == job.retryCount = 0 /\ job.id = class

Dispatch ==
    /\ stage = "dispatched"
    /\ \/ job.type = "other" /\ Succeed
       \/ job.type # "other" /\ CtxDone(elapsed) /\ Fail("cancelled", elapsed)
       \/ job.type # "other" /\ CtxAlive(elapsed)
          /\ CASE Simulates("missing") -> GoTo("panicked", elapsed)
               [] Simulates("error")   -> Fail("simulated", elapsed)
               [] Simulates("timeout") /\ job.type \in DOMAIN SimulatedPause
                                       -> GoTo("simulating", elapsed)
               [] OTHER                -> Succeed

PauseEnd == elapsed + SimulatedPause[job.type]

PauseEnds ==
    /\ stage = "simulating" /\ CtxAlive(PauseEnd)
    /\ Fail("timeout", PauseEnd)

PauseCut ==
    /\ stage = "simulating"
    /\ \/ cancelled /\ Fail("cancelled", elapsed)
       \/ job.timeout <= PauseEnd /\ Fail("cancelled", job.timeout)

ProcessMessage == Enter \/ WaitEnds \/ WaitCut \/ Dispatch \/ PauseEnds \/ PauseCut

-----------------------------------------------------------------------------
(* processWithRetry between two attempts: the timer of a delay that is not  *)
(* positive fires at once.                                                  *)
Delay(n) == ExponentialBackoff(n, job.delay)
Pause == IF Delay(attempt) > 0 THEN Delay(attempt) ELSE 0

\* The program never updates either retry count.
BackoffElapsed ==
    /\ stage = "backoff"
    /\ busy' = busy + Pause
    /\ attempt' = attempt + 1 /\ elapsed' = 0 /\ stage' = "loop"
    /\ UNCHANGED <<job, error, cancelled, verdict, failure, retryCounter>>

\* ctx.Err() is returned as it is.
BackoffCancelled ==
    /\ stage = "backoff" /\ cancelled
    /\ stage' = "failed" /\ error' = [from |-> "context", wrapped |-> FALSE]
    /\ UNCHANGED <<job, attempt, elapsed, busy, cancelled, verdict, failure, retryCounter>>

\* MAX_RETRIES is negative: no attempt, and an error that wraps nil.
NoAttempt ==
    /\ stage = "loop" /\ ~TriesLeft
    /\ stage' = "failed" /\ error' = [from |-> "nil", wrapped |-> TRUE]
    /\ UNCHANGED <<job, attempt, elapsed, busy, cancelled, verdict, failure, retryCounter>>

CancelParent ==
    /\ CanCancel /\ ~cancelled /\ verdict = "none"
    /\ cancelled' = TRUE
    /\ UNCHANGED <<job, stage, attempt, elapsed, busy, error, verdict, failure, retryCounter>>

-----------------------------------------------------------------------------
(* The settlement. *)
\* Errors whose text contains one of the retryable patterns.
IsRetryable(e) == e.from \in {"wait", "timeout", "simulated"}

FailureType(e) ==
    CASE e.from = "context" /\ ~e.wrapped -> "context_cancelled"
      [] e.from = "timeout" /\ ~e.wrapped -> "timeout"
      [] OTHER ->
         IF job.retryCount >= job.maxRetries THEN "max_retries_exceeded"
         ELSE IF IsRetryable(e) THEN "retryable" ELSE "non_retryable"

Acknowledge ==
    /\ stage = "succeeded" /\ stage' = "settled" /\ verdict' = "ack"
    /\ UNCHANGED <<job, attempt, elapsed, busy, error, cancelled, failure, retryCounter>>

\* handleFailure: every type of failure ends in a reject without requeue; only
\* a retryable one is counted.
HandleFailure ==
    /\ stage = "failed" /\ stage' = "settled" /\ verdict' = "reject"
    /\ failure' = FailureType(error)
    /\ retryCounter' = retryCounter + (IF failure' = "retryable" THEN 1 ELSE 0)
    /\ UNCHANGED <<job, attempt, elapsed, busy, error, cancelled>>

Finished == stage \in {"settled", "panicked"} /\ UNCHANGED vars

Next ==
    \/ ProcessMessage
    \/ BackoffElapsed \/ BackoffCancelled \/ NoAttempt \/ CancelParent
    \/ Acknowledge \/ HandleFailure
    \/ Finished

Spec == Init /\ [][Next]_vars

-----------------------------------------------------------------------------
(* Type invariant. *)
TypeOK ==
    /\ job \in Jobs /\ attempt \in Nat /\ elapsed \in Nat /\ busy \in Nat
    /\ stage \in {"loop", "waiting", "dispatched", "simulating", "backoff",
                  "succeeded", "failed", "settled", "panicked"}
    /\ error.from \in {"nil", "entry", "wait", "cancelled", "simulated", "timeout", "context"}
    /\ error.wrapped \in BOOLEAN /\ cancelled \in BOOLEAN
    /\ verdict \in {"none", "ack", "reject"} /\ retryCounter \in 0 .. 1
    /\ failure \in {"none", "retryable", "non_retryable", "max_retries_exceeded",
                    "timeout", "context_cancelled"}

Retries  == IF job.maxRetries < 0 THEN 0 ELSE job.maxRetries
Deadline == IF job.timeout < 0 THEN 0 ELSE job.timeout

(* A job occupies its worker for a bounded time: each attempt ends by its    *)
(* own deadline whatever the handler is doing, and no backoff is longer than *)
(* the cap.                                                                  *)
JobTimeIsBounded ==
    /\ elapsed <= Deadline
    /\ busy <= (Retries + 1) * Deadline + Retries * MaxDelay

(* What is simulated for a message is simulated again on every attempt, as   *)
(* the retry counts stay as decoded: the only retry that can succeed is one  *)
(* after an attempt that raced with its deadline.                            *)
RetrySucceedsOnlyAfterRace ==
    verdict = "ack" /\ attempt > 0 => ProcessingTime(job.type) = job.timeout

\* The handler simulates an error or a timeout.
Simulated ==
    /\ job.type # "other"
    /\ Simulates("error") \/ (Simulates("timeout") /\ job.type \in DOMAIN SimulatedPause)

(* A job is rejected for what it is and never for how the retries, the        *)
(* deadline and the backoffs happen to fall: unless the pool's context ended, *)
(* a rejected job was tried MaxRetries + 1 times, once for MAX_RETRIES = 0,   *)
(* and could not be done in time.  Only a negative MAX_RETRIES rejects a job  *)
(* that was never tried.  And a failure said to be a cancellation was one,    *)
(* which cost the job an attempt.                                             *)
RejectionIsEarned ==
    /\ verdict = "reject" /\ ~cancelled =>
          \/ job.maxRetries < 0
          \/ /\ attempt = job.maxRetries
             /\ Simulated \/ job.timeout <= ProcessingTime(job.type)
    /\ failure = "context_cancelled" => cancelled /\ attempt < job.maxRetries

(* Only a message without an ID that was never retried, of a type with a     *)
(* handler, makes the handler panic; the deadline may spare it.              *)
PanicNeedsMissingId ==
    stage = "panicked" => /\ job.id = "missing" /\ job.retryCount = 0
                          /\ job.type # "other" /\ elapsed <= job.timeout

(* Types, and what a retry and a panic take. *)
JobInv == TypeOK /\ RetrySucceedsOnlyAfterRace /\ PanicNeedsMissingId

-----------------------------------------------------------------------------
Smaller(a, b) == IF a <= b THEN a ELSE b

\* The jittered product still fits its integer.
Fits ==
    job.delay >= 0 /\ attempt < Width /\ (2^attempt * job.delay) * 11 < 2^(Width - 1) * 10

(* As long as nothing overflows the delay is the one exponential backoff     *)
(* names: the base delay * 2^attempt, plus at least a twentieth and at most  *)
(* a tenth of it, cut at the maximum.  And a worker stops pausing between    *)
(* attempts only after a pause of the maximal length: an overflow never hits *)
(* a backoff that still grows.                                               *)
BackoffGrowsToTheCap ==
    stage = "backoff" =>
        /\ Fits =>
              LET exact == 2^attempt * job.delay
              IN  /\ Smaller(MaxDelay, exact + (exact \div 20)) <= Delay(attempt)
                  /\ Delay(attempt) <= Smaller(MaxDelay, exact + (exact \div 10))
        /\ attempt > 0 /\ Delay(attempt) <= 0 /\ Delay(attempt - 1) > 0
              => Delay(attempt - 1) = MaxDelay
=============================================================================
