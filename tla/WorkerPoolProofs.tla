-------------------------- MODULE WorkerPoolProofs --------------------------
(***************************************************************************)
(* Theorems about WorkerPool, for any finite set of workers, any set of    *)
(* jobs and any MaxRetries.                                                *)
(***************************************************************************)
EXTENDS WorkerPool, FiniteSetTheorems, SequenceTheorems, TLAPS

-----------------------------------------------------------------------------
(* The job channel as a sequence without repetitions. *)

(* Appending an element adds it to the range, and keeps a sequence free of  *)
(* repetitions when the element is new.                                     *)
LEMMA AppendRange ==
    ASSUME NEW S, NEW s \in Seq(S), NEW e \in S
    PROVE  /\ Append(s, e) \in Seq(S) /\ Len(Append(s, e)) = Len(s) + 1
           /\ Range(Append(s, e)) = Range(s) \cup {e}
           /\ IsInjective(s) /\ e \notin Range(s) => IsInjective(Append(s, e))
<1> DEFINE t == Append(s, e)
<1>1. /\ t \in Seq(S) /\ Len(t) = Len(s) + 1 /\ t[Len(s) + 1] = e
      /\ \A i \in 1 .. Len(s) : t[i] = s[i]
  BY AppendProperties
<1>2. /\ Len(s) \in Nat /\ DOMAIN s = 1 .. Len(s)
      /\ DOMAIN t = 1 .. (Len(s) + 1)
  BY <1>1, LenProperties
<1> HIDE DEF t
<1>3. Range(t) = Range(s) \cup {e}
  BY <1>1, <1>2 DEF Range
<1>4. ASSUME IsInjective(s), e \notin Range(s)
      PROVE  IsInjective(t)
  BY <1>1, <1>2, <1>4 DEF Range, IsInjective
<1> QED BY <1>1, <1>3, <1>4 DEF t

(* Taking the head off a sequence without repetitions takes exactly that    *)
(* element out of its range.                                                *)
LEMMA TailRange ==
    ASSUME NEW S, NEW s \in Seq(S), s # <<>>, IsInjective(s)
    PROVE  /\ Head(s) \in S /\ Head(s) \in Range(s)
           /\ Tail(s) \in Seq(S) /\ Len(Tail(s)) = Len(s) - 1
           /\ Range(Tail(s)) = Range(s) \ {Head(s)}
           /\ IsInjective(Tail(s))
<1> DEFINE t == Tail(s)
<1>1. /\ Head(s) \in S /\ t \in Seq(S) /\ Len(t) = Len(s) - 1
      /\ \A i \in 1 .. Len(t) : t[i] = s[i + 1]
  BY HeadTailProperties
<1>2. Len(s) \in Nat \ {0} /\ DOMAIN s = 1 .. Len(s) /\ DOMAIN t = 1 .. Len(t)
  BY <1>1, LenProperties, EmptySeq
<1>3. Head(s) = s[1]
  OBVIOUS
<1> HIDE DEF t
<1>4. Head(s) \in Range(s)
  BY <1>2, <1>3 DEF Range
<1>5. IsInjective(t)
  BY <1>1, <1>2 DEF IsInjective
<1>6. Range(t) = Range(s) \ {Head(s)}
  <2>1. ASSUME NEW i \in DOMAIN t PROVE t[i] \in Range(s) \ {Head(s)}
    BY <1>1, <1>2, <1>3 DEF Range, IsInjective
  <2>2. ASSUME NEW k \in DOMAIN s, s[k] # Head(s) PROVE s[k] \in Range(t)
    <3>1. k - 1 \in DOMAIN t /\ t[k - 1] = s[k]
      BY <1>1, <1>2, <1>3, <2>2
    <3> QED BY <3>1 DEF Range
  <2> QED BY <2>1, <2>2 DEF Range
<1> QED BY <1>1, <1>4, <1>5, <1>6 DEF t

-----------------------------------------------------------------------------
(* The inductive invariant: what ties the parts of the state together.      *)

\* stopPc, the program counter of Stop, determines the flags it sets.
LifecycleInv ==
    /\ locked <=> (stopPc \in {"cancelled", "waiting", "closing", "closed"})
    /\ cancelled <=> (stopPc # "idle")
    /\ jobsClosed <=> (stopPc \in {"closed", "returned"})
    /\ (outcome = "none") <=> (stopPc \in {"idle", "cancelled", "waiting"})
    /\ active => stopPc # "returned"
    /\ ~active /\ stopPc = "idle" => \A w \in Workers : pc[w] = "none"
    /\ outcome = "drained" => \A w \in Workers : pc[w] = "exited"

Untried(j) == okCalls[j] = 0 /\ errCalls[j] = 0 /\ settled[j] = <<>>

GaveUp(j)   == okCalls[j] = 0 /\ (parentDone \/ errCalls[j] = AllAttempts)

\* What a worker's location says of the job in its hands.
WorkerInv(w) ==
    LET j == job[w] IN
    /\ (j = None) <=> (pc[w] \in {"none", "select", "exited"})
    /\ (w \in permits) <=> (pc[w] \in Holding)
    /\ j # None => status[j] = "sent"
    /\ pc[w] = "acquire" => Untried(j)
    /\ pc[w] = "handle"  => /\ okCalls[j] = 0 /\ errCalls[j] = attempt[w]
                            /\ attempt[w] <= MaxRetries /\ settled[j] = <<>>
    /\ pc[w] = "backoff" => /\ okCalls[j] = 0 /\ errCalls[j] = attempt[w] + 1
                            /\ attempt[w] < MaxRetries /\ failed[w]
                            /\ settled[j] = <<>>
    /\ pc[w] \in {"refresh", "settle"} =>
            /\ settled[j] = <<>>
            /\ IF failed[w] THEN GaveUp(j) ELSE okCalls[j] = 1
    /\ pc[w] = "release" => settled[j] # <<>>

\* Why a delivery was settled the way it was.
VerdictInv(j) ==
    /\ settled[j] \in {<<>>, <<"ack">>, <<"reject">>}
    /\ settled[j] = <<"ack">> => okCalls[j] = 1
    /\ settled[j] = <<"reject">> => GaveUp(j)

\* What a job's place says of its history.
JobInv(j) ==
    /\ status[j] # "sent" => j \notin Queued /\ Untried(j)
    /\ j \in Queued => Untried(j)
    /\ VerdictInv(j)
    /\ status[j] = "sent" /\ settled[j] = <<>> /\ j \notin Queued \cup Held
            => parentDone /\ Untried(j)

CrashOnlyAfterForcedStop == crashed => outcome = "forced"

IndInv ==
    /\ TypeOK /\ LifecycleInv /\ ExclusiveOwnership
    /\ \A w \in Workers : WorkerInv(w)
    /\ \A j \in Jobs : JobInv(j)
    /\ CrashOnlyAfterForcedStop

-----------------------------------------------------------------------------
(* Incrementing one entry leaves a table of counters a table of counters.   *)
LEMMA CountUp ==
    ASSUME NEW S, NEW f \in [S -> Nat], NEW x
    PROVE  [f EXCEPT ![x] = @ + 1] \in [S -> Nat]
<1>1. ASSUME NEW y \in S PROVE f[y] \in Nat /\ f[y] + 1 \in Nat
  OBVIOUS
<1> QED BY <1>1

(* The capacities of the channel and of the semaphore are natural numbers.  *)
LEMMA Capacities == Capacity \in Nat /\ MaxPermits \in Nat
BY WorkersAssumption, FS_CardinalityType DEF Capacity, MaxPermits

-----------------------------------------------------------------------------
(* Every step keeps every variable in its range. *)
LEMMA TypeStep == TypeOK /\ [Next]_vars => TypeOK'
<1> SUFFICES ASSUME TypeOK, [Next]_vars PROVE TypeOK'
  OBVIOUS
<1> USE DEF TypeOK, lifecycle, contexts, queueVars, workerVars, history, poolVars
<1>1. CASE Start
  BY <1>1 DEF Start, Locations
<1>2. CASE \E j \in Jobs : SubmitAccepted(j)
  <2>1. PICK j \in Jobs : SubmitAccepted(j)
    BY <1>2
  <2>2. jobChan' \in Seq(Jobs) /\ Len(jobChan') <= Capacity
    BY <2>1, AppendRange, Capacities, LenProperties DEF SubmitAccepted, HasRoom
  <2> QED BY <2>1, <2>2 DEF SubmitAccepted
<1>3. CASE \E j \in Jobs : SubmitRefused(j)
  BY <1>3 DEF SubmitRefused
<1>4. CASE CancelSubmit \/ CancelParent
  BY <1>4 DEF CancelSubmit, CancelParent
<1>5. CASE StopBegin \/ StopStep
  BY <1>5 DEF StopBegin, StopStep, StopCloseQuit, StopDrained, StopTimeout,
              StopContext, StopWaitEnds, StopCloseJobs, StopReturn
<1>6. CASE \E w \in Workers : WorkerStep(w)
  <2>1. PICK w \in Workers : WorkerStep(w)
    BY <1>6
  <2>2. CASE Receive(w)
    <3>1. /\ Head(jobChan) \in Jobs /\ Tail(jobChan) \in Seq(Jobs)
          /\ Len(Tail(jobChan)) = Len(jobChan) - 1
      BY <2>2, HeadTailProperties DEF Receive
    <3>2. Len(jobChan') <= Capacity
      BY <2>2, <3>1, Capacities, LenProperties DEF Receive
    <3> QED BY <2>2, <3>1, <3>2 DEF Receive, Locations
  <2>3. CASE ReceiveNil(w) \/ Quit(w)
    BY <2>3 DEF ReceiveNil, Quit, Locations
  <2>4. CASE Acquire(w)
    <3>0. (MaxRetries < 0) \in BOOLEAN
      OBVIOUS
    <3>1. failed' \in [Workers -> BOOLEAN]
      BY <2>4, <3>0, Zenon DEF Acquire
    <3>2. attempt' \in [Workers -> Nat] /\ pc' \in [Workers -> Locations]
      BY <2>4 DEF Acquire, Locations
    <3> QED BY <2>4, <3>1, <3>2 DEF Acquire
  <2>5. CASE HandlerSucceeds(w) \/ HandlerFails(w)
    <3>1. failed' \in [Workers -> BOOLEAN]
      BY <2>5, Zenon DEF HandlerSucceeds, HandlerFails
    <3>2. pc' \in [Workers -> Locations]
      BY <2>5 DEF HandlerSucceeds, HandlerFails, Locations
    <3>3. CASE HandlerSucceeds(w)
      <4>1. okCalls' \in [Jobs -> Nat]
        BY <3>3, CountUp DEF HandlerSucceeds
      <4> QED BY <3>1, <3>2, <3>3, <4>1 DEF HandlerSucceeds
    <3>4. CASE HandlerFails(w)
      <4>1. errCalls' \in [Jobs -> Nat]
        BY <3>4, CountUp DEF HandlerFails
      <4> QED BY <3>1, <3>2, <3>4, <4>1 DEF HandlerFails
    <3> QED BY <2>5, <3>3, <3>4
  <2>6. CASE BackoffElapsed(w)
    BY <2>6 DEF BackoffElapsed, Locations
  <2>7. CASE AcquireCancelled(w) \/ BackoffCancelled(w) \/ Refresh(w)
    BY <2>7 DEF AcquireCancelled, BackoffCancelled, Refresh, Locations
  <2>8. CASE Settle(w)
    <3>1. ASSUME NEW q \in Seq({"ack", "reject"})
          PROVE  Append(q, Verdict(w)) \in Seq({"ack", "reject"})
      BY <3>1, AppendProperties DEF Verdict
    <3> QED BY <2>8, <3>1 DEF Settle, Locations
  <2>9. CASE Release(w)
    BY <2>9 DEF Release, Locations
  <2> QED BY <2>1, <2>2, <2>3, <2>4, <2>5, <2>6, <2>7, <2>8, <2>9 DEF WorkerStep
<1>7. CASE Done \/ UNCHANGED vars
  BY <1>7 DEF Done, vars
<1> QED BY <1>1, <1>2, <1>3, <1>4, <1>5, <1>6, <1>7 DEF Next, Environment

LEMMA InitType == Init => TypeOK
<1> SUFFICES ASSUME Init PROVE TypeOK
  OBVIOUS
<1>1. failed \in [Workers -> BOOLEAN]
  BY Zenon DEF Init
<1>2. jobChan \in Seq(Jobs) /\ Len(jobChan) <= Capacity
  BY Capacities, EmptySeq DEF Init
<1>3. settled \in [Jobs -> Seq({"ack", "reject"})]
  BY EmptySeq DEF Init
<1> QED BY <1>1, <1>2, <1>3 DEF Init, TypeOK, Locations

(* Every variable of the pool stays in its range, whatever the goroutines,  *)
(* the caller of SubmitJob and the caller of Stop do.                       *)
THEOREM TypeCorrect == Spec => []TypeOK
BY InitType, TypeStep, PTL DEF Spec

-----------------------------------------------------------------------------
(* A step of Stop or of a context disturbs no job and no worker.            *)
LEMMA LifecycleFrame ==
    ASSUME IndInv, UNCHANGED <<queueVars, workerVars, history>>,
           parentDone => parentDone'
    PROVE  /\ ExclusiveOwnership'
           /\ \A w \in Workers : WorkerInv(w)'
           /\ \A j \in Jobs : JobInv(j)'
<1> USE DEF queueVars, workerVars, history
<1>1. Queued' = Queued /\ Held' = Held
  BY DEF Queued, Held
<1>2. ExclusiveOwnership'
  BY <1>1 DEF IndInv, ExclusiveOwnership
<1>3. ASSUME NEW w \in Workers PROVE WorkerInv(w)'
  <2>1. WorkerInv(w)
    BY DEF IndInv
  <2> QED BY <2>1 DEF WorkerInv, Untried, GaveUp, Holding
<1>4. ASSUME NEW j \in Jobs PROVE JobInv(j)'
  <2>1. JobInv(j)
    BY DEF IndInv
  <2> QED BY <1>1, <2>1 DEF JobInv, VerdictInv, Untried, GaveUp
<1> QED BY <1>2, <1>3, <1>4

(* A worker that has a job, or waits for one, shows that Start has run and  *)
(* that Stop's wait did not end with all workers gone.                      *)
LEMMA WorkerKeepsLifecycle ==
    ASSUME IndInv, NEW w \in Workers, pc[w] \notin {"none", "exited"},
           UNCHANGED lifecycle
    PROVE  LifecycleInv'
BY DEF IndInv, LifecycleInv, lifecycle

(* A worker's step on the job in its hands leaves the other workers and the *)
(* other jobs as they were: what remains to show of it is local.            *)
LEMMA KeepsJob ==
    ASSUME IndInv, TypeOK', NEW w \in Workers, job[w] # None,
           UNCHANGED <<poolVars, job>>,
           \A v \in Workers \ {w} :
                /\ pc'[v] = pc[v] /\ attempt'[v] = attempt[v]
                /\ failed'[v] = failed[v]
                /\ (v \in permits') <=> (v \in permits),
           \A j \in Jobs \ {job[w]} :
                /\ okCalls'[j] = okCalls[j] /\ errCalls'[j] = errCalls[j]
                /\ settled'[j] = settled[j],
           WorkerInv(w)', VerdictInv(job[w])'
    PROVE  IndInv'
<1> USE DEF poolVars, lifecycle, contexts, queueVars
<1>1. Queued' = Queued /\ Held' = Held
  BY DEF Queued, Held
<1>2. ExclusiveOwnership' /\ CrashOnlyAfterForcedStop'
  BY <1>1 DEF IndInv, ExclusiveOwnership, CrashOnlyAfterForcedStop
<1>3. WorkerInv(w) /\ job[w] \in Held /\ job[w] \in Jobs
  BY DEF IndInv, TypeOK, Held
<1>4. LifecycleInv'
  <2>1. pc[w] \notin {"none", "exited"}
    BY <1>3 DEF WorkerInv
  <2> QED BY <2>1, WorkerKeepsLifecycle
<1>5. ASSUME NEW v \in Workers PROVE WorkerInv(v)'
  <2>1. CASE v = w
    BY <2>1
  <2>2. CASE v # w
    <3>1. WorkerInv(v) /\ (job[v] # None => job[v] \in Jobs \ {job[w]})
      BY <2>2 DEF IndInv, TypeOK, ExclusiveOwnership
    <3> QED BY <2>2, <3>1 DEF WorkerInv, Untried, GaveUp, Holding
  <2> QED BY <2>1, <2>2
<1>6. ASSUME NEW j \in Jobs PROVE JobInv(j)'
  <2>1. JobInv(j)
    BY DEF IndInv
  <2>2. CASE j = job[w]
    BY <1>1, <1>3, <2>1, <2>2 DEF JobInv, WorkerInv, IndInv, ExclusiveOwnership
  <2>3. CASE j # job[w]
    BY <1>1, <2>1, <2>3 DEF JobInv, VerdictInv, Untried, GaveUp
  <2> QED BY <2>2, <2>3
<1> QED BY <1>2, <1>4, <1>5, <1>6 DEF IndInv

-----------------------------------------------------------------------------
(* The invariant is inductive: one lemma per group of actions. *)
LEMMA InitInv == Init => IndInv
<1> SUFFICES ASSUME Init PROVE IndInv
  OBVIOUS
<1>1. TypeOK
  BY InitType
<1>2. Queued = {} /\ Held = {}
  BY DEF Init, Queued, Held, Range
<1>3. LifecycleInv /\ CrashOnlyAfterForcedStop
  BY DEF Init, LifecycleInv, CrashOnlyAfterForcedStop
<1>4. ExclusiveOwnership
  BY <1>2 DEF Init, ExclusiveOwnership, IsInjective
<1>5. \A w \in Workers : WorkerInv(w)
  BY DEF Init, WorkerInv, Holding
<1>6. \A j \in Jobs : JobInv(j)
  BY <1>2 DEF Init, JobInv, VerdictInv, Untried
<1> QED BY <1>1, <1>3, <1>4, <1>5, <1>6 DEF IndInv

LEMMA StartInv == IndInv /\ TypeOK' /\ Start => IndInv'
<1> SUFFICES ASSUME IndInv, TypeOK', Start PROVE IndInv'
  OBVIOUS
<1> USE DEF Start, contexts, queueVars, history
<1>1. Queued' = Queued /\ Held' = Held
  BY DEF Queued, Held
<1>2. LifecycleInv' /\ CrashOnlyAfterForcedStop'
  BY DEF IndInv, LifecycleInv, CrashOnlyAfterForcedStop
<1>3. ExclusiveOwnership'
  BY <1>1 DEF IndInv, ExclusiveOwnership
<1>4. ASSUME NEW w \in Workers PROVE WorkerInv(w)'
  <2>1. WorkerInv(w) /\ pc[w] = "none" /\ pc'[w] = "select"
    BY DEF IndInv, LifecycleInv
  <2> QED BY <2>1 DEF WorkerInv, Holding
<1>5. ASSUME NEW j \in Jobs PROVE JobInv(j)'
  <2>1. JobInv(j)
    BY DEF IndInv
  <2> QED BY <1>1, <2>1 DEF JobInv, VerdictInv, Untried, GaveUp
<1> QED BY <1>2, <1>3, <1>4, <1>5 DEF IndInv

LEMMA SubmitAcceptedInv ==
    ASSUME IndInv, TypeOK', NEW j \in Jobs, SubmitAccepted(j)
    PROVE  IndInv'
<1> USE DEF SubmitAccepted, lifecycle, contexts, workerVars, history
<1>1. JobInv(j) /\ status[j] = "new" /\ j \notin Queued
  BY DEF IndInv, JobInv
<1>2. Queued' = Queued \cup {j} /\ IsInjective(jobChan')
  BY <1>1, AppendRange DEF IndInv, TypeOK, ExclusiveOwnership, Queued
<1>3. Held' = Held /\ j \notin Held
  BY <1>1 DEF Held, IndInv, WorkerInv
<1>4. LifecycleInv' /\ CrashOnlyAfterForcedStop'
  BY DEF IndInv, LifecycleInv, CrashOnlyAfterForcedStop
<1>5. ExclusiveOwnership'
  BY <1>2, <1>3 DEF IndInv, ExclusiveOwnership
<1>6. ASSUME NEW w \in Workers PROVE WorkerInv(w)'
  <2>1. WorkerInv(w) /\ status \in [Jobs -> {"new", "sent", "refused"}]
        /\ job[w] \in Jobs \cup {None}
    BY DEF IndInv, TypeOK
  <2> QED BY <2>1 DEF WorkerInv, Untried, GaveUp, Holding
<1>7. ASSUME NEW k \in Jobs PROVE JobInv(k)'
  <2>1. JobInv(k) /\ status \in [Jobs -> {"new", "sent", "refused"}]
    BY DEF IndInv, TypeOK
  <2> QED BY <1>1, <1>2, <1>3, <2>1 DEF JobInv, VerdictInv, Untried, GaveUp
<1> QED BY <1>4, <1>5, <1>6, <1>7 DEF IndInv

LEMMA SubmitRefusedInv ==
    ASSUME IndInv, TypeOK', NEW j \in Jobs, SubmitRefused(j)
    PROVE  IndInv'
<1> USE DEF SubmitRefused, lifecycle, contexts, workerVars, history
<1>1. Queued' = Queued /\ Held' = Held
  BY DEF Queued, Held
<1>2. LifecycleInv' /\ CrashOnlyAfterForcedStop'
  BY DEF IndInv, LifecycleInv, CrashOnlyAfterForcedStop
<1>3. ExclusiveOwnership'
  BY <1>1 DEF IndInv, ExclusiveOwnership
<1>4. ASSUME NEW w \in Workers PROVE WorkerInv(w)'
  <2>1. WorkerInv(w) /\ job[w] # j
    BY NoneAssumption DEF IndInv, WorkerInv
  <2>2. status \in [Jobs -> {"new", "sent", "refused"}]
        /\ job[w] \in Jobs \cup {None}
    BY DEF IndInv, TypeOK
  <2> QED BY <2>1, <2>2 DEF WorkerInv, Untried, GaveUp, Holding
<1>5. ASSUME NEW k \in Jobs PROVE JobInv(k)'
  <2>1. JobInv(k) /\ status \in [Jobs -> {"new", "sent", "refused"}]
    BY DEF IndInv, TypeOK
  <2> QED BY <1>1, <2>1 DEF JobInv, VerdictInv, Untried, GaveUp
<1> QED BY <1>2, <1>3, <1>4, <1>5 DEF IndInv

LEMMA StopInv ==
    IndInv /\ TypeOK' /\ (StopBegin \/ StopStep \/ CancelSubmit \/ CancelParent)
        => IndInv'
<1> SUFFICES ASSUME IndInv, TypeOK',
                    StopBegin \/ StopStep \/ CancelSubmit \/ CancelParent
             PROVE  IndInv'
  OBVIOUS
<1> USE DEF StopBegin, StopStep, StopCloseQuit, StopDrained, StopTimeout, StopContext,
            StopWaitEnds, StopCloseJobs, StopReturn, CancelSubmit, CancelParent,
            lifecycle, contexts
<1>1. UNCHANGED <<queueVars, workerVars, history>> /\ (parentDone => parentDone')
  OBVIOUS
<1>2. LifecycleInv'
  BY <1>1 DEF IndInv, LifecycleInv, workerVars
<1>3. CrashOnlyAfterForcedStop'
  BY DEF IndInv, LifecycleInv, CrashOnlyAfterForcedStop
<1>4. /\ ExclusiveOwnership'
      /\ \A w \in Workers : WorkerInv(w)'
      /\ \A j \in Jobs : JobInv(j)'
  BY <1>1, LifecycleFrame
<1> QED BY <1>2, <1>3, <1>4 DEF IndInv

(* Receiving moves a job from the channel into one worker's hands. *)
LEMMA ReceiveInv ==
    ASSUME IndInv, TypeOK', NEW w \in Workers, Receive(w)
    PROVE  IndInv'
<1> DEFINE h == Head(jobChan)
<1> USE DEF Receive, lifecycle, contexts, history
<1>1. /\ h \in Jobs /\ h \in Queued /\ Queued' = Queued \ {h}
      /\ IsInjective(jobChan')
  BY TailRange DEF IndInv, TypeOK, ExclusiveOwnership, Queued
<1>2. job[w] = None /\ h \notin Held
  BY <1>1 DEF IndInv, WorkerInv, ExclusiveOwnership
<1>3. /\ job'[w] = h /\ pc'[w] = "acquire"
      /\ \A v \in Workers \ {w} : job'[v] = job[v] /\ pc'[v] = pc[v]
  BY DEF IndInv, TypeOK
<1> HIDE DEF h
<1>4. Held' = Held \cup {h}
  BY <1>1, <1>2, <1>3, NoneAssumption DEF Held
<1>5. LifecycleInv' /\ CrashOnlyAfterForcedStop'
  BY WorkerKeepsLifecycle DEF IndInv, CrashOnlyAfterForcedStop
<1>6. ExclusiveOwnership'
  <2>1. \A u, v \in Workers : job'[u] = job'[v] /\ job'[u] # None => u = v
    BY <1>2, <1>3, NoneAssumption DEF IndInv, ExclusiveOwnership, Held
  <2>2. Queued' \cap Held' = {}
    BY <1>1, <1>4 DEF IndInv, ExclusiveOwnership
  <2> QED BY <1>1, <2>1, <2>2 DEF ExclusiveOwnership
<1>7. ASSUME NEW v \in Workers PROVE WorkerInv(v)'
  <2>1. WorkerInv(v) /\ WorkerInv(w) /\ JobInv(h)
    BY <1>1 DEF IndInv
  <2>2. CASE v = w
    BY <1>1, <1>2, <1>3, <2>1, <2>2, NoneAssumption
       DEF WorkerInv, JobInv, Untried, Holding
  <2>3. CASE v # w
    BY <1>3, <2>1, <2>3 DEF WorkerInv, Untried, GaveUp, Holding
  <2> QED BY <2>2, <2>3
<1>8. ASSUME NEW j \in Jobs PROVE JobInv(j)'
  <2>1. JobInv(j)
    BY DEF IndInv
  <2> QED BY <1>1, <1>4, <2>1 DEF JobInv, VerdictInv, Untried, GaveUp
<1> QED BY <1>5, <1>6, <1>7, <1>8 DEF IndInv

(* A worker without a job meets a nil job, or leaves. *)
LEMMA IdleWorkerInv ==
    ASSUME IndInv, TypeOK', NEW w \in Workers, ReceiveNil(w) \/ Quit(w)
    PROVE  IndInv'
<1>1. CASE ReceiveNil(w)
  <2> USE <1>1 DEF ReceiveNil, lifecycle, contexts
  <2>1. LifecycleInv'
    BY WorkerKeepsLifecycle
  <2>2. CrashOnlyAfterForcedStop'
    BY DEF IndInv, TypeOK, LifecycleInv, CrashOnlyAfterForcedStop
  <2> QED BY <2>1, <2>2, LifecycleFrame DEF IndInv
<1>2. CASE Quit(w)
  <2> USE <1>2 DEF Quit, poolVars, lifecycle, contexts, queueVars, history
  <2>1. Queued' = Queued /\ Held' = Held
    BY DEF Queued, Held
  <2>2. pc'[w] = "exited" /\ \A v \in Workers \ {w} : pc'[v] = pc[v]
    BY DEF IndInv, TypeOK
  <2>3. LifecycleInv' /\ CrashOnlyAfterForcedStop'
    BY WorkerKeepsLifecycle DEF IndInv, CrashOnlyAfterForcedStop
  <2>4. ExclusiveOwnership'
    BY <2>1 DEF IndInv, ExclusiveOwnership
  <2>5. ASSUME NEW v \in Workers PROVE WorkerInv(v)'
    <3>1. WorkerInv(v)
      BY DEF IndInv
    <3> QED BY <2>2, <3>1 DEF WorkerInv, Untried, GaveUp, Holding
  <2>6. ASSUME NEW j \in Jobs PROVE JobInv(j)'
    <3>1. JobInv(j)
      BY DEF IndInv
    <3> QED BY <2>1, <3>1 DEF JobInv, VerdictInv, Untried, GaveUp
  <2> QED BY <2>3, <2>4, <2>5, <2>6 DEF IndInv
<1> QED BY <1>1, <1>2

(* A worker lets go of its job: the job is settled, or was never tried and  *)
(* its context is cancelled.                                                *)
LEMMA LetGoInv ==
    ASSUME IndInv, TypeOK', NEW w \in Workers, Release(w) \/ AcquireCancelled(w)
    PROVE  IndInv'
<1> DEFINE j0 == job[w]
<1> USE DEF Release, AcquireCancelled, poolVars, lifecycle, contexts, queueVars, history
<1>1. /\ job'[w] = None /\ pc'[w] = "select" /\ w \notin permits'
      /\ \A v \in Workers \ {w} : /\ job'[v] = job[v] /\ pc'[v] = pc[v]
                                  /\ (v \in permits') <=> (v \in permits)
  <2>1. WorkerInv(w) /\ pc[w] \in {"acquire", "release"}
    BY DEF IndInv
  <2>2. w \notin permits'
    BY <2>1 DEF WorkerInv, Holding
  <2>3. \A v \in Workers \ {w} : (v \in permits') <=> (v \in permits)
    OBVIOUS
  <2> QED BY <2>2, <2>3 DEF IndInv, TypeOK
<1>2. WorkerInv(w) /\ j0 \in Jobs /\ j0 \in Held
  BY DEF IndInv, TypeOK, WorkerInv, Held
<1>3. Queued' = Queued /\ Held' = Held \ {j0} /\ j0 \notin Queued
  <2>1. \A v \in Workers \ {w} : job[v] # j0
    BY <1>2, NoneAssumption DEF IndInv, ExclusiveOwnership
  <2> QED BY <1>1, <1>2, <2>1 DEF Queued, Held, IndInv, ExclusiveOwnership
<1>4. settled[j0] # <<>> \/ (parentDone /\ Untried(j0))
  BY <1>2 DEF WorkerInv, JobContextDone
<1> HIDE DEF j0
<1>5. LifecycleInv' /\ CrashOnlyAfterForcedStop'
  BY WorkerKeepsLifecycle DEF IndInv, CrashOnlyAfterForcedStop
<1>6. ExclusiveOwnership'
  BY <1>1, <1>3 DEF IndInv, ExclusiveOwnership
<1>7. ASSUME NEW v \in Workers PROVE WorkerInv(v)'
  <2>1. WorkerInv(v)
    BY DEF IndInv
  <2> QED BY <1>1, <2>1 DEF WorkerInv, Untried, GaveUp, Holding
<1>8. ASSUME NEW j \in Jobs PROVE JobInv(j)'
  <2>1. JobInv(j)
    BY DEF IndInv
  <2> QED BY <1>3, <1>4, <2>1 DEF JobInv, VerdictInv, Untried, GaveUp
<1> QED BY <1>5, <1>6, <1>7, <1>8 DEF IndInv

(* What Acquire, the handler's results and the end of a backoff leave for    *)
(* the worker that takes the step, and for the job in its hands.            *)
LEMMA ProcessInv ==
    ASSUME IndInv, TypeOK', NEW w \in Workers,
           \/ Acquire(w) \/ HandlerSucceeds(w) \/ HandlerFails(w)
           \/ BackoffElapsed(w) \/ BackoffCancelled(w) \/ Refresh(w) \/ Settle(w)
    PROVE  IndInv'
<1> DEFINE j0 == job[w]
<1> USE DEF poolVars, lifecycle, contexts, queueVars, history
<1>1. /\ WorkerInv(w) /\ j0 # None /\ j0 \in Jobs /\ VerdictInv(j0)
      /\ status[j0] = "sent"
  <2>1. WorkerInv(w) /\ pc[w] \notin {"none", "select", "exited"}
    BY DEF IndInv, Acquire, HandlerSucceeds, HandlerFails, BackoffElapsed,
           BackoffCancelled, Refresh, Settle
  <2>2. j0 # None /\ j0 \in Jobs /\ status[j0] = "sent"
    BY <2>1 DEF WorkerInv, IndInv, TypeOK
  <2> QED BY <2>1, <2>2 DEF IndInv, JobInv
<1>2. /\ pc \in [Workers -> Locations] /\ attempt \in [Workers -> Nat]
      /\ failed \in [Workers -> BOOLEAN]
      /\ okCalls \in [Jobs -> Nat] /\ errCalls \in [Jobs -> Nat]
      /\ settled \in [Jobs -> Seq({"ack", "reject"})]
  BY DEF IndInv, TypeOK
<1>3. CASE Acquire(w)
  <2>1. /\ UNCHANGED <<poolVars, job, history>>
        /\ permits' = permits \cup {w} /\ w \in permits'
        /\ \A v \in Workers \ {w} : /\ pc'[v] = pc[v] /\ attempt'[v] = attempt[v]
                                    /\ failed'[v] = failed[v]
    BY <1>2, <1>3 DEF Acquire
  <2>2. /\ pc'[w] = IF MaxRetries >= 0 THEN "handle" ELSE "refresh"
        /\ attempt'[w] = 0
    BY <1>2, <1>3 DEF Acquire
  <2>3. failed'[w] = (MaxRetries < 0)
    BY <1>2, <1>3, Zenon DEF Acquire
  <2>4. Untried(j0)
    BY <1>1, <1>3 DEF WorkerInv, Acquire
  <2>5. WorkerInv(w)'
    <3>1. job'[w] = j0 /\ status'[j0] = "sent" /\ Untried(j0)'
      BY <1>1, <2>1, <2>4 DEF Untried
    <3>2. CASE MaxRetries >= 0
      BY <1>1, <2>1, <2>2, <3>1, <3>2 DEF WorkerInv, Untried, Holding
    <3>3. CASE ~(MaxRetries >= 0)
      <4>1. (MaxRetries < 0) = TRUE
        BY <3>3, RetriesAssumption
      <4>2. failed'[w]
        BY <2>3, <4>1, Zenon
      <4>3. GaveUp(j0)'
        BY <3>1, <3>3 DEF Untried, GaveUp, AllAttempts
      <4> QED BY <1>1, <2>1, <2>2, <3>1, <3>3, <4>2, <4>3 DEF WorkerInv, Untried, Holding
    <3> QED BY <3>2, <3>3
  <2>6. VerdictInv(j0)'
    BY <1>1, <2>1 DEF VerdictInv, GaveUp
  <2> QED BY <1>1, <2>1, <2>5, <2>6, KeepsJob
<1>4. CASE HandlerSucceeds(w)
  <2> USE <1>4 DEF HandlerSucceeds
  <2>1. okCalls'[j0] = 1 /\ settled[j0] = <<>>
    BY <1>1, <1>2 DEF WorkerInv
  <2>2. pc'[w] = "refresh" /\ ~failed'[w] /\ w \in permits
    BY <1>1, <1>2 DEF WorkerInv, Holding
  <2>3. WorkerInv(w)'
    BY <1>1, <2>1, <2>2 DEF WorkerInv, Holding
  <2>4. VerdictInv(j0)'
    BY <1>1, <2>1 DEF VerdictInv
  <2> QED BY <1>1, <1>2, <2>3, <2>4, KeepsJob
<1>5. CASE HandlerFails(w)
  <2> USE <1>5 DEF HandlerFails
  <2>1. /\ errCalls'[j0] = attempt[w] + 1 /\ okCalls[j0] = 0
        /\ attempt[w] <= MaxRetries /\ settled[j0] = <<>> /\ w \in permits
    BY <1>1, <1>2 DEF WorkerInv, Holding
  <2>2. /\ pc'[w] = IF attempt[w] = MaxRetries THEN "refresh" ELSE "backoff"
        /\ failed'[w]
    BY <1>2 DEF LastAttempt
  <2>3. WorkerInv(w)'
    BY <1>1, <1>2, <2>1, <2>2, RetriesAssumption
       DEF WorkerInv, Holding, GaveUp, AllAttempts
  <2>4. VerdictInv(j0)'
    BY <1>1, <2>1 DEF VerdictInv
  <2> QED BY <1>1, <1>2, <2>3, <2>4, KeepsJob
<1>6. CASE BackoffElapsed(w)
  <2> USE <1>6 DEF BackoffElapsed
  <2>1. pc'[w] = "handle" /\ attempt'[w] = attempt[w] + 1
    BY <1>2
  <2>2. WorkerInv(w)'
    BY <1>1, <1>2, <2>1, RetriesAssumption DEF WorkerInv, Holding
  <2>3. VerdictInv(j0)'
    BY <1>1 DEF VerdictInv, GaveUp
  <2> QED BY <1>1, <1>2, <2>2, <2>3, KeepsJob
<1>7. CASE BackoffCancelled(w)
  <2> USE <1>7 DEF BackoffCancelled
  <2>1. pc'[w] = "refresh" /\ parentDone
    BY <1>2 DEF JobContextDone
  <2>2. WorkerInv(w)'
    BY <1>1, <2>1 DEF WorkerInv, Holding, GaveUp
  <2>3. VerdictInv(j0)'
    BY <1>1 DEF VerdictInv, GaveUp
  <2> QED BY <1>1, <1>2, <2>2, <2>3, KeepsJob
<1>8. CASE Refresh(w)
  <2> USE <1>8 DEF Refresh
  <2>1. pc'[w] = "settle"
    BY <1>2
  <2>2. WorkerInv(w)'
    BY <1>1, <2>1 DEF WorkerInv, Holding, GaveUp
  <2>3. VerdictInv(j0)'
    BY <1>1 DEF VerdictInv, GaveUp
  <2> QED BY <1>1, <1>2, <2>2, <2>3, KeepsJob
<1>9. CASE Settle(w)
  <2> USE <1>9 DEF Settle
  <2>1. pc'[w] = "release"
    BY <1>2
  <2>2. settled'[j0] = <<Verdict(w)>>
    <3>1. settled[j0] = <<>>
      BY <1>1 DEF WorkerInv
    <3>2. settled'[j0] = Append(settled[j0], Verdict(w))
      BY <1>1, <1>2
    <3> QED BY <3>1, <3>2
  <2>3. WorkerInv(w)'
    <3>1. settled'[j0] # <<>>
      BY <2>2
    <3>2. w \in permits
      BY <1>1 DEF WorkerInv, Holding
    <3> QED BY <1>1, <2>1, <3>1, <3>2 DEF WorkerInv, Holding
  <2>4. \/ Verdict(w) = "reject" /\ GaveUp(j0)
        \/ Verdict(w) = "ack" /\ okCalls[j0] = 1
    BY <1>1 DEF WorkerInv, Verdict
  <2>5. VerdictInv(j0)'
    <3>1. <<"ack">> # <<"reject">> /\ <<"ack">> # <<>> /\ <<"reject">> # <<>>
      OBVIOUS
    <3>2. CASE Verdict(w) = "reject" /\ GaveUp(j0)
      BY <2>2, <3>1, <3>2 DEF VerdictInv, GaveUp
    <3>3. CASE Verdict(w) = "ack" /\ okCalls[j0] = 1
      BY <2>2, <3>1, <3>3 DEF VerdictInv
    <3> QED BY <2>4, <3>2, <3>3
  <2> QED BY <1>1, <1>2, <2>3, <2>5, KeepsJob
<1> QED BY <1>3, <1>4, <1>5, <1>6, <1>7, <1>8, <1>9

LEMMA IndStep == IndInv /\ [Next]_vars => IndInv'
<1> SUFFICES ASSUME IndInv, [Next]_vars PROVE IndInv'
  OBVIOUS
<1>1. TypeOK'
  BY TypeStep DEF IndInv
<1>2. CASE Start
  BY <1>1, <1>2, StartInv
<1>3. CASE \E j \in Jobs : SubmitAccepted(j) \/ SubmitRefused(j)
  BY <1>1, <1>3, SubmitAcceptedInv, SubmitRefusedInv
<1>4. CASE StopBegin \/ StopStep \/ CancelSubmit \/ CancelParent
  BY <1>1, <1>4, StopInv
<1>5. CASE \E w \in Workers : WorkerStep(w)
  <2>1. PICK w \in Workers : WorkerStep(w)
    BY <1>5
  <2> QED BY <1>1, <2>1, ReceiveInv, IdleWorkerInv, LetGoInv, ProcessInv DEF WorkerStep
<1>6. CASE Done \/ UNCHANGED vars
  <2>1. UNCHANGED <<poolVars, workerVars, history>>
    BY <1>6 DEF Done, vars
  <2>2. LifecycleInv' /\ CrashOnlyAfterForcedStop'
    BY <2>1 DEF IndInv, LifecycleInv, CrashOnlyAfterForcedStop,
                poolVars, lifecycle, contexts, workerVars
  <2> QED BY <1>1, <2>1, <2>2, LifecycleFrame DEF IndInv, poolVars, contexts
<1> QED BY <1>2, <1>3, <1>4, <1>5, <1>6 DEF Next, Environment

(* The inductive invariant holds in every reachable state. *)
THEOREM Invariance == Spec => []IndInv
BY InitInv, IndStep, PTL DEF Spec

-----------------------------------------------------------------------------
(* An accepted job has one owner at a time, a channel slot or a worker.     *)
THEOREM OwnershipIsExclusive == Spec => []ExclusiveOwnership
<1>1. IndInv => ExclusiveOwnership
  BY DEF IndInv
<1> QED BY <1>1, Invariance, PTL

(* No delivery is acknowledged or rejected twice, none while it is queued.  *)
THEOREM SettledOnce == Spec => []SettledAtMostOnce
<1>1. IndInv => SettledAtMostOnce
  <2> SUFFICES ASSUME IndInv PROVE SettledAtMostOnce
    OBVIOUS
  <2>1. ASSUME NEW j \in Jobs PROVE Len(settled[j]) <= 1
    <3>1. settled[j] \in {<<>>, <<"ack">>, <<"reject">>}
      BY DEF IndInv, JobInv, VerdictInv
    <3>2. Len(<<>>) <= 1 /\ Len(<<"ack">>) <= 1 /\ Len(<<"reject">>) <= 1
      OBVIOUS
    <3>3. CASE settled[j] = <<>>
      BY <3>2, <3>3
    <3>4. CASE settled[j] = <<"ack">>
      BY <3>2, <3>4
    <3>5. CASE settled[j] = <<"reject">>
      BY <3>2, <3>5
    <3> QED BY <3>1, <3>3, <3>4, <3>5
  <2>2. ASSUME NEW j \in Queued PROVE settled[j] = <<>>
    <3>1. j \in Jobs
      BY RangeOfSeq DEF IndInv, TypeOK, Queued
    <3> QED BY <3>1 DEF IndInv, JobInv, Untried
  <2> QED BY <2>1, <2>2 DEF SettledAtMostOnce
<1> QED BY <1>1, Invariance, PTL

(* Ack only follows the one successful handler call of a job, and Reject    *)
(* only MaxRetries + 1 failures or a cancelled context.                     *)
THEOREM VerdictIsRight == Spec => []VerdictIsEarned
<1>1. IndInv => VerdictIsEarned
  BY DEF IndInv, JobInv, VerdictInv, GaveUp, VerdictIsEarned
<1> QED BY <1>1, Invariance, PTL

(* An accepted job is queued, held or settled as long as the parent context *)
(* lives, and one that was let go of unsettled never met the handler.       *)
THEOREM JobsAreKept == Spec => []NoJobLost
<1>1. IndInv => NoJobLost
  <2> SUFFICES ASSUME IndInv, NEW j \in Jobs, status[j] = "sent",
                      settled[j] = <<>>, j \notin Queued \cup Held
               PROVE  parentDone /\ okCalls[j] + errCalls[j] = 0
    BY DEF NoJobLost
  <2> QED BY DEF IndInv, JobInv, Untried
<1> QED BY <1>1, Invariance, PTL

(* Every worker finds a free permit: Acquire never waits.                   *)
THEOREM AcquireIsFree == Spec => []AcquireNeverBlocks
<1>1. IndInv => AcquireNeverBlocks
  <2> SUFFICES ASSUME IndInv, NEW w \in Workers, pc[w] = "acquire"
               PROVE  Cardinality(permits) < MaxPermits
    BY DEF AcquireNeverBlocks
  <2>1. permits \subseteq Workers /\ w \notin permits
    BY DEF IndInv, TypeOK, WorkerInv, Holding
  <2>2. /\ Cardinality(permits) \in Nat /\ Cardinality(Workers) \in Nat
        /\ Cardinality(permits) <= Cardinality(Workers)
        /\ Cardinality(Workers) # Cardinality(permits)
    BY <2>1, WorkersAssumption, FS_Subset, FS_CardinalityType
  <2> QED BY <2>2 DEF MaxPermits
<1> QED BY <1>1, Invariance, PTL

(* At any moment every job has one owner, one settlement at most and one    *)
(* that its handler calls explain, or is still to be settled by somebody;   *)
(* and no worker waits for a permit.                                        *)
THEOREM PoolIsSafe == Spec => []PoolInv
BY TypeCorrect, OwnershipIsExclusive, SettledOnce, VerdictIsRight, JobsAreKept,
   AcquireIsFree, PTL DEF PoolInv

(* A Stop that reports a graceful end leaves no permit, no job in hand and  *)
(* only untried jobs in the channel, and never leads to the nil-job panic.  *)
THEOREM GracefulStopIsSafe == Spec => []GracefulStopIsClean
<1>1. IndInv => GracefulStopIsClean
  <2> SUFFICES ASSUME IndInv, outcome = "drained"
               PROVE  /\ permits = {} /\ Held = {}
                      /\ \A j \in Queued : okCalls[j] + errCalls[j] = 0
                                            /\ settled[j] = <<>>
    BY DEF GracefulStopIsClean, IndInv, CrashOnlyAfterForcedStop
  <2>1. ASSUME NEW w \in Workers PROVE job[w] = None /\ w \notin permits
    BY DEF IndInv, LifecycleInv, WorkerInv, Holding
  <2>2. permits = {} /\ Held = {}
    BY <2>1 DEF IndInv, TypeOK, Held
  <2>3. ASSUME NEW j \in Queued PROVE Untried(j)
    <3>1. j \in Jobs
      BY RangeOfSeq DEF IndInv, TypeOK, Queued
    <3> QED BY <3>1 DEF IndInv, JobInv
  <2> QED BY <2>2, <2>3 DEF Untried
<1> QED BY <1>1, Invariance, PTL

(* SubmitJob never sends on the channel that Stop closes: whoever sees      *)
(* active under the read lock sees a Stop that has not begun.               *)
THEOREM NoSendOnClosed == Spec => SendOnlyOnOpenChannel
<1> DEFINE Sent(j) == status[j] = "new" /\ status'[j] = "sent"
<1>1. IndInv /\ [Next]_vars => [\A j \in Jobs : Sent(j) => ~jobsClosed /\ ~cancelled]_vars
  <2> SUFFICES ASSUME IndInv, Next, NEW j \in Jobs, Sent(j)
               PROVE  ~jobsClosed /\ ~cancelled
    OBVIOUS
  <2>1. \E k \in Jobs : SubmitAccepted(k)
    <3>1. status' # status
      OBVIOUS
    <3>2. CASE \E k \in Jobs : SubmitRefused(k)
      BY <3>2 DEF SubmitRefused, IndInv, TypeOK
    <3>3. ~Done /\ ~Start /\ ~StopBegin /\ ~CancelSubmit /\ ~CancelParent /\ ~StopStep
      BY <3>1 DEF Done, vars, poolVars, queueVars, Start, StopBegin, CancelSubmit,
                  CancelParent, StopStep, StopCloseQuit, StopDrained, StopTimeout,
                  StopContext, StopWaitEnds, StopCloseJobs, StopReturn
    <3>4. ~ \E w \in Workers : WorkerStep(w)
      BY <3>1 DEF WorkerStep, Receive, ReceiveNil, Quit, Acquire, AcquireCancelled,
                  HandlerSucceeds, HandlerFails, BackoffElapsed, BackoffCancelled,
                  Refresh, Settle, Release, poolVars, queueVars
    <3> QED BY <3>2, <3>3, <3>4 DEF Next, Environment
  <2>2. active /\ ~locked
    BY <2>1 DEF SubmitAccepted, ReadLock
  <2> QED BY <2>2 DEF IndInv, TypeOK, LifecycleInv
<1> QED BY <1>1, Invariance, PTL DEF Spec, SendOnlyOnOpenChannel

-----------------------------------------------------------------------------
(* A step of one worker leaves the others where they are, with their jobs.  *)
LEMMA StepOfOneWorker ==
    ASSUME NEW w \in Workers, TypeOK, WorkerStep(w), ~ReceiveNil(w)
    PROVE  \A v \in Workers \ {w} : pc'[v] = pc[v] /\ job'[v] = job[v]
BY DEF TypeOK, WorkerStep, ReceiveNil, Receive, Quit, Acquire, AcquireCancelled,
       HandlerSucceeds, HandlerFails, BackoffElapsed, BackoffCancelled,
       Refresh, Settle, Release

(* Each step of a worker that has a job brings it nearer to the end of it.  *)
LEMMA NearerTheEnd ==
    ASSUME IndInv, TypeOK', NEW w \in Workers, WorkerStep(w), job[w] # None, pc'[w] # pc[w]
    PROVE  StepsLeft(w) \in Nat /\ (job'[w] = None \/ StepsLeft(w)' < StepsLeft(w))
<1>1. /\ attempt[w] \in Nat /\ MaxRetries \in Int /\ LastAttempt(w) \in BOOLEAN
      /\ attempt \in [Workers -> Nat] /\ pc \in [Workers -> Locations]
      /\ job \in [Workers -> Jobs \cup {None}]
      /\ pc[w] \notin {"none", "select", "exited"}
      /\ pc[w] = "handle"  => attempt[w] <= MaxRetries
      /\ pc[w] = "backoff" => attempt[w] < MaxRetries
  BY RetriesAssumption DEF IndInv, TypeOK, WorkerInv, LastAttempt
<1>2. /\ AllAttempts \in Nat
      /\ MaxRetries >= 0 => AllAttempts = MaxRetries + 1
  BY RetriesAssumption DEF AllAttempts
<1>3. CASE Acquire(w)
  <2>1. /\ pc[w] = "acquire" /\ attempt'[w] = 0
        /\ pc'[w] = IF MaxRetries >= 0 THEN "handle" ELSE "refresh"
    BY <1>1, <1>3 DEF Acquire
  <2> QED BY <1>1, <1>2, <2>1 DEF StepsLeft
<1>4. CASE AcquireCancelled(w) \/ Release(w)
  <2>1. job'[w] = None /\ pc[w] \in {"acquire", "release"}
    BY <1>1, <1>4 DEF AcquireCancelled, Release
  <2> QED BY <1>1, <1>2, <2>1 DEF StepsLeft
<1>5. CASE HandlerSucceeds(w) \/ HandlerFails(w) \/ BackoffCancelled(w)
  <2>1. /\ pc[w] \in {"handle", "backoff"} /\ attempt' = attempt
        /\ pc'[w] \in {"refresh", "backoff"}
        /\ pc'[w] = "backoff" => pc[w] = "handle"
    BY <1>1, <1>5 DEF HandlerSucceeds, HandlerFails, BackoffCancelled
  <2> QED BY <1>1, <2>1 DEF StepsLeft
<1>6. CASE BackoffElapsed(w)
  <2>1. pc[w] = "backoff" /\ attempt'[w] = attempt[w] + 1 /\ pc'[w] = "handle"
    BY <1>1, <1>6 DEF BackoffElapsed
  <2> QED BY <1>1, <2>1 DEF StepsLeft
<1>7. CASE Refresh(w) \/ Settle(w)
  <2>1. \/ pc[w] = "refresh" /\ pc'[w] = "settle"
        \/ pc[w] = "settle" /\ pc'[w] = "release"
    BY <1>1, <1>7 DEF Refresh, Settle
  <2> QED BY <2>1 DEF StepsLeft
<1>8. ~Receive(w) /\ ~ReceiveNil(w) /\ ~Quit(w)
  BY <1>1 DEF Receive, ReceiveNil, Quit
<1> QED BY <1>3, <1>4, <1>5, <1>6, <1>7, <1>8 DEF WorkerStep

(* No job keeps its worker for ever: whatever happens in between, each step *)
(* the worker takes with it lowers a measure that starts at                 *)
(* 2 * AllAttempts + 3 and is never negative.                               *)
THEOREM WorkEnds == Spec => WorkIsBounded
<1> DEFINE Nearer(w) == job[w] # None /\ pc'[w] # pc[w]
               => /\ StepsLeft(w) \in Nat
                  /\ job'[w] = None \/ StepsLeft(w)' < StepsLeft(w)
<1>1. IndInv /\ TypeOK' /\ [Next]_vars => [\A w \in Workers : Nearer(w)]_vars
  <2> SUFFICES ASSUME IndInv, TypeOK', Next, NEW w \in Workers,
                      job[w] # None, pc'[w] # pc[w]
               PROVE  StepsLeft(w) \in Nat /\ (job'[w] = None \/ StepsLeft(w)' < StepsLeft(w))
    OBVIOUS
  <2>1. stopPc = "idle" /\ ~active => pc[w] = "none"
    BY DEF IndInv, LifecycleInv, TypeOK
  <2>2. pc[w] # "none" /\ pc' # pc
    BY DEF IndInv, WorkerInv
  <2>3. ~Start
    BY <2>1, <2>2 DEF Start
  <2>4. \E v \in Workers : WorkerStep(v)
    BY <2>2, <2>3 DEF Next, Environment, StopStep, StopBegin, CancelSubmit, CancelParent,
       SubmitAccepted, SubmitRefused, StopCloseQuit, StopDrained, StopTimeout, StopContext,
       StopWaitEnds, StopCloseJobs, StopReturn, Done, vars, workerVars
  <2>5. WorkerStep(w)
    BY <2>2, <2>4, StepOfOneWorker DEF IndInv, ReceiveNil, workerVars
  <2> QED BY <2>5, NearerTheEnd
<1>2. IndInv => TypeOK
  BY DEF IndInv
<1> QED BY <1>1, <1>2, Invariance, PTL DEF Spec, WorkIsBounded

-----------------------------------------------------------------------------
(* The pool implements JobService.  TheFate and TheTries are what the       *)
(* refinement mapping shows of the jobs.                                    *)
TheFate  == [j \in Jobs |-> Fate(j)]
TheTries == [j \in Jobs |-> okCalls[j] + errCalls[j]]
ThePhase == IF cancelled THEN "closed" ELSE IF active THEN "open" ELSE "created"

(* A job that a worker is busy with is accepted, out of the channel, and    *)
(* in no other hands.                                                       *)
LEMMA InHands ==
    ASSUME IndInv, NEW w \in Workers, job[w] # None
    PROVE  /\ job[w] \in Jobs /\ status[job[w]] = "sent" /\ job[w] \in Held
           /\ job[w] \notin Queued
           /\ \A v \in Workers \ {w} : job[v] # job[w]
BY DEF IndInv, TypeOK, WorkerInv, ExclusiveOwnership, Held

(* What a step leaves of the history and of the owners of a job decides     *)
(* that its fate stays.                                                     *)
LEMMA SameFate ==
    ASSUME NEW j \in Jobs, status'[j] = status[j], settled'[j] = settled[j],
           okCalls'[j] = okCalls[j],
           settled[j] = <<>> => ((j \in Queued \cup Held)' <=> j \in Queued \cup Held)
    PROVE  Fate(j)' = Fate(j)
BY DEF Fate

(* The three kinds of steps at a worker that keep every job with its owner. *)
LEMMA SameOwners ==
    ASSUME IndInv, jobChan' = jobChan, job' = job
    PROVE  (Queued \cup Held)' = Queued \cup Held
BY DEF Queued, Held

LEMMA InitRefines == Init => Service!Init
<1> SUFFICES ASSUME Init PROVE Service!Init
  OBVIOUS
<1>1. ThePhase = "created" /\ parentDone = FALSE /\ jobChan = <<>>
  BY DEF Init, ThePhase
<1>2. TheFate = [j \in Jobs |-> "new"]
  BY DEF Init, TheFate, Fate
<1>3. TheTries = [j \in Jobs |-> 0]
  BY DEF Init, TheTries
<1> QED BY <1>1, <1>2, <1>3 DEF Service!Init, ThePhase, TheFate, TheTries

(* A step that leaves jobs and their history alone is seen only by its      *)
(* effect on the flags.                                                     *)
LEMMA LifecycleRefines ==
    ASSUME IndInv, UNCHANGED <<queueVars, job, history>>,
           \/ Start \/ StopBegin \/ CancelParent
           \/ UNCHANGED <<active, cancelled, parentDone>>
           \/ StopReturn
    PROVE  [Service!Next]_Service!serviceVars
<1>1. TheFate' = TheFate
  <2>1. ASSUME NEW j \in Jobs PROVE Fate(j)' = Fate(j)
    BY SameOwners, SameFate DEF queueVars, history
  <2> QED BY <2>1 DEF TheFate
<1>2. TheTries' = TheTries /\ jobChan' = jobChan
  BY DEF TheTries, queueVars, history
<1>3. \/ ThePhase' = ThePhase /\ parentDone' = parentDone
      \/ ThePhase = "created" /\ ThePhase' = "open" /\ parentDone' = parentDone
      \/ ThePhase = "open" /\ ThePhase' = "closed" /\ parentDone' = parentDone
      \/ ~parentDone /\ parentDone' = TRUE /\ ThePhase' = ThePhase
  BY DEF ThePhase, IndInv, LifecycleInv, TypeOK, Start, StopBegin, CancelParent, StopReturn,
         contexts, lifecycle
<1> QED
  BY <1>1, <1>2, <1>3 DEF ThePhase, TheFate, TheTries, Service!Next, Service!serviceVars,
     Service!Open, Service!Close, Service!Cut

LEMMA SubmitRefines ==
    ASSUME IndInv, IndInv', NEW j \in Jobs, SubmitAccepted(j) \/ SubmitRefused(j)
    PROVE  Service!Next
<1>1. /\ status[j] = "new" /\ status \in [Jobs -> {"new", "sent", "refused"}]
      /\ j \notin Queued /\ Untried(j) /\ jobChan \in Seq(Jobs)
      /\ \A k \in Jobs : settled[k] \in {<<>>, <<"ack">>, <<"reject">>}
  BY DEF IndInv, TypeOK, JobInv, VerdictInv, SubmitAccepted, SubmitRefused
<1>2. /\ UNCHANGED <<lifecycle, contexts, workerVars, history>>
      /\ \A k \in Jobs \ {j} : status'[k] = status[k]
      /\ \A k \in Jobs : settled'[k] = settled[k] /\ okCalls'[k] = okCalls[k]
      /\ Held' = Held
  BY <1>1 DEF SubmitAccepted, SubmitRefused, workerVars, history, Held
<1>3. TheTries' = TheTries /\ parentDone' = parentDone /\ ThePhase' = ThePhase
  BY <1>2 DEF TheTries, ThePhase, history, contexts, lifecycle
<1>4. TheFate[j] = "new"
  BY <1>1 DEF TheFate, Fate
<1>5. CASE SubmitAccepted(j)
  <2>1. jobChan' = Append(jobChan, j) /\ Queued' = Queued \cup {j} /\ status'[j] = "sent"
    BY <1>1, <1>5, AppendRange DEF SubmitAccepted, Queued
  <2>2. Fate(j)' = "accepted"
    BY <1>1, <1>2, <2>1 DEF Fate, Untried, history
  <2>3. ASSUME NEW k \in Jobs \ {j} PROVE Fate(k)' = Fate(k)
    BY <1>2, <2>1, SameFate
  <2>4. TheFate' = [TheFate EXCEPT ![j] = "accepted"]
    BY <2>2, <2>3 DEF TheFate
  <2>5. ThePhase = "open"
    BY <1>5 DEF SubmitAccepted, ReadLock, ThePhase, IndInv, LifecycleInv, TypeOK
  <2>6. Service!Accept(j)
    BY <1>3, <1>4, <2>1, <2>4, <2>5
    DEF Service!Accept, Service!Becomes, TheFate, TheTries, ThePhase
  <2> QED BY <2>6 DEF Service!Next
<1>6. CASE SubmitRefused(j)
  <2>1. jobChan' = jobChan /\ Queued' = Queued /\ status'[j] = "refused"
    BY <1>1, <1>6 DEF SubmitRefused, Queued
  <2>2. Fate(j)' = "refused"
    BY <2>1 DEF Fate
  <2>3. ASSUME NEW k \in Jobs \ {j} PROVE Fate(k)' = Fate(k)
    BY <1>2, <2>1, SameFate
  <2>4. TheFate' = [TheFate EXCEPT ![j] = "refused"]
    BY <2>2, <2>3 DEF TheFate
  <2>5. Service!Refuse(j)
    BY <1>3, <1>4, <2>1, <2>4 DEF Service!Refuse, Service!Becomes, TheFate, TheTries, ThePhase
  <2> QED BY <2>5 DEF Service!Next
<1> QED BY <1>5, <1>6

LEMMA ReceiveRefines ==
    ASSUME IndInv, IndInv', NEW w \in Workers, Receive(w)
    PROVE  Service!Next
<1>1. /\ jobChan # <<>> /\ jobChan' = Tail(jobChan) /\ jobChan \in Seq(Jobs)
      /\ job' = [job EXCEPT ![w] = Head(jobChan)] /\ job[w] = None
      /\ job \in [Workers -> Jobs \cup {None}]
      /\ Head(jobChan) \in Queued /\ Head(jobChan) \in Jobs
      /\ Queued' = Queued \ {Head(jobChan)}
  <2>1. /\ jobChan # <<>> /\ jobChan' = Tail(jobChan) /\ pc[w] = "select"
        /\ job' = [job EXCEPT ![w] = Head(jobChan)]
    BY DEF Receive
  <2>2. /\ jobChan \in Seq(Jobs) /\ IsInjective(jobChan) /\ job[w] = None
        /\ job \in [Workers -> Jobs \cup {None}]
    BY <2>1 DEF IndInv, TypeOK, WorkerInv, ExclusiveOwnership
  <2> QED BY <2>1, <2>2, TailRange DEF Queued
<1>2. Held' = Held \cup {Head(jobChan)}
  BY <1>1, NoneAssumption DEF Held
<1>3. (Queued \cup Held)' = Queued \cup Held
  BY <1>1, <1>2
<1>4. TheFate' = TheFate
  <2>1. ASSUME NEW j \in Jobs PROVE Fate(j)' = Fate(j)
    BY <1>3, SameFate DEF Receive, history
  <2> QED BY <2>1 DEF TheFate
<1>5. TheTries' = TheTries /\ parentDone' = parentDone /\ ThePhase' = ThePhase
  BY DEF Receive, TheTries, ThePhase, history, contexts, lifecycle
<1>6. Service!TakeFirst
  BY <1>1, <1>4, <1>5 DEF Service!TakeFirst, TheFate, TheTries, ThePhase
<1> QED BY <1>6 DEF Service!Next

\* The owners of the other jobs, when w lets go of its own.
LEMMA LetGoOwners ==
    ASSUME IndInv, NEW w \in Workers, jobChan' = jobChan, job' = [job EXCEPT ![w] = None]
    PROVE  (Queued \cup Held)' = (Queued \cup Held) \ {job[w]}
<1>1. /\ job \in [Workers -> Jobs \cup {None}] /\ jobChan \in Seq(Jobs)
  BY DEF IndInv, TypeOK
<1>2. CASE job[w] = None
  <2>1. job' = job /\ None \notin Queued
    BY <1>1, <1>2, NoneAssumption, RangeOfSeq DEF Queued
  <2> QED BY <1>2, <2>1 DEF Held, Queued
<1>3. CASE job[w] # None
  <2>1. Held' = Held \ {job[w]}
    BY <1>1, <1>3, InHands DEF Held
  <2> QED BY <1>3, <2>1, InHands DEF Queued
<1> QED BY <1>2, <1>3

LEMMA AbandonRefines ==
    ASSUME IndInv, IndInv', NEW w \in Workers, AcquireCancelled(w),
           NEW j \in Jobs, job[w] = j
    PROVE  Service!Next
<1>1. /\ j # None /\ j \in Jobs /\ status[j] = "sent" /\ Untried(j) /\ parentDone
      /\ j \in Held /\ j \notin Queued
      /\ UNCHANGED <<lifecycle, contexts, queueVars, history>>
      /\ job' = [job EXCEPT ![w] = None]
  BY InHands, NoneAssumption
  DEF AcquireCancelled, JobContextDone, IndInv, WorkerInv, poolVars
<1>2. (Queued \cup Held)' = (Queued \cup Held) \ {j}
  BY <1>1, LetGoOwners DEF queueVars
<1>3. Fate(j) = "accepted" /\ Fate(j)' = "abandoned"
  BY <1>1, <1>2 DEF Fate, Untried, queueVars, history
<1>4. ASSUME NEW k \in Jobs \ {j} PROVE Fate(k)' = Fate(k)
  BY <1>1, <1>2, SameFate DEF queueVars, history
<1>5. TheFate[j] = "accepted" /\ TheFate' = [TheFate EXCEPT ![j] = "abandoned"]
  BY <1>1, <1>3, <1>4 DEF TheFate
<1>6. /\ TheTries[j] = 0 /\ TheTries' = TheTries /\ jobChan' = jobChan
      /\ parentDone' = parentDone /\ ThePhase' = ThePhase
  BY <1>1 DEF TheTries, Untried, ThePhase, history, contexts, lifecycle, queueVars
<1>7. Service!Abandon(j)
  BY <1>1, <1>5, <1>6
  DEF Service!Abandon, Service!Becomes, Service!InWork, TheFate, TheTries, ThePhase, Queued,
      Service!Range, Range
<1> QED BY <1>1, <1>7 DEF Service!Next

LEMMA TryRefines ==
    ASSUME IndInv, IndInv', NEW w \in Workers, HandlerSucceeds(w) \/ HandlerFails(w),
           NEW j \in Jobs, job[w] = j
    PROVE  Service!Next
<1>1. /\ status[j] = "sent" /\ j \in Held /\ j \notin Queued
      /\ okCalls[j] = 0 /\ errCalls[j] = attempt[w] /\ attempt[w] <= MaxRetries
      /\ settled[j] = <<>> /\ attempt[w] \in Nat
      /\ okCalls \in [Jobs -> Nat] /\ errCalls \in [Jobs -> Nat]
  BY InHands, NoneAssumption DEF HandlerSucceeds, HandlerFails, IndInv, WorkerInv, TypeOK
<1>2. /\ UNCHANGED <<lifecycle, contexts, queueVars, job, settled>>
      /\ \/ okCalls' = [okCalls EXCEPT ![j] = @ + 1] /\ errCalls' = errCalls
         \/ errCalls' = [errCalls EXCEPT ![j] = @ + 1] /\ okCalls' = okCalls
  BY <1>1 DEF HandlerSucceeds, HandlerFails, poolVars
<1>3. (Queued \cup Held)' = Queued \cup Held
  BY <1>2, SameOwners DEF queueVars
<1>4. TheTries' = [TheTries EXCEPT ![j] = @ + 1]
  <2>1. (okCalls[j] + errCalls[j])' = okCalls[j] + errCalls[j] + 1
    BY <1>1, <1>2
  <2>2. ASSUME NEW k \in Jobs \ {j}
        PROVE  (okCalls[k] + errCalls[k])' = okCalls[k] + errCalls[k]
    BY <1>1, <1>2
  <2> QED BY <2>1, <2>2 DEF TheTries
<1>5. TheTries[j] < AllAttempts
  BY <1>1, RetriesAssumption DEF TheTries, AllAttempts
<1>6. ASSUME NEW k \in Jobs \ {j} PROVE Fate(k)' = Fate(k)
  BY <1>1, <1>2, <1>3, SameFate DEF queueVars
<1>7. Fate(j) = "accepted" /\ Fate(j)' \in {"accepted", "handled"}
  BY <1>1, <1>2, <1>3 DEF Fate, queueVars
<1>8. TheFate' = TheFate \/ TheFate' = [TheFate EXCEPT ![j] = "handled"]
  BY <1>6, <1>7 DEF TheFate
<1>9. /\ TheFate[j] = "accepted" /\ jobChan' = jobChan
      /\ parentDone' = parentDone /\ ThePhase' = ThePhase
  BY <1>2, <1>7 DEF TheFate, ThePhase, contexts, lifecycle, queueVars
<1>10. Service!Try(j)
  BY <1>1, <1>4, <1>5, <1>8, <1>9
  DEF Service!Try, Service!InWork, TheFate, TheTries, ThePhase, Queued, Service!Range, Range
<1> QED BY <1>10 DEF Service!Next

LEMMA SettleRefines ==
    ASSUME IndInv, IndInv', NEW w \in Workers, Settle(w), NEW j \in Jobs, job[w] = j
    PROVE  Service!Next
<1>1. /\ status[j] = "sent" /\ j \in Held /\ j \notin Queued /\ settled[j] = <<>>
      /\ IF failed[w] THEN GaveUp(j) ELSE okCalls[j] = 1
      /\ okCalls \in [Jobs -> Nat] /\ errCalls \in [Jobs -> Nat]
      /\ settled \in [Jobs -> Seq({"ack", "reject"})]
  BY InHands, NoneAssumption DEF Settle, IndInv, WorkerInv, TypeOK
<1>2. /\ UNCHANGED <<lifecycle, contexts, queueVars, job, okCalls, errCalls>>
      /\ settled'[j] = IF failed[w] THEN <<"reject">> ELSE <<"ack">>
      /\ \A k \in Jobs \ {j} : settled'[k] = settled[k]
  BY <1>1 DEF Settle, poolVars, Verdict
<1>3. (Queued \cup Held)' = Queued \cup Held
  BY <1>2, SameOwners DEF queueVars
<1>4. ASSUME NEW k \in Jobs \ {j} PROVE Fate(k)' = Fate(k)
  BY <1>2, <1>3, SameFate DEF queueVars
<1>5. /\ TheTries' = TheTries /\ jobChan' = jobChan
      /\ parentDone' = parentDone /\ ThePhase' = ThePhase
  BY <1>2 DEF TheTries, ThePhase, contexts, lifecycle, queueVars
<1>6. CASE failed[w]
  <2>1. Fate(j) = "accepted" /\ Fate(j)' = "reject"
    BY <1>1, <1>2, <1>6 DEF Fate, GaveUp, queueVars
  <2>2. TheFate[j] = "accepted" /\ TheFate' = [TheFate EXCEPT ![j] = "reject"]
    BY <1>4, <2>1 DEF TheFate
  <2>3. parentDone \/ TheTries[j] = AllAttempts
    BY <1>1, <1>6 DEF GaveUp, TheTries
  <2>4. Service!Reject(j)
    BY <1>1, <1>5, <2>2, <2>3
    DEF Service!Reject, Service!Becomes, Service!InWork, TheFate, TheTries, ThePhase,
        Queued, Service!Range, Range
  <2> QED BY <2>4 DEF Service!Next
<1>7. CASE ~failed[w]
  <2>1. Fate(j) = "handled" /\ Fate(j)' = "ack"
    BY <1>1, <1>2, <1>7 DEF Fate, queueVars
  <2>2. TheFate[j] = "handled" /\ TheFate' = [TheFate EXCEPT ![j] = "ack"]
    BY <1>4, <2>1 DEF TheFate
  <2>3. Service!Acknowledge(j)
    BY <1>5, <2>2 DEF Service!Acknowledge, Service!Becomes, TheFate, TheTries, ThePhase
  <2> QED BY <2>3 DEF Service!Next
<1> QED BY <1>6, <1>7

\* Its job is settled: nothing is to be seen of it.
LEMMA ReleaseRefines ==
    ASSUME IndInv, IndInv', NEW w \in Workers, Release(w), NEW j \in Jobs, job[w] = j
    PROVE  UNCHANGED Service!serviceVars
<1>1. /\ settled[j] # <<>> /\ UNCHANGED <<lifecycle, contexts, queueVars, history>>
      /\ job' = [job EXCEPT ![w] = None]
  BY NoneAssumption DEF Release, IndInv, WorkerInv, poolVars
<1>2. (Queued \cup Held)' = (Queued \cup Held) \ {j}
  BY <1>1, LetGoOwners DEF queueVars
<1>3. ASSUME NEW k \in Jobs PROVE Fate(k)' = Fate(k)
  BY <1>1, <1>2, SameFate DEF queueVars, history
<1>4. TheFate' = TheFate
  BY <1>3 DEF TheFate
<1>5. /\ TheTries' = TheTries /\ jobChan' = jobChan
      /\ parentDone' = parentDone /\ ThePhase' = ThePhase
  BY <1>1 DEF TheTries, ThePhase, history, contexts, lifecycle, queueVars
<1> QED BY <1>4, <1>5 DEF Service!serviceVars, TheFate, TheTries, ThePhase

LEMMA ServiceStep ==
    ASSUME IndInv, IndInv', [Next]_vars
    PROVE  [Service!Next]_Service!serviceVars
<1>1. ASSUME NEW w \in Workers, WorkerStep(w) PROVE [Service!Next]_Service!serviceVars
  <2>1. CASE Receive(w)
    BY <2>1, ReceiveRefines
  <2>2. CASE \/ ReceiveNil(w) \/ Quit(w) \/ Acquire(w) \/ BackoffElapsed(w)
             \/ BackoffCancelled(w) \/ Refresh(w)
    BY <2>2, LifecycleRefines DEF ReceiveNil, Quit, Acquire, BackoffElapsed, BackoffCancelled,
       Refresh, poolVars, lifecycle, contexts, workerVars
  <2>3. CASE \/ AcquireCancelled(w) \/ HandlerSucceeds(w) \/ HandlerFails(w)
             \/ Settle(w) \/ Release(w)
    <3>1. job[w] # None
      BY <2>3 DEF IndInv, WorkerInv, AcquireCancelled, HandlerSucceeds, HandlerFails,
         Settle, Release
    <3>2. PICK j \in Jobs : job[w] = j
      BY <3>1 DEF IndInv, TypeOK
    <3> QED BY <2>3, <3>2, AbandonRefines, TryRefines, SettleRefines, ReleaseRefines
  <2> QED BY <1>1, <2>1, <2>2, <2>3 DEF WorkerStep
<1>2. CASE \E j \in Jobs : SubmitAccepted(j) \/ SubmitRefused(j)
  BY <1>2, SubmitRefines
<1>3. CASE Start \/ StopBegin \/ CancelSubmit \/ CancelParent \/ StopStep
  <2>1. /\ UNCHANGED <<queueVars, job, history>>
        /\ \/ Start \/ StopBegin \/ CancelParent \/ StopReturn
           \/ UNCHANGED <<active, cancelled, parentDone>>
    BY <1>3 DEF Start, StopBegin, CancelSubmit, CancelParent, StopStep, StopCloseQuit,
       StopDrained, StopTimeout, StopContext, StopWaitEnds, StopCloseJobs, StopReturn,
       lifecycle, contexts, workerVars
  <2> QED BY <2>1, LifecycleRefines
<1>4. CASE UNCHANGED vars
  BY <1>4, LifecycleRefines
  DEF vars, poolVars, lifecycle, contexts, workerVars
<1> QED BY <1>1, <1>2, <1>3, <1>4 DEF Next, Environment, Done

(* The pool, its workers, channels and locks, implements JobService: jobs   *)
(* are taken in the order of acceptance, tried at most MaxRetries + 1 times *)
(* and get one verdict; only a cancelled context ends one early.            *)
THEOREM PoolImplementsService == Spec => ImplementsJobService
<1>1. IndInv /\ IndInv' /\ [Next]_vars => [Service!Next]_Service!serviceVars
  BY ServiceStep
<1> QED BY <1>1, InitRefines, Invariance, PTL DEF Spec, ImplementsJobService, Service!Spec

-----------------------------------------------------------------------------
(* The pool implements PoolLifecycle.  First what its mapping looks at.     *)
TheWorker   == [i \in (IF Started THEN Ids ELSE {}) |-> View(Order[i])]
TheAccepted == Cardinality({j \in Jobs : status[j] = "sent"})
TheLeftover == IF ~GaveUpWaiting THEN "none" ELSE IF AllExited THEN "woken" ELSE "waits"
IsStopping  == stopPc \in {"cancelled", "waiting", "closing"}

\* The numbers of the workers.
LEMMA Numbering ==
    /\ Order \in [Ids -> Workers]
    /\ \A w \in Workers : \E i \in Ids : Order[i] = w
    /\ \A i, k \in Ids : Order[i] = Order[k] => i = k
    /\ Cardinality(Workers) \in Nat
<1>1. Bijection(Ids, Workers) # {} /\ Cardinality(Workers) \in Nat
  BY WorkersAssumption, FS_NatBijection, FS_CardinalityType DEF Ids, ExistsBijection
<1>2. Order \in Bijection(Ids, Workers)
  BY <1>1 DEF Order
<1> QED BY <1>1, <1>2 DEF Bijection, Injection, Surjection, IsInjective

\* Stop closes quitChan behind the cancellation of the pool's own context.
QuitInv == quitClosed => cancelled

LEMMA QuitInvariance == Spec => []QuitInv
<1>1. Init => QuitInv
  BY DEF Init, QuitInv
<1>2. IndInv /\ QuitInv /\ [Next]_vars => QuitInv'
  <2> SUFFICES ASSUME IndInv, QuitInv, [Next]_vars PROVE QuitInv'
    OBVIOUS
  <2>1. CASE Start \/ StopBegin \/ CancelSubmit \/ CancelParent
    BY <2>1 DEF QuitInv, Start, StopBegin, CancelSubmit, CancelParent, contexts, lifecycle
  <2>2. CASE StopStep
    BY <2>2 DEF QuitInv, StopStep, StopCloseQuit, StopDrained, StopTimeout, StopContext,
       StopWaitEnds, StopCloseJobs, StopReturn, contexts, IndInv, LifecycleInv
  <2>3. CASE \/ \E j \in Jobs : SubmitAccepted(j) \/ SubmitRefused(j)
             \/ \E w \in Workers : WorkerStep(w)
             \/ UNCHANGED vars
    BY <2>3 DEF QuitInv, SubmitAccepted, SubmitRefused, WorkerStep, Receive, ReceiveNil, Quit,
       Acquire, AcquireCancelled, HandlerSucceeds, HandlerFails, BackoffElapsed,
       BackoffCancelled, Refresh, Settle, Release, poolVars, lifecycle, contexts, vars
  <2> QED BY <2>1, <2>2, <2>3 DEF Next, Environment, Done
<1> QED BY <1>1, <1>2, Invariance, PTL DEF Spec

(* A step that changes neither what PoolLifecycle has of the flags nor how  *)
(* it sees the workers is none of its steps.                                *)
LEMMA Unseen ==
    ASSUME UNCHANGED <<cancelled, parentDone, jobsClosed, jobChan, status, crashed>>,
           (active /\ ~jobsClosed)' <=> (active /\ ~jobsClosed),
           Started' <=> Started, GaveUpWaiting' <=> GaveUpWaiting, IsStopping' <=> IsStopping,
           \A w \in Workers : View(w)' = View(w)
    PROVE  UNCHANGED Lifecycle!vars
<1>1. TheWorker' = TheWorker
  BY Numbering DEF TheWorker
<1>2. AllExited' <=> AllExited
  BY DEF AllExited, View
<1>3. TheAccepted' = TheAccepted /\ TheLeftover' = TheLeftover
  BY <1>2 DEF TheAccepted, TheLeftover
<1>4. UNCHANGED <<active /\ ~jobsClosed, GaveUpWaiting, IsStopping, Started>>
  BY DEF GaveUpWaiting, IsStopping, Started
<1> QED BY <1>1, <1>3, <1>4
  DEF Lifecycle!vars, Lifecycle!pool, TheWorker, TheAccepted, TheLeftover, IsStopping

LEMMA InitCalls == Init => Lifecycle!Init
<1> SUFFICES ASSUME Init PROVE Lifecycle!Init
  OBVIOUS
<1>1. TheWorker = <<>>
  BY DEF Init, TheWorker, Started
<1>2. TheAccepted = 0
  <2>1. {j \in Jobs : status[j] = "sent"} = {}
    BY DEF Init
  <2> QED BY <2>1, FS_EmptySet DEF TheAccepted
<1>3. Len(jobChan) = 0 /\ TheLeftover = "none" /\ ~IsStopping /\ ~GaveUpWaiting /\ ~Started
  BY DEF Init, TheLeftover, IsStopping, GaveUpWaiting, Started
<1> QED BY <1>1, <1>2, <1>3
  DEF Init, Lifecycle!Init, TheWorker, TheAccepted, TheLeftover, IsStopping

\* One worker moves in its view, the others stay.
LEMMA OneMoves ==
    ASSUME NEW w \in Workers, Started, Started', NEW i \in Ids, Order[i] = w,
           \A v \in Workers \ {w} : View(v)' = View(v)
    PROVE  /\ i \in DOMAIN TheWorker /\ TheWorker[i] = View(w)
           /\ TheWorker' = [TheWorker EXCEPT ![i] = View(w)']
<1>1. TheWorker = [k \in Ids |-> View(Order[k])] /\ TheWorker' = [k \in Ids |-> View(Order[k])']
  BY DEF TheWorker
<1>2. \A k \in Ids \ {i} : Order[k] \in Workers \ {w}
  BY Numbering
<1>3. ASSUME NEW k \in Ids \ {i} PROVE View(Order[k])' = View(Order[k])
  BY <1>2
<1>4. View(Order[i])' = View(w)'
  OBVIOUS
<1> HIDE DEF TheWorker
<1> QED BY <1>1, <1>3, <1>4

\* wp.wg is zero when all workers have exited.
LEMMA NobodyAlive ==
    ASSUME Started
    PROVE  /\ Lifecycle!Alive = {k \in Ids : pc[Order[k]] # "exited"}
           /\ AllExited <=> Lifecycle!Alive = {}
<1>1. Lifecycle!Alive = {k \in Ids : pc[Order[k]] # "exited"}
  BY DEF Lifecycle!Alive, View
<1> QED BY <1>1, Numbering DEF AllExited

LEMMA StartCalls ==
    ASSUME IndInv, Start PROVE Lifecycle!Start
<1>1. /\ ~Started /\ Started' /\ ~IsStopping /\ ~IsStopping' /\ ~active /\ active' = TRUE
      /\ ~jobsClosed
      /\ UNCHANGED <<cancelled, parentDone, jobsClosed, crashed, jobChan, status>>
      /\ ~GaveUpWaiting /\ ~GaveUpWaiting'
      /\ pc' = [w \in Workers |-> "select"]
  BY DEF Start, IndInv, LifecycleInv, TypeOK, Started, IsStopping, GaveUpWaiting,
         contexts, queueVars, Locations
<1>2. /\ DOMAIN TheWorker = {}
      /\ TheWorker' = [i \in Ids |-> "select"]
  <2>1. ASSUME NEW i \in Ids PROVE View(Order[i])' = "select"
    BY <1>1, Numbering DEF View, Busy
  <2> QED BY <1>1, <2>1 DEF TheWorker
<1>3. TheWorker' = [i \in 1 .. Cardinality(Workers) * (0 + 1) |->
                       IF i \in DOMAIN TheWorker THEN TheWorker[i] ELSE "select"]
  <2>1. Cardinality(Workers) * (0 + 1) = Cardinality(Workers)
    BY Numbering
  <2> QED BY <1>2, <2>1 DEF Ids
<1>4. /\ TheAccepted' = TheAccepted /\ TheLeftover' = TheLeftover
      /\ UNCHANGED <<IsStopping, GaveUpWaiting>>
  BY <1>1 DEF TheAccepted, TheLeftover, IsStopping, GaveUpWaiting
<1> QED BY <1>1, <1>3, <1>4
  DEF Lifecycle!Start, TheWorker, TheAccepted, TheLeftover, IsStopping

LEMMA AcceptCalls ==
    ASSUME IndInv, IsFiniteSet(Jobs), NEW j \in Jobs, SubmitAccepted(j)
    PROVE  Lifecycle!Accept
<1> DEFINE Sent == {k \in Jobs : status[k] = "sent"}
<1>1. /\ active /\ ~IsStopping /\ ~jobsClosed /\ jobChan \in Seq(Jobs)
      /\ jobChan' = Append(jobChan, j) /\ status[j] = "new"
      /\ status' = [status EXCEPT ![j] = "sent"] /\ status \in [Jobs -> {"new", "sent", "refused"}]
      /\ UNCHANGED <<active, cancelled, parentDone, jobsClosed, stopPc, outcome, crashed, pc>>
      /\ Len(jobChan) < 2 * Cardinality(Workers)
  BY DEF SubmitAccepted, ReadLock, HasRoom, Capacity, IndInv, LifecycleInv, TypeOK, IsStopping,
         lifecycle, contexts, workerVars
<1>2. Len(jobChan') = Len(jobChan) + 1
  BY <1>1
<1>3. Sent' = Sent \cup {j} /\ j \notin Sent /\ Sent \subseteq Jobs
  BY <1>1
<1> HIDE DEF Sent
<1>4. /\ IsFiniteSet(Sent) /\ Cardinality(Sent) <= Cardinality(Jobs)
      /\ Cardinality(Sent) # Cardinality(Jobs)
      /\ Cardinality(Sent) \in Nat /\ Cardinality(Jobs) \in Nat
  BY <1>3, FS_Subset, FS_CardinalityType
<1>5. TheAccepted' = TheAccepted + 1 /\ TheAccepted < Cardinality(Jobs)
  <2>1. /\ Cardinality(Sent \cup {j}) = Cardinality(Sent) + 1
        /\ Cardinality(Sent) < Cardinality(Jobs)
    <3>1. Cardinality(Sent \cup {j}) = Cardinality(Sent) + 1
      BY <1>3, <1>4, FS_AddElement
    <3>2. Cardinality(Sent) < Cardinality(Jobs)
      BY <1>4
    <3> QED BY <3>1, <3>2
  <2>2. TheAccepted = Cardinality(Sent) /\ TheAccepted' = Cardinality(Sent')
    BY DEF TheAccepted, Sent
  <2> QED BY <1>3, <2>1, <2>2
<1>6. /\ TheWorker' = TheWorker /\ TheLeftover' = TheLeftover
      /\ UNCHANGED <<IsStopping, GaveUpWaiting, Started>>
  BY <1>1 DEF TheWorker, TheLeftover, IsStopping, GaveUpWaiting, Started, AllExited, View
<1> QED BY <1>1, <1>2, <1>5, <1>6
  DEF Lifecycle!Accept, Lifecycle!CanSubmit, Lifecycle!HasRoom,
      TheWorker, TheAccepted, TheLeftover, IsStopping

LEMMA StopCalls ==
    ASSUME IndInv, ~crashed, StopBegin \/ StopStep
    PROVE  [Lifecycle!Next]_Lifecycle!vars
<1>1. UNCHANGED <<crashed, parentDone, jobChan, status, pc>>
  BY DEF StopBegin, StopStep, StopCloseQuit, StopDrained, StopTimeout, StopContext,
     StopWaitEnds, StopCloseJobs, StopReturn, contexts, queueVars, workerVars
<1>2. /\ \A w \in Workers : View(w)' = View(w)
      /\ TheAccepted' = TheAccepted
      /\ AllExited' <=> AllExited
  BY <1>1 DEF View, TheAccepted, AllExited
<1>3. CASE StopBegin
  <2>1. /\ active /\ ~jobsClosed /\ ~cancelled /\ cancelled' = TRUE /\ ~IsStopping /\ IsStopping'
        /\ UNCHANGED <<active, jobsClosed>> /\ Started /\ Started'
        /\ ~GaveUpWaiting /\ ~GaveUpWaiting'
    BY <1>3 DEF StopBegin, IndInv, LifecycleInv, TypeOK, IsStopping, Started, GaveUpWaiting
  <2>2. /\ TheWorker' = TheWorker /\ TheLeftover' = TheLeftover
        /\ UNCHANGED <<GaveUpWaiting, active /\ ~jobsClosed>>
    BY <1>2, <2>1, Numbering DEF TheWorker, TheLeftover, GaveUpWaiting
  <2>3. Lifecycle!StopBegins
    BY <1>1, <1>2, <2>1, <2>2
    DEF Lifecycle!StopBegins, Lifecycle!StopAllowed, TheWorker, TheAccepted, TheLeftover, IsStopping
  <2> QED BY <2>1, <2>3 DEF Lifecycle!Next
<1>4. CASE StopCloseJobs
  <2>1. /\ IsStopping /\ ~IsStopping' /\ ~jobsClosed /\ jobsClosed' = TRUE
        /\ UNCHANGED <<cancelled, outcome>> /\ Started /\ Started'
        /\ ~GaveUpWaiting /\ outcome \in {"drained", "forced"}
        /\ outcome = "drained" => AllExited
    BY <1>4 DEF StopCloseJobs, IndInv, LifecycleInv, TypeOK, IsStopping, Started, GaveUpWaiting,
       AllExited
  <2>2. TheWorker' = TheWorker
    BY <1>2, <2>1, Numbering DEF TheWorker
  <2>3. \/ Lifecycle!Alive = {} /\ ~GaveUpWaiting' /\ TheLeftover' = TheLeftover
        \/ /\ GaveUpWaiting'
           /\ TheLeftover' = IF Lifecycle!Alive = {} THEN "woken" ELSE "waits"
    <3>1. CASE outcome = "drained"
      <4>1. Lifecycle!Alive = {} /\ ~GaveUpWaiting'
        BY <2>1, <3>1, NobodyAlive DEF GaveUpWaiting
      <4> QED BY <2>1, <4>1 DEF TheLeftover
    <3>2. CASE outcome = "forced"
      <4>1. GaveUpWaiting'
        BY <2>1, <3>2 DEF GaveUpWaiting
      <4>2. AllExited' <=> Lifecycle!Alive = {}
        BY <1>2, <2>1, NobodyAlive
      <4> QED BY <4>1, <4>2 DEF TheLeftover
    <3> QED BY <2>1, <3>1, <3>2
  <2>4. /\ (active /\ ~jobsClosed)' = FALSE /\ IsStopping' = FALSE
        /\ \/ Lifecycle!Alive = {} /\ UNCHANGED GaveUpWaiting /\ TheLeftover' = TheLeftover
           \/ /\ GaveUpWaiting' = TRUE
              /\ TheLeftover' = IF Lifecycle!Alive = {} THEN "woken" ELSE "waits"
    BY <2>1, <2>3 DEF GaveUpWaiting, IsStopping
  <2>5. Lifecycle!StopEnds
    BY <1>1, <1>2, <2>1, <2>2, <2>4
    DEF Lifecycle!StopEnds, TheWorker, TheAccepted, TheLeftover, IsStopping
  <2> QED BY <2>5 DEF Lifecycle!Next
<1>5. CASE StopCloseQuit \/ StopDrained \/ StopTimeout \/ StopContext \/ StopReturn
  <2>1. /\ UNCHANGED <<cancelled, jobsClosed>>
        /\ (active /\ ~jobsClosed)' <=> (active /\ ~jobsClosed)
        /\ Started' <=> Started
        /\ GaveUpWaiting' <=> GaveUpWaiting
        /\ IsStopping' <=> IsStopping
    BY <1>5 DEF StopCloseQuit, StopDrained, StopTimeout, StopContext, StopReturn, StopWaitEnds,
       IndInv, LifecycleInv, IsStopping, Started, GaveUpWaiting
  <2>2. UNCHANGED Lifecycle!vars
    BY <1>1, <1>2, <2>1, Unseen
  <2> QED BY <2>2
<1> QED BY <1>3, <1>4, <1>5 DEF StopStep

\* Busy workers and those on their way back are different to PoolLifecycle.
LEMMA WorkerCalls ==
    ASSUME IndInv, QuitInv, ~crashed, NEW w \in Workers, WorkerStep(w)
    PROVE  [Lifecycle!Next]_Lifecycle!vars
<1> USE DEF poolVars, lifecycle, contexts, queueVars
<1>1. /\ pc \in [Workers -> Locations] /\ jobChan \in Seq(Jobs) /\ pc[w] # "none"
      /\ UNCHANGED <<active, cancelled, jobsClosed, stopPc, outcome, status>>
      /\ parentDone' = parentDone /\ (quitClosed => cancelled)
      /\ locked <=> stopPc \in {"cancelled", "waiting", "closing", "closed"}
      /\ \A v \in Workers \ {w} : pc'[v] = pc[v]
  <2>1. /\ UNCHANGED <<active, cancelled, parentDone, jobsClosed, stopPc, outcome, status>>
        /\ pc[w] # "none"
    BY DEF WorkerStep, Receive, ReceiveNil, Quit, Acquire, AcquireCancelled, HandlerSucceeds,
       HandlerFails, BackoffElapsed, BackoffCancelled, Refresh, Settle, Release
  <2>2. \A v \in Workers \ {w} : pc'[v] = pc[v]
    BY StepOfOneWorker DEF IndInv, ReceiveNil, workerVars
  <2> QED BY <2>1, <2>2 DEF IndInv, TypeOK, LifecycleInv, QuitInv
<1>2. Started /\ Started'
  BY <1>1 DEF IndInv, LifecycleInv, TypeOK, Started
<1>3. PICK i \in Ids : Order[i] = w
  BY Numbering
<1>4. /\ \A v \in Workers \ {w} : View(v)' = View(v)
      /\ TheAccepted' = TheAccepted
      /\ UNCHANGED <<IsStopping, GaveUpWaiting, active /\ ~jobsClosed>>
  BY <1>1 DEF View, TheAccepted, IsStopping, GaveUpWaiting
<1>5. /\ i \in DOMAIN TheWorker /\ TheWorker[i] = View(w)
      /\ TheWorker' = [TheWorker EXCEPT ![i] = View(w)']
  BY <1>2, <1>3, <1>4, OneMoves
<1>6. TheLeftover' = TheLeftover \/ pc'[w] = "exited"
  <2>1. ASSUME pc'[w] # "exited", AllExited PROVE FALSE
    BY <1>1, <2>1 DEF AllExited, WorkerStep, Receive, ReceiveNil, Quit, Acquire,
       AcquireCancelled, HandlerSucceeds, HandlerFails, BackoffElapsed, BackoffCancelled,
       Refresh, Settle, Release
  <2>2. ASSUME pc'[w] # "exited" PROVE ~AllExited'
    BY <2>2 DEF AllExited
  <2> QED BY <1>4, <2>1, <2>2 DEF TheLeftover
<1> HIDE DEF poolVars, lifecycle, contexts, queueVars
<1>7. CASE Receive(w)
  <2>1. /\ View(w) = "select" /\ View(w)' = "working" /\ pc'[w] # "exited" /\ crashed' = crashed
        /\ Len(jobChan) > 0 /\ Len(jobChan') = Len(jobChan) - 1
    <3>1. /\ pc[w] = "select" /\ pc'[w] = "acquire" /\ crashed' = crashed
          /\ jobChan # <<>> /\ jobChan' = Tail(jobChan)
      BY <1>1, <1>7 DEF Receive
    <3>2. Len(jobChan) > 0 /\ Len(Tail(jobChan)) = Len(jobChan) - 1
      BY <1>1, <3>1
    <3> QED BY <3>1, <3>2 DEF View, Busy
  <2>2. Lifecycle!Receive(i)
    BY <1>1, <1>2, <1>4, <1>5, <1>6, <2>1
    DEF Lifecycle!Receive, Lifecycle!Move, TheWorker, TheAccepted, TheLeftover, IsStopping
  <2> QED BY <1>5, <2>2 DEF Lifecycle!Next, Lifecycle!WorkerStep, TheWorker
<1>8. CASE Refresh(w) \/ AcquireCancelled(w)
  <2>1. /\ View(w) = "working" /\ View(w)' = "select" /\ pc'[w] # "exited"
        /\ ~IsStopping \/ parentDone
        /\ UNCHANGED <<crashed, jobChan>>
    BY <1>1, <1>8 DEF Refresh, ReadLock, AcquireCancelled, JobContextDone, View, Busy,
       IsStopping, poolVars, queueVars
  <2>2. Lifecycle!JobEnds(i)
    BY <1>1, <1>2, <1>4, <1>5, <1>6, <2>1
    DEF Lifecycle!JobEnds, Lifecycle!Move, Lifecycle!pool,
        TheWorker, TheAccepted, TheLeftover, IsStopping
  <2> QED BY <1>5, <2>2 DEF Lifecycle!Next, Lifecycle!WorkerStep, TheWorker
<1>9. CASE ReceiveNil(w)
  <2>1. /\ View(w) = "select" /\ View(w)' = "select" /\ pc' = pc /\ crashed' = TRUE
        /\ jobsClosed /\ Len(jobChan) = 0 /\ jobChan' = jobChan
    BY <1>1, <1>9 DEF ReceiveNil, View, Busy, queueVars, workerVars
  <2>2. TheWorker' = TheWorker /\ TheLeftover' = TheLeftover
    BY <1>2, <1>4, <1>5, <2>1 DEF TheLeftover, AllExited, TheWorker
  <2>3. Lifecycle!ReceiveNil(i)
    BY <1>1, <1>2, <1>4, <1>5, <2>1, <2>2
    DEF Lifecycle!ReceiveNil, Lifecycle!Panics, Lifecycle!pool,
        TheWorker, TheAccepted, TheLeftover, IsStopping
  <2> QED BY <1>5, <2>3 DEF Lifecycle!Next, Lifecycle!WorkerStep, TheWorker
<1>10. CASE Quit(w)
  <2>1. /\ View(w) = "select" /\ View(w)' = "ended" /\ UNCHANGED <<crashed, jobChan>>
        /\ cancelled \/ parentDone
        /\ pc[w] = "select" /\ pc'[w] = "exited"
    BY <1>1, <1>10 DEF Quit, QuitReady, View, Busy, poolVars, queueVars
  <2>2. /\ ~AllExited
        /\ AllExited' <=> Lifecycle!Alive = {i}
    BY <1>1, <1>2, <1>3, <2>1, NobodyAlive, Numbering DEF AllExited
  <2>3. TheLeftover' = IF TheLeftover = "waits" /\ Lifecycle!Alive = {i} THEN "woken"
                       ELSE TheLeftover
    BY <1>4, <2>2 DEF TheLeftover
  <2>4. Lifecycle!Quit(i)
    BY <1>1, <1>2, <1>4, <1>5, <2>1, <2>3
    DEF Lifecycle!Quit, Lifecycle!Move, Lifecycle!pool,
        TheWorker, TheAccepted, TheLeftover, IsStopping
  <2> QED BY <1>5, <2>4 DEF Lifecycle!Next, Lifecycle!WorkerStep, TheWorker
<1>11. CASE \/ Acquire(w) \/ HandlerSucceeds(w) \/ HandlerFails(w) \/ BackoffElapsed(w)
            \/ BackoffCancelled(w) \/ Settle(w) \/ Release(w)
  <2>1. View(w)' = View(w) /\ UNCHANGED <<crashed, jobChan>>
    BY <1>1, <1>11 DEF Acquire, HandlerSucceeds, HandlerFails, BackoffElapsed, BackoffCancelled,
       Settle, Release, View, Busy, poolVars, queueVars
  <2>2. UNCHANGED Lifecycle!vars
    BY <1>1, <1>2, <1>4, <2>1, Unseen
  <2> QED BY <2>2
<1> QED BY <1>7, <1>8, <1>9, <1>10, <1>11 DEF WorkerStep

LEMMA CallsStep ==
    ASSUME IndInv, QuitInv, IsFiniteSet(Jobs), [Next]_vars
    PROVE  [Lifecycle!Next]_Lifecycle!vars
<1>1. CASE ~crashed /\ Start
  BY <1>1, StartCalls DEF Lifecycle!Next
<1>2. CASE ~crashed /\ \E j \in Jobs : SubmitAccepted(j)
  BY <1>2, AcceptCalls DEF Lifecycle!Next
<1>3. CASE ~crashed /\ (StopBegin \/ StopStep)
  BY <1>3, StopCalls
<1>4. CASE ~crashed /\ \E w \in Workers : WorkerStep(w)
  BY <1>4, WorkerCalls
<1>5. CASE \/ CancelSubmit \/ (~crashed /\ CancelParent) \/ UNCHANGED vars
           \/ \E j \in Jobs : SubmitRefused(j)
  <2>1. /\ UNCHANGED <<lifecycle, jobChan, crashed, pc>>
        /\ \/ parentDone' = parentDone
           \/ ~parentDone /\ parentDone' = TRUE /\ ~crashed
        /\ TheAccepted' = TheAccepted
    <3>1. CASE \E j \in Jobs : SubmitRefused(j)
      <4>1. PICK j \in Jobs : SubmitRefused(j)
        BY <3>1
      <4>2. {k \in Jobs : status'[k] = "sent"} = {k \in Jobs : status[k] = "sent"}
        BY <4>1 DEF SubmitRefused, IndInv, TypeOK
      <4> QED BY <4>1, <4>2 DEF SubmitRefused, contexts, workerVars, TheAccepted
    <3> QED BY <1>5, <3>1 DEF CancelSubmit, CancelParent, vars, poolVars, queueVars, workerVars,
            contexts, TheAccepted
  <2>2. TheWorker' = TheWorker /\ TheLeftover' = TheLeftover
    BY <2>1 DEF lifecycle, TheWorker, TheLeftover, View, AllExited, GaveUpWaiting, Started
  <2>3. UNCHANGED <<IsStopping, GaveUpWaiting, active /\ ~jobsClosed, Started>>
    BY <2>1 DEF lifecycle, IsStopping, GaveUpWaiting, Started
  <2>4. CASE parentDone' = parentDone
    <3>1. UNCHANGED Lifecycle!vars
      BY <2>1, <2>2, <2>3, <2>4
      DEF lifecycle, Lifecycle!vars, Lifecycle!pool, TheWorker, TheAccepted, TheLeftover,
          IsStopping
    <3> QED BY <3>1
  <2>5. CASE ~parentDone /\ parentDone' = TRUE /\ ~crashed
    <3>1. Lifecycle!RootEnds
      BY <2>1, <2>2, <2>3, <2>5
      DEF lifecycle, Lifecycle!RootEnds, TheWorker, TheAccepted, TheLeftover, IsStopping
    <3> QED BY <2>5, <3>1 DEF Lifecycle!Next
  <2> QED BY <2>1, <2>4, <2>5
<1> QED BY <1>1, <1>2, <1>3, <1>4, <1>5 DEF Next, Environment, Done

(* The pool implements PoolLifecycle for any finite sets of workers and     *)
(* jobs: what main does with it is one of the call sequences considered     *)
(* there, and its ends, the nil job after a forced stop included, are ends  *)
(* that module knows.                                                       *)
THEOREM PoolImplementsLifecycle ==
    ASSUME IsFiniteSet(Jobs) PROVE Spec => ImplementsPoolLifecycle
<1>1. IndInv /\ QuitInv /\ [Next]_vars => [Lifecycle!Next]_Lifecycle!vars
  BY CallsStep
<1> QED BY <1>1, InitCalls, Invariance, QuitInvariance, PTL
    DEF Spec, ImplementsPoolLifecycle, Lifecycle!Spec
=============================================================================
