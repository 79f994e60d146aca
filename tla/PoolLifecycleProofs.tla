------------------------- MODULE PoolLifecycleProofs -------------------------
(***************************************************************************)
(* Theorems about PoolLifecycle, for pools of any size and any order of    *)
(* calls.  The flags of Stop tell how often Start has succeeded, and when  *)
(* the first workers are known to have ended.                              *)
(***************************************************************************)
EXTENDS PoolLifecycle, TLAPS

AllEnded == \A i \in DOMAIN worker : worker[i] = "ended"

\* A Stop opens with quitChan and ends with jobChan; the pool is as Start left
\* it until then.
StopInv ==
    /\ stopping => quitClosed /\ ~jobsClosed
    /\ quitClosed => stopping \/ jobsClosed
    /\ jobsClosed => quitClosed /\ starts > 0
    /\ ~jobsClosed => starts = IF active THEN 1 ELSE 0
    /\ stopping => active
    /\ jobsClosed /\ active => starts > 1

\* The workers of the only Start have ended when a Stop waited for them.
WorkersInv ==
    /\ leftover # "none" => jobsClosed
    /\ starts = 1 /\ jobsClosed /\ (leftover = "woken" \/ ~forced) => AllEnded

IndInv ==
    /\ RestartInv /\ StopInv /\ WorkersInv
    /\ worker \in [1 .. size * starts -> {"select", "working", "ended"}]

LEMMA AliveIsNobody == Alive = {} <=> AllEnded
BY DEF Alive, AllEnded

LEMMA Types ==
    ASSUME IndInv
    PROVE  /\ size \in Sizes /\ size \in Nat /\ starts \in Nat /\ starts <= MaxStarts
           /\ queue \in 0 .. 2 * size /\ accepted \in 0 .. MaxJobs /\ MaxStarts \in Nat
           /\ MaxJobs \in Nat
           /\ {active, rootDone, quitClosed, jobsClosed, stopping, forced} \subseteq BOOLEAN
           /\ leftover \in {"none", "waits", "woken"}
           /\ worker \in [1 .. size * starts -> {"select", "working", "ended"}]
BY SizesAssumption, LifecycleBounds DEF IndInv, RestartInv, TypeOK

\* A step that leaves the workers and the size alone has the flags to keep.
LEMMA PoolKept ==
    ASSUME IndInv, panic = "none",
           size' = size, starts' = starts, worker' = worker, panic' = "none",
           queue' \in 0 .. 2 * size, accepted' \in 0 .. MaxJobs,
           {active', rootDone', quitClosed', jobsClosed', stopping', forced'} \subseteq BOOLEAN,
           leftover' \in {"none", "waits", "woken"},
           StopInv', WorkersInv'
    PROVE  IndInv'
<1>1. TypeOK'
  BY Types DEF IndInv, RestartInv, TypeOK
<1>2. PanicNeedsRestart'
  BY DEF PanicNeedsRestart
<1>3. worker' \in [1 .. size' * starts' -> {"select", "working", "ended"}]
  BY Types
<1> QED BY <1>1, <1>2, <1>3 DEF IndInv, RestartInv

LEMMA StartKeeps ==
    ASSUME IndInv, panic = "none", Start
    PROVE  IndInv'
<1>1. /\ size' = size /\ rootDone' = rootDone /\ quitClosed' = quitClosed /\ jobsClosed' = jobsClosed /\ queue' = queue
      /\ accepted' = accepted /\ forced' = forced /\ stopping' = stopping
      /\ leftover' = leftover /\ panic' = panic
      /\ active' = TRUE /\ starts' = starts + 1 /\ starts < MaxStarts /\ ~stopping /\ ~active
      /\ worker' = [i \in 1 .. size * (starts + 1) |->
                       IF i \in DOMAIN worker THEN worker[i] ELSE "select"]
  BY DEF Start
<1>2. worker' \in [1 .. size' * starts' -> {"select", "working", "ended"}]
  <2>1. \A i \in DOMAIN worker : worker[i] \in {"select", "working", "ended"}
    BY Types
  <2> QED BY <1>1, <2>1
<1>3. TypeOK'
  <2>1. starts' \in 0 .. MaxStarts
    BY <1>1, Types
  <2>2. /\ DOMAIN worker' = 1 .. size' * starts'
        /\ \A i \in DOMAIN worker' : worker'[i] \in {"select", "working", "ended"}
    BY <1>2
  <2> QED BY <1>1, <2>1, <2>2, Types DEF IndInv, RestartInv, TypeOK
<1>4. PanicNeedsRestart' /\ StopInv'
  BY <1>1, Types DEF PanicNeedsRestart, IndInv, StopInv
<1>5. WorkersInv'
  BY <1>1, Types DEF IndInv, StopInv, WorkersInv
<1> QED BY <1>2, <1>3, <1>4, <1>5 DEF IndInv, RestartInv

LEMMA AcceptKeeps ==
    ASSUME IndInv, panic = "none", Accept
    PROVE  IndInv'
<1>1. /\ size' = size /\ starts' = starts /\ worker' = worker /\ panic' = "none"
      /\ active' = active /\ rootDone' = rootDone /\ quitClosed' = quitClosed /\ jobsClosed' = jobsClosed
      /\ forced' = forced /\ stopping' = stopping /\ leftover' = leftover
      /\ queue' \in 0 .. 2 * size /\ accepted' \in 0 .. MaxJobs
  BY Types DEF Accept, HasRoom
<1>2. StopInv' /\ WorkersInv'
  BY <1>1 DEF IndInv, StopInv, WorkersInv, AllEnded
<1> QED BY <1>1, <1>2, Types, PoolKept

LEMMA RootEndsKeeps ==
    ASSUME IndInv, panic = "none", RootEnds
    PROVE  IndInv'
<1>1. /\ size' = size /\ starts' = starts /\ worker' = worker /\ panic' = "none"
      /\ active' = active /\ rootDone' = TRUE /\ quitClosed' = quitClosed
      /\ jobsClosed' = jobsClosed /\ forced' = forced /\ stopping' = stopping
      /\ leftover' = leftover /\ queue' = queue /\ accepted' = accepted
  BY DEF RootEnds
<1>2. StopInv' /\ WorkersInv'
  BY <1>1 DEF IndInv, StopInv, WorkersInv, AllEnded
<1> QED BY <1>1, <1>2, Types, PoolKept

LEMMA StopKeeps ==
    ASSUME IndInv, panic = "none", panic' = "none",
           StopBegins \/ StopEnds \/ LeftoverReturns
    PROVE  IndInv'
<1>1. /\ size' = size /\ starts' = starts /\ worker' = worker
      /\ queue' = queue /\ accepted' = accepted
      /\ {active', rootDone', quitClosed', jobsClosed', stopping', forced'} \subseteq BOOLEAN
      /\ leftover' \in {"none", "waits", "woken"}
  BY Types DEF StopBegins, StopEnds, LeftoverReturns, Panics, pool
<1>2. CASE StopBegins
  <2>1. /\ quitClosed' = TRUE /\ stopping' = TRUE /\ ~quitClosed /\ active /\ active' = active
        /\ jobsClosed' = jobsClosed /\ leftover' = leftover /\ forced' = forced
    BY <1>2 DEF StopBegins, StopAllowed, Panics
  <2> QED BY <1>1, <2>1, Types, PoolKept DEF IndInv, StopInv, WorkersInv
<1>3. CASE StopEnds
  <2>1. /\ stopping /\ stopping' = FALSE /\ jobsClosed' = TRUE /\ active' = FALSE
        /\ quitClosed' = quitClosed
        /\ \/ AllEnded /\ forced' = forced /\ leftover' = leftover
           \/ forced' = TRUE /\ leftover' = IF AllEnded THEN "woken" ELSE "waits"
    BY <1>3, AliveIsNobody DEF StopEnds
  <2>2. AllEnded' <=> AllEnded
    BY <1>1 DEF AllEnded
  <2> QED BY <1>1, <2>1, <2>2, Types, PoolKept DEF IndInv, StopInv, WorkersInv
<1>4. CASE LeftoverReturns
  <2>1. /\ stopping' = stopping /\ jobsClosed' = jobsClosed /\ active' = active
        /\ quitClosed' = quitClosed /\ forced' = forced /\ leftover' = "none"
    BY <1>4 DEF LeftoverReturns, Panics, pool
  <2>2. AllEnded' <=> AllEnded
    BY <1>1 DEF AllEnded
  <2> QED BY <1>1, <2>1, <2>2, Types, PoolKept DEF IndInv, StopInv, WorkersInv
<1> QED BY <1>2, <1>3, <1>4

LEMMA WorkerKeeps ==
    ASSUME IndInv, panic = "none",
           NEW i \in DOMAIN worker, Receive(i) \/ JobEnds(i) \/ Quit(i)
    PROVE  IndInv'
<1> DEFINE States == {"select", "working", "ended"}
<1>1. /\ size' = size /\ starts' = starts /\ panic' = "none" /\ forced' = forced
      /\ active' = active /\ rootDone' = rootDone /\ quitClosed' = quitClosed /\ jobsClosed' = jobsClosed
      /\ stopping' = stopping /\ accepted' = accepted /\ queue' \in 0 .. 2 * size
      /\ leftover' \in {"none", "waits", "woken"} /\ worker[i] # "ended"
      /\ \E s \in States : worker' = [worker EXCEPT ![i] = s]
  BY Types DEF Receive, JobEnds, Quit, Move, pool
<1>2. worker' \in [1 .. size' * starts' -> States]
  BY <1>1, Types
<1>3. TypeOK'
  <2>1. DOMAIN worker' = 1 .. size' * starts' /\ \A j \in DOMAIN worker' : worker'[j] \in States
    BY <1>2
  <2> QED BY <1>1, <2>1, Types DEF IndInv, RestartInv, TypeOK
<1>4. PanicNeedsRestart' /\ StopInv'
  BY <1>1 DEF PanicNeedsRestart, IndInv, StopInv
<1>5. WorkersInv'
  <2>1. ~AllEnded
    BY <1>1 DEF AllEnded
  <2>2. CASE leftover' = leftover
    BY <1>1, <2>1, <2>2 DEF IndInv, WorkersInv
  <2>3. CASE leftover' # leftover
    <3>1. leftover = "waits" /\ leftover' = "woken" /\ Alive = {i}
          /\ worker' = [worker EXCEPT ![i] = "ended"]
      BY <1>1, <2>3 DEF Receive, JobEnds, Quit, Move
    <3>2. AllEnded'
      BY <3>1, Types DEF AllEnded, Alive
    <3> QED BY <1>1, <3>1, <3>2 DEF IndInv, WorkersInv
  <2> QED BY <2>2, <2>3
<1> QED BY <1>2, <1>3, <1>4, <1>5 DEF IndInv, RestartInv

(* Whatever kills the process, a second Start or a Stop that gave up came   *)
(* before.                                                                  *)
LEMMA DeathKeeps ==
    ASSUME IndInv, panic = "none",
           \/ SendOnClosed
           \/ StopBegins /\ panic' # "none"
           \/ LeftoverReturns /\ panic' # "none"
           \/ \E i \in DOMAIN worker : ReceiveNil(i)
    PROVE  IndInv'
<1>1. /\ UNCHANGED <<pool, worker, stopping, leftover>>
      /\ panic' \in {"nil_job", "send_on_closed", "close_of_closed", "waitgroup_reused"}
  BY DEF SendOnClosed, StopBegins, LeftoverReturns, ReceiveNil, Panics
<1>2. /\ size' = size /\ starts' = starts /\ worker' = worker /\ queue' = queue
      /\ accepted' = accepted /\ active' = active /\ quitClosed' = quitClosed
      /\ rootDone' = rootDone /\ jobsClosed' = jobsClosed /\ forced' = forced /\ stopping' = stopping
      /\ leftover' = leftover
  BY <1>1 DEF pool
<1>3. starts > 1 \/ (panic' = "nil_job" /\ forced)
  <2>1. CASE SendOnClosed
    BY <2>1 DEF SendOnClosed, CanSubmit, IndInv, StopInv
  <2>2. CASE StopBegins /\ panic' # "none"
    <3>1. active /\ ~stopping /\ quitClosed
      BY <2>2, <1>2 DEF StopBegins, StopAllowed
    <3> QED BY <3>1 DEF IndInv, StopInv
  <2>3. CASE LeftoverReturns /\ panic' # "none"
    <3>1. leftover = "woken" /\ ~AllEnded
      BY <2>3, AliveIsNobody DEF LeftoverReturns
    <3> QED BY <3>1, Types DEF IndInv, StopInv, WorkersInv
  <2>4. ASSUME NEW i \in DOMAIN worker, ReceiveNil(i)
        PROVE  starts > 1 \/ (panic' = "nil_job" /\ forced)
    <3>1. jobsClosed /\ ~AllEnded /\ panic' = "nil_job"
      BY <2>4 DEF ReceiveNil, Panics, AllEnded
    <3> QED BY <3>1, Types DEF IndInv, StopInv, WorkersInv
  <2> QED BY <2>1, <2>2, <2>3, <2>4
<1>4. RestartInv'
  BY <1>1, <1>2, <1>3 DEF IndInv, RestartInv, TypeOK, PanicNeedsRestart
<1>5. StopInv' /\ WorkersInv' /\ worker' \in [1 .. size' * starts' -> {"select", "working", "ended"}]
  BY <1>2 DEF IndInv, StopInv, WorkersInv, AllEnded
<1> QED BY <1>4, <1>5 DEF IndInv

LEMMA IndStep ==
    ASSUME IndInv, [Next]_vars
    PROVE  IndInv'
<1>1. CASE UNCHANGED vars
  <2>1. /\ size' = size /\ starts' = starts /\ worker' = worker /\ queue' = queue
        /\ accepted' = accepted /\ active' = active /\ quitClosed' = quitClosed
        /\ rootDone' = rootDone /\ jobsClosed' = jobsClosed /\ forced' = forced /\ stopping' = stopping
        /\ leftover' = leftover /\ panic' = panic
    BY <1>1 DEF vars, pool
  <2> QED BY <2>1 DEF IndInv, RestartInv, TypeOK, PanicNeedsRestart, StopInv,
                      WorkersInv, AllEnded
<1>2. CASE /\ panic = "none"
           /\ \/ Start \/ RootEnds \/ Accept \/ SendOnClosed \/ StopBegins
              \/ StopEnds \/ LeftoverReturns
              \/ \E i \in DOMAIN worker : WorkerStep(i)
  <2>1. StopEnds => panic' = "none"
    BY <1>2 DEF StopEnds
  <2> QED BY <1>2, <2>1, StartKeeps, RootEndsKeeps, AcceptKeeps, StopKeeps, WorkerKeeps, DeathKeeps
          DEF WorkerStep
<1> QED BY <1>1, <1>2 DEF Next

LEMMA InitInv ==
    ASSUME Init
    PROVE  IndInv
<1>1. /\ size \in Sizes /\ size \in Nat /\ worker = <<>> /\ starts = 0 /\ queue = 0 /\ accepted = 0
      /\ active = FALSE /\ rootDone = FALSE /\ quitClosed = FALSE /\ jobsClosed = FALSE /\ stopping = FALSE
      /\ forced = FALSE /\ leftover = "none" /\ panic = "none"
  BY SizesAssumption DEF Init
<1>2. 1 .. size * starts = {} /\ DOMAIN worker = {}
  BY <1>1
<1>3. worker \in [1 .. size * starts -> {"select", "working", "ended"}]
  BY <1>1, <1>2
<1>4. 0 \in 0 .. MaxStarts /\ 0 \in 0 .. MaxJobs /\ 0 \in 0 .. 2 * size
  BY <1>1, LifecycleBounds
<1>5. RestartInv
  BY <1>1, <1>2, <1>4 DEF RestartInv, TypeOK, PanicNeedsRestart
<1> QED BY <1>1, <1>3, <1>5 DEF IndInv, StopInv, WorkersInv

(* Whatever order Start, Stop and SubmitJob are called in, and with any      *)
(* number of workers, the process dies only behind a second Start or a Stop  *)
(* that gave up.                                                             *)
THEOREM CallsAreRefused == Spec => []RestartInv
<1>1. IndInv => RestartInv
  BY DEF IndInv
<1> QED BY <1>1, InitInv, IndStep, PTL DEF Spec

(* Once Stop has begun no job is accepted, by a Start that reports success   *)
(* neither; and a pool without workers accepts none at all.                  *)
THEOREM StoppedTakesNothing == Spec => StoppedForGood
<1>1. ASSUME IndInv, [Next]_vars, accepted' > accepted
      PROVE  ~quitClosed /\ size > 0 /\ starts = 1
  <2>1. accepted \in Nat /\ queue \in Nat /\ size \in Nat
    BY Types, <1>1
  <2>2. accepted' # accepted
    BY <1>1, <2>1
  <2>3. Accept
    BY <1>1, <2>2 DEF Next, vars, pool, Start, RootEnds, SendOnClosed, StopBegins,
       StopEnds, LeftoverReturns, WorkerStep, Receive, JobEnds,
       ReceiveNil, Quit, Panics
  <2>4. active /\ ~stopping /\ ~jobsClosed /\ queue < 2 * size
    BY <2>3 DEF Accept, CanSubmit, HasRoom
  <2> QED BY <1>1, <2>1, <2>4 DEF IndInv, StopInv
<1> QED BY <1>1, InitInv, IndStep, PTL DEF Spec, StoppedForGood
==============================================================================
