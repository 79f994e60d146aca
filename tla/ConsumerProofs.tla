--------------------------- MODULE ConsumerProofs ---------------------------
(***************************************************************************)
(* Theorems about Consumer, for any messages, workers, retries and lives.  *)
(* What the pool does is not proved again: WorkerPoolProofs is instantiated *)
(* over the consumer's variables, as WorkerPool is in Consumer.            *)
(***************************************************************************)
EXTENDS Consumer, FiniteSetTheorems, SequenceTheorems, TLAPS

Pool == INSTANCE WorkerPoolProofs WITH Jobs <- Messages, ParentCancels <- FALSE

-----------------------------------------------------------------------------
(* The inductive invariant: who has the one delivery of the prefetch window. *)

\* The deliveries between the broker and their settlement in this process.
Waiting   == Range(buffer) \cup ({cur} \ {None})
InPool    == Range(jobChan) \cup ({job[w] : w \in Workers} \ {None})
Unsettled == {m \in InPool : settled[m] = <<>>}
InHand    == Waiting \cup Unsettled

\* Where main is says what else is started, cancelled or closed.
MainInv ==
    /\ mainPc # "down" => lives > 0
    /\ connected => mainPc \in {"starting", "running", "stopping"}
    /\ mainPc = "starting" => consumerPc = "none"
    /\ mainPc = "running" => active /\ stopPc = "idle"
    /\ mainPc \in {"stopping", "closed"} => submitDone
    /\ consumerPc = "none" => buffer = <<>>
    /\ cur = None <=> consumerPc # "process"

\* One message at a time is on its way; only its delivery is unacknowledged,
\* and for as long as the connection is there that is so.
HandInv ==
    /\ \A m, n \in Unacked : m = n
    /\ \A m, n \in InHand : m = n
    /\ Len(buffer) <= 1 /\ (buffer # <<>> => cur = None)
    /\ \A m \in Waiting : status[m] = "new"
    /\ \A m \in InHand : broker[m] = IF connected THEN "unacked" ELSE "ready"

BrokerInv ==
    /\ connected => \A m \in Messages : broker[m] = "ready" => status[m] = "new"
    /\ ~connected => Unacked = {}
    /\ \A m \in Messages : broker[m] # "dlq"

\* The history of a message: what happened to it in this life is part of it.
HandledInv ==
    \A m \in Messages :
        /\ okCalls[m] <= 1
        /\ okCalls[m] > 0 => m \in handled

\* A delivery that was not acknowledged is in somebody's hands.
OrphanInv ==
    mainPc # "down" => \A m \in Unacked : m \in InHand \/ submitDone \/ Workers = {}

ProcessInv == /\ ProcessTypeOK /\ MainInv /\ HandInv /\ BrokerInv
              /\ HandledInv /\ OrphanInv /\ AckedWasHandled

IndInv == Pool!IndInv /\ ProcessInv

-----------------------------------------------------------------------------
(* The pool of Consumer is the pool of these theorems. *)
LEMMA SameSets ==
    ASSUME NEW S
    PROVE  /\ P!IsFiniteSet(S) <=> IsFiniteSet(S)
           /\ Pool!IsFiniteSet(S) <=> IsFiniteSet(S)
           /\ P!Cardinality(S) = Cardinality(S)
           /\ Pool!Cardinality(S) = Cardinality(S)
BY DEF P!IsFiniteSet, Pool!IsFiniteSet, IsFiniteSet,
       P!Cardinality, Pool!Cardinality, Cardinality

LEMMA SameRange ==
    ASSUME NEW f
    PROVE  /\ P!Range(f) = Range(f) /\ Pool!Range(f) = Range(f)
           /\ Pool!IsInjective(f) <=> IsInjective(f)
BY DEF P!Range, Pool!Range, Range, Pool!IsInjective, IsInjective

LEMMA PoolStep == Pool!IndInv /\ [Pool!Next]_(Pool!vars) => Pool!IndInv'
<1>1. Pool!IsFiniteSet(Workers)
  BY SameSets, PoolAssumption
<1> QED BY <1>1, PoolAssumption, MessagesAssumption, Pool!IndStep

LEMMA SamePool ==
    /\ P!Init <=> Pool!Init
    /\ P!TypeOK <=> Pool!TypeOK
    /\ Pool!Queued = Range(jobChan) /\ P!Queued \cup P!Held = InPool
    /\ P!HasRoom <=> Len(jobChan) < 2 * Cardinality(Workers)
<1>1. P!Init <=> Pool!Init
  BY DEF P!Init, Pool!Init
<1>2. P!TypeOK <=> Pool!TypeOK
  BY SameSets DEF P!TypeOK, Pool!TypeOK, P!Capacity, Pool!Capacity, P!Locations,
                  Pool!Locations
<1>3. Pool!Queued = Range(jobChan) /\ P!Queued \cup P!Held = InPool
  BY SameRange DEF P!Queued, Pool!Queued, P!Held, InPool
<1>4. P!HasRoom <=> Len(jobChan) < 2 * Cardinality(Workers)
  BY SameSets DEF P!HasRoom, P!Capacity
<1> QED BY <1>1, <1>2, <1>3, <1>4

LEMMA SameNext == (P!Next <=> Pool!Next) /\ (UNCHANGED Pool!vars <=> UNCHANGED poolVars)
<1>1. UNCHANGED Pool!vars <=> UNCHANGED poolVars
  BY DEF Pool!vars, poolVars, Pool!poolVars, Pool!lifecycle, Pool!contexts,
         Pool!queueVars, Pool!workerVars, Pool!history
<1>2. P!Environment <=> Pool!Environment
  BY SameSets DEF P!Environment, Pool!Environment, P!Start, Pool!Start,
     P!StopBegin, Pool!StopBegin, P!CancelSubmit, Pool!CancelSubmit,
     P!CancelParent, Pool!CancelParent, P!SubmitAccepted, Pool!SubmitAccepted,
     P!SubmitRefused, Pool!SubmitRefused, P!ReadLock, Pool!ReadLock,
     P!HasRoom, Pool!HasRoom, P!Capacity, Pool!Capacity,
     P!lifecycle, P!contexts, P!queueVars, P!workerVars, P!history,
     Pool!lifecycle, Pool!contexts, Pool!queueVars, Pool!workerVars, Pool!history
<1>3. P!StopStep <=> Pool!StopStep
  BY DEF P!StopStep, Pool!StopStep, P!StopCloseQuit, Pool!StopCloseQuit,
     P!StopDrained, Pool!StopDrained, P!StopTimeout, Pool!StopTimeout,
     P!StopContext, Pool!StopContext, P!StopWaitEnds, Pool!StopWaitEnds,
     P!StopCloseJobs, Pool!StopCloseJobs, P!StopReturn, Pool!StopReturn,
     P!contexts, P!queueVars, P!workerVars, P!history,
     Pool!contexts, Pool!queueVars, Pool!workerVars, Pool!history
<1>4. ASSUME NEW w \in Workers PROVE P!WorkerStep(w) <=> Pool!WorkerStep(w)
  BY SameSets DEF P!WorkerStep, Pool!WorkerStep, P!Receive, Pool!Receive,
     P!ReceiveNil, Pool!ReceiveNil, P!Quit, Pool!Quit,
     P!Acquire, Pool!Acquire, P!AcquireCancelled, Pool!AcquireCancelled,
     P!HandlerSucceeds, Pool!HandlerSucceeds,
     P!HandlerFails, Pool!HandlerFails,
     P!BackoffElapsed, Pool!BackoffElapsed,
     P!BackoffCancelled, Pool!BackoffCancelled, P!Refresh, Pool!Refresh,
     P!Settle, Pool!Settle, P!Release, Pool!Release,
     P!QuitReady, Pool!QuitReady, P!JobContextDone, Pool!JobContextDone,
     P!MaxPermits, Pool!MaxPermits, P!LastAttempt, Pool!LastAttempt,
     P!ReadLock, Pool!ReadLock, P!Verdict, Pool!Verdict,
     P!poolVars, Pool!poolVars, P!lifecycle, Pool!lifecycle,
     P!contexts, Pool!contexts, P!queueVars, Pool!queueVars,
     P!history, Pool!history, P!workerVars, Pool!workerVars
<1>5. P!Done <=> Pool!Done
  BY <1>1 DEF P!Done, Pool!Done, P!vars, P!poolVars, P!lifecycle, P!contexts,
     P!queueVars, P!workerVars, P!history, poolVars
<1> QED BY <1>1, <1>2, <1>3, <1>4, <1>5 DEF P!Next, Pool!Next

-----------------------------------------------------------------------------
(* What the proofs below use of the pool's invariant, in one place.         *)
LEMMA PoolFacts ==
    ASSUME Pool!IndInv
    PROVE  /\ jobChan \in Seq(Messages) /\ IsInjective(jobChan)
           /\ job \in [Workers -> Messages \cup {None}] /\ DOMAIN pc = Workers
           /\ status \in [Messages -> {"new", "sent", "refused"}]
           /\ okCalls \in [Messages -> Nat]
           /\ settled \in [Messages -> Seq({"ack", "reject"})]
           /\ stopPc = "idle" => ~cancelled
           /\ \A m \in Messages : status[m] # "sent" =>
                 m \notin InPool /\ okCalls[m] = 0 /\ settled[m] = <<>>
           /\ \A m \in Range(jobChan) : settled[m] = <<>>
           /\ \A v, w \in Workers : job[v] = job[w] /\ job[v] # None => v = w
           /\ \A w \in Workers :
                 /\ pc[w] \in {"handle", "settle", "release"} => job[w] \in Messages
                 /\ pc[w] = "select" => job[w] = None
                 /\ pc[w] = "handle" => okCalls[job[w]] = 0 /\ settled[job[w]] = <<>>
                 /\ pc[w] = "settle" => /\ settled[job[w]] = <<>>
                                        /\ failed[w] \/ okCalls[job[w]] = 1
                 /\ pc[w] = "release" => settled[job[w]] # <<>>
<1> USE DEF Pool!IndInv
<1>1. /\ jobChan \in Seq(Messages) /\ job \in [Workers -> Messages \cup {None}]
      /\ DOMAIN pc = Workers /\ status \in [Messages -> {"new", "sent", "refused"}]
      /\ okCalls \in [Messages -> Nat]
      /\ settled \in [Messages -> Seq({"ack", "reject"})]
  BY DEF Pool!TypeOK
<1>2. /\ IsInjective(jobChan)
      /\ \A v, w \in Workers : job[v] = job[w] /\ job[v] # None => v = w
  BY SameRange DEF Pool!ExclusiveOwnership
<1>3. stopPc = "idle" => ~cancelled
  BY DEF Pool!LifecycleInv
<1>4. ASSUME NEW m \in Messages, status[m] # "sent"
      PROVE  m \notin InPool /\ okCalls[m] = 0 /\ settled[m] = <<>>
  <2>1. m \notin Range(jobChan) /\ okCalls[m] = 0 /\ settled[m] = <<>>
    BY <1>4, SamePool DEF Pool!JobInv, Pool!Untried
  <2>2. ASSUME NEW w \in Workers, job[w] = m PROVE FALSE
    BY <1>4, <2>2, MessagesAssumption DEF Pool!WorkerInv
  <2> QED BY <2>1, <2>2 DEF InPool
<1>5. \A m \in Range(jobChan) : settled[m] = <<>>
  BY <1>1, SamePool DEF Pool!JobInv, Pool!Untried, Range
<1>6. ASSUME NEW w \in Workers
      PROVE  /\ pc[w] \in {"handle", "settle", "release"} => job[w] \in Messages
             /\ pc[w] = "select" => job[w] = None
             /\ pc[w] = "handle" => okCalls[job[w]] = 0 /\ settled[job[w]] = <<>>
             /\ pc[w] = "settle" => /\ settled[job[w]] = <<>>
                                    /\ failed[w] \/ okCalls[job[w]] = 1
             /\ pc[w] = "release" => settled[job[w]] # <<>>
  <2>1. Pool!WorkerInv(w) /\ job[w] \in Messages \cup {None}
    BY <1>1
  <2> QED BY <2>1 DEF Pool!WorkerInv
<1> QED BY <1>1, <1>2, <1>3, <1>4, <1>5, <1>6

(* The head of the channel is the one job that leaves it. *)
LEMMA HeadOfJobs ==
    ASSUME Pool!IndInv, jobChan # <<>>
    PROVE  /\ Head(jobChan) \in Messages /\ Head(jobChan) \in Range(jobChan)
           /\ Range(jobChan) = Range(Tail(jobChan)) \cup {Head(jobChan)}
<1>1. jobChan \in Seq(Messages) /\ Pool!IsInjective(jobChan)
  BY PoolFacts, SameRange
<1>2. /\ Head(jobChan) \in Messages /\ Head(jobChan) \in Pool!Range(jobChan)
      /\ Pool!Range(Tail(jobChan)) = Pool!Range(jobChan) \ {Head(jobChan)}
  <2>1. Pool!IsFiniteSet(Workers)
    BY SameSets, PoolAssumption
  <2> QED BY <1>1, <2>1, PoolAssumption, MessagesAssumption, Pool!TailRange
<1>3. Range(jobChan) = (Range(jobChan) \ {Head(jobChan)}) \cup {Head(jobChan)}
  BY <1>2, SameRange
<1> QED BY <1>2, <1>3, SameRange

(* A worker's step that neither calls the handler with success nor settles  *)
(* moves jobs inside the pool, and takes out only what is settled.          *)
LEMMA WorkerMovesFrame ==
    ASSUME Pool!IndInv, NEW w \in Workers, WorkerMoves(w)
    PROVE  /\ Unsettled' = Unsettled
           /\ UNCHANGED <<status, okCalls, submitDone, active, stopPc, processVars, handled>>
<1> USE DEF P!poolVars, P!lifecycle, P!contexts, P!queueVars, P!workerVars, P!history
<1>1. UNCHANGED <<status, okCalls, settled, submitDone, active, stopPc, processVars, handled>>
  BY DEF WorkerMoves, P!Receive, P!ReceiveNil, P!Quit, P!Acquire, P!HandlerFails,
         P!BackoffElapsed, P!Refresh, P!Release
<1>2. CASE P!Receive(w)
  <2>1. /\ Range(jobChan) = Range(Tail(jobChan)) \cup {Head(jobChan)}
        /\ Head(jobChan) \in Messages
    BY <1>2, HeadOfJobs DEF P!Receive
  <2>2. /\ jobChan' = Tail(jobChan) /\ job' = [job EXCEPT ![w] = Head(jobChan)]
        /\ job[w] = None
    BY <1>2, PoolFacts DEF P!Receive
  <2>3. InPool' = InPool
    BY <2>1, <2>2, PoolFacts, MessagesAssumption DEF InPool
  <2> QED BY <1>1, <2>3 DEF Unsettled
<1>3. CASE P!Release(w)
  <2>1. /\ jobChan' = jobChan /\ job' = [job EXCEPT ![w] = None]
        /\ settled[job[w]] # <<>>
    BY <1>3, PoolFacts DEF P!Release
  <2>2. InPool' \subseteq InPool /\ InPool \subseteq InPool' \cup {job[w]}
    BY <2>1, PoolFacts DEF InPool
  <2> QED BY <1>1, <2>1, <2>2 DEF Unsettled
<1>4. CASE jobChan' = jobChan /\ job' = job
  BY <1>1, <1>4 DEF Unsettled, InPool
<1> QED BY <1>2, <1>3, <1>4 DEF WorkerMoves, P!ReceiveNil, P!Quit, P!Acquire,
           P!HandlerFails, P!BackoffElapsed, P!Refresh

-----------------------------------------------------------------------------
(* A set whose elements are all the same. *)
LEMMA AtMostOne ==
    ASSUME NEW S, \A m, n \in S : m = n
    PROVE  /\ IsFiniteSet(S) /\ Cardinality(S) <= 1
           /\ Cardinality(S) < 1 => S = {}
<1>1. CASE S = {}
  BY <1>1, FS_EmptySet
<1>2. CASE S # {}
  <2>1. PICK m \in S : TRUE
    BY <1>2
  <2>2. S = {m}
    BY <2>1
  <2>3. IsFiniteSet({m}) /\ Cardinality({m}) = 1
    BY FS_Singleton
  <2> QED BY <2>2, <2>3
<1> QED BY <1>1, <1>2

(* A step of the pool that settles nothing and starts nothing. *)
LEMMA QuietStep ==
    ASSUME ProcessInv, UNCHANGED <<status, okCalls, submitDone, processVars, handled>>,
           Unsettled' = Unsettled, mainPc = "running" => active' /\ stopPc' = "idle"
    PROVE  ProcessInv'
<1>1. Waiting' = Waiting /\ InHand' = InHand /\ Unacked' = Unacked
  BY DEF Waiting, InHand, Unacked, processVars, brokerVars, consumerVars
<1> USE <1>1 DEF ProcessInv, processVars, brokerVars, consumerVars
<1>2. ProcessTypeOK' /\ MainInv'
  BY DEF ProcessTypeOK, MainInv
<1>3. HandInv' /\ BrokerInv'
  BY DEF HandInv, BrokerInv
<1>4. HandledInv' /\ OrphanInv' /\ AckedWasHandled'
  BY DEF HandledInv, OrphanInv, AckedWasHandled
<1> QED BY <1>2, <1>3, <1>4

LEMMA WorkerMovesInv ==
    ASSUME IndInv, NEW w \in Workers, WorkerMoves(w)
    PROVE  ProcessInv'
BY WorkerMovesFrame, QuietStep DEF IndInv, ProcessInv, MainInv

LEMMA StopPoolInv == ASSUME IndInv, StopPool PROVE ProcessInv'
<1>1. /\ UNCHANGED <<status, okCalls, settled, jobChan, job, submitDone, processVars, handled>>
      /\ mainPc # "running"
  BY DEF StopPool, P!StopBegin, P!StopStep, P!StopCloseQuit, P!StopDrained, P!StopTimeout,
         P!StopContext, P!StopWaitEnds, P!StopCloseJobs, P!StopReturn,
         P!contexts, P!queueVars, P!workerVars, P!history
<1>2. Unsettled' = Unsettled
  BY <1>1 DEF Unsettled, InPool
<1> QED BY <1>1, <1>2, QuietStep DEF IndInv

(* A successful handler call is counted once in this life: the message in   *)
(* the worker's hands was not handled in it before.                         *)
LEMMA WorkerHandlesInv ==
    ASSUME IndInv, Running, NEW w \in Workers, WorkerHandles(w)
    PROVE  ProcessInv'
<1> DEFINE m == job[w]
<1>1. /\ pc[w] = "handle" /\ m \in Messages /\ okCalls[m] = 0
      /\ okCalls \in [Messages -> Nat]
  BY PoolFacts DEF IndInv, WorkerHandles, P!HandlerSucceeds
<1>2. /\ UNCHANGED <<status, settled, jobChan, job, submitDone, active, stopPc, processVars>>
      /\ okCalls' = [okCalls EXCEPT ![m] = @ + 1]
      /\ handled' = handled \cup {m}
  BY DEF WorkerHandles, P!HandlerSucceeds, P!poolVars, P!lifecycle, P!contexts,
         P!queueVars
<1> HIDE DEF m
<1>3. /\ Waiting' = Waiting /\ InHand' = InHand /\ Unacked' = Unacked
  BY <1>2 DEF Waiting, InHand, Unsettled, InPool, Unacked, processVars, brokerVars,
              consumerVars
<1>5. handled' \subseteq Messages
  BY <1>1, <1>2 DEF IndInv, ProcessInv, ProcessTypeOK
<1> USE DEF IndInv, ProcessInv, processVars, brokerVars, consumerVars
<1>6. ProcessTypeOK' /\ MainInv'
  BY <1>2, <1>5 DEF ProcessTypeOK, MainInv
<1>7. HandInv' /\ BrokerInv' /\ OrphanInv'
  BY <1>2, <1>3 DEF HandInv, BrokerInv, OrphanInv
<1>8. HandledInv'
  <2>1. ASSUME NEW n \in Messages
        PROVE  okCalls'[n] <= 1 /\ (okCalls'[n] > 0 => n \in handled')
    <3>1. CASE n = m
      BY <1>1, <1>2, <3>1
    <3>2. CASE n # m
      BY <1>1, <1>2, <3>2 DEF HandledInv
    <3> QED BY <3>1, <3>2
  <2> QED BY <1>2, <2>1 DEF HandledInv
<1>9. AckedWasHandled'
  BY <1>2 DEF AckedWasHandled
<1> QED BY <1>6, <1>7, <1>8, <1>9

(* The settlement empties the hands of the process, and the broker's window *)
(* if it arrives.                                                           *)
LEMMA WorkerSettlesInv ==
    ASSUME IndInv, NEW w \in Workers, WorkerSettles(w)
    PROVE  ProcessInv'
<1> DEFINE m == job[w]
<1>1. /\ pc[w] = "settle" /\ m \in Messages /\ m \in InPool /\ settled[m] = <<>>
      /\ failed[w] \/ okCalls[m] = 1
      /\ settled \in [Messages -> Seq({"ack", "reject"})] /\ InPool \subseteq Messages
  <2>1. InPool \subseteq Messages
    BY PoolFacts DEF IndInv, InPool, Range
  <2>2. m \in Messages /\ pc[w] = "settle"
    BY PoolFacts DEF IndInv, WorkerSettles, P!Settle
  <2>3. m \in InPool
    BY <2>2, MessagesAssumption DEF InPool
  <2> QED BY <2>1, <2>2, <2>3, PoolFacts DEF IndInv
<1>2. m \in InHand
  BY <1>1 DEF InHand, Unsettled
<1>3. /\ UNCHANGED <<status, okCalls, jobChan, job, submitDone, active, stopPc, connected,
                     buffer, consumerPc, cur, mainPc, lives, handled>>
      /\ settled' = [settled EXCEPT ![m] = Append(@, P!Verdict(w))]
      /\ broker' = BrokerGets(m, P!Verdict(w))
  BY DEF WorkerSettles, P!Settle, P!poolVars, P!lifecycle, P!contexts, P!queueVars,
         consumerVars
<1>4. P!Verdict(w) \in {"ack", "reject"} /\ (P!Verdict(w) = "ack" => okCalls[m] = 1)
  BY <1>1 DEF P!Verdict
<1> HIDE DEF m
<1> USE DEF IndInv, ProcessInv
<1>5. InHand' = {}
  <2>1. settled'[m] # <<>>
    BY <1>1, <1>3, <1>4
  <2>2. InPool' = InPool /\ Unsettled' \subseteq Unsettled \ {m}
    BY <1>1, <1>3, <2>1 DEF InPool, Unsettled
  <2>3. Waiting = {}
    <3>1. status[m] # "new"
      BY <1>1, PoolFacts
    <3> QED BY <3>1, <1>2 DEF HandInv, InHand
  <2> QED BY <1>2, <1>3, <2>2, <2>3 DEF HandInv, InHand, Waiting
<1>6. broker' = [broker EXCEPT ![m] = IF ~connected THEN broker[m]
                   ELSE IF P!Verdict(w) = "ack" THEN "acked" ELSE "discarded"]
  BY <1>1, <1>3 DEF BrokerGets, RejectedTo, ProcessTypeOK
<1>7. broker[m] = IF connected THEN "unacked" ELSE "ready"
  BY <1>2 DEF HandInv
<1>8. Unacked' = {}
  BY <1>1, <1>2, <1>6, <1>7 DEF Unacked, HandInv, BrokerInv, ProcessTypeOK
<1>9. ProcessTypeOK' /\ MainInv'
  BY <1>1, <1>3, <1>6, <1>7 DEF ProcessTypeOK, MainInv
<1>10. HandInv'
  BY <1>3, <1>5, <1>8 DEF HandInv, InHand
<1>11. BrokerInv' /\ HandledInv' /\ OrphanInv'
  BY <1>1, <1>3, <1>6, <1>7, <1>8 DEF BrokerInv, HandledInv, OrphanInv, ProcessTypeOK
<1>12. AckedWasHandled'
  <2>1. P!Verdict(w) = "ack" => m \in handled
    BY <1>1, <1>4 DEF HandledInv
  <2> QED BY <1>3, <1>6, <1>7, <2>1 DEF AckedWasHandled, ProcessTypeOK
<1> QED BY <1>9, <1>10, <1>11, <1>12

(* SubmitJob finds room: with a delivery in the goroutine's hands the pool   *)
(* has no job that is unsettled, so its channel is empty.                   *)
LEMMA RoomForOne ==
    ASSUME IndInv, consumerPc = "process"
    PROVE  /\ cur \in Messages /\ cur \in Waiting /\ status[cur] = "new"
           /\ jobChan = <<>> /\ buffer = <<>>
           /\ Workers # {} => P!HasRoom
<1> USE DEF IndInv, ProcessInv
<1>1. cur \in Messages /\ cur \in Waiting /\ status[cur] = "new"
  BY DEF MainInv, ProcessTypeOK, Waiting, HandInv
<1>2. jobChan = <<>> /\ buffer = <<>>
  <2>1. ASSUME jobChan # <<>> PROVE FALSE
    <3>1. Head(jobChan) \in Range(jobChan) /\ Head(jobChan) \in Messages
      BY <2>1, HeadOfJobs
    <3>2. Head(jobChan) \in InHand /\ status[Head(jobChan)] # "new"
      BY <3>1, PoolFacts DEF InHand, Unsettled, InPool
    <3> QED BY <1>1, <3>2 DEF HandInv, InHand
  <2> QED BY <1>1, <2>1, MessagesAssumption DEF HandInv
<1>3. Workers # {} => P!HasRoom
  <2>1. SUFFICES ASSUME Workers # {} PROVE 0 < 2 * Cardinality(Workers)
    BY <1>2, SamePool
  <2>2. Cardinality(Workers) \in Nat /\ Cardinality(Workers) # 0
    BY <2>1, PoolAssumption, FS_CardinalityType, FS_EmptySet
  <2> QED BY <2>2
<1> QED BY <1>1, <1>2, <1>3

LEMMA SubmitInv == ASSUME IndInv, Running, Submit PROVE ProcessInv'
<1> USE DEF IndInv, ProcessInv
<1>1. /\ consumerPc = "process" /\ consumerPc' = "idle" /\ cur' = None
      /\ UNCHANGED <<broker, connected, buffer, mainPc, lives, handled>>
      /\ UNCHANGED <<okCalls, settled, job, submitDone, active, stopPc>>
  BY DEF Submit, brokerVars, P!SubmitAccepted, P!SubmitRefused, P!lifecycle, P!contexts,
         P!workerVars, P!history
<1>2. /\ cur \in Messages /\ cur \in Waiting /\ status[cur] = "new"
      /\ jobChan = <<>> /\ buffer = <<>> /\ cur # None
  BY <1>1, RoomForOne, MessagesAssumption
<1>3. Waiting' = {} /\ Unacked' = Unacked
  BY <1>1, <1>2 DEF Waiting, Unacked, Range
<1>4. InHand = {cur} /\ Unsettled = {}
  <2>1. cur \notin Unsettled
    BY <1>2, PoolFacts DEF Unsettled
  <2> QED BY <1>2, <2>1 DEF HandInv, InHand
<1>5. ProcessTypeOK' /\ MainInv'
  BY <1>1, <1>2 DEF ProcessTypeOK, MainInv
<1>6. /\ \A n \in Messages : n # cur => status'[n] = status[n]
      /\ HandledInv' /\ AckedWasHandled'
  BY <1>1, <1>2, PoolFacts DEF Submit, P!SubmitAccepted, P!SubmitRefused, HandledInv,
                               AckedWasHandled
<1>7. BrokerInv'
  <2>1. connected => broker[cur] = "unacked"
    BY <1>4 DEF HandInv
  <2> QED BY <1>1, <1>3, <1>6, <2>1 DEF BrokerInv
<1>8. CASE P!SubmitAccepted(cur)
  <2>1. jobChan' = <<cur>>
    BY <1>2, <1>8 DEF P!SubmitAccepted
  <2>2. Range(jobChan') = {cur}
    BY <2>1 DEF Range
  <2>3. settled[cur] = <<>>
    BY <1>2, PoolFacts
  <2>4. InHand' = {cur}
    BY <1>1, <1>2, <1>3, <1>4, <2>2, <2>3 DEF InHand, Unsettled, InPool, Range
  <2> QED BY <1>1, <1>2, <1>3, <1>4, <1>5, <1>6, <1>7, <2>4 DEF HandInv, OrphanInv
<1>9. CASE P!SubmitRefused(cur)
  <2>1. jobChan' = jobChan
    BY <1>9 DEF P!SubmitRefused
  <2>2. InHand' = {}
    BY <1>1, <1>3, <1>4, <2>1 DEF InHand, Unsettled, InPool
  <2>3. submitDone \/ Workers = {}
    <3>1. mainPc = "running" \/ submitDone
      BY <1>1 DEF MainInv, Running, ProcessTypeOK
    <3> QED BY <1>1, <1>9, <3>1, RoomForOne, PoolFacts DEF P!SubmitRefused, MainInv
  <2> QED BY <1>1, <1>2, <1>3, <1>5, <1>6, <1>7, <2>2, <2>3 DEF HandInv, OrphanInv, InHand
<1> QED BY <1>8, <1>9 DEF Submit

-----------------------------------------------------------------------------
(* The other steps of the goroutine that consumes. *)
LEMMA InHandIsMessage == ASSUME IndInv PROVE InHand \subseteq Messages
<1>1. Range(buffer) \subseteq Messages /\ cur \in Messages \cup {None}
  BY DEF IndInv, ProcessInv, ProcessTypeOK, Range
<1>2. InPool \subseteq Messages
  BY PoolFacts DEF IndInv, InPool, Range
<1> QED BY <1>1, <1>2 DEF InHand, Waiting, Unsettled

LEMMA TakeInv == ASSUME IndInv, Take PROVE ProcessInv'
<1> USE DEF IndInv, ProcessInv
<1>1. /\ consumerPc = "idle" /\ buffer # <<>> /\ buffer \in Seq(Messages) /\ Len(buffer) <= 1
      /\ cur' = Head(buffer) /\ buffer' = Tail(buffer) /\ consumerPc' = "process"
      /\ UNCHANGED <<poolVars, broker, connected, mainPc, lives, handled>>
  BY DEF Take, HandInv, ProcessTypeOK
<1>2. Len(buffer) = 1 /\ buffer' = <<>> /\ cur' = buffer[1] /\ cur' \in Messages
  <2>1. Len(buffer) = 1
    <3>1. Len(buffer) \in Nat \ {0}
      BY <1>1, EmptySeq
    <3>2. Len(buffer) <= 1
      BY <1>1
    <3>3. \A n \in Nat \ {0} : n <= 1 => n = 1
      OBVIOUS
    <3> QED BY <3>1, <3>2, <3>3
  <2>2. /\ Tail(buffer) \in Seq(Messages) /\ Len(Tail(buffer)) = 0
        /\ Head(buffer) \in Messages
    BY <1>1, <2>1, HeadTailProperties
  <2>3. Head(buffer) = buffer[1] /\ Tail(buffer) = <<>>
    BY <1>1, <2>2, EmptySeq
  <2> QED BY <1>1, <2>1, <2>2, <2>3
<1>3. Waiting' = Waiting /\ Unsettled' = Unsettled /\ Unacked' = Unacked /\ cur' # None
  <2>1. Range(buffer) = {cur'} /\ Range(buffer') = {}
    BY <1>1, <1>2, LenProperties DEF Range
  <2>2. cur = None /\ cur' # None
    BY <1>1, <1>2, MessagesAssumption DEF MainInv
  <2>3. Unsettled' = Unsettled /\ Unacked' = Unacked
    BY <1>1 DEF Unsettled, InPool, Unacked, poolVars
  <2> QED BY <2>1, <2>2, <2>3 DEF Waiting
<1>4. InHand' = InHand
  BY <1>3 DEF InHand
<1>5. ProcessTypeOK' /\ MainInv'
  BY <1>1, <1>2, <1>3 DEF ProcessTypeOK, MainInv, poolVars
<1>6. HandInv'
  <2>1. Len(buffer') <= 1
    BY <1>2, EmptySeq
  <2> QED BY <1>1, <1>2, <1>3, <1>4, <2>1 DEF HandInv, poolVars
<1>7. BrokerInv' /\ HandledInv' /\ OrphanInv' /\ AckedWasHandled'
  BY <1>1, <1>3, <1>4 DEF BrokerInv, HandledInv, OrphanInv, AckedWasHandled, poolVars
<1> QED BY <1>5, <1>6, <1>7

LEMMA RejectInv == ASSUME IndInv, RejectUndecodable PROVE ProcessInv'
<1> USE DEF IndInv, ProcessInv
<1>1. /\ consumerPc = "process" /\ consumerPc' = "idle" /\ cur' = None
      /\ broker' = BrokerGets(cur, "reject")
      /\ UNCHANGED <<poolVars, connected, buffer, mainPc, lives, handled>>
  BY DEF RejectUndecodable
<1>2. /\ cur \in Messages /\ cur \in Waiting /\ status[cur] = "new"
      /\ buffer = <<>> /\ cur # None /\ cur \notin InPool
  BY <1>1, RoomForOne, PoolFacts, MessagesAssumption
<1>3. InHand' = {} /\ broker[cur] = IF connected THEN "unacked" ELSE "ready"
  <2>1. Unsettled' = Unsettled /\ Unsettled = {} /\ cur \in InHand
    BY <1>1, <1>2 DEF Unsettled, InPool, InHand, HandInv, poolVars
  <2>2. Waiting' = {}
    BY <1>1, <1>2 DEF Waiting, Range
  <2> QED BY <2>1, <2>2 DEF InHand, HandInv
<1>4. broker' = [broker EXCEPT ![cur] = IF connected THEN "discarded" ELSE broker[cur]]
  BY <1>1, <1>2 DEF BrokerGets, RejectedTo, ProcessTypeOK
<1>5. Unacked' = {}
  BY <1>2, <1>3, <1>4 DEF Unacked, HandInv, BrokerInv, ProcessTypeOK
<1>6. ProcessTypeOK' /\ MainInv'
  BY <1>1, <1>2, <1>4 DEF ProcessTypeOK, MainInv, poolVars
<1>7. HandInv' /\ OrphanInv'
  BY <1>1, <1>2, <1>3, <1>5 DEF HandInv, InHand, OrphanInv
<1>8. BrokerInv' /\ HandledInv' /\ AckedWasHandled'
  BY <1>1, <1>2, <1>3, <1>4, <1>5
     DEF BrokerInv, HandledInv, AckedWasHandled, poolVars, ProcessTypeOK
<1> QED BY <1>6, <1>7, <1>8

\* The end of its loop, and the turns it makes for nothing.
LEMMA IdleTurnInv ==
    ASSUME IndInv, StopConsuming \/ TakeZero \/ RejectZero
    PROVE  ProcessInv'
<1> USE DEF IndInv, ProcessInv, StopConsuming, TakeZero, RejectZero, brokerVars, poolVars
<1>1. Waiting' = Waiting /\ InHand' = InHand /\ Unacked' = Unacked
  BY DEF Waiting, InHand, Unsettled, InPool, Unacked
<1>2. ProcessTypeOK' /\ MainInv'
  BY DEF ProcessTypeOK, MainInv
<1>3. HandInv' /\ BrokerInv' /\ HandledInv' /\ OrphanInv' /\ AckedWasHandled'
  BY <1>1 DEF HandInv, BrokerInv, HandledInv, OrphanInv, AckedWasHandled
<1> QED BY <1>2, <1>3

-----------------------------------------------------------------------------
(* The broker.  It delivers only when nothing is on its way.                *)
LEMMA DeliverInv == ASSUME IndInv, NEW m \in Messages, Deliver(m) PROVE ProcessInv'
<1> USE DEF IndInv, ProcessInv
<1>1. /\ connected /\ consumerPc # "none" /\ broker[m] = "ready" /\ Unacked = {}
      /\ broker' = [broker EXCEPT ![m] = "unacked"] /\ buffer' = Append(buffer, m)
      /\ UNCHANGED <<poolVars, connected, consumerVars, mainPc, lives, handled>>
  BY AtMostOne DEF Deliver, Prefetch, HandInv
<1>2. InHand = {} /\ buffer = <<>> /\ cur = None /\ status[m] = "new"
  <2>1. InHand = {}
    BY <1>1, InHandIsMessage DEF HandInv, Unacked
  <2>2. cur = None
    BY <2>1 DEF InHand, Waiting
  <2>3. ASSUME buffer # <<>> PROVE FALSE
    <3>1. Head(buffer) = buffer[1] /\ 1 \in DOMAIN buffer
      BY <2>3, LenProperties, EmptySeq DEF ProcessTypeOK
    <3> QED BY <2>1, <3>1 DEF InHand, Waiting, Range
  <2> QED BY <1>1, <2>1, <2>2, <2>3 DEF BrokerInv
<1>3. buffer' = <<m>> /\ Waiting' = {m} /\ Unsettled' = {}
  <2>1. buffer' = <<m>> /\ cur' = None
    BY <1>1, <1>2 DEF consumerVars
  <2>2. Range(buffer') = {m}
    BY <2>1 DEF Range
  <2>3. Unsettled' = Unsettled
    BY <1>1 DEF Unsettled, InPool, poolVars
  <2> QED BY <1>2, <2>1, <2>2, <2>3 DEF InHand, Waiting
<1>4. Unacked' = {m} /\ InHand' = {m}
  BY <1>1, <1>3 DEF Unacked, InHand, ProcessTypeOK
<1>5. ProcessTypeOK' /\ MainInv'
  BY <1>1, <1>3 DEF ProcessTypeOK, MainInv, consumerVars, poolVars
<1>6. HandInv' /\ OrphanInv'
  BY <1>1, <1>2, <1>3, <1>4
     DEF HandInv, OrphanInv, ProcessTypeOK, consumerVars, poolVars
<1>7. BrokerInv' /\ HandledInv' /\ AckedWasHandled'
  BY <1>1 DEF BrokerInv, HandledInv, AckedWasHandled, ProcessTypeOK, consumerVars, poolVars
<1> QED BY <1>5, <1>6, <1>7

\* The connection ends: lost, closed by main, or with the process.
LEMMA DisconnectInv ==
    ASSUME IndInv, connected' = FALSE, broker' = Requeued, buffer' \in {buffer, <<>>},
           UNCHANGED <<poolVars, consumerVars, lives, handled>>,
           mainPc' \in {mainPc, "closed", "down"},
           mainPc' = "closed" => mainPc \in {"stopping", "closed"},
           mainPc' # "down" => mainPc # "down"
    PROVE  ProcessInv'
<1> USE DEF IndInv, ProcessInv, poolVars, consumerVars
<1>1. Unacked' = {} /\ broker \in [Messages -> {"ready", "unacked", "acked", "discarded", "dlq"}]
  BY DEF Unacked, Requeued, ProcessTypeOK
<1>2. InHand' \subseteq InHand /\ Waiting' \subseteq Waiting
  BY DEF InHand, Waiting, Unsettled, InPool, Range
<1>3. buffer' \in Seq(Messages) /\ Len(buffer') <= 1 /\ (buffer' # <<>> => buffer' = buffer)
  <2>1. CASE buffer' = buffer
    BY <2>1 DEF ProcessTypeOK, HandInv
  <2>2. CASE buffer' = <<>>
    BY <2>2, EmptySeq
  <2> QED BY <2>1, <2>2
<1>4. ProcessTypeOK' /\ MainInv'
  BY <1>1, <1>3 DEF ProcessTypeOK, MainInv, Requeued
<1>5. HandInv'
  <2>1. ASSUME NEW m \in InHand PROVE broker'[m] = "ready"
    BY <2>1, InHandIsMessage DEF HandInv, Requeued
  <2> QED BY <1>1, <1>2, <1>3, <2>1 DEF HandInv
<1>6. BrokerInv' /\ HandledInv' /\ OrphanInv' /\ AckedWasHandled'
  BY <1>1 DEF BrokerInv, HandledInv, OrphanInv, AckedWasHandled, Requeued
<1> QED BY <1>4, <1>5, <1>6

LEMMA EndInv == ASSUME IndInv, ConnectionLost \/ Close \/ Die PROVE ProcessInv'
BY DisconnectInv DEF ConnectionLost, Close, Die, consumerVars

-----------------------------------------------------------------------------
(* main: start, signal and exit. *)
LEMMA MainInvStep == ASSUME IndInv, MainStarts \/ Signal \/ Exit PROVE ProcessInv'
<1> USE DEF IndInv, ProcessInv, brokerVars, consumerVars
<1>1. /\ UNCHANGED <<jobChan, job, settled, status, okCalls, brokerVars, cur, lives, handled>>
      /\ submitDone => submitDone'
      /\ mainPc' # "down" => mainPc # "down"
  BY DEF MainStarts, Signal, Exit, P!Start, P!CancelSubmit, P!lifecycle, P!contexts,
         P!queueVars, P!workerVars, P!history, poolVars
<1>2. Waiting' = Waiting /\ InHand' = InHand /\ Unacked' = Unacked
  BY <1>1 DEF Waiting, InHand, Unsettled, InPool, Unacked
<1>3. ProcessTypeOK'
  BY <1>1 DEF ProcessTypeOK, MainStarts, Signal, Exit
<1>4. MainInv'
  <2>1. CASE MainStarts
    BY <1>1, <2>1 DEF MainInv, MainStarts, P!Start
  <2>2. CASE Signal
    BY <1>1, <2>2 DEF MainInv, Signal, P!CancelSubmit, P!lifecycle
  <2>3. CASE Exit
    BY <1>1, <2>3 DEF MainInv, Exit, poolVars
  <2> QED BY <2>1, <2>2, <2>3
<1>5. HandInv' /\ BrokerInv' /\ HandledInv' /\ OrphanInv' /\ AckedWasHandled'
  BY <1>1, <1>2 DEF HandInv, BrokerInv, HandledInv, OrphanInv, AckedWasHandled
<1> QED BY <1>3, <1>4, <1>5

\* A pool that was just built has nothing in its hands.
LEMMA EmptyHands ==
    ASSUME buffer = <<>>, cur = None, jobChan = <<>>, job = [w \in Workers |-> None]
    PROVE  Waiting = {} /\ InHand = {}
BY DEF Waiting, InHand, Unsettled, InPool, Range

LEMMA EmptyHandsNext ==
    ASSUME buffer' = <<>>, cur' = None, jobChan' = <<>>, job' = [w \in Workers |-> None]
    PROVE  Waiting' = {} /\ InHand' = {}
BY DEF Waiting, InHand, Unsettled, InPool, Range

LEMMA BootInv == ASSUME IndInv, Boot PROVE ProcessInv'
<1> USE DEF IndInv, ProcessInv
<1>1. Waiting' = {} /\ InHand' = {}
  BY EmptyHandsNext DEF Boot
<1>2. Unacked' = {}
  BY DEF Boot, Unacked, BrokerInv, MainInv
<1>3. /\ lives \in Nat /\ lives' = lives + 1 /\ lives' \in 0 .. MaxLives
      /\ handled \subseteq Messages /\ handled' = handled
  BY LivesAssumption DEF Boot, ProcessTypeOK
<1>4. ProcessTypeOK' /\ MainInv'
  BY <1>3 DEF Boot, ProcessTypeOK, MainInv
<1>5. HandInv' /\ BrokerInv' /\ OrphanInv' /\ AckedWasHandled'
  BY <1>1, <1>2 DEF Boot, HandInv, BrokerInv, OrphanInv, AckedWasHandled
<1>6. HandledInv'
  BY <1>3 DEF Boot, HandledInv
<1> QED BY <1>4, <1>5, <1>6

LEMMA InitProcess == ASSUME Init PROVE ProcessInv
<1> USE DEF Init
<1>1. Waiting = {} /\ InHand = {}
  BY EmptyHands DEF P!Init
<1>2. ProcessTypeOK /\ MainInv
  <2>1. handled \subseteq Messages /\ broker \in [Messages -> {"ready"}]
    OBVIOUS
  <2>2. buffer \in Seq(Messages)
    BY EmptySeq
  <2>3. lives \in 0 .. MaxLives
    BY LivesAssumption
  <2> QED BY <2>1, <2>2, <2>3 DEF ProcessTypeOK, MainInv
<1>3. HandInv /\ BrokerInv /\ HandledInv /\ OrphanInv /\ AckedWasHandled
  BY <1>1 DEF HandInv, BrokerInv, HandledInv, OrphanInv, AckedWasHandled, Unacked, P!Init
<1> QED BY <1>2, <1>3 DEF ProcessInv

-----------------------------------------------------------------------------
(* Between two starts every step of the process is one of its pool, or      *)
(* leaves the pool alone; a start makes a new pool.                         *)
LEMMA StepOfPool ==
    ASSUME IndInv, [Next]_vars
    PROVE  P!Next \/ UNCHANGED poolVars \/ (Boot /\ P!Init')
<1>1. ASSUME Running, MainStarts \/ Signal \/ StopPool \/ Close \/ Exit
      PROVE  P!Next \/ UNCHANGED poolVars
  BY <1>1 DEF Running, P!Environment, P!Next, MainStarts, Signal, StopPool, Close, Exit
<1>2. ASSUME Running, ConsumerStep PROVE P!Next \/ UNCHANGED poolVars
  <2>1. CASE Submit
    <3>1. cur \in Messages
      BY <2>1, RoomForOne DEF Submit
    <3> QED BY <1>2, <2>1, <3>1 DEF Submit, Running, P!Environment, P!Next
  <2>2. CASE ~Submit
    BY <1>2, <2>2 DEF ConsumerStep, Take, RejectUndecodable, StopConsuming, TakeZero,
                            RejectZero
  <2> QED BY <2>1, <2>2
<1>3. ASSUME Running, NEW w \in Workers, WorkerStep(w) PROVE P!Next
  <2>1. P!WorkerStep(w)
    BY <1>3 DEF WorkerStep, WorkerHandles, WorkerSettles, WorkerMoves, P!WorkerStep
  <2> QED BY <1>3, <2>1 DEF Running, P!Next
<1>4. CASE (\E m \in Messages : Deliver(m)) \/ ConnectionLost \/ Die \/ Terminated
           \/ UNCHANGED vars
  BY <1>4 DEF Deliver, ConnectionLost, Die, Terminated, vars
<1>5. CASE Boot
  BY <1>5 DEF Boot, P!Init
<1> QED BY <1>1, <1>2, <1>3, <1>4, <1>5 DEF Next, ProcessStep

LEMMA NewPool == Pool!Init' => Pool!IndInv'
<1>1. Pool!Init => Pool!IndInv
  <2>1. Pool!IsFiniteSet(Workers)
    BY SameSets, PoolAssumption
  <2> QED BY <2>1, PoolAssumption, MessagesAssumption, Pool!InitInv
<1> QED BY <1>1, PTL

LEMMA SameInit == (P!Init <=> Pool!Init)'
<1>1. P!Init <=> Pool!Init
  BY SamePool
<1> QED BY <1>1, PTL

LEMMA InitInv == Init => IndInv
<1> SUFFICES ASSUME Init PROVE IndInv
  OBVIOUS
<1>1. Pool!IsFiniteSet(Workers)
  BY SameSets, PoolAssumption
<1>2. Pool!IndInv
  BY <1>1, PoolAssumption, MessagesAssumption, SamePool, Pool!InitInv DEF Init
<1> QED BY <1>2, InitProcess DEF IndInv

(* Every step keeps the invariant of the pool and that of the process. *)
LEMMA IndStep == IndInv /\ [Next]_vars => IndInv'
<1> SUFFICES ASSUME IndInv, [Next]_vars PROVE IndInv'
  OBVIOUS
<1>1. Pool!IndInv'
  <2>1. CASE P!Next \/ UNCHANGED poolVars
    <3>1. Pool!IndInv /\ [Pool!Next]_(Pool!vars)
      BY <2>1, SameNext DEF IndInv
    <3> QED BY <3>1, PoolStep
  <2>2. CASE P!Init'
    BY <2>2, SameInit, NewPool
  <2> QED BY <2>1, <2>2, StepOfPool
<1>2. ASSUME Running, ProcessStep PROVE ProcessInv'
  <2>1. CASE MainStarts \/ Signal \/ StopPool \/ Close \/ Exit
    BY <2>1, MainInvStep, StopPoolInv, EndInv
  <2>2. CASE ConsumerStep
    BY <1>2, <2>2, TakeInv, RejectInv, SubmitInv, IdleTurnInv DEF ConsumerStep
  <2>3. CASE \E w \in Workers : WorkerStep(w)
    BY <1>2, <2>3, WorkerHandlesInv, WorkerSettlesInv, WorkerMovesInv DEF WorkerStep
  <2> QED BY <1>2, <2>1, <2>2, <2>3 DEF ProcessStep
<1>3. ASSUME (\E m \in Messages : Deliver(m)) \/ ConnectionLost \/ Die \/ Boot
      PROVE  ProcessInv'
  BY <1>3, DeliverInv, EndInv, BootInv
<1>4. ASSUME UNCHANGED vars PROVE ProcessInv'
  <2>1. Unsettled' = Unsettled
    BY <1>4 DEF vars, poolVars, Unsettled, InPool
  <2> QED BY <1>4, <2>1, QuietStep DEF vars, poolVars, IndInv, ProcessInv, MainInv
<1>5. ProcessInv'
  BY <1>2, <1>3, <1>4 DEF Next, Terminated
<1> QED BY <1>1, <1>5 DEF IndInv

(* Every part of IndInv holds in every life of the consumer process.        *)
THEOREM Invariance == Spec => []IndInv
BY InitInv, IndStep, PTL DEF Spec

-----------------------------------------------------------------------------
(* Whatever the workers, the broker and main do and in whatever order: one  *)
(* unsettled job at most is in the pool, SubmitJob always finds room, a     *)
(* delivery nobody will settle means the shutdown has begun, and what was   *)
(* acknowledged was handled with success.                                   *)
THEOREM ConsumerIsSafe == Spec => []ConsumerInv
<1>1. IndInv => ConsumerInv
  <2> SUFFICES ASSUME IndInv PROVE ConsumerInv
    OBVIOUS
  <2>1. TypeOK /\ AckedWasHandled
    BY SamePool DEF IndInv, ProcessInv, Pool!IndInv, TypeOK
  <2>2. OneUnsettledJob
    <3>1. {m \in P!Queued \cup P!Held : settled[m] = <<>>} = Unsettled
      BY SamePool DEF Unsettled
    <3>2. \A m, n \in Unsettled : m = n
      BY DEF IndInv, ProcessInv, HandInv, InHand
    <3>3. Cardinality(Unsettled) <= 1
      BY <3>2, AtMostOne
    <3> QED BY <3>1, <3>3 DEF OneUnsettledJob
  <2>3. SubmitNeverFull
    BY RoomForOne DEF SubmitNeverFull
  <2>4. OrphanOnlyAtShutdown
    <3>1. InHand \subseteq Range(buffer) \cup {cur} \cup P!Queued \cup P!Held
      BY SamePool DEF InHand, Waiting, Unsettled
    <3> QED BY <3>1 DEF IndInv, ProcessInv, OrphanInv, OrphanOnlyAtShutdown
  <2> QED BY <2>1, <2>2, <2>3, <2>4 DEF ConsumerInv
<1> QED BY <1>1, Invariance, PTL

(* No life of the process handles a message with success twice, for any     *)
(* number of workers, messages and retries.                                 *)
THEOREM OneSuccessPerLife == Spec => []HandledOncePerLife
<1>1. IndInv => HandledOncePerLife
  BY DEF IndInv, ProcessInv, HandledInv, HandledOncePerLife
<1> QED BY <1>1, Invariance, PTL

(* The process drives its pool only as WorkerPool allows, so every theorem  *)
(* about the pool holds of each life of the consumer.                       *)
THEOREM PoolUsedAsSpecified == Spec => PoolIsUsedAsSpecified
<1>1. Init => P!Init
  BY DEF Init
<1>2. IndInv /\ [Next]_vars => [P!Next \/ Boot]_poolVars
  BY StepOfPool
<1> QED BY <1>1, <1>2, Invariance, PTL DEF Spec, PoolIsUsedAsSpecified

-----------------------------------------------------------------------------
(* What a step does to the broker's view of a message, and to its history.  *)
Delivered(m) == broker[m] = "ready" /\ broker' = [broker EXCEPT ![m] = "unacked"]
Finished(m)  == /\ broker[m] = "unacked" /\ m \in handled
                /\ broker' = [broker EXCEPT ![m] = "acked"]
Rejected(m)  == broker[m] = "unacked" /\ broker' = [broker EXCEPT ![m] = "discarded"]
Succeeds(m)  == /\ broker[m] \in {"ready", "unacked"} /\ broker' = broker
                /\ handled' = handled \cup {m}

\* What a worker handles or settles is in its process's hands.
LEMMA JobInHand ==
    ASSUME IndInv, NEW w \in Workers, pc[w] \in {"handle", "settle"}
    PROVE  /\ job[w] \in Messages
           /\ broker[job[w]] = IF connected THEN "unacked" ELSE "ready"
           /\ pc[w] = "settle" /\ ~failed[w] => job[w] \in handled
<1>1. job[w] \in Messages /\ settled[job[w]] = <<>>
  BY PoolFacts DEF IndInv
<1>2. job[w] \in InHand
  BY <1>1, MessagesAssumption DEF InHand, Unsettled, InPool
<1>3. pc[w] = "settle" /\ ~failed[w] => okCalls[job[w]] = 1
  BY PoolFacts DEF IndInv
<1> QED BY <1>1, <1>2, <1>3 DEF IndInv, ProcessInv, HandInv, HandledInv

LEMMA BrokerStep ==
    ASSUME IndInv, [Next]_vars
    PROVE  \/ broker' \in {broker, Requeued} /\ handled' = handled
           \/ \E m \in Messages : (Delivered(m) \/ Finished(m) \/ Rejected(m)) /\ handled' = handled
           \/ \E m \in Messages : Succeeds(m)
<1>1. CASE \E m \in Messages : Deliver(m)
  BY <1>1 DEF Deliver, Delivered
<1>2. CASE Running /\ ConsumerStep
  <2>1. CASE RejectUndecodable
    <3>1. cur \in Messages /\ cur \in InHand
      BY <2>1, RoomForOne DEF RejectUndecodable, InHand
    <3>2. broker[cur] = IF connected THEN "unacked" ELSE "ready"
      BY <3>1 DEF IndInv, ProcessInv, HandInv
    <3> QED BY <2>1, <3>1, <3>2 DEF RejectUndecodable, BrokerGets, RejectedTo, Rejected
  <2> QED BY <1>2, <2>1 DEF ConsumerStep, Take, Submit, StopConsuming, TakeZero, RejectZero,
                            brokerVars
<1>3. ASSUME NEW w \in Workers, WorkerStep(w)
      PROVE  \/ broker' = broker /\ handled' = handled
             \/ Succeeds(job[w]) /\ job[w] \in Messages
             \/ /\ Finished(job[w]) \/ Rejected(job[w])
                /\ handled' = handled /\ job[w] \in Messages
  <2>1. CASE WorkerHandles(w)
    BY <2>1, JobInHand DEF WorkerHandles, P!HandlerSucceeds, Succeeds, processVars, brokerVars
  <2>2. CASE WorkerSettles(w)
    BY <2>2, JobInHand DEF WorkerSettles, P!Settle, P!Verdict, BrokerGets, RejectedTo,
                           Finished, Rejected
  <2>3. CASE WorkerMoves(w)
    BY <2>3 DEF WorkerMoves, processVars, brokerVars
  <2> QED BY <1>3, <2>1, <2>2, <2>3 DEF WorkerStep
<1>4. CASE \/ MainStarts \/ Signal \/ StopPool \/ Close \/ Exit
           \/ ConnectionLost \/ Die \/ Boot \/ UNCHANGED vars
  BY <1>4 DEF MainStarts, Signal, StopPool, Close, Exit, ConnectionLost, Die, Boot, vars,
              processVars, brokerVars
<1> QED BY <1>1, <1>2, <1>3, <1>4 DEF Next, ProcessStep, Terminated

\* What has reached the broker for good.
Settled(m) == broker[m] \in {"acked", "discarded", "dlq"}

LEMMA SettledStep ==
    ASSUME IndInv, [Next]_vars, NEW m \in Messages, Settled(m)
    PROVE  broker'[m] = broker[m]
<1> USE DEF Settled
<1>1. broker \in [Messages -> {"ready", "unacked", "acked", "discarded", "dlq"}]
  BY DEF IndInv, ProcessInv, ProcessTypeOK
<1>2. CASE broker' \in {broker, Requeued}
  BY <1>2 DEF Requeued
<1>3. ASSUME NEW n \in Messages, Delivered(n) \/ Finished(n) \/ Rejected(n)
      PROVE  broker'[m] = broker[m]
  BY <1>1, <1>3 DEF Delivered, Finished, Rejected
<1> QED BY <1>2, <1>3, BrokerStep DEF Succeeds

\* Only a worker calls the handler, for a message in its hands.
LEMMA CallsStep ==
    ASSUME IndInv, [Next]_vars, NEW m \in Messages, Settled(m)
    PROVE  okCalls'[m] <= okCalls[m] /\ errCalls'[m] <= errCalls[m]
<1>1. okCalls \in [Messages -> Nat] /\ errCalls \in [Messages -> Nat]
  BY DEF IndInv, Pool!IndInv, Pool!TypeOK
<1>2. CASE UNCHANGED <<okCalls, errCalls>>
  BY <1>1, <1>2
<1>3. CASE Running /\ (MainStarts \/ Signal \/ StopPool \/ Close \/ Exit)
  BY <1>2, <1>3 DEF MainStarts, P!Start, Signal, P!CancelSubmit, StopPool, P!StopBegin,
     P!StopStep, P!StopCloseQuit, P!StopDrained, P!StopTimeout, P!StopContext,
     P!StopWaitEnds, P!StopCloseJobs, P!StopReturn, Close, Exit, poolVars,
     P!lifecycle, P!contexts, P!queueVars, P!workerVars, P!history
<1>4. CASE Running /\ ConsumerStep
  BY <1>2, <1>4 DEF ConsumerStep, Take, RejectUndecodable, Submit, P!SubmitAccepted,
     P!SubmitRefused, StopConsuming, TakeZero, RejectZero, poolVars, P!lifecycle,
     P!contexts, P!queueVars, P!workerVars, P!history
<1>5. ASSUME NEW w \in Workers, P!HandlerSucceeds(w) \/ P!HandlerFails(w)
      PROVE  okCalls'[m] = okCalls[m] /\ errCalls'[m] = errCalls[m]
  <2>1. pc[w] = "handle" /\ job[w] # m
    BY <1>5, JobInHand DEF P!HandlerSucceeds, P!HandlerFails, Settled
  <2> QED BY <1>1, <1>5, <2>1 DEF P!HandlerSucceeds, P!HandlerFails
<1>6. ASSUME NEW w \in Workers, WorkerStep(w)
      PROVE  okCalls'[m] <= okCalls[m] /\ errCalls'[m] <= errCalls[m]
  BY <1>1, <1>2, <1>5, <1>6 DEF WorkerStep, WorkerHandles, WorkerSettles, WorkerMoves,
     P!Settle, P!Receive, P!ReceiveNil, P!Quit, P!Acquire, P!BackoffElapsed, P!Refresh,
     P!Release, P!poolVars, P!lifecycle, P!contexts, P!queueVars, P!workerVars, P!history
<1>7. CASE (\E n \in Messages : Deliver(n)) \/ ConnectionLost \/ Die \/ UNCHANGED vars
  BY <1>2, <1>7 DEF Deliver, ConnectionLost, Die, vars, poolVars
<1>8. CASE Boot
  BY <1>1, <1>8 DEF Boot
<1> QED BY <1>3, <1>4, <1>6, <1>7, <1>8 DEF Next, ProcessStep, Terminated

(* No handler is called again, and nothing else is said of it to the broker, *)
(* for a message whose acknowledgement or rejection has reached the broker. *)
THEOREM SettledStays == Spec => SettledIsFinal
<1>1. IndInv /\ [Next]_vars =>
        [\A m \in Messages : broker[m] \in {"acked", "discarded", "dlq"} =>
                /\ broker'[m] = broker[m]
                /\ okCalls'[m] <= okCalls[m] /\ errCalls'[m] <= errCalls[m]]_vars
  BY SettledStep, CallsStep DEF Settled
<1> QED BY <1>1, Invariance, PTL DEF Spec, SettledIsFinal

-----------------------------------------------------------------------------
(* What a graceful Stop leaves to the broker.                               *)

\* While the connection lives, a settlement made by this process arrived.
ArrivedInv == connected => \A m \in Messages : settled[m] # <<>> => Settled(m)

\* Only a settling worker adds to what is settled, only a new life forgets it.
LEMMA SettlementStep ==
    ASSUME IndInv, [Next]_vars
    PROVE  \/ settled' = settled /\ (connected' => connected)
           \/ settled' = [m \in Messages |-> <<>>]
           \/ \E w \in Workers : WorkerSettles(w)
<1>1. CASE Running /\ (MainStarts \/ Signal \/ StopPool \/ Close \/ Exit)
  BY <1>1 DEF MainStarts, P!Start, Signal, P!CancelSubmit, StopPool, P!StopBegin,
     P!StopStep, P!StopCloseQuit, P!StopDrained, P!StopTimeout, P!StopContext,
     P!StopWaitEnds, P!StopCloseJobs, P!StopReturn, Close, Exit, poolVars,
     P!lifecycle, P!contexts, P!queueVars, P!workerVars, P!history,
     processVars, brokerVars
<1>2. CASE Running /\ ConsumerStep
  BY <1>2 DEF ConsumerStep, Take, RejectUndecodable, Submit, P!SubmitAccepted,
     P!SubmitRefused, StopConsuming, TakeZero, RejectZero, poolVars, P!lifecycle,
     P!contexts, P!queueVars, P!workerVars, P!history, brokerVars
<1>3. ASSUME NEW w \in Workers, WorkerHandles(w) \/ WorkerMoves(w)
      PROVE  settled' = settled /\ connected' = connected
  BY <1>3 DEF WorkerHandles, P!HandlerSucceeds, WorkerMoves, P!Receive, P!ReceiveNil,
     P!Quit, P!Acquire, P!HandlerFails, P!BackoffElapsed, P!Refresh, P!Release,
     P!poolVars, P!lifecycle, P!contexts, P!queueVars, P!workerVars, P!history,
     processVars, brokerVars
<1>4. CASE (\E m \in Messages : Deliver(m)) \/ ConnectionLost \/ Die \/ Boot
           \/ UNCHANGED vars
  BY <1>4 DEF Deliver, ConnectionLost, Die, Boot, vars, poolVars, processVars, brokerVars
<1> QED BY <1>1, <1>2, <1>3, <1>4 DEF Next, ProcessStep, WorkerStep, Terminated

LEMMA ArrivedStep == IndInv /\ ArrivedInv /\ [Next]_vars => ArrivedInv'
<1> SUFFICES ASSUME IndInv, ArrivedInv, [Next]_vars, connected',
                    NEW m \in Messages, settled'[m] # <<>>
             PROVE  Settled(m)'
  BY DEF ArrivedInv
<1>1. Settled(m) => Settled(m)'
  BY SettledStep DEF Settled
<1>2. CASE settled' = settled /\ (connected' => connected)
  BY <1>1, <1>2 DEF ArrivedInv
<1>3. CASE settled' = [n \in Messages |-> <<>>]
  BY <1>3
<1>4. ASSUME NEW w \in Workers, WorkerSettles(w) PROVE Settled(m)'
  <2>1. /\ job[w] \in Messages /\ connected /\ P!Verdict(w) \in {"ack", "reject"}
        /\ broker' = BrokerGets(job[w], P!Verdict(w))
        /\ settled' = [settled EXCEPT ![job[w]] = Append(@, P!Verdict(w))]
    BY <1>4, JobInHand DEF WorkerSettles, P!Settle, P!Verdict
  <2>2. CASE m = job[w]
    BY <2>1, <2>2 DEF BrokerGets, RejectedTo, Settled, IndInv, ProcessInv, ProcessTypeOK
  <2>3. CASE m # job[w]
    <3>1. settled[m] # <<>>
      BY <2>1, <2>3, PoolFacts DEF IndInv
    <3> QED BY <1>1, <2>1, <3>1 DEF ArrivedInv
  <2> QED BY <2>2, <2>3
<1> QED BY <1>2, <1>3, <1>4, SettlementStep

(* What Close returns to the queue after a graceful Stop was never shown to  *)
(* a handler in this life: all workers have left, so a message that was     *)
(* tried is in nobody's hands, hence settled, and the settlement arrived.   *)
THEOREM GracefulStopIsFinal == Spec => []GracefulStopRepeatsNothing
<1>1. Init => ArrivedInv
  BY DEF Init, ArrivedInv
<1>2. IndInv /\ ArrivedInv => GracefulStopRepeatsNothing
  <2> SUFFICES ASSUME IndInv, ArrivedInv, outcome = "drained",
                      NEW m \in Messages, broker[m] = "unacked"
               PROVE  okCalls[m] + errCalls[m] = 0
    BY DEF GracefulStopRepeatsNothing, Unacked
  <2>1. connected
    BY DEF IndInv, ProcessInv, BrokerInv, Unacked
  <2>2. settled[m] = <<>>
    BY <2>1 DEF ArrivedInv, Settled
  <2>3. m \notin Pool!Held
    <3>1. \A w \in Workers : pc[w] = "exited"
      BY DEF IndInv, Pool!IndInv, Pool!LifecycleInv
    <3>2. \A w \in Workers : job[w] = None
      BY <3>1 DEF IndInv, Pool!IndInv, Pool!WorkerInv
    <3> QED BY <3>2, MessagesAssumption DEF Pool!Held
  <2>4. status[m] \in {"new", "sent", "refused"}
    BY PoolFacts DEF IndInv
  <2>5. Pool!Untried(m)
    BY <2>2, <2>3, <2>4 DEF IndInv, Pool!IndInv, Pool!JobInv
  <2> QED BY <2>5 DEF Pool!Untried
<1> QED BY <1>1, <1>2, ArrivedStep, Invariance, PTL DEF Spec

-----------------------------------------------------------------------------
(* The refinement of AtLeastOnce.                                           *)
Status(b) == CASE b = "ready"   -> "ready"
               [] b = "unacked" -> "taken"
               [] b = "acked"   -> "done"
               [] OTHER         -> "dropped"

StatusOf  == [m \in Messages |-> Status(broker[m])]

LEMMA Mapping == /\ Status("ready") = "ready" /\ Status("unacked") = "taken"
                 /\ Status("acked") = "done" /\ Status("discarded") = "dropped"
                 /\ Status("dlq") = "dropped"
BY DEF Status

\* What changes for one message changes for one status.
LEMMA StatusChange ==
    ASSUME NEW m \in Messages, NEW b, NEW S, broker \in [Messages -> S],
           broker' = [broker EXCEPT ![m] = b]
    PROVE  StatusOf' = [StatusOf EXCEPT ![m] = Status(b)]
BY DEF StatusOf

LEMMA StepRefines ==
    IndInv /\ [Next]_vars => [Queue!Next]_(Queue!aloVars)
<1> SUFFICES ASSUME IndInv, [Next]_vars
             PROVE  Queue!Next \/ (StatusOf' = StatusOf /\ handled' = handled)
  BY DEF Queue!aloVars, StatusOf, Status
<1>1. broker \in [Messages -> {"ready", "unacked", "acked", "discarded", "dlq"}]
  BY DEF IndInv, ProcessInv, ProcessTypeOK
<1>2. CASE broker' = broker /\ handled' = handled
  BY <1>2 DEF StatusOf
<1>3. CASE broker' = Requeued /\ handled' = handled
  <2>1. ASSUME NEW m \in Messages
        PROVE  Status(broker'[m]) = IF Status(broker[m]) = "taken" THEN "ready"
                                                                   ELSE Status(broker[m])
    BY <1>1, <1>3, Mapping DEF Requeued
  <2>2. /\ StatusOf' = [m \in Messages |-> IF StatusOf[m] = "taken" THEN "ready"
                                                                    ELSE StatusOf[m]]
        /\ handled' = handled
    BY <1>3, <2>1 DEF StatusOf
  <2>3. Queue!PutBack
    BY <2>2 DEF Queue!PutBack, StatusOf, Status
  <2> QED BY <2>3 DEF Queue!Next
<1>4. ASSUME NEW m \in Messages, Delivered(m), handled' = handled PROVE Queue!Next
  <2>1. /\ StatusOf[m] = "ready" /\ handled' = handled
        /\ StatusOf' = [StatusOf EXCEPT ![m] = "taken"]
    BY <1>1, <1>4, StatusChange, Mapping DEF Delivered, StatusOf
  <2>2. Queue!TakeOne(m)
    BY <2>1 DEF Queue!TakeOne, StatusOf, Status
  <2> QED BY <2>2 DEF Queue!Next
<1>5. ASSUME NEW m \in Messages, Finished(m), handled' = handled PROVE Queue!Next
  <2>1. /\ StatusOf[m] = "taken" /\ m \in handled /\ handled' = handled
        /\ StatusOf' = [StatusOf EXCEPT ![m] = "done"]
    BY <1>1, <1>5, StatusChange, Mapping DEF Finished, StatusOf
  <2>2. Queue!Finish(m)
    BY <2>1 DEF Queue!Finish, StatusOf, Status
  <2> QED BY <2>2 DEF Queue!Next
<1>6. ASSUME NEW m \in Messages, Rejected(m), handled' = handled PROVE Queue!Next
  <2>1. /\ StatusOf[m] = "taken" /\ handled' = handled
        /\ StatusOf' = [StatusOf EXCEPT ![m] = "dropped"]
    BY <1>1, <1>6, StatusChange, Mapping DEF Rejected, StatusOf
  <2>2. Queue!Drop(m)
    BY <2>1 DEF Queue!Drop, StatusOf, Status
  <2> QED BY <2>2 DEF Queue!Next
<1>7. ASSUME NEW m \in Messages, Succeeds(m) PROVE Queue!Next
  <2>1. /\ StatusOf[m] \in {"ready", "taken"} /\ StatusOf' = StatusOf
        /\ handled' = handled \cup {m}
    BY <1>7, Mapping DEF Succeeds, StatusOf
  <2>2. Queue!Handle(m)
    BY <2>1 DEF Queue!Handle, StatusOf, Status
  <2> QED BY <2>2 DEF Queue!Next
<1> QED BY <1>2, <1>3, <1>4, <1>5, <1>6, <1>7, BrokerStep

(* RabbitMQ's main queue and the consumer process together are an at-least- *)
(* once queue, over any number of lives, lost connections and messages.     *)
THEOREM ConsumerRefines == Spec => ImplementsAtLeastOnce
<1>1. Init => Queue!Init
  <2> SUFFICES ASSUME Init PROVE StatusOf \in [Messages -> {"absent", "ready"}] /\ handled = {}
    BY DEF Queue!Init, StatusOf, Status
  <2> QED BY Mapping DEF Init, StatusOf
<1>2. IndInv /\ [Next]_vars => [Queue!Next]_(Queue!aloVars)
  BY StepRefines
<1> QED BY <1>1, <1>2, Invariance, PTL DEF Spec, ImplementsAtLeastOnce, Queue!Spec
=============================================================================
