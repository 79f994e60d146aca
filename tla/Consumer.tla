------------------------------- MODULE Consumer -------------------------------
(***************************************************************************)
(* The consumer process (cmd/consumer/main.go) between RabbitMQ and its    *)
(* worker pool: the goroutine of Manager.ConsumeMessages that decodes each *)
(* delivery and submits it, main's signal handling and shutdown order, the *)
(* end of the process and its next start.                                  *)
(*                                                                         *)
(* The pool is WorkerPool itself, instantiated over the same variables; a  *)
(* job is named by its message.  The broker is not part of the repository: *)
(* it is what the code expects of RabbitMQ - an unacknowledged delivery    *)
(* goes back to its queue when the connection ends.                        *)
(***************************************************************************)
EXTENDS Integers, Sequences, FiniteSets, Functions

CONSTANTS
    Workers, MaxRetries, None,  \* as in WorkerPool
    Messages,     \* the messages of the main queue
    Undecodable,  \* those whose body EventMessage's JSON decoding rejects
    MaxLives      \* bound: how often the process is started

ASSUME PoolAssumption == IsFiniteSet(Workers) /\ MaxRetries \in Int
ASSUME MessagesAssumption == Undecodable \subseteq Messages /\ None \notin Messages
ASSUME LivesAssumption == MaxLives \in Nat

VARIABLES
    active, locked, cancelled, quitClosed, jobsClosed, stopPc, outcome,
    submitDone, parentDone, crashed, jobChan, status,
    pc, job, attempt, failed, permits, okCalls, errCalls, settled,
    broker,      \* where the broker has each message
    connected,   \* the AMQP connection and channel are open
    buffer,      \* deliveries in the channel that Consume returned
    consumerPc,  \* the consuming goroutine: "none", "idle", "process", "zero", "stopped"
    cur,         \* the delivery it processes
    mainPc,      \* where main is
    lives,       \* how often the process was started
    handled      \* the messages a handler call succeeded for, in any life

\* main gives Start and Stop the context it never cancels.
P == INSTANCE WorkerPool WITH Jobs <- Messages, ParentCancels <- FALSE

poolVars     == <<active, locked, cancelled, quitClosed, jobsClosed, stopPc, outcome,
                  submitDone, parentDone, crashed, jobChan, status,
                  pc, job, attempt, failed, permits, okCalls, errCalls, settled>>
brokerVars   == <<broker, connected, buffer>>
consumerVars == <<consumerPc, cur>>
processVars  == <<brokerVars, consumerVars, mainPc, lives>>
vars == <<poolVars, processVars, handled>>

\* Qos(1, 0, false): the deliveries the broker leaves unacknowledged at a time.
Prefetch_Unlimited == Cardinality(Messages)
Prefetch == 1

\* Where Reject(false) sends a message: SetupQueues declares the main queue
\* without arguments, so it has no dead-letter exchange.
RejectedTo == "discarded"

Unacked == {m \in Messages : broker[m] = "unacked"}

\* The connection ends: the broker takes back what was not acknowledged.
Requeued == [m \in Messages |-> IF broker[m] = "unacked" THEN "ready" ELSE broker[m]]

\* An Ack or Reject that reaches the broker, or finds its channel closed.
BrokerGets(m, verdict) ==
    IF connected
      THEN [broker EXCEPT ![m] = IF verdict = "ack" THEN "acked" ELSE RejectedTo]
      ELSE broker

-----------------------------------------------------------------------------
Init ==
    /\ P!Init
    /\ broker = [m \in Messages |-> "ready"] /\ connected = FALSE /\ buffer = <<>>
    /\ consumerPc = "none" /\ cur = None
    /\ mainPc = "down" /\ lives = 0
    /\ handled = {}

(* main: Connect, SetupQueues and NewWorkerPool, in a fresh process. *)
Boot ==
    /\ mainPc = "down" /\ lives < MaxLives
    /\ mainPc' = "starting" /\ lives' = lives + 1 /\ connected' = TRUE
    /\ active' = FALSE /\ locked' = FALSE /\ cancelled' = FALSE
    /\ quitClosed' = FALSE /\ jobsClosed' = FALSE
    /\ stopPc' = "idle" /\ outcome' = "none"
    /\ submitDone' = FALSE /\ parentDone' = FALSE /\ crashed' = FALSE
    /\ jobChan' = <<>> /\ status' = [m \in Messages |-> "new"]
    /\ pc' = [w \in Workers |-> "none"] /\ job' = [w \in Workers |-> None]
    /\ attempt' = [w \in Workers |-> 0] /\ failed' = [w \in Workers |-> FALSE]
    /\ permits' = {}
    /\ okCalls' = [m \in Messages |-> 0] /\ errCalls' = [m \in Messages |-> 0]
    /\ settled' = [m \in Messages |-> <<>>]
    /\ buffer' = <<>> /\ consumerPc' = "none" /\ cur' = None
    /\ UNCHANGED <<broker, handled>>

\* WorkerPool.Start, then ConsumeMessages registers the consumer.
MainStarts ==
    /\ mainPc = "starting" /\ P!Start
    /\ mainPc' = "running" /\ consumerPc' = "idle"
    /\ UNCHANGED <<brokerVars, cur, lives, handled>>

-----------------------------------------------------------------------------
(* The broker delivers within the prefetch window. *)
Deliver(m) ==
    /\ connected /\ consumerPc # "none"
    /\ broker[m] = "ready" /\ Cardinality(Unacked) < Prefetch
    /\ broker' = [broker EXCEPT ![m] = "unacked"]
    /\ buffer' = Append(buffer, m)
    /\ UNCHANGED <<poolVars, connected, consumerVars, mainPc, lives, handled>>

(* The connection is lost.  The client library closes the delivery channel  *)
(* and may drop what is buffered.  Nothing in the code reconnects.          *)
ConnectionLost ==
    /\ connected /\ mainPc \in {"running", "stopping"}
    /\ connected' = FALSE /\ broker' = Requeued
    /\ buffer' \in {buffer, <<>>}
    /\ UNCHANGED <<poolVars, consumerVars, mainPc, lives, handled>>

-----------------------------------------------------------------------------
(* ConsumeMessages' goroutine: select between a delivery and ctx.Done.      *)
Take ==
    /\ consumerPc = "idle" /\ buffer # <<>>
    /\ cur' = Head(buffer) /\ buffer' = Tail(buffer)
    /\ consumerPc' = "process"
    /\ UNCHANGED <<poolVars, broker, connected, mainPc, lives, handled>>

\* processMessage of a body that does not decode: Reject(false).
RejectUndecodable_OnlyLogged ==
    /\ consumerPc = "process" /\ cur \in Undecodable
    /\ consumerPc' = "idle" /\ cur' = None
    /\ UNCHANGED <<poolVars, brokerVars, mainPc, lives, handled>>
RejectUndecodable_Acks ==
    /\ consumerPc = "process" /\ cur \in Undecodable
    /\ broker' = BrokerGets(cur, "ack")
    /\ consumerPc' = "idle" /\ cur' = None
    /\ UNCHANGED <<poolVars, connected, buffer, mainPc, lives, handled>>
RejectUndecodable ==
    /\ consumerPc = "process" /\ cur \in Undecodable
    /\ broker' = BrokerGets(cur, "reject")
    /\ consumerPc' = "idle" /\ cur' = None
    /\ UNCHANGED <<poolVars, connected, buffer, mainPc, lives, handled>>

\* processMessage of any other: SubmitJob, whose error is only logged.
Submit_AutoAck ==
    /\ consumerPc = "process" /\ cur \notin Undecodable
    /\ P!SubmitAccepted(cur) \/ P!SubmitRefused(cur)
    /\ broker' = BrokerGets(cur, "ack")
    /\ consumerPc' = "idle" /\ cur' = None
    /\ UNCHANGED <<connected, buffer, mainPc, lives, handled>>
Submit ==
    /\ consumerPc = "process" /\ cur \notin Undecodable
    /\ P!SubmitAccepted(cur) \/ P!SubmitRefused(cur)
    /\ consumerPc' = "idle" /\ cur' = None
    /\ UNCHANGED <<brokerVars, mainPc, lives, handled>>

StopConsuming_ClosesJobs ==
    /\ consumerPc = "idle" /\ submitDone
    /\ consumerPc' = "stopped" /\ jobsClosed' = TRUE
    /\ UNCHANGED <<active, locked, cancelled, quitClosed, stopPc, outcome,
                   submitDone, parentDone, crashed, jobChan, status,
                   pc, job, attempt, failed, permits, okCalls, errCalls, settled,
                   brokerVars, cur, mainPc, lives, handled>>
StopConsuming ==
    /\ consumerPc = "idle" /\ submitDone
    /\ consumerPc' = "stopped"
    /\ UNCHANGED <<poolVars, brokerVars, cur, mainPc, lives, handled>>

(* A closed delivery channel yields zero deliveries at every turn.  Their    *)
(* empty body does not decode, and their Reject fails, to be logged.        *)
TakeZero ==
    /\ consumerPc = "idle" /\ buffer = <<>> /\ ~connected
    /\ consumerPc' = "zero"
    /\ UNCHANGED <<poolVars, brokerVars, cur, mainPc, lives, handled>>

RejectZero ==
    /\ consumerPc = "zero" /\ consumerPc' = "idle"
    /\ UNCHANGED <<poolVars, brokerVars, cur, mainPc, lives, handled>>

ConsumerStep ==
    Take \/ RejectUndecodable \/ Submit \/ StopConsuming \/ TakeZero \/ RejectZero

-----------------------------------------------------------------------------
(* The workers: their handler calls and settlements are seen outside. *)
WorkerHandles(w) ==
    /\ P!HandlerSucceeds(w)
    /\ handled' = handled \cup {job[w]}
    /\ UNCHANGED processVars

WorkerSettles(w) ==
    /\ P!Settle(w)
    /\ broker' = BrokerGets(job[w], P!Verdict(w))
    /\ UNCHANGED <<connected, buffer, consumerVars, mainPc, lives, handled>>

WorkerMoves(w) ==
    \* No cancelled Acquire or backoff: their context is main's own.
    /\ \/ P!Receive(w) \/ P!ReceiveNil(w) \/ P!Quit(w) \/ P!Acquire(w)
       \/ P!HandlerFails(w) \/ P!BackoffElapsed(w) \/ P!Refresh(w) \/ P!Release(w)
    /\ UNCHANGED <<processVars, handled>>

WorkerStep(w) == WorkerHandles(w) \/ WorkerSettles(w) \/ WorkerMoves(w)

-----------------------------------------------------------------------------
(* main's shutdown: cancel mainCtx on the signal, stop the pool, wait for   *)
(* the reporting goroutines or a timeout, close the connection, exit.       *)
Signal ==
    /\ mainPc = "running" /\ P!CancelSubmit
    /\ mainPc' = "stopping"
    /\ UNCHANGED <<brokerVars, consumerVars, lives, handled>>

StopPool ==
    /\ mainPc = "stopping" /\ (P!StopBegin \/ P!StopStep)
    /\ UNCHANGED <<processVars, handled>>

Close ==
    /\ mainPc = "stopping" /\ stopPc = "returned"
    /\ mainPc' = "closed" /\ connected' = FALSE /\ broker' = Requeued
    /\ UNCHANGED <<poolVars, buffer, consumerVars, lives, handled>>

Exit ==
    /\ mainPc = "closed"
    /\ mainPc' = "down"
    /\ UNCHANGED <<poolVars, brokerVars, consumerVars, lives, handled>>

\* The process dies at once: a panic of its own, or a kill from outside.
Die ==
    /\ mainPc # "down"
    /\ mainPc' = "down" /\ connected' = FALSE /\ broker' = Requeued
    /\ UNCHANGED <<poolVars, buffer, consumerVars, lives, handled>>

-----------------------------------------------------------------------------
Running == mainPc # "down" /\ ~crashed

ProcessStep ==
    \/ MainStarts \/ Signal \/ StopPool \/ Close \/ Exit
    \/ ConsumerStep
    \/ \E w \in Workers : WorkerStep(w)

Terminated == mainPc = "down" /\ lives = MaxLives /\ UNCHANGED vars

Next == \/ Running /\ ProcessStep
        \/ \E m \in Messages : Deliver(m)
        \/ ConnectionLost \/ Die \/ Boot \/ Terminated

\* The broker delivers, runnable goroutines run, main goes on once it has the
\* signal, a panic ends the process.  Nobody has to signal, kill or restart.
Fairness ==
    /\ WF_vars(\E m \in Messages : Deliver(m))
    /\ WF_vars(Running /\ ConsumerStep)
    /\ \A w \in Workers : WF_vars(Running /\ WorkerStep(w))
    /\ WF_vars(Running /\ (MainStarts \/ StopPool \/ Close \/ Exit))
    /\ WF_vars(crashed /\ Die)

Spec     == Init /\ [][Next]_vars
FairSpec == Spec /\ Fairness

-----------------------------------------------------------------------------
(* Type invariant: the pool's, and that of what the process adds to it. *)
ProcessTypeOK ==
    /\ broker \in [Messages -> {"ready", "unacked", "acked", "discarded", "dlq"}]
    /\ connected \in BOOLEAN /\ buffer \in Seq(Messages)
    /\ consumerPc \in {"none", "idle", "process", "zero", "stopped"}
    /\ cur \in Messages \cup {None}
    /\ mainPc \in {"down", "starting", "running", "stopping", "closed"}
    /\ lives \in 0 .. MaxLives /\ handled \subseteq Messages

TypeOK == P!TypeOK /\ ProcessTypeOK

(* With a prefetch of 1 at most one job in the whole pool is unsettled: the *)
(* pool's workers never process two messages side by side.  (A worker may   *)
(* still be releasing its permit when the next one starts.)                 *)
OneUnsettledJob ==
    Cardinality({m \in P!Queued \cup P!Held : settled[m] = <<>>}) <= 1

(* `worker pool is full' cannot happen: the prefetch window is smaller than *)
(* the channel, so SubmitJob's default case is never taken.                 *)
SubmitNeverFull ==
    mainPc # "down" /\ consumerPc = "process" /\ Workers # {} => P!HasRoom

(* A delivery that neither the broker, the goroutine nor the pool will ever *)
(* settle (SubmitJob's error is only logged, and blocks the window) exists  *)
(* only once the shutdown has begun, or with a pool that has no workers.    *)
OrphanOnlyAtShutdown ==
    mainPc # "down" =>
        \A m \in Unacked : \/ m \in Range(buffer) \cup {cur} \cup P!Queued \cup P!Held
                           \/ submitDone \/ Workers = {}

(* An acknowledged message was handled with success, in this life or before.*)
AckedWasHandled == \A m \in Messages : broker[m] = "acked" => m \in handled

(* What holds of every state of the process, named in parts: types, one job  *)
(* in the prefetch window that somebody will settle, acks that are earned.   *)
ConsumerInv ==
    TypeOK /\ OneUnsettledJob /\ SubmitNeverFull /\ OrphanOnlyAtShutdown /\ AckedWasHandled

(* One life of the process does not handle a message with success twice,    *)
(* whatever its workers, retries, a Stop or a lost connection do: a second   *)
(* success takes a redelivery to the next life.                             *)
HandledOncePerLife == \A m \in Messages : okCalls[m] <= 1

(* A graceful Stop repeats nothing: while it is connected, what a process    *)
(* whose Stop waited for the workers still has unacknowledged, and what its *)
(* Close therefore returns to the queue, was never shown to its handler.    *)
GracefulStopRepeatsNothing ==
    outcome = "drained" => \A m \in Unacked : okCalls[m] + errCalls[m] = 0

(* No handler is called again, with success or without, for a message whose *)
(* acknowledgement or rejection has reached the broker, in this life or a   *)
(* later one.                                                               *)
SettledIsFinal ==
    [][\A m \in Messages : broker[m] \in {"acked", "discarded", "dlq"} =>
            /\ broker'[m] = broker[m]
            /\ okCalls'[m] <= okCalls[m] /\ errCalls'[m] <= errCalls[m]]_vars

(* Broker and consumer together are an at-least-once queue: a message is      *)
(* finished after a success only, and what an end of the process or of the  *)
(* connection leaves unsettled comes back.                                  *)
Queue == INSTANCE AtLeastOnce WITH
    status  <- [m \in Messages |->
                   CASE broker[m] = "ready"   -> "ready"
                     [] broker[m] = "unacked" -> "taken"
                     [] broker[m] = "acked"   -> "done"
                     [] OTHER                 -> "dropped"],
    handled <- handled

ImplementsAtLeastOnce == Queue!Spec

(* Between two starts the process drives its pool as WorkerPool allows: all *)
(* that is proved of the pool holds in the running consumer.                *)
PoolIsUsedAsSpecified == P!Init /\ [][P!Next \/ Boot]_poolVars

-----------------------------------------------------------------------------
(* While the consumer runs and is connected every message is settled: a     *)
(* refused or failed one never blocks the prefetch window for good.         *)
EveryMessageIsSettled ==
    mainPc = "running" ~>
        \/ \A m \in Messages : broker[m] \in {"acked", "discarded", "dlq"}
        \/ mainPc # "running" \/ ~connected

(* Once the signal is taken the process ends, whatever its workers do, and   *)
(* although the goroutine may be busy with zero deliveries for ever.        *)
ShutdownCompletes == mainPc = "stopping" ~> mainPc = "down"

-----------------------------------------------------------------------------
(* README.md:129, `Redirecionamento automatico de mensagens falhadas', and  *)
(* README.md:298, `Armazena mensagens que falharam apos max retries': what  *)
(* the pool rejects ends in the DLQ (or is redelivered).  It does not.      *)
FailedReachDLQ ==
    \A m \in Messages : settled[m] = <<"reject">> => broker[m] \in {"ready", "dlq"}
=============================================================================
