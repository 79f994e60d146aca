---------------------------- MODULE DeadLetters ----------------------------
(***************************************************************************)
(* A message after the consumer has given it up: the reject of sendToDLQ   *)
(* in internal/processor/worker.go, the dead-letter queue, and the process *)
(* of cmd/dlq-consumer/main.go with ConsumeDLQMessages of manager.go, over *)
(* several lives of that process.                                          *)
(*                                                                         *)
(* The main queue is declared without a dead-letter exchange; whether the  *)
(* broker has been given one by a policy is a constant.  The broker moves  *)
(* the body as it was published: the reason that sendToDLQ writes into the *)
(* decoded copy stays in the consumer's memory, and the DLQ consumer's     *)
(* switch takes its default branch, which acknowledges like the others.    *)
(***************************************************************************)
EXTENDS Integers, FiniteSets

CONSTANTS
    Messages,
    Undecodable,            \* those whose body is no JSON message
    HasDeadLetterExchange,
    MaxLives                \* bound on the starts of the DLQ consumer

ASSUME UndecodableAssumption == Undecodable \subseteq Messages
ASSUME LivesAssumption == MaxLives \in Nat

VARIABLES
    where,    \* "main", "lost", "dlq", "unacked", "settled" or "discarded"
    life,     \* starts of the DLQ consumer so far
    main,     \* "down", "running", "waiting", "closing"
    loop,     \* the consuming goroutine: "select", "got", "switch", "zero", "ended"
    held,     \* the message of the delivery in its hands
    stats,    \* reportDLQStats: "select", "inspecting", "ended"
    linked,   \* the connection of this life is alive
    shows,    \* how often this life has logged the message
    seen      \* the messages logged in any life

processVars == <<life, main, loop, held, stats, linked>>
vars        == <<where, processVars, shows, seen>>

Settled == {"settled", "discarded"}

Unacked == {m \in Messages : where[m] = "unacked"}

Init ==
    /\ where = [m \in Messages |-> "main"]
    /\ held \in Messages
    /\ life = 0 /\ main = "down" /\ loop = "ended" /\ stats = "ended" /\ linked = FALSE
    /\ shows = [m \in Messages |-> 0] /\ seen = {}

-----------------------------------------------------------------------------
(* The consumer gives a message up: Delivery.Reject(false).  Without a      *)
(* dead-letter exchange it is gone before it became a dead letter.         *)
GiveUp(m) ==
    /\ where[m] = "main"
    /\ where' = [where EXCEPT ![m] = IF HasDeadLetterExchange THEN "dlq" ELSE "lost"]
    /\ UNCHANGED <<processVars, shows, seen>>

-----------------------------------------------------------------------------
(* The DLQ consumer's broker side; SetupQueues asks for a prefetch of 1. *)
Prefetch == 1

Deliver(m) ==
    /\ where[m] = "dlq" /\ linked /\ main # "down" /\ Cardinality(Unacked) < Prefetch
    /\ where' = [where EXCEPT ![m] = "unacked"]
    /\ UNCHANGED <<processVars, shows, seen>>

\* What is not acknowledged goes back when the connection ends.
Requeued == [m \in Messages |-> IF where[m] = "unacked" THEN "dlq" ELSE where[m]]

LinkLost ==
    /\ main # "down" /\ linked /\ linked' = FALSE
    /\ where' = Requeued
    /\ UNCHANGED <<life, main, loop, held, stats, shows, seen>>

-----------------------------------------------------------------------------
(* ConsumeDLQMessages' goroutine. *)
\* A closed delivery channel yields zero deliveries, whose empty body does not
\* decode and whose Reject fails.
Take ==
    /\ loop = "select"
    /\ \/ \E m \in Unacked : held' = m /\ loop' = "got"
       \/ ~linked /\ loop' = "zero" /\ UNCHANGED held
    /\ UNCHANGED <<where, life, main, stats, linked, shows, seen>>

\* The broker's answer to an ack or a reject; without a connection the call
\* fails and the error is only logged.
Settle(as) == where' = IF linked THEN [where EXCEPT ![held] = as] ELSE where

ZeroRejected ==
    /\ loop = "zero" /\ loop' = "select"
    /\ UNCHANGED <<where, life, main, held, stats, linked, shows, seen>>

RejectUndecodable_OnlyLogged ==
    /\ loop = "got" /\ held \in Undecodable /\ loop' = "select"
    /\ UNCHANGED <<where, life, main, held, stats, linked, shows, seen>>
RejectUndecodable ==
    /\ loop = "got" /\ held \in Undecodable /\ loop' = "select"
    /\ Settle("discarded")
    /\ UNCHANGED <<life, main, held, stats, linked, shows, seen>>

\* processDLQMessage logs the message and switches on the reason it decoded.
Show ==
    /\ loop = "got" /\ held \notin Undecodable /\ loop' = "switch"
    /\ shows' = [shows EXCEPT ![held] = @ + 1]
    /\ seen' = seen \cup {held}
    /\ UNCHANGED <<where, life, main, held, stats, linked>>

\* Whatever the reason, its function acknowledges.
Acknowledge_Early ==
    /\ loop \in {"got", "switch"} /\ loop' = "select"
    /\ Settle("settled")
    /\ UNCHANGED <<life, main, held, stats, linked, shows, seen>>
Acknowledge_Requeues ==
    /\ loop = "switch" /\ loop' = "select"
    /\ Settle("dlq")
    /\ UNCHANGED <<life, main, held, stats, linked, shows, seen>>
Acknowledge ==
    /\ loop = "switch" /\ loop' = "select"
    /\ Settle("settled")
    /\ UNCHANGED <<life, main, held, stats, linked, shows, seen>>

StopConsuming ==
    /\ loop = "select" /\ main \in {"waiting", "closing"} /\ loop' = "ended"
    /\ UNCHANGED <<where, life, main, held, stats, linked, shows, seen>>

Loop == Take \/ ZeroRejected \/ RejectUndecodable \/ Show \/ Acknowledge

-----------------------------------------------------------------------------
(* main and its statistics goroutine. *)
Boot ==
    /\ main = "down" /\ life < MaxLives
    /\ life' = life + 1 /\ main' = "running" /\ loop' = "select" /\ stats' = "select"
    /\ linked' = TRUE /\ shows' = [m \in Messages |-> 0]
    /\ UNCHANGED <<where, held, seen>>

\* GetQueueStats asks the broker, who may take its time.
Inspect ==
    /\ \/ stats = "select" /\ stats' = "inspecting"
       \/ stats = "inspecting" /\ stats' = "select"
    /\ UNCHANGED <<where, life, main, loop, held, linked, shows, seen>>

StopStats ==
    /\ stats = "select" /\ main \in {"waiting", "closing"} /\ stats' = "ended"
    /\ UNCHANGED <<where, life, main, loop, held, linked, shows, seen>>

\* A signal: cancel, then wait for the statistics goroutine or ShutdownTimeout.
Signal ==
    /\ main = "running" /\ main' = "waiting"
    /\ UNCHANGED <<where, life, loop, held, stats, linked, shows, seen>>

WaitEnds ==
    /\ main = "waiting" /\ main' = "closing"
    /\ UNCHANGED <<where, life, loop, held, stats, linked, shows, seen>>

\* Close, and the end of the process with its goroutines.
Gone ==
    /\ main' = "down" /\ loop' = "ended" /\ stats' = "ended" /\ linked' = FALSE
    /\ where' = Requeued
    /\ UNCHANGED <<life, held, shows, seen>>

Close == main = "closing" /\ Gone
Die   == main # "down" /\ Gone

Done == main = "down" /\ life = MaxLives /\ (\A m \in Messages : where[m] # "main")
        /\ UNCHANGED vars

Next ==
    \/ \E m \in Messages : GiveUp(m) \/ Deliver(m)
    \/ Loop \/ StopConsuming \/ Inspect \/ StopStats
    \/ Boot \/ Signal \/ WaitEnds \/ Close \/ Die \/ LinkLost
    \/ Done

\* The broker delivers and the consuming goroutine runs; everything else is
\* left to the environment.
Fairness == WF_vars(\E m \in Messages : Deliver(m)) /\ WF_vars(Loop)

Spec     == Init /\ [][Next]_vars
FairSpec == Spec /\ Fairness

-----------------------------------------------------------------------------
(* Type invariant. *)
TypeOK ==
    /\ where \in [Messages -> {"main", "lost", "dlq", "unacked"} \cup Settled]
    /\ held \in Messages
    /\ seen \subseteq Messages /\ shows \in [Messages -> Nat]
    /\ life \in 0 .. MaxLives /\ linked \in BOOLEAN
    /\ main \in {"down", "running", "waiting", "closing"}
    /\ loop \in {"select", "got", "switch", "zero", "ended"}
    /\ stats \in {"select", "inspecting", "ended"}
    /\ Cardinality(Unacked) <= 1

(* A dead letter is shown once in a life of the consumer, however acks,       *)
(* losses and deaths fall; an undecodable one never.                          *)
ShownOncePerLife ==
    /\ \A m \in Messages : shows[m] <= 1
    /\ seen \cap Undecodable = {}

(* Types, and one showing per life. *)
DeadLettersInv == TypeOK /\ ShownOncePerLife

(* The dead-letter queue and its consumer are an at-least-once queue, where   *)
(* to show a message is to handle it.  A message that the main queue lost     *)
(* never was in it.                                                           *)
Queue == INSTANCE AtLeastOnce WITH
    status  <- [m \in Messages |->
                   CASE where[m] \in {"main", "lost"} -> "absent"
                     [] where[m] = "dlq"     -> "ready"
                     [] where[m] = "unacked" -> "taken"
                     [] where[m] = "settled" -> "done"
                     [] OTHER                -> "dropped"],
    handled <- seen

ImplementsAtLeastOnce == Queue!Spec

(* While the consumer runs and is connected every dead letter is settled: no  *)
(* body, decodable or not, keeps the prefetch window shut.                    *)
DeadLettersAreSettled ==
    \A m \in Messages :
        where[m] = "dlq" /\ main = "running" ~>
            where[m] \in Settled \/ main # "running" \/ ~linked
=============================================================================
