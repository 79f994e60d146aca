------------------------------ MODULE Topology ------------------------------
(***************************************************************************)
(* How events find the main queue: Connect, SetupQueues and PublishMessage *)
(* of internal/queue/manager.go, called by every process of the system,    *)
(* and the broker's exchange, queue and bindings they act on.              *)
(*                                                                         *)
(* The publisher, the consumer and the DLQ consumer all run the same set-up *)
(* with the ROUTING_KEY of their own environment, in any order and any     *)
(* number of times.  Processes are killed and the broker restarts at any   *)
(* step; it keeps what was declared durable.  Routing keys and patterns    *)
(* are sequences of words.                                                 *)
(***************************************************************************)
EXTENDS Integers, Sequences

CONSTANTS
    Procs,       \* processes that call Connect and SetupQueues
    Patterns,    \* the values of ROUTING_KEY in their environments
    Events,      \* the events published, each named by its routing key
    DialTries    \* 5 in the code

ASSUME DialTriesAssumption == DialTries \in Nat \ {0}

VARIABLES
    up,          \* the broker runs
    objects,     \* exchanges and queues: name -> kept over a broker restart
    bindings,    \* of the main exchange and of the DLQ exchange
    where,       \* what became of each event
    at,          \* "down", "dialing", "setup" or "ready"
    step,        \* the step of SetupQueues it is at
    tries,       \* failed dials of the current Connect
    pattern,     \* the process's ROUTING_KEY
    linked,      \* its connection is alive
    ended,       \* history: the reasons why processes ended
    served       \* history: the patterns of the processes that got ready

brokerVars == <<up, objects, bindings, where>>
procVars   == <<at, step, tries, pattern, linked, ended, served>>
vars       == <<brokerVars, procVars>>

-----------------------------------------------------------------------------
\* RabbitMQ's topic exchange: "*" stands for one word, "#" for any number.
Matches(key, pat) ==
    LET from[i \in 1 .. Len(key) + 1, j \in 1 .. Len(pat) + 1] ==
            IF j > Len(pat) THEN i > Len(key)
            ELSE IF pat[j] = "#"
                 THEN from[i, j + 1] \/ (i <= Len(key) /\ from[i + 1, j])
                 ELSE i <= Len(key) /\ pat[j] \in {"*", key[i]} /\ from[i + 1, j + 1]
    IN  from[1, 1]

DurableFlag_Off == FALSE
DurableFlag == TRUE

Declare(name) == [op |-> "declare", name |-> name]
Bind(queue, exchange) == [op |-> "bind", queue |-> queue, exchange |-> exchange]

SetupSteps_BindFirst ==
    << [op |-> "qos"], Declare("exchange"), Bind("queue", "exchange"),
       Declare("queue"), Declare("dlq_exchange"), Declare("dlq"),
       Bind("dlq", "dlq_exchange") >>
SetupSteps ==
    << [op |-> "qos"], Declare("exchange"), Declare("queue"),
       Declare("dlq_exchange"), Declare("dlq"),
       Bind("queue", "exchange"), Bind("dlq", "dlq_exchange") >>

\* The main queue is bound with the environment's key, the DLQ to everything.
BindingKey(p, queue) == IF queue = "queue" THEN pattern[p] ELSE <<"#">>

Init ==
    /\ up = TRUE /\ objects = <<>> /\ bindings = {}
    /\ where = [e \in Events |-> "unpublished"]
    /\ at = [p \in Procs |-> "down"] /\ step = [p \in Procs |-> 1]
    /\ tries = [p \in Procs |-> 0]
    /\ pattern \in [Procs -> Patterns]
    /\ linked = [p \in Procs |-> FALSE]
    /\ ended = {} /\ served = {}

-----------------------------------------------------------------------------
(* A process. *)
\* godotenv or the shell gives the process its environment.
Boot(p) ==
    /\ at[p] = "down"
    /\ \E k \in Patterns : pattern' = [pattern EXCEPT ![p] = k]
    /\ at' = [at EXCEPT ![p] = "dialing"]
    /\ UNCHANGED <<brokerVars, step, tries, linked, ended, served>>

\* logger.Fatal, or a kill: the process is gone and its connection with it.
End(p, why) ==
    /\ at' = [at EXCEPT ![p] = "down"]
    /\ step' = [step EXCEPT ![p] = 1] /\ tries' = [tries EXCEPT ![p] = 0]
    /\ linked' = [linked EXCEPT ![p] = FALSE]
    /\ ended' = ended \cup {why}
    /\ UNCHANGED <<brokerVars, pattern, served>>

Dial(p) ==
    /\ at[p] = "dialing" /\ up
    /\ at' = [at EXCEPT ![p] = "setup"]
    /\ tries' = [tries EXCEPT ![p] = 0]
    /\ linked' = [linked EXCEPT ![p] = TRUE]
    /\ UNCHANGED <<brokerVars, step, pattern, ended, served>>

DialFails(p) ==
    /\ at[p] = "dialing" /\ ~up /\ tries[p] + 1 < DialTries
    /\ tries' = [tries EXCEPT ![p] = @ + 1]
    /\ UNCHANGED <<brokerVars, at, step, pattern, linked, ended, served>>

ConnectFails(p) ==
    /\ at[p] = "dialing" /\ ~up /\ tries[p] + 1 = DialTries
    /\ End(p, "connect")

Step(p) == SetupSteps[step[p]]

\* The step's call succeeds: the process goes on to the next one.
StepDone(p) ==
    /\ IF step[p] = Len(SetupSteps)
       THEN /\ at' = [at EXCEPT ![p] = "ready"] /\ step' = [step EXCEPT ![p] = 1]
            /\ served' = served \cup {pattern[p]}
       ELSE step' = [step EXCEPT ![p] = @ + 1] /\ UNCHANGED <<at, served>>
    /\ UNCHANGED <<up, where, tries, pattern, linked, ended>>

SetQos(p) ==
    /\ at[p] = "setup" /\ linked[p] /\ Step(p).op = "qos"
    /\ StepDone(p) /\ UNCHANGED <<objects, bindings>>

\* Declaring what exists with the same arguments changes nothing.
DeclareObject(p) ==
    /\ at[p] = "setup" /\ linked[p] /\ Step(p).op = "declare"
    /\ objects' = [n \in DOMAIN objects \cup {Step(p).name} |->
                      IF n \in DOMAIN objects THEN objects[n] ELSE DurableFlag]
    /\ StepDone(p) /\ UNCHANGED bindings

Ends(s) == {s.queue, s.exchange}

\* Bindings accumulate: nothing takes back the binding of an earlier process.
BindQueue_Replaces(p) ==
    /\ at[p] = "setup" /\ linked[p] /\ Step(p).op = "bind"
    /\ LET s == Step(p)
       IN  /\ Ends(s) \subseteq DOMAIN objects
           /\ bindings' = {b \in bindings : b.queue # s.queue} \cup
                          {[queue |-> s.queue, exchange |-> s.exchange,
                            key |-> BindingKey(p, s.queue)]}
    /\ StepDone(p) /\ UNCHANGED objects
BindQueue(p) ==
    /\ at[p] = "setup" /\ linked[p] /\ Step(p).op = "bind"
    /\ LET s == Step(p)
       IN  /\ Ends(s) \subseteq DOMAIN objects
           /\ bindings' = bindings \cup {[queue |-> s.queue, exchange |-> s.exchange,
                                          key |-> BindingKey(p, s.queue)]}
    /\ StepDone(p) /\ UNCHANGED objects

\* A call fails when its connection is lost, a bind also when an end of it is
\* not declared; main then exits.
SetupFails(p) ==
    /\ at[p] = "setup"
    /\ \/ ~linked[p] /\ End(p, "connection")
       \/ /\ linked[p] /\ Step(p).op = "bind"
          /\ ~(Ends(Step(p)) \subseteq DOMAIN objects)
          /\ End(p, "not_found")

\* PublishMessage is not mandatory: what matches no binding is dropped and the
\* publisher sees no error.
Routed(e) == \E b \in bindings : b.exchange = "exchange" /\ Matches(e, b.key)

Publish(p, e) ==
    /\ at[p] = "ready" /\ linked[p] /\ where[e] = "unpublished"
    /\ where' = [where EXCEPT ![e] = IF Routed(e) THEN "queued" ELSE "dropped"]
    /\ UNCHANGED <<up, objects, bindings, procVars>>

\* On a lost connection Publish returns an error, or none when the loss is not
\* noticed yet.
PublishUnlinked(p, e) ==
    /\ at[p] = "ready" /\ ~linked[p] /\ where[e] = "unpublished"
    /\ \E fate \in {"refused", "lost"} : where' = [where EXCEPT ![e] = fate]
    /\ UNCHANGED <<up, objects, bindings, procVars>>

Die(p) == at[p] # "down" /\ End(p, "killed")

-----------------------------------------------------------------------------
(* The broker goes down and comes back with what is durable. *)
Kept == {n \in DOMAIN objects : objects[n]}

BrokerDown ==
    /\ up /\ up' = FALSE
    /\ objects' = [n \in Kept |-> TRUE]
    /\ bindings' = {b \in bindings : Ends(b) \subseteq Kept}
    /\ where' = [e \in Events |-> IF where[e] = "queued" /\ "queue" \notin Kept
                                  THEN "lost" ELSE where[e]]
    /\ linked' = [p \in Procs |-> FALSE]
    /\ UNCHANGED <<at, step, tries, pattern, ended, served>>

BrokerUp == ~up /\ up' = TRUE /\ UNCHANGED <<objects, bindings, where, procVars>>

Connect(p)     == Dial(p) \/ DialFails(p) \/ ConnectFails(p)
SetupQueues(p) == SetQos(p) \/ DeclareObject(p) \/ BindQueue(p) \/ SetupFails(p)

Next ==
    \/ \E p \in Procs : Boot(p) \/ Connect(p) \/ SetupQueues(p) \/ Die(p)
    \/ \E p \in Procs, e \in Events : Publish(p, e) \/ PublishUnlinked(p, e)
    \/ BrokerDown \/ BrokerUp

Spec == Init /\ [][Next]_vars

-----------------------------------------------------------------------------
(* Type invariant. *)
TypeOK ==
    /\ up \in BOOLEAN /\ linked \in [Procs -> BOOLEAN]
    /\ DOMAIN objects \subseteq {"exchange", "queue", "dlq_exchange", "dlq"}
    /\ \A b \in bindings : Ends(b) \subseteq DOMAIN objects
    /\ where \in [Events -> {"unpublished", "queued", "dropped", "refused", "lost"}]
    /\ at \in [Procs -> {"down", "dialing", "setup", "ready"}]
    /\ step \in [Procs -> DOMAIN SetupSteps]
    /\ tries \in [Procs -> 0 .. DialTries - 1] /\ pattern \in [Procs -> Patterns]
    /\ ended \subseteq {"connect", "connection", "not_found", "killed"}
    /\ served \subseteq Patterns

(* However set-ups interleave and whatever restarts between their steps, no  *)
(* bind meets a missing exchange or queue: a process never ends for that.    *)
BindFindsItsEnds == "not_found" \notin ended

(* Types, and no bind without its ends. *)
TopologyInv == TypeOK /\ BindFindsItsEnds

(* Once some process got ready with a ROUTING_KEY that matches an event, the *)
(* event reaches the queue whoever publishes it: later set-ups with another  *)
(* key, deaths and broker restarts take nothing back.                        *)
NothingDroppedOnceBound ==
    [][\A p \in Procs, e \in Events :
          Publish(p, e) /\ (\E k \in served : Matches(e, k)) => where'[e] = "queued"]_vars

(* An event in the queue outlives the broker: the queue is durable and the   *)
(* publishing persistent.                                                    *)
QueueKeepsEvents ==
    [][\A e \in Events : where[e] = "queued" => where'[e] = "queued"]_vars
=============================================================================
