--------------------------- MODULE TopologyProofs ---------------------------
(***************************************************************************)
(* Theorems about Topology, for any processes, routing keys and events.    *)
(***************************************************************************)
EXTENDS Topology, TLAPS

MainBinding(k) == [queue |-> "queue", exchange |-> "exchange", key |-> k]

\* What the steps of SetupQueues before the i-th one have declared.
Declared(i) == {n \in {"exchange", "queue", "dlq_exchange", "dlq"} :
                   \/ n = "exchange" /\ i > 2
                   \/ n = "queue" /\ i > 3
                   \/ n = "dlq_exchange" /\ i > 4
                   \/ n = "dlq" /\ i > 5}

(* Nothing that was declared goes away, because all of it is durable; a     *)
(* process finds what its earlier steps have left; and the binding of every *)
(* process that got past its own, or got ready once, is still there.        *)
KeptInv == \A n \in DOMAIN objects : objects[n] = TRUE

SetupInv ==
    \A p \in Procs :
        /\ at[p] # "setup" => step[p] = 1
        /\ Declared(step[p]) \subseteq DOMAIN objects
        /\ step[p] > 6 => MainBinding(pattern[p]) \in bindings

ServedInv == \A k \in served : MainBinding(k) \in bindings

\* Events are routed to the main queue, so it exists once it holds one.
RoutesInv ==
    /\ \A b \in bindings : b.exchange = "exchange" => b.queue = "queue"
    /\ \A e \in Events : where[e] = "queued" => "queue" \in DOMAIN objects

IndInv == TopologyInv /\ KeptInv /\ SetupInv /\ ServedInv /\ RoutesInv

-----------------------------------------------------------------------------
(* The seven steps. *)
LEMMA Steps ==
    /\ DOMAIN SetupSteps = 1 .. 7 /\ Len(SetupSteps) = 7
    /\ SetupSteps[1].op = "qos"
    /\ \A i \in {2, 3, 4, 5} : SetupSteps[i].op = "declare"
    /\ SetupSteps[2].name = "exchange" /\ SetupSteps[3].name = "queue"
    /\ SetupSteps[4].name = "dlq_exchange" /\ SetupSteps[5].name = "dlq"
    /\ SetupSteps[6].op = "bind" /\ SetupSteps[7].op = "bind"
    /\ SetupSteps[6].queue = "queue" /\ SetupSteps[6].exchange = "exchange"
    /\ SetupSteps[7].queue = "dlq" /\ SetupSteps[7].exchange = "dlq_exchange"
BY DEF SetupSteps, Declare, Bind

LEMMA InitInv == Init => IndInv
<1> SUFFICES ASSUME Init PROVE IndInv
  OBVIOUS
<1>1. DOMAIN objects = {}
  BY DEF Init
<1>2. tries \in [Procs -> 0 .. DialTries - 1]
  BY DialTriesAssumption DEF Init
<1>3. TypeOK
  BY <1>1, <1>2, Steps DEF Init, TypeOK
<1>4. BindFindsItsEnds /\ KeptInv /\ ServedInv /\ RoutesInv
  BY <1>1 DEF Init, BindFindsItsEnds, KeptInv, ServedInv, RoutesInv
<1>5. Declared(1) = {}
  BY DEF Declared
<1>6. \A p \in Procs : at[p] = "down" /\ step[p] = 1
  BY DEF Init
<1>7. SetupInv
  <2>1. ASSUME NEW p \in Procs
        PROVE  /\ at[p] # "setup" => step[p] = 1
               /\ Declared(step[p]) \subseteq DOMAIN objects
               /\ step[p] > 6 => MainBinding(pattern[p]) \in bindings
    <3>1. step[p] = 1
      BY <1>6
    <3>2. Declared(step[p]) = {}
      BY <1>5, <3>1
    <3> QED BY <3>1, <3>2
  <2> QED BY <2>1 DEF SetupInv
<1> QED BY <1>3, <1>4, <1>7 DEF IndInv, TopologyInv

-----------------------------------------------------------------------------
(* A process that ends takes nothing of the broker with it. *)
LEMMA EndKeeps ==
    ASSUME IndInv, NEW p \in Procs,
           NEW why \in {"connect", "connection", "killed"}, End(p, why)
    PROVE  IndInv'
<1> USE DEF IndInv, TopologyInv
<1>1. tries' \in [Procs -> 0 .. DialTries - 1]
  BY DialTriesAssumption DEF End, TypeOK
<1>2. TypeOK'
  BY <1>1, Steps DEF End, TypeOK, brokerVars, Ends
<1>3. BindFindsItsEnds' /\ KeptInv' /\ ServedInv' /\ RoutesInv'
  BY DEF End, BindFindsItsEnds, KeptInv, ServedInv, RoutesInv, brokerVars
<1>4. SetupInv'
  BY DEF End, SetupInv, TypeOK, Declared, brokerVars
<1> QED BY <1>2, <1>3, <1>4

LEMMA ConnectKeeps ==
    ASSUME IndInv, NEW p \in Procs, Boot(p) \/ Connect(p) \/ Die(p)
    PROVE  IndInv'
<1> USE DEF IndInv, TopologyInv
<1>1. CASE ConnectFails(p) \/ Die(p)
  BY <1>1, EndKeeps DEF ConnectFails, Die
<1>2. CASE Boot(p) \/ Dial(p)
  <2>1. tries' \in [Procs -> 0 .. DialTries - 1] /\ pattern' \in [Procs -> Patterns]
    BY <1>2, DialTriesAssumption DEF Boot, Dial, TypeOK
  <2>2. TypeOK'
    BY <1>2, <2>1 DEF Boot, Dial, TypeOK, brokerVars, Ends
  <2>3. BindFindsItsEnds' /\ KeptInv' /\ ServedInv' /\ RoutesInv'
    BY <1>2 DEF Boot, Dial, BindFindsItsEnds, KeptInv, ServedInv, RoutesInv, brokerVars
  <2>4. SetupInv'
    BY <1>2 DEF Boot, Dial, SetupInv, TypeOK, brokerVars
  <2> QED BY <2>2, <2>3, <2>4
<1>3. CASE DialFails(p)
  <2>1. tries' \in [Procs -> 0 .. DialTries - 1]
    BY <1>3, DialTriesAssumption DEF DialFails, TypeOK
  <2>2. TypeOK'
    BY <1>3, <2>1 DEF DialFails, TypeOK, brokerVars, Ends
  <2> QED BY <1>3, <2>2 DEF DialFails, BindFindsItsEnds, KeptInv, SetupInv, ServedInv,
                            RoutesInv, brokerVars
<1> QED BY <1>1, <1>2, <1>3 DEF Connect

-----------------------------------------------------------------------------
(* A step of SetupQueues that adds to the broker's state and leads on.      *)
LEMMA StepKeeps ==
    ASSUME IndInv, NEW p \in Procs, at[p] = "setup", StepDone(p),
           DOMAIN objects \subseteq DOMAIN objects', KeptInv',
           DOMAIN objects' \subseteq {"exchange", "queue", "dlq_exchange", "dlq"},
           bindings \subseteq bindings',
           \A b \in bindings' : Ends(b) \subseteq DOMAIN objects',
           \A b \in bindings' : b.exchange = "exchange" => b.queue = "queue",
           Declared(step[p] + 1) \subseteq DOMAIN objects',
           step[p] = 6 => MainBinding(pattern[p]) \in bindings'
    PROVE  IndInv'
<1> USE DEF IndInv, TopologyInv
<1>1. step[p] \in 1 .. 7 /\ step \in [Procs -> 1 .. 7]
  BY Steps DEF TypeOK
<1>2. step' \in [Procs -> 1 .. 7]
  <2>1. CASE step[p] = 7
    BY <1>1, <2>1, Steps DEF StepDone
  <2>2. CASE step[p] # 7
    <3>1. step[p] + 1 \in 1 .. 7
      BY <1>1, <2>2
    <3> QED BY <1>1, <2>2, <3>1, Steps DEF StepDone
  <2> QED BY <2>1, <2>2
<1>3. served' \subseteq Patterns /\ at' \in [Procs -> {"down", "dialing", "setup", "ready"}]
  <2>1. pattern[p] \in Patterns
    BY DEF TypeOK
  <2>2. CASE step[p] = 7
    BY <2>1, <2>2, Steps DEF StepDone, TypeOK
  <2>3. CASE step[p] # 7
    BY <2>3, Steps DEF StepDone, TypeOK
  <2> QED BY <2>2, <2>3
<1>4. TypeOK'
  BY <1>2, <1>3, Steps DEF StepDone, TypeOK
<1>5. BindFindsItsEnds' /\ RoutesInv'
  BY DEF StepDone, BindFindsItsEnds, RoutesInv
<1>6. CASE step[p] = 7
  <2>1. /\ at' = [at EXCEPT ![p] = "ready"] /\ step' = [step EXCEPT ![p] = 1]
        /\ served' = served \cup {pattern[p]} /\ pattern' = pattern
    BY <1>6, Steps DEF StepDone
  <2>2. MainBinding(pattern[p]) \in bindings
    BY <1>6 DEF SetupInv
  <2>3. ServedInv'
    BY <2>1, <2>2 DEF ServedInv
  <2>4. Declared(1) = {}
    BY DEF Declared
  <2>5. SetupInv'
    BY <1>1, <2>1, <2>4 DEF SetupInv, TypeOK
  <2> QED BY <1>4, <1>5, <2>3, <2>5
<1>7. CASE step[p] # 7
  <2>1. /\ step' = [step EXCEPT ![p] = @ + 1]
        /\ UNCHANGED <<at, served, pattern>>
    BY <1>7, Steps DEF StepDone
  <2>2. ServedInv'
    BY <2>1 DEF ServedInv
  <2>3. ASSUME NEW q \in Procs
        PROVE  /\ at'[q] # "setup" => step'[q] = 1
               /\ Declared(step'[q]) \subseteq DOMAIN objects'
               /\ step'[q] > 6 => MainBinding(pattern'[q]) \in bindings'
    <3>1. CASE q = p
      <4>1. step'[q] = step[p] + 1 /\ at'[q] = "setup" /\ pattern'[q] = pattern[p]
        BY <1>1, <2>1, <3>1
      <4> QED BY <1>1, <4>1 DEF SetupInv
    <3>2. CASE q # p
      <4>1. step'[q] = step[q] /\ at'[q] = at[q] /\ pattern'[q] = pattern[q]
        BY <1>1, <2>1, <3>2
      <4> QED BY <4>1 DEF SetupInv
    <3> QED BY <3>1, <3>2
  <2>4. SetupInv'
    BY <2>3 DEF SetupInv
  <2> QED BY <1>4, <1>5, <2>2, <2>4
<1> QED BY <1>6, <1>7

LEMMA SetupKeeps ==
    ASSUME IndInv, NEW p \in Procs, SetupQueues(p)
    PROVE  IndInv'
<1> USE DEF IndInv, TopologyInv
<1>1. step[p] \in 1 .. 7
  BY Steps DEF TypeOK
<1>2. CASE SetQos(p)
  <2>1. step[p] = 1
    BY <1>1, <1>2, Steps DEF SetQos, Step
  <2>2. Declared(step[p] + 1) = {}
    BY <2>1 DEF Declared
  <2>3. /\ at[p] = "setup" /\ StepDone(p) /\ objects' = objects /\ bindings' = bindings
    BY <1>2 DEF SetQos
  <2>4. KeptInv'
    BY <2>3 DEF KeptInv
  <2>5. /\ \A b \in bindings : Ends(b) \subseteq DOMAIN objects
        /\ DOMAIN objects \subseteq {"exchange", "queue", "dlq_exchange", "dlq"}
        /\ \A b \in bindings : b.exchange = "exchange" => b.queue = "queue"
    BY DEF TypeOK, RoutesInv
  <2> QED BY <2>1, <2>2, <2>3, <2>4, <2>5, StepKeeps
<1>3. CASE DeclareObject(p)
  <2> DEFINE name == SetupSteps[step[p]].name
  <2>1. step[p] \in {2, 3, 4, 5}
    BY <1>1, <1>3, Steps DEF DeclareObject, Step
  <2>2. /\ name \in {"exchange", "queue", "dlq_exchange", "dlq"}
        /\ Declared(step[p] + 1) \subseteq Declared(step[p]) \cup {name}
    BY <2>1, Steps DEF Declared
  <2>3. objects' = [n \in DOMAIN objects \cup {name} |->
                      IF n \in DOMAIN objects THEN objects[n] ELSE TRUE]
    BY <1>3 DEF DeclareObject, Step, DurableFlag
  <2>4. DOMAIN objects' = DOMAIN objects \cup {name}
    BY <2>3
  <2> HIDE DEF name
  <2>5. KeptInv'
    BY <2>3, <2>4 DEF KeptInv
  <2>6. Declared(step[p]) \subseteq DOMAIN objects
    BY DEF SetupInv
  <2>7. /\ at[p] = "setup" /\ StepDone(p) /\ bindings' = bindings
        /\ \A b \in bindings : Ends(b) \subseteq DOMAIN objects
        /\ DOMAIN objects \subseteq {"exchange", "queue", "dlq_exchange", "dlq"}
        /\ \A b \in bindings : b.exchange = "exchange" => b.queue = "queue"
    BY <1>3 DEF DeclareObject, TypeOK, RoutesInv
  <2>8. /\ DOMAIN objects' \subseteq {"exchange", "queue", "dlq_exchange", "dlq"}
        /\ \A b \in bindings' : Ends(b) \subseteq DOMAIN objects'
        /\ Declared(step[p] + 1) \subseteq DOMAIN objects'
        /\ DOMAIN objects \subseteq DOMAIN objects' /\ bindings \subseteq bindings'
    BY <2>2, <2>4, <2>6, <2>7
  <2> QED BY <2>1, <2>5, <2>7, <2>8, StepKeeps
<1>4. CASE BindQueue(p)
  <2> DEFINE s == SetupSteps[step[p]]
             new == [queue |-> s.queue, exchange |-> s.exchange,
                     key |-> BindingKey(p, s.queue)]
  <2>1. step[p] \in {6, 7}
    BY <1>1, <1>4, Steps DEF BindQueue, Step
  <2>2. /\ Ends(s) \subseteq DOMAIN objects /\ bindings' = bindings \cup {new}
        /\ at[p] = "setup" /\ StepDone(p) /\ objects' = objects
    BY <1>4 DEF BindQueue, Step
  <2>3. Ends(new) \subseteq DOMAIN objects
    BY <2>2 DEF Ends
  <2>4. \A b \in bindings' : Ends(b) \subseteq DOMAIN objects'
    BY <2>2, <2>3 DEF TypeOK
  <2>5. Declared(step[p] + 1) \subseteq Declared(step[p])
    BY <2>1 DEF Declared
  <2>6. step[p] = 6 => MainBinding(pattern[p]) \in bindings'
    BY <2>2, Steps DEF MainBinding, BindingKey
  <2>7. KeptInv' /\ Declared(step[p]) \subseteq DOMAIN objects
        /\ DOMAIN objects \subseteq {"exchange", "queue", "dlq_exchange", "dlq"}
    BY <2>2 DEF KeptInv, SetupInv, TypeOK
  <2>8. \A b \in bindings' : b.exchange = "exchange" => b.queue = "queue"
    BY <2>1, <2>2, Steps DEF RoutesInv
  <2> QED BY <2>2, <2>4, <2>5, <2>6, <2>7, <2>8, StepKeeps
<1>5. CASE SetupFails(p)
  <2>1. CASE End(p, "connection")
    BY <2>1, EndKeeps
  <2>2. Step(p).op = "bind" => Ends(Step(p)) \subseteq DOMAIN objects
    <3>1. SUFFICES ASSUME Step(p).op = "bind" PROVE Ends(Step(p)) \subseteq DOMAIN objects
      OBVIOUS
    <3>2. step[p] \in {6, 7}
      BY <1>1, <3>1, Steps DEF Step
    <3>3. Ends(Step(p)) \subseteq {"exchange", "queue", "dlq_exchange", "dlq"}
      BY <3>2, Steps DEF Step, Ends
    <3>4. {"exchange", "queue", "dlq_exchange", "dlq"} \subseteq Declared(step[p])
      BY <3>2 DEF Declared
    <3>5. Declared(step[p]) \subseteq DOMAIN objects
      BY DEF SetupInv
    <3> QED BY <3>3, <3>4, <3>5
  <2> QED BY <1>5, <2>1, <2>2 DEF SetupFails
<1> QED BY <1>2, <1>3, <1>4, <1>5 DEF SetupQueues

-----------------------------------------------------------------------------
(* Publishing, and the broker: all that was declared is kept. *)
LEMMA PublishKeeps ==
    ASSUME IndInv, NEW p \in Procs, NEW e \in Events,
           Publish(p, e) \/ PublishUnlinked(p, e)
    PROVE  IndInv'
<1> USE DEF IndInv, TopologyInv
<1>1. /\ UNCHANGED <<up, objects, bindings, procVars>>
      /\ where' \in [Events -> {"unpublished", "queued", "dropped", "refused", "lost"}]
  BY DEF Publish, PublishUnlinked, TypeOK
<1>2. TypeOK'
  BY <1>1 DEF TypeOK, procVars, Ends
<1>3. RoutesInv'
  <2>1. ASSUME NEW f \in Events, where'[f] = "queued" PROVE "queue" \in DOMAIN objects
    <3>1. CASE where[f] = "queued"
      BY <3>1 DEF RoutesInv
    <3>2. CASE where[f] # "queued"
      <4>1. Routed(e)
        BY <2>1, <3>2 DEF Publish, PublishUnlinked, TypeOK
      <4> QED BY <4>1 DEF Routed, RoutesInv, TypeOK, Ends
    <3> QED BY <3>1, <3>2
  <2> QED BY <1>1, <2>1 DEF RoutesInv
<1> QED BY <1>1, <1>2, <1>3 DEF BindFindsItsEnds, KeptInv, SetupInv, ServedInv, procVars

LEMMA KeptIsAll == ASSUME KeptInv PROVE Kept = DOMAIN objects
BY DEF KeptInv, Kept

LEMMA BrokerKeeps == ASSUME IndInv, BrokerDown \/ BrokerUp PROVE IndInv'
<1> USE DEF IndInv, TopologyInv
<1>1. CASE BrokerDown
  <2>1. DOMAIN objects' = DOMAIN objects /\ KeptInv'
    BY <1>1, KeptIsAll DEF BrokerDown, KeptInv
  <2>2. bindings' = bindings
    BY <1>1, KeptIsAll DEF BrokerDown, TypeOK
  <2>3. where' \in [Events -> {"unpublished", "queued", "dropped", "refused", "lost"}]
    BY <1>1 DEF BrokerDown, TypeOK
  <2>4. up' \in BOOLEAN /\ linked' \in [Procs -> BOOLEAN]
        /\ UNCHANGED <<at, step, tries, pattern, ended, served>>
    BY <1>1 DEF BrokerDown
  <2>5. TypeOK'
    BY <2>1, <2>2, <2>3, <2>4 DEF TypeOK
  <2>6. RoutesInv'
    BY <1>1, <2>1, <2>2 DEF BrokerDown, RoutesInv
  <2> QED BY <2>1, <2>2, <2>4, <2>5, <2>6 DEF BindFindsItsEnds, SetupInv, ServedInv
<1>2. CASE BrokerUp
  <2>1. UNCHANGED <<objects, bindings, where, procVars>> /\ up' \in BOOLEAN
    BY <1>2 DEF BrokerUp
  <2>2. TypeOK'
    BY <2>1 DEF TypeOK, procVars, Ends
  <2> QED BY <2>1, <2>2 DEF BindFindsItsEnds, KeptInv, SetupInv, ServedInv, RoutesInv,
                            procVars
<1> QED BY <1>1, <1>2

LEMMA IndStep == IndInv /\ [Next]_vars => IndInv'
<1> SUFFICES ASSUME IndInv, [Next]_vars PROVE IndInv'
  OBVIOUS
<1>1. CASE \E p \in Procs : Boot(p) \/ Connect(p) \/ Die(p)
  BY <1>1, ConnectKeeps
<1>2. CASE \E p \in Procs : SetupQueues(p)
  BY <1>2, SetupKeeps
<1>3. CASE \E p \in Procs, e \in Events : Publish(p, e) \/ PublishUnlinked(p, e)
  BY <1>3, PublishKeeps
<1>4. CASE BrokerDown \/ BrokerUp
  BY <1>4, BrokerKeeps
<1>5. CASE UNCHANGED vars
  <2>1. TypeOK'
    BY <1>5 DEF IndInv, TopologyInv, TypeOK, vars, brokerVars, procVars, Ends
  <2> QED BY <1>5, <2>1 DEF IndInv, TopologyInv, BindFindsItsEnds, KeptInv, SetupInv,
                            ServedInv, RoutesInv, vars, brokerVars, procVars
<1> QED BY <1>1, <1>2, <1>3, <1>4, <1>5 DEF Next

-----------------------------------------------------------------------------
(* The inductive invariant holds whatever processes run the set-up in        *)
(* whatever order, and whatever dies between its steps.                      *)
THEOREM Invariance == Spec => []IndInv
BY InitInv, IndStep, PTL DEF Spec

(* SetupQueues never binds an exchange or a queue that is not there, however *)
(* many processes run it at a time (manager.go, SetupQueues).                *)
THEOREM SetupFindsItsEnds == Spec => []TopologyInv
<1>1. IndInv => TopologyInv
  BY DEF IndInv
<1> QED BY <1>1, Invariance, PTL

(* No publication that matches the ROUTING_KEY of a process that got ready   *)
(* is dropped, however far back that was (manager.go, PublishMessage).       *)
THEOREM RoutedForGood == Spec => NothingDroppedOnceBound
<1>1. IndInv => [\A p \in Procs, e \in Events :
          Publish(p, e) /\ (\E k \in served : Matches(e, k)) => where'[e] = "queued"]_vars
  <2>1. SUFFICES ASSUME IndInv, NEW p \in Procs, NEW e \in Events, Publish(p, e),
                        NEW k \in served, Matches(e, k)
                 PROVE  where'[e] = "queued"
    OBVIOUS
  <2>2. MainBinding(k) \in bindings
    BY <2>1 DEF IndInv, ServedInv
  <2>3. Routed(e)
    BY <2>1, <2>2 DEF Routed, MainBinding
  <2> QED BY <2>1, <2>3 DEF Publish, IndInv, TopologyInv, TypeOK
<1> QED BY <1>1, Invariance, PTL DEF NothingDroppedOnceBound

(* An event in the queue stays there over every restart of the broker.       *)
THEOREM QueuedForGood == Spec => QueueKeepsEvents
<1>1. IndInv /\ [Next]_vars =>
        [\A e \in Events : where[e] = "queued" => where'[e] = "queued"]_vars
  <2>1. SUFFICES ASSUME IndInv, [Next]_vars, vars' # vars,
                        NEW e \in Events, where[e] = "queued"
                 PROVE  where'[e] = "queued"
    OBVIOUS
  <2> USE DEF brokerVars
  <2>2. where \in [Events -> {"unpublished", "queued", "dropped", "refused", "lost"}]
    BY <2>1 DEF IndInv, TopologyInv, TypeOK
  <2>3. CASE BrokerDown
    BY <2>1, <2>3, KeptIsAll DEF BrokerDown, IndInv, RoutesInv
  <2>4. CASE BrokerUp
    BY <2>1, <2>4 DEF BrokerUp
  <2>5. CASE \E p \in Procs : Boot(p) \/ Connect(p) \/ Die(p)
    BY <2>1, <2>5 DEF Boot, Connect, Dial, DialFails, ConnectFails, Die, End
  <2>6. CASE \E p \in Procs : SetupQueues(p)
    BY <2>1, <2>6 DEF SetupQueues, SetQos, DeclareObject, BindQueue, SetupFails, StepDone,
                      End
  <2>7. CASE \E p \in Procs, f \in Events : Publish(p, f) \/ PublishUnlinked(p, f)
    BY <2>1, <2>2, <2>7 DEF Publish, PublishUnlinked
  <2> QED BY <2>1, <2>3, <2>4, <2>5, <2>6, <2>7 DEF Next
<1> QED BY <1>1, Invariance, PTL DEF QueueKeepsEvents, Spec
=============================================================================
