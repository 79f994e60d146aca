-------------------------- MODULE DeadLettersProofs --------------------------
(***************************************************************************)
(* Theorems about DeadLetters, for any messages and any number of lives.   *)
(***************************************************************************)
EXTENDS DeadLetters, FiniteSetTheorems, TLAPS

(* The goroutine's place and the connection say where its message is, and   *)
(* what this life has shown and still is connected for is settled, or about *)
(* to be.                                                                   *)
HeldInv ==
    /\ loop \in {"got", "switch"} =>
          /\ where[held] \in {"dlq", "unacked"}
          /\ linked => where[held] = "unacked"
    /\ loop = "got" => shows[held] = 0
    /\ loop = "switch" => held \in seen

LifeInv ==
    /\ main = "down" => ~linked /\ loop = "ended"
    /\ ~linked => Unacked = {}
    /\ linked => \A m \in Messages :
          shows[m] > 0 => where[m] \in Settled \/ (loop = "switch" /\ held = m)

IndInv == DeadLettersInv /\ IsFiniteSet(Unacked) /\ HeldInv /\ LifeInv

-----------------------------------------------------------------------------
(* The initial state: nothing is delivered, nothing shown. *)
LEMMA InitInv == Init => IndInv
<1> SUFFICES ASSUME Init PROVE IndInv
  OBVIOUS
<1>1. Unacked = {}
  BY DEF Init, Unacked
<1>2. IsFiniteSet(Unacked) /\ Cardinality(Unacked) <= 1
  BY <1>1, FS_EmptySet
<1>3. TypeOK
  <2>1. /\ where \in [Messages -> {"main", "lost", "dlq", "unacked"} \cup Settled]
        /\ shows \in [Messages -> Nat] /\ life \in 0 .. MaxLives
    BY LivesAssumption DEF Init
  <2> QED BY <1>2, <2>1 DEF Init, TypeOK
<1>4. ShownOncePerLife
  BY DEF Init, ShownOncePerLife
<1>5. HeldInv /\ LifeInv
  BY <1>1 DEF Init, HeldInv, LifeInv
<1> QED BY <1>2, <1>3, <1>4, <1>5 DEF IndInv, DeadLettersInv

(* Whatever moves one message only, or none, into the prefetch window or    *)
(* out of it leaves at most one there.                                      *)
LEMMA Window ==
    ASSUME IsFiniteSet(Unacked), Cardinality(Unacked) <= 1,
           \/ Unacked' \subseteq Unacked
           \/ \E m : Unacked' = Unacked \cup {m} /\ Cardinality(Unacked) < 1
    PROVE  IsFiniteSet(Unacked') /\ Cardinality(Unacked') <= 1
<1>1. Cardinality(Unacked) \in Nat
  BY FS_CardinalityType
<1>2. CASE Unacked' \subseteq Unacked
  <2>1. IsFiniteSet(Unacked') /\ Cardinality(Unacked') <= Cardinality(Unacked)
    BY <1>2, FS_Subset
  <2> QED BY <1>1, <2>1, FS_CardinalityType
<1>3. CASE \E m : Unacked' = Unacked \cup {m} /\ Cardinality(Unacked) < 1
  <2>1. PICK m : Unacked' = Unacked \cup {m} /\ Cardinality(Unacked) < 1
    BY <1>3
  <2>2. Unacked = {}
    BY <1>1, <2>1, FS_EmptySet
  <2>3. Unacked' = {m}
    BY <2>1, <2>2
  <2>4. IsFiniteSet({m}) /\ Cardinality({m}) = 1
    BY FS_Singleton
  <2> QED BY <2>3, <2>4
<1> QED BY <1>2, <1>3

-----------------------------------------------------------------------------
(* One lemma per party: what the broker, the consuming goroutine and main   *)
(* do keeps the invariant.                                                  *)
LEMMA BrokerStep ==
    ASSUME IndInv, NEW m \in Messages, GiveUp(m) \/ Deliver(m)
    PROVE  IndInv'
<1> USE DEF IndInv, DeadLettersInv
<1>1. CASE GiveUp(m)
  <2>1. Unacked' = Unacked
    BY <1>1 DEF GiveUp, Unacked, TypeOK
  <2>2. TypeOK'
    BY <1>1, <2>1 DEF GiveUp, TypeOK, Settled, processVars
  <2>3. ShownOncePerLife' /\ HeldInv' /\ LifeInv'
    BY <1>1, <2>1 DEF GiveUp, TypeOK, Settled, processVars, ShownOncePerLife, HeldInv, LifeInv
  <2> QED BY <2>1, <2>2, <2>3
<1>2. CASE Deliver(m)
  <2>1. Unacked' = Unacked \cup {m} /\ Cardinality(Unacked) < 1
    BY <1>2 DEF Deliver, Unacked, TypeOK, Prefetch
  <2>2. IsFiniteSet(Unacked') /\ Cardinality(Unacked') <= 1
    BY <2>1, Window DEF TypeOK
  <2>3. TypeOK'
    BY <1>2, <2>2 DEF Deliver, TypeOK, Settled, processVars
  <2>4. ShownOncePerLife' /\ HeldInv' /\ LifeInv'
    BY <1>2 DEF Deliver, TypeOK, Settled, processVars, ShownOncePerLife, HeldInv, LifeInv
  <2> QED BY <2>2, <2>3, <2>4
<1> QED BY <1>1, <1>2

\* A step of the goroutine that settles its message, or fails to.
SettleStep(as) ==
    /\ loop \in {"got", "switch"} /\ loop' = "select" /\ Settle(as)
    /\ UNCHANGED <<life, main, held, stats, linked, shows, seen>>

LEMMA SettleKeeps ==
    ASSUME IndInv, NEW as \in Settled, SettleStep(as)
    PROVE  IndInv'
<1> USE DEF IndInv, DeadLettersInv
<1>1. /\ where' \in [Messages -> {"main", "lost", "dlq", "unacked"} \cup Settled]
      /\ Unacked' \subseteq Unacked
      /\ \A m \in Messages : where[m] \in Settled => where'[m] \in Settled
      /\ linked => where'[held] \in Settled
  BY DEF SettleStep, Settle, TypeOK, Settled, Unacked
<1>2. IsFiniteSet(Unacked') /\ Cardinality(Unacked') <= 1
  BY <1>1, Window DEF TypeOK
<1>3. TypeOK'
  BY <1>1, <1>2 DEF SettleStep, TypeOK
<1>4. ShownOncePerLife' /\ HeldInv'
  BY DEF SettleStep, ShownOncePerLife, HeldInv
<1>5. LifeInv'
  BY <1>1 DEF SettleStep, LifeInv, TypeOK
<1> QED BY <1>2, <1>3, <1>4, <1>5

LEMMA LoopStep ==
    ASSUME IndInv, Loop \/ StopConsuming
    PROVE  IndInv'
<1> USE DEF IndInv, DeadLettersInv
<1>1. CASE Take
  <2>1. Unacked' = Unacked /\ UNCHANGED <<where, life, main, stats, linked, shows, seen>>
    BY <1>1 DEF Take, Unacked
  <2>2. CASE \E m \in Unacked : held' = m /\ loop' = "got"
    <3>1. PICK m \in Unacked : held' = m /\ loop' = "got"
      BY <2>2
    <3>2. m \in Messages /\ where[m] = "unacked" /\ linked /\ loop = "select"
      BY <1>1, <3>1 DEF Take, Unacked, LifeInv
    <3>3. shows[m] = 0
      BY <3>2 DEF LifeInv, Settled, TypeOK
    <3>4. TypeOK' /\ ShownOncePerLife'
      BY <2>1, <3>1, <3>2 DEF TypeOK, ShownOncePerLife
    <3>5. HeldInv'
      BY <2>1, <3>1, <3>2, <3>3 DEF HeldInv
    <3>6. LifeInv'
      BY <2>1, <3>1, <3>2 DEF LifeInv
    <3> QED BY <2>1, <3>4, <3>5, <3>6
  <2>3. CASE ~linked /\ loop' = "zero" /\ UNCHANGED held
    <3>1. main # "down"
      BY <1>1 DEF Take, LifeInv
    <3> QED BY <2>1, <2>3, <3>1 DEF TypeOK, ShownOncePerLife, HeldInv, LifeInv
  <2> QED BY <1>1, <2>2, <2>3 DEF Take
<1>2. CASE ZeroRejected \/ StopConsuming
  <2>1. Unacked' = Unacked
    BY <1>2 DEF ZeroRejected, StopConsuming, Unacked
  <2> QED BY <1>2, <2>1 DEF ZeroRejected, StopConsuming, TypeOK, ShownOncePerLife,
                            HeldInv, LifeInv
<1>3. CASE RejectUndecodable
  <2>1. SettleStep("discarded") /\ "discarded" \in Settled
    BY <1>3 DEF RejectUndecodable, SettleStep, Settled
  <2> QED BY <2>1, SettleKeeps
<1>4. CASE Acknowledge
  <2>1. SettleStep("settled") /\ "settled" \in Settled
    BY <1>4 DEF Acknowledge, SettleStep, Settled
  <2> QED BY <2>1, SettleKeeps
<1>5. CASE Show
  <2>1. /\ Unacked' = Unacked /\ held \in Messages /\ held \notin Undecodable
        /\ shows \in [Messages -> Nat] /\ shows[held] = 0 /\ loop = "got"
        /\ shows' = [shows EXCEPT ![held] = @ + 1] /\ seen' = seen \cup {held}
        /\ loop' = "switch" /\ UNCHANGED <<where, life, main, held, stats, linked>>
    BY <1>5 DEF Show, Unacked, HeldInv, TypeOK
  <2>2. /\ shows' \in [Messages -> Nat] /\ shows'[held] = 1
        /\ \A m \in Messages : m # held => shows'[m] = shows[m]
    BY <2>1
  <2>3. TypeOK'
    BY <2>1, <2>2 DEF TypeOK
  <2>4. ShownOncePerLife'
    BY <2>1, <2>2 DEF ShownOncePerLife
  <2>5. HeldInv' /\ LifeInv'
    BY <2>1, <2>2 DEF HeldInv, LifeInv
  <2> QED BY <2>1, <2>3, <2>4, <2>5
<1> QED BY <1>1, <1>2, <1>3, <1>4, <1>5 DEF Loop

LEMMA MainStep ==
    ASSUME IndInv,
           Inspect \/ StopStats \/ Boot \/ Signal \/ WaitEnds \/ Close \/ Die \/ LinkLost
    PROVE  IndInv'
<1> USE DEF IndInv, DeadLettersInv
<1>1. CASE Inspect \/ StopStats \/ Signal \/ WaitEnds
  <2>1. Unacked' = Unacked
    BY <1>1 DEF Inspect, StopStats, Signal, WaitEnds, Unacked
  <2> QED BY <1>1, <2>1 DEF Inspect, StopStats, Signal, WaitEnds, TypeOK,
                            ShownOncePerLife, HeldInv, LifeInv
<1>2. CASE Boot
  <2>1. Unacked' = Unacked
    BY <1>2 DEF Boot, Unacked
  <2>2. \A m \in Messages : shows'[m] = 0
    BY <1>2 DEF Boot
  <2>3. TypeOK'
    BY <1>2, <2>1, LivesAssumption DEF Boot, TypeOK
  <2> QED BY <1>2, <2>1, <2>2, <2>3 DEF Boot, ShownOncePerLife, HeldInv, LifeInv
<1>3. CASE LinkLost \/ Close \/ Die
  <2>1. /\ where' = Requeued /\ linked' = FALSE /\ UNCHANGED <<life, held, shows, seen>>
        /\ \/ UNCHANGED <<main, loop, stats>> /\ main # "down"
           \/ main' = "down" /\ loop' = "ended" /\ stats' = "ended"
    BY <1>3 DEF LinkLost, Close, Die, Gone
  <2>2. /\ where' \in [Messages -> {"main", "lost", "dlq", "unacked"} \cup Settled]
        /\ \A m \in Messages : where'[m] # "unacked"
        /\ \A m \in Messages : where[m] \in {"dlq", "unacked"} => where'[m] = "dlq"
    BY <2>1 DEF Requeued, TypeOK
  <2>3. Unacked' = {}
    BY <2>2 DEF Unacked
  <2>4. IsFiniteSet(Unacked') /\ Cardinality(Unacked') <= 1
    BY <2>3, FS_EmptySet
  <2>5. TypeOK'
    BY <2>1, <2>2, <2>4 DEF TypeOK
  <2>6. ShownOncePerLife' /\ HeldInv' /\ LifeInv'
    BY <2>1, <2>2, <2>3 DEF ShownOncePerLife, HeldInv, LifeInv, TypeOK
  <2> QED BY <2>4, <2>5, <2>6
<1> QED BY <1>1, <1>2, <1>3

LEMMA IndStep == IndInv /\ [Next]_vars => IndInv'
<1>1. CASE IndInv /\ UNCHANGED vars
  BY <1>1 DEF IndInv, DeadLettersInv, TypeOK, Unacked, ShownOncePerLife, HeldInv,
              LifeInv, vars, processVars
<1> QED BY <1>1, BrokerStep, LoopStep, MainStep DEF Next, Done

(* The inductive invariant: every message of the dead-letter queue is where *)
(* the consumer's goroutine and its connection say it is.                   *)
THEOREM Invariance == Spec => []IndInv
BY InitInv, IndStep, PTL DEF Spec

(* Each life of the DLQ consumer shows a dead letter at most once, however  *)
(* acks, lost connections and deaths fall.                                  *)
THEOREM OncePerLife == Spec => []DeadLettersInv
<1>1. IndInv => DeadLettersInv
  BY DEF IndInv
<1> QED BY <1>1, Invariance, PTL

-----------------------------------------------------------------------------
(* The refinement of AtLeastOnce.                                           *)
Status(w) ==
    CASE w \in {"main", "lost"} -> "absent"
      [] w = "dlq"     -> "ready"
      [] w = "unacked" -> "taken"
      [] w = "settled" -> "done"
      [] OTHER         -> "dropped"

StatusOf == [m \in Messages |-> Status(where[m])]

LEMMA Mapping ==
    /\ Status("main") = "absent" /\ Status("lost") = "absent" /\ Status("dlq") = "ready"
    /\ Status("unacked") = "taken" /\ Status("settled") = "done"
    /\ Status("discarded") = "dropped"
BY DEF Status

(* What changes for one message changes for one status. *)
LEMMA StatusChange ==
    ASSUME NEW m \in Messages, NEW w, NEW S, where \in [Messages -> S],
           where' = [where EXCEPT ![m] = w]
    PROVE  StatusOf' = [StatusOf EXCEPT ![m] = Status(w)]
BY DEF StatusOf

(* Each step of the DLQ and its consumer is a step of the abstract queue,   *)
(* or does not change what it sees.                                         *)
LEMMA StepRefines ==
    IndInv /\ [Next]_vars => [Queue!Next]_(Queue!aloVars)
<1> SUFFICES ASSUME IndInv, [Next]_vars
             PROVE  Queue!Next \/ (StatusOf' = StatusOf /\ seen' = seen)
  BY DEF Queue!aloVars, StatusOf, Status
<1>1. where \in [Messages -> {"main", "lost", "dlq", "unacked"} \cup Settled]
  BY DEF IndInv, DeadLettersInv, TypeOK
<1>2. held \in Messages /\ HeldInv
  BY DEF IndInv, DeadLettersInv, TypeOK
<1>3. CASE where' = where /\ seen' = seen
  BY <1>3 DEF StatusOf
<1>4. ASSUME NEW m \in Messages, GiveUp(m)
      PROVE  Queue!Next \/ (StatusOf' = StatusOf /\ seen' = seen)
  <2>1. StatusOf[m] = "absent" /\ seen' = seen
    BY <1>1, <1>4, Mapping DEF GiveUp, StatusOf
  <2>2. CASE HasDeadLetterExchange
    <3>1. StatusOf' = [StatusOf EXCEPT ![m] = "ready"]
      BY <1>1, <1>4, <2>2, StatusChange, Mapping DEF GiveUp
    <3>2. Queue!Enqueue(m)
      BY <2>1, <3>1 DEF Queue!Enqueue, StatusOf, Status
    <3> QED BY <3>2 DEF Queue!Next
  <2>3. CASE ~HasDeadLetterExchange
    <3>1. StatusOf' = [StatusOf EXCEPT ![m] = "absent"]
      BY <1>1, <1>4, <2>3, StatusChange, Mapping DEF GiveUp
    <3>2. StatusOf' = StatusOf
      BY <2>1, <3>1 DEF StatusOf
    <3> QED BY <2>1, <3>2
  <2> QED BY <2>2, <2>3
<1>5. ASSUME NEW m \in Messages, Deliver(m) PROVE Queue!Next
  <2>1. /\ StatusOf[m] = "ready" /\ seen' = seen
        /\ StatusOf' = [StatusOf EXCEPT ![m] = "taken"]
    BY <1>1, <1>5, StatusChange, Mapping DEF Deliver, StatusOf
  <2>2. Queue!TakeOne(m)
    BY <2>1 DEF Queue!TakeOne, StatusOf, Status
  <2> QED BY <2>2 DEF Queue!Next
<1>6. ASSUME where' = Requeued, seen' = seen PROVE Queue!Next
  <2>1. ASSUME NEW m \in Messages
        PROVE  Status(where'[m]) = IF Status(where[m]) = "taken" THEN "ready"
                                                                ELSE Status(where[m])
    BY <1>1, <1>6, Mapping DEF Requeued, Settled
  <2>2. StatusOf' = [m \in Messages |-> IF StatusOf[m] = "taken" THEN "ready"
                                                                ELSE StatusOf[m]]
    BY <2>1 DEF StatusOf
  <2>3. Queue!PutBack
    BY <1>6, <2>2 DEF Queue!PutBack, StatusOf, Status
  <2> QED BY <2>3 DEF Queue!Next
<1>7. CASE Show
  <2>1. /\ StatusOf[held] \in {"ready", "taken"} /\ StatusOf' = StatusOf
        /\ seen' = seen \cup {held}
    BY <1>1, <1>2, <1>7, Mapping DEF Show, HeldInv, StatusOf
  <2>2. Queue!Handle(held)
    BY <2>1 DEF Queue!Handle, StatusOf, Status
  <2>3. held \in Messages
    BY <1>2
  <2> QED BY <2>2, <2>3 DEF Queue!Next
<1>8. ASSUME linked, loop \in {"got", "switch"}, NEW as,
             where' = [where EXCEPT ![held] = as]
      PROVE  StatusOf[held] = "taken" /\ StatusOf' = [StatusOf EXCEPT ![held] = Status(as)]
  BY <1>1, <1>2, <1>8, StatusChange, Mapping DEF HeldInv, StatusOf
<1>9. ASSUME NEW m \in Messages, m = held, RejectUndecodable, linked
      PROVE  Queue!Next
  <2>1. /\ StatusOf[m] = "taken" /\ seen' = seen
        /\ StatusOf' = [StatusOf EXCEPT ![m] = "dropped"]
    BY <1>8, <1>9, Mapping DEF RejectUndecodable, Settle
  <2>2. Queue!Drop(m)
    BY <2>1 DEF Queue!Drop, StatusOf, Status
  <2> QED BY <2>2 DEF Queue!Next
<1>10. ASSUME NEW m \in Messages, m = held, Acknowledge, linked
       PROVE  Queue!Next
  <2>1. /\ StatusOf[m] = "taken" /\ m \in seen /\ seen' = seen
        /\ StatusOf' = [StatusOf EXCEPT ![m] = "done"]
    BY <1>2, <1>8, <1>10, Mapping DEF Acknowledge, Settle, HeldInv
  <2>2. Queue!Finish(m)
    BY <2>1 DEF Queue!Finish, StatusOf, Status
  <2> QED BY <2>2 DEF Queue!Next
<1>11. CASE (RejectUndecodable \/ Acknowledge) /\ ~linked
  BY <1>3, <1>11 DEF RejectUndecodable, Acknowledge, Settle
<1>12. CASE \/ UNCHANGED vars \/ Take \/ ZeroRejected \/ StopConsuming \/ Inspect
            \/ StopStats \/ Boot \/ Signal \/ WaitEnds \/ Done
  BY <1>3, <1>12 DEF vars, Take, ZeroRejected, StopConsuming, Inspect, StopStats, Boot,
                     Signal, WaitEnds, Done
<1>13. CASE Close \/ Die \/ LinkLost
  BY <1>6, <1>13 DEF Close, Die, Gone, LinkLost
<1> QED BY <1>2, <1>4, <1>5, <1>7, <1>9, <1>10, <1>11, <1>12, <1>13 DEF Next, Loop

(* The dead-letter queue and its consumer are an at-least-once queue: only  *)
(* what was shown is acknowledged, and what an end of the process or the    *)
(* connection leaves unsettled comes back.  With a dead-letter exchange or  *)
(* without, when nothing ever gets into it.                                 *)
THEOREM DeadLettersRefine == Spec => ImplementsAtLeastOnce
<1>1. Init => Queue!Init
  BY DEF Init, Queue!Init
<1>2. IndInv /\ [Next]_vars => [Queue!Next]_(Queue!aloVars)
  BY StepRefines
<1> QED BY <1>1, <1>2, Invariance, PTL DEF Spec, ImplementsAtLeastOnce, Queue!Spec
=============================================================================
