--------------------------- MODULE SemaphoreProofs ---------------------------
(***************************************************************************)
(* Theorems about Semaphore, for any finite set of goroutines and any      *)
(* number of permits.                                                      *)
(***************************************************************************)
EXTENDS Semaphore, FiniteSetTheorems, SequenceTheorems, TLAPS

(* Leaving from the middle takes exactly that element out of the range.     *)
LEMMA WithoutRange ==
    ASSUME NEW S, NEW s \in Seq(S), IsInjective(s), NEW i \in DOMAIN s
    PROVE  /\ Without(s, i) \in Seq(S)
           /\ Range(Without(s, i)) = Range(s) \ {s[i]}
           /\ IsInjective(Without(s, i))
<1> DEFINE t == Without(s, i)
<1>1. /\ Len(s) \in Nat \ {0} /\ DOMAIN s = 1 .. Len(s) /\ i \in 1 .. Len(s)
      /\ \A k \in 1 .. Len(s) : s[k] \in S
  BY LenProperties, ElementOfSeq
<1>2. /\ DOMAIN t = 1 .. Len(s) - 1
      /\ \A k \in 1 .. Len(s) - 1 : t[k] = IF k < i THEN s[k] ELSE s[k + 1]
  BY DEF Without
<1>3. t \in Seq(S)
  <2>1. t \in [1 .. Len(s) - 1 -> S]
    BY <1>1 DEF Without
  <2>2. Len(s) - 1 \in Nat
    BY <1>1
  <2> QED BY <2>1, <2>2
<1> HIDE DEF t
<1>4. IsInjective(t)
  BY <1>1, <1>2 DEF IsInjective
<1>5. ASSUME NEW k \in DOMAIN t PROVE t[k] \in Range(s) \ {s[i]}
  BY <1>1, <1>2 DEF Range, IsInjective
<1>6. ASSUME NEW k \in DOMAIN s, s[k] # s[i] PROVE s[k] \in Range(t)
  <2>1. CASE k < i
    <3>1. k \in DOMAIN t /\ t[k] = s[k]
      BY <1>1, <1>2, <2>1
    <3> QED BY <3>1 DEF Range
  <2>2. CASE k > i
    <3>1. k - 1 \in DOMAIN t /\ t[k - 1] = s[k]
      BY <1>1, <1>2, <2>2
    <3> QED BY <3>1 DEF Range
  <2> QED BY <1>1, <1>6, <2>1, <2>2
<1>7. Range(t) = Range(s) \ {s[i]}
  BY <1>5, <1>6 DEF Range
<1> QED BY <1>3, <1>4, <1>7 DEF t

(* Taking the head is leaving from the front.                               *)
LEMMA TailRange ==
    ASSUME NEW S, NEW s \in Seq(S), s # <<>>, IsInjective(s)
    PROVE  /\ Head(s) \in S /\ Head(s) \in Range(s)
           /\ Tail(s) \in Seq(S)
           /\ Range(Tail(s)) = Range(s) \ {Head(s)}
           /\ IsInjective(Tail(s))
<1>1. Len(s) \in Nat \ {0} /\ DOMAIN s = 1 .. Len(s)
  BY LenProperties, EmptySeq
<1>2. 1 \in DOMAIN s /\ Head(s) = s[1] /\ s[1] \in S
  BY <1>1, ElementOfSeq
<1>3. Tail(s) = Without(s, 1)
  <2>1. /\ Tail(s) \in Seq(S) /\ Len(Tail(s)) = Len(s) - 1
        /\ \A k \in 1 .. Len(Tail(s)) : Tail(s)[k] = s[k + 1]
    BY HeadTailProperties
  <2>2. /\ Tail(s) = [k \in 1 .. Len(s) - 1 |-> s[k + 1]]
    BY <2>1, LenProperties
  <2>3. \A k \in 1 .. Len(s) - 1 : (IF k < 1 THEN s[k] ELSE s[k + 1]) = s[k + 1]
    BY <1>1
  <2> QED BY <2>2, <2>3 DEF Without
<1>4. /\ Without(s, 1) \in Seq(S) /\ Range(Without(s, 1)) = Range(s) \ {s[1]}
      /\ IsInjective(Without(s, 1))
  BY <1>2, WithoutRange
<1>5. Head(s) \in Range(s)
  BY <1>2 DEF Range
<1> QED BY <1>2, <1>3, <1>4, <1>5

(* Appending an element adds it to the range, and keeps a sequence free of  *)
(* repetitions when the element is new.                                     *)
LEMMA AppendRange ==
    ASSUME NEW S, NEW s \in Seq(S), NEW e \in S
    PROVE  /\ Append(s, e) \in Seq(S) /\ Len(Append(s, e)) = Len(s) + 1
           /\ Range(Append(s, e)) = Range(s) \cup {e}
           /\ IsInjective(s) /\ e \notin Range(s) => IsInjective(Append(s, e))
<1> DEFINE t == Append(s, e)
<1>1. /\ t \in Seq(S) /\ Len(t) = Len(s) + 1 /\ t[Len(s) + 1] = e
      /\ \A i \in 1 .. Len(s) : t[i] = s[i]
  BY AppendProperties
<1>2. /\ Len(s) \in Nat /\ DOMAIN s = 1 .. Len(s)
      /\ DOMAIN t = 1 .. (Len(s) + 1)
  BY <1>1, LenProperties
<1> HIDE DEF t
<1>3. Range(t) = Range(s) \cup {e}
  BY <1>1, <1>2 DEF Range
<1>4. ASSUME IsInjective(s), e \notin Range(s)
      PROVE  IsInjective(t)
  BY <1>1, <1>2, <1>4 DEF Range, IsInjective
<1> QED BY <1>1, <1>3, <1>4 DEF t

-----------------------------------------------------------------------------
(* Both sets that the counters count are finite, one inside the other.      *)
LEMMA Counted ==
    /\ IsFiniteSet(Holders) /\ IsFiniteSet(Inside) /\ Inside \subseteq Holders
    /\ Cardinality(Holders) \in Nat /\ Cardinality(Inside) \in Nat
    /\ Cardinality(Inside) <= Cardinality(Holders)
<1>1. Holders \subseteq Goroutines /\ Inside \subseteq Holders
  BY DEF Holders, Inside, Holding
<1>2. IsFiniteSet(Holders) /\ IsFiniteSet(Inside)
  BY <1>1, GoroutinesAssumption, FS_Subset
<1> QED BY <1>1, <1>2, FS_Subset, FS_CardinalityType

(* The initial state satisfies the invariant: nobody is inside or waits.    *)
LEMMA InitInv == Init => IndInv
<1> SUFFICES ASSUME Init PROVE IndInv
  OBVIOUS
<1>1. Holders = {} /\ Inside = {}
  BY DEF Init, Holders, Inside, Holding
<1>2. TypeOK
  BY MaxAssumption DEF Init, TypeOK, Holding
<1>3. QueueIsWaiting
  BY DEF Init, QueueIsWaiting, IsInjective, Range
<1>4. StatsInRange
  BY MaxAssumption DEF Init, StatsInRange, GetStats
<1> QED BY <1>1, <1>2, <1>3, <1>4, FS_EmptySet DEF Init, IndInv

-----------------------------------------------------------------------------
(* Who holds a permit after each step. *)
LEMMA HoldersChange ==
    ASSUME IndInv, NEW g \in Goroutines
    PROVE  /\ Send(g) => g \notin Holders /\ Holders' = Holders \cup {g}
           /\ Block(g) \/ AcquireCancelled(g) \/ Count(g) \/ Uncount(g) \/ Cancel(g)
                 => Holders' = Holders
           /\ Receive(g) =>
                 /\ g \in Holders
                 /\ queue = <<>> => Holders' = Holders \ {g}
                 /\ queue # <<>> =>
                       /\ Head(queue) \in Goroutines \ Holders
                       /\ Holders' = (Holders \ {g}) \cup {Head(queue)}
<1> USE DEF Holders, Holding
<1>1. pc \in [Goroutines -> {"outside", "waiting", "granted", "inside", "leaving"}]
  BY DEF IndInv, TypeOK
<1>2. Send(g) => g \notin Holders /\ Holders' = Holders \cup {g}
  BY <1>1 DEF Send
<1>3. Block(g) \/ AcquireCancelled(g) \/ Count(g) \/ Uncount(g) \/ Cancel(g)
        => Holders' = Holders
  BY <1>1 DEF Block, AcquireCancelled, Count, Uncount, Cancel
<1>4. ASSUME Receive(g)
      PROVE  /\ g \in Holders
             /\ queue = <<>> => Holders' = Holders \ {g}
             /\ queue # <<>> =>
                   /\ Head(queue) \in Goroutines \ Holders
                   /\ Holders' = (Holders \ {g}) \cup {Head(queue)}
  <2>1. g \in Holders /\ (queue = <<>> => Holders' = Holders \ {g})
    BY <1>1, <1>4 DEF Receive
  <2>2. ASSUME queue # <<>>
        PROVE  /\ Head(queue) \in Goroutines \ Holders
               /\ Holders' = (Holders \ {g}) \cup {Head(queue)}
    <3>1. Head(queue) \in Goroutines /\ pc[Head(queue)] = "waiting"
      BY <2>2, TailRange DEF IndInv, TypeOK, QueueIsWaiting
    <3>2. pc' = [pc EXCEPT ![g] = "outside", ![Head(queue)] = "granted"]
      BY <1>4, <2>2 DEF Receive
    <3> HIDE <1>4
    <3> QED BY <1>1, <2>1, <3>1, <3>2
  <2> QED BY <2>1, <2>2
<1> QED BY <1>2, <1>3, <1>4

(* Who is counted as inside after each step. *)
LEMMA InsideChange ==
    ASSUME IndInv, NEW g \in Goroutines
    PROVE  /\ Count(g) => g \notin Inside /\ Inside' = Inside \cup {g}
           /\ Uncount(g) => g \in Inside /\ Inside' = Inside \ {g}
           /\ Send(g) \/ Block(g) \/ AcquireCancelled(g) \/ Receive(g) \/ Cancel(g)
                 => Inside' = Inside
<1> USE DEF Inside
<1>1. pc \in [Goroutines -> {"outside", "waiting", "granted", "inside", "leaving"}]
  BY DEF IndInv, TypeOK, Holding
<1>2. ASSUME Receive(g) PROVE Inside' = Inside
  <2>1. CASE queue = <<>>
    BY <1>1, <1>2, <2>1 DEF Receive
  <2>2. CASE queue # <<>>
    <3>1. Head(queue) \in Goroutines /\ pc[Head(queue)] = "waiting"
      BY <2>2, TailRange DEF IndInv, TypeOK, QueueIsWaiting
    <3>2. /\ pc[g] = "leaving"
          /\ pc' = [pc EXCEPT ![g] = "outside", ![Head(queue)] = "granted"]
      BY <1>2, <2>2 DEF Receive
    <3> QED BY <1>1, <3>1, <3>2
  <2> QED BY <2>1, <2>2
<1> QED BY <1>1, <1>2 DEF Send, Block, AcquireCancelled, Count, Uncount, Cancel

(* The queue stays a sequence of exactly the goroutines that wait.          *)
LEMMA QueueStep ==
    ASSUME IndInv, NEW g \in Goroutines, Acquire(g) \/ Release(g) \/ Cancel(g)
    PROVE  queue' \in Seq(Goroutines) /\ QueueIsWaiting'
<1> DEFINE Waiting == {h \in Goroutines : pc[h] = "waiting"}
<1>1. pc \in [Goroutines -> {"outside", "waiting", "granted", "inside", "leaving"}]
  BY DEF IndInv, TypeOK, Holding
<1>2. queue \in Seq(Goroutines) /\ IsInjective(queue) /\ Range(queue) = Waiting
  BY DEF IndInv, TypeOK, QueueIsWaiting
<1>3. CASE Send(g) \/ Count(g) \/ Uncount(g) \/ Cancel(g)
  <2>1. queue' = queue /\ Waiting' = Waiting
    BY <1>1, <1>3 DEF Send, Count, Uncount, Cancel
  <2> QED BY <1>2, <2>1 DEF QueueIsWaiting
<1>4. CASE Block(g)
  <2>1. Waiting' = Waiting \cup {g} /\ g \notin Waiting /\ queue' = Append(queue, g)
    BY <1>1, <1>4 DEF Block
  <2> QED BY <1>2, <2>1, AppendRange DEF QueueIsWaiting
<1>5. CASE AcquireCancelled(g)
  <2>1. CASE pc[g] = "outside"
    <3>1. g \notin Range(queue) /\ (\A i \in DOMAIN queue : queue[i] # g)
      BY <1>2, <2>1 DEF Range
    <3>2. queue' = queue /\ Waiting' = Waiting
      BY <1>1, <1>5, <2>1, <3>1 DEF AcquireCancelled
    <3> QED BY <1>2, <3>2 DEF QueueIsWaiting
  <2>2. CASE pc[g] = "waiting"
    <3>1. PICK i \in DOMAIN queue : queue[i] = g /\ queue' = Without(queue, i)
      BY <1>5, <2>2 DEF AcquireCancelled
    <3>2. Waiting' = Waiting \ {g}
      BY <1>1, <1>5 DEF AcquireCancelled
    <3> QED BY <1>2, <3>1, <3>2, WithoutRange DEF QueueIsWaiting
  <2> QED BY <1>5, <2>1, <2>2 DEF AcquireCancelled
<1>6. CASE Receive(g)
  <2>1. CASE queue = <<>>
    <3>1. queue' = queue /\ Waiting' = Waiting
      BY <1>1, <1>6, <2>1 DEF Receive
    <3> QED BY <1>2, <3>1 DEF QueueIsWaiting
  <2>2. CASE queue # <<>>
    <3>1. Head(queue) \in Goroutines /\ pc[Head(queue)] = "waiting"
      BY <1>2, <2>2, TailRange
    <3>2. /\ pc[g] = "leaving" /\ queue' = Tail(queue)
          /\ pc' = [pc EXCEPT ![g] = "outside", ![Head(queue)] = "granted"]
      BY <1>6, <2>2 DEF Receive
    <3>3. Waiting' = Waiting \ {Head(queue)}
      BY <1>1, <3>1, <3>2
    <3> QED BY <1>2, <2>2, <3>2, <3>3, TailRange DEF QueueIsWaiting
  <2> QED BY <2>1, <2>2
<1> QED BY <1>3, <1>4, <1>5, <1>6 DEF Acquire, Release

-----------------------------------------------------------------------------
(* Each step keeps the counters equal to the sets they count.               *)
LEMMA CountStep ==
    ASSUME IndInv, NEW g \in Goroutines, Acquire(g) \/ Release(g) \/ Cancel(g)
    PROVE  /\ permits' = Cardinality(Holders') /\ permits' \in 0 .. Max
           /\ active' = Cardinality(Inside')
           /\ queue' # <<>> => permits' = Max
<1>1. /\ permits = Cardinality(Holders) /\ permits \in 0 .. Max
      /\ active = Cardinality(Inside) /\ Max \in Nat
      /\ queue \in Seq(Goroutines) /\ (queue # <<>> => permits = Max)
  BY MaxAssumption DEF IndInv, TypeOK
<1>2. CASE Send(g)
  <2>1. permits < Max /\ permits' = permits + 1 /\ queue' = queue /\ active' = active
    BY <1>2 DEF Send, HasPermit
  <2>2. Cardinality(Holders') = permits + 1
    BY <1>1, <1>2, HoldersChange, Counted, FS_AddElement
  <2> QED BY <1>1, <1>2, <2>1, <2>2, InsideChange
<1>3. CASE Block(g)
  <2>1. permits' = permits /\ active' = active /\ permits = Max
    BY <1>1, <1>3 DEF Block, HasPermit
  <2> QED BY <1>1, <1>3, <2>1, HoldersChange, InsideChange
<1>4. CASE AcquireCancelled(g)
  <2>1. permits' = permits /\ active' = active
    BY <1>4 DEF AcquireCancelled
  <2>2. queue = <<>> => queue' = <<>>
    <3>1. queue = <<>> => DOMAIN queue = {}
      OBVIOUS
    <3> QED BY <1>4, <3>1 DEF AcquireCancelled
  <2> QED BY <1>1, <1>4, <2>1, <2>2, HoldersChange, InsideChange
<1>5. CASE Count(g)
  <2>1. permits' = permits /\ queue' = queue /\ active' = active + 1
    BY <1>5 DEF Count
  <2>2. Cardinality(Inside') = active + 1
    BY <1>1, <1>5, InsideChange, Counted, FS_AddElement
  <2> QED BY <1>1, <1>5, <2>1, <2>2, HoldersChange
<1>6. CASE Uncount(g)
  <2>1. permits' = permits /\ queue' = queue /\ active' = active - 1
    BY <1>6 DEF Uncount
  <2>2. Cardinality(Inside') = active - 1
    BY <1>1, <1>6, InsideChange, Counted, FS_RemoveElement
  <2> QED BY <1>1, <1>6, <2>1, <2>2, HoldersChange
<1>7. CASE Receive(g)
  <2>1. active' = active /\ Inside' = Inside /\ g \in Holders
    BY <1>7, HoldersChange, InsideChange DEF Receive
  <2>2. Cardinality(Holders \ {g}) = permits - 1 /\ IsFiniteSet(Holders \ {g})
    BY <1>1, <2>1, Counted, FS_RemoveElement
  <2>3. CASE queue = <<>>
    <3>1. permits' = permits - 1 /\ queue' = <<>> /\ Holders' = Holders \ {g}
      BY <1>7, <2>3, HoldersChange DEF Receive
    <3>2. permits - 1 \in Nat
      BY <2>2, FS_CardinalityType
    <3> QED BY <1>1, <2>1, <2>2, <3>1, <3>2
  <2>4. CASE queue # <<>>
    <3>1. permits' = permits /\ Head(queue) \notin Holders
          /\ Holders' = (Holders \ {g}) \cup {Head(queue)}
      BY <1>7, <2>4, HoldersChange DEF Receive
    <3>2. Cardinality(Holders') = permits - 1 + 1
      BY <2>2, <3>1, FS_AddElement
    <3> QED BY <1>1, <2>1, <2>4, <3>1, <3>2
  <2> QED BY <2>3, <2>4
<1>8. CASE Cancel(g)
  <2>1. permits' = permits /\ active' = active /\ queue' = queue
    BY <1>8 DEF Cancel
  <2> QED BY <1>1, <1>8, <2>1, HoldersChange, InsideChange
<1> QED BY <1>2, <1>3, <1>4, <1>5, <1>6, <1>7, <1>8 DEF Acquire, Release

(* Every step keeps the invariant. *)
LEMMA IndStep == IndInv /\ [Next]_vars => IndInv'
<1>1. CASE IndInv /\ UNCHANGED vars
  BY <1>1 DEF IndInv, TypeOK, QueueIsWaiting, StatsInRange, GetStats, Holders,
              Inside, Holding, vars
<1>2. ASSUME IndInv, NEW g \in Goroutines, Acquire(g) \/ Release(g) \/ Cancel(g)
      PROVE  IndInv'
  <2>1. queue' \in Seq(Goroutines) /\ QueueIsWaiting'
    BY <1>2, QueueStep
  <2>2. /\ permits' = Cardinality(Holders') /\ permits' \in 0 .. Max
        /\ active' = Cardinality(Inside')
        /\ queue' # <<>> => permits' = Max
    BY <1>2, CountStep
  <2>3. pc' \in [Goroutines -> {"outside", "waiting"} \cup Holding]
    BY <1>2 DEF IndInv, TypeOK, Holding, Acquire, Release, Send, Block,
                AcquireCancelled, Count, Uncount, Receive, Cancel
  <2>4. cancelled' \subseteq Goroutines
    BY <1>2 DEF IndInv, TypeOK, Acquire, Release, Send, Block, AcquireCancelled,
                Count, Uncount, Receive, Cancel
  <2>5. active' \in Nat /\ active' <= permits'
    <3>1. Inside' \subseteq Holders' /\ Holders' \subseteq Goroutines
      BY DEF Inside, Holders, Holding
    <3>2. IsFiniteSet(Holders')
      BY <3>1, GoroutinesAssumption, FS_Subset
    <3>3. IsFiniteSet(Inside') /\ Cardinality(Inside') <= Cardinality(Holders')
      BY <3>1, <3>2, FS_Subset
    <3> QED BY <2>2, <3>3, FS_CardinalityType
  <2>6. StatsInRange'
    BY <2>2, <2>5, MaxAssumption DEF StatsInRange, GetStats
  <2> QED BY <2>1, <2>2, <2>3, <2>4, <2>5, <2>6 DEF IndInv, TypeOK
<1> QED BY <1>1, <1>2 DEF Next

(* Permits, counter and wait queue agree at every moment: GetStats never    *)
(* reports a number outside 0 .. max.                                       *)
THEOREM Invariance == Spec => []IndInv
BY InitInv, IndStep, PTL DEF Spec

-----------------------------------------------------------------------------
(* The abstract module's own copy of the library counts alike. *)
LEMMA SameCount == Abstract!Cardinality(Holders) = Cardinality(Holders)
BY DEF Abstract!Cardinality, Cardinality

(* Each step enters, leaves or hands a place over in the abstract           *)
(* semaphore, or does not change its holders.                               *)
LEMMA StepRefines == IndInv /\ [Next]_vars => [Abstract!Next]_Holders
<1>1. UNCHANGED vars => Holders' = Holders
  BY DEF vars, Holders
<1>2. ASSUME IndInv, NEW g \in Goroutines, Acquire(g) \/ Release(g) \/ Cancel(g)
      PROVE  Abstract!Next \/ Holders' = Holders
  <2>1. CASE Send(g)
    <3>1. Cardinality(Holders) < Max
      BY <1>2, <2>1 DEF Send, HasPermit, IndInv
    <3>2. Abstract!Enter(g)
      BY <1>2, <2>1, <3>1, HoldersChange, SameCount DEF Abstract!Enter
    <3> QED BY <3>2 DEF Abstract!Next
  <2>2. CASE Receive(g) /\ queue = <<>>
    <3>1. Abstract!Leave(g)
      BY <1>2, <2>2, HoldersChange DEF Abstract!Leave
    <3> QED BY <3>1 DEF Abstract!Next
  <2>3. CASE Receive(g) /\ queue # <<>>
    <3>1. Abstract!Handover(g, Head(queue)) /\ Head(queue) \in Goroutines
      BY <1>2, <2>3, HoldersChange DEF Abstract!Handover
    <3> QED BY <3>1 DEF Abstract!Next
  <2>4. CASE Block(g) \/ AcquireCancelled(g) \/ Count(g) \/ Uncount(g) \/ Cancel(g)
    BY <1>2, <2>4, HoldersChange
  <2> QED BY <1>2, <2>1, <2>2, <2>3, <2>4 DEF Acquire, Release
<1> QED BY <1>1, <1>2 DEF Next

(* The channel with its wait queue implements the counting semaphore: at no *)
(* moment do more than max goroutines hold a permit.                        *)
THEOREM SemaphoreRefines == Spec => ImplementsSemaphore
<1>1. Init => Abstract!Init
  BY DEF Init, Abstract!Init, Holders, Holding
<1> QED BY <1>1, StepRefines, Invariance, PTL
        DEF Spec, ImplementsSemaphore, Abstract!Spec
=============================================================================
