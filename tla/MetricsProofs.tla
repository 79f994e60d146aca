--------------------------- MODULE MetricsProofs ---------------------------
(***************************************************************************)
(* Theorems about Metrics, for any workers, message types and number of    *)
(* jobs: what the four counters may lose, and what a report contains.      *)
(***************************************************************************)
EXTENDS Metrics, FiniteSetTheorems, TLAPS

-----------------------------------------------------------------------------
(* Totals: as the sum over the types is counted unit by unit, it is finite   *)
(* and grows by one with each update of a key of the status.                *)
LEMMA UnitsAreFinite ==
    ASSUME NEW f \in [Keys -> Nat], NEW s \in Statuses
    PROVE  IsFiniteSet(Units(f, s)) /\ Total(f, s) \in Nat
<1> DEFINE U(t) == {t} \X (1 .. f[<<t, s>>])
           F    == [t \in Types |-> U(t)]
           Us   == {U(t) : t \in Types}
<1>1. F \in Surjection(Types, Us)
  BY DEF Surjection
<1>2. IsFiniteSet(Us)
  BY <1>1, FS_Surjection, MetricsAssumption
<1>3. ASSUME NEW t \in Types PROVE IsFiniteSet(U(t))
  <2>1. f[<<t, s>>] \in Nat
    BY DEF Keys
  <2>2. 1 \in Int /\ f[<<t, s>>] \in Int
    BY <2>1
  <2>3. IsFiniteSet(1 .. f[<<t, s>>]) /\ IsFiniteSet({t})
    BY <2>2, FS_Interval, FS_Singleton
  <2> QED BY <2>3, FS_Product
<1>4. \A T \in Us : IsFiniteSet(T)
  BY <1>3
<1> HIDE DEF U, Us
<1>5. IsFiniteSet(UNION Us)
  BY <1>2, <1>4, FS_UNION
<1> QED BY <1>5, FS_CardinalityType DEF Units, Total, U, Us

LEMMA InUnits ==
    ASSUME NEW f, NEW s, NEW e
    PROVE  e \in Units(f, s) <=> \E t \in Types : e[2] \in 1 .. f[<<t, s>>] /\ e = <<t, e[2]>>
<1>1. ASSUME NEW t PROVE e \in {t} \X (1 .. f[<<t, s>>])
                         <=> e[2] \in 1 .. f[<<t, s>>] /\ e = <<t, e[2]>>
  OBVIOUS
<1>2. e \in Units(f, s) <=> \E t \in Types : e \in {t} \X (1 .. f[<<t, s>>])
  BY DEF Units
<1> QED BY <1>1, <1>2

LEMMA TotalUp ==
    ASSUME NEW f \in [Keys -> Nat], NEW k \in Keys, NEW s \in Statuses
    PROVE  Total([f EXCEPT ![k] = @ + 1], s) = Total(f, s) + (IF k[2] = s THEN 1 ELSE 0)
<1> DEFINE g == [f EXCEPT ![k] = @ + 1]
           u == <<k[1], f[k] + 1>>
<1>1. /\ g \in [Keys -> Nat] /\ g[k] = f[k] + 1 /\ f[k] \in Nat
      /\ \A l \in Keys \ {k} : g[l] = f[l]
  OBVIOUS
<1>2. k = <<k[1], k[2]>> /\ k[1] \in Types /\ k[2] \in Statuses
  BY DEF Keys
<1> HIDE DEF g
<1>3. \A l \in Keys : g[l] \in Nat /\ f[l] \in Nat
  BY <1>1
<1>4. CASE k[2] = s
  <2>1. ASSUME NEW t \in Types
        PROVE  1 .. g[<<t, s>>] =
                  (1 .. f[<<t, s>>]) \cup (IF t = k[1] THEN {f[k] + 1} ELSE {})
    <3>1. <<t, s>> \in Keys /\ (<<t, s>> = k <=> t = k[1])
      BY <1>2, <1>4 DEF Keys
    <3>2. CASE t = k[1]
      <4>1. g[<<t, s>>] = f[<<t, s>>] + 1 /\ f[<<t, s>>] = f[k] /\ f[<<t, s>>] \in Nat
        BY <1>1, <3>1, <3>2
      <4> QED BY <3>2, <4>1
    <3>3. CASE t # k[1]
      BY <1>1, <3>1, <3>3
    <3> QED BY <3>2, <3>3
  <2>2. Units(g, s) = Units(f, s) \cup {u}
    <3>1. ASSUME NEW e PROVE e \in Units(g, s) <=> e \in Units(f, s) \/ e = u
      <4>1. ASSUME NEW t \in Types
            PROVE  e[2] \in 1 .. g[<<t, s>>]
                     <=> e[2] \in 1 .. f[<<t, s>>] \/ (t = k[1] /\ e[2] = f[k] + 1)
        BY <2>1
      <4>2. e = u <=> e = <<k[1], e[2]>> /\ e[2] = f[k] + 1
        OBVIOUS
      <4>3. e \in Units(g, s)
              <=> \E t \in Types : e[2] \in 1 .. g[<<t, s>>] /\ e = <<t, e[2]>>
        BY InUnits
      <4>4. e \in Units(f, s)
              <=> \E t \in Types : e[2] \in 1 .. f[<<t, s>>] /\ e = <<t, e[2]>>
        BY InUnits
      <4> HIDE DEF u
      <4> QED BY <1>2, <4>1, <4>2, <4>3, <4>4, Zenon
    <3> QED BY <3>1
  <2>3. u \notin Units(f, s)
    <3>1. f[<<k[1], s>>] = f[k] /\ f[k] \in Nat
      BY <1>1, <1>2, <1>4
    <3>2. f[k] + 1 \notin 1 .. f[<<k[1], s>>]
      BY <3>1
    <3>3. \A t \in Types : u \in {t} \X (1 .. f[<<t, s>>])
                             => t = k[1] /\ f[k] + 1 \in 1 .. f[<<t, s>>]
      OBVIOUS
    <3> QED BY <3>2, <3>3 DEF Units
  <2>4. Cardinality(Units(g, s)) = Cardinality(Units(f, s)) + 1
    BY <2>2, <2>3, UnitsAreFinite, FS_AddElement
  <2> QED BY <1>4, <2>4 DEF Total, g
<1>5. CASE k[2] # s
  <2>1. \A t \in Types : g[<<t, s>>] = f[<<t, s>>]
    BY <1>1, <1>2, <1>5 DEF Keys
  <2>2. Units(g, s) = Units(f, s)
    BY <2>1 DEF Units
  <2> QED BY <1>5, <2>2, UnitsAreFinite DEF Total, g
<1> QED BY <1>4, <1>5

-----------------------------------------------------------------------------
(* The inductive invariant.                                                 *)

\* Up to SafeIncrementWithMutex's Unlock, and to SyncStore, an update has not
\* been counted by the mutex map, and by the sync.Map.
BeforeUnlock == {"unsafe", "lock", "unlock"}
BeforeStore  == {"unsafe", "lock", "unlock", "load", "store"}

\* The workers that are at some of the places a with the key, or a key of the
\* status; the functions are parameters so that `at' and at' can be compared.
OfKey(a, q, k, P)    == {w \in Workers : q[w] = k /\ a[w] \in P}
OfStatus(a, q, s, P) == {w \in Workers : a[w] \in P /\ q[w][2] = s}
CountKey(a, q, k, P)    == Cardinality(OfKey(a, q, k, P))
CountStatus(a, q, s, P) == Cardinality(OfStatus(a, q, s, P))

\* The updates of a key that have passed the places P.
Gap(b, a, q, k, P) == b[k] - CountKey(a, q, k, P)

Busy == {"unsafe", "lock", "unlock", "load", "store", "atomic"}
Past == {"load", "store", "atomic"}

\* Who is in an update has a key, who is in the critical section the mutex and
\* the current value.
LockInv ==
    \A w \in Workers :
        /\ at[w] = "idle" <=> key[w] = None
        /\ at[w] = "unlock" <=> metricsMutex = w
        /\ at[w] = "unlock" => seen[w] = safeMetrics[key[w]]

SafeInv ==
    \A k \in Keys : safeMetrics[k] = Gap(begun, at, key, k, BeforeUnlock)

\* The atomic counter of a status runs behind the sum of the mutex map by the
\* updates that are past the one and before the other.
StatusInv ==
    \A s \in Statuses :
        /\ atomicMetrics[s] + CountStatus(at, key, s, Busy) = Total(begun, s)
        /\ atomicMetrics[s] + CountStatus(at, key, s, Past) = Total(safeMetrics, s)

\* What a worker read of the lossy counters was not too much then, and is not now.
LossyInv ==
    \A k \in Keys :
        /\ unsafeMetrics[k] <= Gap(begun, at, key, k, {"unsafe"})
        /\ syncMetrics[k] <= Gap(begun, at, key, k, BeforeStore)
        /\ Gap(begun, at, key, k, BeforeStore) > 0 => syncMetrics[k] > 0
        /\ \A w \in Workers :
              /\ at[w] = "unsafe" /\ key[w] = k => seen[w] <= Gap(begun, at, key, k, {"unsafe"})
              /\ at[w] = "store" /\ key[w] = k => seen[w] <= Gap(begun, at, key, k, BeforeStore)

ReportInv ==
    /\ readerAt # "idle" =>
          \A s \in Statuses :
              /\ before[s] <= atomicMetrics[s] /\ before[s] <= Total(report.safe, s)
              /\ Total(report.safe, s) <= before[s] + Cardinality(Workers)
    /\ readerAt \in {"failed", "log"} => before["processed"] <= report.atomic["processed"]
    /\ readerAt = "log" => before["failed"] <= report.atomic["failed"]

IndInv ==
    TypeOK /\ LockInv /\ SafeInv /\ StatusInv /\ LossyInv /\ ReportInv

-----------------------------------------------------------------------------
(* Every step keeps every variable in its range. *)
LEMMA Increment ==
    ASSUME NEW S, NEW f \in [S -> Nat], NEW x, NEW n \in Nat
    PROVE  [f EXCEPT ![x] = n] \in [S -> Nat] /\ [f EXCEPT ![x] = @ + 1] \in [S -> Nat]
<1>1. \A y \in S : f[y] + 1 \in Nat
  OBVIOUS
<1> QED BY <1>1

LEMMA TypeStep == TypeOK /\ LockInv /\ [Next]_vars => TypeOK'
<1> SUFFICES ASSUME TypeOK, LockInv, [Next]_vars PROVE TypeOK'
  OBVIOUS
<1> USE DEF TypeOK, counters, readerVars
<1>1. ASSUME NEW w \in Workers, NEW k \in Keys, UnsafeRead(w, k) PROVE TypeOK'
  <2>1. updates' \in [Workers -> 0 .. Rounds]
    BY <1>1, MetricsAssumption DEF UnsafeRead
  <2>2. begun' \in [Keys -> Nat] /\ seen' \in [Workers -> Nat]
    BY <1>1, Increment DEF UnsafeRead
  <2>3. fatal' \in BOOLEAN
    BY <1>1 DEF UnsafeRead, OthersInMap
  <2> QED BY <1>1, <2>1, <2>2, <2>3 DEF UnsafeRead
<1>2. ASSUME NEW w \in Workers, UnsafeWrite(w) \/ Unlock(w) \/ SyncStore(w) PROVE TypeOK'
  <2>1. seen[w] + 1 \in Nat
    OBVIOUS
  <2>2. {unsafeMetrics', safeMetrics', syncMetrics'} \subseteq [Keys -> Nat]
    BY <1>2, <2>1, Increment DEF UnsafeWrite, Unlock, SyncStore
  <2> QED BY <1>2, <2>2 DEF UnsafeWrite, Unlock, SyncStore
<1>3. ASSUME NEW w \in Workers, Lock(w) \/ SyncLoad(w) PROVE TypeOK'
  <2>1. key[w] \in Keys
    BY <1>3 DEF LockInv, Lock, SyncLoad
  <2>2. safeMetrics[key[w]] \in Nat /\ syncMetrics[key[w]] \in Nat
    BY <2>1
  <2> QED BY <1>3, <2>1, <2>2 DEF Lock, SyncLoad
<1>4. ASSUME NEW w \in Workers, AtomicIncrement(w) PROVE TypeOK'
  <2>1. atomicMetrics' \in [Statuses -> Nat]
    BY <1>4, Increment DEF AtomicIncrement
  <2> QED BY <1>4, <2>1 DEF AtomicIncrement
<1>5. CASE Report
  <2>1. {"processed", "failed"} \subseteq Statuses
    BY DEF Statuses
  <2>2. CASE CopySafe
    BY <2>2 DEF CopySafe
  <2>3. CASE LoadProcessed
    BY <2>1, <2>3 DEF LoadProcessed
  <2>4. CASE LoadFailed
    BY <2>1, <2>4 DEF LoadFailed
  <2>5. CASE LogReport
    BY <2>5 DEF LogReport
  <2> QED BY <1>5, <2>2, <2>3, <2>4, <2>5 DEF Report
<1>6. CASE UNCHANGED vars
  BY <1>6 DEF vars
<1> QED BY <1>1, <1>2, <1>3, <1>4, <1>5, <1>6 DEF Next, Update, Dead

-----------------------------------------------------------------------------
(* What the step of one worker does to the counts of workers.               *)
LEMMA CountMove ==
    ASSUME NEW S, NEW T, NEW x, IsFiniteSet(S), T \ {x} = S \ {x}
    PROVE  /\ Cardinality(S) \in Nat /\ Cardinality(T) \in Nat
           /\ Cardinality(T) = Cardinality(S) - (IF x \in S THEN 1 ELSE 0)
                                              + (IF x \in T THEN 1 ELSE 0)
<1> DEFINE R == S \ {x}
<1>1. IsFiniteSet(R) /\ x \notin R /\ Cardinality(S) \in Nat /\ Cardinality(R) \in Nat
  BY FS_RemoveElement, FS_CardinalityType
<1>2. Cardinality(R \cup {x}) = Cardinality(R) + 1
  BY <1>1, FS_AddElement
<1>3. S = (IF x \in S THEN R \cup {x} ELSE R) /\ T = (IF x \in T THEN R \cup {x} ELSE R)
  OBVIOUS
<1> HIDE DEF R
<1>4. Cardinality(S) = Cardinality(R) + (IF x \in S THEN 1 ELSE 0)
  <2>1. CASE x \in S
    BY <1>2, <1>3, <2>1
  <2>2. CASE x \notin S
    BY <1>1, <1>3, <2>2
  <2> QED BY <2>1, <2>2
<1>5. Cardinality(T) = Cardinality(R) + (IF x \in T THEN 1 ELSE 0)
  <2>1. CASE x \in T
    BY <1>2, <1>3, <2>1
  <2>2. CASE x \notin T
    BY <1>1, <1>3, <2>2
  <2> QED BY <2>1, <2>2
<1> QED BY <1>1, <1>4, <1>5

LEMMA KeyMoves ==
    ASSUME NEW w \in Workers, NEW a, NEW q, NEW b, NEW r, NEW P, NEW k,
           \A v \in Workers \ {w} : b[v] = a[v] /\ r[v] = q[v]
    PROVE  /\ CountKey(a, q, k, P) \in Nat
           /\ CountKey(b, r, k, P) = CountKey(a, q, k, P) - (IF a[w] \in P /\ q[w] = k THEN 1 ELSE 0)
                                               + (IF b[w] \in P /\ r[w] = k THEN 1 ELSE 0)
<1> DEFINE S == OfKey(a, q, k, P)
           T == OfKey(b, r, k, P)
<1>1. IsFiniteSet(S) /\ T \ {w} = S \ {w}
  BY FS_Subset, MetricsAssumption DEF OfKey
<1>2. (w \in S <=> a[w] \in P /\ q[w] = k) /\ (w \in T <=> b[w] \in P /\ r[w] = k)
  BY DEF OfKey
<1> HIDE DEF S, T
<1>3. /\ Cardinality(S) \in Nat
      /\ Cardinality(T) = Cardinality(S) - (IF a[w] \in P /\ q[w] = k THEN 1 ELSE 0)
                                         + (IF b[w] \in P /\ r[w] = k THEN 1 ELSE 0)
  BY <1>1, <1>2, CountMove
<1> QED BY <1>3 DEF CountKey, S, T

LEMMA StatusMoves ==
    ASSUME NEW w \in Workers, NEW a, NEW q, NEW b, NEW r, NEW P, NEW s,
           \A v \in Workers \ {w} : b[v] = a[v] /\ r[v] = q[v]
    PROVE  /\ CountStatus(a, q, s, P) \in Nat
           /\ CountStatus(b, r, s, P) = CountStatus(a, q, s, P) - (IF a[w] \in P /\ q[w][2] = s THEN 1 ELSE 0)
                                                  + (IF b[w] \in P /\ r[w][2] = s THEN 1 ELSE 0)
<1> DEFINE S == OfStatus(a, q, s, P)
           T == OfStatus(b, r, s, P)
<1>1. IsFiniteSet(S) /\ T \ {w} = S \ {w}
  BY FS_Subset, MetricsAssumption DEF OfStatus
<1>2. (w \in S <=> a[w] \in P /\ q[w][2] = s) /\ (w \in T <=> b[w] \in P /\ r[w][2] = s)
  BY DEF OfStatus
<1> HIDE DEF S, T
<1>3. /\ Cardinality(S) \in Nat
      /\ Cardinality(T) = Cardinality(S) - (IF a[w] \in P /\ q[w][2] = s THEN 1 ELSE 0)
                                         + (IF b[w] \in P /\ r[w][2] = s THEN 1 ELSE 0)
  BY <1>1, <1>2, CountMove
<1> QED BY <1>3 DEF CountStatus, S, T

LEMMA TotalsOf ==
    ASSUME TypeOK
    PROVE  \A s \in Statuses : /\ Total(begun, s) \in Nat /\ Total(safeMetrics, s) \in Nat
                               /\ Total(report.safe, s) \in Nat
BY UnitsAreFinite DEF TypeOK

-----------------------------------------------------------------------------
LEMMA Frame ==
    ASSUME IndInv, NEW w \in Workers, Update(w)
    PROVE  /\ \A v \in Workers \ {w} :
                 at'[v] = at[v] /\ key'[v] = key[v] /\ seen'[v] = seen[v]
           /\ at[w] # "idle" => key[w] \in Keys /\ key[w] # None
           /\ UNCHANGED readerVars
           /\ \A s \in Statuses : atomicMetrics[s] <= atomicMetrics'[s]
<1>1. atomicMetrics \in [Statuses -> Nat] /\ \A s \in Statuses : atomicMetrics[s] \in Nat
  BY DEF IndInv, TypeOK
<1>2. \A s \in Statuses : atomicMetrics[s] <= atomicMetrics'[s]
  <2>1. CASE AtomicIncrement(w)
    BY <1>1, <2>1 DEF AtomicIncrement
  <2>2. CASE atomicMetrics' = atomicMetrics
    BY <1>1, <2>2
  <2> QED BY <2>1, <2>2 DEF Update, UnsafeRead, UnsafeWrite, Lock, Unlock, SyncLoad,
             SyncStore, counters
<1>3. \A v \in Workers \ {w} : at'[v] = at[v] /\ key'[v] = key[v] /\ seen'[v] = seen[v]
  BY DEF IndInv, TypeOK, Update, UnsafeRead, UnsafeWrite, Lock, Unlock, SyncLoad,
         SyncStore, AtomicIncrement, counters
<1> QED BY <1>2, <1>3 DEF IndInv, TypeOK, LockInv, Update, UnsafeRead, UnsafeWrite, Lock,
        Unlock, SyncLoad, SyncStore, AtomicIncrement, counters

(* The gap grows when a worker that counts under the key leaves the places. *)
LEMMA Gaps ==
    ASSUME IndInv, NEW w \in Workers, Update(w), NEW k \in Keys,
           NEW P \in {{"unsafe"}, BeforeUnlock, BeforeStore}
    PROVE  /\ Gap(begun, at, key, k, P) \in Int
           /\ Gap(begun', at', key', k, P) = Gap(begun, at, key, k, P)
                 + (IF at[w] \in P /\ at'[w] \notin P /\ key[w] = k THEN 1 ELSE 0)
<1>1. /\ CountKey(at, key, k, P) \in Nat
      /\ CountKey(at', key', k, P) = CountKey(at, key, k, P) - (IF at[w] \in P /\ key[w] = k THEN 1 ELSE 0)
                                        + (IF at'[w] \in P /\ key'[w] = k THEN 1 ELSE 0)
  <2>1. \A v \in Workers \ {w} : at'[v] = at[v] /\ key'[v] = key[v]
    BY Frame
  <2> QED BY <2>1, KeyMoves
<1>2. begun \in [Keys -> Nat] /\ begun[k] \in Nat
  BY DEF IndInv, TypeOK
<1>3. at \in [Workers -> {"idle", "unsafe", "lock", "unlock", "load", "store", "atomic"}]
      /\ key \in [Workers -> Keys \cup {None}]
  BY DEF IndInv, TypeOK
<1>4. CASE \E l \in Keys : UnsafeRead(w, l)
  <2>1. PICK l \in Keys : UnsafeRead(w, l)
    BY <1>4
  <2>2. at[w] = "idle" /\ at'[w] = "unsafe" /\ key'[w] = l /\ at[w] \notin P /\ at'[w] \in P
    BY <1>3, <2>1 DEF UnsafeRead, BeforeUnlock, BeforeStore
  <2>3. begun'[k] = begun[k] + (IF l = k THEN 1 ELSE 0)
    BY <1>2, <2>1 DEF UnsafeRead
  <2> QED BY <1>1, <1>2, <2>2, <2>3 DEF Gap
<1>5. CASE ~\E l \in Keys : UnsafeRead(w, l)
  <2>1. /\ begun' = begun /\ (at'[w] \in P => at[w] \in P)
        /\ at'[w] # "idle" => key'[w] = key[w]
    BY <1>3, <1>5 DEF Update, UnsafeWrite, Lock, Unlock, SyncLoad, SyncStore,
                      AtomicIncrement, BeforeUnlock, BeforeStore
  <2>2. "idle" \notin P
    BY DEF BeforeUnlock, BeforeStore
  <2> QED BY <1>1, <1>2, <2>1, <2>2 DEF Gap
<1> QED BY <1>4, <1>5

-----------------------------------------------------------------------------
(* The invariant over the steps of an update. *)
LEMMA LockStep == ASSUME IndInv, NEW w \in Workers, Update(w) PROVE LockInv'
<1> USE DEF IndInv, LockInv
<1>1. None \notin Workers /\ None \notin Keys
  BY MetricsAssumption
<1>2. /\ at \in [Workers -> {"idle", "unsafe", "lock", "unlock", "load", "store", "atomic"}]
      /\ key \in [Workers -> Keys \cup {None}] /\ seen \in [Workers -> Nat]
  BY DEF TypeOK
<1>3. CASE \E k \in Keys : UnsafeRead(w, k)
  BY <1>1, <1>2, <1>3 DEF UnsafeRead, counters
<1>4. CASE Lock(w)
  BY <1>1, <1>2, <1>4 DEF Lock, MutexFree
<1>5. CASE Unlock(w)
  BY <1>1, <1>2, <1>5 DEF Unlock
<1>6. CASE UnsafeWrite(w) \/ SyncLoad(w) \/ SyncStore(w)
  BY <1>1, <1>2, <1>6 DEF UnsafeWrite, SyncLoad, SyncStore, counters
<1>7. CASE AtomicIncrement(w)
  BY <1>1, <1>2, <1>7 DEF AtomicIncrement
<1> QED BY <1>3, <1>4, <1>5, <1>6, <1>7 DEF Update

LEMMA SafeStep == ASSUME IndInv, NEW w \in Workers, Update(w) PROVE SafeInv'
<1> SUFFICES ASSUME NEW k \in Keys
             PROVE  safeMetrics'[k] = Gap(begun', at', key', k, BeforeUnlock)
  BY DEF SafeInv
<1>1. /\ Gap(begun', at', key', k, BeforeUnlock) = Gap(begun, at, key, k, BeforeUnlock)
           + (IF at[w] \in BeforeUnlock /\ at'[w] \notin BeforeUnlock /\ key[w] = k
                THEN 1 ELSE 0)
      /\ safeMetrics[k] = Gap(begun, at, key, k, BeforeUnlock)
  BY Gaps DEF IndInv, SafeInv
<1>2. /\ at \in [Workers -> {"idle", "unsafe", "lock", "unlock", "load", "store", "atomic"}]
      /\ safeMetrics \in [Keys -> Nat] /\ safeMetrics[k] \in Nat
  BY DEF IndInv, TypeOK
<1>3. CASE Unlock(w)
  <2>1. seen[w] = safeMetrics[key[w]]
    BY <1>3 DEF Unlock, IndInv, LockInv
  <2>2. safeMetrics'[k] = safeMetrics[k] + (IF key[w] = k THEN 1 ELSE 0)
    BY <1>2, <1>3, <2>1 DEF Unlock
  <2>3. at[w] \in BeforeUnlock /\ at'[w] \notin BeforeUnlock
    BY <1>2, <1>3 DEF Unlock, BeforeUnlock
  <2> QED BY <1>1, <2>2, <2>3
<1>4. CASE ~Unlock(w)
  <2>1. /\ safeMetrics' = safeMetrics
        /\ at[w] \in BeforeUnlock => at'[w] \in BeforeUnlock
    BY <1>2, <1>4 DEF Update, UnsafeRead, UnsafeWrite, Lock, SyncLoad, SyncStore,
                      AtomicIncrement, counters, BeforeUnlock
  <2> QED BY <1>1, <1>2, <2>1
<1> QED BY <1>3, <1>4

LEMMA StatusStep == ASSUME IndInv, NEW w \in Workers, Update(w) PROVE StatusInv'
<1> SUFFICES ASSUME NEW s \in Statuses
             PROVE  /\ atomicMetrics'[s] + CountStatus(at', key', s, Busy) = Total(begun', s)
                    /\ atomicMetrics'[s] + CountStatus(at', key', s, Past)
                          = Total(safeMetrics', s)
  BY DEF StatusInv, CountStatus, Total, OfStatus, Units
<1>1. /\ atomicMetrics[s] + CountStatus(at, key, s, Busy) = Total(begun, s)
      /\ atomicMetrics[s] + CountStatus(at, key, s, Past) = Total(safeMetrics, s)
  BY DEF IndInv, StatusInv
<1>2. ASSUME NEW P
      PROVE  /\ CountStatus(at, key, s, P) \in Nat
             /\ CountStatus(at', key', s, P) =
                   CountStatus(at, key, s, P)
                      - (IF at[w] \in P /\ key[w][2] = s THEN 1 ELSE 0)
                      + (IF at'[w] \in P /\ key'[w][2] = s THEN 1 ELSE 0)
  <2>1. \A v \in Workers \ {w} : at'[v] = at[v] /\ key'[v] = key[v]
    BY Frame
  <2> QED BY <2>1, StatusMoves
<1>3. /\ at \in [Workers -> {"idle", "unsafe", "lock", "unlock", "load", "store", "atomic"}]
      /\ key \in [Workers -> Keys \cup {None}]
      /\ begun \in [Keys -> Nat] /\ safeMetrics \in [Keys -> Nat]
      /\ atomicMetrics \in [Statuses -> Nat] /\ atomicMetrics[s] \in Nat
      /\ Total(begun, s) \in Nat /\ Total(safeMetrics, s) \in Nat
  BY TotalsOf DEF IndInv, TypeOK
<1>4. ASSUME NEW k \in Keys, UnsafeRead(w, k)
      PROVE  /\ atomicMetrics'[s] + CountStatus(at', key', s, Busy) = Total(begun', s)
             /\ atomicMetrics'[s] + CountStatus(at', key', s, Past) = Total(safeMetrics', s)
  <2>1. /\ at[w] = "idle" /\ at'[w] = "unsafe" /\ key'[w] = k
        /\ atomicMetrics' = atomicMetrics /\ safeMetrics' = safeMetrics
        /\ begun' = [begun EXCEPT ![k] = @ + 1]
    BY <1>3, <1>4 DEF UnsafeRead, counters
  <2>2. Total(begun', s) = Total(begun, s) + (IF k[2] = s THEN 1 ELSE 0)
    BY <1>3, <2>1, TotalUp
  <2>3. at[w] \notin Busy /\ at'[w] \in Busy /\ at[w] \notin Past /\ at'[w] \notin Past
    BY <2>1 DEF Busy, Past
  <2> QED BY <1>1, <1>2, <1>3, <2>1, <2>2, <2>3
<1>5. CASE Unlock(w)
  <2>1. /\ at[w] = "unlock" /\ at'[w] = "load" /\ key' = key /\ key[w] \in Keys
        /\ seen[w] = safeMetrics[key[w]]
    BY <1>3, <1>5, Frame DEF Unlock, IndInv, LockInv
  <2>2. /\ atomicMetrics' = atomicMetrics /\ begun' = begun
        /\ safeMetrics' = [safeMetrics EXCEPT ![key[w]] = @ + 1]
    BY <1>5, <2>1 DEF Unlock
  <2>3. Total(safeMetrics', s) = Total(safeMetrics, s) + (IF key[w][2] = s THEN 1 ELSE 0)
    BY <1>3, <2>1, <2>2, TotalUp
  <2>4. at[w] \in Busy /\ at'[w] \in Busy /\ at[w] \notin Past /\ at'[w] \in Past
    BY <2>1 DEF Busy, Past
  <2> QED BY <1>1, <1>2, <1>3, <2>1, <2>2, <2>3, <2>4
<1>6. CASE AtomicIncrement(w)
  <2>1. /\ at[w] = "atomic" /\ at'[w] = "idle" /\ key[w] \in Keys
        /\ begun' = begun /\ safeMetrics' = safeMetrics
        /\ atomicMetrics' = [atomicMetrics EXCEPT ![key[w][2]] = @ + 1]
    BY <1>3, <1>6, Frame DEF AtomicIncrement
  <2>2. atomicMetrics'[s] = atomicMetrics[s] + (IF key[w][2] = s THEN 1 ELSE 0)
    BY <1>3, <2>1
  <2>3. at[w] \in Busy /\ at'[w] \notin Busy /\ at[w] \in Past /\ at'[w] \notin Past
    BY <2>1 DEF Busy, Past
  <2> QED BY <1>1, <1>2, <1>3, <2>1, <2>2, <2>3
<1>7. CASE UnsafeWrite(w) \/ Lock(w) \/ SyncLoad(w) \/ SyncStore(w)
  <2>1. /\ UNCHANGED <<atomicMetrics, safeMetrics, begun, key>>
        /\ at[w] \in Busy /\ at'[w] \in Busy /\ (at[w] \in Past <=> at'[w] \in Past)
    BY <1>3, <1>7 DEF UnsafeWrite, Lock, SyncLoad, SyncStore, counters, Busy, Past
  <2> QED BY <1>1, <1>2, <1>3, <2>1
<1> QED BY <1>4, <1>5, <1>6, <1>7 DEF Update

LEMMA LossyStep == ASSUME IndInv, NEW w \in Workers, Update(w) PROVE LossyInv'
<1> DEFINE G(k, P)  == Gap(begun, at, key, k, P)
           H(k, P)  == Gap(begun', at', key', k, P)
           Leaves(k, P) == at[w] \in P /\ at'[w] \notin P /\ key[w] = k
<1>1. SUFFICES ASSUME NEW k \in Keys
      PROVE  /\ unsafeMetrics'[k] <= H(k, {"unsafe"})
             /\ syncMetrics'[k] <= H(k, BeforeStore)
             /\ H(k, BeforeStore) > 0 => syncMetrics'[k] > 0
             /\ \A v \in Workers :
                   /\ at'[v] = "unsafe" /\ key'[v] = k => seen'[v] <= H(k, {"unsafe"})
                   /\ at'[v] = "store" /\ key'[v] = k => seen'[v] <= H(k, BeforeStore)
  BY DEF LossyInv, Gap, CountKey, OfKey
<1>2. ASSUME NEW P \in {{"unsafe"}, BeforeUnlock, BeforeStore}
      PROVE  G(k, P) \in Int /\ H(k, P) = G(k, P) + (IF Leaves(k, P) THEN 1 ELSE 0)
  BY Gaps
<1>3. /\ unsafeMetrics[k] <= G(k, {"unsafe"}) /\ syncMetrics[k] <= G(k, BeforeStore)
      /\ G(k, BeforeStore) > 0 => syncMetrics[k] > 0
      /\ \A v \in Workers :
            /\ at[v] = "unsafe" /\ key[v] = k => seen[v] <= G(k, {"unsafe"})
            /\ at[v] = "store" /\ key[v] = k => seen[v] <= G(k, BeforeStore)
  BY DEF IndInv, LossyInv
<1>4. /\ at \in [Workers -> {"idle", "unsafe", "lock", "unlock", "load", "store", "atomic"}]
      /\ key \in [Workers -> Keys \cup {None}] /\ seen \in [Workers -> Nat]
      /\ \A v \in Workers : seen[v] \in Nat
      /\ unsafeMetrics \in [Keys -> Nat] /\ syncMetrics \in [Keys -> Nat]
      /\ unsafeMetrics[k] \in Nat /\ syncMetrics[k] \in Nat
  BY DEF IndInv, TypeOK
<1>5. /\ H(k, {"unsafe"}) \in Int /\ G(k, {"unsafe"}) \in Int
      /\ H(k, BeforeStore) \in Int /\ G(k, BeforeStore) \in Int
      /\ H(k, {"unsafe"}) = G(k, {"unsafe"}) + (IF Leaves(k, {"unsafe"}) THEN 1 ELSE 0)
      /\ H(k, BeforeStore) = G(k, BeforeStore) + (IF Leaves(k, BeforeStore) THEN 1 ELSE 0)
  BY <1>2
<1>6. \A v \in Workers \ {w} : at'[v] = at[v] /\ key'[v] = key[v] /\ seen'[v] = seen[v]
  BY Frame
<1> HIDE DEF G, H
<1>7. /\ unsafeMetrics'[k] <= H(k, {"unsafe"})
  <2>1. CASE UnsafeWrite(w)
    <3>1. key[w] = k => unsafeMetrics'[k] = seen[w] + 1 /\ Leaves(k, {"unsafe"})
      BY <1>4, <2>1 DEF UnsafeWrite
    <3>2. key[w] # k => unsafeMetrics'[k] = unsafeMetrics[k]
      BY <1>4, <2>1 DEF UnsafeWrite
    <3>3. key[w] = k => seen[w] <= G(k, {"unsafe"})
      BY <1>3, <2>1 DEF UnsafeWrite
    <3> HIDE DEF Leaves
    <3> QED BY <1>3, <1>4, <1>5, <3>1, <3>2, <3>3
  <2>2. CASE unsafeMetrics' = unsafeMetrics
    BY <1>3, <1>4, <1>5, <2>2
  <2> QED BY <2>1, <2>2 DEF Update, UnsafeRead, Lock, Unlock, SyncLoad, SyncStore,
             AtomicIncrement, counters
<1>8. /\ syncMetrics'[k] <= H(k, BeforeStore)
      /\ H(k, BeforeStore) > 0 => syncMetrics'[k] > 0
  <2>1. CASE SyncStore(w)
    <3>1. key[w] = k => syncMetrics'[k] = seen[w] + 1 /\ Leaves(k, BeforeStore)
      BY <1>4, <2>1 DEF SyncStore, BeforeStore
    <3>2. key[w] # k => syncMetrics'[k] = syncMetrics[k] /\ ~Leaves(k, BeforeStore)
      BY <1>4, <2>1 DEF SyncStore
    <3>3. key[w] = k => seen[w] <= G(k, BeforeStore)
      BY <1>3, <2>1 DEF SyncStore
    <3> HIDE DEF Leaves
    <3> QED BY <1>3, <1>4, <1>5, <3>1, <3>2, <3>3
  <2>2. CASE syncMetrics' = syncMetrics /\ (at[w] \in BeforeStore => at'[w] \in BeforeStore)
    <3>1. ~Leaves(k, BeforeStore)
      BY <2>2
    <3> HIDE DEF Leaves
    <3> QED BY <1>3, <1>4, <1>5, <2>2, <3>1
  <2> QED BY <1>4, <2>1, <2>2 DEF Update, UnsafeRead, UnsafeWrite, Lock, Unlock, SyncLoad,
             AtomicIncrement, counters, BeforeStore
<1>9. ASSUME NEW v \in Workers
      PROVE  /\ at'[v] = "unsafe" /\ key'[v] = k => seen'[v] <= H(k, {"unsafe"})
             /\ at'[v] = "store" /\ key'[v] = k => seen'[v] <= H(k, BeforeStore)
  <2>1. G(k, {"unsafe"}) <= H(k, {"unsafe"}) /\ G(k, BeforeStore) <= H(k, BeforeStore)
    BY <1>5
  <2>2. CASE v # w
    BY <1>3, <1>4, <1>5, <1>6, <2>1, <2>2
  <2>3. CASE v = w
    <3>1. at'[w] = "unsafe" /\ key'[w] = k => seen'[w] = unsafeMetrics[k]
      <4>1. CASE \E l \in Keys : UnsafeRead(w, l)
        BY <1>4, <4>1 DEF UnsafeRead
      <4>2. CASE ~\E l \in Keys : UnsafeRead(w, l)
        BY <1>4, <4>2 DEF Update, UnsafeWrite, Lock, Unlock, SyncLoad, SyncStore,
                          AtomicIncrement
      <4> QED BY <4>1, <4>2
    <3>2. at'[w] = "store" /\ key'[w] = k => seen'[w] = syncMetrics[k]
      <4>1. CASE SyncLoad(w)
        BY <1>4, <4>1 DEF SyncLoad
      <4>2. CASE ~SyncLoad(w)
        BY <1>4, <4>2 DEF Update, UnsafeRead, UnsafeWrite, Lock, Unlock, SyncStore,
                          AtomicIncrement
      <4> QED BY <4>1, <4>2
    <3> QED BY <1>3, <1>4, <1>5, <2>1, <2>3, <3>1, <3>2
  <2> QED BY <2>2, <2>3
<1> QED BY <1>7, <1>8, <1>9

\* The report and the counters it was made from stay; the counters only grow.
LEMMA ReportKept == ASSUME IndInv, TypeOK', NEW w \in Workers, Update(w) PROVE ReportInv'
<1>1. UNCHANGED readerVars /\ \A s \in Statuses : atomicMetrics[s] <= atomicMetrics'[s]
  BY Frame
<1>2. TypeOK
  BY DEF IndInv
<1>3. \A s \in Statuses :
         before[s] \in Int /\ atomicMetrics[s] \in Int /\ atomicMetrics'[s] \in Int
  BY <1>2 DEF TypeOK
<1>4. \A s \in Statuses : Total(report'.safe, s) = Total(report.safe, s)
  BY <1>1 DEF readerVars
<1>5. readerAt' # "idle" =>
          \A s \in Statuses :
              /\ before'[s] <= atomicMetrics'[s] /\ before'[s] <= Total(report'.safe, s)
              /\ Total(report'.safe, s) <= before'[s] + Cardinality(Workers)
  BY <1>1, <1>3, <1>4 DEF IndInv, ReportInv, readerVars
<1> QED BY <1>1, <1>5 DEF IndInv, ReportInv, readerVars, Total, Units

-----------------------------------------------------------------------------
(* The reporting goroutine: it reads, and disturbs none of the counters.    *)
LEMMA CountersKept ==
    ASSUME IndInv, UNCHANGED <<at, key, seen, updates, counters, begun>>
    PROVE  LockInv' /\ SafeInv' /\ StatusInv' /\ LossyInv'
<1>1. LockInv'
  BY DEF IndInv, LockInv, counters
<1>2. SafeInv' /\ LossyInv'
  BY DEF IndInv, SafeInv, LossyInv, Gap, CountKey, OfKey, counters
<1>3. /\ at' = at /\ key' = key /\ begun' = begun
      /\ safeMetrics' = safeMetrics /\ atomicMetrics' = atomicMetrics
  BY DEF counters
<1>4. \A s \in Statuses :
         /\ atomicMetrics'[s] + CountStatus(at', key', s, Busy) = Total(begun', s)
         /\ atomicMetrics'[s] + CountStatus(at', key', s, Past) = Total(safeMetrics', s)
  BY <1>3 DEF IndInv, StatusInv
<1>5. StatusInv'
  BY <1>4 DEF StatusInv, CountStatus, OfStatus, Total, Units, Busy, Past
<1> QED BY <1>1, <1>2, <1>5

\* The copy of the mutex map is at most the workers ahead of the atomic counters.
LEMMA CopyIsFresh ==
    ASSUME IndInv, NEW s \in Statuses
    PROVE  /\ atomicMetrics[s] \in Nat /\ atomicMetrics[s] <= Total(safeMetrics, s)
           /\ Total(safeMetrics, s) <= atomicMetrics[s] + Cardinality(Workers)
<1>1. atomicMetrics[s] \in Nat
  BY DEF IndInv, TypeOK
<1>2. OfStatus(at, key, s, Past) \in SUBSET Workers
  BY DEF OfStatus
<1>3. /\ Cardinality(Workers) \in Nat /\ CountStatus(at, key, s, Past) \in Nat
      /\ CountStatus(at, key, s, Past) <= Cardinality(Workers)
  BY <1>2, FS_Subset, FS_CardinalityType, MetricsAssumption DEF CountStatus
<1>4. atomicMetrics[s] + CountStatus(at, key, s, Past) = Total(safeMetrics, s)
  BY DEF IndInv, StatusInv
<1> QED BY <1>1, <1>3, <1>4

LEMMA ReaderStep == ASSUME IndInv, Report PROVE ReportInv'
<1>1. /\ report \in [safe : [Keys -> Nat], atomic : [Statuses -> Nat]]
      /\ before \in [Statuses -> Nat] /\ atomicMetrics \in [Statuses -> Nat]
      /\ {"processed", "failed"} \subseteq Statuses
  BY DEF IndInv, TypeOK, Statuses
<1>2. CASE CopySafe
  <2>1. /\ before' = atomicMetrics /\ report'.safe = safeMetrics
        /\ atomicMetrics' = atomicMetrics /\ readerAt' = "processed"
    BY <1>1, <1>2 DEF CopySafe, counters
  <2>2. \A s \in Statuses : Total(report'.safe, s) = Total(safeMetrics, s)
    BY <2>1
  <2>3. \A s \in Statuses : /\ before'[s] <= atomicMetrics'[s]
                            /\ before'[s] <= Total(report'.safe, s)
                            /\ Total(report'.safe, s) <= before'[s] + Cardinality(Workers)
    BY <2>1, <2>2, CopyIsFresh
  <2> QED BY <2>1, <2>3 DEF ReportInv, Total, Units
<1>3. ASSUME LoadProcessed \/ LoadFailed \/ LogReport PROVE ReportInv'
  <2>1. /\ before' = before /\ atomicMetrics' = atomicMetrics /\ report'.safe = report.safe
        /\ readerAt # "idle"
    BY <1>1, <1>3 DEF LoadProcessed, LoadFailed, LogReport, counters
  <2>2. \A s \in Statuses : /\ before[s] <= atomicMetrics[s]
                            /\ before[s] <= Total(report.safe, s)
                            /\ Total(report.safe, s) <= before[s] + Cardinality(Workers)
    BY <2>1 DEF IndInv, ReportInv
  <2>3. \A s \in Statuses : /\ before'[s] <= atomicMetrics'[s]
                            /\ before'[s] <= Total(report'.safe, s)
                            /\ Total(report'.safe, s) <= before'[s] + Cardinality(Workers)
    BY <2>1, <2>2
  <2>4. readerAt' \in {"failed", "log"} => before'["processed"] <= report'.atomic["processed"]
    <3>1. CASE LoadProcessed
      BY <1>1, <2>1, <2>2, <3>1 DEF LoadProcessed
    <3>2. CASE LoadFailed \/ LogReport
      BY <1>1, <2>1, <3>2 DEF LoadFailed, LogReport, IndInv, ReportInv
    <3> QED BY <1>3, <3>1, <3>2
  <2>5. readerAt' = "log" => before'["failed"] <= report'.atomic["failed"]
    BY <1>1, <1>3, <2>1, <2>2 DEF LoadProcessed, LoadFailed, LogReport
  <2> QED BY <2>3, <2>4, <2>5 DEF ReportInv, Total, Units
<1> QED BY <1>2, <1>3 DEF Report

LEMMA IndStep == IndInv /\ [Next]_vars => IndInv'
<1> SUFFICES ASSUME IndInv, [Next]_vars PROVE IndInv'
  OBVIOUS
<1>1. TypeOK'
  BY TypeStep DEF IndInv
<1>2. ASSUME NEW w \in Workers, Update(w) PROVE IndInv'
  BY <1>1, <1>2, LockStep, SafeStep, StatusStep, LossyStep, ReportKept DEF IndInv
<1>3. CASE Report
  <2>1. UNCHANGED <<at, key, seen, updates, counters, begun>>
    BY <1>3 DEF Report, CopySafe, LoadProcessed, LoadFailed, LogReport
  <2> QED BY <1>1, <1>3, <2>1, CountersKept, ReaderStep DEF IndInv
<1>4. CASE UNCHANGED vars
  <2>1. ReportInv'
    BY <1>4 DEF vars, readerVars, counters, IndInv, ReportInv, Total, Units
  <2> QED BY <1>1, <1>4, <2>1, CountersKept DEF vars, IndInv
<1> QED BY <1>2, <1>3, <1>4 DEF Next, Dead

-----------------------------------------------------------------------------
(* The initial state. *)
LEMMA EmptyTotals ==
    ASSUME NEW f, f = [k \in Keys |-> 0], NEW s \in Statuses
    PROVE  Total(f, s) = 0
<1>1. \A t \in Types : 1 .. f[<<t, s>>] = {}
  BY DEF Keys
<1>2. Units(f, s) = {}
  BY <1>1 DEF Units
<1> QED BY <1>2, FS_EmptySet DEF Total

LEMMA InitInv == Init => IndInv
<1> SUFFICES ASSUME Init PROVE IndInv
  OBVIOUS
<1>1. TypeOK
  <2>1. /\ [k \in Keys |-> 0] \in [Keys -> Nat]
        /\ [s \in Statuses |-> 0] \in [Statuses -> Nat]
    OBVIOUS
  <2>2. /\ {unsafeMetrics, safeMetrics, syncMetrics, begun} \subseteq [Keys -> Nat]
        /\ {atomicMetrics, before} \subseteq [Statuses -> Nat]
    BY <2>1 DEF Init
  <2>3. report \in [safe : [Keys -> Nat], atomic : [Statuses -> Nat]]
    BY <2>2 DEF Init
  <2>4. /\ updates \in [Workers -> 0 .. Rounds] /\ seen \in [Workers -> Nat]
        /\ key \in [Workers -> Keys \cup {None}]
    BY MetricsAssumption DEF Init
  <2> QED BY <2>2, <2>3, <2>4 DEF Init, TypeOK
<1>2. LockInv
  BY MetricsAssumption DEF Init, LockInv
<1>3. ASSUME NEW P, "idle" \notin P
      PROVE  \A k : CountKey(at, key, k, P) = 0 /\ CountStatus(at, key, k, P) = 0
  <2>1. \A k : OfKey(at, key, k, P) = {} /\ OfStatus(at, key, k, P) = {}
    BY <1>3 DEF Init, OfKey, OfStatus
  <2> QED BY <2>1, FS_EmptySet DEF CountKey, CountStatus
<1>4. /\ "idle" \notin {"unsafe"} /\ "idle" \notin BeforeUnlock /\ "idle" \notin BeforeStore
      /\ "idle" \notin Busy /\ "idle" \notin Past
  BY DEF BeforeUnlock, BeforeStore, Busy, Past
<1>5. \A k \in Keys : /\ Gap(begun, at, key, k, {"unsafe"}) = 0
                      /\ Gap(begun, at, key, k, BeforeUnlock) = 0
                      /\ Gap(begun, at, key, k, BeforeStore) = 0
  BY <1>3, <1>4 DEF Init, Gap
<1>6. SafeInv /\ LossyInv
  BY <1>5 DEF Init, SafeInv, LossyInv
<1>7. StatusInv
  BY <1>3, <1>4, EmptyTotals DEF Init, StatusInv
<1>8. ReportInv
  BY DEF Init, ReportInv
<1> QED BY <1>1, <1>2, <1>6, <1>7, <1>8 DEF IndInv

(* What each counter lacks of its updates is what the workers still carry.  *)
THEOREM Invariance == Spec => []IndInv
BY InitInv, IndStep, PTL DEF Spec

-----------------------------------------------------------------------------
(* The counts of Metrics are the counts above. *)
LEMMA SameCounts ==
    ASSUME TypeOK, NEW k, NEW s, NEW P
    PROVE  /\ Pending(k, P) = CountKey(at, key, k, P) /\ CountKey(at, key, k, P) \in Nat
           /\ InFlight(s) = CountStatus(at, key, s, Busy)
<1>1. OfKey(at, key, k, P) \in SUBSET Workers
  BY DEF OfKey
<1>2. \A w \in Workers : at[w] # "idle" <=> at[w] \in Busy
  BY DEF TypeOK, Busy
<1> QED BY <1>1, <1>2, FS_Subset, FS_CardinalityType, MetricsAssumption
        DEF Pending, InFlight, CountKey, OfKey, CountStatus, OfStatus

(* The map under the mutex and the atomic counters lose no update. *)
THEOREM SafeCountersLoseNothing == Spec => []SafeCountersAreExact
<1>1. IndInv => SafeCountersAreExact
  <2> SUFFICES ASSUME IndInv PROVE SafeCountersAreExact
    OBVIOUS
  <2>1. TypeOK
    BY DEF IndInv
  <2>2. ASSUME NEW k \in Keys PROVE safeMetrics[k] + Pending(k, BeforeUnlock) = begun[k]
    <3>1. begun[k] \in Nat /\ CountKey(at, key, k, BeforeUnlock) \in Nat
      BY <2>1, SameCounts DEF TypeOK
    <3> QED BY <2>1, <3>1, SameCounts DEF IndInv, SafeInv, Gap
  <2>3. ASSUME NEW s \in Statuses PROVE atomicMetrics[s] + InFlight(s) = Total(begun, s)
    BY <2>1, SameCounts DEF IndInv, StatusInv
  <2> QED BY <2>2, <2>3 DEF SafeCountersAreExact, BeforeUnlock
<1> QED BY <1>1, Invariance, PTL

(* The lossy counters never count an update twice, and the sync.Map never   *)
(* loses all updates of a key.                                              *)
THEOREM LossyCountersAreBounded == Spec => []MetricsInv
<1>1. IndInv => MetricsInv
  <2> SUFFICES ASSUME IndInv PROVE MetricsInv
    OBVIOUS
  <2>1. TypeOK
    BY DEF IndInv
  <2>2. ASSUME NEW k \in Keys
        PROVE  /\ unsafeMetrics[k] <= begun[k] - Pending(k, {"unsafe"})
               /\ syncMetrics[k] <= begun[k] - Pending(k, BeforeStore)
               /\ begun[k] > Pending(k, BeforeStore) => syncMetrics[k] > 0
    <3>1. begun[k] \in Nat /\ CountKey(at, key, k, BeforeStore) \in Nat
      BY <2>1, SameCounts DEF TypeOK
    <3>2. /\ Pending(k, {"unsafe"}) = CountKey(at, key, k, {"unsafe"})
          /\ Pending(k, BeforeStore) = CountKey(at, key, k, BeforeStore)
      BY <2>1, SameCounts
    <3> QED BY <3>1, <3>2 DEF IndInv, LossyInv, Gap
  <2> QED BY <2>1, <2>2 DEF MetricsInv, LossyWithinBounds, BeforeStore
<1> QED BY <1>1, Invariance, PTL

(* A report contains what was fully counted when it began, and its map runs *)
(* ahead of its atomic counters by at most one update of each worker.       *)
THEOREM ReportsAreFresh == Spec => []ReportIsFresh
<1>1. IndInv => ReportIsFresh
  <2> SUFFICES ASSUME IndInv, readerAt = "log", NEW s \in Statuses
               PROVE  /\ before[s] <= report.atomic[s] /\ before[s] <= Total(report.safe, s)
                      /\ Total(report.safe, s) <= report.atomic[s] + Cardinality(Workers)
    BY DEF ReportIsFresh
  <2>1. before[s] \in Nat /\ report.atomic[s] \in Nat /\ Total(report.safe, s) \in Nat
    BY TotalsOf DEF IndInv, TypeOK
  <2>2. Cardinality(Workers) \in Nat
    BY FS_CardinalityType, MetricsAssumption
  <2>3. before[s] <= report.atomic[s]
    BY DEF IndInv, ReportInv, Statuses
  <2> QED BY <2>1, <2>2, <2>3 DEF IndInv, ReportInv
<1> QED BY <1>1, Invariance, PTL
=============================================================================
