------------------------------- MODULE Metrics -------------------------------
(***************************************************************************)
(* The four counters of internal/processor/worker.go's Metrics.  Every     *)
(* worker that finishes a job runs updateMetricsWithRaceCondition, which   *)
(* counts the job in an unprotected map, a map under a mutex, a sync.Map   *)
(* and an atomic integer, in this order; the statistics ticker meanwhile   *)
(* copies them with GetMetrics and logs the copy.  An update of shared     *)
(* memory that the code does not make atomic is a read step and a write    *)
(* step here.                                                              *)
(***************************************************************************)
EXTENDS Integers, FiniteSets

CONSTANTS
    Workers,  \* the goroutines that count
    Types,    \* message types
    Rounds,   \* bound: jobs each worker finishes
    None      \* nobody holds the mutex, no key is in use

Statuses == {"processed", "failed"}
Keys == Types \X Statuses   \* fmt.Sprintf("%s_%s", messageType, status)

ASSUME MetricsAssumption ==
    /\ Rounds \in Nat /\ None \notin Workers \cup Keys
    /\ IsFiniteSet(Types) /\ IsFiniteSet(Workers)

VARIABLES
    at,             \* where each worker is in its update
    key,            \* the key it counts under, while it does
    seen,           \* the value it read last
    updates,        \* how many updates it has begun
    unsafeMetrics, safeMetrics, metricsMutex, syncMetrics, atomicMetrics,
    fatal,          \* the runtime stopped the program: concurrent map access
    readerAt,       \* where the statistics goroutine is
    report,         \* the copy it has made so far
    before,         \* the atomic counters when it began
    begun           \* the updates begun so far, per key

counters   == <<unsafeMetrics, safeMetrics, metricsMutex, syncMetrics, atomicMetrics>>
readerVars == <<readerAt, report, before>>
vars == <<at, key, seen, updates, counters, fatal, readerVars, begun>>

\* What was counted under one status, over all types, unit by unit.
Units(table, s) == UNION {{t} \X (1 .. table[<<t, s>>]) : t \in Types}
Total(table, s) == Cardinality(Units(table, s))

Init ==
    /\ at = [w \in Workers |-> "idle"]
    /\ key = [w \in Workers |-> None]
    /\ seen = [w \in Workers |-> 0] /\ updates = [w \in Workers |-> 0]
    /\ unsafeMetrics = [k \in Keys |-> 0] /\ safeMetrics = [k \in Keys |-> 0]
    /\ syncMetrics = [k \in Keys |-> 0] /\ atomicMetrics = [s \in Statuses |-> 0]
    /\ metricsMutex = None /\ fatal = FALSE
    /\ readerAt = "idle"
    /\ report = [safe |-> safeMetrics, atomic |-> atomicMetrics]
    /\ before = atomicMetrics /\ begun = [k \in Keys |-> 0]

-----------------------------------------------------------------------------
\* Somebody else is inside the map: the runtime may notice, and a fatal error
\* is no panic, so the deferred recover does not stop it.
OthersInMap(w) == (\E v \in Workers \ {w} : at[v] = "unsafe") \/ readerAt = "log"

(* UnsafeIncrement: unsafeMetrics[key]++ without any protection.            *)
UnsafeRead(w, k) ==
    /\ at[w] = "idle" /\ updates[w] < Rounds
    /\ updates' = [updates EXCEPT ![w] = @ + 1] /\ begun' = [begun EXCEPT ![k] = @ + 1]
    /\ key' = [key EXCEPT ![w] = k]
    /\ seen' = [seen EXCEPT ![w] = unsafeMetrics[k]]
    /\ fatal' \in {FALSE, OthersInMap(w)}
    /\ at' = [at EXCEPT ![w] = "unsafe"]
    /\ UNCHANGED <<counters, readerVars>>

UnsafeWrite(w) ==
    /\ at[w] = "unsafe"
    /\ unsafeMetrics' = [unsafeMetrics EXCEPT ![key[w]] = seen[w] + 1]
    /\ at' = [at EXCEPT ![w] = "lock"]
    /\ UNCHANGED <<key, seen, updates, safeMetrics, metricsMutex, syncMetrics,
                   atomicMetrics, fatal, readerVars, begun>>

(* SafeIncrementWithMutex: the same, between Lock and Unlock.               *)
MutexFree_Ignored == TRUE
MutexFree == metricsMutex = None

Lock(w) ==
    /\ at[w] = "lock" /\ MutexFree
    /\ metricsMutex' = w
    /\ seen' = [seen EXCEPT ![w] = safeMetrics[key[w]]]
    /\ at' = [at EXCEPT ![w] = "unlock"]
    /\ UNCHANGED <<key, updates, unsafeMetrics, safeMetrics, syncMetrics,
                   atomicMetrics, fatal, readerVars, begun>>

Unlock(w) ==
    /\ at[w] = "unlock"
    /\ safeMetrics' = [safeMetrics EXCEPT ![key[w]] = seen[w] + 1]
    /\ metricsMutex' = None
    /\ at' = [at EXCEPT ![w] = "load"]
    /\ UNCHANGED <<key, seen, updates, unsafeMetrics, syncMetrics, atomicMetrics,
                   fatal, readerVars, begun>>

(* SafeIncrementWithSyncMap: Load and Store are atomic, the pair is not; an *)
(* absent key counts as 0.                                                  *)
SyncLoad(w) ==
    /\ at[w] = "load"
    /\ seen' = [seen EXCEPT ![w] = syncMetrics[key[w]]]
    /\ at' = [at EXCEPT ![w] = "store"]
    /\ UNCHANGED <<key, updates, counters, fatal, readerVars, begun>>

SyncStore_Seen(w) ==
    /\ at[w] = "store"
    /\ syncMetrics' = [syncMetrics EXCEPT ![key[w]] = seen[w]]
    /\ at' = [at EXCEPT ![w] = "atomic"]
    /\ UNCHANGED <<key, seen, updates, unsafeMetrics, safeMetrics, metricsMutex,
                   atomicMetrics, fatal, readerVars, begun>>
SyncStore(w) ==
    /\ at[w] = "store"
    /\ syncMetrics' = [syncMetrics EXCEPT ![key[w]] = seen[w] + 1]
    /\ at' = [at EXCEPT ![w] = "atomic"]
    /\ UNCHANGED <<key, seen, updates, unsafeMetrics, safeMetrics, metricsMutex,
                   atomicMetrics, fatal, readerVars, begun>>

(* AtomicIncrement counts per status only. *)
AtomicIncrement(w) ==
    /\ at[w] = "atomic"
    /\ atomicMetrics' = [atomicMetrics EXCEPT ![key[w][2]] = @ + 1]
    /\ at' = [at EXCEPT ![w] = "idle"]
    /\ key' = [key EXCEPT ![w] = None] /\ seen' = [seen EXCEPT ![w] = 0]
    /\ UNCHANGED <<updates, unsafeMetrics, safeMetrics, metricsMutex,
                   syncMetrics, fatal, readerVars, begun>>

-----------------------------------------------------------------------------
(* GetMetrics: the mutex map is copied under its read lock, the atomics are *)
(* loaded one by one, and the unprotected map itself is handed out; it is   *)
(* iterated when the report is logged.                                      *)
CopySafe ==
    /\ readerAt = "idle" /\ MutexFree
    /\ before' = atomicMetrics
    /\ report' = [report EXCEPT !.safe = safeMetrics]
    /\ readerAt' = "processed"
    /\ UNCHANGED <<at, key, seen, updates, counters, fatal, begun>>

LoadProcessed_Cached ==
    /\ readerAt = "processed"
    /\ readerAt' = "failed"
    /\ UNCHANGED <<at, key, seen, updates, counters, fatal, report, before, begun>>
LoadProcessed ==
    /\ readerAt = "processed"
    /\ report' = [report EXCEPT !.atomic["processed"] = atomicMetrics["processed"]]
    /\ readerAt' = "failed"
    /\ UNCHANGED <<at, key, seen, updates, counters, fatal, before, begun>>

LoadFailed ==
    /\ readerAt = "failed"
    /\ report' = [report EXCEPT !.atomic["failed"] = atomicMetrics["failed"]]
    /\ fatal' \in {FALSE, \E w \in Workers : at[w] = "unsafe"}
    /\ readerAt' = "log"
    /\ UNCHANGED <<at, key, seen, updates, counters, before, begun>>

LogReport ==
    /\ readerAt = "log"
    /\ readerAt' = "idle"
    /\ UNCHANGED <<at, key, seen, updates, counters, fatal, report, before, begun>>

-----------------------------------------------------------------------------
Update(w) ==
    \/ \E k \in Keys : UnsafeRead(w, k)
    \/ UnsafeWrite(w) \/ Lock(w) \/ Unlock(w)
    \/ SyncLoad(w) \/ SyncStore(w) \/ AtomicIncrement(w)

Report == CopySafe \/ LoadProcessed \/ LoadFailed \/ LogReport

Dead == fatal /\ UNCHANGED vars

Next == \/ ~fatal /\ (Report \/ \E w \in Workers : Update(w))
        \/ Dead

Spec == Init /\ [][Next]_vars

-----------------------------------------------------------------------------
(* Type invariant. *)
TypeOK ==
    /\ at \in [Workers -> {"idle", "unsafe", "lock", "unlock", "load", "store", "atomic"}]
    /\ key \in [Workers -> Keys \cup {None}] /\ seen \in [Workers -> Nat]
    /\ updates \in [Workers -> 0 .. Rounds]
    /\ {unsafeMetrics, safeMetrics, syncMetrics, begun} \subseteq [Keys -> Nat]
    /\ {atomicMetrics, before} \subseteq [Statuses -> Nat]
    /\ report \in [safe : [Keys -> Nat], atomic : [Statuses -> Nat]]
    /\ metricsMutex \in Workers \cup {None}
    /\ fatal \in BOOLEAN /\ readerAt \in {"idle", "processed", "failed", "log"}

\* The updates of one key, or status, that have not passed a point yet.
Pending(k, places) == Cardinality({w \in Workers : key[w] = k /\ at[w] \in places})
InFlight(s) == Cardinality({w \in Workers : at[w] # "idle" /\ key[w][2] = s})

(* The map under the mutex and the atomic counters lose no update, whatever *)
(* the workers interleave: what has begun is counted, or still on its way.  *)
SafeCountersAreExact ==
    /\ \A k \in Keys : safeMetrics[k] + Pending(k, {"unsafe", "lock", "unlock"}) = begun[k]
    /\ \A s \in Statuses : atomicMetrics[s] + InFlight(s) = Total(begun, s)

(* The unprotected map and the sync.Map may lose updates, but they never    *)
(* count one twice, and the sync.Map never loses all of them.               *)
LossyWithinBounds ==
    \A k \in Keys :
        /\ unsafeMetrics[k] <= begun[k] - Pending(k, {"unsafe"})
        /\ syncMetrics[k] <= begun[k] - Pending(k, {"unsafe", "lock", "unlock", "load", "store"})
        /\ begun[k] > Pending(k, {"unsafe", "lock", "unlock", "load", "store"})
                => syncMetrics[k] > 0

(* Types and bounds of the four counters. *)
MetricsInv == TypeOK /\ LossyWithinBounds

(* A report is not a snapshot, but every job that was fully counted when it *)
(* began is in it, under both kinds of counter, and the map runs ahead of   *)
(* the atomic counter, read later, by at most one update of each worker.    *)
ReportIsFresh ==
    readerAt = "log" =>
        \A s \in Statuses :
            /\ before[s] <= report.atomic[s] /\ before[s] <= Total(report.safe, s)
            /\ Total(report.safe, s) <= report.atomic[s] + Cardinality(Workers)
=============================================================================
