------------------------------ MODULE Semaphore ------------------------------
(***************************************************************************)
(* The Semaphore of internal/processor/worker.go for any number of         *)
(* goroutines: a buffered channel that holds one element per permit, and a *)
(* separate counter `active' under a mutex, which Acquire increments after *)
(* its send and Release decrements before its receive.  The mutex sections *)
(* do not block, so each is one step; between them and the channel         *)
(* operations other goroutines run, GetStats among them.                   *)
(*                                                                         *)
(* A goroutine whose send does not fit waits in the channel's queue.  The  *)
(* receive of a release hands its place to the first one in that queue.    *)
(***************************************************************************)
EXTENDS Integers, Sequences, FiniteSets, Functions

CONSTANTS
    Goroutines,  \* the callers of Acquire and Release
    Max          \* Semaphore.max, the capacity of the channel

ASSUME GoroutinesAssumption == IsFiniteSet(Goroutines)
ASSUME MaxAssumption == Max \in Nat

VARIABLES
    pc,         \* where each goroutine is
    permits,    \* len(s.permits)
    queue,      \* the goroutines blocked in the send, first come first served
    active,     \* s.active
    cancelled   \* the goroutines whose ctx is done

vars == <<pc, permits, queue, active, cancelled>>

\* Between the send of Acquire and the receive of Release.
Holding == {"granted", "inside", "leaving"}
Holders == {g \in Goroutines : pc[g] \in Holding}
Inside  == {g \in Goroutines : pc[g] = "inside"}

Init ==
    /\ pc = [g \in Goroutines |-> "outside"]
    /\ permits = 0 /\ queue = <<>> /\ active = 0 /\ cancelled = {}

-----------------------------------------------------------------------------
HasPermit_OffByOne == permits <= Max
HasPermit == permits < Max

(* Acquire: the send fits, ... *)
Send(g) ==
    /\ pc[g] = "outside" /\ HasPermit
    /\ permits' = permits + 1
    /\ pc' = [pc EXCEPT ![g] = "granted"]
    /\ UNCHANGED <<queue, active, cancelled>>

\* ... or it does not and the goroutine blocks in its select ...
Block(g) ==
    /\ pc[g] = "outside" /\ ~HasPermit /\ g \notin cancelled
    /\ queue' = Append(queue, g)
    /\ pc' = [pc EXCEPT ![g] = "waiting"]
    /\ UNCHANGED <<permits, active, cancelled>>

\* The queue when its i-th goroutine gives up waiting.
Without(q, i) == [k \in 1 .. Len(q) - 1 |-> IF k < i THEN q[k] ELSE q[k + 1]]

\* ... or its ctx is done, which select may take although the send would fit.
AcquireCancelled_KeepsPlace(g) ==
    /\ pc[g] \in {"outside", "waiting"} /\ g \in cancelled
    /\ pc' = [pc EXCEPT ![g] = "outside"]
    /\ cancelled' = cancelled \ {g}  \* the next call brings its own ctx
    /\ UNCHANGED <<permits, queue, active>>
AcquireCancelled(g) ==
    /\ pc[g] \in {"outside", "waiting"} /\ g \in cancelled
    /\ \/ pc[g] = "outside" /\ UNCHANGED queue
       \/ \E i \in DOMAIN queue : queue[i] = g /\ queue' = Without(queue, i)
    /\ pc' = [pc EXCEPT ![g] = "outside"]
    /\ cancelled' = cancelled \ {g}  \* the next call brings its own ctx
    /\ UNCHANGED <<permits, active>>

\* s.active++ under the mutex ends Acquire.
Count(g) ==
    /\ pc[g] = "granted"
    /\ active' = active + 1
    /\ pc' = [pc EXCEPT ![g] = "inside"]
    /\ UNCHANGED <<permits, queue, cancelled>>

(* Release: s.active-- under the mutex, then the receive. *)
Uncount(g) ==
    /\ pc[g] = "inside"
    /\ active' = active - 1
    /\ pc' = [pc EXCEPT ![g] = "leaving"]
    /\ UNCHANGED <<permits, queue, cancelled>>

Receive_NoWakeup(g) ==
    /\ pc[g] = "leaving"
    /\ pc' = [pc EXCEPT ![g] = "outside"]
    /\ permits' = permits - 1
    /\ UNCHANGED <<queue, active, cancelled>>
Receive(g) ==
    /\ pc[g] = "leaving"
    /\ \/ /\ queue = <<>>
          /\ permits' = permits - 1
          /\ pc' = [pc EXCEPT ![g] = "outside"]
          /\ UNCHANGED queue
       \/ /\ queue # <<>>
          /\ pc' = [pc EXCEPT ![g] = "outside", ![Head(queue)] = "granted"]
          /\ queue' = Tail(queue)
          /\ UNCHANGED permits
    /\ cancelled' = cancelled \ {g}  \* the next call brings its own ctx
    /\ UNCHANGED active

\* The caller's ctx ends while it tries to acquire.
Cancel(g) ==
    /\ pc[g] \in {"outside", "waiting"} /\ g \notin cancelled
    /\ cancelled' = cancelled \cup {g}
    /\ UNCHANGED <<pc, permits, queue, active>>

-----------------------------------------------------------------------------
Acquire(g) == Send(g) \/ Block(g) \/ AcquireCancelled(g) \/ Count(g)
Release(g) == Uncount(g) \/ Receive(g)

GetStats == [active |-> active, available |-> Max - active]

Next == \E g \in Goroutines : Acquire(g) \/ Release(g) \/ Cancel(g)

\* A goroutine inside finishes its job and releases, and a call under way goes
\* on; nobody has to call Acquire.
Fairness == \A g \in Goroutines : WF_vars(Count(g) \/ Release(g))

Spec     == Init /\ [][Next]_vars
FairSpec == Spec /\ Fairness

-----------------------------------------------------------------------------
(* Type invariant. *)
TypeOK ==
    /\ pc \in [Goroutines -> {"outside", "waiting"} \cup Holding]
    /\ permits \in 0 .. Max /\ active \in Int
    /\ queue \in Seq(Goroutines) /\ cancelled \subseteq Goroutines

(* What GetStats reports, at any moment: `active' and `available' lie       *)
(* between 0 and max although they are not changed together with the permit.*)
StatsInRange == {GetStats.active, GetStats.available} \subseteq 0 .. Max

(* The channel's queue holds exactly the goroutines that wait, once each:   *)
(* a cancelled Acquire leaves nothing behind that a release could wake.     *)
QueueIsWaiting ==
    /\ IsInjective(queue)
    /\ Range(queue) = {g \in Goroutines : pc[g] = "waiting"}

(* The strengthening that makes these facts inductive: both counts are the  *)
(* sizes of sets of goroutines, and nobody waits while there is a permit.   *)
IndInv ==
    /\ TypeOK /\ QueueIsWaiting /\ StatsInRange
    /\ permits = Cardinality(Holders) /\ active = Cardinality(Inside)
    /\ queue # <<>> => permits = Max

-----------------------------------------------------------------------------
Abstract == INSTANCE CountingSemaphore WITH Clients <- Goroutines, holders <- Holders

(* The semaphore implements the abstract one: the moment of a send or of a  *)
(* hand-over is the entry, the receive is the exit.                         *)
ImplementsSemaphore == Abstract!Spec

(* A goroutine that waits for a permit gets one, or its ctx ends the wait:  *)
(* those that come later do not overtake it for ever.                       *)
WaitersAreServed ==
    \A g \in Goroutines : pc[g] = "waiting" ~> pc[g] # "waiting" \/ g \in cancelled
=============================================================================
