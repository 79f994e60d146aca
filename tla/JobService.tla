----------------------------- MODULE JobService -----------------------------
(***************************************************************************)
(* What a pool promises those who give it jobs.  Jobs are taken in the     *)
(* order of their acceptance and tried a limited number of times; one that *)
(* succeeded is acknowledged and one that used up its attempts rejected,   *)
(* once.  Only a cut, the end of the context above the pool, ends a job    *)
(* early.  There are no workers, permits, locks or channels here.          *)
(***************************************************************************)
EXTENDS Integers, Sequences, Functions

CONSTANTS Jobs, Attempts

VARIABLES
    phase,    \* "created", "open" or "closed"
    cut,      \* the context above the pool is cancelled
    waiting,  \* the accepted jobs nobody has taken yet, in order
    fate,     \* "new", "refused", "accepted", "handled", "abandoned", "ack" or "reject"
    tries     \* how often each job was tried

serviceVars == <<phase, cut, waiting, fate, tries>>

Init ==
    /\ phase = "created" /\ cut = FALSE /\ waiting = <<>>
    /\ fate = [j \in Jobs |-> "new"] /\ tries = [j \in Jobs |-> 0]

Becomes(j, from, to) == fate[j] = from /\ fate' = [fate EXCEPT ![j] = to]

InWork(j) == fate[j] = "accepted" /\ j \notin Range(waiting)

Open  == phase = "created" /\ phase' = "open" /\ UNCHANGED <<cut, waiting, fate, tries>>
Close == phase = "open" /\ phase' = "closed" /\ UNCHANGED <<cut, waiting, fate, tries>>
Cut   == ~cut /\ cut' = TRUE /\ UNCHANGED <<phase, waiting, fate, tries>>

Accept(j) ==
    /\ phase = "open" /\ Becomes(j, "new", "accepted")
    /\ waiting' = Append(waiting, j) /\ UNCHANGED <<phase, cut, tries>>

Refuse(j) == Becomes(j, "new", "refused") /\ UNCHANGED <<phase, cut, waiting, tries>>

TakeFirst ==
    /\ waiting # <<>> /\ waiting' = Tail(waiting)
    /\ UNCHANGED <<phase, cut, fate, tries>>

Try(j) ==
    /\ InWork(j) /\ tries[j] < Attempts
    /\ tries' = [tries EXCEPT ![j] = @ + 1]
    /\ fate' = fate \/ fate' = [fate EXCEPT ![j] = "handled"]
    /\ UNCHANGED <<phase, cut, waiting>>

Acknowledge(j) == Becomes(j, "handled", "ack") /\ UNCHANGED <<phase, cut, waiting, tries>>

Reject(j) ==
    /\ InWork(j) /\ (cut \/ tries[j] = Attempts)
    /\ Becomes(j, "accepted", "reject") /\ UNCHANGED <<phase, cut, waiting, tries>>

\* It will never be settled.
Abandon(j) ==
    /\ InWork(j) /\ cut /\ tries[j] = 0
    /\ Becomes(j, "accepted", "abandoned") /\ UNCHANGED <<phase, cut, waiting, tries>>

Next ==
    \/ Open \/ Close \/ Cut \/ TakeFirst
    \/ \E j \in Jobs : \/ Accept(j) \/ Refuse(j) \/ Try(j)
                      \/ Acknowledge(j) \/ Reject(j) \/ Abandon(j)

Spec == Init /\ [][Next]_serviceVars
=============================================================================
