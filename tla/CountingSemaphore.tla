-------------------------- MODULE CountingSemaphore --------------------------
(***************************************************************************)
(* What a semaphore promises its callers: at most Max of them are inside   *)
(* at a time, each enters and leaves on its own.                           *)
(***************************************************************************)
EXTENDS Integers, FiniteSets

CONSTANTS Clients, Max

VARIABLE holders

Init == holders = {}

Enter(c) ==
    /\ c \notin holders /\ Cardinality(holders) < Max
    /\ holders' = holders \cup {c}

Leave(c) ==
    /\ c \in holders
    /\ holders' = holders \ {c}

\* One leaves and the next enters its place at once.
Handover(c, d) ==
    /\ c \in holders /\ d \notin holders
    /\ holders' = (holders \ {c}) \cup {d}

Next ==
    \/ \E c \in Clients : Enter(c) \/ Leave(c)
    \/ \E c, d \in Clients : Handover(c, d)

Spec == Init /\ [][Next]_holders
=============================================================================
