---------------------------- MODULE AtLeastOnce ----------------------------
(***************************************************************************)
(* What a queue and the process that consumes it promise together: a       *)
(* message is finished only after it was handled, or dropped on purpose;   *)
(* one that was taken and not settled comes back.  It may be handled more  *)
(* than once.                                                              *)
(***************************************************************************)
EXTENDS Integers

CONSTANT Messages

VARIABLES
    status,   \* "absent", "ready", "taken", "done" or "dropped"
    handled   \* the messages handled at least once

aloVars == <<status, handled>>

Init ==
    /\ status \in [Messages -> {"absent", "ready"}]
    /\ handled = {}

Enqueue(m) ==
    /\ status[m] = "absent" /\ status' = [status EXCEPT ![m] = "ready"]
    /\ UNCHANGED handled

TakeOne(m) ==
    /\ status[m] = "ready" /\ status' = [status EXCEPT ![m] = "taken"]
    /\ UNCHANGED handled

\* Also by a consumer that has lost the message already.
Handle(m) ==
    /\ status[m] \in {"ready", "taken"} /\ handled' = handled \cup {m}
    /\ UNCHANGED status

Finish(m) ==
    /\ status[m] = "taken" /\ m \in handled
    /\ status' = [status EXCEPT ![m] = "done"] /\ UNCHANGED handled

Drop(m) ==
    /\ status[m] = "taken"
    /\ status' = [status EXCEPT ![m] = "dropped"] /\ UNCHANGED handled

\* The consumer is gone: all it had comes back.
PutBack ==
    /\ status' = [m \in Messages |-> IF status[m] = "taken" THEN "ready" ELSE status[m]]
    /\ UNCHANGED handled

Next ==
    \/ \E m \in Messages : Enqueue(m) \/ TakeOne(m) \/ Handle(m) \/ Finish(m) \/ Drop(m)
    \/ PutBack

Spec == Init /\ [][Next]_aloVars
=============================================================================
