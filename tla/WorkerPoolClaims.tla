-------------------------- MODULE WorkerPoolClaims --------------------------
(***************************************************************************)
(* What the repository's README says of the shutdown, against what Stop    *)
(* does.  The only assumption added to WorkerPool is in the system's       *)
(* favour: every job takes far less than Stop's timeout, so that the timer *)
(* fires only when no worker can take a step any more.                     *)
(***************************************************************************)
EXTENDS WorkerPool

PromptNext ==
    /\ Next
    /\ outcome = "none" /\ outcome' = "forced" =>
            \A w \in Workers : ~ ENABLED WorkerStep(w)

PromptSpec == Init /\ [][PromptNext]_vars

(* README.md:112, `Graceful shutdown com finalizacao de jobs em andamento': *)
(* once Stop has stopped waiting, no worker is in the middle of a job.      *)
ShutdownFinishesJobs == outcome # "none" => permits = {}
=============================================================================
