----------------------------- MODULE Reporters -----------------------------
(***************************************************************************)
(* The observing side of cmd/consumer/main.go: reportStats, healthCheck    *)
(* and the metrics server run beside main and read the pool under its      *)
(* read lock, while main's shutdown cancels them, takes the write lock in  *)
(* Stop and waits for them until a timeout.  The pool itself is reduced to *)
(* what they see of it; WorkerPool has the rest.                           *)
(*                                                                         *)
(* sync.RWMutex: a writer that waits keeps new readers out.                *)
(***************************************************************************)
EXTENDS Integers, FiniteSets

CONSTANT Clients  \* those who ask the metrics server

VARIABLES
    mainPc,     \* "running", "cancelled", "locking", "stopping", "waiting", "exited"
    ended,      \* main's word at the end: "none", "graceful" or "timeout"
    at,         \* where each reporter is
    lock,       \* those that hold wp.mu: readers, or {"main"}
    active,     \* wp.active
    ctxDone,    \* wp.ctx.Err() != nil
    stats,      \* the (active, context_done) of each reporter's last GetStats
    warned,     \* what healthCheck has warned of
    server,     \* the HTTP server: "open", "failed", "draining", "closed", "abandoned"
    requests,   \* the clients whose request it is serving
    connected   \* the connection to RabbitMQ is alive

serverVars   == <<server, requests>>
reporterVars == <<mainPc, ended, at, lock, active, ctxDone, stats, warned, serverVars, connected>>

Readers   == {"report", "health"}
Reporters == Readers \cup {"metrics"}
Cancelled == mainPc # "running"

Snapshot == [active |-> active, contextDone |-> ctxDone]

ReportersInit ==
    /\ mainPc = "running" /\ ended = "none"
    /\ at = [r \in Reporters |-> "select"]
    /\ lock = {} /\ active = TRUE /\ ctxDone = FALSE
    /\ stats = [r \in Readers |-> Snapshot] /\ warned = {}
    /\ server = "open" /\ requests = {} /\ connected = TRUE

-----------------------------------------------------------------------------
Move(r, from, to) == at[r] = from /\ at' = [at EXCEPT ![r] = to]

Rest == UNCHANGED <<mainPc, ended, active, ctxDone, serverVars, connected>>

\* The ticker: reportStats first asks the broker, healthCheck reads the pool.
TickReport ==
    /\ Move("report", "select", "inspecting")
    /\ UNCHANGED <<lock, stats, warned>> /\ Rest

\* GetQueueStats answers, with an error when the connection is lost.
Inspected ==
    /\ Move("report", "inspecting", IF connected THEN "reading" ELSE "select")
    /\ UNCHANGED <<lock, stats, warned>> /\ Rest

TickHealth ==
    /\ Move("health", "select", "reading")
    /\ UNCHANGED <<lock, stats, warned>> /\ Rest

CanRead == "main" \notin lock /\ mainPc # "locking"

\* GetStats; IsActive, which healthCheck calls next, takes the lock again.
GetStats(r) ==
    /\ CanRead /\ Move(r, "reading", "read")
    /\ lock' = lock \cup {r} /\ stats' = [stats EXCEPT ![r] = Snapshot]
    /\ UNCHANGED warned /\ Rest

ReadDone(r) ==
    /\ Move(r, "read", IF r = "health" THEN "checking" ELSE "select")
    /\ lock' = lock \ {r}
    /\ UNCHANGED <<stats, warned>> /\ Rest

IsActive ==
    /\ CanRead /\ Move("health", "checking", "select")
    /\ warned' = warned \cup (IF active THEN {} ELSE {"inactive"})
                        \cup (IF stats["health"].contextDone THEN {"context"} ELSE {})
    /\ UNCHANGED <<lock, stats>> /\ Rest

\* <-ctx.Done() in the select.
EndReader(r) ==
    /\ Cancelled /\ Move(r, "select", "ended")
    /\ UNCHANGED <<lock, stats, warned>> /\ Rest

(* startMetricsServer: ListenAndServe in a goroutine of its own accepts       *)
(* requests, or fails, for good, and its error is only logged.               *)
ServerOnly == UNCHANGED <<mainPc, ended, lock, active, ctxDone, stats, warned, connected>>

RequestOpens(c) ==
    /\ server = "open" /\ c \notin requests /\ requests' = requests \cup {c}
    /\ UNCHANGED <<at, server>> /\ ServerOnly

RequestEnds(c) ==
    /\ c \in requests /\ requests' = requests \ {c}
    /\ UNCHANGED <<at, server>> /\ ServerOnly

ListenFails ==
    /\ server = "open" /\ server' = "failed"
    /\ UNCHANGED <<at, requests>> /\ ServerOnly

\* Shutdown closes the listener and waits for the open requests.
ServerDrains ==
    /\ Cancelled /\ Move("metrics", "select", "draining") /\ server' = "draining"
    /\ UNCHANGED requests /\ ServerOnly

ServerCloses ==
    /\ requests = {}
    /\ Move("metrics", "draining", "ended") /\ server' = "closed"
    /\ UNCHANGED requests /\ ServerOnly

\* After 5 s it returns its context's error, which is logged; what is open goes
\* on being served, but the goroutine that main waits for has ended.
ShutdownTimesOut ==
    /\ Move("metrics", "draining", "ended") /\ server' = "abandoned"
    /\ UNCHANGED requests /\ ServerOnly

-----------------------------------------------------------------------------
(* main: cancel, Stop, the wait for the reporters. *)
Main(from, to) == mainPc = from /\ mainPc' = to

Cancel ==
    /\ Main("running", "cancelled")
    /\ UNCHANGED <<ended, at, lock, active, ctxDone, stats, warned, serverVars, connected>>

\* Stop asks for the write lock.
StopCalled ==
    /\ Main("cancelled", "locking")
    /\ UNCHANGED <<ended, at, lock, active, ctxDone, stats, warned, serverVars, connected>>

\* Stop holds the lock from here to its end, over the wait for the workers.
StopBegins_Unlocks ==
    /\ lock = {} /\ Main("locking", "stopping") /\ ctxDone' = TRUE
    /\ UNCHANGED <<ended, at, lock, active, stats, warned, serverVars, connected>>
StopBegins ==
    /\ lock = {} /\ Main("locking", "stopping")
    /\ lock' = {"main"} /\ ctxDone' = TRUE
    /\ UNCHANGED <<ended, at, active, stats, warned, serverVars, connected>>

\* The workers are done or the timer has fired.
StopEnds ==
    /\ Main("stopping", "waiting")
    /\ active' = FALSE /\ lock' = lock \ {"main"}
    /\ UNCHANGED <<ended, at, ctxDone, stats, warned, serverVars, connected>>

AllEnded == \A r \in Reporters : at[r] = "ended"

ExitGraceful ==
    /\ AllEnded /\ Main("waiting", "exited") /\ ended' = "graceful"
    /\ UNCHANGED <<at, lock, active, ctxDone, stats, warned, serverVars, connected>>

ExitTimeout_Missing ==
    FALSE /\ UNCHANGED reporterVars
ExitTimeout ==
    /\ Main("waiting", "exited") /\ ended' = "timeout"
    /\ UNCHANGED <<at, lock, active, ctxDone, stats, warned, serverVars, connected>>

ConnectionLost ==
    /\ connected /\ mainPc # "exited" /\ connected' = FALSE
    /\ UNCHANGED <<mainPc, ended, at, lock, active, ctxDone, stats, warned, serverVars>>

MainExited == mainPc = "exited" /\ UNCHANGED reporterVars

ReaderStep(r) == GetStats(r) \/ ReadDone(r) \/ (r = "health" /\ IsActive)

ReportersNext ==
    \/ /\ mainPc # "exited"
       /\ \/ TickReport \/ Inspected \/ TickHealth
          \/ \E r \in Readers : ReaderStep(r) \/ EndReader(r)
          \/ \E c \in Clients : RequestOpens(c) \/ RequestEnds(c)
          \/ ListenFails \/ ServerDrains \/ ServerCloses \/ ShutdownTimesOut
    \/ Cancel \/ StopCalled \/ StopBegins \/ StopEnds \/ ExitGraceful \/ ExitTimeout
    \/ ConnectionLost \/ MainExited

\* Goroutines that can run do, the select takes a done context some time, the
\* timers of Stop, of Shutdown and of main fire; the broker may leave
\* GetQueueStats waiting, a client its request open.
ReportersFairness ==
    /\ \A r \in Readers : WF_reporterVars(ReaderStep(r)) /\ SF_reporterVars(EndReader(r))
    /\ WF_reporterVars(ServerDrains) /\ WF_reporterVars(ServerCloses \/ ShutdownTimesOut)
    /\ WF_reporterVars(StopCalled) /\ WF_reporterVars(StopBegins) /\ WF_reporterVars(StopEnds)
    /\ WF_reporterVars(ExitGraceful \/ ExitTimeout)

ReportersSpec     == ReportersInit /\ [][ReportersNext]_reporterVars
ReportersFairSpec == ReportersSpec /\ ReportersFairness

-----------------------------------------------------------------------------
(* Type invariant. *)
ReportersTypeOK ==
    /\ mainPc \in {"running", "cancelled", "locking", "stopping", "waiting", "exited"}
    /\ ended \in {"none", "graceful", "timeout"}
    /\ \A r \in Readers : at[r] \in {"select", "inspecting", "reading", "read", "checking", "ended"}
    /\ at["metrics"] \in {"select", "draining", "ended"}
    /\ lock \subseteq Readers \/ lock = {"main"}
    /\ active \in BOOLEAN /\ ctxDone \in BOOLEAN /\ connected \in BOOLEAN
    /\ server \in {"open", "failed", "draining", "closed", "abandoned"}
    /\ requests \subseteq Clients

(* Nobody sees half a Stop: a pool that still calls itself active is not one  *)
(* whose context is done, and a warning about the context is a warning about *)
(* an inactive pool.                                                          *)
NoHalfStopIsSeen ==
    /\ \A r \in Readers : stats[r].contextDone => ~stats[r].active
    /\ "context" \in warned => "inactive" \in warned

(* When main says that all goroutines stopped gracefully the pool is stopped, *)
(* nobody is left to read it, and no request is accepted any more.  One may   *)
(* still be open: only if Shutdown has given up on it.                        *)
GracefulMeansQuiet ==
    ended = "graceful" =>
        /\ lock = {} /\ ~active
        /\ server \in {"closed", "abandoned"}
        /\ requests # {} => server = "abandoned"

(* Types, no half-done Stop in a report, a quiet graceful end. *)
ReportersInv == ReportersTypeOK /\ NoHalfStopIsSeen /\ GracefulMeansQuiet

(* A signalled consumer ends although its reporters take the lock Stop needs  *)
(* and one of them may wait for the broker.                                   *)
ShutdownCompletes == mainPc = "cancelled" ~> mainPc = "exited"
=============================================================================
