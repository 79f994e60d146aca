----------------------------- MODULE Publisher -----------------------------
(***************************************************************************)
(* cmd/publisher/main.go after its set-up: publishTestEvents, which main   *)
(* runs itself with -cli, and publishEvents, a goroutine that publishes on *)
(* every tick until main, on a signal, hands it a value on stopChan.  An   *)
(* event is its number: eventCounter, or the index of the test event.      *)
(***************************************************************************)
EXTENDS Integers, Sequences

CONSTANTS
    Modes,       \* subset of {"cli", "continuous"}
    TestEvents,  \* number of eventTypes, 5 in the code
    MaxCounter   \* bound on eventCounter for model checking

ASSUME BoundsAssumption == TestEvents \in Nat /\ MaxCounter \in Nat

VARIABLES
    mode,     \* the -cli flag
    main,     \* "running", "stopping" (at stopChan <- true), "closing", "exited"
    pub,      \* the publishing loop: "idle", "publishing", "sent", "stopped"
    tick,     \* ticker.C holds a tick; it has room for one
    number,   \* eventCounter, or i + 1
    arrived,  \* the numbers the broker has received, in order
    linked    \* the connection is alive; the program never dials again

publisherVars == <<mode, main, pub, tick, number, arrived, linked>>

PublisherInit ==
    /\ mode \in Modes /\ main = "running" /\ pub = "idle"
    /\ tick = FALSE /\ number = 1 /\ arrived = <<>> /\ linked = TRUE

-----------------------------------------------------------------------------
Tick_TimerOnly ==
    /\ mode = "continuous" /\ main # "exited" /\ ~tick /\ number = 1 /\ tick' = TRUE
    /\ UNCHANGED <<mode, main, pub, number, arrived, linked>>
Tick ==
    /\ mode = "continuous" /\ main # "exited" /\ ~tick /\ tick' = TRUE
    /\ UNCHANGED <<mode, main, pub, number, arrived, linked>>

\* The next round: a tick received in the select, or the loop over eventTypes.
NextEvent ==
    /\ pub = "idle" /\ pub' = "publishing"
    /\ IF mode = "cli" THEN number <= TestEvents ELSE tick /\ number <= MaxCounter
    /\ tick' = FALSE
    /\ UNCHANGED <<mode, main, number, arrived, linked>>

(* PublishEventMessage. *)
Arrive ==
    /\ pub = "publishing" /\ linked
    /\ arrived' = Append(arrived, number) /\ pub' = "sent"
    /\ UNCHANGED <<mode, main, tick, number, linked>>

\* It returns nil: the event was sent, or the loss is not noticed yet.
Published ==
    /\ pub = "sent" \/ (pub = "publishing" /\ ~linked)
    /\ pub' = "idle" /\ number' = number + 1
    /\ UNCHANGED <<mode, main, tick, arrived, linked>>

\* It returns an error: both loops continue, eventCounter stays.
PublishFailed_Returns ==
    /\ pub \in {"publishing", "sent"} /\ ~linked
    /\ pub' = "stopped" /\ UNCHANGED <<mode, main, tick, number, arrived, linked>>
PublishFailed ==
    /\ pub \in {"publishing", "sent"} /\ ~linked
    /\ pub' = "idle"
    /\ number' = IF mode = "cli" THEN number + 1 ELSE number
    /\ UNCHANGED <<mode, main, tick, arrived, linked>>

-----------------------------------------------------------------------------
(* main. *)
Signal ==
    /\ mode = "continuous" /\ main = "running" /\ main' = "stopping"
    /\ UNCHANGED <<mode, pub, tick, number, arrived, linked>>

\* stopChan has no room: main goes on when the loop is back in its select.
Stop_Buffered ==
    /\ main = "stopping" /\ main' = "closing"
    /\ pub' = IF pub = "idle" THEN "stopped" ELSE pub
    /\ UNCHANGED <<mode, tick, number, arrived, linked>>
Stop ==
    /\ main = "stopping" /\ pub = "idle"
    /\ main' = "closing" /\ pub' = "stopped"
    /\ UNCHANGED <<mode, tick, number, arrived, linked>>

TestEventsDone ==
    /\ mode = "cli" /\ pub = "idle" /\ number > TestEvents
    /\ main' = "closing" /\ pub' = "stopped"
    /\ UNCHANGED <<mode, tick, number, arrived, linked>>

\* The deferred queueManager.Close, and the end of main and its goroutine.
Close ==
    /\ main = "closing" /\ main' = "exited" /\ linked' = FALSE /\ pub' = "stopped"
    /\ UNCHANGED <<mode, tick, number, arrived>>

\* A kill; in CLI mode also a signal, for which there is no handler.
Die ==
    /\ main # "exited" /\ main' = "exited" /\ linked' = FALSE /\ pub' = "stopped"
    /\ UNCHANGED <<mode, tick, number, arrived>>

LinkLost ==
    /\ linked /\ linked' = FALSE
    /\ UNCHANGED <<mode, main, pub, tick, number, arrived>>

Exited == main = "exited" /\ UNCHANGED publisherVars

PublishLoop == NextEvent \/ Arrive \/ Published \/ PublishFailed

PublisherNext ==
    \/ Tick \/ PublishLoop
    \/ Signal \/ Stop \/ TestEventsDone \/ Close \/ Die
    \/ LinkLost \/ Exited

\* Publish returns; the select of the loop picks at random among the cases that
\* are ready, so that it does not prefer the ticker for ever.
PublisherFairness ==
    /\ WF_publisherVars(Tick) /\ WF_publisherVars(PublishLoop)
    /\ SF_publisherVars(Stop) /\ WF_publisherVars(TestEventsDone) /\ WF_publisherVars(Close)

PublisherSpec     == PublisherInit /\ [][PublisherNext]_publisherVars
PublisherFairSpec == PublisherSpec /\ PublisherFairness

-----------------------------------------------------------------------------
(* Type invariant. *)
PublisherTypeOK ==
    /\ mode \in Modes /\ main \in {"running", "stopping", "closing", "exited"}
    /\ pub \in {"idle", "publishing", "sent", "stopped"}
    /\ tick \in BOOLEAN /\ linked \in BOOLEAN
    /\ number \in 1 .. 1 + (IF mode = "cli" THEN TestEvents ELSE MaxCounter)

(* The connection is closed only when the loop has ended: a shutdown never   *)
(* cuts a publication.                                                       *)
CloseAfterLastPublish == main = "closing" => pub = "stopped"

(* The broker receives 1, 2, 3, ... without a gap or a repetition, although  *)
(* the counter stays on an error and an event whose publication failed may   *)
(* have arrived.                                                             *)
ArrivedIsPrefix ==
    /\ \A i \in DOMAIN arrived : arrived[i] = i
    /\ Len(arrived) <= number

(* Types, order of the events and of the shutdown. *)
PublisherInv == PublisherTypeOK /\ CloseAfterLastPublish /\ ArrivedIsPrefix

(* A signalled publisher ends and a CLI run ends, with or without a          *)
(* connection, however the ticks fall.                                       *)
PublisherEnds ==
    /\ main = "stopping" ~> main = "exited"
    /\ mode = "cli" ~> main = "exited"

(* While it is connected and not told to stop, the loop goes on to the next  *)
(* number.                                                                   *)
EventsKeepComing ==
    \A n \in 1 .. MaxCounter :
        number = n ~> number > n \/ ~linked \/ main # "running"
=============================================================================
