--------------------------- MODULE ClickPipeline ---------------------------
(***************************************************************************)
(* GET /r/{slug}: redirects and their clicks.                              *)
(*                                                                         *)
(* A handler looks the link up, checks the target, offers the click to a   *)
(* bounded channel without ever waiting for it, and redirects.  One        *)
(* worker takes clicks off the channel and inserts them into               *)
(* click_events, with a timeout and no retry.  The timeout ends the call   *)
(* only: an INSERT that was sent may still take effect in the database.    *)
(* On SIGTERM main stops the HTTP server (waiting for handlers, but not    *)
(* for ever), closes the connection pool and exits; nobody drains the      *)
(* channel.                                                                *)
(***************************************************************************)
EXTENDS Naturals, Sequences, SequencesExt

CONSTANTS
    Visits,     \* redirect requests
    Capacity,   \* slots of the click channel (5000 in the code)
    NoVisit     \* the worker has no click in hand

ASSUME ClickPipelineAssumption ==
    /\ Capacity \in Nat \ {0}
    /\ NoVisit \notin Visits

VARIABLES
    pc,         \* where each handler is, or its answer
    clickChan,  \* the buffered channel
    worker,     \* where the click worker is
    task,       \* the click the worker has in hand
    clicks,     \* rows of click_events, in insertion order
    abandoned,  \* clicks whose INSERT was sent, and whose call has ended before it
    main,       \* where the shutdown sequence of main is
    forced,     \* server.Shutdown gave up on a handler
    accepted    \* history: clicks that entered the channel, in order

vars == <<pc, clickChan, worker, task, clicks, abandoned, main, forced, accepted>>

processVars == <<main, forced>>
databaseVars == <<clicks, abandoned>>
workerVars == <<clickChan, worker, task, databaseVars>>

-----------------------------------------------------------------------------

Stages  == {"resolving", "found", "cleared", "answering"}
Answers == {"redirected", "notfound", "blocked", "lost"}

TypeOK ==
    /\ pc \in [Visits -> {"idle"} \cup Stages \cup Answers]
    /\ clickChan \in Seq(Visits) /\ Len(clickChan) <= Capacity
    /\ worker \in {"waiting", "taken", "executing", "stored"}
    /\ task \in Visits \cup {NoVisit}
    /\ task = NoVisit <=> worker = "waiting"
    /\ clicks \in Seq(Visits)
    /\ abandoned \subseteq Visits
    /\ main \in {"running", "draining", "stopped", "closed", "exited", "killed"}
    /\ forced \in BOOLEAN
    /\ accepted \in Seq(Visits)

Init ==
    /\ pc = [v \in Visits |-> "idle"]
    /\ clickChan = <<>>
    /\ worker = "waiting"
    /\ task = NoVisit
    /\ clicks = <<>>
    /\ abandoned = {}
    /\ main = "running" /\ forced = FALSE
    /\ accepted = <<>>

Goto(v, stage) == pc' = [pc EXCEPT ![v] = stage]

Alive == main \notin {"exited", "killed"}
PoolOpen == main \in {"running", "draining", "stopped"}

-----------------------------------------------------------------------------
(* The handler *)

\* Mutant: the listener stays open while main shuts down.
AlwaysListening == Alive

Listening == main = "running"

\* The server accepts a connection with its request, until Shutdown closes the listener.
Receive(v) ==
    /\ Listening /\ pc[v] = "idle"
    /\ Goto(v, "resolving")
    /\ UNCHANGED <<workerVars, processVars, accepted>>

\* GetActiveLinkBySlug: no such link, not active, expired and a database error all
\* end in 404.
Lookup(v) ==
    /\ Alive /\ pc[v] = "resolving"
    /\ \/ PoolOpen /\ Goto(v, "found")
       \/ Goto(v, "notfound")
    /\ UNCHANGED <<workerVars, processVars, accepted>>

\* Mutant: the click is sent before the target is checked.
EnqueueFirst(v) ==
    /\ Alive /\ pc[v] = "found"
    /\ Len(clickChan) < Capacity
    /\ clickChan' = Append(clickChan, v)
    /\ accepted' = Append(accepted, v)
    /\ Goto(v, "answering") \/ Goto(v, "blocked")
    /\ UNCHANGED <<worker, task, databaseVars, processVars>>

\* isTargetBlocked.
CheckTarget(v) ==
    /\ Alive /\ pc[v] = "found"
    /\ Goto(v, "cleared") \/ Goto(v, "blocked")
    /\ UNCHANGED <<workerVars, processVars, accepted>>

\* Mutant: the send has no default branch.
NeverDrop == FALSE

\* The default branch of the select.
Drop == Len(clickChan) = Capacity /\ UNCHANGED <<clickChan, accepted>>

\* The select: send when there is a free slot, otherwise drop the click.
Enqueue(v) ==
    /\ Alive /\ pc[v] = "cleared"
    /\ \/ /\ Len(clickChan) < Capacity
          /\ clickChan' = Append(clickChan, v)
          /\ accepted' = Append(accepted, v)
       \/ Drop
    /\ Goto(v, "answering")
    /\ UNCHANGED <<worker, task, databaseVars, processVars>>

Redirect(v) ==
    /\ Alive /\ pc[v] = "answering"
    /\ Goto(v, "redirected")
    /\ UNCHANGED <<workerVars, processVars, accepted>>

-----------------------------------------------------------------------------
(* The worker *)

\* The next iteration of "for task := range s.clickChan".
TakeTask ==
    /\ Alive /\ worker = "waiting" /\ clickChan # <<>>
    /\ worker' = "taken"
    /\ task' = Head(clickChan)
    /\ clickChan' = Tail(clickChan)
    /\ UNCHANGED <<pc, databaseVars, processVars, accepted>>

\* RecordClickEvent gets a connection of the pool and sends the INSERT.
AcquireConn ==
    /\ PoolOpen /\ worker = "taken"
    /\ worker' = "executing"
    /\ UNCHANGED <<pc, clickChan, task, databaseVars, processVars, accepted>>

\* The INSERT takes effect in the database while its call lasts.
StoreClick ==
    /\ Alive /\ worker = "executing"
    /\ worker' = "stored"
    /\ clicks' = Append(clicks, task)
    /\ UNCHANGED <<pc, clickChan, task, abandoned, processVars, accepted>>

\* Mutant: a click whose acknowledgement timed out is put back on the channel.
Requeue == clickChan' \in {clickChan, Append(clickChan, task)}

\* What becomes of a click whose insert returned an error: it is only logged.
Forget == UNCHANGED clickChan

\* Mutant: the INSERT runs without a timeout.
OnlyAnswers == worker \in {"taken", "stored"}

\* The context of five seconds ends a call in whatever state it is.
MayReturn == worker # "waiting"

\* Whoever stops waiting for an INSERT leaves it dead, or still at work in the database.
GiveUp ==
    \/ UNCHANGED abandoned
    \/ worker = "executing" /\ abandoned' = abandoned \cup {task}

\* The call returns: acknowledged, or with an error that is only logged (no connection,
\* pool closed, 5 s timeout, lost acknowledgement of a stored row).  No retry.
FinishTask ==
    /\ Alive /\ MayReturn
    /\ worker' = "waiting"
    /\ task' = NoVisit
    /\ Forget
    /\ GiveUp
    /\ UNCHANGED <<pc, clicks, processVars, accepted>>

-----------------------------------------------------------------------------
(* The database *)

\* An INSERT whose call has ended takes effect, whatever the worker does by now and even
\* if the process is gone; or it never does, because it failed or was cancelled.
LandLate(v) ==
    /\ v \in abandoned
    /\ abandoned' = abandoned \ {v}
    /\ clicks' = Append(clicks, v)
    /\ UNCHANGED <<pc, clickChan, worker, task, processVars, accepted>>

-----------------------------------------------------------------------------
(* The process *)

\* SIGTERM: server.Shutdown closes the listener.
Signal ==
    /\ main = "running"
    /\ main' = "draining"
    /\ UNCHANGED <<pc, workerVars, forced, accepted>>

\* server.Shutdown returns: every handler has answered, or ten seconds are over and
\* handlers go on in the background.
StopServer ==
    /\ main = "draining"
    /\ main' = "stopped"
    /\ forced' = \E v \in Visits : pc[v] \in Stages
    /\ UNCHANGED <<pc, workerVars, accepted>>

\* dbPool.Close waits for the connection the worker holds.
ClosePool ==
    /\ main = "stopped" /\ worker \in {"waiting", "taken"}
    /\ main' = "closed"
    /\ UNCHANGED <<pc, workerVars, forced, accepted>>

\* Whatever main has reached, the process and its memory are gone; an INSERT it has sent
\* may be still at work.
End(how) ==
    /\ main' = how
    /\ pc' = [v \in Visits |-> IF pc[v] \in Stages THEN "lost" ELSE pc[v]]
    /\ clickChan' = <<>>
    /\ worker' = "waiting"
    /\ task' = NoVisit
    /\ GiveUp
    /\ UNCHANGED <<clicks, forced, accepted>>

\* main returns.
Exit == main = "closed" /\ End("exited")

\* The process is killed, or crashes, at any moment.
Kill == Alive /\ End("killed")

HandlerStep(v) == Lookup(v) \/ CheckTarget(v) \/ Enqueue(v) \/ Redirect(v)

WorkerStep == TakeTask \/ AcquireConn \/ StoreClick \/ FinishTask

Next ==
    \/ \E v \in Visits : Receive(v) \/ HandlerStep(v) \/ LandLate(v)
    \/ WorkerStep
    \/ Signal \/ StopServer \/ ClosePool \/ Exit \/ Kill

Spec == Init /\ [][Next]_vars

\* Goroutines run, and the database answers the handlers' reads.
HandlersRun == \A v \in Visits : WF_vars(HandlerStep(v))

\* The worker's goroutine runs, and its context ends every call after five seconds.
\* Nothing says that the database stores a click.
WorkerRuns == WF_vars(TakeTask) /\ WF_vars(FinishTask)

\* Only the handlers run: the worker may be stuck for ever.
HandlersSpec == Spec /\ HandlersRun

-----------------------------------------------------------------------------

\* The clicks in the channel and, if it is not stored yet, the one in hand.
Pending == (IF worker \in {"taken", "executing"} THEN <<task>> ELSE <<>>) \o clickChan

\* No click of a visit that was answered 404 or refused as blocked ever enters the
\* channel or the table, and none of a visit still being checked; and the channel is
\* never longer than its capacity (service.go:109, 226-243).
OnlyRedirectsCount ==
    /\ TypeOK
    /\ \A v \in ToSet(accepted) \cup ToSet(clicks) \cup abandoned :
        pc[v] \in {"answering", "redirected", "lost"}

\* A visit is answered without any help from the worker, even when the channel is full
\* and the worker hangs in the database, unless the process ends (service.go:236-240).
RedirectsNeverWait ==
    \A v \in Visits : pc[v] = "resolving" ~> pc[v] \in Answers

\* While the process lives, every accepted click leaves the channel and the worker's
\* hands: a failing or hanging database cannot stop the queue (service.go:121-130).
ClicksAreSettled ==
    WorkerRuns => \A v \in Visits : v \in ToSet(Pending) ~> v \notin ToSet(Pending)

\* The handlers, the channel, the worker and the database implement the lossy log: a click
\* is written at most once, also when its INSERT outlives its call, which has timed out, or
\* the process; and the clicks that are stored while their calls last are written in the
\* order in which they entered the channel, gaps allowed (service.go:121-130).
Log == INSTANCE ClickLog WITH pending <- Pending, late <- abandoned, log <- clicks
ImplementsLog == Log!Spec

\* Handlers and main implement what the server promises: no redirect is taken once the
\* shutdown has begun, and one that was taken is broken only by the end of the process
\* (main.go:235-250).
Lifecycle == INSTANCE Lifecycle WITH
    Requests <- Visits,
    phase <- CASE ~Alive            -> "down"
               [] main = "running"  -> "serving"
               [] main = "draining" -> "stopping"
               [] OTHER             -> "stopped",
    fate  <- [v \in Visits |->
                CASE pc[v] = "idle"   -> "new"
                  [] pc[v] \in Stages -> "open"
                  [] pc[v] = "lost"   -> "broken"
                  [] OTHER            -> "answered"]
ImplementsLifecycle == Lifecycle!Spec
=============================================================================
