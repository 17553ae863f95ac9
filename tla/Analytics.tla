----------------------------- MODULE Analytics ------------------------------
(***************************************************************************)
(* internal/shared/analytics and the end of the process around it          *)
(* (cmd/web/main.go): request handlers capture events into a bounded       *)
(* queue, a worker sends them in batches, and when the process is told to  *)
(* stop the server drains, the queue is closed and what it holds is sent,  *)
(* each of them for a bounded time.                                        *)
(***************************************************************************)
EXTENDS Naturals, Sequences

CONSTANTS
    Requests,       \* requests, each with the one event it may capture
    QueueDepth,     \* queueDepth
    BatchSize       \* batchSize

ASSUME AnalyticsAssumption == QueueDepth \in Nat \ {0} /\ BatchSize \in Nat \ {0}

VARIABLES
    main,       \* where run is: serving, draining, flushing, closing, exited
    listening,  \* whether connections still bring requests
    handler,    \* where each request's handler is
    queue,      \* p.queue
    closed,     \* whether it was closed
    batch,      \* what the worker has taken and not sent
    worker,     \* where the worker is
    flushed,    \* what Close has answered
    \* History variables:
    accepted,   \* the events queued, in order
    posted      \* those handed to the endpoint, answered or given up

process == <<main, listening, flushed>>
vars == <<process, handler, queue, closed, batch, worker, accepted, posted>>

Init ==
    /\ main = "serving" /\ listening = TRUE /\ flushed = "not yet"
    /\ handler = [r \in Requests |-> "none"]
    /\ queue = <<>> /\ closed = FALSE /\ batch = <<>> /\ worker = "select"
    /\ accepted = <<>> /\ posted = <<>>

Alive == main # "exited"
Goto(r, label) == handler' = [handler EXCEPT ![r] = label]

-----------------------------------------------------------------------------
\* A request's handler.

Arrive(r) ==
    /\ Alive /\ listening /\ handler[r] = "none" /\ Goto(r, "running")
    /\ UNCHANGED <<process, queue, closed, batch, worker, accepted, posted>>

\* One that ends without anything to capture, or whose caller went away.
Finish(r) ==
    /\ Alive /\ handler[r] = "running" /\ Goto(r, "done")
    /\ UNCHANGED <<process, queue, closed, batch, worker, accepted, posted>>

\* The select of Capture: the channel takes the event, or it is dropped.
Queued(r) ==
    /\ IF Len(queue) < QueueDepth
       THEN queue' = Append(queue, r) /\ accepted' = Append(accepted, r)
       ELSE UNCHANGED <<queue, accepted>>
    /\ Goto(r, "done")

\* A send on a closed channel panics, and Recover answers 500 for the handler.
Panics(r) == Goto(r, "panicked") /\ UNCHANGED <<queue, accepted>>

Capture(r) ==
    /\ Alive /\ handler[r] = "running"
    /\ IF closed THEN Panics(r) ELSE Queued(r)
    /\ UNCHANGED <<process, closed, batch, worker, posted>>

-----------------------------------------------------------------------------
\* loop.  A closed channel still hands out what it holds.

Take ==
    /\ Alive /\ worker = "select" /\ queue # <<>>
    /\ queue' = Tail(queue) /\ batch' = Append(batch, Head(queue))
    /\ worker' = IF Len(batch') >= BatchSize THEN "send" ELSE "select"
    /\ UNCHANGED <<process, handler, closed, accepted, posted>>

\* Slip: only full batches are sent.
FullBatchesOnly ==
    /\ Alive /\ worker = "select" /\ Len(batch) >= BatchSize
    /\ worker' = "send"
    /\ UNCHANGED <<process, handler, queue, closed, batch, accepted, posted>>

FlushTick ==
    /\ Alive /\ worker = "select" /\ batch # <<>>
    /\ worker' = "send"
    /\ UNCHANGED <<process, handler, queue, closed, batch, accepted, posted>>

\* Slip: the batch goes with the worker.
StopsAtOnce ==
    /\ Alive /\ worker = "select" /\ closed /\ queue = <<>>
    /\ worker' = "stopped"
    /\ UNCHANGED <<process, handler, queue, closed, batch, accepted, posted>>

QueueClosed ==
    /\ Alive /\ worker = "select" /\ closed /\ queue = <<>>
    /\ worker' = IF batch = <<>> THEN "stopped" ELSE "last send"
    /\ UNCHANGED <<process, handler, queue, closed, batch, accepted, posted>>

\* Slip: the batch is not emptied.
Resent == batch

\* batch[:0], after a send.
Emptied == <<>>

\* send returns: answered, refused, failed or timed out.
Sent ==
    /\ Alive /\ worker \in {"send", "last send"}
    /\ posted' = posted \o batch /\ batch' = Emptied
    /\ worker' = IF worker = "send" THEN "select" ELSE "stopped"
    /\ UNCHANGED <<process, handler, queue, closed, accepted>>

-----------------------------------------------------------------------------
\* run, after a signal or an error of the listener, and its deferred calls.

Signal ==
    /\ main = "serving" /\ main' = "draining" /\ listening' = FALSE
    /\ UNCHANGED <<handler, queue, closed, batch, worker, flushed, accepted, posted>>

CloseQueue ==
    /\ main' = "flushing" /\ closed' = TRUE
    /\ UNCHANGED <<listening, handler, queue, batch, worker, flushed, accepted, posted>>

\* ListenAndServe fails: there is no Shutdown, and open connections go on.
ServeFails == main = "serving" /\ CloseQueue

\* srv.Shutdown: every handler is done, or ShutdownTimeout is over.
Drained == main = "draining" /\ (\A r \in Requests : handler[r] # "running") /\ CloseQueue
DrainTimeout == main = "draining" /\ CloseQueue

\* Close: the worker is done, or the five seconds are over.
Flushed ==
    /\ main = "flushing" /\ worker = "stopped"
    /\ main' = "closing" /\ flushed' = "nil"
    /\ UNCHANGED <<listening, handler, queue, closed, batch, worker, accepted, posted>>

\* Slip: the deadline is looked at only once the worker is done.
WaitsForWorker ==
    /\ main = "flushing" /\ worker = "stopped"
    /\ main' = "closing" /\ flushed' = "timed out"
    /\ UNCHANGED <<listening, handler, queue, closed, batch, worker, accepted, posted>>

FlushTimeout ==
    /\ main = "flushing"
    /\ main' = "closing" /\ flushed' = "timed out"
    /\ UNCHANGED <<listening, handler, queue, closed, batch, worker, accepted, posted>>

\* executor.Close and pool.Close, which waits for connections in use; then the
\* process is gone and every goroutine with it.
Exit ==
    /\ main = "closing" /\ main' = "exited"
    /\ UNCHANGED <<listening, handler, queue, closed, batch, worker, flushed, accepted, posted>>

Gone == main = "exited" /\ UNCHANGED vars

Next ==
    \/ \E r \in Requests : Arrive(r) \/ Finish(r) \/ Capture(r)
    \/ Take \/ FlushTick \/ QueueClosed \/ Sent
    \/ Signal \/ ServeFails \/ Drained \/ DrainTimeout \/ Flushed \/ FlushTimeout \/ Exit
    \/ Gone

\* The timers of main.go run out whatever the endpoint and the handlers do; the
\* worker runs, its ticker ticks, and a send gives up after sendTimeout.
Timers == WF_vars(DrainTimeout) /\ WF_vars(FlushTimeout)
Worker == WF_vars(Take) /\ WF_vars(FlushTick) /\ WF_vars(Sent)

Spec == Init /\ [][Next]_vars
FairSpec == Spec /\ Timers /\ Worker

-----------------------------------------------------------------------------
\* What analytics promises.

TypeOK ==
    /\ main \in {"serving", "draining", "flushing", "closing", "exited"}
    /\ listening \in BOOLEAN /\ closed \in BOOLEAN
    /\ handler \in [Requests -> {"none", "running", "done", "panicked"}]
    /\ worker \in {"select", "send", "last send", "stopped"}
    /\ flushed \in {"not yet", "nil", "timed out"}
    /\ queue \in Seq(Requests) /\ Len(queue) <= QueueDepth
    /\ batch \in Seq(Requests) /\ Len(batch) <= BatchSize
    /\ accepted \in Seq(Requests) /\ posted \in Seq(Requests)

\* Between the queue, the batch and the endpoint no event that was queued is
\* lost, sent twice or overtaken by a later one (posthog.go:82-108).
SentOnceInOrder == accepted = posted \o batch \o queue

\* A client is a queue that sends what it takes, once and in order: the events
\* that wait are those of the batch and then those of the channel
\* (posthog.go:50-170, analytics.go:1-35).
Client == INSTANCE EventQueue WITH Events <- Requests, waiting <- batch \o queue, sent <- posted
BestEffort == Client!Spec

\* "Close flushes what is queued": when it reports success, every event that was
\* ever queued was handed to the endpoint (posthog.go:70-71).
CloseFlushes == flushed = "nil" => posted = accepted

\* "A hung analytics endpoint must not be able to hold up the process's
\* shutdown", nor may a handler that never returns (main.go:114-120).
ShutdownGetsPastTheFlush ==
    main \in {"draining", "flushing"} ~> main \in {"closing", "exited"}

\* As long as the process runs, what was queued is sent soon, with or without
\* other events to fill its batch (posthog.go:101-105).
QueuedEventsLeave ==
    \A r \in Requests :
        (\E i \in DOMAIN accepted : accepted[i] = r) ~>
            \/ \E i \in DOMAIN posted : posted[i] = r
            \/ main \in {"closing", "exited"}

\* "Capture never blocks a request and never fails one" (analytics.go:4-5).
CaptureNeverFails == \A r \in Requests : handler[r] # "panicked"
=============================================================================
