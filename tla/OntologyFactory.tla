--------------------------- MODULE OntologyFactory ---------------------------
(***************************************************************************)
(* OntologyEventFactory, its SyncWorker thread and the sinks they write    *)
(* to.  Two threads take rows from the outbox: the worker, and, in stop(), *)
(* the main thread, which drains the outbox before it tells the worker to  *)
(* end.  Each thread reads a batch, writes its events to the sinks one at  *)
(* a time and marks each row, with nothing held between these steps.       *)
(*                                                                         *)
(*   worker: loop - fetch - item - dispatch - synced | failed - recheck    *)
(*   main:   running - fetch - health - item - dispatch - synced | failed  *)
(*           - join - stopped                                              *)
(***************************************************************************)
EXTENDS Outbox, MultiSink

CONSTANTS
  MaxFaults,  \* bound: database calls that raise
  MaxStarts   \* bound: starts of the process

ASSUME FactoryAssumption ==
  /\ Poison \subseteq Event
  /\ {MaxFaults, MaxStarts} \subseteq Nat

VARIABLES
  wpc,        \* the worker, "off" when the thread does not run
  wbatch,     \* the items of the worker's batch it has not reached
  witem,      \* the item the worker is at
  wcall,      \* its call of the sinks
  mpc,        \* the main thread, "down" when the process does not run
  mbatch,     \* the same for the main thread
  mitem,
  mcall,
  stopEvent,  \* SyncWorker._stop_event
  starts,     \* how often the process was started
  faults      \* how many database calls have raised

workerVars == <<wpc, wbatch, witem, wcall>>
mainVars == <<mpc, mbatch, mitem, mcall>>
vars == <<outboxVars, workerVars, mainVars, stopEvent, starts, faults, sinkVars>>

NoItem == [row |-> 0]

Init ==
  /\ OutboxInit
  /\ SinksInit
  /\ wpc = "off" /\ wbatch = {} /\ witem = NoItem /\ wcall = FirstCall
  /\ mpc = "down" /\ mbatch = {} /\ mitem = NoItem /\ mcall = FirstCall
  /\ stopEvent = FALSE
  /\ starts = 0
  /\ faults = 0

-----------------------------------------------------------------------------
(* The process and its environment *)

\* The factory is built and start() spawns the worker.
Start ==
  /\ mpc = "down"
  /\ starts < MaxStarts
  /\ starts' = starts + 1
  /\ mpc' = "running"
  /\ wpc' = "loop"
  /\ stopEvent' = FALSE
  /\ UNCHANGED <<outboxVars, wbatch, witem, wcall, mbatch, mitem, mcall, faults, sinkVars>>

\* The process ends: a crash, or its exit after stop() has returned, which
\* takes the daemon thread with it.
Exit ==
  /\ mpc # "down"
  /\ mpc' = "down" /\ mbatch' = {} /\ mitem' = NoItem /\ mcall' = FirstCall
  /\ wpc' = "off" /\ wbatch' = {} /\ witem' = NoItem /\ wcall' = FirstCall
  /\ UNCHANGED <<outboxVars, stopEvent, starts, faults, sinkVars>>

\* emit_observation, emit_track and emit_health: a row, and nothing else.
Emit(e) ==
  /\ mpc = "running"
  /\ Insert(e)
  /\ UNCHANGED <<workerVars, mainVars, stopEvent, starts, faults, sinkVars>>

SinkToggles(s) ==
  /\ sinksUp' = IF s \in sinksUp THEN sinksUp \ {s} ELSE sinksUp \cup {s}
  /\ UNCHANGED <<outboxVars, workerVars, mainVars, stopEvent, starts, faults, delivered>>

ClockTick(e) ==
  /\ BackoffElapses(e)
  /\ UNCHANGED <<workerVars, mainVars, stopEvent, starts, faults, sinkVars>>

\* A call to the database raises: it is locked, or its disk is full.
CallRaises == faults < MaxFaults /\ faults' = faults + 1

-----------------------------------------------------------------------------
(* SyncWorker.run *)

\* The loop's head: stop, sleep while the sink is unreachable, or go on.
WorkerLoop ==
  /\ wpc = "loop"
  /\ wpc' = IF stopEvent THEN "off" ELSE IF Healthy THEN "fetch" ELSE "loop"
  /\ UNCHANGED <<outboxVars, wbatch, witem>>

WorkerFetch ==
  /\ wpc = "fetch"
  /\ wbatch' = Batch
  /\ wpc' = IF Batch = {} THEN "loop" ELSE "item"
  /\ UNCHANGED <<outboxVars, witem>>

\* for item in batch: leave the batch when it is done or stop was requested.
WorkerItem ==
  /\ wpc = "item"
  /\ \/ /\ wbatch = {} \/ stopEvent
        /\ wpc' = "loop" /\ wbatch' = {}
        /\ UNCHANGED witem
     \/ /\ ~stopEvent
        /\ \E item \in Oldest(wbatch) : witem' = item /\ wbatch' = wbatch \ {item}
        /\ wpc' = "dispatch"
  /\ UNCHANGED outboxVars

\* _dispatch writes the event to the next sink; after the last one it returns
\* or raises.
WorkerDispatch ==
  /\ wpc = "dispatch"
  /\ WriteOne(wcall, witem.event)
  /\ IF MoreSinks(wcall, witem.event)
     THEN wcall' = NextCall(wcall, witem.event) /\ UNCHANGED wpc
     ELSE /\ wpc' = IF Raises(wcall, witem.event) THEN "failed" ELSE "synced"
          /\ wcall' = FirstCall
  /\ UNCHANGED <<outboxVars, wbatch, witem>>

WorkerMarkSynced ==
  /\ wpc = "synced"
  /\ MarkSynced(witem)
  /\ wpc' = "item" /\ witem' = NoItem
  /\ UNCHANGED wbatch

WorkerMarkRetry ==
  /\ wpc = "failed"
  /\ MarkRetry(witem)
  /\ wpc' = "recheck" /\ witem' = NoItem
  /\ UNCHANGED wbatch

\* After a failure: drop the batch if the sink has become unreachable.
WorkerRecheck ==
  /\ wpc = "recheck"
  /\ IF Healthy
     THEN wpc' = "item" /\ UNCHANGED wbatch
     ELSE wpc' = "loop" /\ wbatch' = {}
  /\ UNCHANGED <<outboxVars, witem>>

\* mark_synced raises: handled as a failed dispatch.  fetch_unsynced or
\* mark_retry raises: the outer handler drops the batch.
WorkerDbFault ==
  /\ CallRaises
  /\ \/ wpc = "synced" /\ wpc' = "failed" /\ UNCHANGED <<wbatch, witem>>
     \/ wpc \in {"fetch", "failed"} /\ wpc' = "loop" /\ wbatch' = {} /\ witem' = NoItem
  /\ UNCHANGED outboxVars

WorkerStep ==
  \/ WorkerLoop
  \/ WorkerFetch
  \/ WorkerItem
  \/ WorkerMarkSynced
  \/ WorkerMarkRetry
  \/ WorkerRecheck

Worker ==
  /\ \/ WorkerDispatch /\ UNCHANGED faults
     \/ WorkerStep /\ UNCHANGED <<wcall, delivered, faults>>
     \/ WorkerDbFault /\ UNCHANGED <<wcall, delivered>>
  /\ UNCHANGED <<mainVars, stopEvent, starts, sinksUp>>

-----------------------------------------------------------------------------
(* OntologyEventFactory.stop, on the main thread *)

CallStop ==
  /\ mpc = "running"
  /\ mpc' = "fetch"
  /\ UNCHANGED <<outboxVars, mbatch, mitem, stopEvent>>

DrainFetch ==
  /\ mpc = "fetch"
  /\ mbatch' = Batch
  /\ mpc' = IF Batch = {} THEN "join" ELSE "health"
  /\ UNCHANGED <<outboxVars, mitem, stopEvent>>

DrainHealth ==
  /\ mpc = "health"
  /\ IF Healthy
     THEN mpc' = "item" /\ UNCHANGED mbatch
     ELSE mpc' = "join" /\ mbatch' = {}
  /\ UNCHANGED <<outboxVars, mitem, stopEvent>>

DrainItem ==
  /\ mpc = "item"
  /\ \/ mbatch = {} /\ mpc' = "fetch" /\ UNCHANGED <<mbatch, mitem>>
     \/ /\ \E item \in Oldest(mbatch) : mitem' = item /\ mbatch' = mbatch \ {item}
        /\ mpc' = "dispatch"
  /\ UNCHANGED <<outboxVars, stopEvent>>

DrainDispatch ==
  /\ mpc = "dispatch"
  /\ WriteOne(mcall, mitem.event)
  /\ IF MoreSinks(mcall, mitem.event)
     THEN mcall' = NextCall(mcall, mitem.event) /\ UNCHANGED mpc
     ELSE /\ mpc' = IF Raises(mcall, mitem.event) THEN "failed" ELSE "synced"
          /\ mcall' = FirstCall
  /\ UNCHANGED <<outboxVars, mbatch, mitem, stopEvent>>

DrainMarkSynced ==
  /\ mpc = "synced"
  /\ MarkSynced(mitem)
  /\ mpc' = "item" /\ mitem' = NoItem
  /\ UNCHANGED <<mbatch, stopEvent>>

\* The first failure drops the rest of the batch.
DrainMarkRetry ==
  /\ mpc = "failed"
  /\ MarkRetry(mitem)
  /\ mpc' = "fetch" /\ mbatch' = {} /\ mitem' = NoItem
  /\ UNCHANGED stopEvent

\* As for the worker, except that the outer handler ends the drain.
DrainDbFault ==
  /\ CallRaises
  /\ \/ mpc = "synced" /\ mpc' = "failed" /\ UNCHANGED <<mbatch, mitem>>
     \/ mpc \in {"fetch", "failed"} /\ mpc' = "join" /\ mbatch' = {} /\ mitem' = NoItem
  /\ UNCHANGED <<outboxVars, stopEvent>>

\* The worker is told to stop only now.
RequestStop ==
  /\ mpc = "join"
  /\ ~stopEvent
  /\ stopEvent' = TRUE
  /\ UNCHANGED <<outboxVars, mpc, mbatch, mitem>>

\* join(timeout=5.0) returns when the worker has ended, or at the timeout.
Joined ==
  /\ mpc = "join"
  /\ stopEvent
  /\ mpc' = "stopped"
  /\ UNCHANGED <<outboxVars, mbatch, mitem, stopEvent>>

DrainStep ==
  \/ DrainFetch
  \/ DrainHealth
  \/ DrainItem
  \/ DrainMarkSynced
  \/ DrainMarkRetry
  \/ RequestStop
  \/ Joined

Drain ==
  /\ \/ DrainDispatch /\ UNCHANGED faults
     \/ DrainStep /\ UNCHANGED <<mcall, delivered, faults>>
     \/ DrainDbFault /\ UNCHANGED <<mcall, delivered>>
  /\ UNCHANGED <<workerVars, starts, sinksUp>>

StopCalled == CallStop /\ UNCHANGED <<workerVars, mcall, starts, faults, sinkVars>>

-----------------------------------------------------------------------------
Next ==
  \/ Start
  \/ Exit
  \/ \E e \in Event : Emit(e)
  \/ \E e \in Event : ClockTick(e)
  \/ \E s \in Sink : SinkToggles(s)
  \/ Worker
  \/ StopCalled
  \/ Drain

Spec == Init /\ [][Next]_vars

\* Both threads are scheduled, and clocks advance.  Nothing is assumed of
\* emits, crashes, restarts, stop() or the sinks.
Fairness ==
  /\ WF_vars(Worker)
  /\ WF_vars(Drain)
  /\ \A e \in Event : WF_vars(ClockTick(e))

FairSpec == Spec /\ Fairness

-----------------------------------------------------------------------------
UniqueRows == \A i, j \in 1 .. Len(queue) : queue[i] = queue[j] => i = j

\* Each variable has its type, and no event has two rows.
TypeOK ==
  /\ queue \in Seq(Event)
  /\ UniqueRows
  /\ synced \subseteq Event
  /\ retry \in [Event -> 0 .. MaxRetry]
  /\ waiting \subseteq Event
  /\ wpc \in {"off", "loop", "fetch", "item", "dispatch", "synced", "failed", "recheck"}
  /\ wbatch \subseteq Item
  /\ witem \in Item \cup {NoItem}
  /\ wcall \in Call
  /\ mpc \in {"down", "running", "fetch", "health", "item", "dispatch", "synced",
              "failed", "join", "stopped"}
  /\ mbatch \subseteq Item
  /\ mitem \in Item \cup {NoItem}
  /\ mcall \in Call
  /\ stopEvent \in BOOLEAN
  /\ starts \in 0 .. MaxStarts
  /\ faults \in 0 .. MaxFaults
  /\ sinksUp \subseteq Sink
  /\ delivered \in [Sink -> Seq(Event)]

\* Outbox: a row counts as synced only when its event is in some sink, so that
\* no crash, restart, sink failure or race of the two threads loses an event.
SyncedImpliesDelivered == synced \subseteq Delivered

\* MultiSink, "failures in one sink don't block the others": a sink that is
\* always up has every event that counts as synced, whatever the others do.
SteadyHasAll == \A s \in Sink : [](s \in sinksUp) => [](synced \subseteq DeliveredTo(s))

Copies(s, e) == Cardinality({i \in 1 .. Len(delivered[s]) : delivered[s][i] = e})

\* SyncWorker and stop(): in each run of the process the worker and the drain
\* each deliver an event to a sink at most once, however they interleave and
\* retry, and each database call that raises adds at most one delivery.
CopiesBounded ==
  \A s \in Sink, e \in Event : Copies(s, e) <= 2 * starts + faults

\* SyncWorker alone, in a process that has not called stop(), delivers an event
\* once, and again only when the database fails to mark it.
OnceBeforeStop ==
  starts = 1 /\ mpc = "running" => \A s \in Sink, e \in Event : Copies(s, e) <= 1 + faults

\* "When network restored, drain queue oldest-first", as far as the backoff lets
\* it: a younger event reaches a sink first only if the older one has failed.
OvertakenOnlyIfFailed ==
  \A i, j \in 1 .. Len(queue) :
    i < j /\ queue[j] \in Delivered
      => queue[i] \in Delivered \/ retry[queue[i]] > 0

\* SyncWorker: once a sink stays reachable and the process stays up, every event
\* that can be delivered is delivered and marked, though other sinks fail and
\* events that can never be delivered are retried for ever beside it.
PendingDelivered ==
  (\E s \in Sink : <>[](s \in sinksUp)) /\ <>[](mpc = "running")
    => \A e \in Event \ Poison : e \in Queued ~> e \in synced

\* OntologyEventFactory.stop: the drain ends and stop() returns, unless backoffs
\* keep running out while it drains.
StopReturns ==
  <>[][waiting \subseteq waiting']_waiting
    => (mpc = "fetch" ~> mpc \in {"stopped", "down"})
=============================================================================
