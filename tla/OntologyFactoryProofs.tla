----------------------- MODULE OntologyFactoryProofs -----------------------
(***************************************************************************)
(* Theorems about OntologyFactory, for every set of events, every batch    *)
(* size and every number of sinks and of restarts, with and without        *)
(* database faults.                                                        *)
(***************************************************************************)
EXTENDS OntologyFactory, FiniteSetTheorems, TLAPS

(* TypeOK by the variables' owners, that a thread which is past the choice  *)
(* of an item has one, and that no call has more errors than sinks behind   *)
(* it.                                                                      *)

CallTyped(call) == call \in Call /\ call.errors < call.sink

OutboxTyped ==
  /\ queue \in Seq(Event)
  /\ UniqueRows
  /\ synced \subseteq Event
  /\ retry \in [Event -> 0 .. MaxRetry]
  /\ waiting \subseteq Event

WorkerTyped ==
  /\ wpc \in {"off", "loop", "fetch", "item", "dispatch", "synced", "failed", "recheck"}
  /\ wbatch \subseteq Item
  /\ witem \in Item \cup {NoItem}
  /\ CallTyped(wcall)
  /\ wpc \in {"dispatch", "synced", "failed"} => witem \in Item

MainTyped ==
  /\ mpc \in {"down", "running", "fetch", "health", "item", "dispatch", "synced",
              "failed", "join", "stopped"}
  /\ mbatch \subseteq Item
  /\ mitem \in Item \cup {NoItem}
  /\ CallTyped(mcall)
  /\ mpc \in {"dispatch", "synced", "failed"} => mitem \in Item

RestTyped ==
  /\ stopEvent \in BOOLEAN
  /\ starts \in 0 .. MaxStarts
  /\ faults \in 0 .. MaxFaults
  /\ sinksUp \subseteq Sink
  /\ delivered \in [Sink -> Seq(Event)]

TypeInv == OutboxTyped /\ WorkerTyped /\ MainTyped /\ RestTyped

LEMMA TypeParts == TypeInv => TypeOK
  BY DEF TypeInv, OutboxTyped, WorkerTyped, MainTyped, RestTyped, CallTyped, TypeOK

\* What a step leaves alone keeps its type.
LEMMA Frames ==
  /\ OutboxTyped /\ UNCHANGED outboxVars => OutboxTyped'
  /\ WorkerTyped /\ UNCHANGED workerVars => WorkerTyped'
  /\ MainTyped /\ UNCHANGED mainVars => MainTyped'
<1>1. OutboxTyped /\ UNCHANGED outboxVars => OutboxTyped'
  <2>1. UniqueRows /\ UNCHANGED queue => UniqueRows'
    BY DEF UniqueRows
  <2>2. QED
    BY <2>1 DEF OutboxTyped, outboxVars
<1>2. WorkerTyped /\ UNCHANGED workerVars => WorkerTyped'
  BY DEF WorkerTyped, workerVars
<1>3. MainTyped /\ UNCHANGED mainVars => MainTyped'
  BY DEF MainTyped, mainVars
<1>4. QED
  BY <1>1, <1>2, <1>3

\* fetch_unsynced returns items.
LEMMA BatchType ==
  ASSUME OutboxTyped
  PROVE  Batch \subseteq Item
<1> SUFFICES ASSUME NEW i \in 1 .. Len(queue)
             PROVE  [row |-> i, event |-> queue[i], retry |-> retry[queue[i]]] \in Item
  BY DEF Batch, DueRows
<1>1. queue[i] \in Event
  BY DEF OutboxTyped
<1>2. retry[queue[i]] \in 0 .. MaxRetry
  BY <1>1 DEF OutboxTyped
<1>3. i \in Nat \ {0}
  BY DEF OutboxTyped
<1>4. QED
  BY <1>1, <1>2, <1>3 DEF Item

\* INSERT OR IGNORE keeps one row to an event.
LEMMA InsertType ==
  ASSUME OutboxTyped, NEW e \in Event, Insert(e)
  PROVE  OutboxTyped'
<1>1. queue' \in Seq(Event) /\ UniqueRows'
  <2>1. CASE e \in Queued
    BY <2>1 DEF Insert, OutboxTyped, UniqueRows
  <2>2. CASE e \notin Queued
    <3>1. queue \in Seq(Event) /\ queue' = Append(queue, e)
      BY <2>2 DEF Insert, OutboxTyped
    <3>2. /\ Len(queue) \in Nat
          /\ Len(queue') = Len(queue) + 1
          /\ \A i \in 1 .. Len(queue) : queue'[i] = queue[i]
          /\ queue'[Len(queue) + 1] = e
          /\ queue' \in Seq(Event)
      BY <3>1
    <3>3. \A i \in 1 .. Len(queue) : queue[i] # e
      BY <2>2 DEF Queued
    <3>4. \A i, j \in 1 .. Len(queue) : queue[i] = queue[j] => i = j
      BY DEF OutboxTyped, UniqueRows
    <3>5. QED
      BY <3>2, <3>3, <3>4 DEF UniqueRows
  <2>3. QED
    BY <2>1, <2>2
<1>2. QED
  BY <1>1 DEF Insert, OutboxTyped

\* mark_synced and mark_retry keep the outbox well-formed.
LEMMA MarksType ==
  ASSUME OutboxTyped, NEW item \in Item, MarkSynced(item) \/ MarkRetry(item)
  PROVE  OutboxTyped'
<1>1. item.event \in Event /\ item.retry \in 0 .. MaxRetry
  BY DEF Item
<1>2. UniqueRows'
  BY DEF OutboxTyped, UniqueRows, MarkSynced, MarkRetry
<1>3. CASE MarkSynced(item)
  BY <1>1, <1>2, <1>3 DEF MarkSynced, OutboxTyped
<1>4. CASE MarkRetry(item)
  <2>1. (IF item.retry < MaxRetry THEN item.retry + 1 ELSE MaxRetry) \in 0 .. MaxRetry
    BY <1>1, OutboxAssumption
  <2>2. QED
    BY <1>1, <1>2, <1>4, <2>1 DEF MarkRetry, OutboxTyped
<1>5. QED
  BY <1>3, <1>4

\* A call starts at the first sink, and keeps its type as it goes on.
LEMMA CallFirst == CallTyped(FirstCall)
  BY MultiSinkAssumption DEF CallTyped, FirstCall, Call, Sink

LEMMA CallType ==
  ASSUME NEW call, CallTyped(call), NEW e, MoreSinks(call, e)
  PROVE  CallTyped(NextCall(call, e))
<1>1. /\ call.sink \in 1 .. Sinks /\ call.errors \in 0 .. Sinks
      /\ call.errors < call.sink /\ call.sink < Sinks
  BY DEF CallTyped, Call, Sink, MoreSinks
<1>2. Errors(call, e) \in {call.errors, call.errors + 1}
  BY DEF Errors
<1>3. call.sink + 1 \in Sink /\ Errors(call, e) \in 0 .. Sinks /\ Errors(call, e) < call.sink + 1
  BY <1>1, <1>2, MultiSinkAssumption DEF Sink
<1>4. QED
  BY <1>3 DEF CallTyped, Call, NextCall

\* A write adds to what one sink was given, and takes nothing from the others.
LEMMA WriteGrows ==
  ASSUME delivered \in [Sink -> Seq(Event)], NEW call, CallTyped(call), NEW e \in Event,
         WriteOne(call, e)
  PROVE  /\ delivered' \in [Sink -> Seq(Event)]
         /\ \A s \in Sink : DeliveredTo(s) \subseteq DeliveredTo(s)'
         /\ Accepts(call.sink, e) => e \in DeliveredTo(call.sink)'
<1> DEFINE k == call.sink
<1>0. k \in Sink
  BY DEF CallTyped, Call
<1>1. CASE Accepts(k, e)
  <2>1. delivered' = [delivered EXCEPT ![k] = Append(@, e)]
    BY <1>1 DEF WriteOne
  <2>2. delivered[k] \in Seq(Event)
    BY <1>0
  <2>3. /\ Append(delivered[k], e) \in Seq(Event)
        /\ Len(Append(delivered[k], e)) = Len(delivered[k]) + 1
        /\ Len(delivered[k]) \in Nat
        /\ \A i \in 1 .. Len(delivered[k]) : Append(delivered[k], e)[i] = delivered[k][i]
        /\ Append(delivered[k], e)[Len(delivered[k]) + 1] = e
    BY <2>2
  <2>4. delivered'[k] = Append(delivered[k], e)
    BY <1>0, <2>1
  <2>5. \A s \in Sink \ {k} : delivered'[s] = delivered[s]
    BY <2>1
  <2>6. delivered' \in [Sink -> Seq(Event)]
    BY <1>0, <2>1, <2>3
  <2>7. DeliveredTo(k) \subseteq DeliveredTo(k)' /\ e \in DeliveredTo(k)'
    BY <2>3, <2>4 DEF DeliveredTo
  <2>8. \A s \in Sink \ {k} : DeliveredTo(s) \subseteq DeliveredTo(s)'
    BY <2>5 DEF DeliveredTo
  <2>9. QED
    BY <2>6, <2>7, <2>8
<1>2. CASE ~Accepts(k, e)
  BY <1>2 DEF WriteOne, DeliveredTo
<1>3. QED
  BY <1>1, <1>2

LEMMA TypeInit == Init => TypeInv
<1> SUFFICES ASSUME Init PROVE TypeInv
  OBVIOUS
<1>1. OutboxTyped
  <2>1. queue \in Seq(Event) /\ Len(queue) = 0
    BY DEF Init, OutboxInit
  <2>2. retry \in [Event -> 0 .. MaxRetry]
    BY OutboxAssumption DEF Init, OutboxInit
  <2>3. UniqueRows
    BY <2>1 DEF UniqueRows
  <2>4. QED
    BY <2>1, <2>2, <2>3 DEF Init, OutboxInit, OutboxTyped
<1>2. WorkerTyped /\ MainTyped
  BY CallFirst DEF Init, WorkerTyped, MainTyped
<1>3. RestTyped
  <2>1. /\ starts \in 0 .. MaxStarts /\ faults \in 0 .. MaxFaults
        /\ sinksUp \subseteq Sink /\ delivered \in [Sink -> Seq(Event)]
    BY FactoryAssumption DEF Init, SinksInit
  <2>2. QED
    BY <2>1 DEF Init, RestTyped
<1>4. QED
  BY <1>1, <1>2, <1>3 DEF TypeInv

LEMMA CallRaisesType == faults \in 0 .. MaxFaults /\ CallRaises => faults' \in 0 .. MaxFaults
  BY FactoryAssumption DEF CallRaises

LEMMA WorkerType == TypeInv /\ Worker => TypeInv'
<1> SUFFICES ASSUME TypeInv, Worker PROVE TypeInv'
  OBVIOUS
<1>0. OutboxTyped /\ WorkerTyped /\ MainTyped /\ RestTyped
  BY DEF TypeInv
<1>1. MainTyped' /\ UNCHANGED <<stopEvent, starts, sinksUp>>
  BY <1>0, Frames DEF Worker
<1>2. RestTyped'
  <2>1. delivered' \in [Sink -> Seq(Event)]
    <3>1. CASE WorkerDispatch
      <4>1. witem.event \in Event /\ CallTyped(wcall) /\ WriteOne(wcall, witem.event)
        BY <1>0, <3>1 DEF WorkerDispatch, WorkerTyped, Item
      <4>2. QED
        BY <1>0, <4>1, WriteGrows DEF RestTyped
    <3>2. CASE UNCHANGED delivered
      BY <1>0, <3>2 DEF RestTyped
    <3>3. QED
      BY <3>1, <3>2 DEF Worker
  <2>2. faults' \in 0 .. MaxFaults
    <3>1. CASE CallRaises
      BY <1>0, <3>1, CallRaisesType DEF RestTyped
    <3>2. CASE UNCHANGED faults
      BY <1>0, <3>2 DEF RestTyped
    <3>3. QED
      BY <3>1, <3>2 DEF Worker, WorkerDbFault
  <2>3. QED
    BY <1>0, <1>1, <2>1, <2>2 DEF RestTyped
<1>3. OutboxTyped'
  <2>1. CASE WorkerMarkSynced \/ WorkerMarkRetry
    BY <1>0, <2>1, MarksType DEF WorkerMarkSynced, WorkerMarkRetry, WorkerTyped
  <2>2. CASE UNCHANGED outboxVars
    BY <1>0, <2>2, Frames
  <2>3. QED
    BY <2>1, <2>2 DEF Worker, WorkerStep, WorkerDispatch, WorkerLoop, WorkerFetch,
         WorkerItem, WorkerRecheck, WorkerDbFault
<1>4. WorkerTyped'
  <2>1. CASE WorkerDispatch
    <3>1. CASE MoreSinks(wcall, witem.event)
      <4>1. CallTyped(NextCall(wcall, witem.event))
        BY <1>0, <3>1, CallType DEF WorkerTyped
      <4>2. QED
        BY <1>0, <2>1, <3>1, <4>1 DEF WorkerDispatch, WorkerTyped
    <3>2. CASE ~MoreSinks(wcall, witem.event)
      BY <1>0, <2>1, <3>2, CallFirst DEF WorkerDispatch, WorkerTyped
    <3>3. QED
      BY <3>1, <3>2
  <2>2. CASE (WorkerLoop \/ WorkerRecheck) /\ UNCHANGED wcall
    BY <1>0, <2>2 DEF WorkerLoop, WorkerRecheck, WorkerTyped
  <2>3. CASE WorkerFetch /\ UNCHANGED wcall
    BY <1>0, <2>3, BatchType DEF WorkerFetch, WorkerTyped
  <2>4. CASE WorkerItem /\ UNCHANGED wcall
    BY <1>0, <2>4 DEF WorkerItem, Oldest, WorkerTyped
  <2>5. CASE (WorkerMarkSynced \/ WorkerMarkRetry) /\ UNCHANGED wcall
    BY <1>0, <2>5 DEF WorkerMarkSynced, WorkerMarkRetry, WorkerTyped
  <2>6. CASE WorkerDbFault /\ UNCHANGED wcall
    BY <1>0, <2>6 DEF WorkerDbFault, WorkerTyped
  <2>7. QED
    BY <2>1, <2>2, <2>3, <2>4, <2>5, <2>6 DEF Worker, WorkerStep
<1>5. QED
  BY <1>1, <1>2, <1>3, <1>4 DEF TypeInv

LEMMA DrainType == TypeInv /\ Drain => TypeInv'
<1> SUFFICES ASSUME TypeInv, Drain PROVE TypeInv'
  OBVIOUS
<1>0. OutboxTyped /\ WorkerTyped /\ MainTyped /\ RestTyped
  BY DEF TypeInv
<1>1. WorkerTyped' /\ UNCHANGED <<starts, sinksUp>>
  BY <1>0, Frames DEF Drain
<1>2. RestTyped'
  <2>1. delivered' \in [Sink -> Seq(Event)]
    <3>1. CASE DrainDispatch
      <4>1. mitem.event \in Event /\ CallTyped(mcall) /\ WriteOne(mcall, mitem.event)
        BY <1>0, <3>1 DEF DrainDispatch, MainTyped, Item
      <4>2. QED
        BY <1>0, <4>1, WriteGrows DEF RestTyped
    <3>2. CASE UNCHANGED delivered
      BY <1>0, <3>2 DEF RestTyped
    <3>3. QED
      BY <3>1, <3>2 DEF Drain
  <2>2. stopEvent' \in BOOLEAN
    BY <1>0 DEF Drain, DrainStep, DrainDispatch, DrainFetch, DrainHealth, DrainItem,
         DrainMarkSynced, DrainMarkRetry, DrainDbFault, RequestStop, Joined, RestTyped
  <2>3. faults' \in 0 .. MaxFaults
    <3>1. CASE CallRaises
      BY <1>0, <3>1, CallRaisesType DEF RestTyped
    <3>2. CASE UNCHANGED faults
      BY <1>0, <3>2 DEF RestTyped
    <3>3. QED
      BY <3>1, <3>2 DEF Drain, DrainDbFault
  <2>4. QED
    BY <1>0, <1>1, <2>1, <2>2, <2>3 DEF RestTyped
<1>3. OutboxTyped'
  <2>1. CASE DrainMarkSynced \/ DrainMarkRetry
    BY <1>0, <2>1, MarksType DEF DrainMarkSynced, DrainMarkRetry, MainTyped
  <2>2. CASE UNCHANGED outboxVars
    BY <1>0, <2>2, Frames
  <2>3. QED
    BY <2>1, <2>2 DEF Drain, DrainStep, DrainDispatch, DrainFetch, DrainHealth,
         DrainItem, DrainDbFault, RequestStop, Joined
<1>4. MainTyped'
  <2>1. CASE DrainDispatch
    <3>1. CASE MoreSinks(mcall, mitem.event)
      <4>1. CallTyped(NextCall(mcall, mitem.event))
        BY <1>0, <3>1, CallType DEF MainTyped
      <4>2. QED
        BY <1>0, <2>1, <3>1, <4>1 DEF DrainDispatch, MainTyped
    <3>2. CASE ~MoreSinks(mcall, mitem.event)
      BY <1>0, <2>1, <3>2, CallFirst DEF DrainDispatch, MainTyped
    <3>3. QED
      BY <3>1, <3>2
  <2>2. CASE (DrainHealth \/ Joined) /\ UNCHANGED mcall
    BY <1>0, <2>2 DEF DrainHealth, Joined, MainTyped
  <2>3. CASE DrainFetch /\ UNCHANGED mcall
    BY <1>0, <2>3, BatchType DEF DrainFetch, MainTyped
  <2>4. CASE DrainItem /\ UNCHANGED mcall
    BY <1>0, <2>4 DEF DrainItem, Oldest, MainTyped
  <2>5. CASE (DrainMarkSynced \/ DrainMarkRetry) /\ UNCHANGED mcall
    BY <1>0, <2>5 DEF DrainMarkSynced, DrainMarkRetry, MainTyped
  <2>6. CASE DrainDbFault /\ UNCHANGED mcall
    BY <1>0, <2>6 DEF DrainDbFault, MainTyped
  <2>7. CASE RequestStop /\ UNCHANGED mcall
    BY <1>0, <2>7, Frames DEF RequestStop, mainVars
  <2>8. QED
    BY <2>1, <2>2, <2>3, <2>4, <2>5, <2>6, <2>7 DEF Drain, DrainStep
<1>5. QED
  BY <1>1, <1>2, <1>3, <1>4 DEF TypeInv

LEMMA TypeStep == TypeInv /\ [Next]_vars => TypeInv'
<1> SUFFICES ASSUME TypeInv, [Next]_vars PROVE TypeInv'
  OBVIOUS
<1>0. OutboxTyped /\ WorkerTyped /\ MainTyped /\ RestTyped
  BY DEF TypeInv
<1>1. ASSUME NEW e \in Event, Emit(e) \/ ClockTick(e) PROVE TypeInv'
  <2>1. OutboxTyped'
    <3>1. CASE Emit(e)
      BY <1>0, <3>1, InsertType DEF Emit
    <3>2. CASE ClockTick(e)
      BY <1>0, <3>2 DEF ClockTick, BackoffElapses, OutboxTyped, UniqueRows
    <3>3. QED
      BY <1>1, <3>1, <3>2
  <2>2. WorkerTyped' /\ MainTyped'
    BY <1>0, <1>1, Frames DEF Emit, ClockTick
  <2>3. RestTyped'
    BY <1>0, <1>1 DEF Emit, ClockTick, RestTyped, sinkVars
  <2>4. QED
    BY <2>1, <2>2, <2>3 DEF TypeInv
<1>2. CASE Start
  <2>1. OutboxTyped'
    BY <1>0, <1>2, Frames DEF Start
  <2>2. WorkerTyped' /\ MainTyped'
    BY <1>0, <1>2 DEF Start, WorkerTyped, MainTyped
  <2>3. RestTyped'
    <3>1. starts' \in 0 .. MaxStarts
      BY <1>0, <1>2, FactoryAssumption DEF Start, RestTyped
    <3>2. stopEvent' \in BOOLEAN
      BY <1>2 DEF Start
    <3>3. QED
      BY <1>0, <1>2, <3>1, <3>2 DEF Start, RestTyped, sinkVars
  <2>4. QED
    BY <2>1, <2>2, <2>3 DEF TypeInv
<1>3. CASE Exit
  <2>1. OutboxTyped'
    BY <1>0, <1>3, Frames DEF Exit
  <2>2. WorkerTyped' /\ MainTyped'
    BY <1>3, CallFirst DEF Exit, WorkerTyped, MainTyped
  <2>3. RestTyped'
    BY <1>0, <1>3 DEF Exit, RestTyped, sinkVars
  <2>4. QED
    BY <2>1, <2>2, <2>3 DEF TypeInv
<1>4. ASSUME NEW s \in Sink, SinkToggles(s) PROVE TypeInv'
  <2>1. OutboxTyped' /\ WorkerTyped' /\ MainTyped'
    BY <1>0, <1>4, Frames DEF SinkToggles
  <2>2. RestTyped'
    BY <1>0, <1>4 DEF SinkToggles, RestTyped
  <2>3. QED
    BY <2>1, <2>2 DEF TypeInv
<1>5. CASE StopCalled
  <2>1. OutboxTyped' /\ WorkerTyped'
    BY <1>0, <1>5, Frames DEF StopCalled, CallStop
  <2>2. MainTyped' /\ RestTyped'
    BY <1>0, <1>5 DEF StopCalled, CallStop, MainTyped, RestTyped, sinkVars
  <2>3. QED
    BY <2>1, <2>2 DEF TypeInv
<1>6. CASE UNCHANGED vars
  <2>1. OutboxTyped' /\ WorkerTyped' /\ MainTyped'
    BY <1>0, <1>6, Frames DEF vars
  <2>2. RestTyped'
    BY <1>0, <1>6 DEF vars, RestTyped, sinkVars
  <2>3. QED
    BY <2>1, <2>2 DEF TypeInv
<1>7. QED
  BY <1>1, <1>2, <1>3, <1>4, <1>5, <1>6, WorkerType, DrainType DEF Next

LEMMA TypeInvariant == Spec => []TypeInv
  BY TypeInit, TypeStep, PTL DEF Spec

\* Every variable keeps its type and no event ever has two rows.
THEOREM TypeCorrect == Spec => []TypeOK
  BY TypeInvariant, TypeParts, PTL

-----------------------------------------------------------------------------
(* A row is marked only after its event reached a sink.  The invariant is   *)
(* about the window between the two: a thread about to mark a row has       *)
(* delivered its event, whatever the other thread does meanwhile, and so    *)
(* has a call that has passed more sinks than have raised.                  *)

HandedOver(at, item, call) ==
  /\ at = "synced" => item.event \in Delivered
  /\ call.errors < call.sink - 1 => item.event \in Delivered
  /\ at # "dispatch" => call = FirstCall

SyncInv ==
  /\ SyncedImpliesDelivered
  /\ HandedOver(wpc, witem, wcall)
  /\ HandedOver(mpc, mitem, mcall)
  /\ mpc = "down" => wpc = "off"

\* What the sinks were given only grows, and a write that does not raise adds
\* its event.
LEMMA DeliveredGrows ==
  ASSUME delivered \in [Sink -> Seq(Event)], NEW call, CallTyped(call), NEW e \in Event,
         WriteOne(call, e)
  PROVE  Delivered \subseteq Delivered' /\ (Accepts(call.sink, e) => e \in Delivered')
<1>1. /\ \A s \in Sink : DeliveredTo(s) \subseteq DeliveredTo(s)'
      /\ Accepts(call.sink, e) => e \in DeliveredTo(call.sink)'
  BY WriteGrows
<1>2. call.sink \in Sink
  BY DEF CallTyped, Call
<1>3. Delivered' = UNION {DeliveredTo(s)' : s \in Sink}
  BY DEF Delivered, Sink
<1>4. QED
  BY <1>1, <1>2, <1>3 DEF Delivered

\* One turn of a call whose errors are fewer than its turns has delivered the
\* event, and a call that ends without raising has.
LEMMA CallHandsOver ==
  ASSUME delivered \in [Sink -> Seq(Event)], NEW call, CallTyped(call), NEW e \in Event,
         WriteOne(call, e), call.errors < call.sink - 1 => e \in Delivered
  PROVE  /\ Errors(call, e) < call.sink => e \in Delivered'
         /\ ~MoreSinks(call, e) /\ ~Raises(call, e) => e \in Delivered'
<1>1. Delivered \subseteq Delivered' /\ (Accepts(call.sink, e) => e \in Delivered')
  BY DeliveredGrows
<1>2. call.sink \in 1 .. Sinks /\ call.errors \in 0 .. Sinks /\ call.errors < call.sink
  BY DEF CallTyped, Call, Sink
<1>3. Errors(call, e) < call.sink => e \in Delivered'
  <2>1. CASE Accepts(call.sink, e)
    BY <1>1, <2>1
  <2>2. CASE ~Accepts(call.sink, e)
    <3>1. Errors(call, e) = call.errors + 1
      BY <2>2 DEF Errors
    <3>2. Errors(call, e) < call.sink => call.errors < call.sink - 1
      BY <3>1, <1>2
    <3>3. QED
      BY <1>1, <3>2
  <2>3. QED
    BY <2>1, <2>2
<1>4. ~MoreSinks(call, e) /\ ~Raises(call, e) => Errors(call, e) < call.sink
  <2>1. Errors(call, e) \in {call.errors, call.errors + 1}
    BY DEF Errors
  <2>2. QED
    BY <1>2, <2>1, MultiSinkAssumption DEF MoreSinks, Raises
<1>5. QED
  BY <1>3, <1>4

LEMMA FirstHandsNothing == ~(FirstCall.errors < FirstCall.sink - 1)
  BY DEF FirstCall

LEMMA SyncStep == TypeInv /\ SyncInv /\ [Next]_vars => SyncInv'
<1> SUFFICES ASSUME TypeInv, SyncInv, [Next]_vars PROVE SyncInv'
  OBVIOUS
<1> USE DEF SyncInv, SyncedImpliesDelivered, HandedOver, outboxVars, workerVars, mainVars,
            sinkVars
<1>0. WorkerTyped /\ MainTyped /\ delivered \in [Sink -> Seq(Event)]
  BY DEF TypeInv, RestTyped
<1>1. ASSUME Worker, WorkerDispatch PROVE SyncInv'
  <2>1. /\ witem.event \in Event /\ CallTyped(wcall) /\ WriteOne(wcall, witem.event)
        /\ wpc = "dispatch"
    BY <1>0, <1>1 DEF WorkerDispatch, WorkerTyped, Item
  <2>2. UNCHANGED <<synced, witem, mpc, mitem, mcall>>
    BY <1>1 DEF Worker, WorkerDispatch
  <2>3. Delivered \subseteq Delivered'
    BY <1>0, <2>1, DeliveredGrows
  <2>4. /\ Errors(wcall, witem.event) < wcall.sink => witem.event \in Delivered'
        /\ ~MoreSinks(wcall, witem.event) /\ ~Raises(wcall, witem.event)
             => witem.event \in Delivered'
    BY <1>0, <2>1, CallHandsOver
  <2>5. SyncedImpliesDelivered' /\ HandedOver(mpc, mitem, mcall)' /\ mpc' # "down"
    BY <2>1, <2>2, <2>3
  <2>6. CASE MoreSinks(wcall, witem.event)
    <3>1. wpc' = "dispatch" /\ wcall' = NextCall(wcall, witem.event)
      BY <1>1, <2>1, <2>6 DEF WorkerDispatch
    <3>2. wcall'.sink - 1 = wcall.sink /\ wcall'.errors = Errors(wcall, witem.event)
      BY <2>1, <3>1 DEF NextCall, CallTyped, Call, Sink
    <3>3. QED
      BY <2>2, <2>4, <2>5, <3>1, <3>2
  <2>7. CASE ~MoreSinks(wcall, witem.event)
    BY <1>1, <2>2, <2>4, <2>5, <2>7, FirstHandsNothing DEF WorkerDispatch
  <2>8. QED
    BY <2>6, <2>7
<1>2. ASSUME Drain, DrainDispatch PROVE SyncInv'
  <2>1. /\ mitem.event \in Event /\ CallTyped(mcall) /\ WriteOne(mcall, mitem.event)
        /\ mpc = "dispatch"
    BY <1>0, <1>2 DEF DrainDispatch, MainTyped, Item
  <2>2. UNCHANGED <<synced, mitem, wpc, witem, wcall>>
    BY <1>2 DEF Drain, DrainDispatch
  <2>3. Delivered \subseteq Delivered'
    BY <1>0, <2>1, DeliveredGrows
  <2>4. /\ Errors(mcall, mitem.event) < mcall.sink => mitem.event \in Delivered'
        /\ ~MoreSinks(mcall, mitem.event) /\ ~Raises(mcall, mitem.event)
             => mitem.event \in Delivered'
    BY <1>0, <2>1, CallHandsOver
  <2>5. SyncedImpliesDelivered' /\ HandedOver(wpc, witem, wcall)' /\ mpc' # "down"
    BY <1>2, <2>1, <2>2, <2>3 DEF DrainDispatch
  <2>6. CASE MoreSinks(mcall, mitem.event)
    <3>1. mpc' = "dispatch" /\ mcall' = NextCall(mcall, mitem.event)
      BY <1>2, <2>1, <2>6 DEF DrainDispatch
    <3>2. mcall'.sink - 1 = mcall.sink /\ mcall'.errors = Errors(mcall, mitem.event)
      BY <2>1, <3>1 DEF NextCall, CallTyped, Call, Sink
    <3>3. QED
      BY <2>2, <2>4, <2>5, <3>1, <3>2
  <2>7. CASE ~MoreSinks(mcall, mitem.event)
    BY <1>2, <2>2, <2>4, <2>5, <2>7, FirstHandsNothing DEF DrainDispatch
  <2>8. QED
    BY <2>6, <2>7
<1>3. ASSUME Worker, WorkerStep \/ WorkerDbFault, UNCHANGED <<wcall, delivered>> PROVE SyncInv'
  <2>1. Delivered' = Delivered
    BY <1>3 DEF Delivered, DeliveredTo
  <2>2. UNCHANGED <<mpc, mitem, mcall>>
    BY <1>3 DEF Worker
  <2>3. wpc' # "synced" /\ wpc # "dispatch" /\ wpc # "off"
    BY <1>3 DEF WorkerStep, WorkerLoop, WorkerFetch, WorkerItem, WorkerMarkSynced,
         WorkerMarkRetry, WorkerRecheck, WorkerDbFault
  <2>4. synced' \subseteq Delivered
    BY <1>3 DEF WorkerStep, WorkerLoop, WorkerFetch, WorkerItem, WorkerMarkSynced,
         WorkerMarkRetry, WorkerRecheck, WorkerDbFault, MarkSynced, MarkRetry
  <2>5. QED
    BY <1>3, <2>1, <2>2, <2>3, <2>4, FirstHandsNothing
<1>4. ASSUME Drain, DrainStep \/ DrainDbFault, UNCHANGED <<mcall, delivered>> PROVE SyncInv'
  <2>1. Delivered' = Delivered
    BY <1>4 DEF Delivered, DeliveredTo
  <2>2. UNCHANGED <<wpc, witem, wcall>>
    BY <1>4 DEF Drain
  <2>3. mpc' # "synced" /\ mpc # "dispatch" /\ mpc' # "down"
    BY <1>4 DEF DrainStep, DrainFetch, DrainHealth, DrainItem, DrainMarkSynced,
         DrainMarkRetry, DrainDbFault, RequestStop, Joined
  <2>4. synced' \subseteq Delivered
    BY <1>4 DEF DrainStep, DrainFetch, DrainHealth, DrainItem, DrainMarkSynced,
         DrainMarkRetry, DrainDbFault, RequestStop, Joined, MarkSynced, MarkRetry
  <2>5. QED
    BY <1>4, <2>1, <2>2, <2>3, <2>4, FirstHandsNothing
<1>5. ASSUME synced' = synced, delivered' = delivered,
             \/ wpc' = wpc /\ witem' = witem /\ wcall' = wcall
             \/ wpc' \notin {"synced", "dispatch"} /\ wcall' = FirstCall,
             \/ mpc' = mpc /\ mitem' = mitem /\ mcall' = mcall
             \/ mpc' \notin {"synced", "dispatch"} /\ mcall' = FirstCall,
             \/ mpc' = mpc /\ wpc' = wpc
             \/ mpc' # "down"
             \/ wpc' = "off"
      PROVE  SyncInv'
  <2>1. Delivered' = Delivered
    BY <1>5 DEF Delivered, DeliveredTo
  <2>2. HandedOver(wpc, witem, wcall)' /\ HandedOver(mpc, mitem, mcall)'
    BY <1>5, <2>1, FirstHandsNothing
  <2>3. QED
    BY <1>5, <2>1, <2>2
<1>6. ASSUME NEW e \in Event, Emit(e) \/ ClockTick(e) PROVE SyncInv'
  <2>1. UNCHANGED <<synced, delivered, wpc, witem, wcall, mpc, mitem, mcall>>
    BY <1>6 DEF Emit, Insert, ClockTick, BackoffElapses
  <2>2. QED
    BY <1>5, <2>1
<1>7. CASE Start \/ Exit \/ StopCalled
  <2>1. CASE Start
    BY <1>5, <2>1 DEF Start
  <2>2. CASE Exit
    BY <1>5, <2>2 DEF Exit
  <2>3. CASE StopCalled
    BY <1>5, <2>3 DEF StopCalled, CallStop
  <2>4. QED
    BY <1>7, <2>1, <2>2, <2>3
<1>8. CASE UNCHANGED vars
  <2>1. UNCHANGED <<synced, delivered, wpc, witem, wcall, mpc, mitem, mcall>>
    BY <1>8 DEF vars
  <2>2. QED
    BY <1>5, <2>1
<1>9. ASSUME NEW s \in Sink, SinkToggles(s) PROVE SyncInv'
  <2>1. UNCHANGED <<synced, delivered, wpc, witem, wcall, mpc, mitem, mcall>>
    BY <1>9 DEF SinkToggles
  <2>2. QED
    BY <1>5, <2>1
<1>10. QED
  BY <1>1, <1>2, <1>3, <1>4, <1>6, <1>7, <1>8, <1>9 DEF Next, Worker, Drain

LEMMA SyncInvariant == Spec => []SyncInv
<1>1. Init => SyncInv
  BY FirstHandsNothing DEF Init, OutboxInit, SyncInv, SyncedImpliesDelivered, HandedOver
<1>2. QED
  BY <1>1, TypeInvariant, SyncStep, PTL DEF Spec

\* No row is marked before its event is in a sink: no crash, restart, failure of
\* sinks or of the database, and no race of the worker with stop(), loses an
\* event that was put in the outbox.
THEOREM NothingIsLost == Spec => []SyncedImpliesDelivered
<1>1. SyncInv => SyncedImpliesDelivered
  BY DEF SyncInv
<1>2. QED
  BY <1>1, SyncInvariant, PTL

-----------------------------------------------------------------------------
(* A sink s that is always up: a call that has come past s has delivered    *)
(* its event to s, unless no sink takes the event, and then every turn of   *)
(* the call was an error and it will raise.                                 *)

ReachedBy(s, e, call) ==
  /\ e \in Poison => call.errors = call.sink - 1
  /\ e \notin Poison /\ call.sink > s => e \in DeliveredTo(s)

Reached(s, at, item, call) ==
  /\ at = "synced" => item.event \in DeliveredTo(s)
  /\ ReachedBy(s, item.event, call)

SteadyInv(s) ==
  /\ synced \subseteq DeliveredTo(s)
  /\ Reached(s, wpc, witem, wcall)
  /\ Reached(s, mpc, mitem, mcall)

LEMMA FirstReaches ==
  ASSUME NEW s \in Sink
  PROVE  FirstCall.errors = FirstCall.sink - 1 /\ ~(FirstCall.sink > s)
  BY DEF FirstCall, Sink

\* One turn of a call that has reached s, or does now.
LEMMA CallReaches ==
  ASSUME delivered \in [Sink -> Seq(Event)], NEW s \in Sink, s \in sinksUp,
         NEW call, CallTyped(call), NEW e \in Event, WriteOne(call, e), ReachedBy(s, e, call)
  PROVE  /\ e \in Poison => Errors(call, e) = call.sink
         /\ e \notin Poison /\ call.sink + 1 > s => e \in DeliveredTo(s)'
         /\ ~MoreSinks(call, e) /\ ~Raises(call, e) => e \in DeliveredTo(s)'
<1>1. /\ call.sink \in 1 .. Sinks /\ call.errors \in 0 .. Sinks /\ s \in 1 .. Sinks
      /\ Sinks \in Nat
  BY MultiSinkAssumption DEF CallTyped, Call, Sink
<1>2. /\ DeliveredTo(s) \subseteq DeliveredTo(s)'
      /\ Accepts(call.sink, e) => e \in DeliveredTo(call.sink)'
  BY WriteGrows
<1>3. CASE e \in Poison
  <2>1. Errors(call, e) = call.sink
    BY <1>1, <1>3 DEF Errors, Accepts, ReachedBy
  <2>2. ~MoreSinks(call, e) => Raises(call, e)
    BY <1>1, <2>1 DEF MoreSinks, Raises
  <2>3. QED
    BY <1>3, <2>1, <2>2
<1>4. CASE e \notin Poison
  <2>1. call.sink + 1 > s => e \in DeliveredTo(s)'
    <3>1. CASE call.sink = s
      BY <1>2, <1>4, <3>1 DEF Accepts
    <3>2. CASE call.sink # s
      BY <1>1, <1>2, <1>4, <3>2 DEF ReachedBy
    <3>3. QED
      BY <3>1, <3>2
  <2>2. ~MoreSinks(call, e) => call.sink + 1 > s
    BY <1>1 DEF MoreSinks
  <2>3. QED
    BY <1>4, <2>1, <2>2
<1>5. QED
  BY <1>3, <1>4

LEMMA SteadyStep ==
  ASSUME NEW s \in Sink, TypeInv, SyncInv, SteadyInv(s), s \in sinksUp, [Next]_vars
  PROVE  SteadyInv(s)'
<1>0. WorkerTyped /\ MainTyped /\ delivered \in [Sink -> Seq(Event)]
  BY DEF TypeInv, RestTyped
<1>1. ASSUME Worker, WorkerDispatch PROVE SteadyInv(s)'
  <2>1. /\ witem.event \in Event /\ CallTyped(wcall) /\ WriteOne(wcall, witem.event)
        /\ wpc = "dispatch"
    BY <1>0, <1>1 DEF WorkerDispatch, WorkerTyped, Item
  <2>2. UNCHANGED <<synced, witem, mpc, mitem, mcall>>
    BY <1>1 DEF Worker, WorkerDispatch, outboxVars, mainVars
  <2>3. DeliveredTo(s) \subseteq DeliveredTo(s)'
    BY <1>0, <2>1, WriteGrows
  <2>4. /\ witem.event \in Poison => Errors(wcall, witem.event) = wcall.sink
        /\ witem.event \notin Poison /\ wcall.sink + 1 > s => witem.event \in DeliveredTo(s)'
        /\ ~MoreSinks(wcall, witem.event) /\ ~Raises(wcall, witem.event)
             => witem.event \in DeliveredTo(s)'
    BY <1>0, <2>1, CallReaches DEF SteadyInv, Reached
  <2>5. (synced \subseteq DeliveredTo(s))' /\ Reached(s, mpc, mitem, mcall)'
    BY <2>2, <2>3 DEF SteadyInv, Reached, ReachedBy
  <2>6. CASE MoreSinks(wcall, witem.event)
    <3>1. wpc' = "dispatch" /\ wcall' = NextCall(wcall, witem.event)
      BY <1>1, <2>1, <2>6 DEF WorkerDispatch
    <3>2. /\ wcall'.sink = wcall.sink + 1 /\ wcall'.sink - 1 = wcall.sink
          /\ wcall'.errors = Errors(wcall, witem.event)
      BY <2>1, <3>1 DEF NextCall, CallTyped, Call, Sink
    <3>3. QED
      BY <2>2, <2>4, <2>5, <3>1, <3>2 DEF SteadyInv, Reached, ReachedBy
  <2>7. CASE ~MoreSinks(wcall, witem.event)
    <3>1. wcall' = FirstCall /\ (wpc' = "synced" => ~Raises(wcall, witem.event))
      BY <1>1, <2>7 DEF WorkerDispatch
    <3>2. QED
      BY <2>2, <2>4, <2>5, <2>7, <3>1, FirstReaches DEF SteadyInv, Reached, ReachedBy
  <2>8. QED
    BY <2>6, <2>7
<1>2. ASSUME Drain, DrainDispatch PROVE SteadyInv(s)'
  <2>1. /\ mitem.event \in Event /\ CallTyped(mcall) /\ WriteOne(mcall, mitem.event)
        /\ mpc = "dispatch"
    BY <1>0, <1>2 DEF DrainDispatch, MainTyped, Item
  <2>2. UNCHANGED <<synced, mitem, wpc, witem, wcall>>
    BY <1>2 DEF Drain, DrainDispatch, outboxVars, workerVars
  <2>3. DeliveredTo(s) \subseteq DeliveredTo(s)'
    BY <1>0, <2>1, WriteGrows
  <2>4. /\ mitem.event \in Poison => Errors(mcall, mitem.event) = mcall.sink
        /\ mitem.event \notin Poison /\ mcall.sink + 1 > s => mitem.event \in DeliveredTo(s)'
        /\ ~MoreSinks(mcall, mitem.event) /\ ~Raises(mcall, mitem.event)
             => mitem.event \in DeliveredTo(s)'
    BY <1>0, <2>1, CallReaches DEF SteadyInv, Reached
  <2>5. (synced \subseteq DeliveredTo(s))' /\ Reached(s, wpc, witem, wcall)'
    BY <2>2, <2>3 DEF SteadyInv, Reached, ReachedBy
  <2>6. CASE MoreSinks(mcall, mitem.event)
    <3>1. mpc' = "dispatch" /\ mcall' = NextCall(mcall, mitem.event)
      BY <1>2, <2>1, <2>6 DEF DrainDispatch
    <3>2. /\ mcall'.sink = mcall.sink + 1 /\ mcall'.sink - 1 = mcall.sink
          /\ mcall'.errors = Errors(mcall, mitem.event)
      BY <2>1, <3>1 DEF NextCall, CallTyped, Call, Sink
    <3>3. QED
      BY <2>2, <2>4, <2>5, <3>1, <3>2 DEF SteadyInv, Reached, ReachedBy
  <2>7. CASE ~MoreSinks(mcall, mitem.event)
    <3>1. mcall' = FirstCall /\ (mpc' = "synced" => ~Raises(mcall, mitem.event))
      BY <1>2, <2>7 DEF DrainDispatch
    <3>2. QED
      BY <2>2, <2>4, <2>5, <2>7, <3>1, FirstReaches DEF SteadyInv, Reached, ReachedBy
  <2>8. QED
    BY <2>6, <2>7
<1>3. ASSUME Worker, WorkerStep \/ WorkerDbFault, UNCHANGED <<wcall, delivered>>
      PROVE  SteadyInv(s)'
  <2>1. DeliveredTo(s)' = DeliveredTo(s)
    BY <1>3 DEF DeliveredTo
  <2>2. UNCHANGED <<mpc, mitem, mcall>>
    BY <1>3 DEF Worker, workerVars, mainVars
  <2>3. wpc' # "synced" /\ wpc # "dispatch"
    BY <1>3 DEF WorkerStep, WorkerLoop, WorkerFetch, WorkerItem, WorkerMarkSynced,
         WorkerMarkRetry, WorkerRecheck, WorkerDbFault
  <2>4. synced' \subseteq DeliveredTo(s)
    BY <1>3 DEF SteadyInv, Reached, outboxVars, WorkerStep, WorkerLoop, WorkerFetch, WorkerItem, WorkerMarkSynced,
         WorkerMarkRetry, WorkerRecheck, WorkerDbFault, MarkSynced, MarkRetry
  <2>5. wcall' = FirstCall
    BY <1>0, <1>3, <2>3 DEF SyncInv, HandedOver
  <2>6. QED
    BY <2>1, <2>2, <2>3, <2>4, <2>5, FirstReaches DEF SteadyInv, Reached, ReachedBy
<1>4. ASSUME Drain, DrainStep \/ DrainDbFault, UNCHANGED <<mcall, delivered>>
      PROVE  SteadyInv(s)'
  <2>1. DeliveredTo(s)' = DeliveredTo(s)
    BY <1>4 DEF DeliveredTo
  <2>2. UNCHANGED <<wpc, witem, wcall>>
    BY <1>4 DEF Drain, workerVars, mainVars
  <2>3. mpc' # "synced" /\ mpc # "dispatch"
    BY <1>4 DEF DrainStep, DrainFetch, DrainHealth, DrainItem, DrainMarkSynced,
         DrainMarkRetry, DrainDbFault, RequestStop, Joined
  <2>4. synced' \subseteq DeliveredTo(s)
    BY <1>4 DEF SteadyInv, Reached, outboxVars, DrainStep, DrainFetch, DrainHealth, DrainItem, DrainMarkSynced,
         DrainMarkRetry, DrainDbFault, RequestStop, Joined, MarkSynced, MarkRetry
  <2>5. mcall' = FirstCall
    BY <1>0, <1>4, <2>3 DEF SyncInv, HandedOver
  <2>6. QED
    BY <2>1, <2>2, <2>3, <2>4, <2>5, FirstReaches DEF SteadyInv, Reached, ReachedBy
<1>5. ASSUME synced' = synced, delivered' = delivered,
             \/ wpc' = wpc /\ witem' = witem /\ wcall' = wcall
             \/ wpc' # "synced" /\ wcall' = FirstCall,
             \/ mpc' = mpc /\ mitem' = mitem /\ mcall' = mcall
             \/ mpc' # "synced" /\ mcall' = FirstCall
      PROVE  SteadyInv(s)'
  <2>1. DeliveredTo(s)' = DeliveredTo(s)
    BY <1>5 DEF DeliveredTo
  <2>2. Reached(s, wpc, witem, wcall)' /\ Reached(s, mpc, mitem, mcall)'
    BY <1>5, <2>1, FirstReaches DEF SteadyInv, Reached, ReachedBy
  <2>3. QED
    BY <1>5, <2>1, <2>2 DEF SteadyInv
<1>6. ASSUME NEW e \in Event, Emit(e) \/ ClockTick(e) PROVE SteadyInv(s)'
  <2>1. UNCHANGED <<synced, delivered, wpc, witem, wcall, mpc, mitem, mcall>>
    BY <1>6 DEF Emit, Insert, ClockTick, BackoffElapses, workerVars, mainVars, sinkVars
  <2>2. QED
    BY <1>5, <2>1
<1>7. CASE Start \/ Exit \/ StopCalled
  <2>1. CASE Start
    BY <1>5, <2>1 DEF Start, outboxVars, sinkVars, SyncInv, HandedOver
  <2>2. CASE Exit
    BY <1>5, <2>2 DEF Exit, outboxVars, sinkVars
  <2>3. CASE StopCalled
    BY <1>5, <2>3 DEF StopCalled, CallStop, outboxVars, sinkVars, workerVars,
         SyncInv, HandedOver
  <2>4. QED
    BY <1>7, <2>1, <2>2, <2>3
<1>8. CASE UNCHANGED vars
  <2>1. UNCHANGED <<synced, delivered, wpc, witem, wcall, mpc, mitem, mcall>>
    BY <1>8 DEF vars, outboxVars, sinkVars, workerVars, mainVars
  <2>2. QED
    BY <1>5, <2>1
<1>9. ASSUME NEW k \in Sink, SinkToggles(k) PROVE SteadyInv(s)'
  <2>1. UNCHANGED <<synced, delivered, wpc, witem, wcall, mpc, mitem, mcall>>
    BY <1>9 DEF SinkToggles, outboxVars, workerVars, mainVars
  <2>2. QED
    BY <1>5, <2>1
<1>10. QED
  BY <1>1, <1>2, <1>3, <1>4, <1>6, <1>7, <1>8, <1>9 DEF Next, Worker, Drain

\* A sink that is always up has every event that counts as synced: the errors
\* of other sinks keep nothing from it.
THEOREM SteadySinkHasAll == Spec => SteadyHasAll
<1> SUFFICES ASSUME NEW s \in Sink
             PROVE  Spec => ([](s \in sinksUp) => [](synced \subseteq DeliveredTo(s)))
  BY DEF SteadyHasAll
<1>1. Init => SteadyInv(s)
  BY FirstReaches DEF Init, OutboxInit, SteadyInv, Reached, ReachedBy
<1>2. TypeInv /\ SyncInv /\ SteadyInv(s) /\ s \in sinksUp /\ [Next]_vars => SteadyInv(s)'
  BY SteadyStep
<1>3. SteadyInv(s) => synced \subseteq DeliveredTo(s)
  BY DEF SteadyInv
<1>4. QED
  BY <1>1, <1>2, <1>3, TypeInvariant, SyncInvariant, PTL DEF Spec

-----------------------------------------------------------------------------
(* How often an event reaches a sink s.  Every start of the process pays    *)
(* for one delivery by each thread, every database fault for one more.  A   *)
(* thread has still to pay for e while it May deliver it: e waits in its    *)
(* batch, or its call has not come past s or has met errors only, or e is   *)
(* not marked and the thread is not about to mark it.                       *)

Holds(at, item, e) == at \in {"dispatch", "synced"} /\ item.event = e

May(marked, at, batch, item, call, s, e) ==
  \/ \E x \in batch : x.event = e
  \/ /\ at = "dispatch" /\ item.event = e
     /\ call.sink <= s \/ call.errors = call.sink - 1
  \/ e \notin marked /\ ~Holds(at, item, e)

WorkerMay(s, e) == wpc # "off" /\ May(synced, wpc, wbatch, witem, wcall, s, e)
MainMay(s, e) == mpc # "down" /\ May(synced, mpc, mbatch, mitem, mcall, s, e)

One(P) == IF P THEN 1 ELSE 0

\* No event is in a batch twice, or in the batch and in hand.
Apart(at, batch, item) ==
  /\ \A x, y \in batch : x.event = y.event => x = y
  /\ at \in {"dispatch", "synced", "failed"} => \A x \in batch : x.event # item.event

ApartInv == Apart(wpc, wbatch, witem) /\ Apart(mpc, mbatch, mitem)

LEMMA BatchApart ==
  ASSUME OutboxTyped
  PROVE  \A x, y \in Batch : x.event = y.event => x = y
<1> DEFINE Row(i) == [row |-> i, event |-> queue[i], retry |-> retry[queue[i]]]
<1>1. ASSUME NEW x \in Batch
      PROVE  \E i \in 1 .. Len(queue) : x = Row(i) /\ x.event = queue[i]
  <2>1. PICK i \in 1 .. Len(queue) : x = Row(i)
    BY DEF Batch, DueRows
  <2>2. QED
    BY <2>1
<1>2. \A i, j \in 1 .. Len(queue) : queue[i] = queue[j] => i = j
  BY DEF OutboxTyped, UniqueRows
<1> HIDE DEF Row
<1>3. QED
  BY <1>1, <1>2

LEMMA ApartStep == TypeInv /\ ApartInv /\ [Next]_vars => ApartInv'
<1> SUFFICES ASSUME TypeInv, ApartInv, [Next]_vars PROVE ApartInv'
  OBVIOUS
<1> USE DEF ApartInv
<1>0. \A x, y \in Batch : x.event = y.event => x = y
  BY BatchApart DEF TypeInv
<1>1. ASSUME Worker PROVE ApartInv'
  <2>1. Apart(mpc, mbatch, mitem)'
    BY <1>1 DEF Worker, mainVars, Apart
  <2>2. CASE WorkerDispatch
    BY <2>1, <2>2 DEF WorkerDispatch, Apart
  <2>3. CASE WorkerFetch
    BY <1>0, <2>1, <2>3 DEF WorkerFetch, Apart
  <2>4. CASE WorkerItem
    BY <2>1, <2>4 DEF WorkerItem, Oldest, Apart
  <2>5. CASE \/ WorkerLoop \/ WorkerMarkSynced \/ WorkerMarkRetry \/ WorkerRecheck
             \/ WorkerDbFault
    BY <2>1, <2>5 DEF WorkerLoop, WorkerMarkSynced, WorkerMarkRetry, WorkerRecheck,
       WorkerDbFault, Apart
  <2>6. QED
    BY <1>1, <2>2, <2>3, <2>4, <2>5 DEF Worker, WorkerStep
<1>2. ASSUME Drain PROVE ApartInv'
  <2>1. Apart(wpc, wbatch, witem)'
    BY <1>2 DEF Drain, workerVars, Apart
  <2>2. CASE DrainDispatch
    BY <2>1, <2>2 DEF DrainDispatch, Apart
  <2>3. CASE DrainFetch
    BY <1>0, <2>1, <2>3 DEF DrainFetch, Apart
  <2>4. CASE DrainItem
    BY <2>1, <2>4 DEF DrainItem, Oldest, Apart
  <2>5. CASE \/ DrainHealth \/ DrainMarkSynced \/ DrainMarkRetry \/ RequestStop \/ Joined
             \/ DrainDbFault
    BY <2>1, <2>5 DEF DrainHealth, DrainMarkSynced, DrainMarkRetry, RequestStop, Joined,
       DrainDbFault, Apart
  <2>6. QED
    BY <1>2, <2>2, <2>3, <2>4, <2>5 DEF Drain, DrainStep
<1>3. ASSUME Start \/ Exit \/ StopCalled PROVE ApartInv'
  BY <1>3 DEF Start, Exit, StopCalled, CallStop, workerVars, Apart
<1>4. ASSUME UNCHANGED <<workerVars, mainVars>> PROVE ApartInv'
  BY <1>4 DEF workerVars, mainVars, Apart
<1>5. QED
  BY <1>1, <1>2, <1>3, <1>4 DEF Next, Emit, ClockTick, SinkToggles, vars

\* How often a sink holds an event is a number.
LEMMA CopiesType ==
  ASSUME delivered \in [Sink -> Seq(Event)], NEW s \in Sink, NEW e
  PROVE  /\ IsFiniteSet({i \in 1 .. Len(delivered[s]) : delivered[s][i] = e})
         /\ Copies(s, e) \in Nat
<1> DEFINE C == {i \in 1 .. Len(delivered[s]) : delivered[s][i] = e}
<1>1. IsFiniteSet(1 .. Len(delivered[s]))
  BY FS_Interval
<1>2. C \subseteq 1 .. Len(delivered[s])
  OBVIOUS
<1>3. Copies(s, e) = Cardinality(C)
  BY DEF Copies
<1> HIDE DEF C
<1>4. IsFiniteSet(C) /\ Cardinality(C) \in Nat
  BY <1>1, <1>2, FS_Subset, FS_CardinalityType
<1>5. QED
  BY <1>3, <1>4 DEF C

\* A write adds one copy where the sink takes it, and none elsewhere.
LEMMA CopiesAfterWrite ==
  ASSUME delivered \in [Sink -> Seq(Event)], NEW call, CallTyped(call), NEW x \in Event,
         WriteOne(call, x), NEW s \in Sink, NEW e \in Event
  PROVE  /\ Copies(s, e) \in Nat
         /\ s = call.sink /\ x = e /\ Accepts(s, e) => Copies(s, e)' = Copies(s, e) + 1
         /\ ~(s = call.sink /\ x = e /\ Accepts(s, e)) => Copies(s, e)' = Copies(s, e)
<1> DEFINE q == delivered[s]
           C == {i \in 1 .. Len(q) : q[i] = e}
           C1 == {i \in 1 .. Len(delivered'[s]) : delivered'[s][i] = e}
<1>1. q \in Seq(Event) /\ Len(q) \in Nat
  OBVIOUS
<1>2. IsFiniteSet(C) /\ Cardinality(C) \in Nat
  BY CopiesType DEF Copies
<1>3. CASE s = call.sink /\ Accepts(call.sink, x)
  <2>1. /\ delivered'[s] = Append(q, x)
        /\ Len(delivered'[s]) = Len(q) + 1
        /\ \A i \in 1 .. Len(q) : delivered'[s][i] = q[i]
        /\ delivered'[s][Len(q) + 1] = x
    BY <1>1, <1>3 DEF WriteOne
  <2>2. Len(q) + 1 \notin C
    BY <1>1
  <2>3. x = e => C1 = C \cup {Len(q) + 1}
    BY <1>1, <2>1
  <2>4. x # e => C1 = C
    BY <1>1, <2>1
  <2> HIDE DEF C, C1
  <2>5. x = e => Cardinality(C1) = Cardinality(C) + 1
    BY <1>2, <2>2, <2>3, FS_AddElement
  <2>6. QED
    BY <1>2, <1>3, <2>4, <2>5 DEF C, C1, Copies
<1>4. CASE ~(s = call.sink /\ Accepts(call.sink, x))
  <2>1. delivered'[s] = delivered[s]
    BY <1>4 DEF WriteOne
  <2>2. C1 = C
    BY <2>1
  <2>3. QED
    BY <1>2, <1>4, <2>2 DEF Copies
<1>5. QED
  BY <1>3, <1>4

\* One turn of a call: a thread that delivers e to s may not do so again.
LEMMA TurnPays ==
  ASSUME delivered \in [Sink -> Seq(Event)], NEW s \in Sink, NEW e \in Event,
         NEW marked, NEW batch, NEW item \in Item, NEW call, CallTyped(call),
         Apart("dispatch", batch, item), WriteOne(call, item.event),
         NEW at1, NEW call1,
         MoreSinks(call, item.event)
           => at1 = "dispatch" /\ call1 = NextCall(call, item.event),
         ~MoreSinks(call, item.event)
           => /\ at1 = IF Raises(call, item.event) THEN "failed" ELSE "synced"
              /\ call1 = FirstCall
  PROVE  Copies(s, e)' + One(May(marked, at1, batch, item, call1, s, e))
           <= Copies(s, e) + One(May(marked, "dispatch", batch, item, call, s, e))
<1> DEFINE x == item.event
           before == May(marked, "dispatch", batch, item, call, s, e)
           after == May(marked, at1, batch, item, call1, s, e)
<1>1. /\ call.sink \in 1 .. Sinks /\ call.errors \in 0 .. Sinks /\ call.errors < call.sink
      /\ Sinks \in Nat /\ s \in 1 .. Sinks /\ x \in Event
  BY MultiSinkAssumption DEF CallTyped, Call, Sink, Item
<1>2. /\ Copies(s, e) \in Nat
      /\ s = call.sink /\ x = e /\ Accepts(s, e) => Copies(s, e)' = Copies(s, e) + 1
      /\ ~(s = call.sink /\ x = e /\ Accepts(s, e)) => Copies(s, e)' = Copies(s, e)
  BY <1>1, CopiesAfterWrite
<1>3. /\ Accepts(call.sink, x) => Errors(call, x) = call.errors
      /\ ~Accepts(call.sink, x) => Errors(call, x) = call.errors + 1
  BY DEF Errors
<1>4. CASE s = call.sink /\ x = e /\ Accepts(s, e)
  <2>1. before
    BY <1>1, <1>4 DEF May
  <2>2. ~after
    <3>1. \A y \in batch : y.event # e
      BY <1>4 DEF Apart
    <3>2. CASE MoreSinks(call, x)
      <4>1. at1 = "dispatch" /\ call1.sink = call.sink + 1 /\ call1.errors = call.errors
        BY <1>3, <1>4, <3>2 DEF NextCall
      <4>2. QED
        BY <1>1, <1>4, <3>1, <4>1 DEF May, Holds
    <3>3. CASE ~MoreSinks(call, x)
      <4>1. ~Raises(call, x)
        BY <1>1, <1>3, <1>4 DEF Raises
      <4>2. QED
        BY <1>4, <3>1, <3>3, <4>1 DEF May, Holds
    <3>4. QED
      BY <3>2, <3>3
  <2> HIDE DEF before, after
  <2>3. One(before) = 1 /\ One(after) = 0
    BY <2>1, <2>2 DEF One
  <2>4. QED
    BY <1>2, <1>4, <2>3 DEF before, after
<1>5. CASE ~(s = call.sink /\ x = e /\ Accepts(s, e))
  <2>1. after => before
    <3>1. CASE x # e
      BY <3>1 DEF May, Holds
    <3>2. CASE x = e /\ MoreSinks(call, x)
      <4>1. at1 = "dispatch" /\ call1.sink = call.sink + 1 /\ call1.errors = Errors(call, x)
        BY <3>2 DEF NextCall
      <4>2. call1.sink <= s => call.sink <= s
        BY <1>1, <4>1
      <4>3. call1.errors = call1.sink - 1 => call.errors = call.sink - 1
        BY <1>1, <1>3, <4>1
      <4>4. QED
        BY <3>2, <4>1, <4>2, <4>3 DEF May, Holds
    <3>3. CASE x = e /\ ~MoreSinks(call, x)
      <4>1. Raises(call, x) => call.errors = call.sink - 1
        BY <1>1, <1>3, <3>3 DEF Raises, MoreSinks
      <4>2. QED
        BY <3>3, <4>1 DEF May, Holds
    <3>4. QED
      BY <3>1, <3>2, <3>3
  <2> HIDE DEF before, after
  <2>2. One(after) <= One(before) /\ One(after) \in Nat /\ One(before) \in Nat
    BY <2>1 DEF One
  <2>3. QED
    BY <1>2, <1>5, <2>2 DEF before, after
<1>6. QED
  BY <1>4, <1>5

\* Marking only takes from what a thread may deliver.
LEMMA MarkingPays ==
  ASSUME NEW marked, NEW marked1, marked \subseteq marked1, NEW at, NEW batch, NEW item,
         NEW call, NEW s, NEW e, May(marked1, at, batch, item, call, s, e)
  PROVE  May(marked, at, batch, item, call, s, e)
  BY DEF May

LEMMA BatchIsDue ==
  ASSUME NEW x \in Batch
  PROVE  x.event \notin synced
<1>1. PICK i \in DueRows :
        x = [row |-> i, event |-> queue[i], retry |-> retry[queue[i]]]
  BY DEF Batch
<1>2. x.event = queue[i]
  BY <1>1
<1>3. QED
  BY <1>1, <1>2 DEF DueRows, Due

\* Rows that are marked stay marked.
LEMMA MarkedStays ==
  ASSUME [Next]_vars
  PROVE  synced \subseteq synced'
<1>1. ASSUME Worker PROVE synced \subseteq synced'
  BY <1>1 DEF Worker, WorkerDispatch, WorkerStep, WorkerLoop, WorkerFetch, WorkerItem,
     WorkerMarkSynced, WorkerMarkRetry, WorkerRecheck, WorkerDbFault, MarkSynced, MarkRetry,
     outboxVars
<1>2. ASSUME Drain PROVE synced \subseteq synced'
  BY <1>2 DEF Drain, DrainDispatch, DrainStep, DrainFetch, DrainHealth, DrainItem,
     DrainMarkSynced, DrainMarkRetry, DrainDbFault, RequestStop, Joined, MarkSynced,
     MarkRetry, outboxVars
<1>3. QED
  BY <1>1, <1>2 DEF Next, Start, Exit, Emit, Insert, ClockTick, BackoffElapses, SinkToggles,
     StopCalled, CallStop, vars, outboxVars

\* A step of the worker that is no turn of a call: it may deliver nothing more
\* than before, unless a database call has raised.
LEMMA WorkerMayFalls ==
  ASSUME Worker, WorkerStep \/ WorkerDbFault, UNCHANGED wcall, NEW s, NEW e,
         WorkerMay(s, e)'
  PROVE  WorkerMay(s, e) \/ CallRaises
<1> USE DEF WorkerMay, May, Holds
<1>1. CASE WorkerLoop \/ WorkerRecheck
  BY <1>1 DEF WorkerLoop, WorkerRecheck, outboxVars
<1>2. CASE WorkerFetch
  BY <1>2, BatchIsDue DEF WorkerFetch, outboxVars
<1>3. CASE WorkerItem
  BY <1>3 DEF WorkerItem, Oldest, outboxVars
<1>4. CASE WorkerMarkSynced
  BY <1>4 DEF WorkerMarkSynced, MarkSynced
<1>5. CASE WorkerMarkRetry
  BY <1>5 DEF WorkerMarkRetry, MarkRetry
<1>6. CASE WorkerDbFault
  BY <1>6 DEF WorkerDbFault
<1>7. QED
  BY <1>1, <1>2, <1>3, <1>4, <1>5, <1>6 DEF WorkerStep

LEMMA MainMayFalls ==
  ASSUME Drain, DrainStep \/ DrainDbFault, UNCHANGED mcall, NEW s, NEW e,
         MainMay(s, e)'
  PROVE  MainMay(s, e) \/ CallRaises
<1> USE DEF MainMay, May, Holds
<1>1. CASE DrainHealth \/ RequestStop \/ Joined
  BY <1>1 DEF DrainHealth, RequestStop, Joined, outboxVars
<1>2. CASE DrainFetch
  BY <1>2, BatchIsDue DEF DrainFetch, outboxVars
<1>3. CASE DrainItem
  BY <1>3 DEF DrainItem, Oldest, outboxVars
<1>4. CASE DrainMarkSynced
  BY <1>4 DEF DrainMarkSynced, MarkSynced
<1>5. CASE DrainMarkRetry
  BY <1>5 DEF DrainMarkRetry, MarkRetry
<1>6. CASE DrainDbFault
  BY <1>6 DEF DrainDbFault
<1>7. QED
  BY <1>1, <1>2, <1>3, <1>4, <1>5, <1>6 DEF DrainStep

\* What One says of two conditions.
LEMMA OneFacts ==
  ASSUME NEW P \in BOOLEAN, NEW Q \in BOOLEAN
  PROVE  /\ One(P) \in {0, 1}
         /\ (P => Q) => One(P) <= One(Q)
         /\ ~P => One(P) = 0
  BY DEF One

LEMMA MayBoolean ==
  ASSUME NEW s, NEW e
  PROVE  /\ WorkerMay(s, e) \in BOOLEAN /\ WorkerMay(s, e)' \in BOOLEAN
         /\ MainMay(s, e) \in BOOLEAN /\ MainMay(s, e)' \in BOOLEAN
  BY DEF WorkerMay, MainMay, May

\* Of the two threads each pays for its own: a step of the worker leaves the
\* main thread's share alone, and a fault pays for what it makes possible.
LEMMA WorkerPays ==
  ASSUME TypeInv, ApartInv, Worker, NEW s \in Sink, NEW e \in Event
  PROVE  /\ MainMay(s, e)' => MainMay(s, e)
         /\ faults <= faults'
         /\ Copies(s, e) \in Nat /\ Copies(s, e)' \in Nat
         /\ Copies(s, e)' + One(WorkerMay(s, e)') + faults
              <= Copies(s, e) + One(WorkerMay(s, e)) + faults'
<1> DEFINE c == Copies(s, e)
           c1 == Copies(s, e)'
           w == One(WorkerMay(s, e))
           w1 == One(WorkerMay(s, e)')
<1>0. WorkerTyped /\ delivered \in [Sink -> Seq(Event)] /\ faults \in Nat /\ FirstCall.sink = 1
  BY FactoryAssumption DEF TypeInv, RestTyped, FirstCall
<1>1. MainMay(s, e)' => MainMay(s, e)
  <2>1. synced \subseteq synced'
    BY MarkedStays DEF Next
  <2>2. UNCHANGED mainVars
    BY DEF Worker
  <2>3. QED
    BY <2>1, <2>2, MarkingPays DEF MainMay, mainVars
<1>2. w \in {0, 1} /\ w1 \in {0, 1}
  BY OneFacts, MayBoolean
<1>3. CASE WorkerDispatch
  <2>1. /\ witem \in Item /\ CallTyped(wcall) /\ WriteOne(wcall, witem.event)
        /\ Apart("dispatch", wbatch, witem) /\ wpc = "dispatch"
        /\ witem.event \in Event
    BY <1>0, <1>3 DEF WorkerDispatch, WorkerTyped, ApartInv, Item
  <2>2. UNCHANGED <<synced, wbatch, witem, faults>>
    BY <1>3 DEF Worker, WorkerDispatch, WorkerStep, WorkerLoop, WorkerFetch, WorkerItem,
       WorkerMarkSynced, WorkerMarkRetry, WorkerRecheck, WorkerDbFault, outboxVars
  <2>3. /\ MoreSinks(wcall, witem.event)
             => wpc' = "dispatch" /\ wcall' = NextCall(wcall, witem.event)
        /\ ~MoreSinks(wcall, witem.event)
             => /\ wpc' = IF Raises(wcall, witem.event) THEN "failed" ELSE "synced"
                /\ wcall' = FirstCall
    BY <1>3, <2>1 DEF WorkerDispatch
  <2>4. c1 + One(May(synced, wpc', wbatch, witem, wcall', s, e))
          <= c + One(May(synced, "dispatch", wbatch, witem, wcall, s, e))
    BY <1>0, <2>1, <2>3, TurnPays
  <2>5. wpc' # "off"
    BY <2>3
  <2>6. /\ WorkerMay(s, e)' <=> May(synced, wpc', wbatch, witem, wcall', s, e)
        /\ WorkerMay(s, e) <=> May(synced, "dispatch", wbatch, witem, wcall, s, e)
    BY <2>1, <2>2, <2>5 DEF WorkerMay
  <2>7. /\ w1 = One(May(synced, wpc', wbatch, witem, wcall', s, e))
        /\ w = One(May(synced, "dispatch", wbatch, witem, wcall, s, e))
    BY <2>6 DEF One
  <2>8. c \in Nat /\ c1 \in Nat
    BY <1>0, <2>1, CopiesAfterWrite
  <2> HIDE DEF c, c1, w, w1
  <2>9. c1 + w1 + faults <= c + w + faults' /\ faults <= faults'
    BY <1>0, <1>2, <2>2, <2>4, <2>7, <2>8
  <2>10. QED
    BY <1>1, <2>8, <2>9 DEF c, c1, w, w1
<1>4. CASE (WorkerStep \/ WorkerDbFault) /\ UNCHANGED <<wcall, delivered>>
  <2>1. WorkerMay(s, e)' => WorkerMay(s, e) \/ CallRaises
    BY <1>4, WorkerMayFalls
  <2>2. c1 = c /\ c \in Nat
    BY <1>0, <1>4, CopiesType DEF Copies
  <2>3. (CallRaises /\ faults' = faults + 1) \/ faults' = faults
    BY <1>4 DEF Worker, WorkerDbFault, CallRaises
  <2>4. WorkerMay(s, e)' => WorkerMay(s, e) \/ faults' = faults + 1
    BY <2>1 DEF CallRaises
  <2>5. w1 <= w \/ faults' = faults + 1
    BY <2>4, OneFacts, MayBoolean
  <2> HIDE DEF c, c1, w, w1
  <2>6. c1 + w1 + faults <= c + w + faults' /\ faults <= faults'
    BY <1>0, <1>2, <2>2, <2>3, <2>5
  <2>7. QED
    BY <1>1, <2>2, <2>6 DEF c, c1, w, w1
<1>5. QED
  BY <1>3, <1>4 DEF Worker

LEMMA DrainPays ==
  ASSUME TypeInv, ApartInv, Drain, NEW s \in Sink, NEW e \in Event
  PROVE  /\ WorkerMay(s, e)' => WorkerMay(s, e)
         /\ faults <= faults'
         /\ Copies(s, e) \in Nat /\ Copies(s, e)' \in Nat
         /\ Copies(s, e)' + One(MainMay(s, e)') + faults
              <= Copies(s, e) + One(MainMay(s, e)) + faults'
<1> DEFINE c == Copies(s, e)
           c1 == Copies(s, e)'
           m == One(MainMay(s, e))
           m1 == One(MainMay(s, e)')
<1>0. MainTyped /\ delivered \in [Sink -> Seq(Event)] /\ faults \in Nat /\ FirstCall.sink = 1
  BY FactoryAssumption DEF TypeInv, RestTyped, FirstCall
<1>1. WorkerMay(s, e)' => WorkerMay(s, e)
  <2>1. synced \subseteq synced'
    BY MarkedStays DEF Next
  <2>2. UNCHANGED workerVars
    BY DEF Drain
  <2>3. QED
    BY <2>1, <2>2, MarkingPays DEF WorkerMay, workerVars
<1>2. m \in {0, 1} /\ m1 \in {0, 1}
  BY OneFacts, MayBoolean
<1>3. CASE DrainDispatch
  <2>1. /\ mitem \in Item /\ CallTyped(mcall) /\ WriteOne(mcall, mitem.event)
        /\ Apart("dispatch", mbatch, mitem) /\ mpc = "dispatch"
        /\ mitem.event \in Event
    BY <1>0, <1>3 DEF DrainDispatch, MainTyped, ApartInv, Item
  <2>2. UNCHANGED <<synced, mbatch, mitem, faults>>
    BY <1>3 DEF Drain, DrainDispatch, DrainStep, DrainFetch, DrainHealth, DrainItem,
       DrainMarkSynced, DrainMarkRetry, DrainDbFault, RequestStop, Joined, outboxVars
  <2>3. /\ MoreSinks(mcall, mitem.event)
             => mpc' = "dispatch" /\ mcall' = NextCall(mcall, mitem.event)
        /\ ~MoreSinks(mcall, mitem.event)
             => /\ mpc' = IF Raises(mcall, mitem.event) THEN "failed" ELSE "synced"
                /\ mcall' = FirstCall
    BY <1>3, <2>1 DEF DrainDispatch
  <2>4. c1 + One(May(synced, mpc', mbatch, mitem, mcall', s, e))
          <= c + One(May(synced, "dispatch", mbatch, mitem, mcall, s, e))
    BY <1>0, <2>1, <2>3, TurnPays
  <2>5. mpc' # "down"
    BY <2>3
  <2>6. /\ MainMay(s, e)' <=> May(synced, mpc', mbatch, mitem, mcall', s, e)
        /\ MainMay(s, e) <=> May(synced, "dispatch", mbatch, mitem, mcall, s, e)
    BY <2>1, <2>2, <2>5 DEF MainMay
  <2>7. /\ m1 = One(May(synced, mpc', mbatch, mitem, mcall', s, e))
        /\ m = One(May(synced, "dispatch", mbatch, mitem, mcall, s, e))
    BY <2>6 DEF One
  <2>8. c \in Nat /\ c1 \in Nat
    BY <1>0, <2>1, CopiesAfterWrite
  <2> HIDE DEF c, c1, m, m1
  <2>9. c1 + m1 + faults <= c + m + faults' /\ faults <= faults'
    BY <1>0, <1>2, <2>2, <2>4, <2>7, <2>8
  <2>10. QED
    BY <1>1, <2>8, <2>9 DEF c, c1, m, m1
<1>4. CASE (DrainStep \/ DrainDbFault) /\ UNCHANGED <<mcall, delivered>>
  <2>1. MainMay(s, e)' => MainMay(s, e) \/ CallRaises
    BY <1>4, MainMayFalls
  <2>2. c1 = c /\ c \in Nat
    BY <1>0, <1>4, CopiesType DEF Copies
  <2>3. (CallRaises /\ faults' = faults + 1) \/ faults' = faults
    BY <1>4 DEF Drain, DrainDbFault, CallRaises
  <2>4. MainMay(s, e)' => MainMay(s, e) \/ faults' = faults + 1
    BY <2>1 DEF CallRaises
  <2>5. m1 <= m \/ faults' = faults + 1
    BY <2>4, OneFacts, MayBoolean
  <2> HIDE DEF c, c1, m, m1
  <2>6. c1 + m1 + faults <= c + m + faults' /\ faults <= faults'
    BY <1>0, <1>2, <2>2, <2>3, <2>5
  <2>7. QED
    BY <1>1, <2>2, <2>6 DEF c, c1, m, m1
<1>5. QED
  BY <1>3, <1>4 DEF Drain

\* What has been delivered and what may still be is paid for.
Paid(s, e) ==
  Copies(s, e) + One(WorkerMay(s, e)) + One(MainMay(s, e)) <= 2 * starts + faults

\* In a first run that has not called stop() nothing is delivered twice without
\* a fault, and before it nothing at all.
FirstRun(s, e) ==
  /\ starts = 0 => mpc = "down" /\ Copies(s, e) = 0
  /\ starts = 1 /\ mpc = "running" => Copies(s, e) + One(WorkerMay(s, e)) <= 1 + faults

CopyInv == ApartInv /\ \A s \in Sink, e \in Event : Paid(s, e) /\ FirstRun(s, e)

LEMMA CopyInit == Init => CopyInv
<1> SUFFICES ASSUME Init PROVE CopyInv
  OBVIOUS
<1>1. ApartInv
  BY DEF Init, ApartInv, Apart
<1>2. ASSUME NEW s \in Sink, NEW e \in Event PROVE Paid(s, e) /\ FirstRun(s, e)
  <2>1. Copies(s, e) = 0
    <3>1. {i \in 1 .. Len(delivered[s]) : delivered[s][i] = e} = {}
      BY DEF Init, SinksInit
    <3>2. QED
      BY <3>1, FS_EmptySet DEF Copies
  <2>2. One(WorkerMay(s, e)) = 0 /\ One(MainMay(s, e)) = 0
    BY DEF Init, WorkerMay, MainMay, One
  <2>3. QED
    BY <2>1, <2>2 DEF Init, Paid, FirstRun
<1>3. QED
  BY <1>1, <1>2 DEF CopyInv

LEMMA CopyStep ==
  ASSUME TypeInv, TypeInv', SyncInv, CopyInv, [Next]_vars
  PROVE  CopyInv'
<1>a. ApartInv /\ ApartInv' /\ delivered \in [Sink -> Seq(Event)]
  BY ApartStep DEF CopyInv, TypeInv, RestTyped
<1>0. starts \in Nat /\ faults \in Nat /\ starts' \in Nat /\ faults' \in Nat
  BY FactoryAssumption DEF TypeInv, RestTyped
<1> SUFFICES ASSUME NEW s \in Sink, NEW e \in Event
             PROVE  Paid(s, e)' /\ FirstRun(s, e)'
  BY <1>a DEF CopyInv
<1> DEFINE c == Copies(s, e)
           c1 == Copies(s, e)'
           w == One(WorkerMay(s, e))
           w1 == One(WorkerMay(s, e)')
           m == One(MainMay(s, e))
           m1 == One(MainMay(s, e)')
<1>1. w \in {0, 1} /\ w1 \in {0, 1} /\ m \in {0, 1} /\ m1 \in {0, 1} /\ c \in Nat
  BY <1>a, OneFacts, MayBoolean, CopiesType
<1>2. c + w + m <= 2 * starts + faults
  BY DEF CopyInv, Paid
<1>3. /\ starts = 0 => mpc = "down" /\ c = 0
      /\ starts = 1 /\ mpc = "running" => c + w <= 1 + faults
  BY DEF CopyInv, FirstRun
<1>4. Paid(s, e)' <=> c1 + w1 + m1 <= 2 * starts' + faults'
  BY DEF Paid, One
<1>5. FirstRun(s, e)' <=> /\ starts' = 0 => mpc' = "down" /\ c1 = 0
                          /\ starts' = 1 /\ mpc' = "running" => c1 + w1 <= 1 + faults'
  BY DEF FirstRun, One
<1>6. mpc = "down" => wpc = "off"
  BY DEF SyncInv
<1>7. CASE Worker
  <2> DEFINE f1 == faults'
  <2>1. /\ m1 <= m /\ c1 \in Nat /\ f1 \in Nat /\ faults <= f1
        /\ c1 + w1 + faults <= c + w + f1
    BY <1>a, <1>0, <1>7, WorkerPays, OneFacts, MayBoolean
  <2>2. starts' = starts /\ mpc' = mpc /\ mpc # "down"
    BY <1>6, <1>7 DEF Worker, WorkerDispatch, WorkerStep, WorkerLoop, WorkerFetch, WorkerItem,
       WorkerMarkSynced, WorkerMarkRetry, WorkerRecheck, WorkerDbFault, mainVars
  <2> HIDE DEF c, c1, w, w1, m, m1, f1
  <2>3. c1 + w1 + m1 <= 2 * starts + f1
    BY <1>0, <1>1, <1>2, <2>1
  <2>4. c + w <= 1 + faults => c1 + w1 <= 1 + f1
    BY <1>0, <1>1, <2>1
  <2>5. starts' # 0
    BY <1>3, <2>2
  <2>6. QED
    BY <1>3, <1>4, <1>5, <2>2, <2>3, <2>4, <2>5 DEF f1
<1>8. CASE Drain
  <2> DEFINE f1 == faults'
  <2>1. /\ w1 <= w /\ c1 \in Nat /\ f1 \in Nat /\ faults <= f1
        /\ c1 + m1 + faults <= c + m + f1
    BY <1>a, <1>0, <1>8, DrainPays, OneFacts, MayBoolean
  <2>2. starts' = starts /\ mpc' # "running" /\ mpc # "down"
    BY <1>8 DEF Drain, DrainDispatch, DrainStep, DrainFetch, DrainHealth, DrainItem,
       DrainMarkSynced, DrainMarkRetry, DrainDbFault, RequestStop, Joined
  <2> HIDE DEF c, c1, w, w1, m, m1, f1
  <2>3. c1 + w1 + m1 <= 2 * starts + f1
    BY <1>0, <1>1, <1>2, <2>1
  <2>4. starts' # 0
    BY <1>3, <2>2
  <2>5. QED
    BY <1>4, <1>5, <2>2, <2>3, <2>4 DEF f1
<1>9. CASE Start
  <2>1. mpc = "down" /\ wpc = "off" /\ starts' = starts + 1 /\ UNCHANGED <<faults, delivered>>
    BY <1>6, <1>9 DEF Start, sinkVars
  <2>2. w = 0 /\ m = 0
    BY <2>1, OneFacts, MayBoolean DEF WorkerMay, MainMay
  <2>3. c1 = c
    BY <2>1 DEF Copies
  <2> HIDE DEF c, c1, w, w1, m, m1
  <2>4. c1 + w1 + m1 <= 2 * starts' + faults'
    BY <1>0, <1>1, <1>2, <2>1, <2>2, <2>3
  <2>5. starts' = 1 => c1 + w1 <= 1 + faults'
    BY <1>0, <1>1, <1>3, <2>1, <2>3
  <2>6. starts' # 0
    BY <1>0, <2>1
  <2>7. QED
    BY <1>4, <1>5, <2>4, <2>5, <2>6
<1>10. CASE Exit
  <2>1. wpc' = "off" /\ mpc' = "down" /\ mpc # "down" /\ UNCHANGED <<starts, faults, delivered>>
    BY <1>10 DEF Exit, sinkVars
  <2>2. w1 = 0 /\ m1 = 0
    BY <2>1 DEF WorkerMay, MainMay, One
  <2>3. c1 = c
    BY <2>1 DEF Copies
  <2> HIDE DEF c, c1, w, w1, m, m1
  <2>4. c1 + w1 + m1 <= 2 * starts' + faults'
    BY <1>0, <1>1, <1>2, <2>1, <2>2, <2>3
  <2>5. starts' # 0
    BY <1>3, <2>1
  <2>6. QED
    BY <1>4, <1>5, <2>1, <2>4, <2>5
<1>11. CASE StopCalled
  <2>1. /\ UNCHANGED <<starts, faults, delivered, synced, wpc, wbatch, witem, wcall>>
        /\ UNCHANGED <<mbatch, mitem, mcall>>
        /\ mpc = "running" /\ mpc' = "fetch"
    BY <1>11 DEF StopCalled, CallStop, workerVars, outboxVars, sinkVars
  <2>2. w1 = w /\ m1 = m /\ c1 = c
    BY <2>1 DEF WorkerMay, MainMay, May, Holds, Copies, One
  <2> HIDE DEF c, c1, w, w1, m, m1
  <2>3. QED
    BY <1>2, <1>3, <1>4, <1>5, <2>1, <2>2
<1>12. CASE (\E x \in Event : Emit(x) \/ ClockTick(x)) \/ (\E k \in Sink : SinkToggles(k))
            \/ UNCHANGED vars
  <2>1. /\ UNCHANGED <<starts, faults, delivered, synced, wpc, wbatch, witem, wcall>>
        /\ UNCHANGED <<mpc, mbatch, mitem, mcall>>
    BY <1>12 DEF Emit, Insert, ClockTick, BackoffElapses, SinkToggles, vars, outboxVars,
       workerVars, mainVars, sinkVars
  <2>2. w1 = w /\ m1 = m /\ c1 = c
    BY <2>1 DEF WorkerMay, MainMay, May, Holds, Copies, One
  <2> HIDE DEF c, c1, w, w1, m, m1
  <2>3. QED
    BY <1>2, <1>3, <1>4, <1>5, <2>1, <2>2
<1>13. QED
  BY <1>7, <1>8, <1>9, <1>10, <1>11, <1>12 DEF Next

LEMMA CopyInvariant == Spec => []CopyInv
  BY CopyInit, CopyStep, TypeInvariant, SyncInvariant, PTL DEF Spec

\* In each run of the process each thread delivers an event to a sink at most
\* once, however worker, stop(), crashes and retries interleave; only a
\* database call that raises makes one more delivery possible.
THEOREM CopiesArePaidFor == Spec => []CopiesBounded
<1>1. TypeInv /\ CopyInv => CopiesBounded
  <2> SUFFICES ASSUME TypeInv, CopyInv, NEW s \in Sink, NEW e \in Event
               PROVE  Copies(s, e) <= 2 * starts + faults
    BY DEF CopiesBounded
  <2>1. Copies(s, e) \in Nat /\ starts \in Nat /\ faults \in Nat
    <3>1. delivered \in [Sink -> Seq(Event)]
      BY DEF TypeInv, RestTyped
    <3>2. Copies(s, e) \in Nat
      BY <3>1, CopiesType
    <3>3. QED
      BY <3>2, FactoryAssumption DEF TypeInv, RestTyped
  <2>2. One(WorkerMay(s, e)) \in {0, 1} /\ One(MainMay(s, e)) \in {0, 1}
    BY OneFacts, MayBoolean
  <2>3. QED
    BY <2>1, <2>2 DEF CopyInv, Paid
<1>2. QED
  BY <1>1, CopyInvariant, TypeInvariant, PTL

\* Before stop() is called, the worker of a first run delivers an event to a
\* sink once, and again only when the database fails to mark it.
THEOREM WorkerDeliversOnce == Spec => []OnceBeforeStop
<1>1. TypeInv /\ CopyInv => OnceBeforeStop
  <2> SUFFICES ASSUME TypeInv, CopyInv, starts = 1, mpc = "running",
                      NEW s \in Sink, NEW e \in Event
               PROVE  Copies(s, e) <= 1 + faults
    BY DEF OnceBeforeStop
  <2>1. Copies(s, e) \in Nat /\ faults \in Nat
    <3>1. delivered \in [Sink -> Seq(Event)]
      BY DEF TypeInv, RestTyped
    <3>2. Copies(s, e) \in Nat
      BY <3>1, CopiesType
    <3>3. QED
      BY <3>2, FactoryAssumption DEF TypeInv, RestTyped
  <2>2. One(WorkerMay(s, e)) \in {0, 1}
    BY OneFacts, MayBoolean
  <2>3. QED
    BY <2>1, <2>2 DEF CopyInv, FirstRun
<1>2. QED
  BY <1>1, CopyInvariant, TypeInvariant, PTL

-----------------------------------------------------------------------------
(* Oldest first.  Of the rows q, those older than a row that a thread has   *)
(* in its batch have been given to a sink, or tried, or stand in the same   *)
(* batch or in the thread's hand; those older than the row in hand have     *)
(* been given or tried.                                                     *)

Settled(q, given, tries, i) == q[i] \in given \/ tries[q[i]] > 0

RowOf(q, x) == x.row \in 1 .. Len(q) /\ q[x.row] = x.event

InHand(at) == at \in {"dispatch", "synced", "failed"}

InOrder(q, given, tries, at, batch, item) ==
  /\ \A x \in batch : RowOf(q, x)
  /\ \A x \in batch : \A i \in 1 .. x.row - 1 :
       \/ Settled(q, given, tries, i)
       \/ \E y \in batch : y.row = i
       \/ InHand(at) /\ item.row = i
  /\ InHand(at) => /\ RowOf(q, item)
                   /\ \A i \in 1 .. item.row - 1 : Settled(q, given, tries, i)

\* q1, given1, tries1 come later than q, given, tries: rows are only added, and
\* what was given or tried stays so.
Later(q, given, tries, q1, given1, tries1) ==
  /\ q \in Seq(Event) /\ q1 \in Seq(Event)
  /\ Len(q) <= Len(q1)
  /\ \A i \in 1 .. Len(q) : q1[i] = q[i]
  /\ given \subseteq given1
  /\ \A e \in Event : tries[e] > 0 => tries1[e] > 0

RowInv ==
  /\ InOrder(queue, Delivered, retry, wpc, wbatch, witem)
  /\ InOrder(queue, Delivered, retry, mpc, mbatch, mitem)
  /\ Delivered \subseteq Queued
  /\ \A e \in waiting : retry[e] > 0
  /\ OvertakenOnlyIfFailed

LEMMA OrderStays ==
  ASSUME NEW q, NEW given, NEW tries, NEW q1, NEW given1, NEW tries1,
         Later(q, given, tries, q1, given1, tries1),
         NEW at, NEW batch, batch \subseteq Item, NEW item, item \in Item \cup {NoItem},
         InOrder(q, given, tries, at, batch, item)
  PROVE  InOrder(q1, given1, tries1, at, batch, item)
<1>0. Len(q) \in Nat /\ Len(q1) \in Nat /\ Len(q) <= Len(q1)
  BY DEF Later
<1>1. \A x : RowOf(q, x) => RowOf(q1, x)
  BY <1>0 DEF RowOf, Later
<1>2. \A i \in 1 .. Len(q) : Settled(q, given, tries, i) => Settled(q1, given1, tries1, i)
  <2> SUFFICES ASSUME NEW i \in 1 .. Len(q), Settled(q, given, tries, i)
               PROVE  Settled(q1, given1, tries1, i)
    OBVIOUS
  <2>1. q1[i] = q[i] /\ q[i] \in Event
    BY DEF Later
  <2>2. QED
    BY <2>1 DEF Settled, Later
<1>3. \A x : RowOf(q, x) => \A i \in 1 .. x.row - 1 : i \in 1 .. Len(q)
  BY <1>0 DEF RowOf
<1>4. QED
  BY <1>1, <1>2, <1>3 DEF InOrder

LEMMA EmptyInOrder ==
  ASSUME NEW q, NEW given, NEW tries, NEW at, ~InHand(at), NEW item
  PROVE  InOrder(q, given, tries, at, {}, item)
  BY DEF InOrder

\* Between choices the hand is empty; where it stands does not matter.
LEMMA MoveInOrder ==
  ASSUME NEW q, NEW given, NEW tries, NEW at, ~InHand(at), NEW at1, ~InHand(at1),
         NEW batch, NEW item, NEW item1, InOrder(q, given, tries, at, batch, item)
  PROVE  InOrder(q, given, tries, at1, batch, item1)
  BY DEF InOrder

LEMMA KeepInOrder ==
  ASSUME NEW q, NEW given, NEW tries, NEW at, InHand(at), NEW at1, InHand(at1),
         NEW batch, NEW item, InOrder(q, given, tries, at, batch, item)
  PROVE  InOrder(q, given, tries, at1, batch, item)
  BY DEF InOrder

\* The oldest item is taken in hand.
LEMMA PickInOrder ==
  ASSUME NEW q, NEW given, NEW tries, NEW at, ~InHand(at),
         NEW batch, batch \subseteq Item, NEW item, NEW x \in Oldest(batch),
         InOrder(q, given, tries, at, batch, item)
  PROVE  InOrder(q, given, tries, "dispatch", batch \ {x}, x)
<1>1. x \in batch /\ x.row \in Nat /\ \A y \in batch : y.row \in Nat /\ x.row <= y.row
  BY DEF Oldest, Item
<1>2. \A i \in 1 .. x.row - 1 : Settled(q, given, tries, i)
  <2> SUFFICES ASSUME NEW i \in 1 .. x.row - 1
               PROVE  Settled(q, given, tries, i)
    OBVIOUS
  <2>1. ~\E y \in batch : y.row = i
    BY <1>1
  <2>2. QED
    BY <1>1, <2>1 DEF InOrder
<1>3. \A z \in batch \ {x} : \A i \in 1 .. z.row - 1 :
        \/ Settled(q, given, tries, i)
        \/ \E y \in batch \ {x} : y.row = i
        \/ x.row = i
  BY DEF InOrder
<1>4. QED
  BY <1>1, <1>2, <1>3 DEF InOrder, InHand

\* The row in hand is settled and let go.
LEMMA DropInOrder ==
  ASSUME NEW q, NEW given, NEW tries, NEW at, InHand(at), NEW at1, ~InHand(at1),
         NEW batch, NEW item, NEW item1, Settled(q, given, tries, item.row),
         InOrder(q, given, tries, at, batch, item)
  PROVE  InOrder(q, given, tries, at1, batch, item1)
  BY DEF InOrder

\* fetch_unsynced leaves no due row behind that is older than one it returns.
LEMMA BatchInOrder ==
  ASSUME OutboxTyped, SyncedImpliesDelivered, \A e \in waiting : retry[e] > 0,
         NEW at, ~InHand(at), NEW item
  PROVE  InOrder(queue, Delivered, retry, at, Batch, item)
<1> DEFINE Before(i) == {k \in DueRows : k < i}
           Row(i) == [row |-> i, event |-> queue[i], retry |-> retry[queue[i]]]
<1>0. Len(queue) \in Nat
  BY DEF OutboxTyped
<1>1. ASSUME NEW x \in Batch
      PROVE  \E i \in DueRows : x = Row(i) /\ Cardinality(Before(i)) < BatchSize
  BY DEF Batch
<1>2. ASSUME NEW i \in DueRows, Cardinality(Before(i)) < BatchSize
      PROVE  Row(i) \in Batch
  BY <1>2 DEF Batch
<1>3. ASSUME NEW i \in DueRows, NEW j \in DueRows, i < j
      PROVE  Cardinality(Before(i)) <= Cardinality(Before(j))
  <2>1. IsFiniteSet(1 .. Len(queue))
    BY <1>0, FS_Interval
  <2>2. Before(j) \subseteq 1 .. Len(queue) /\ Before(i) \subseteq Before(j)
    BY <1>0, <1>3 DEF DueRows
  <2> HIDE DEF Before
  <2>3. IsFiniteSet(Before(j))
    BY <2>1, <2>2, FS_Subset
  <2>4. QED
    BY <2>2, <2>3, FS_Subset
<1>4. \A i \in DueRows : Cardinality(Before(i)) \in Nat
  <2> SUFFICES ASSUME NEW i \in DueRows PROVE Cardinality(Before(i)) \in Nat
    OBVIOUS
  <2>1. IsFiniteSet(1 .. Len(queue)) /\ Before(i) \subseteq 1 .. Len(queue)
    BY <1>0, FS_Interval DEF DueRows
  <2> HIDE DEF Before
  <2>2. QED
    BY <2>1, FS_Subset, FS_CardinalityType
<1>5. ASSUME NEW x \in Batch
      PROVE  RowOf(queue, x) /\ \A i \in 1 .. x.row - 1 :
               Settled(queue, Delivered, retry, i) \/ \E y \in Batch : y.row = i
  <2>1. PICK j \in DueRows : x = Row(j) /\ Cardinality(Before(j)) < BatchSize
    BY <1>1, <1>5
  <2>2. x.row = j /\ x.event = queue[j] /\ j \in 1 .. Len(queue)
    BY <2>1 DEF DueRows
  <2>3. ASSUME NEW i \in 1 .. x.row - 1
        PROVE  Settled(queue, Delivered, retry, i) \/ \E y \in Batch : y.row = i
    <3>1. i \in 1 .. Len(queue) /\ i < j
      BY <1>0, <2>2
    <3>2. CASE i \in DueRows
      <4>1. Cardinality(Before(i)) < BatchSize
        <5>1. Cardinality(Before(i)) <= Cardinality(Before(j))
          BY <1>3, <3>1, <3>2
        <5> HIDE DEF Before
        <5>2. QED
          BY <1>4, <2>1, <3>2, <5>1, OutboxAssumption
      <4>2. Row(i) \in Batch
        BY <1>2, <3>2, <4>1
      <4>3. QED
        BY <4>2
    <3>3. CASE i \notin DueRows
      <4>1. queue[i] \in synced \/ queue[i] \in waiting
        BY <3>1, <3>3 DEF DueRows, Due
      <4>2. QED
        BY <4>1 DEF Settled, SyncedImpliesDelivered
    <3>4. QED
      BY <3>2, <3>3
  <2>4. QED
    BY <2>2, <2>3 DEF RowOf
<1>6. QED
  BY <1>5 DEF InOrder

\* The row a thread writes out, if the step is such a write.
Writes(at, item, call) == at = "dispatch" /\ WriteOne(call, item.event)

\* What a step may do to the table and to what the sinks were given.
LEMMA TableMoves ==
  ASSUME TypeInv, [Next]_vars
  PROVE  \/ (\E e \in Event : Insert(e)) /\ delivered' = delivered
         \/ (\E item \in Item : MarkRetry(item)) /\ delivered' = delivered
         \/ UNCHANGED <<queue, retry, delivered>> /\ waiting' \subseteq waiting
         \/ /\ UNCHANGED outboxVars
            /\ Writes(wpc, witem, wcall) \/ Writes(mpc, mitem, mcall)
<1> USE DEF outboxVars, sinkVars
<1>0. WorkerTyped /\ MainTyped
  BY DEF TypeInv
<1>1. CASE Worker
  <2>1. CASE WorkerDispatch
    BY <2>1 DEF WorkerDispatch, Writes
  <2>2. CASE WorkerMarkRetry /\ delivered' = delivered
    BY <1>0, <2>2 DEF WorkerMarkRetry, WorkerTyped
  <2>3. CASE UNCHANGED <<queue, retry, waiting, delivered>>
    BY <2>3
  <2>4. QED
    BY <1>1, <2>1, <2>2, <2>3 DEF Worker, WorkerStep, WorkerLoop, WorkerFetch, WorkerItem,
       WorkerMarkSynced, WorkerRecheck, WorkerDbFault, MarkSynced
<1>2. CASE Drain
  <2>1. CASE DrainDispatch
    BY <2>1 DEF DrainDispatch, Writes
  <2>2. CASE DrainMarkRetry /\ delivered' = delivered
    BY <1>0, <2>2 DEF DrainMarkRetry, MainTyped
  <2>3. CASE UNCHANGED <<queue, retry, waiting, delivered>>
    BY <2>3
  <2>4. QED
    BY <1>2, <2>1, <2>2, <2>3 DEF Drain, DrainStep, DrainFetch, DrainHealth, DrainItem,
       DrainMarkSynced, DrainDbFault, RequestStop, Joined, MarkSynced
<1>3. ASSUME NEW e \in Event, Emit(e)
      PROVE  Insert(e) /\ delivered' = delivered
  BY <1>3 DEF Emit
<1>4. ASSUME NEW e \in Event, ClockTick(e)
      PROVE  UNCHANGED <<queue, retry, delivered>> /\ waiting' \subseteq waiting
  BY <1>4 DEF ClockTick, BackoffElapses
<1>5. CASE Start \/ Exit \/ StopCalled \/ (\E s \in Sink : SinkToggles(s)) \/ UNCHANGED vars
  BY <1>5 DEF Start, Exit, StopCalled, CallStop, SinkToggles, vars
<1>6. QED
  BY <1>1, <1>2, <1>3, <1>4, <1>5 DEF Next

\* A write gives the sinks its event and no other.
LEMMA DeliveredAdds ==
  ASSUME delivered \in [Sink -> Seq(Event)], NEW call, CallTyped(call), NEW e \in Event,
         WriteOne(call, e)
  PROVE  Delivered' \subseteq Delivered \cup {e}
<1> DEFINE k == call.sink
<1>1. k \in Sink
  BY DEF CallTyped, Call
<1>2. ASSUME NEW s \in Sink
      PROVE  DeliveredTo(s)' \subseteq DeliveredTo(s) \cup {e}
  <2>1. CASE delivered'[s] = delivered[s]
    BY <2>1 DEF DeliveredTo
  <2>2. CASE delivered'[s] = Append(delivered[s], e)
    <3>1. /\ Len(delivered[s]) \in Nat
          /\ Len(delivered'[s]) = Len(delivered[s]) + 1
          /\ \A i \in 1 .. Len(delivered[s]) : delivered'[s][i] = delivered[s][i]
          /\ delivered'[s][Len(delivered[s]) + 1] = e
      BY <2>2
    <3>2. QED
      BY <3>1 DEF DeliveredTo
  <2>3. QED
    BY <1>1, <2>1, <2>2 DEF WriteOne
<1>3. Delivered' = UNION {DeliveredTo(s)' : s \in Sink}
  BY DEF Delivered, Sink
<1>4. QED
  BY <1>2, <1>3 DEF Delivered

\* Time passes for the table as Later says.
LEMMA TableGrows ==
  ASSUME TypeInv, [Next]_vars
  PROVE  Later(queue, Delivered, retry, queue', Delivered', retry')
<1>0. /\ queue \in Seq(Event) /\ queue' \in Seq(Event)
      /\ retry \in [Event -> 0 .. MaxRetry] /\ delivered \in [Sink -> Seq(Event)]
      /\ WorkerTyped /\ MainTyped
  BY TypeStep DEF TypeInv, OutboxTyped, RestTyped
<1>1. ASSUME NEW e \in Event, Insert(e), delivered' = delivered
      PROVE  Later(queue, Delivered, retry, queue', Delivered', retry')
  <2>1. Delivered' = Delivered
    BY <1>1 DEF Delivered, DeliveredTo
  <2>2. retry' = retry /\ queue' \in {queue, Append(queue, e)}
    BY <1>1 DEF Insert
  <2>3. Len(queue) <= Len(queue') /\ \A i \in 1 .. Len(queue) : queue'[i] = queue[i]
    BY <1>0, <2>2
  <2>4. QED
    BY <1>0, <2>1, <2>2, <2>3 DEF Later
<1>2. ASSUME NEW item \in Item, MarkRetry(item), delivered' = delivered
      PROVE  Later(queue, Delivered, retry, queue', Delivered', retry')
  <2>1. Delivered' = Delivered
    BY <1>2 DEF Delivered, DeliveredTo
  <2>2. item.event \in Event /\ item.retry \in 0 .. MaxRetry
    BY DEF Item
  <2>3. (IF item.retry < MaxRetry THEN item.retry + 1 ELSE MaxRetry) > 0
    BY <2>2, OutboxAssumption
  <2>4. \A e \in Event : retry[e] > 0 => retry'[e] > 0
    BY <1>0, <1>2, <2>2, <2>3 DEF MarkRetry
  <2>5. QED
    BY <1>0, <1>2, <2>1, <2>4 DEF MarkRetry, Later
<1>3. ASSUME UNCHANGED <<queue, retry, delivered>>
      PROVE  Later(queue, Delivered, retry, queue', Delivered', retry')
  <2>1. Delivered' = Delivered
    BY <1>3 DEF Delivered, DeliveredTo
  <2>2. QED
    BY <1>0, <1>3, <2>1 DEF Later
<1>4. ASSUME UNCHANGED outboxVars, Writes(wpc, witem, wcall) \/ Writes(mpc, mitem, mcall)
      PROVE  Later(queue, Delivered, retry, queue', Delivered', retry')
  <2>1. Delivered \subseteq Delivered'
    BY <1>0, <1>4, DeliveredGrows DEF Writes, WorkerTyped, MainTyped, Item
  <2>2. QED
    BY <1>0, <1>4, <2>1 DEF Later, outboxVars
<1>5. QED
  BY <1>1, <1>2, <1>3, <1>4, TableMoves

LEMMA SettledStays ==
  ASSUME NEW q, NEW given, NEW tries, NEW q1, NEW given1, NEW tries1,
         Later(q, given, tries, q1, given1, tries1),
         NEW i \in 1 .. Len(q), Settled(q, given, tries, i)
  PROVE  Settled(q1, given1, tries1, i)
<1>1. q1[i] = q[i] /\ q[i] \in Event
  BY DEF Later
<1>2. QED
  BY <1>1 DEF Settled, Later

\* The conjuncts of RowInv about the table itself.  A write is of the row in
\* hand, so that a row is given to a sink after those older than it.
LEMMA TableStep ==
  ASSUME TypeInv, RowInv, [Next]_vars
  PROVE  (Delivered \subseteq Queued)' /\ (\A e \in waiting : retry[e] > 0)'
         /\ OvertakenOnlyIfFailed'
<1>0. /\ queue \in Seq(Event) /\ Len(queue) \in Nat /\ UniqueRows
      /\ retry \in [Event -> 0 .. MaxRetry] /\ waiting \subseteq Event
      /\ delivered \in [Sink -> Seq(Event)]
      /\ WorkerTyped /\ MainTyped
  BY DEF TypeInv, OutboxTyped, RestTyped
<1>1. Later(queue, Delivered, retry, queue', Delivered', retry')
  BY TableGrows
<1>2. ASSUME NEW i \in 1 .. Len(queue), NEW j \in 1 .. Len(queue), i < j,
             queue[j] \in Delivered
      PROVE  Settled(queue', Delivered', retry', i)
  BY <1>1, <1>2, SettledStays DEF RowInv, OvertakenOnlyIfFailed, Settled
<1>3. ASSUME NEW e \in Event, Insert(e), delivered' = delivered
      PROVE  /\ (Delivered \subseteq Queued)' /\ (\A x \in waiting : retry[x] > 0)'
             /\ OvertakenOnlyIfFailed'
  <2>1. Delivered' = Delivered /\ UNCHANGED <<retry, waiting>>
    BY <1>3 DEF Delivered, DeliveredTo, Insert
  <2>2. CASE queue' = queue
    BY <2>1, <2>2 DEF RowInv, Queued, OvertakenOnlyIfFailed
  <2>3. CASE e \notin Queued /\ queue' = Append(queue, e)
    <3>1. /\ Len(queue') = Len(queue) + 1
          /\ \A i \in 1 .. Len(queue) : queue'[i] = queue[i]
          /\ queue'[Len(queue) + 1] = e
      BY <1>0, <2>3
    <3>2. Queued \subseteq Queued'
      BY <1>0, <3>1 DEF Queued
    <3>3. e \notin Delivered
      BY <2>3 DEF RowInv
    <3>4. OvertakenOnlyIfFailed'
      <4> SUFFICES ASSUME NEW i \in 1 .. Len(queue'), NEW j \in 1 .. Len(queue'), i < j,
                          queue'[j] \in Delivered'
                   PROVE  Settled(queue', Delivered', retry', i)
        BY DEF OvertakenOnlyIfFailed, Settled
      <4>0. j # Len(queue) + 1
        BY <2>1, <3>1, <3>3
      <4>1. j \in 1 .. Len(queue) /\ i \in 1 .. Len(queue)
        <5>1. Len(queue) \in Nat /\ Len(queue') = Len(queue) + 1
          BY <1>0, <3>1
        <5>2. QED
          BY <4>0, <5>1
      <4>2. queue[j] \in Delivered
        BY <2>1, <3>1, <4>1
      <4>3. QED
        BY <1>2, <4>1, <4>2
    <3>5. QED
      BY <2>1, <3>2, <3>4 DEF RowInv
  <2>4. QED
    BY <1>3, <2>2, <2>3 DEF Insert
<1>4. ASSUME queue' = queue, delivered' = delivered
      PROVE  (Delivered \subseteq Queued)' /\ OvertakenOnlyIfFailed'
  <2>1. Delivered' = Delivered /\ Queued' = Queued
    BY <1>4 DEF Delivered, DeliveredTo, Queued
  <2>2. QED
    <3>1. OvertakenOnlyIfFailed'
      <4> SUFFICES ASSUME NEW i \in 1 .. Len(queue), NEW j \in 1 .. Len(queue), i < j,
                          queue[j] \in Delivered
                   PROVE  Settled(queue', Delivered', retry', i)
        BY <1>4, <2>1 DEF OvertakenOnlyIfFailed, Settled
      <4>1. QED
        BY <1>2
    <3>2. QED
      BY <2>1, <3>1 DEF RowInv
<1>5. ASSUME NEW item \in Item, MarkRetry(item)
      PROVE  (\A x \in waiting : retry[x] > 0)'
  <2>1. item.event \in Event /\ item.retry \in 0 .. MaxRetry
    BY DEF Item
  <2>2. (IF item.retry < MaxRetry THEN item.retry + 1 ELSE MaxRetry) > 0
    BY <2>1, OutboxAssumption
  <2>3. QED
    BY <1>0, <1>5, <2>1, <2>2 DEF MarkRetry, RowInv
<1>6. ASSUME NEW at, NEW batch, NEW item \in Item, NEW call, CallTyped(call),
             UNCHANGED outboxVars, Writes(at, item, call),
             InOrder(queue, Delivered, retry, at, batch, item)
      PROVE  (Delivered \subseteq Queued)' /\ OvertakenOnlyIfFailed'
  <2>1. queue' = queue /\ retry' = retry
    BY <1>6 DEF outboxVars
  <2>2. item.event \in Event /\ item.row \in Nat
    BY DEF Item
  <2>3. Delivered' \subseteq Delivered \cup {item.event}
    BY <1>0, <1>6, <2>2, DeliveredAdds DEF Writes
  <2>4. /\ item.row \in 1 .. Len(queue) /\ queue[item.row] = item.event
        /\ \A i \in 1 .. item.row - 1 : Settled(queue, Delivered, retry, i)
    BY <1>6 DEF InOrder, InHand, Writes, RowOf
  <2>5. (Delivered \subseteq Queued)'
    BY <2>1, <2>3, <2>4 DEF RowInv, Queued
  <2>6. OvertakenOnlyIfFailed'
    <3> SUFFICES ASSUME NEW i \in 1 .. Len(queue), NEW j \in 1 .. Len(queue), i < j,
                        queue[j] \in Delivered'
                 PROVE  Settled(queue', Delivered', retry', i)
      BY <2>1 DEF OvertakenOnlyIfFailed, Settled
    <3>1. CASE queue[j] \in Delivered
      BY <1>2, <3>1
    <3>2. CASE queue[j] = item.event
      <4>1. j = item.row
        BY <1>0, <2>4, <3>2 DEF UniqueRows
      <4>2. Settled(queue, Delivered, retry, i)
        BY <1>0, <2>2, <2>4, <4>1
      <4>3. QED
        BY <1>1, <4>2, SettledStays
    <3>3. QED
      BY <2>3, <3>1, <3>2
  <2>7. QED
    BY <2>5, <2>6
<1>7. ASSUME UNCHANGED outboxVars, Writes(wpc, witem, wcall) \/ Writes(mpc, mitem, mcall)
      PROVE  /\ (Delivered \subseteq Queued)' /\ (\A x \in waiting : retry[x] > 0)'
             /\ OvertakenOnlyIfFailed'
  <2>1. (\A x \in waiting : retry[x] > 0)'
    BY <1>7 DEF RowInv, outboxVars
  <2>2. CASE Writes(wpc, witem, wcall)
    BY <1>0, <1>6, <1>7, <2>1, <2>2 DEF RowInv, WorkerTyped, Writes
  <2>3. CASE Writes(mpc, mitem, mcall)
    BY <1>0, <1>6, <1>7, <2>1, <2>3 DEF RowInv, MainTyped, Writes
  <2>4. QED
    BY <1>7, <2>2, <2>3
<1>8. ASSUME retry' = retry, waiting' \subseteq waiting
      PROVE  (\A x \in waiting : retry[x] > 0)'
  BY <1>8 DEF RowInv
<1>9. CASE \E item \in Item : MarkRetry(item) /\ delivered' = delivered
  BY <1>4, <1>5, <1>9 DEF MarkRetry
<1>10. QED
  BY <1>3, <1>4, <1>7, <1>8, <1>9, TableMoves

\* A thread's own step keeps its batch in order.
LEMMA WorkerRow ==
  ASSUME TypeInv, SyncInv, RowInv, Worker
  PROVE  InOrder(queue', Delivered', retry', wpc', wbatch', witem')
<1> DEFINE Now(at, batch, item) == InOrder(queue, Delivered, retry, at, batch, item)
<1>0. /\ OutboxTyped /\ WorkerTyped /\ WorkerTyped' /\ Now(wpc, wbatch, witem)
      /\ Later(queue, Delivered, retry, queue', Delivered', retry')
  BY TypeStep, TableGrows DEF TypeInv, RowInv, Next
<1>1. Now(wpc', wbatch', witem')
        => InOrder(queue', Delivered', retry', wpc', wbatch', witem')
  <2>1. wbatch' \subseteq Item /\ witem' \in Item \cup {NoItem}
    BY <1>0 DEF WorkerTyped
  <2>2. QED
    BY <1>0, <2>1, OrderStays
<1>2. CASE WorkerDispatch
  <2>1. InHand(wpc) /\ InHand(wpc') /\ UNCHANGED <<wbatch, witem>>
    BY <1>2 DEF WorkerDispatch, InHand
  <2>2. QED
    BY <1>0, <1>1, <2>1, KeepInOrder
<1>3. CASE WorkerLoop
  <2>1. ~InHand(wpc) /\ ~InHand(wpc') /\ UNCHANGED <<wbatch, witem>>
    BY <1>3 DEF WorkerLoop, InHand
  <2>2. QED
    BY <1>0, <1>1, <2>1, MoveInOrder
<1>4. CASE WorkerFetch
  <2>1. ~InHand(wpc') /\ wbatch' = Batch
    BY <1>4 DEF WorkerFetch, InHand
  <2>2. QED
    BY <1>0, <1>1, <2>1, BatchInOrder DEF SyncInv, RowInv
<1>5. CASE WorkerItem
  <2>1. CASE ~InHand(wpc') /\ wbatch' = {}
    BY <1>1, <2>1, EmptyInOrder
  <2>2. CASE \E item \in Oldest(wbatch) :
               witem' = item /\ wbatch' = wbatch \ {item} /\ wpc' = "dispatch"
    <3>1. PICK item \in Oldest(wbatch) :
                 witem' = item /\ wbatch' = wbatch \ {item} /\ wpc' = "dispatch"
      BY <2>2
    <3>2. ~InHand(wpc) /\ wbatch \subseteq Item
      BY <1>0, <1>5 DEF WorkerItem, InHand, WorkerTyped
    <3>3. QED
      BY <1>0, <1>1, <3>1, <3>2, PickInOrder
  <2>3. QED
    BY <1>5, <2>1, <2>2 DEF WorkerItem, InHand
<1>6. CASE WorkerMarkSynced
  <2>1. InHand(wpc) /\ ~InHand(wpc') /\ wbatch' = wbatch
    BY <1>6 DEF WorkerMarkSynced, InHand
  <2>2. witem.event \in Delivered /\ queue[witem.row] = witem.event
    BY <1>0, <1>6, <2>1 DEF SyncInv, HandedOver, InOrder, RowOf, WorkerMarkSynced
  <2>3. Settled(queue, Delivered, retry, witem.row)
    BY <2>2 DEF Settled
  <2>4. QED
    BY <1>0, <1>1, <2>1, <2>3, DropInOrder
<1>7. CASE WorkerMarkRetry
  <2>1. InHand(wpc) /\ ~InHand(wpc') /\ wbatch' = wbatch /\ witem \in Item
    BY <1>0, <1>7 DEF WorkerMarkRetry, InHand, WorkerTyped
  <2>2. InOrder(queue', Delivered', retry', wpc, wbatch, witem)
    BY <1>0, OrderStays DEF WorkerTyped
  <2>3. queue'[witem.row] = witem.event
    BY <2>1, <2>2 DEF InOrder, RowOf
  <2>4. retry'[witem.event] > 0
    <3>1. witem.event \in Event /\ witem.retry \in 0 .. MaxRetry
      BY <2>1 DEF Item
    <3>2. (IF witem.retry < MaxRetry THEN witem.retry + 1 ELSE MaxRetry) > 0
      BY <3>1, OutboxAssumption
    <3>3. QED
      BY <1>0, <1>7, <3>1, <3>2 DEF WorkerMarkRetry, MarkRetry, OutboxTyped
  <2>5. Settled(queue', Delivered', retry', witem.row)
    BY <2>3, <2>4 DEF Settled
  <2>6. QED
    BY <2>1, <2>2, <2>5, DropInOrder
<1>8. CASE WorkerRecheck
  <2>1. CASE ~InHand(wpc') /\ wbatch' = {}
    BY <1>1, <2>1, EmptyInOrder
  <2>2. CASE ~InHand(wpc) /\ ~InHand(wpc') /\ wbatch' = wbatch
    BY <1>0, <1>1, <2>2, MoveInOrder
  <2>3. QED
    BY <1>8, <2>1, <2>2 DEF WorkerRecheck, InHand
<1>9. CASE WorkerDbFault
  <2>1. CASE ~InHand(wpc') /\ wbatch' = {}
    BY <1>1, <2>1, EmptyInOrder
  <2>2. CASE InHand(wpc) /\ InHand(wpc') /\ UNCHANGED <<wbatch, witem>>
    BY <1>0, <1>1, <2>2, KeepInOrder
  <2>3. QED
    BY <1>9, <2>1, <2>2 DEF WorkerDbFault, InHand
<1>10. QED
  BY <1>2, <1>3, <1>4, <1>5, <1>6, <1>7, <1>8, <1>9 DEF Worker, WorkerStep

LEMMA DrainRow ==
  ASSUME TypeInv, SyncInv, RowInv, Drain
  PROVE  InOrder(queue', Delivered', retry', mpc', mbatch', mitem')
<1> DEFINE Now(at, batch, item) == InOrder(queue, Delivered, retry, at, batch, item)
<1>0. /\ OutboxTyped /\ MainTyped /\ MainTyped' /\ Now(mpc, mbatch, mitem)
      /\ Later(queue, Delivered, retry, queue', Delivered', retry')
  BY TypeStep, TableGrows DEF TypeInv, RowInv, Next
<1>1. Now(mpc', mbatch', mitem')
        => InOrder(queue', Delivered', retry', mpc', mbatch', mitem')
  <2>1. mbatch' \subseteq Item /\ mitem' \in Item \cup {NoItem}
    BY <1>0 DEF MainTyped
  <2>2. QED
    BY <1>0, <2>1, OrderStays
<1>2. CASE DrainDispatch
  <2>1. InHand(mpc) /\ InHand(mpc') /\ UNCHANGED <<mbatch, mitem>>
    BY <1>2 DEF DrainDispatch, InHand
  <2>2. QED
    BY <1>0, <1>1, <2>1, KeepInOrder
<1>3. CASE RequestStop \/ Joined
  <2>1. ~InHand(mpc) /\ ~InHand(mpc') /\ UNCHANGED <<mbatch, mitem>>
    BY <1>3 DEF RequestStop, Joined, InHand
  <2>2. QED
    BY <1>0, <1>1, <2>1, MoveInOrder
<1>4. CASE DrainFetch
  <2>1. ~InHand(mpc') /\ mbatch' = Batch
    BY <1>4 DEF DrainFetch, InHand
  <2>2. QED
    BY <1>0, <1>1, <2>1, BatchInOrder DEF SyncInv, RowInv
<1>5. CASE DrainItem
  <2>1. CASE ~InHand(mpc') /\ mbatch' = {}
    BY <1>1, <2>1, EmptyInOrder
  <2>2. CASE \E item \in Oldest(mbatch) :
               mitem' = item /\ mbatch' = mbatch \ {item} /\ mpc' = "dispatch"
    <3>1. PICK item \in Oldest(mbatch) :
                 mitem' = item /\ mbatch' = mbatch \ {item} /\ mpc' = "dispatch"
      BY <2>2
    <3>2. ~InHand(mpc) /\ mbatch \subseteq Item
      BY <1>0, <1>5 DEF DrainItem, InHand, MainTyped
    <3>3. QED
      BY <1>0, <1>1, <3>1, <3>2, PickInOrder
  <2>3. QED
    BY <1>5, <2>1, <2>2 DEF DrainItem, InHand
<1>6. CASE DrainMarkSynced
  <2>1. InHand(mpc) /\ ~InHand(mpc') /\ mbatch' = mbatch
    BY <1>6 DEF DrainMarkSynced, InHand
  <2>2. mitem.event \in Delivered /\ queue[mitem.row] = mitem.event
    BY <1>0, <1>6, <2>1 DEF SyncInv, HandedOver, InOrder, RowOf, DrainMarkSynced
  <2>3. Settled(queue, Delivered, retry, mitem.row)
    BY <2>2 DEF Settled
  <2>4. QED
    BY <1>0, <1>1, <2>1, <2>3, DropInOrder
<1>7. CASE DrainHealth
  <2>1. CASE ~InHand(mpc') /\ mbatch' = {}
    BY <1>1, <2>1, EmptyInOrder
  <2>2. CASE ~InHand(mpc) /\ ~InHand(mpc') /\ mbatch' = mbatch
    BY <1>0, <1>1, <2>2, MoveInOrder
  <2>3. QED
    BY <1>7, <2>1, <2>2 DEF DrainHealth, InHand
<1>8. CASE DrainMarkRetry
  BY <1>1, <1>8, EmptyInOrder DEF DrainMarkRetry, InHand
<1>9. CASE DrainDbFault
  <2>1. CASE ~InHand(mpc') /\ mbatch' = {}
    BY <1>1, <2>1, EmptyInOrder
  <2>2. CASE InHand(mpc) /\ InHand(mpc') /\ UNCHANGED <<mbatch, mitem>>
    BY <1>0, <1>1, <2>2, KeepInOrder
  <2>3. QED
    BY <1>9, <2>1, <2>2 DEF DrainDbFault, InHand
<1>10. QED
  BY <1>2, <1>3, <1>4, <1>5, <1>6, <1>7, <1>8, <1>9 DEF Drain, DrainStep

LEMMA RowInit == Init => RowInv
<1> SUFFICES ASSUME Init PROVE RowInv
  OBVIOUS
<1>1. Len(queue) = 0 /\ waiting = {} /\ delivered = [s \in Sink |-> <<>>]
  BY DEF Init, OutboxInit, SinksInit
<1>2. \A s \in Sink : DeliveredTo(s) = {}
  BY <1>1 DEF DeliveredTo
<1>3. Delivered = {}
  BY <1>2 DEF Delivered
<1>4. InOrder(queue, Delivered, retry, wpc, wbatch, witem)
  BY EmptyInOrder DEF Init, InHand
<1>5. InOrder(queue, Delivered, retry, mpc, mbatch, mitem)
  BY EmptyInOrder DEF Init, InHand
<1>6. QED
  BY <1>1, <1>3, <1>4, <1>5 DEF RowInv, OvertakenOnlyIfFailed

LEMMA RowStep == TypeInv /\ SyncInv /\ RowInv /\ [Next]_vars => RowInv'
<1> SUFFICES ASSUME TypeInv, SyncInv, RowInv, [Next]_vars PROVE RowInv'
  OBVIOUS
<1>0. /\ WorkerTyped /\ MainTyped
      /\ Later(queue, Delivered, retry, queue', Delivered', retry')
  BY TableGrows DEF TypeInv
<1>1. InOrder(queue', Delivered', retry', wpc', wbatch', witem')
  <2>1. CASE Worker
    BY <2>1, WorkerRow
  <2>2. CASE UNCHANGED <<wpc, wbatch, witem>>
    BY <1>0, <2>2, OrderStays DEF RowInv, WorkerTyped
  <2>3. CASE Exit \/ Start
    <3>1. CASE Exit
      BY <3>1, EmptyInOrder DEF Exit, InHand
    <3>2. CASE Start
      <4>1. InOrder(queue', Delivered', retry', wpc, wbatch, witem)
        BY <1>0, OrderStays DEF RowInv, WorkerTyped
      <4>2. ~InHand(wpc) /\ ~InHand(wpc') /\ wbatch' = wbatch
        BY <3>2 DEF Start, SyncInv, InHand
      <4>3. QED
        BY <4>1, <4>2, MoveInOrder
    <3>3. QED
      BY <2>3, <3>1, <3>2
  <2>4. QED
    BY <2>1, <2>2, <2>3 DEF Next, Emit, ClockTick, SinkToggles, StopCalled, Drain, vars,
       workerVars
<1>2. InOrder(queue', Delivered', retry', mpc', mbatch', mitem')
  <2>1. CASE Drain
    BY <2>1, DrainRow
  <2>2. CASE UNCHANGED <<mpc, mbatch, mitem>>
    BY <1>0, <2>2, OrderStays DEF RowInv, MainTyped
  <2>3. CASE Exit
    BY <2>3, EmptyInOrder DEF Exit, InHand
  <2>4. CASE Start \/ StopCalled
    <3>1. InOrder(queue', Delivered', retry', mpc, mbatch, mitem)
      BY <1>0, OrderStays DEF RowInv, MainTyped
    <3>2. ~InHand(mpc) /\ ~InHand(mpc') /\ mbatch' = mbatch
      BY <2>4 DEF Start, StopCalled, CallStop, InHand
    <3>3. QED
      BY <3>1, <3>2, MoveInOrder
  <2>5. QED
    BY <2>1, <2>2, <2>3, <2>4 DEF Next, Emit, ClockTick, SinkToggles, Worker, vars, mainVars
<1>3. QED
  BY <1>1, <1>2, TableStep DEF RowInv

LEMMA RowInvariant == Spec => []RowInv
  BY RowInit, RowStep, TypeInvariant, SyncInvariant, PTL DEF Spec

\* "Oldest-first": whatever is emitted while rows are written, however the
\* worker, the drain, crashes and restarts interleave, and for every batch size,
\* a younger event reaches a sink before an older one only if the older one has
\* been tried and has failed.
THEOREM OldestFirst == Spec => []OvertakenOnlyIfFailed
<1>1. RowInv => OvertakenOnlyIfFailed
  BY DEF RowInv
<1>2. QED
  BY <1>1, RowInvariant, PTL
=============================================================================
