----------------------------- MODULE MultiSink -----------------------------
(***************************************************************************)
(* The sinks an outbox is drained to, and MultiSink, which writes an event *)
(* to each of them in turn.  A write_* call of MultiSink is one step for   *)
(* each sink, as sinks come and go between them.  With one sink it is a    *)
(* call of that sink.                                                      *)
(***************************************************************************)
EXTENDS Integers, Sequences

CONSTANTS
  Sinks,      \* how many sinks there are
  Poison      \* events that no sink takes: their dispatch always raises

ASSUME MultiSinkAssumption == Sinks \in Nat \ {0}

VARIABLES
  sinksUp,    \* the sinks whose healthcheck() is true
  delivered   \* what each sink was given, in order

sinkVars == <<sinksUp, delivered>>

Sink == 1 .. Sinks

SinksInit ==
  /\ sinksUp = Sink
  /\ delivered = [s \in Sink |-> <<>>]

DeliveredTo(s) == {delivered[s][i] : i \in 1 .. Len(delivered[s])}
Delivered == UNION {DeliveredTo(s) : s \in Sink}

\* A faulty Healthy, which wants all of them.
HealthyAll == sinksUp = Sink

\* MultiSink.healthcheck: any sink will do.
Healthy == sinksUp # {}

\* Where a call is: the sink it comes to next, and len(errors).
Call == [sink : Sink, errors : 0 .. Sinks]
FirstCall == [sink |-> 1, errors |-> 0]

\* A write the sink takes; any other raises.
Accepts(s, e) == s \in sinksUp /\ e \notin Poison

\* One turn of the loop.
WriteOne(call, e) ==
  delivered' = IF Accepts(call.sink, e)
               THEN [delivered EXCEPT ![call.sink] = Append(@, e)]
               ELSE delivered

Errors(call, e) == IF Accepts(call.sink, e) THEN call.errors ELSE call.errors + 1

\* A faulty MoreSinks, which is content with the first sink that takes e.
MoreSinksUntilTaken(call, e) == call.sink < Sinks /\ ~Accepts(call.sink, e)

\* The loop goes on after an error, as after a success.
MoreSinks(call, e) == call.sink < Sinks

NextCall(call, e) == [sink |-> call.sink + 1, errors |-> Errors(call, e)]

\* At its end the call raises if every sink has raised.
Raises(call, e) == Errors(call, e) = Sinks
=============================================================================
