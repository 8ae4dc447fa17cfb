------------------------------ MODULE C2Engine ------------------------------
(***************************************************************************)
(* C2StreEngine: entity resolution and the supply_convoy matcher, fed with *)
(* the observations that reach C2Process.on_observation.  One call of      *)
(* ingest is one step: the engine runs on the listener's thread alone.     *)
(*                                                                         *)
(* Observations are filed by source, class and the hash of their cell.     *)
(* Time is what sources put in their observations: every source has a      *)
(* clock of its own, and what C2 hears of a source is stamped in order.    *)
(* Of a position the model keeps the cell it falls in, cells being         *)
(* numbered along one axis, and the spot within the cell.                  *)
(***************************************************************************)
EXTENDS Integers, Sequences, FiniteSetsExt

CONSTANTS
  Source,        \* source ids
  Class,         \* STRE object classes
  VehicleClass,  \* vehicle_wheeled and vehicle_tracked
  Cell,          \* 0.001-degree cells, by their index
  Spot,          \* positions within a cell
  Leg,           \* bearing (degrees) and length (0.1 m) between two spots
  Window,        \* OBSERVATION_WINDOW_S (60)
  MinVehicles,   \* SUPPLY_CONVOY_MIN_VEHICLES (3)
  Tolerance,     \* SUPPLY_CONVOY_BEARING_TOLERANCE_DEG (45)
  MinObs,        \* MIN_OBS_FOR_MOTION (3)
  MinSpeed,      \* MIN_DERIVED_SPEED_X10 (5)
  ObsMax,        \* maxlen of an entity's deque (64)
  RecentMax,     \* maxlen of _recent_inferences (64)
  MaxSkew,       \* bound: how far apart two sources' clocks are
  MaxTime,       \* bound: seconds on a clock
  MaxHeard,      \* bound: observations C2 hears
  MaxRuns        \* bound: runs of the C2 process

ASSUME EngineAssumption ==
  /\ VehicleClass \subseteq Class
  /\ Cell \subseteq Int
  /\ Leg \in [Spot \X Spot -> [bearing : 0 .. 359, length : Nat]]
  /\ {Window, MinVehicles, MinObs, ObsMax, RecentMax, MaxRuns} \subseteq Nat \ {0}
  /\ {Tolerance, MinSpeed, MaxSkew, MaxTime, MaxHeard} \subseteq Nat

VARIABLES
  clock,    \* the time of each source
  deque,    \* the observations of each entity, <<>> when there is none
  recent,   \* _recent_inferences
  run,      \* which run of the C2 process this is
  heard,    \* history: the observations of each run, without their spots
  count,    \* how many observations C2 has heard
  fired     \* the inferences written to c2_inferences.jsonl

vars == <<clock, deque, recent, run, heard, count, fired>>

\* Python's hash of an int is the int, except that -1 hashes to -2; a tuple's
\* hash is built from those of its elements.
Hash(c) == IF c = -1 THEN -2 ELSE c

Stamp == 0 .. MaxTime
Observation == [source : Source, class : Class, cell : Cell, spot : Spot, ts : Stamp]
Key == [source : Source, class : Class, hash : {Hash(c) : c \in Cell}]
KeyOf(o) == [source |-> o.source, class |-> o.class, hash |-> Hash(o.cell)]
Inference == [run : 1 .. MaxRuns, source : Source, ts : Stamp]

Init ==
  /\ clock = [s \in Source |-> 0]
  /\ deque = [k \in Key |-> <<>>]
  /\ recent = <<>>
  /\ run = 1
  /\ heard = {}
  /\ count = 0
  /\ fired = <<>>

\* A faulty Push, which keeps everything.
PushUnbounded(q, x, maxlen) == Append(q, x)

\* A deque with a maxlen drops its oldest element.
Push(q, x, maxlen) ==
  LET r == Append(q, x)
  IN  IF Len(r) > maxlen THEN Tail(r) ELSE r

-----------------------------------------------------------------------------
(* Entity resolution *)

\* A faulty Stale, which drops entities when the matcher still counts them.
StaleEarly(q, now) == q # <<>> /\ q[Len(q)].ts < now - 1

\* last_seen_at, the time of the newest observation, is before the cutoff.
Stale(q, now) == q # <<>> /\ q[Len(q)].ts < now - 2 * Window

\* The entities once o is filed and the stale ones are gone.
Filed(o) ==
  LET added == [deque EXCEPT ![KeyOf(o)] = Push(@, o, ObsMax)]
  IN  [k \in Key |-> IF Stale(added[k], o.ts) THEN <<>> ELSE added[k]]

-----------------------------------------------------------------------------
(* _match_supply_convoy, on the entities dq, for an observation of source s *)
(* stamped ts                                                              *)

\* A faulty Recent, without the window.
RecentEver(x, ts) == TRUE

Recent(x, ts) == x.ts >= ts - Window

\* Vehicle entities of the source with an observation in the window.
Active(dq, s, ts) ==
  {k \in Key :
     /\ k.source = s
     /\ k.class \in VehicleClass
     /\ \E i \in 1 .. Len(dq[k]) : Recent(dq[k][i], ts)}

\* _derive_entity_motion, from the oldest to the newest observation kept.
Displacement(q) == Leg[<<q[1].spot, q[Len(q)].spot>>]
Elapsed(q) == q[Len(q)].ts - q[1].ts

Moving(q) ==
  /\ Len(q) >= MinObs
  /\ Elapsed(q) > 0
  /\ Displacement(q).length > 0
  /\ Displacement(q).length >= MinSpeed * Elapsed(q)

\* derived_bearings: the bearing of each entity that moves.
Bearings(dq, s, ts) ==
  [k \in {j \in Active(dq, s, ts) : Moving(dq[j])} |-> Displacement(dq[k]).bearing]

Abs(n) == IF n < 0 THEN -n ELSE n

\* The entities whose bearing is within Tolerance of the mean of b; all is
\* multiplied by their number so that the mean is a whole one.
Coherent(b) ==
  LET movers == DOMAIN b
      n == Cardinality(movers)
      sum == MapThenSumSet(LAMBDA k : b[k], movers)
      off(k) == Abs(n * b[k] - sum)
  IN  {k \in movers : off(k) <= n * Tolerance \/ 360 * n - off(k) <= n * Tolerance}

\* A faulty Dispersed, which never finds the bearings apart.
DispersedNever(b) == FALSE

\* Bearings are present and fewer than 60 percent of them are coherent.
Dispersed(b) == DOMAIN b # {} /\ 10 * Cardinality(Coherent(b)) < 6 * Cardinality(DOMAIN b)

\* A faulty Refractory, with the comparison off by one.
RefractoryTooShort(s, ts) ==
  \E i \in 1 .. Len(recent) : recent[i].source = s /\ ts - recent[i].ts < Window - 1

Refractory(s, ts) ==
  \E i \in 1 .. Len(recent) : recent[i].source = s /\ ts - recent[i].ts < Window

Fires(dq, s, ts) ==
  /\ Cardinality(Active(dq, s, ts)) >= MinVehicles
  /\ ~Dispersed(Bearings(dq, s, ts))
  /\ ~Refractory(s, ts)

-----------------------------------------------------------------------------
\* on_observation hands o to ingest and writes what fires; only an observation
\* of a vehicle can make the matcher fire.
Ingest(o) ==
  LET s == o.source
      dq == Filed(o)
      fires == o.class \in VehicleClass /\ Fires(dq, s, o.ts)
  IN  /\ o.ts = clock[s]
      /\ count < MaxHeard
      /\ count' = count + 1
      /\ deque' = dq
      /\ heard' = heard \cup {[run |-> run, source |-> s, class |-> o.class, cell |-> o.cell, ts |-> o.ts]}
      /\ \/ /\ fires
            /\ recent' = Push(recent, [source |-> s, ts |-> o.ts], RecentMax)
            /\ fired' = Append(fired, [run |-> run, source |-> s, ts |-> o.ts])
         \/ /\ ~fires
            /\ UNCHANGED <<recent, fired>>
      /\ UNCHANGED <<clock, run>>

\* Time passes at s, which keeps within MaxSkew of every other source.
Tick(s) ==
  /\ clock[s] < MaxTime
  /\ \A r \in Source \ {s} : clock[s] - clock[r] < MaxSkew
  /\ clock' = [clock EXCEPT ![s] = @ + 1]
  /\ UNCHANGED <<deque, recent, run, heard, count, fired>>

\* A new C2 process appends to the same files with an empty engine.
RestartC2 ==
  /\ run < MaxRuns
  /\ run' = run + 1
  /\ deque' = [k \in Key |-> <<>>]
  /\ recent' = <<>>
  /\ UNCHANGED <<clock, heard, count, fired>>

Next ==
  \/ \E o \in Observation : Ingest(o)
  \/ \E s \in Source : Tick(s)
  \/ RestartC2

Spec == Init /\ [][Next]_vars

-----------------------------------------------------------------------------
\* Each variable has its type, and deques keep their limit.
TypeOK ==
  /\ clock \in [Source -> Stamp]
  /\ deque \in [Key -> Seq(Observation)]
  /\ \A k \in Key : Len(deque[k]) <= ObsMax
  /\ recent \in Seq([source : Source, ts : Stamp])
  /\ Len(recent) <= RecentMax
  /\ run \in 1 .. MaxRuns
  /\ heard \subseteq [run : 1 .. run, source : Source, class : Class, cell : Cell, ts : Stamp]
  /\ count \in 0 .. MaxHeard
  /\ fired \in Seq(Inference)

\* The classes and cells in which C2 heard s report vehicles, in run r and in
\* the window up to ts.
Evidence(r, s, ts) ==
  {<<h.class, h.cell>> : h \in {x \in heard : /\ x.run = r /\ x.source = s
                                             /\ x.class \in VehicleClass
                                             /\ ts - Window <= x.ts
                                             /\ x.ts <= ts}}

\* supply_convoy: an inference rests on vehicles in enough distinct places, all
\* reported by its source in the window before it, to the run that fired it.
FiredOnEvidence ==
  \A i \in 1 .. Len(fired) :
    Cardinality(Evidence(fired[i].run, fired[i].source, fired[i].ts)) >= MinVehicles

\* supply_convoy, the other direction: whenever a source reported vehicles in
\* enough places within a window, an inference for it was written in that
\* window.  (For positions without bearings, and cells whose hashes differ.)
ConvoyReported ==
  \A h \in heard :
    h.class \in VehicleClass /\ Cardinality(Evidence(h.run, h.source, h.ts)) >= MinVehicles
      => \E i \in 1 .. Len(fired) :
             /\ fired[i].run = h.run /\ fired[i].source = h.source
             /\ h.ts - Window < fired[i].ts /\ fired[i].ts <= h.ts

\* "Refractory: don't re-fire same source within the window": two inferences
\* of one run about one source are a window apart.
WindowApart ==
  \A i, j \in 1 .. Len(fired) :
    /\ i < j
    /\ fired[i].run = fired[j].run
    /\ fired[i].source = fired[j].source
    => fired[j].ts - fired[i].ts >= Window

Apart(a, b) == IF Abs(a - b) <= 180 THEN Abs(a - b) ELSE 360 - Abs(a - b)

\* Bearing coherence: when a convoy is reported, 60 percent of its moving
\* entities head in directions no more than twice the tolerance apart.
ReportedMoveTogether ==
  [][fired' # fired
       => LET f == fired'[Len(fired')]
              b == Bearings(deque', f.source, f.ts)
          IN  \E together \in SUBSET DOMAIN b :
                /\ 10 * Cardinality(together) >= 6 * Cardinality(DOMAIN b)
                /\ \A j, k \in together : Apart(b[j], b[k]) <= 2 * Tolerance]_vars

\* "Bearings present but dispersed": bearings that count as dispersed contain
\* two that are more than the tolerance apart.
DispersedAreApart ==
  \A s \in Source :
    LET b == Bearings(deque, s, clock[s])
    IN  Dispersed(b) => \E j, k \in DOMAIN b : Apart(b[j], b[k]) > Tolerance
=============================================================================
