# Specifications of Vectorized Tactical Semantics

TLA+ models of the CASK edge node and its C2 gateway, the configurations that
check them with TLC, and theorems about them that TLAPS checks. Paths below are
relative to the repository's root, `src/`.

## 1. The system

An edge node (`main_loop.py`) looks at video frames. Two models find boxes, and
what they find is fused (EnsembleDetector). Detections get the track id of their
place (SpatialDeduper), places are turned into Type 1 messages at most once a
second (EdgeStreEmitter), and these leave on the tactical wire: sealed under a
counter, appended to `wire_log.bin` and sent by UDP. Beside the wire, events are put into a durable outbox that a thread delivers to a sink (the
ontology channel), and everything the detector saw is written to a rich local
channel (VlmChannelSink). At C2 (`c2_listener.py`) a listener thread checks the
counters, opens the datagrams and appends what they say to JSONL files; an
engine resolves entities and infers Type 2 messages (supply_convoy), and a monitor
thread tells the operator of sources that fall silent and return.

    EnsembleDetector -> SpatialDeduper -> EdgeStreEmitter -> StreSink -> wire_log.bin
                                                                |
                                                                v  UDP
    c2_inferences.jsonl <- C2StreEngine <- C2Process  <-  StreUdpListener
                                              |
    edge events -> Outbox -> SyncWorker/stop() -> sinks  c2_observations.jsonl
    detections  -> VlmChannelSink                        status_loop -> operator

### Components

| Component | State | Operations | Hard part | What makes it correct |
|---|---|---|---|---|
| AntiReplayState, CoseSealer, StreSink (`stre_codec.py` 239-330, 408-445) | counter in memory, counter file, its `.tmp`, wire log | `next`, `seal`, `_emit_sealed` | crash between any two of them; files shared or damaged | a (source, counter) pair is used once; a start resumes above the log; nothing is sent that is not logged |
| StreUdpTransmitter, NetworkAwareStreSink (`network_transport.py` 137-229) | a socket | `write_type1`, `write_type2`, `send_sealed` | errors are swallowed | logging does not depend on the network |
| StreUdpListener (`network_transport.py` 232-400) | last counter, gap total and times by source | `serve`, `stats` | loss, duplicates, reordering, restart | no message twice, order kept, gaps counted |
| C2Process (`c2_listener.py`) | three files, counts, the engine | the two handlers, `status_loop` on a thread of its own | its files outlive it, its memory does not | files show part of what the edge logged |
| C2StreEngine (`stre_pipeline.py` 284-527) | entities, recent inferences | `ingest` | clocks of several sources; windows, wrap-around, hashing | fires when, and only when, the evidence is there, once a window |
| SpatialDeduper (`main_loop.py` 107-171) | id of each place, last time of each id | `update` | 16-bit ids are used again | live places have their own ids |
| EdgeStreEmitter (`stre_pipeline.py` 118-277) | last time of each id | `update` | outlives the ids it is keyed by | a place is sent once an interval and is not starved |
| Outbox (`ontology_factory.py` 248-350) | a table in SQLite | append, fetch, mark synced, mark retry | batches are read and then used without a lock | a row is marked only when delivered |
| OntologyEventFactory, SyncWorker (`ontology_factory.py` 353-517) | a thread, a stop event | emit, `run`, `stop` | two threads drain the same table | nothing lost; little delivered twice; `stop` returns |
| MultiSink (`stre_pipeline.py` 64-116) | sinks | write, `healthcheck` | one sink raises, or comes and goes within a write | a sink that is up all the time is given everything |
| Ensemble detector (`ensemble_detector.py`) | call count; models | `detect` | the outcome depends on the order of the boxes and on thresholds met exactly | nothing counted twice, nothing lost, agreement found |
| Main loop (`main_loop.py` 389-790) | frame, batch, `recent_type2`, `RunStats` | one frame after another; `Ctrl-C`, `q`, end | cut off between any two steps; files of several runs | log, statistics, outbox and rich channel agree |
| VLM channel (`vlm_channel.py`) | three files | write | two ways from a label to a class | a mark says that the class was sent for the frame |
| Wire log (`stre_codec.py` 433-440, `inspect_wire.py`) | `wire_log.bin` | append, read back | records cut off in the middle | all before the first tear can be read |
| `status_loop` (`c2_listener.py` 212-243) | sources called lost | a round a second | judges by a copy while datagrams arrive | each outage and each return is told, and no other |
| Codec and class bridge (`stre_codec.py`) | none | conversions | | |

### Interactions

- The main loop calls detector, deduper, emitter, sinks and engine on one thread. The
  SyncWorker, the listener and `status_loop` are threads of their own.
- The edge and C2 share nothing but datagrams. The edge processes of one host
  share `~/.cask/cask.counter` unless told otherwise.
- `status_loop` reads the listener's tables by copies taken under its lock.
- Files outlive processes: counter file, wire log, outbox, JSONL files.
- The Foundry channel and the wire do not know of each other.

The hazards these lead to are listed with their lines in `PROJECT.json`.

## 2. Modules

| Module | Models | Proofs |
|---|---|---|
| `StreWire` | the sealed envelope and the UDP path | |
| `EdgeNode` | the sending half, with crashes and the counter file | |
| `C2Listener` | the receiving half, with restarts and the JSONL files | |
| `StreLink` | `EdgeNode` and `C2Listener` over `StreWire`, and what must hold of them together | `StreLinkProofs` |
| `ObservationFeed` | what the wire promises, without counters or datagrams; `StreLink` implements it | |
| `Outbox` | the outbox table | |
| `MultiSink` | the sinks, and a write to all of them | |
| `OntologyFactory` | process, worker and drain over `Outbox` and `MultiSink` | `OntologyFactoryProofs` |
| `C2Engine` | entity resolution and the supply_convoy matcher | `C2EngineProofs` |
| `EdgeEmitter` | track ids and the rate limit | `EdgeEmitterProofs` |
| `EnsembleDetector` | `detect`: cadence, fusion, suppression | `EnsembleDetectorProofs` |
| `WireLog` | the records of `wire_log.bin` and their reader | |
| `VlmChannel` | the rich channel's files and marks | |
| `FrameLoop` | `main_loop.run` over `WireLog` and `VlmChannel`, with interrupts, crashes and several runs | `FrameLoopProofs` |
| `ContactMonitor` | `status_loop` beside the listener thread | `ContactMonitorProofs` |
| `SetInduction` | nothing of the code: induction over the natural numbers, for the proofs | itself |
| `MC...` | constants for TLC | |

Definitions called "faulty" next to the one they imitate are not used by the
models. They are the mutants that show that a property notices a bug.

### The link

`BeginSeal`, `ReplaceCounterFile`, `SealAndLog` and `SendDatagram` are the steps
of one `write_type1` or `write_type2` call, in the order of the code, and `Crash`
may come between any two. It is the end of the process only: what was written is in the
files, although neither the counter file nor the wire log is fsynced, and a host that
loses power could lose the last of it. `ReplaceFails` is `os.replace` finding that another
process took the `.tmp` away, `CounterExhausted` the `struct.error` past 32 bits.
Writing the `.tmp` text is one step: a crash within it leaves a `.tmp` that
nothing reads. A wire log that cannot be written raises through the main loop
and is a `Crash`.

`net` is a set from which a datagram may be read with or without leaving a copy,
which gives duplication and reordering; `Lose` gives loss. The listener handles
one datagram in two steps, as the code does: `Admit` or `RejectReplay` under the
lock, then `Record`, `RecordFails` or `Discard`. A datagram of a process without
the PSK is discarded only after it moved the tables, as in the code. Decryption
of an intact datagram succeeds exactly for the processes in `Provisioned`. The
listener's counts of replays and failures are left out.

`n`, the position of a message in the order its process produced it, is not on
the wire. It lets properties speak about the order of perception, which is what
the counter is for.

### The ontology channel

Each thread takes separate steps for fetch, dispatch and mark, with nothing held
in between, so that `OntologyFactory` interleaves them at will. `Exit` is a crash
as well as the end of the process. `next_retry_at` is kept as "in the future or
not", and `BackoffElapses` is the clock: every order of backoffs is possible,
also ones that 1, 2, 4 ... 300 s exclude. `join(timeout=5.0)` may return at any
time. A write is one step for each sink, and sinks come and go between them; a
sink refuses what it is given while it is down, and events in `Poison` are refused
by all. With one sink that is the sink `main_loop.py` builds, with two it is a
`MultiSink`, which `main_loop.py` does not build but the class offers.
`MaxFaults` bounds how many calls to the database raise.

### The engine

One call of `ingest` is one step: the engine has one thread. Of a position the
model keeps its cell, along one axis, and a spot within it; bearing and distance
between spots are a table (`Leg`) given by the instance. Each source has a clock,
at most `MaxSkew` apart from the others; what C2 hears of a source is stamped in
order, as the listener drops what is overtaken. `Coherent` multiplies the mean
out, so that no fractions are needed. Python's `hash` is modelled where it
matters: -1 and -2 collide.

### The emitter

A place is a label and a grid cell. `Detect` and `Collect` are one `update` of
the deduper, `Report` one turn of the emitter's loop. The clock may advance
between frames and between the two halves of a frame, at most `MaxLag`. Time
starts anywhere up to an interval after boot, since `time.monotonic()` counts
from there and `_last_emit_at` defaults to 0.

### The detector

Each turn of the three loops of `detect` (fusing, appending what only the second
model saw, suppression) is a step: `FuseNext`, `RestNext`, `NmsNext`. What the models
see is input. Overlaps are exact fractions where the code has floats, so that
"exactly the threshold" is a case of its own. A detection carries, in place of its
raw labels, the boxes it comes from. Of a label of the open-vocabulary model the run has
the text, which may be a key of `LABEL_NORM`, and the set of needles that occur in it, which is
all that `normalize_label` looks at. A label of the other model that is no key passes through.

### The frame loop

`FrameLoop` is `main_loop.run` with a step for every effect on a file or a count.
`Interrupt` (Ctrl-C) may come before any of them and leads to `stopping`, from where
`Finish` writes `run_stats.json`; `Crash` leads down without it. Within a record of
the wire log, `WriteInterrupted` leaves the length alone (the file object is closed
on the way out) and `WriteTorn` any beginning of the record. A further run appends
to the same files. What other modules model in detail is one step here: which
tracks are due, whether the engine fires, sealing and `stop()`.

In `WireLog` a record is a row of cells. After a torn record the reader takes the
next record's first bytes for the rest of the torn one and goes on in the middle of
a message; a length it reads there is as good as random, and the model has it reach
past the end, where the reader stops. In the code it may also end with an exception, as
`CoseEnvelope.from_bytes` (`inspect_wire.py` 94) stands outside the `try` and takes no record
shorter than header, nonce and tag. The properties only speak of what comes before the first tear.
The keys of the runs are left out: `ReadBack` is for a reader that has the key of each record.

The clock that goes into the event ids advances with each frame that is read: two
processed frames are at least a millisecond apart. An id names a place, where the code has the
place's 16-bit track id; that two places share one after a wrap is part of `EdgeEmitter` only.

`VlmChannel` has the two ways from a label to a STRE class: the bridge's table
(`InternalToStre`), which decides what is sent, and the eight rules of `normalize_label` with
the lookup that follows them in the main loop, which decide what is marked. A label may be
any text (`Label`), as the detector passes on what it has no class for. `Needles` gives for
each the needles of the rules that occur in it, which for the keys of the table are what they
are in the code (`VlmChannelAssumption`). The run has three keys of the table, "ifv", which only
the rules know, and "smoke", which neither does.

### The contact monitor

`Admit` and `Reject` are the locked part of `serve`; `Look` is `stats()` under the same
lock; `Judge` is one turn of the loop over the copy, between which datagrams go on
arriving. The monitor wakes a period after it last ended a round, late by at most
`Slack`. `back` is a history variable: the first datagram of a source after it was
found silent, and the counters skipped before it.

## 3. Runs

Runs named below pass unless they stand under "disagreements".

| Run | Bounds | Question |
|---|---|---|
| `LinkRestarts` | 1 process, 4 messages, 3 counters, 2 starts, 2 runs of C2 | order, duplicates and the refinement of `ObservationFeed`, with crashes on both sides, loss, and the counter running out |
| `LinkPair` | 2 processes with own source and file, 2 messages, 2 starts, no loss | uniqueness and durability of counters, logging before sending, and that what is in flight is shown |
| `LinkFaults` | 2 processes that share source and file, one without PSK, damaged files | what the listener guarantees by itself |
| `OutboxSync` | 2 events, batches of 2, 2 starts, 1 database call that raises, 1 sink | loss, duplicates and overtaking, with worker and drain racing, and a crash |
| `OutboxFair` | 2 events, one poisoned, 2 sinks, fair threads | delivery, what a sink that stays up is given, and termination of `stop` |
| `ConvoySources` | 2 sources, 2 cells, 1 class, window 2, 5 observations, 2 runs, 4 inferences remembered | firing exactly on evidence, once a window |
| `ConvoyMotion` | 1 source, spots in three directions | coherence of the bearings |
| `EmitterRate` | 3 places, 2 ids, 8 s | rate limit with ids lost, used again and shared |
| `Fusion` | up to 3 boxes of one model and 2 of the other, of 3 shapes, 2 classes and 2 confidences; 2 calls | nothing counted twice or lost, agreement found, boxes of a class kept apart |
| `FrameLoop` | 3 frames in 1 or 2 runs, every second one processed, 4 scenes | what log, reader, statistics, outbox and rich channel say of each other, cut off anywhere |
| `ConvoyWrap` | 1 source, bearings on both sides of north | a sentence about dispersed bearings that the code does not keep |
| `Contact` | 2 sources, 3 counters, 14 ticks, a period and a delay of 1 tick, thresholds of 4 | outages and returns are told within the lag, and no others |

The bounds are small, but every case the properties speak of happens in them:
two messages are enough for order and duplicates, a third counter for a gap and
a fourth message to run out of counters; two starts let a start follow a crash
at every step; two rows let a younger one overtake; three detections of two
seconds cross a window of 2; two ids for three places make ids wrap and collide.
In `Fusion` a box of one model can overlap two of the other, more, less and exactly as
much as the thresholds, in any order; the second call follows one without the second
model. In `FrameLoop` two runs let one append after a record the other tore; three
frames with every second one processed let an inference outlive its frame in
`recent_type2`, which holds one inference there and ten in the code; two vehicles make
a convoy. In `Contact` a source can fall silent, return and fall silent again in 14
ticks, and the second source makes the monitor judge by a copy that has aged. A
tick stands for any part of a second in which the named assumption holds: the lag
(a period and twice the delay) is below the two seconds of `RestoredWithin`.
CHECK_DEADLOCK is off where a run ends at its bounds.

### Disagreements between code and text

`ConvoyWrap` finds a behaviour of the code that a sentence of the repository
denies: bearings 340 and 20 count as dispersed. `PROJECT.json` quotes the sentence.

Two comments on the rich channel do not hold either; here lemmas of `FrameLoopProofs` show it.

- "True if this detection also got a Type 1 emitted" (`vlm_channel.py` 78). A detection that
  the detector calls "ifv" has no STRE class and is never sent, but is marked if a tank was sent
  (`MarkedUnsent`); and one message has all detections of its class marked.
- "Type 1s emitted from this frame" (`vlm_channel.py` 101) is the number of marked
  detections, which may be more than that, and less: soldiers are sent and never marked (`SentUnmarked`),
  nor are helicopters, other vehicles and unknown objects, as their normalized labels are not keys of
  the table they are looked up in (`main_loop.py` 593-596).

`MarkedWasSent` is what does hold: a detection is marked exactly if the class that its normalized label
names was sent for the frame, "represented on the wire" as `main_loop.py` 591-592 has it.

Other texts are narrower in the models than in the repository, and a premise or
a weaker statement marks the place. `SoleWriter` excludes that two edge processes
of one host open the same (default) counter file under one source id, and that a
counter file no longer parses, which the code reads as 0: either makes counters
come twice. `GapAccounting` speaks of counters not admitted where the code's
comment speaks of lost packets, as a crash between persisting and logging burns
a counter. `OvertakenOnlyIfFailed` is what is left of "oldest-first" beside the
backoff. `ConvoyReported` is stated for cells with different hashes; in CPython
-1 and -2 have the same. `OnePerInterval` and `HeldBackForCause` are stated for
places rather than track ids, which two places may share once ids wrap.

More such places, found while modelling:

- `PerceptionOrder` speaks of one run of C2: a restarted C2 has forgotten all
  counters and records a copy of an old datagram again.
- `OnceBeforeStop` says what it names: `stop()` delivers again what the worker has in
  hand. `CopiesBounded` is the limit that does hold.
- `ConvoyReported` is checked with clocks at most a window apart, as the garbage
  collection drops entities of all sources by the clock of
  the observation at hand (`stre_pipeline.py` 368).
- "Refractory: don't re-fire same source within the window" rests on the 64 places of
  `_recent_inferences`, which all sources share. `RefractoryHolds` needs that what the
  other sources can fire meanwhile fits (`SourcesFit`): with a window of 60 s and clocks
  at most 30 s apart, 64 places serve 32 sources. With more of them the last
  inference of a source can be pushed out and its convoy fired again.
- `MultiSink` (71-72) leaves retries to the outbox, but a write raises only when all
  sinks do: an event that one sink took is marked, and the others are not given it
  again. `SteadyHasAll` is about a sink that never went down.
- "re-syncing a duplicate is a no-op" (`ontology_factory.py` 29) is up to the sink: `JsonlSink`
  appends the event again. `CopiesBounded` counts these copies.
- "supply_convoy: >= 4 tracked vehicles" (`stre_pipeline.py` 301) is older than the constant, 3,
  and than the classes looked at, which include wheeled vehicles. The models follow the code,
  and `MinVehicles` is a constant of them.
- "IoU > 0.5" (`README.md` 387) is `>=` in the code and in `EnsembleDetector`.
- A webcam that fails is asked again for ever; `main_loop.py` 446 speaks of a few
  times. `VideoEnds` is about files.
- `ensemble_detector.py` 7 has muaythai labels win whenever both models agree on a
  box. A second gdino box on the same muaythai box stays as it is, unless it has
  the same class. `AgreementFound` is about boxes that only one model saw. Boxes that only
  gdino saw keep the class they were given, though line 10 of the same text has them
  labeled "military_object".
- The number in "missed N messages" counts from the start of C2, so
  `MissedCoversOutage` has it cover the outage and not equal it.
- `OutageAnnounced` speaks of sources heard by this run of C2: one that fell silent
  before a restart is never announced. Overtaken datagrams, and a source whose
  counter started again, are no sign of life; a datagram that does not decrypt is.

### Fairness

- `StreLink!FairSpec` (`LinkPair`): `serve` is a loop around a blocking read of a first-in
  first-out socket queue, so no datagram waits for ever at a running listener, and
  one that was read is handled. Nothing is assumed of the edge. `FeedCatchesUp`
  is checked without loss and without a restart of C2, which both refute it.
- `OntologyFactory!FairSpec` (`OutboxFair`): the worker and the main thread are scheduled and
  clocks advance. `PendingDelivered` assumes in its statement that a sink stays
  up and the process runs. It needs fewer poisoned events than a batch holds:
  with a batch full of them, always due again, others could wait for ever.
  `StopReturns` assumes that backoffs stop running out: as far as the model
  knows, rows could come due again as fast as the drain fails them.
- `FrameLoop!FairSpec`: the thread runs on while its frames come from a file, and
  `stop()` returns (which `StopReturns` checks). A webcam need not give a frame, and
  nobody need press a key.

## 4. Theorems

All theorems hold for every value of the constants that the named assumptions
of the modules admit. A theorem that needs more says so in its own `ASSUME`.

**SetInduction.** A set of natural numbers that has 0, and with n also n + 1, has them
all (`Induction`, and `InductionUpTo` a bound); it follows from the library's fact that
`<` is well-founded. The induction theorems of the library take a predicate, which these
provers cannot instantiate; with a set in its place they can. Three of the modules below
use it.

**StreLinkProofs.** Without further assumptions: `TypeCorrect`, `SentIsLogged`,
`CountersGrowInFiles` and `GapsAreCounted`. Under `SoleWriter` (a source id and a
counter file for each process, no damaged file): `CountersAreDurable`,
`CountersAreUnique`, `StartsResume`, `CounterFilesOnlyGrow`,
`FeedKeepsPerceptionOrder` and `WireImplementsFeed`. The argument:
`TypeInv` adds to `TypeOK` what a process in the middle of a write has in hand.
`PathInv` says that what is sealed, in flight, handled or recorded was logged.
`EdgeInv` ties memory, file and `.tmp` to the log: while a process is up its
counter agrees with the file up to the write in progress (`Agree`), nothing
logged is above the file (`Bounded`), and the log's counters and positions grow
together (`Growing`). That last fact carries the listener's order of counters
over to the order of perception. `OrderInv` says that what is recorded lies
below `lastCounter`. `GapInv` has for each source that its total is the
cardinality of `Missing`, which a datagram enlarges by exactly the interval it
skips. For the refinement three steps of the link change what the feed sees:
`SealAndLog` is a `Log`, `Record` a `Show`, `RestartC2` a `NewRun`. That the logged message
is the process's next one comes from `EdgeInv`, that the shown one was logged from `PathInv`,
and that it comes after those shown of its process in this run from `OrderInv` and
`Growing`. Every other step leaves the feed alone.

**OntologyFactoryProofs.** `TypeCorrect`, and `NothingIsLost`: whoever is about to
mark a row has its event delivered (`HandedOver`), so that marking keeps
`SyncedImpliesDelivered`. Neither needs anything of the database or the sinks.
`SteadySinkHasAll`: for a sink that was never down, whoever is past it in a write, or
about to mark, has given it the event, whatever the other sinks did.
`CopiesArePaidFor` and `WorkerDeliversOnce` count. A thread that may still give an event to
a sink (it waits in the batch, the call has not come past the sink, or the event is not
marked and the thread is not about to mark it) owes one delivery; every start pays for one by each
thread, every call to the database that raises for one more (`Paid`, `FirstRun`). Delivering
takes from what is owed, and only a fault, or a new start, makes a thread owe again.
`OldestFirst`: of the rows older than one that a thread has in its batch, each was given to
a sink, or tried, or is in the same batch or in hand (`InOrder`); rows are only added at
the end, so what was settled stays so.

**C2EngineProofs.** `TypeCorrect`, with the limits of the deques, and
`NoFalseConvoy`. What an entity holds was heard in this run, under the entity's
key, and is not stamped later than its source's clock (`HeldWasHeard`); so the
active entities are keys of classes and cells in the evidence, and there are no
more of them. Hash collisions only make entities fewer.

`RefractoryHolds` needs `SourcesFit` (section 3). `recent` is the end of
what the run fired (`RecentInv`), and what is fired is stamped in the order of the clocks,
give or take their skew. If an inference has been pushed out, `RecentMax` younger ones stand
in front of it, all of other sources, and each of these fires at most `PerWindow` times
before the first one's period is over: there are too many for the sources (`RefractoryLasts`).

`WithheldOnlyIfDispersed` assumes clocks at most a window apart and cells that do not collide
in Python's `hash` (`EntitiesApart`). What the run heard is its entity's last observation or
an older one, until the garbage collection drops it, and then no window that is yet
to come holds it (`HeardInv`); so there are as many active entities as pieces of evidence, and only
the bearings or the refractory period keep the matcher back. The latter means that
an inference of the window exists. `ConvoyNotMissed` (`ConvoyReported`) follows where
there are no bearings (`PlainReports`), as in the run `ConvoySources`. `WithheldIfDispersed` itself
is checked by no run.

`ConvoysMoveTogether` unfolds the sum in `Coherent`, a fold over a set, into its equation
(`SumUnfolds`; a solution exists by induction on the number of elements), bounds it by 359
for each bearing, and shows that two bearings within the tolerance of such a mean are
within twice the tolerance of each other on the circle (`WithinTwice`).

**EdgeEmitterProofs.** `TypeCorrect`, and `RateLimited` under `TimingAssumption`
(`StaleAfter + 1 >= Interval + MaxLag`, 30 s against 1 s in the code). The last
message of a place is an interval old, or the place still has an id that knows
of a message at least as late (`LastInv`); an id is dropped only when unseen for
so long that the first holds. `HeldBackOnlyForCause` is the other direction: the time an
id was last sent at is 0, or an interval ago, or that of a message of a place that still
has the id (`EmitInv`), as a place gives its id up only when it has not been seen for longer.

**EnsembleDetectorProofs.** For all outputs of the models, in any order, and any
thresholds: `TypeCorrect`, `CountedOnce`, `ReturnedApart` and `NoSightingLost`. `FuseInv`
has the boxes behind the list built so far be the ones looped over and the ones
matched, each once. `CoverInv` has everything suppressed covered by something kept of
its class with no less confidence, which needs the best of a class to come first.
`ApartInv` has nothing in the group be covered by what is kept. `AgreementIsFused`
assumes that the fusing threshold is above 0 (`FuseThreshold`). `AgreeInv` says that no box that went
into the list without a partner overlaps, by the threshold, a box that is still unmatched:
the candidates have a best one (`FirstBestExists`, by induction), and it was below the threshold. What is
matched later only makes fewer.

**FrameLoopProofs.** `TypeCorrect`; `MarksAreTrue`, for labels of any text: `HandInv` (the messages in
hand are of this run and frame) and `SentInv` (each was logged by the time its place in the
loop is past) have the classes sent be in the log, `SentBefore` (what is in the log of this run is
of an earlier frame, or in hand) has the log have no others, and `LinesBefore` (a line is
of an earlier frame until the frame is wholly sent) has no later message change what is
true of a line. `NamedIsDiagnosed` reduces the lookup to the class that the normalized
label names, and `SameClass` has that be the class the label is sent as, if it is a key of the
table: for each of them the first rule that applies is known (`FirstRule`, `RuleNeedles`). Then
`DetectionsAreMirrored`, from `RowsInv` (a row stamped
with the present time is of the present frame, as the clock moves on) and `ToldInv`; `ReportsMatchWire`, from
`TallyInv` (a run that goes on is behind by the message it is at) and from a
run's report being written after its last message and before the next run
(`LogRunsInv`, `ReportRunsInv`).
`LogReadsBack` is about the reader, which is a recursive function of the place in the file: that
the recursion has a solution, and that the solution reads one record and goes on behind it,
follows by induction from the end of the file. `WireInv` has the file begin with the records of
everything before the first tear, whatever follows; so the reader gives these
back. `EvidenceIsShown` adds that an inference rests on messages that were appended before it
(`HeardInv`, `EvidenceInv`). `CaptionsMatch`: of the inferences in `recent_type2` only the
last can be of this frame (`RecentInv`), so that the caption of a frame is that of the
inference it fired, and an inference has one exactly if it was fired in an earlier frame
or is past the caption in this one (`FiringInv`, `SceneInv`).

**ContactMonitorProofs.** `TypeCorrect`, `OutagesAreTold`, `ReturnsAreTold`,
`LostMeansSilent` and `MissedIsCovered`, under the two assumptions of the module. The
inductive invariant `MonitorInv` says of each source how old a copy may be, what
the sets of the monitor have to do with what the operator was told, and that the
first datagram of a return is still fresh when the monitor looks next.

With these every invariant and every action property that a passing run checks is the
statement of a theorem, and so is the refinement. Only model-checked are the liveness
properties `FeedCatchesUp`, `PendingDelivered`, `StopReturns` and `VideoEnds`, as this prover
treats neither fairness nor ENABLED.

## 5. Not modelled

Neural models, annotation and the window; texts, progress and the Markdown summary;
cryptography and the packing of CBOR; pixel-to-world arithmetic. Evidence ids,
threat level and confidence of an inference are left out of `C2Engine`; `FrameLoop` has
evidence ids, without their wrap at 16 bits. The listener's counts of replays and
failures, the heartbeats that `status_loop` computes and does not print, and the
totals `inspect_wire.py` prints are left out; the last divide by zero when no message
can be read. Two processes that generate a key file at the same time are not
modelled: keys are distributed before a mission, and `LinkFaults` has a process
without the shared one. `test_integration.py` is a test.

## 6. Plan

Done, in this order: the link, the ontology channel, the engine, the emitter,
`MultiSink`, the frame loop with wire log and rich channel, the contact monitor, the
detector; then the proofs of every invariant and action property that the passing runs
check, and of the refinement.

What could follow: event ids that wrap at 16 bits in `FrameLoop`, which would limit what
`EvidenceShown` can say in long runs; lemmas towards the liveness properties, such as that
every round of `stop()` brings its end nearer, which need no fairness.
