----------------------------- MODULE FrameLoop -----------------------------
(***************************************************************************)
(* main_loop.run: one frame after another from a video or a webcam through *)
(* detector, emitter, ontology channel, wire, engine and rich channel, in  *)
(* one thread.  Ctrl-C may come between any two steps, and the process may *)
(* die there; a further run appends to the same files.                     *)
(*                                                                         *)
(*   down - read - emit - mirror - write - counted - ingest - infer -      *)
(*   inferred - report - mark - digest - caption - end - read ... stopping *)
(*                                                                         *)
(* What other modules model is one step here: the rate limit (EdgeEmitter) *)
(* lets some of the tracks through, the engine (C2Engine) may fire on what *)
(* it has heard, sealing (EdgeNode) succeeds, and stop() (OntologyFactory) *)
(* returns.                                                                *)
(***************************************************************************)
EXTENDS WireLog, VlmChannel

CONSTANTS
  Scene,        \* what a frame may show: sequences of detections
  FrameSkip,    \* one frame of so many is processed
  RecentMax,    \* inferences kept in recent_type2 (10)
  CaptionTail,  \* inferences at its end that are looked at for captions (3)
  MinVehicles,  \* SUPPLY_CONVOY_MIN_VEHICLES
  MaxFrames,    \* bound: frames of all runs together
  MaxRuns       \* bound: runs

Detection == [label : Label, cell : Nat]

ASSUME FrameLoopAssumption ==
  /\ Scene \subseteq Seq(Detection)
  /\ {FrameSkip, RecentMax, CaptionTail, MinVehicles} \subseteq Nat \ {0}
  /\ {MaxFrames, MaxRuns} \subseteq Nat

VARIABLES
  pc,          \* the main thread
  run,         \* number of this run
  webcam,      \* cfg.webcam
  maxFrames,   \* max_frames
  delivers,    \* the frames that cap.read() gives before it first fails
  frameIdx,    \* frame_idx
  clock,       \* now_iso(), which moves on while a frame is processed
  dets,        \* det_result.detections
  batch,       \* type1_messages
  at,          \* position in the loop the thread is in
  nextEvent,   \* the emitter's next event id
  nextInf,     \* the engine's next inference id
  firing,      \* what ingest returned: an inference in hand, or none
  heard,       \* the Type 1 messages the engine was given in this run
  recent,      \* recent_type2
  stats,       \* RunStats
  rows,        \* the outbox: event ids with what was first told under them
  logged,      \* history: the messages appended whole
  torn,        \* history: how many of them precede the first torn record, or NotTorn
  reports      \* run_stats.json of the runs that wrote one

inputVars == <<webcam, maxFrames, delivers>>
frameVars == <<frameIdx, clock, dets, batch>>
engineVars == <<nextInf, firing, heard, recent>>
wireVars == <<wireFile, logged, torn>>
vars == <<pc, run, inputVars, frameVars, at, nextEvent, engineVars, stats, rows,
          wireVars, reports, vlmVars>>

NotTorn == -1
VehicleClass == {"vehicle_wheeled", "vehicle_tracked"}
NoStats == [seen |-> 0, processed |-> 0, type1 |-> 0, type2 |-> 0]

Running == pc \notin {"down", "stopping"}
Processing == Running /\ pc # "read"

Init ==
  /\ pc = "down" /\ run = 0
  /\ webcam = FALSE /\ maxFrames = 0 /\ delivers = 0
  /\ frameIdx = 0 /\ clock = 0
  /\ dets = <<>> /\ batch = <<>> /\ at = 1
  /\ nextEvent = 1 /\ nextInf = 1
  /\ firing = {} /\ heard = {} /\ recent = <<>>
  /\ stats = NoStats
  /\ rows = {}
  /\ wireFile = <<>> /\ logged = <<>> /\ torn = NotTorn
  /\ reports = <<>>
  /\ VlmInit

-----------------------------------------------------------------------------
(* Start, input and end *)

\* A further process opens a video or a webcam, and appends to the old files.
\* Of what is left of the bound on frames it may ask for as many as it likes;
\* a video may hold fewer frames than its header says.
StartRun ==
  /\ pc = "down"
  /\ run < MaxRuns
  /\ run' = run + 1
  /\ webcam' \in BOOLEAN
  /\ maxFrames' \in 1 .. MaxFrames - clock
  /\ delivers' \in IF webcam' THEN {maxFrames'} ELSE 0 .. maxFrames'
  /\ pc' = "read"
  /\ frameIdx' = 0 /\ dets' = <<>> /\ batch' = <<>> /\ at' = 1
  /\ nextEvent' = 1 /\ nextInf' = 1 /\ firing' = {} /\ heard' = {} /\ recent' = <<>>
  /\ stats' = NoStats
  /\ UNCHANGED <<clock, rows, wireVars, reports, vlmVars>>

\* cap.read() gives a frame, which is skipped or processed.
ReadFrame ==
  /\ pc = "read"
  /\ frameIdx < delivers
  /\ clock' = clock + 1
  /\ \/ /\ frameIdx % FrameSkip # 0
        /\ stats' = [stats EXCEPT !.seen = @ + 1]
        /\ frameIdx' = frameIdx + 1
        /\ UNCHANGED <<pc, dets>>
     \/ /\ frameIdx % FrameSkip = 0
        /\ stats' = [stats EXCEPT !.seen = @ + 1]
        /\ dets' \in Scene
        /\ pc' = "emit"
        /\ UNCHANGED frameIdx
  /\ UNCHANGED <<run, inputVars, batch, at, nextEvent, engineVars, rows, wireVars,
                 reports, vlmVars>>

\* A faulty GivesUp, which retries whatever the frames come from.
GivesUpNever == FALSE

\* A frame that cannot be read ends a video.  A webcam is asked again, without
\* end, and nothing changes.
GivesUp == ~webcam

EndOfInput ==
  /\ pc = "read"
  /\ \/ frameIdx >= maxFrames
     \/ frameIdx >= delivers /\ GivesUp
  /\ pc' = "stopping"
  /\ UNCHANGED <<run, inputVars, frameVars, at, nextEvent, engineVars, stats, rows,
                 wireVars, reports, vlmVars>>

\* KeyboardInterrupt, anywhere in the loop.
Interrupt ==
  /\ Running
  /\ pc' = "stopping"
  /\ UNCHANGED <<run, inputVars, frameVars, at, nextEvent, engineVars, stats, rows,
                 wireVars, reports, vlmVars>>

\* factory.stop() returns, and the summary and run_stats.json are written.
Finish ==
  /\ pc = "stopping"
  /\ pc' = "down"
  /\ reports' = Append(reports, [run |-> run, stats |-> stats])
  /\ UNCHANGED <<run, inputVars, frameVars, at, nextEvent, engineVars, stats, rows,
                 wireVars, vlmVars>>

\* The process dies, or an exception other than KeyboardInterrupt leaves run().
Crash ==
  /\ pc # "down"
  /\ pc' = "down"
  /\ UNCHANGED <<run, inputVars, frameVars, at, nextEvent, engineVars, stats, rows,
                 wireVars, reports, vlmVars>>

-----------------------------------------------------------------------------
(* Detections to Type 1 messages, and their mirror in the outbox *)

\* The detections of the frame that have a STRE class.
SendableAt == {i \in DOMAIN dets : Sendable(dets[i].label)}

\* emitter.update lets some of them through, in their order, and gives them the
\* next event ids.
Emit ==
  /\ pc = "emit"
  /\ \E n \in 0 .. Len(dets) : \E due \in [1 .. n -> SendableAt] :
       /\ \A i, j \in 1 .. n : i < j => due[i] < due[j]
       /\ batch' = [i \in 1 .. n |->
                      [kind |-> "type1", run |-> run, frame |-> frameIdx,
                       event |-> nextEvent + i - 1,
                       class |-> InternalToStre[dets[due[i]].label]]]
       /\ nextEvent' = nextEvent + n
  /\ pc' = "mirror" /\ at' = 1
  /\ UNCHANGED <<run, inputVars, frameIdx, clock, dets, engineVars, stats, rows,
                 wireVars, reports, vlmVars>>

\* A faulty EventId, without the time.
EventIdUntimed(d) == [of |-> d, ms |-> 0]

\* f"track-{track_id}-{last_seen_at}".  A track is the id of a place; that two
\* places share an id, once the ids have wrapped, is left to EdgeEmitter.
EventId(d) == [of |-> d, ms |-> clock]

\* Outbox.append is an INSERT OR IGNORE.
Inserted(id) ==
  IF \E r \in rows : r.id = id THEN rows
  ELSE rows \cup {[id |-> id, run |-> run, frame |-> frameIdx]}

\* factory.emit_track for every track of the frame.
Mirror ==
  /\ pc = "mirror"
  /\ IF at <= Len(dets)
     THEN rows' = Inserted(EventId(dets[at])) /\ at' = at + 1 /\ UNCHANGED pc
     ELSE pc' = "write" /\ at' = 1 /\ UNCHANGED rows
  /\ UNCHANGED <<run, inputVars, frameVars, nextEvent, engineVars, stats, wireVars,
                 reports, vlmVars>>

-----------------------------------------------------------------------------
(* The wire *)

\* One message goes to the log.
Log(m) ==
  /\ AppendRecord(m)
  /\ logged' = Append(logged, m)
  /\ UNCHANGED torn

\* Between the first and the last byte of m something stops the thread.
LogPartly(m, k) ==
  /\ AppendCells(m, k)
  /\ torn' = IF torn = NotTorn /\ k > 0 THEN Len(logged) ELSE torn
  /\ UNCHANGED logged

\* stre_sink.write_type1 for every message of the frame.
WriteType1 ==
  /\ pc = "write"
  /\ IF at <= Len(batch)
     THEN Log(batch[at]) /\ pc' = "counted" /\ UNCHANGED at
     ELSE pc' = "ingest" /\ at' = 1 /\ UNCHANGED wireVars
  /\ UNCHANGED <<run, inputVars, frameVars, nextEvent, engineVars, stats, rows,
                 reports, vlmVars>>

\* A faulty CountType1, which adds the whole batch for each of its messages.
CountType1Batch == [stats EXCEPT !.type1 = @ + Len(batch)]

CountType1 == [stats EXCEPT !.type1 = @ + 1]

Counted ==
  /\ pc = "counted"
  /\ stats' = CountType1
  /\ at' = at + 1 /\ pc' = "write"
  /\ UNCHANGED <<run, inputVars, frameVars, nextEvent, engineVars, rows, wireVars,
                 reports, vlmVars>>

\* The message that is being written.
AtHand ==
  CASE pc = "write" /\ at <= Len(batch) -> {batch[at]}
    [] pc = "infer" -> firing
    [] OTHER -> {}

\* Ctrl-C between the two writes of a record: closing the file writes out the
\* length alone.
WriteInterrupted ==
  /\ \E m \in AtHand : LogPartly(m, 1)
  /\ pc' = "stopping"
  /\ UNCHANGED <<run, inputVars, frameVars, at, nextEvent, engineVars, stats, rows,
                 reports, vlmVars>>

\* The disk is full, or the process is killed, while a record is written out.
WriteTorn ==
  /\ \E m \in AtHand, k \in 1 .. BodyCells : LogPartly(m, k)
  /\ pc' = "down"
  /\ UNCHANGED <<run, inputVars, frameVars, at, nextEvent, engineVars, stats, rows,
                 reports, vlmVars>>

-----------------------------------------------------------------------------
(* The engine in this process, and what it fires *)

\* The engine fires at most once a frame: all messages of a frame come from one
\* source, within its refractory period.
FiredThisFrame == \E i \in DOMAIN recent : recent[i].frame = frameIdx

Vehicles(msgs) == {m \in msgs : m.class \in VehicleClass}

\* Ingest, for every message of the frame.  What fires rests on some of the
\* vehicles heard of.
Ingest ==
  /\ pc = "ingest"
  /\ IF at <= Len(batch)
     THEN /\ heard' = heard \cup {batch[at]}
          /\ \/ /\ batch[at].class \in VehicleClass /\ ~FiredThisFrame
                /\ \E evidence \in SUBSET Vehicles(heard') :
                     /\ Cardinality(evidence) >= MinVehicles
                     /\ firing' = {[kind |-> "type2", run |-> run, frame |-> frameIdx,
                                    inference |-> nextInf,
                                    evidence |-> {m.event : m \in evidence}]}
                /\ nextInf' = nextInf + 1
                /\ pc' = "infer" /\ UNCHANGED at
             \/ /\ at' = at + 1
                /\ UNCHANGED <<pc, nextInf, firing>>
     ELSE /\ pc' = "tally" /\ at' = 1
          /\ UNCHANGED <<nextInf, firing, heard>>
  /\ UNCHANGED <<run, inputVars, frameVars, nextEvent, recent, stats, rows, wireVars,
                 reports, vlmVars>>

\* stre_sink.write_type2.
WriteType2 ==
  /\ pc = "infer"
  /\ \E inf \in firing : Log(inf)
  /\ pc' = "inferred"
  /\ UNCHANGED <<run, inputVars, frameVars, at, nextEvent, engineVars, stats, rows,
                 reports, vlmVars>>

\* recent_type2 keeps the last RecentMax.
Remembered(inf) ==
  IF Len(recent) < RecentMax THEN Append(recent, inf) ELSE Append(Tail(recent), inf)

Remember ==
  /\ pc = "inferred"
  /\ \E inf \in firing : recent' = Remembered(inf)
  /\ stats' = [stats EXCEPT !.type2 = @ + 1]
  /\ pc' = "report"
  /\ UNCHANGED <<run, inputVars, frameVars, at, nextEvent, nextInf, firing, heard, rows,
                 wireVars, reports, vlmVars>>

\* factory.emit_observation, under an id of its own.
ReportInference ==
  /\ pc = "report"
  /\ rows' = rows \cup {[id |-> [of |-> inf, ms |-> clock], run |-> run, frame |-> frameIdx] :
                          inf \in firing}
  /\ firing' = {}
  /\ at' = at + 1 /\ pc' = "ingest"
  /\ UNCHANGED <<run, inputVars, frameVars, nextEvent, nextInf, heard, recent, stats,
                 wireVars, reports, vlmVars>>

-----------------------------------------------------------------------------
(* The rich channel *)

Tally ==
  /\ pc = "tally"
  /\ stats' = [stats EXCEPT !.processed = @ + 1]
  /\ pc' = "mark"
  /\ UNCHANGED <<run, inputVars, frameVars, at, nextEvent, engineVars, rows, wireVars,
                 reports, vlmVars>>

\* stre_classes_emitted.
ClassesSent == {batch[i].class : i \in DOMAIN batch}

\* Every detection is marked and written.
Mark ==
  /\ pc = "mark"
  /\ IF at <= Len(dets)
     THEN WriteDetection(run, frameIdx, dets[at], ClassesSent) /\ at' = at + 1 /\ UNCHANGED pc
     ELSE pc' = "digest" /\ at' = 1 /\ UNCHANGED vlmVars
  /\ UNCHANGED <<run, inputVars, frameVars, nextEvent, engineVars, stats, rows, wireVars,
                 reports>>

Digest ==
  /\ pc = "digest"
  /\ IF dets # <<>> THEN WriteFrameDigest(run, frameIdx, dets, ClassesSent)
     ELSE UNCHANGED vlmVars
  /\ pc' = "caption"
  /\ UNCHANGED <<run, inputVars, frameVars, at, nextEvent, engineVars, stats, rows, wireVars,
                 reports>>

\* recent_type2[-3:]
Newest ==
  LET older == IF Len(recent) > CaptionTail THEN Len(recent) - CaptionTail ELSE 0
  IN  SubSeq(recent, older + 1, Len(recent))

\* A faulty ToCaption, which does not ask for the frame.
ToCaptionAnyFrame(inf) == TRUE

\* Only what fired at this frame is captioned.
ToCaption(inf) == inf.frame = frameIdx

Caption ==
  /\ pc = "caption"
  /\ IF at <= Len(Newest)
     THEN /\ IF ToCaption(Newest[at]) THEN WriteSceneCaption(run, frameIdx, Newest[at].inference)
             ELSE UNCHANGED vlmVars
          /\ at' = at + 1 /\ UNCHANGED pc
     ELSE pc' = "end" /\ at' = 1 /\ UNCHANGED vlmVars
  /\ UNCHANGED <<run, inputVars, frameVars, nextEvent, engineVars, stats, rows, wireVars,
                 reports>>

\* 'q' in the window ends the loop, and anything else goes on with the next frame.
EndFrame ==
  /\ pc = "end"
  /\ \/ pc' = "stopping" /\ UNCHANGED frameIdx
     \/ pc' = "read" /\ frameIdx' = frameIdx + 1
  /\ UNCHANGED <<run, inputVars, clock, dets, batch, at, nextEvent, engineVars, stats, rows,
                 wireVars, reports, vlmVars>>

-----------------------------------------------------------------------------
LoopStep ==
  \/ ReadFrame
  \/ EndOfInput
  \/ Emit
  \/ Mirror
  \/ WriteType1
  \/ Counted
  \/ Ingest
  \/ WriteType2
  \/ Remember
  \/ ReportInference
  \/ Tally
  \/ Mark
  \/ Digest
  \/ Caption
  \/ EndFrame
  \/ Finish

Next ==
  \/ StartRun
  \/ LoopStep
  \/ Interrupt
  \/ WriteInterrupted
  \/ WriteTorn
  \/ Crash

Spec == Init /\ [][Next]_vars

\* The thread runs on.  A webcam need not give a frame.
FairSpec == Spec /\ WF_vars(~webcam /\ LoopStep) /\ WF_vars(Finish)

-----------------------------------------------------------------------------
Type1Message == [kind : {"type1"}, run : 1 .. MaxRuns, frame : Nat, event : Nat \ {0},
                 class : {InternalToStre[l] : l \in DOMAIN InternalToStre}]
Type2Message == [kind : {"type2"}, run : 1 .. MaxRuns, frame : Nat, inference : Nat \ {0},
                 evidence : SUBSET (Nat \ {0})]
Message == Type1Message \cup Type2Message
Stats == [seen : Nat, processed : Nat, type1 : Nat, type2 : Nat]

LoopTypes ==
  /\ pc \in {"down", "read", "emit", "mirror", "write", "counted", "ingest", "infer", "inferred",
             "report", "tally", "mark", "digest", "caption", "end", "stopping"}
  /\ run \in 0 .. MaxRuns
  /\ webcam \in BOOLEAN
  /\ maxFrames \in Nat /\ delivers \in Nat /\ frameIdx \in Nat /\ clock \in Nat
  /\ at \in Nat \ {0} /\ nextEvent \in Nat \ {0} /\ nextInf \in Nat \ {0}

MessageTypes ==
  /\ dets \in Seq(Detection)
  /\ batch \in Seq(Type1Message)
  /\ firing \subseteq Type2Message
  /\ heard \subseteq Type1Message
  /\ recent \in Seq(Type2Message) /\ Len(recent) <= RecentMax

StatsTypes ==
  /\ stats \in Stats
  /\ reports \in Seq([run : 1 .. MaxRuns, stats : Stats])

WireTypes ==
  /\ wireFile \in Seq([msg : Message, at : 0 .. BodyCells])
  /\ logged \in Seq(Message)
  /\ torn \in Nat \cup {NotTorn}

RichTypes ==
  /\ detLines \in Seq([run : 1 .. MaxRuns, frame : Nat, det : Detection, inStre : BOOLEAN])
  /\ frameLines \in Seq([run : 1 .. MaxRuns, frame : Nat, total : Nat, emitted : Nat])
  /\ sceneLines \in Seq([run : 1 .. MaxRuns, frame : Nat, inference : Nat])

\* Each variable has its type, and recent_type2 its limit.
TypeOK == LoopTypes /\ MessageTypes /\ StatsTypes /\ WireTypes /\ RichTypes

\* The messages that no torn record precedes.
BeforeTear == IF torn = NotTorn THEN logged ELSE SubSeq(logged, 1, torn)

\* StreSink and inspect_wire.py: whatever run appended it, and however later
\* ones ended, the log gives back every message before the first record that
\* was cut off, in order.
ReadBack ==
  LET shown == Shown(wireFile)
  IN  /\ Len(shown) >= Len(BeforeTear)
      /\ SubSeq(shown, 1, Len(BeforeTear)) = BeforeTear

\* "evidence_ids" of an inference can be looked up: the log shows the Type 1
\* messages of its run that it rests on ahead of it.
EvidenceShown ==
  LET shown == Shown(wireFile)
  IN  \A j \in DOMAIN BeforeTear \cap DOMAIN shown :
        shown[j].kind = "type2"
          => \A e \in shown[j].evidence : \E i \in 1 .. j - 1 :
               /\ shown[i].kind = "type1"
               /\ shown[i].run = shown[j].run
               /\ shown[i].event = e

Appended(r, kind) == Cardinality({i \in DOMAIN logged : logged[i].run = r /\ logged[i].kind = kind})

\* run_stats.json: wherever a run was interrupted, it counts the messages it
\* appended, except at most the one it was at.
StatsMatchWire ==
  \A i \in DOMAIN reports :
    LET r == reports[i]
        missed1 == Appended(r.run, "type1") - r.stats.type1
        missed2 == Appended(r.run, "type2") - r.stats.type2
    IN  missed1 >= 0 /\ missed2 >= 0 /\ missed1 + missed2 <= 1

\* The Type 1 messages that were sent for the frame of a line.
SentFor(line) ==
  {j \in DOMAIN logged : /\ logged[j].kind = "type1"
                         /\ logged[j].run = line.run
                         /\ logged[j].frame = line.frame}
SentOfClass(line, class) == \E j \in SentFor(line) : logged[j].class = class

\* The STRE classes that have a normalized label of their own which leads to them.
ClassNamed ==
  [tracked_vehicle |-> "vehicle_tracked", wheeled_vehicle |-> "vehicle_wheeled",
   artillery |-> "artillery", drone |-> "drone"]

\* is_in_stre, "this detection's class was represented on the wire": a detection
\* is marked exactly if the log has a message of its frame of the class that its
\* normalized label names, and that is the class it is sent as, if it can be.
MarkedWasSent ==
  \A i \in DOMAIN detLines :
    LET line == detLines[i]
        named == NormalizedLabel(line.det.label)
    IN  /\ line.inStre <=> named \in DOMAIN ClassNamed /\ SentOfClass(line, ClassNamed[named])
        /\ line.inStre /\ Sendable(line.det.label)
             => SentOfClass(line, InternalToStre[line.det.label])

CaptionsOf(inf) ==
  {i \in DOMAIN sceneLines : sceneLines[i].run = inf.run /\ sceneLines[i].inference = inf.inference}

\* SceneCaption, "when a Type 2 fires": an inference has at most one caption,
\* and has one when its frame is done.
CaptionedOnce ==
  \A i \in DOMAIN logged :
    logged[i].kind = "type2"
      => /\ Cardinality(CaptionsOf(logged[i])) <= 1
         /\ pc \in {"read", "end"} /\ logged[i].run = run => CaptionsOf(logged[i]) # {}

\* "emit a track event for every active track this frame": of whatever the rich
\* channel tells, the outbox has an event of the same frame.
Mirrored ==
  \A i \in DOMAIN detLines :
    \E r \in rows : /\ r.run = detLines[i].run
                   /\ r.frame = detLines[i].frame
                   /\ r.id.of = detLines[i].det

\* The loop ends by itself when its frames come from a file.
VideoEnds == pc = "read" /\ ~webcam ~> pc = "down"
=============================================================================
