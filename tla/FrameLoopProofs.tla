--------------------------- MODULE FrameLoopProofs ---------------------------
(***************************************************************************)
(* Proofs about FrameLoop: what the rich channel tells of a frame agrees   *)
(* with what went to the wire and to the outbox, and the wire log can be   *)
(* read back to its first tear, wherever a run is cut off and whatever its *)
(* frames show.                                                            *)
(***************************************************************************)
EXTENDS FrameLoop, SetInduction, SequenceTheorems, FiniteSetTheorems, TLAPS

-----------------------------------------------------------------------------
(* Types *)

\* A run that is under way has a number.
TypeInv == TypeOK /\ (pc # "down" => run \in 1 .. MaxRuns)

\* What appending adds to a sequence, by its places.
LEMMA AppendPlaces ==
  ASSUME NEW S, NEW s \in Seq(S), NEW x \in S
  PROVE  /\ Append(s, x) \in Seq(S)
         /\ Len(s) \in Nat /\ Len(Append(s, x)) = Len(s) + 1
         /\ DOMAIN s = 1 .. Len(s)
         /\ DOMAIN Append(s, x) = 1 .. Len(s) + 1
         /\ \A i \in DOMAIN s : Append(s, x)[i] = s[i]
         /\ Append(s, x)[Len(s) + 1] = x
  BY AppendProperties, LenProperties

\* What a record holds, cell by cell.
LEMMA RecordPlaces ==
  ASSUME NEW M, NEW m \in M
  PROVE  /\ Record(m) \in Seq([msg : M, at : 0 .. BodyCells])
         /\ Len(Record(m)) = BodyCells + 1
         /\ \A i \in 1 .. BodyCells + 1 : Record(m)[i] = [msg |-> m, at |-> i - 1]
<1>1. BodyCells \in Nat
  BY WireLogAssumption
<1>2. \A i \in 1 .. BodyCells + 1 : [msg |-> m, at |-> i - 1] \in [msg : M, at : 0 .. BodyCells]
  BY <1>1
<1>3. Record(m) \in [1 .. BodyCells + 1 -> [msg : M, at : 0 .. BodyCells]]
  BY <1>2 DEF Record
<1>4. Record(m) \in Seq([msg : M, at : 0 .. BodyCells])
  <2>1. BodyCells + 1 \in Nat
    BY <1>1
  <2>. QED BY <1>3, <2>1, SeqDef
<1>5. DOMAIN Record(m) = 1 .. Len(Record(m)) /\ Len(Record(m)) \in Nat
  BY <1>4, LenProperties
<1>6. DOMAIN Record(m) = 1 .. BodyCells + 1
  BY DEF Record
<1>7. Len(Record(m)) = BodyCells + 1
  <2> DEFINE l == Len(Record(m))
  <2>1. 1 .. l = 1 .. BodyCells + 1 /\ l \in Nat
    BY <1>5, <1>6
  <2>. HIDE DEF l
  <2>2. l = BodyCells + 1
    BY <1>1, <2>1
  <2>. QED BY <2>2 DEF l
<1>. QED BY <1>4, <1>7 DEF Record

Cell == [msg : Message, at : 0 .. BodyCells]

\* A record is a sequence of cells, and so is what was written of it.
LEMMA RecordCells ==
  ASSUME NEW m \in Message
  PROVE  /\ Record(m) \in Seq(Cell)
         /\ \A k \in 1 .. BodyCells : SubSeq(Record(m), 1, k) \in Seq(Cell)
<1>1. BodyCells \in Nat \ {0}
  BY WireLogAssumption
<1>2. Record(m) \in Seq(Cell) /\ Len(Record(m)) = BodyCells + 1
  BY RecordPlaces DEF Cell
<1>3. ASSUME NEW k \in 1 .. BodyCells PROVE SubSeq(Record(m), 1, k) \in Seq(Cell)
  <2>1. \A i \in 1 .. k : Record(m)[i] \in Cell
    BY <1>1, <1>2, ElementOfSeq
  <2>. QED BY <1>1, <2>1, SubSeqProperties
<1>. QED BY <1>2, <1>3

\* Logging a message, or a part of it, keeps the types of the wire log.
LEMMA LogTypes ==
  ASSUME TypeOK, NEW m \in Message
  PROVE  /\ Log(m) => /\ wireFile' \in Seq(Cell) /\ logged' \in Seq(Message)
                      /\ torn' \in Nat \cup {NotTorn}
         /\ \A k \in 1 .. BodyCells :
              LogPartly(m, k) => /\ wireFile' \in Seq(Cell) /\ logged' \in Seq(Message)
                                 /\ torn' \in Nat \cup {NotTorn}
<1>1. wireFile \in Seq(Cell) /\ logged \in Seq(Message) /\ torn \in Nat \cup {NotTorn}
  BY DEF TypeOK, WireTypes, Cell
<1>2. Len(logged) \in Nat
  BY <1>1, LenProperties
<1>3. wireFile \o Record(m) \in Seq(Cell)
  BY <1>1, RecordCells, ConcatProperties
<1>4. \A k \in 1 .. BodyCells : wireFile \o SubSeq(Record(m), 1, k) \in Seq(Cell)
  BY <1>1, RecordCells, ConcatProperties
<1>5. Append(logged, m) \in Seq(Message)
  BY <1>1, AppendProperties
<1>. QED BY <1>1, <1>2, <1>3, <1>4, <1>5 DEF Log, LogPartly, AppendRecord, AppendCells

\* The member of a sequence that a loop has come to.
LEMMA MemberAt ==
  ASSUME NEW S, NEW s \in Seq(S), NEW i \in Nat \ {0}, i <= Len(s)
  PROVE  i \in DOMAIN s /\ s[i] \in S
  BY LenProperties, ElementOfSeq

LEMMA InitType == Init => TypeInv
<1> SUFFICES ASSUME Init PROVE TypeInv
  OBVIOUS
<1>1. /\ dets = <<>> /\ batch = <<>> /\ recent = <<>> /\ wireFile = <<>> /\ logged = <<>>
      /\ reports = <<>> /\ detLines = <<>> /\ frameLines = <<>> /\ sceneLines = <<>>
  BY DEF Init, VlmInit
<1>2. \A S : <<>> \in Seq(S)
  BY EmptySeq
<1>3. LoopTypes
  <2>1. MaxRuns \in Nat
    BY FrameLoopAssumption
  <2>2. webcam \in BOOLEAN
    BY Zenon DEF Init
  <2>3. run \in 0 .. MaxRuns
    BY <2>1 DEF Init
  <2>. QED BY <2>2, <2>3 DEF Init, LoopTypes
<1>4. MessageTypes
  <2>1. Len(recent) = 0
    BY <1>1, EmptySeq
  <2>. QED BY <1>1, <1>2, <2>1, FrameLoopAssumption DEF Init, MessageTypes
<1>5. StatsTypes
  BY <1>1, <1>2 DEF Init, NoStats, Stats, StatsTypes
<1>6. WireTypes
  BY <1>1, <1>2 DEF Init, WireTypes
<1>7. RichTypes
  BY <1>1, <1>2 DEF RichTypes
<1>. QED BY <1>3, <1>4, <1>5, <1>6, <1>7 DEF Init, TypeInv, TypeOK

\* The thread's own state.
LEMMA LoopTypesStep ==
  TypeInv /\ [Next]_vars => LoopTypes' /\ (pc' # "down" => run' \in 1 .. MaxRuns)
<1> SUFFICES ASSUME TypeInv, [Next]_vars
             PROVE  LoopTypes' /\ (pc' # "down" => run' \in 1 .. MaxRuns)
  OBVIOUS
<1>1. LoopTypes /\ (pc # "down" => run \in 1 .. MaxRuns)
  BY DEF TypeInv, TypeOK
<1>2. MaxRuns \in Nat /\ MaxFrames \in Nat
  BY FrameLoopAssumption
<1>. USE DEF LoopTypes, inputVars, frameVars, engineVars
<1>3. CASE StartRun
  <2>1. maxFrames' \in Nat /\ delivers' \in Nat /\ webcam' \in BOOLEAN
    BY <1>1, <1>2, <1>3 DEF StartRun
  <2>2. run' \in 1 .. MaxRuns /\ run' \in 0 .. MaxRuns
    BY <1>1, <1>2, <1>3 DEF StartRun
  <2>. QED BY <1>1, <1>3, <2>1, <2>2 DEF StartRun
<1>4. CASE ReadFrame
  BY <1>1, <1>4 DEF ReadFrame
<1>5. CASE EndOfInput \/ Interrupt \/ Finish \/ Crash
  BY <1>1, <1>5 DEF EndOfInput, Interrupt, Running, Finish, Crash
<1>6. CASE Emit
  <2>1. \E n \in 0 .. Len(dets) : nextEvent' = nextEvent + n
    BY <1>6 DEF Emit
  <2>2. nextEvent' \in Nat \ {0}
    BY <1>1, <2>1
  <2>. QED BY <1>1, <1>6, <2>2 DEF Emit
<1>7. CASE Mirror \/ WriteType1 \/ Counted
  BY <1>1, <1>7 DEF Mirror, WriteType1, Counted
<1>8. CASE WriteInterrupted \/ WriteTorn
  BY <1>1, <1>8 DEF WriteInterrupted, WriteTorn, AtHand
<1>9. CASE Ingest \/ WriteType2 \/ Remember \/ ReportInference
  BY <1>1, <1>9 DEF Ingest, WriteType2, Remember, ReportInference
<1>10. CASE Tally \/ Mark \/ Digest \/ Caption \/ EndFrame
  BY <1>1, <1>10 DEF Tally, Mark, Digest, Caption, EndFrame
<1>11. CASE UNCHANGED vars
  BY <1>1, <1>11 DEF vars
<1>. QED BY <1>3, <1>4, <1>5, <1>6, <1>7, <1>8, <1>9, <1>10, <1>11 DEF Next, LoopStep

\* What a frame shows, what is sent of it and what is fired.
LEMMA MessageTypesStep == TypeInv /\ [Next]_vars => MessageTypes'
<1> SUFFICES ASSUME TypeInv, [Next]_vars PROVE MessageTypes'
  OBVIOUS
<1>1. LoopTypes /\ MessageTypes /\ (pc # "down" => run \in 1 .. MaxRuns)
  BY DEF TypeInv, TypeOK
<1>2. RecentMax \in Nat \ {0}
  BY FrameLoopAssumption
<1>. USE DEF frameVars, engineVars
<1>3. CASE StartRun
  <2>1. \A S : <<>> \in Seq(S)
    BY EmptySeq
  <2>2. Len(<<>>) <= RecentMax
    BY <1>2, EmptySeq
  <2>. QED BY <1>3, <2>1, <2>2 DEF StartRun, MessageTypes
<1>4. CASE ReadFrame
  <2>1. dets' \in Seq(Detection)
    BY <1>1, <1>4, FrameLoopAssumption DEF ReadFrame, MessageTypes
  <2>. QED BY <1>1, <1>4, <2>1 DEF ReadFrame, MessageTypes
<1>5. CASE Emit
  <2>1. PICK n \in 0 .. Len(dets) : \E due \in [1 .. n -> SendableAt] :
          batch' = [i \in 1 .. n |->
                      [kind |-> "type1", run |-> run, frame |-> frameIdx,
                       event |-> nextEvent + i - 1,
                       class |-> InternalToStre[dets[due[i]].label]]]
    BY <1>5 DEF Emit
  <2>2. PICK due \in [1 .. n -> SendableAt] :
          batch' = [i \in 1 .. n |->
                      [kind |-> "type1", run |-> run, frame |-> frameIdx,
                       event |-> nextEvent + i - 1,
                       class |-> InternalToStre[dets[due[i]].label]]]
    BY <2>1
  <2>3. n \in Nat
    BY <1>1, LenProperties DEF MessageTypes
  <2>4. ASSUME NEW i \in 1 .. n
        PROVE  [kind |-> "type1", run |-> run, frame |-> frameIdx, event |-> nextEvent + i - 1,
                class |-> InternalToStre[dets[due[i]].label]] \in Type1Message
    <3>1. InternalToStre[dets[due[i]].label] \in {InternalToStre[l] : l \in DOMAIN InternalToStre}
      BY DEF SendableAt, Sendable
    <3>2. nextEvent + i - 1 \in Nat \ {0} /\ run \in 1 .. MaxRuns /\ frameIdx \in Nat
      BY <1>1, <1>5, <2>3 DEF Emit, LoopTypes
    <3>. QED BY <3>1, <3>2 DEF Type1Message
  <2>5. batch' \in [1 .. n -> Type1Message]
    BY <2>2, <2>4
  <2>6. batch' \in Seq(Type1Message)
    BY <2>3, <2>5, SeqDef
  <2>. QED BY <1>1, <1>5, <2>6 DEF Emit, MessageTypes
<1>6. CASE Ingest
  <2>1. CASE at <= Len(batch)
    <3>1. batch[at] \in Type1Message
      BY <1>1, <2>1, MemberAt DEF LoopTypes, MessageTypes
    <3>2. heard' \subseteq Type1Message
      BY <1>1, <1>6, <2>1, <3>1 DEF Ingest, MessageTypes
    <3>3. ASSUME NEW evidence \in SUBSET Vehicles(heard')
          PROVE  [kind |-> "type2", run |-> run, frame |-> frameIdx, inference |-> nextInf,
                  evidence |-> {m.event : m \in evidence}] \in Type2Message
      <4>1. \A m \in evidence : m.event \in Nat \ {0}
        BY <3>2 DEF Vehicles, Type1Message
      <4>2. run \in 1 .. MaxRuns /\ frameIdx \in Nat /\ nextInf \in Nat \ {0}
        BY <1>1, <1>6 DEF Ingest, LoopTypes
      <4>. QED BY <4>1, <4>2 DEF Type2Message
    <3>4. \/ \E evidence \in SUBSET Vehicles(heard') :
               firing' = {[kind |-> "type2", run |-> run, frame |-> frameIdx,
                           inference |-> nextInf, evidence |-> {m.event : m \in evidence}]}
          \/ firing' = firing
      BY <1>6, <2>1 DEF Ingest
    <3>5. firing' \subseteq Type2Message
      <4>1. CASE firing' = firing
        BY <1>1, <4>1 DEF MessageTypes
      <4>2. CASE firing' # firing
        <5>1. PICK evidence \in SUBSET Vehicles(heard') :
                firing' = {[kind |-> "type2", run |-> run, frame |-> frameIdx,
                            inference |-> nextInf, evidence |-> {m.event : m \in evidence}]}
          BY <3>4, <4>2
        <5>. QED BY <3>3, <5>1
      <4>. QED BY <4>1, <4>2
    <3>. QED BY <1>1, <1>6, <3>2, <3>5 DEF Ingest, MessageTypes
  <2>2. CASE ~(at <= Len(batch))
    BY <1>1, <1>6, <2>2 DEF Ingest, MessageTypes
  <2>. QED BY <2>1, <2>2
<1>7. CASE Remember
  <2>1. PICK inf \in firing : recent' = Remembered(inf)
    BY <1>7 DEF Remember
  <2>2. inf \in Type2Message /\ recent \in Seq(Type2Message) /\ Len(recent) <= RecentMax
    BY <1>1 DEF MessageTypes
  <2>3. Len(recent) \in Nat
    BY <2>2, LenProperties
  <2>4. recent' \in Seq(Type2Message) /\ Len(recent') <= RecentMax
    <3>1. CASE Len(recent) < RecentMax
      BY <1>2, <2>1, <2>2, <2>3, <3>1, AppendPlaces DEF Remembered
    <3>2. CASE ~(Len(recent) < RecentMax)
      <4>1. recent # <<>>
        BY <1>2, <2>3, <3>2, EmptySeq
      <4>2. Tail(recent) \in Seq(Type2Message) /\ Len(Tail(recent)) = Len(recent) - 1
        BY <2>2, <4>1, HeadTailProperties
      <4>3. /\ Append(Tail(recent), inf) \in Seq(Type2Message)
            /\ Len(Append(Tail(recent), inf)) = Len(Tail(recent)) + 1
        BY <2>2, <4>2, AppendPlaces
      <4>. QED BY <2>1, <2>2, <2>3, <3>2, <4>2, <4>3 DEF Remembered
    <3>. QED BY <3>1, <3>2
  <2>. QED BY <1>1, <1>7, <2>4 DEF Remember, MessageTypes
<1>8. CASE ReportInference
  BY <1>1, <1>8 DEF ReportInference, MessageTypes
<1>9. CASE UNCHANGED <<dets, batch, firing, heard, recent>>
  BY <1>1, <1>9 DEF MessageTypes
<1>10. \/ StartRun \/ ReadFrame \/ Emit \/ Ingest \/ Remember \/ ReportInference
       \/ UNCHANGED <<dets, batch, firing, heard, recent>>
  BY DEF Next, LoopStep, EndOfInput, Mirror, WriteType1, Counted, WriteType2, Tally, Mark, Digest,
         Caption, EndFrame, Finish, Interrupt, WriteInterrupted, WriteTorn, Crash, vars
<1>. QED BY <1>3, <1>4, <1>5, <1>6, <1>7, <1>8, <1>9, <1>10

\* What is counted.
LEMMA StatsTypesStep == TypeInv /\ [Next]_vars => StatsTypes'
<1> SUFFICES ASSUME TypeInv, [Next]_vars PROVE StatsTypes'
  OBVIOUS
<1>1. StatsTypes /\ (pc # "down" => run \in 1 .. MaxRuns)
  BY DEF TypeInv, TypeOK
<1>2. CASE Finish
  <2>1. [run |-> run, stats |-> stats] \in [run : 1 .. MaxRuns, stats : Stats]
    BY <1>1, <1>2 DEF Finish, StatsTypes
  <2>2. reports' \in Seq([run : 1 .. MaxRuns, stats : Stats])
    BY <1>1, <1>2, <2>1, AppendProperties DEF Finish, StatsTypes
  <2>. QED BY <1>1, <1>2, <2>2 DEF Finish, StatsTypes
<1>3. CASE StartRun \/ ReadFrame \/ Counted \/ Remember \/ Tally
  <2>1. stats' \in Stats
    BY <1>1, <1>3, SMTT(30) DEF StartRun, ReadFrame, Counted, CountType1, Remember, Tally, NoStats, Stats, StatsTypes
  <2>2. reports' = reports
    BY <1>3 DEF StartRun, ReadFrame, Counted, Remember, Tally
  <2>. QED BY <1>1, <2>1, <2>2 DEF StatsTypes
<1>4. CASE UNCHANGED <<stats, reports>>
  BY <1>1, <1>4 DEF StatsTypes
<1>5. \/ Finish \/ StartRun \/ ReadFrame \/ Counted \/ Remember \/ Tally
      \/ UNCHANGED <<stats, reports>>
  BY DEF Next, LoopStep, EndOfInput, Emit, Mirror, WriteType1, Ingest, WriteType2, ReportInference,
         Mark, Digest, Caption, EndFrame, Interrupt, WriteInterrupted, WriteTorn, Crash, vars
<1>. QED BY <1>2, <1>3, <1>4, <1>5

\* What a step does to the file.
LEMMA WireMoves ==
  ASSUME TypeInv, [Next]_vars
  PROVE  \/ \E m \in Message : Log(m)
         \/ \E m \in Message, k \in 1 .. BodyCells : LogPartly(m, k)
         \/ UNCHANGED wireVars
<1>1. LoopTypes /\ MessageTypes
  BY DEF TypeInv, TypeOK
<1>2. AtHand \subseteq Message
  BY <1>1, MemberAt DEF AtHand, LoopTypes, MessageTypes, Message
<1>3. CASE WriteType1
  <2>1. at <= Len(batch) => batch[at] \in Message
    BY <1>1, MemberAt DEF LoopTypes, MessageTypes, Message
  <2>. QED BY <1>3, <2>1 DEF WriteType1
<1>4. CASE WriteType2
  BY <1>1, <1>4 DEF WriteType2, MessageTypes, Message
<1>5. CASE WriteInterrupted \/ WriteTorn
  BY <1>2, <1>5, WireLogAssumption DEF WriteInterrupted, WriteTorn
<1>6. ~(WriteType1 \/ WriteType2 \/ WriteInterrupted \/ WriteTorn) => UNCHANGED wireVars
  BY DEF Next, LoopStep, StartRun, ReadFrame, EndOfInput, Emit, Mirror, Counted, Ingest, Remember,
         ReportInference, Tally, Mark, Digest, Caption, EndFrame, Finish, Interrupt, Crash, vars
<1>. QED BY <1>3, <1>4, <1>5, <1>6

\* The wire log.
LEMMA WireTypesStep == TypeInv /\ [Next]_vars => WireTypes'
<1> SUFFICES ASSUME TypeInv, [Next]_vars PROVE WireTypes'
  OBVIOUS
<1>1. TypeOK /\ LoopTypes /\ MessageTypes /\ WireTypes
  BY DEF TypeInv, TypeOK
<1>2. CASE \/ \E m \in Message : Log(m)
           \/ \E m \in Message, k \in 1 .. BodyCells : LogPartly(m, k)
  BY <1>1, <1>2, LogTypes DEF WireTypes, Cell
<1>3. CASE UNCHANGED wireVars
  BY <1>1, <1>3 DEF wireVars, WireTypes
<1>. QED BY <1>2, <1>3, WireMoves

\* The rich channel's files.
LEMMA RichTypesStep == TypeInv /\ [Next]_vars => RichTypes'
<1> SUFFICES ASSUME TypeInv, [Next]_vars PROVE RichTypes'
  OBVIOUS
<1>1. LoopTypes /\ MessageTypes /\ RichTypes /\ (pc # "down" => run \in 1 .. MaxRuns)
  BY DEF TypeInv, TypeOK
<1>2. CASE Mark /\ at <= Len(dets)
  <2> DEFINE Line == [run : 1 .. MaxRuns, frame : Nat, det : Detection, inStre : BOOLEAN]
  <2>1. dets[at] \in Detection
    BY <1>1, <1>2, MemberAt DEF LoopTypes, MessageTypes
  <2>2. [run |-> run, frame |-> frameIdx, det |-> dets[at],
         inStre |-> IsInStre(dets[at].label, ClassesSent)] \in Line
    BY <1>1, <1>2, <2>1 DEF Mark, LoopTypes, IsInStre
  <2>3. detLines' \in Seq(Line)
    <3>1. \E line \in Line : detLines' = Append(detLines, line)
      BY <1>2, <2>2 DEF Mark, WriteDetection
    <3>2. detLines \in Seq(Line)
      BY <1>1 DEF RichTypes
    <3>. QED BY <3>1, <3>2, AppendProperties
  <2>. QED BY <1>1, <1>2, <2>3 DEF Mark, WriteDetection, RichTypes
<1>3. CASE Digest /\ dets # <<>>
  <2> DEFINE Line == [run : 1 .. MaxRuns, frame : Nat, total : Nat, emitted : Nat]
             M == {i \in DOMAIN dets : IsInStre(dets[i].label, ClassesSent)}
  <2>1. Len(dets) \in Nat /\ DOMAIN dets = 1 .. Len(dets)
    BY <1>1, LenProperties DEF MessageTypes
  <2>2. IsFiniteSet(M)
    <3>1. M \in SUBSET DOMAIN dets /\ IsFiniteSet(DOMAIN dets)
      BY <2>1, FS_Interval
    <3>. QED BY <3>1, FS_Subset
  <2>3. Marked(dets, ClassesSent) \in Nat
    BY <2>2, FS_CardinalityType DEF Marked
  <2>4. [run |-> run, frame |-> frameIdx, total |-> Len(dets),
         emitted |-> Marked(dets, ClassesSent)] \in Line
    BY <1>1, <1>3, <2>1, <2>3 DEF Digest, LoopTypes
  <2>5. frameLines' \in Seq(Line)
    <3>1. \E line \in Line : frameLines' = Append(frameLines, line)
      BY <1>3, <2>4 DEF Digest, WriteFrameDigest
    <3>2. frameLines \in Seq(Line)
      BY <1>1 DEF RichTypes
    <3>. QED BY <3>1, <3>2, AppendProperties
  <2>. QED BY <1>1, <1>3, <2>5 DEF Digest, WriteFrameDigest, RichTypes
<1>4. CASE Caption /\ at <= Len(Newest) /\ ToCaption(Newest[at])
  <2> DEFINE Line == [run : 1 .. MaxRuns, frame : Nat, inference : Nat]
  <2>1. Newest \in Seq(Type2Message)
    <3> DEFINE older == IF Len(recent) > CaptionTail THEN Len(recent) - CaptionTail ELSE 0
    <3>1. recent \in Seq(Type2Message) /\ Len(recent) \in Nat /\ CaptionTail \in Nat
      BY <1>1, LenProperties, FrameLoopAssumption DEF MessageTypes
    <3>2. older \in Nat
      BY <3>1
    <3>. HIDE DEF older
    <3>3. \A i \in older + 1 .. Len(recent) : recent[i] \in Type2Message
      BY <3>1, <3>2, ElementOfSeq
    <3>4. SubSeq(recent, older + 1, Len(recent)) \in Seq(Type2Message)
      BY <3>1, <3>2, <3>3, SubSeqProperties
    <3>. QED BY <3>4 DEF Newest, older
  <2>2. Newest[at] \in Type2Message
    BY <1>1, <1>4, <2>1, MemberAt DEF LoopTypes
  <2>3. [run |-> run, frame |-> frameIdx, inference |-> Newest[at].inference] \in Line
    BY <1>1, <1>4, <2>2 DEF Caption, LoopTypes, Type2Message
  <2>4. sceneLines' \in Seq(Line)
    <3>1. \E line \in Line : sceneLines' = Append(sceneLines, line)
      BY <1>4, <2>3 DEF Caption, WriteSceneCaption
    <3>2. sceneLines \in Seq(Line)
      BY <1>1 DEF RichTypes
    <3>. QED BY <3>1, <3>2, AppendProperties
  <2>. QED BY <1>1, <1>4, <2>4 DEF Caption, WriteSceneCaption, RichTypes
<1>5. CASE UNCHANGED vlmVars
  BY <1>1, <1>5 DEF vlmVars, RichTypes
<1>6. \/ Mark /\ at <= Len(dets)
      \/ Digest /\ dets # <<>>
      \/ Caption /\ at <= Len(Newest) /\ ToCaption(Newest[at])
      \/ UNCHANGED vlmVars
  BY DEF Next, LoopStep, StartRun, ReadFrame, EndOfInput, Emit, Mirror, WriteType1, Counted, Ingest,
         WriteType2, Remember, ReportInference, Tally, Mark, Digest, Caption, EndFrame, Finish,
         Interrupt, WriteInterrupted, WriteTorn, Crash, vars
<1>. QED BY <1>2, <1>3, <1>4, <1>5, <1>6

LEMMA NextType == TypeInv /\ [Next]_vars => TypeInv'
  BY LoopTypesStep, MessageTypesStep, StatsTypesStep, WireTypesStep, RichTypesStep DEF TypeInv, TypeOK

\* Every variable keeps its type, and recent_type2 its limit.
THEOREM TypeCorrect == Spec => []TypeOK
<1>1. TypeInv => TypeOK
  BY DEF TypeInv
<1>. QED BY <1>1, InitType, NextType, PTL DEF Spec

-----------------------------------------------------------------------------
(* What the rich channel marks was sent *)

Written == {"ingest", "infer", "inferred", "report", "tally", "mark", "digest", "caption", "end"}

Logged(m) == \E j \in DOMAIN logged : logged[j] = m

\* The messages in hand are of this run, and those of the frame of this frame.
HandInv ==
  /\ pc \in Written \cup {"mirror", "write", "counted"}
       => \A i \in DOMAIN batch : batch[i].run = run /\ batch[i].frame = frameIdx
  /\ pc \in {"infer", "inferred", "report"} => \A m \in firing : m.run = run

\* The message has gone to the log.
WasSent(i) == pc \in Written \/ (pc = "write" /\ i < at) \/ (pc = "counted" /\ i <= at)

SentInv == \A i \in DOMAIN batch : WasSent(i) => Logged(batch[i])

\* The log has Type 1 messages of earlier runs and frames, and those in hand.
SentBefore ==
  \A j \in DOMAIN logged :
    /\ logged[j].run <= run
    /\ logged[j].kind = "type1" /\ logged[j].run = run /\ Running
         => \/ logged[j].frame < frameIdx
            \/ /\ pc \in Written \cup {"write", "counted"}
               /\ logged[j].frame = frameIdx
               /\ \E i \in DOMAIN batch : batch[i] = logged[j]

\* The lines about detections are of earlier runs and frames, until the frame is
\* wholly sent.
LinesBefore ==
  \A i \in DOMAIN detLines :
    /\ detLines[i].run <= run
    /\ detLines[i].run = run /\ Running
         => \/ detLines[i].frame < frameIdx
            \/ pc \in {"mark", "digest", "caption", "end"} /\ detLines[i].frame = frameIdx

\* MarkedWasSent, where a label is marked under the class its normalized form names.
MarkExact ==
  \A i \in DOMAIN detLines, label \in Label :
    detLines[i].det.label = label
      => (detLines[i].inStre
            <=> /\ NormalizedLabel(label) \in DOMAIN ClassNamed
                /\ \E j \in DOMAIN logged : /\ logged[j].kind = "type1"
                                           /\ logged[j].run = detLines[i].run
                                           /\ logged[j].frame = detLines[i].frame
                                           /\ logged[j].class = ClassNamed[NormalizedLabel(label)])

\* The rules that apply to a label.
Hits(label) == {i \in 1 .. 8 : NormalizeRules[i][1] \cap Needles[label] # {}}

\* The labels the rules give.
LEMMA RuleLabels ==
  /\ DOMAIN NormalizeRules = 1 .. 8
  /\ NormalizeRules[1][2] = "tracked_vehicle"
  /\ NormalizeRules[2][2] = "tracked_vehicle"
  /\ NormalizeRules[3][2] = "wheeled_vehicle"
  /\ NormalizeRules[4][2] = "artillery"
  /\ NormalizeRules[5][2] = "personnel"
  /\ NormalizeRules[6][2] = "drone"
  /\ NormalizeRules[7][2] = "rotary_aircraft"
  /\ NormalizeRules[8][2] = "vehicle_other"
<1>1. DOMAIN NormalizeRules = 1 .. 8
  BY DEF NormalizeRules
<1>2. /\ NormalizeRules[1][2] = "tracked_vehicle" /\ NormalizeRules[2][2] = "tracked_vehicle"
      /\ NormalizeRules[3][2] = "wheeled_vehicle" /\ NormalizeRules[4][2] = "artillery"
  BY DEF NormalizeRules
<1>3. /\ NormalizeRules[5][2] = "personnel" /\ NormalizeRules[6][2] = "drone"
      /\ NormalizeRules[7][2] = "rotary_aircraft" /\ NormalizeRules[8][2] = "vehicle_other"
  BY DEF NormalizeRules
<1>. QED BY <1>1, <1>2, <1>3

\* The rules that are first to apply to the keys of the bridge's table.
LEMMA RuleNeedles ==
  /\ "tank" \in NormalizeRules[1][1] /\ "apc" \in NormalizeRules[2][1]
  /\ "truck" \in NormalizeRules[3][1] /\ "artillery" \in NormalizeRules[4][1]
  /\ "drone" \in NormalizeRules[6][1]
  /\ NormalizeRules[1][1] \cap {"apc", "truck", "artillery", "drone",
       "soldier", "helicopter", "military_vehicle", "vehicle"} = {}
  /\ NormalizeRules[2][1] \cap {"truck", "artillery", "drone",
       "soldier", "helicopter", "military_vehicle", "vehicle"} = {}
  /\ NormalizeRules[3][1] \cap {"artillery", "drone",
       "soldier", "helicopter", "military_vehicle", "vehicle"} = {}
  /\ NormalizeRules[4][1] \cap {"drone",
       "soldier", "helicopter", "military_vehicle", "vehicle"} = {}
  /\ NormalizeRules[5][1] \cap {"drone"} = {}
  /\ NormalizeRules[6][1] \cap {"soldier", "helicopter", "military_vehicle", "vehicle"} = {}
<1>1. /\ "tank" \in NormalizeRules[1][1] /\ "apc" \in NormalizeRules[2][1]
      /\ "truck" \in NormalizeRules[3][1] /\ "artillery" \in NormalizeRules[4][1]
      /\ "drone" \in NormalizeRules[6][1]
  BY DEF NormalizeRules
<1>2. NormalizeRules[1][1] \cap {"apc", "truck", "artillery", "drone",
       "soldier", "helicopter", "military_vehicle", "vehicle"} = {}
  BY DEF NormalizeRules
<1>3. NormalizeRules[2][1] \cap {"truck", "artillery", "drone",
       "soldier", "helicopter", "military_vehicle", "vehicle"} = {}
  BY DEF NormalizeRules
<1>4. NormalizeRules[3][1] \cap {"artillery", "drone",
       "soldier", "helicopter", "military_vehicle", "vehicle"} = {}
  BY DEF NormalizeRules
<1>5. NormalizeRules[4][1] \cap {"drone",
       "soldier", "helicopter", "military_vehicle", "vehicle"} = {}
  BY DEF NormalizeRules
<1>6. NormalizeRules[5][1] \cap {"drone"} = {}
  BY DEF NormalizeRules
<1>7. NormalizeRules[6][1] \cap {"soldier", "helicopter", "military_vehicle", "vehicle"} = {}
  BY DEF NormalizeRules
<1>. QED BY <1>1, <1>2, <1>3, <1>4, <1>5, <1>6, <1>7

\* The rule with the smallest number decides.
LEMMA FirstRule ==
  ASSUME NEW label, NEW i \in Hits(label), \A j \in Hits(label) : i <= j
  PROVE  NormalizedLabel(label) = NormalizeRules[i][2]
<1>1. DOMAIN NormalizeRules = 1 .. 8
  BY RuleLabels
<1>2. {k \in DOMAIN NormalizeRules : NormalizeRules[k][1] \cap Needles[label] # {}} = Hits(label)
  BY <1>1 DEF Hits
<1>3. (CHOOSE k \in Hits(label) : \A j \in Hits(label) : k <= j) = i
  BY DEF Hits
<1>. QED BY <1>2, <1>3 DEF NormalizedLabel

\* What a normalized label may be.
LEMMA NormalizedForms ==
  ASSUME NEW label
  PROVE  NormalizedLabel(label) \in {"tracked_vehicle", "wheeled_vehicle", "artillery", "personnel",
                                     "drone", "rotary_aircraft", "vehicle_other", "unknown"}
<1>1. CASE Hits(label) = {}
  <2>1. DOMAIN NormalizeRules = 1 .. 8
    BY RuleLabels
  <2>. QED BY <1>1, <2>1 DEF Hits, NormalizedLabel
<1>2. CASE Hits(label) # {}
  <2>1. PICK i \in Hits(label) : \A j \in Hits(label) : i <= j
    <3>1. Hits(label) \subseteq Nat
      BY DEF Hits
    <3>. QED BY <1>2, <3>1, Least
  <2>2. NormalizedLabel(label) = NormalizeRules[i][2]
    BY <2>1, FirstRule
  <2>3. i \in 1 .. 8
    BY DEF Hits
  <2>. QED BY <2>2, <2>3, RuleLabels
<1>. QED BY <1>1, <1>2

\* The replaced label leads to the class that the normalized one names.
LEMMA NamedIsDiagnosed ==
  ASSUME NEW label
  PROVE  DiagnosticClass(label) = IF NormalizedLabel(label) \in DOMAIN ClassNamed
                                  THEN ClassNamed[NormalizedLabel(label)] ELSE NoClass
<1>1. DOMAIN InternalToStre = {"tank", "apc", "artillery", "soldier", "drone", "helicopter",
                               "truck", "military_vehicle", "civilian_vehicle", "military_object"}
  BY DEF InternalToStre
<1>2. /\ InternalToStre["tank"] = "vehicle_tracked" /\ InternalToStre["truck"] = "vehicle_wheeled"
      /\ InternalToStre["artillery"] = "artillery" /\ InternalToStre["drone"] = "drone"
  BY DEF InternalToStre
<1> DEFINE n == NormalizedLabel(label)
<1>3. n \in {"tracked_vehicle", "wheeled_vehicle", "artillery", "personnel", "drone",
             "rotary_aircraft", "vehicle_other", "unknown"}
  BY NormalizedForms
<1>4. /\ n = "tracked_vehicle" => DiagnosticLabel(label) = "tank"
      /\ n = "wheeled_vehicle" => DiagnosticLabel(label) = "truck"
      /\ n # "tracked_vehicle" /\ n # "wheeled_vehicle" => DiagnosticLabel(label) = n
  BY DEF DiagnosticLabel
<1>. HIDE DEF n
<1>5. /\ DOMAIN ClassNamed = {"tracked_vehicle", "wheeled_vehicle", "artillery", "drone"}
      /\ ClassNamed["tracked_vehicle"] = "vehicle_tracked"
      /\ ClassNamed["wheeled_vehicle"] = "vehicle_wheeled"
      /\ ClassNamed["artillery"] = "artillery" /\ ClassNamed["drone"] = "drone"
  BY DEF ClassNamed
<1>6. DiagnosticClass(label) = IF DiagnosticLabel(label) \in DOMAIN InternalToStre
                               THEN InternalToStre[DiagnosticLabel(label)] ELSE NoClass
  BY DEF DiagnosticClass, Sendable
<1>7. n \in {"tracked_vehicle", "wheeled_vehicle", "artillery", "drone"}
        => DiagnosticClass(label) = ClassNamed[n] /\ n \in DOMAIN ClassNamed
  BY <1>1, <1>2, <1>4, <1>5, <1>6
<1>8. n \in {"personnel", "rotary_aircraft", "vehicle_other", "unknown"}
        => DiagnosticClass(label) = NoClass /\ n \notin DOMAIN ClassNamed
  BY <1>1, <1>4, <1>5, <1>6
<1>9. n \in {"tracked_vehicle", "wheeled_vehicle", "artillery", "drone"}
      \/ n \in {"personnel", "rotary_aircraft", "vehicle_other", "unknown"}
  BY <1>3
<1>. QED BY <1>7, <1>8, <1>9 DEF n

\* A rule applies by one of the needles in the label.
LEMMA HitBy ==
  ASSUME NEW label, NEW i \in 1 .. 8
  PROVE  i \in Hits(label) <=> \E needle \in Needles[label] : needle \in NormalizeRules[i][1]
  BY DEF Hits

\* A label that can be sent is marked under the class it is sent as, or never.
LEMMA SameClass ==
  ASSUME NEW label \in Label, Sendable(label), NormalizedLabel(label) \in DOMAIN ClassNamed
  PROVE  ClassNamed[NormalizedLabel(label)] = InternalToStre[label]
<1>1. Needles[label] = KeyNeedles[label]
  BY VlmChannelAssumption DEF Sendable
<1>2. label \in {"tank", "apc", "artillery", "soldier", "drone", "helicopter", "truck",
                 "military_vehicle", "civilian_vehicle", "military_object"}
  BY DEF Sendable, InternalToStre
<1>3. ASSUME NEW i \in 1 .. 8, i \in Hits(label), \A j \in 1 .. 8 : j < i => j \notin Hits(label)
      PROVE  NormalizedLabel(label) = NormalizeRules[i][2]
  <2>1. \A j \in Hits(label) : i <= j
    BY <1>3 DEF Hits
  <2>. QED BY <1>3, <2>1, FirstRule
<1>4. CASE label = "tank"
  <2>1. Needles[label] = {"tank"}
    BY <1>1, <1>4 DEF KeyNeedles
  <2>2. 1 \in Hits(label)
    BY <2>1, HitBy, RuleNeedles
  <2>3. NormalizedLabel(label) = "tracked_vehicle"
    BY <1>3, <2>2, RuleLabels DEF Hits
  <2>. QED BY <1>4, <2>3 DEF ClassNamed, InternalToStre
<1>5. CASE label = "apc"
  <2>1. Needles[label] = {"apc"}
    BY <1>1, <1>5 DEF KeyNeedles
  <2>2. 2 \in Hits(label) /\ 1 \notin Hits(label)
    BY <2>1, HitBy, RuleNeedles
  <2>3. NormalizedLabel(label) = "tracked_vehicle"
    BY <1>3, <2>2, RuleLabels DEF Hits
  <2>. QED BY <1>5, <2>3 DEF ClassNamed, InternalToStre
<1>6. CASE label = "truck"
  <2>1. Needles[label] = {"truck"}
    BY <1>1, <1>6 DEF KeyNeedles
  <2>2. 3 \in Hits(label) /\ \A j \in {1, 2} : j \notin Hits(label)
    BY <2>1, HitBy, RuleNeedles
  <2>3. NormalizedLabel(label) = "wheeled_vehicle"
    BY <1>3, <2>2, RuleLabels DEF Hits
  <2>. QED BY <1>6, <2>3 DEF ClassNamed, InternalToStre
<1>7. CASE label = "artillery"
  <2>1. Needles[label] = {"artillery"}
    BY <1>1, <1>7 DEF KeyNeedles
  <2>2. 4 \in Hits(label) /\ \A j \in {1, 2, 3} : j \notin Hits(label)
    BY <2>1, HitBy, RuleNeedles
  <2>3. NormalizedLabel(label) = "artillery"
    BY <1>3, <2>2, RuleLabels DEF Hits
  <2>. QED BY <1>7, <2>3 DEF ClassNamed, InternalToStre
<1>8. CASE label = "drone"
  <2>1. Needles[label] = {"drone"}
    BY <1>1, <1>8 DEF KeyNeedles
  <2>2. 6 \in Hits(label) /\ \A j \in {1, 2, 3, 4, 5} : j \notin Hits(label)
    BY <2>1, HitBy, RuleNeedles
  <2>3. NormalizedLabel(label) = "drone"
    BY <1>3, <2>2, RuleLabels DEF Hits
  <2>. QED BY <1>8, <2>3 DEF ClassNamed, InternalToStre
\* The others normalize to what names no class.
<1>9. CASE label \in {"soldier", "helicopter", "military_vehicle", "civilian_vehicle",
                      "military_object"}
  <2>1. Needles[label] \subseteq {"soldier", "helicopter", "military_vehicle", "vehicle"}
    BY <1>1, <1>9 DEF KeyNeedles
  <2>2. \A j \in {1, 2, 3, 4, 6} : j \notin Hits(label)
    BY <2>1, HitBy, RuleNeedles
  <2>3. NormalizedLabel(label) \in {"personnel", "rotary_aircraft", "vehicle_other", "unknown"}
    <3>1. CASE Hits(label) = {}
      <4>1. DOMAIN NormalizeRules = 1 .. 8
        BY RuleLabels
      <4>. QED BY <3>1, <4>1 DEF Hits, NormalizedLabel
    <3>2. CASE Hits(label) # {}
      <4>1. PICK i \in Hits(label) : \A j \in Hits(label) : i <= j
        <5>1. Hits(label) \subseteq Nat
          BY DEF Hits
        <5>. QED BY <3>2, <5>1, Least
      <4>2. NormalizedLabel(label) = NormalizeRules[i][2] /\ i \in {5, 7, 8}
        BY <2>2, <4>1, FirstRule DEF Hits
      <4>. QED BY <4>2, RuleLabels
    <3>. QED BY <3>1, <3>2
  <2>. QED BY <2>3 DEF ClassNamed
<1>. QED BY <1>2, <1>4, <1>5, <1>6, <1>7, <1>8, <1>9

\* "True if this detection also got a Type 1 emitted" does not hold of is_in_stre:
\* what is called an ifv cannot be sent, and is marked if a tank was.
LEMMA MarkedUnsent ==
  ASSUME NEW label \in Label, Needles[label] = {"ifv"}
  PROVE  ~Sendable(label) /\ IsInStre(label, {InternalToStre["tank"]})
<1>1. ~Sendable(label)
  <2>1. "ifv" \notin KeyNeedles[label] \/ label \notin DOMAIN InternalToStre
    BY DEF KeyNeedles, InternalToStre
  <2>. QED BY <2>1, VlmChannelAssumption DEF Sendable
<1>2. NormalizedLabel(label) = "tracked_vehicle"
  <2>1. "ifv" \in NormalizeRules[1][1]
    BY DEF NormalizeRules
  <2>2. 1 \in Hits(label)
    BY <2>1, HitBy
  <2>3. \A j \in Hits(label) : 1 <= j
    BY DEF Hits
  <2>. QED BY <2>2, <2>3, FirstRule, RuleLabels
<1>3. DiagnosticClass(label) = "vehicle_tracked"
  BY <1>2, NamedIsDiagnosed DEF ClassNamed
<1>4. InternalToStre["tank"] = "vehicle_tracked"
  BY DEF InternalToStre
<1>. QED BY <1>1, <1>3, <1>4 DEF IsInStre

\* "Type 1s emitted from this frame" does not hold of stre_emitted_count: a
\* soldier is sent, and not marked.
LEMMA SentUnmarked ==
  ASSUME "soldier" \in Label
  PROVE  Sendable("soldier") /\ ~IsInStre("soldier", {InternalToStre["soldier"]})
<1>1. Sendable("soldier")
  BY DEF Sendable, InternalToStre
<1>2. Needles["soldier"] = {"soldier"}
  BY <1>1, VlmChannelAssumption DEF Sendable, KeyNeedles
<1>3. NormalizedLabel("soldier") = "personnel"
  <2>1. "soldier" \in NormalizeRules[5][1]
    BY DEF NormalizeRules
  <2>2. 5 \in Hits("soldier") /\ \A j \in {1, 2, 3, 4} : j \notin Hits("soldier")
    BY <1>2, <2>1, HitBy, RuleNeedles
  <2>3. \A j \in Hits("soldier") : 5 <= j
    BY <2>2 DEF Hits
  <2>. QED BY <2>2, <2>3, FirstRule, RuleLabels
<1>4. DiagnosticClass("soldier") = NoClass
  BY <1>3, NamedIsDiagnosed DEF ClassNamed
<1>5. NoClass # InternalToStre["soldier"]
  BY DEF NoClass, InternalToStre
<1>. QED BY <1>1, <1>4, <1>5 DEF IsInStre

\* Logging adds one message to the log.
LEMMA LoggedMore ==
  ASSUME WireTypes, NEW m \in Message, Log(m)
  PROVE  /\ DOMAIN logged = 1 .. Len(logged) /\ Len(logged) \in Nat
         /\ DOMAIN logged' = DOMAIN logged \cup {Len(logged) + 1}
         /\ \A j \in DOMAIN logged : logged'[j] = logged[j]
         /\ logged'[Len(logged) + 1] = m
  BY AppendPlaces DEF WireTypes, Log

\* What a step does to the log.
LEMMA LogStep ==
  ASSUME TypeInv, [Next]_vars
  PROVE  \/ WriteType1 /\ at <= Len(batch) /\ batch[at] \in Message /\ Log(batch[at])
         \/ WriteType2 /\ \E m \in firing : m \in Message /\ Log(m)
         \/ logged' = logged
<1>1. LoopTypes /\ MessageTypes
  BY DEF TypeInv, TypeOK
<1>2. CASE WriteType1
  <2>1. at <= Len(batch) => batch[at] \in Message
    BY <1>1, MemberAt DEF LoopTypes, MessageTypes, Message
  <2>. QED BY <1>2, <2>1 DEF WriteType1, wireVars
<1>3. CASE WriteType2
  BY <1>1, <1>3 DEF WriteType2, MessageTypes, Message
<1>4. ~(WriteType1 \/ WriteType2) => logged' = logged
  BY DEF Next, LoopStep, StartRun, ReadFrame, EndOfInput, Emit, Mirror, Counted, Ingest, Remember,
         ReportInference, Tally, Mark, Digest, Caption, EndFrame, Finish, Interrupt, Crash,
         WriteInterrupted, WriteTorn, LogPartly, vars, wireVars
<1>. QED BY <1>2, <1>3, <1>4

\* What is in the log stays there.
LEMMA LoggedStays ==
  ASSUME TypeInv, [Next]_vars
  PROVE  /\ DOMAIN logged \subseteq DOMAIN logged'
         /\ \A j \in DOMAIN logged : logged'[j] = logged[j]
<1>1. WireTypes
  BY DEF TypeInv, TypeOK
<1>2. ASSUME NEW m \in Message, Log(m)
      PROVE  DOMAIN logged \subseteq DOMAIN logged' /\ \A j \in DOMAIN logged : logged'[j] = logged[j]
  BY <1>1, <1>2, LoggedMore
<1>. QED BY <1>2, LogStep

LEMMA HandStep == TypeInv /\ HandInv /\ [Next]_vars => HandInv'
<1> SUFFICES ASSUME TypeInv, HandInv, [Next]_vars PROVE HandInv'
  OBVIOUS
<1>. USE DEF HandInv, Written, frameVars, engineVars
<1>1. CASE StartRun \/ ReadFrame \/ EndOfInput \/ Finish \/ EndFrame
  BY <1>1 DEF StartRun, ReadFrame, EndOfInput, Finish, EndFrame
<1>2. CASE Emit
  BY <1>2 DEF Emit
<1>3. CASE Mirror \/ WriteType1 \/ Counted
  BY <1>3 DEF Mirror, WriteType1, Counted
<1>4. CASE Ingest
  <2>1. pc = "ingest" /\ run' = run /\ frameIdx' = frameIdx /\ batch' = batch
        /\ pc' \in {"ingest", "infer", "tally"}
    BY <1>4 DEF Ingest
  <2>2. pc' = "infer" => \A m \in firing' : m.run = run
    BY <1>4 DEF Ingest
  <2>. QED BY <2>1, <2>2
<1>5. CASE WriteType2 \/ Remember \/ ReportInference
  BY <1>5 DEF WriteType2, Remember, ReportInference
<1>6. CASE Tally \/ Mark \/ Digest \/ Caption
  BY <1>6 DEF Tally, Mark, Digest, Caption
<1>7. CASE Interrupt \/ WriteInterrupted \/ WriteTorn \/ Crash
  BY <1>7 DEF Interrupt, WriteInterrupted, WriteTorn, Crash
<1>8. CASE UNCHANGED vars
  BY <1>8 DEF vars
<1>. QED BY <1>1, <1>2, <1>3, <1>4, <1>5, <1>6, <1>7, <1>8 DEF Next, LoopStep

LEMMA SentStep == TypeInv /\ SentInv /\ [Next]_vars => SentInv'
<1> SUFFICES ASSUME TypeInv, SentInv, [Next]_vars PROVE SentInv'
  OBVIOUS
<1>1. LoopTypes /\ MessageTypes /\ WireTypes
  BY DEF TypeInv, TypeOK
<1>2. DOMAIN batch = 1 .. Len(batch) /\ Len(batch) \in Nat /\ at \in Nat \ {0}
  BY <1>1, LenProperties DEF LoopTypes, MessageTypes
<1>3. \A m : Logged(m) => \E j \in DOMAIN logged' : logged'[j] = m
  BY LoggedStays DEF Logged
<1>4. CASE pc' \notin Written \cup {"write", "counted"}
  BY <1>4 DEF SentInv, WasSent, Written
<1>5. CASE batch' = batch /\ \A i \in DOMAIN batch : WasSent(i)' => WasSent(i)
  BY <1>3, <1>5 DEF SentInv, Logged
<1>6. CASE WriteType1 /\ at <= Len(batch)
  <2>1. pc = "write" /\ pc' = "counted" /\ at' = at /\ batch' = batch
    BY <1>6 DEF WriteType1, frameVars
  <2>2. batch[at] \in Message /\ Log(batch[at])
    BY <1>1, <1>6, MemberAt DEF WriteType1, LoopTypes, MessageTypes, Message
  <2>3. \E j \in DOMAIN logged' : logged'[j] = batch[at]
    BY <1>1, <2>2, LoggedMore
  <2>4. \A i \in DOMAIN batch : WasSent(i)' => WasSent(i) \/ i = at
    BY <1>2, <2>1 DEF WasSent, Written
  <2>. QED BY <1>3, <2>1, <2>3, <2>4 DEF SentInv, Logged
<1>7. \/ pc' \notin Written \cup {"write", "counted"}
      \/ batch' = batch /\ \A i \in DOMAIN batch : WasSent(i)' => WasSent(i)
      \/ WriteType1 /\ at <= Len(batch)
  <2>. USE DEF WasSent, Written, frameVars
  <2>1. CASE StartRun \/ ReadFrame \/ EndOfInput \/ Finish \/ Emit \/ EndFrame
    BY <2>1 DEF StartRun, ReadFrame, EndOfInput, Finish, Emit, EndFrame
  <2>2. CASE Interrupt \/ WriteInterrupted \/ WriteTorn \/ Crash
    BY <2>2 DEF Interrupt, WriteInterrupted, WriteTorn, Crash
  <2>3. CASE Mirror
    BY <1>2, <2>3 DEF Mirror
  <2>4. CASE WriteType1
    BY <1>2, <2>4 DEF WriteType1
  <2>5. CASE Counted
    BY <1>2, <2>5 DEF Counted
  <2>6. CASE Ingest \/ WriteType2 \/ Remember \/ ReportInference
    BY <2>6 DEF Ingest, WriteType2, Remember, ReportInference
  <2>7. CASE Tally \/ Mark \/ Digest \/ Caption
    BY <2>7 DEF Tally, Mark, Digest, Caption
  <2>8. CASE UNCHANGED vars
    BY <2>8 DEF vars
  <2>. QED BY <2>1, <2>2, <2>3, <2>4, <2>5, <2>6, <2>7, <2>8 DEF Next, LoopStep
<1>. QED BY <1>4, <1>5, <1>6, <1>7

\* What a step does to the lines about detections.
LEMMA DetLinesStep ==
  ASSUME [Next]_vars
  PROVE  \/ detLines' = detLines
         \/ /\ pc = "mark" /\ pc' = "mark" /\ at <= Len(dets)
            /\ UNCHANGED <<run, frameIdx, logged, rows>>
            /\ detLines' = Append(detLines, [run |-> run, frame |-> frameIdx, det |-> dets[at],
                                             inStre |-> IsInStre(dets[at].label, ClassesSent)])
  BY DEF Next, LoopStep, StartRun, ReadFrame, EndOfInput, Emit, Mirror, WriteType1, Counted, Ingest,
         WriteType2, Remember, ReportInference, Tally, Mark, Digest, Caption, EndFrame, Finish,
         Interrupt, WriteInterrupted, WriteTorn, Crash, vars, vlmVars, wireVars, frameVars,
         WriteDetection, WriteFrameDigest, WriteSceneCaption

\* What is in the log, and what is told of, has numbers for its run and frame.
LEMMA Numbers ==
  ASSUME TypeInv
  PROVE  /\ run \in Nat /\ frameIdx \in Nat
         /\ \A m \in Message : m.run \in Nat /\ m.frame \in Nat
         /\ \A j \in DOMAIN logged : logged[j].run \in Nat /\ logged[j].frame \in Nat
         /\ \A i \in DOMAIN detLines : /\ detLines[i].run \in Nat /\ detLines[i].frame \in Nat
                                       /\ detLines[i].det.label \in Label
<1>1. LoopTypes /\ WireTypes /\ RichTypes
  BY DEF TypeInv, TypeOK
<1>2. MaxRuns \in Nat
  BY FrameLoopAssumption
<1>3. \A m \in Message : m.run \in Nat /\ m.frame \in Nat
  <2>1. \A m \in Type1Message : m.run \in 1 .. MaxRuns /\ m.frame \in Nat
    BY DEF Type1Message
  <2>2. \A m \in Type2Message : m.run \in 1 .. MaxRuns /\ m.frame \in Nat
    BY DEF Type2Message
  <2>. QED BY <1>2, <2>1, <2>2 DEF Message
<1>4. \A j \in DOMAIN logged : logged[j] \in Message
  BY <1>1, ElementOfSeq, LenProperties DEF WireTypes
<1>5. \A i \in DOMAIN detLines :
        detLines[i] \in [run : 1 .. MaxRuns, frame : Nat, det : Detection, inStre : BOOLEAN]
  BY <1>1, ElementOfSeq, LenProperties DEF RichTypes
<1>6. \A i \in DOMAIN detLines : /\ detLines[i].run \in 1 .. MaxRuns /\ detLines[i].frame \in Nat
                                 /\ detLines[i].det \in Detection
  BY <1>5
<1>7. \A d \in Detection : d.label \in Label
  BY DEF Detection
<1>. QED BY <1>1, <1>2, <1>3, <1>4, <1>6, <1>7 DEF LoopTypes

\* How a step of a run that goes on moves the frame, and what it keeps of it.
LEMMA FrameMoves ==
  ASSUME [Next]_vars, Running'
  PROVE  \/ StartRun
         \/ Running /\ run' = run /\ frameIdx' = frameIdx + 1
         \/ /\ Running /\ UNCHANGED <<run, frameIdx>>
            /\ pc \in Written \cup {"write", "counted"}
                 => pc' \in Written \cup {"write", "counted"} /\ batch' = batch
            /\ pc \in {"mark", "digest", "caption", "end"}
                 => pc' \in {"mark", "digest", "caption", "end"}
<1>. USE DEF Running, Written, frameVars, engineVars
<1>1. CASE ReadFrame \/ EndOfInput \/ Emit \/ Mirror \/ WriteType1 \/ Counted
  BY <1>1 DEF ReadFrame, EndOfInput, Emit, Mirror, WriteType1, Counted
<1>2. CASE Ingest \/ WriteType2 \/ Remember \/ ReportInference
  BY <1>2 DEF Ingest, WriteType2, Remember, ReportInference
<1>3. CASE Tally \/ Mark \/ Digest \/ Caption \/ EndFrame
  BY <1>3 DEF Tally, Mark, Digest, Caption, EndFrame
<1>4. CASE Finish \/ Interrupt \/ WriteInterrupted \/ WriteTorn \/ Crash
  BY <1>4 DEF Finish, Interrupt, WriteInterrupted, WriteTorn, Crash
<1>5. CASE UNCHANGED vars
  BY <1>5 DEF vars
<1>. QED BY <1>1, <1>2, <1>3, <1>4, <1>5 DEF Next, LoopStep

\* The number of the run changes where one starts.
LEMMA RunMoves ==
  ASSUME [Next]_vars
  PROVE  StartRun \/ run' = run
  BY DEF Next, LoopStep, ReadFrame, EndOfInput, Emit, Mirror, WriteType1, Counted, Ingest,
         WriteType2, Remember, ReportInference, Tally, Mark, Digest, Caption, EndFrame, Finish,
         Interrupt, WriteInterrupted, WriteTorn, Crash, vars

\* A message that was logged stays within SentBefore.
LEMMA OldSent ==
  ASSUME TypeInv, SentBefore, [Next]_vars, NEW j \in DOMAIN logged
  PROVE  /\ logged[j].run <= run'
         /\ logged[j].kind = "type1" /\ logged[j].run = run' /\ Running'
              => \/ logged[j].frame < frameIdx'
                 \/ /\ pc' \in Written \cup {"write", "counted"}
                    /\ logged[j].frame = frameIdx'
                    /\ \E i \in DOMAIN batch' : batch'[i] = logged[j]
<1>1. /\ run \in Nat /\ frameIdx \in Nat
      /\ logged[j].run \in Nat /\ logged[j].frame \in Nat
  BY Numbers
<1>2. logged[j].run <= run
  BY DEF SentBefore
<1>3. CASE StartRun
  <2>1. run' = run + 1
    BY <1>3 DEF StartRun
  <2>. QED BY <1>1, <1>2, <2>1
<1>4. CASE ~StartRun /\ ~(logged[j].kind = "type1" /\ logged[j].run = run' /\ Running')
  BY <1>2, <1>4, RunMoves
<1>5. CASE ~StartRun /\ logged[j].kind = "type1" /\ logged[j].run = run' /\ Running'
  <2>1. run' = run /\ Running
    BY <1>5, FrameMoves
  <2>2. \/ logged[j].frame < frameIdx
        \/ /\ pc \in Written \cup {"write", "counted"} /\ logged[j].frame = frameIdx
           /\ \E i \in DOMAIN batch : batch[i] = logged[j]
    BY <1>5, <2>1 DEF SentBefore
  <2>3. CASE frameIdx' = frameIdx + 1
    BY <1>1, <1>2, <2>1, <2>2, <2>3
  <2>4. CASE /\ frameIdx' = frameIdx
             /\ pc \in Written \cup {"write", "counted"}
                  => pc' \in Written \cup {"write", "counted"} /\ batch' = batch
    BY <1>2, <2>1, <2>2, <2>4
  <2>. QED BY <1>5, <2>3, <2>4, FrameMoves
<1>. QED BY <1>3, <1>4, <1>5

LEMMA SentBeforeStep == TypeInv /\ HandInv /\ SentBefore /\ [Next]_vars => SentBefore'
<1> SUFFICES ASSUME TypeInv, HandInv, SentBefore, [Next]_vars PROVE SentBefore'
  OBVIOUS
<1>1. WireTypes /\ LoopTypes /\ MessageTypes
  BY DEF TypeInv, TypeOK
<1>2. CASE logged' = logged
  BY <1>2, OldSent DEF SentBefore
<1>3. CASE WriteType1 /\ at <= Len(batch) /\ batch[at] \in Message /\ Log(batch[at])
  <2>1. pc' = "counted" /\ UNCHANGED <<run, frameIdx, batch>> /\ pc = "write"
    BY <1>3 DEF WriteType1, frameVars
  <2>2. at \in DOMAIN batch
    BY <1>1, <1>3, MemberAt DEF LoopTypes, MessageTypes
  <2>3. PICK m \in Message : m = batch[at] /\ Log(m)
    BY <1>3
  <2>4. m.run = run /\ m.frame = frameIdx
    BY <2>1, <2>2, <2>3 DEF HandInv
  <2>5. \A j \in DOMAIN logged' : logged'[j] = m \/ (j \in DOMAIN logged /\ logged'[j] = logged[j])
    BY <1>1, <2>3, LoggedMore
  <2>6. /\ m.run <= run'
        /\ pc' \in Written \cup {"write", "counted"} /\ m.frame = frameIdx'
        /\ \E i \in DOMAIN batch' : batch'[i] = m
    BY <2>1, <2>2, <2>3, <2>4, Numbers
  <2>. QED BY <2>5, <2>6, OldSent DEF SentBefore
<1>4. CASE WriteType2 /\ \E m \in firing : m \in Message /\ Log(m)
  <2>1. PICK m \in firing : m \in Message /\ Log(m)
    BY <1>4
  <2>2. m.run = run /\ m.kind = "type2" /\ run' = run
    BY <1>1, <1>4 DEF WriteType2, HandInv, MessageTypes, Type2Message
  <2>3. \A j \in DOMAIN logged' : logged'[j] = m \/ (j \in DOMAIN logged /\ logged'[j] = logged[j])
    BY <1>1, <2>1, LoggedMore
  <2>4. m.run <= run' /\ m.kind # "type1"
    BY <2>2, Numbers
  <2>. QED BY <2>3, <2>4, OldSent DEF SentBefore
<1>. QED BY <1>2, <1>3, <1>4, LogStep

\* A line that was written stays within LinesBefore.
LEMMA OldLines ==
  ASSUME TypeInv, LinesBefore, [Next]_vars, NEW i \in DOMAIN detLines
  PROVE  /\ detLines[i].run <= run'
         /\ detLines[i].run = run' /\ Running'
              => \/ detLines[i].frame < frameIdx'
                 \/ /\ pc' \in {"mark", "digest", "caption", "end"}
                    /\ detLines[i].frame = frameIdx'
<1>1. /\ run \in Nat /\ frameIdx \in Nat
      /\ detLines[i].run \in Nat /\ detLines[i].frame \in Nat
  BY Numbers
<1>2. detLines[i].run <= run
  BY DEF LinesBefore
<1>3. CASE StartRun
  <2>1. run' = run + 1
    BY <1>3 DEF StartRun
  <2>. QED BY <1>1, <1>2, <2>1
<1>4. CASE ~StartRun /\ ~(detLines[i].run = run' /\ Running')
  BY <1>2, <1>4, RunMoves
<1>5. CASE ~StartRun /\ detLines[i].run = run' /\ Running'
  <2>1. run' = run /\ Running
    BY <1>5, FrameMoves
  <2>2. \/ detLines[i].frame < frameIdx
        \/ pc \in {"mark", "digest", "caption", "end"} /\ detLines[i].frame = frameIdx
    BY <1>5, <2>1 DEF LinesBefore
  <2>3. CASE frameIdx' = frameIdx + 1
    BY <1>1, <1>2, <2>1, <2>2, <2>3
  <2>4. CASE /\ frameIdx' = frameIdx
             /\ pc \in {"mark", "digest", "caption", "end"}
                  => pc' \in {"mark", "digest", "caption", "end"}
    BY <1>2, <2>1, <2>2, <2>4
  <2>. QED BY <1>5, <2>3, <2>4, FrameMoves
<1>. QED BY <1>3, <1>4, <1>5

\* A line that is written tells of a detection of this frame.
LEMMA NewLine ==
  ASSUME TypeInv, pc = "mark", at <= Len(dets), NEW line,
         line = [run |-> run, frame |-> frameIdx, det |-> dets[at],
                 inStre |-> IsInStre(dets[at].label, ClassesSent)],
         detLines' = Append(detLines, line)
  PROVE  /\ line.run = run /\ line.frame = frameIdx /\ line.det.label \in Label
         /\ line.inStre = IsInStre(line.det.label, ClassesSent)
         /\ \A i \in DOMAIN detLines' :
              detLines'[i] = line \/ (i \in DOMAIN detLines /\ detLines'[i] = detLines[i])
<1> DEFINE Line == [run : 1 .. MaxRuns, frame : Nat, det : Detection, inStre : BOOLEAN]
<1>1. LoopTypes /\ MessageTypes /\ RichTypes /\ run \in 1 .. MaxRuns
  BY DEF TypeInv, TypeOK
<1>2. dets[at] \in Detection
  BY <1>1, MemberAt DEF LoopTypes, MessageTypes
<1>3. dets[at].label \in Label
  <2>1. \A d \in Detection : d.label \in Label
    BY DEF Detection
  <2>. QED BY <1>2, <2>1
<1>4. detLines \in Seq(Line) /\ line \in Line
  BY <1>1, <1>2 DEF IsInStre, RichTypes, LoopTypes
<1>. HIDE DEF Line
<1>5. /\ Len(detLines) \in Nat /\ DOMAIN detLines = 1 .. Len(detLines)
      /\ DOMAIN detLines' = 1 .. Len(detLines) + 1
      /\ \A i \in DOMAIN detLines : detLines'[i] = detLines[i]
      /\ detLines'[Len(detLines) + 1] = line
  BY <1>4, AppendPlaces
<1>. QED BY <1>3, <1>5

LEMMA LinesBeforeStep == TypeInv /\ LinesBefore /\ [Next]_vars => LinesBefore'
<1> SUFFICES ASSUME TypeInv, LinesBefore, [Next]_vars PROVE LinesBefore'
  OBVIOUS
<1>1. CASE detLines' = detLines
  BY <1>1, OldLines DEF LinesBefore
<1>2. ASSUME pc = "mark", pc' = "mark", at <= Len(dets), UNCHANGED <<run, frameIdx>>,
             detLines' = Append(detLines, [run |-> run, frame |-> frameIdx, det |-> dets[at],
                                           inStre |-> IsInStre(dets[at].label, ClassesSent)])
      PROVE  LinesBefore'
  <2>1. PICK line : /\ line = [run |-> run, frame |-> frameIdx, det |-> dets[at],
                               inStre |-> IsInStre(dets[at].label, ClassesSent)]
                    /\ detLines' = Append(detLines, line)
    BY <1>2
  <2>2. /\ line.run = run /\ line.frame = frameIdx
        /\ \A i \in DOMAIN detLines' :
             detLines'[i] = line \/ (i \in DOMAIN detLines /\ detLines'[i] = detLines[i])
    BY <1>2, <2>1, NewLine
  <2>3. line.run <= run' /\ line.frame = frameIdx'
    BY <1>2, <2>2, Numbers
  <2>. QED BY <1>2, <2>2, <2>3, OldLines DEF LinesBefore
<1>. QED BY <1>1, <1>2, DetLinesStep

\* The classes sent for a frame are those of its messages in the log.
LEMMA SentClasses ==
  ASSUME TypeInv, HandInv, SentInv, SentBefore, pc = "mark", NEW class
  PROVE  class \in ClassesSent
           <=> \E j \in DOMAIN logged : /\ logged[j].kind = "type1" /\ logged[j].run = run
                                        /\ logged[j].frame = frameIdx /\ logged[j].class = class
<1>1. MessageTypes
  BY DEF TypeInv, TypeOK
<1>2. ASSUME NEW i \in DOMAIN batch
      PROVE  \E j \in DOMAIN logged : /\ logged[j].kind = "type1" /\ logged[j].run = run
                                      /\ logged[j].frame = frameIdx
                                      /\ logged[j].class = batch[i].class
  <2>1. batch[i] \in Type1Message
    BY <1>1, ElementOfSeq, LenProperties DEF MessageTypes
  <2>2. batch[i].kind = "type1" /\ batch[i].run = run /\ batch[i].frame = frameIdx
    BY <2>1 DEF HandInv, Written, Type1Message
  <2>3. PICK j \in DOMAIN logged : logged[j] = batch[i]
    BY DEF SentInv, WasSent, Written, Logged
  <2>. QED BY <2>2, <2>3
<1>3. ASSUME NEW j \in DOMAIN logged, logged[j].kind = "type1", logged[j].run = run,
             logged[j].frame = frameIdx
      PROVE  \E i \in DOMAIN batch : batch[i] = logged[j]
  <2>1. ~(logged[j].frame < frameIdx)
    BY <1>3, Numbers
  <2>. QED BY <1>3, <2>1 DEF SentBefore, Running
<1>. QED BY <1>2, <1>3 DEF ClassesSent

\* The sent classes are classes.
LEMMA NoClassSent ==
  ASSUME TypeInv
  PROVE  NoClass \notin ClassesSent
<1>1. \A i \in DOMAIN batch : batch[i] \in Type1Message
  BY ElementOfSeq, LenProperties DEF TypeInv, TypeOK, MessageTypes
<1>2. NoClass \notin {InternalToStre[l] : l \in DOMAIN InternalToStre}
  BY DEF NoClass, InternalToStre
<1>3. \A m \in Type1Message : m.class \in {InternalToStre[l] : l \in DOMAIN InternalToStre}
  BY DEF Type1Message
<1>. QED BY <1>1, <1>2, <1>3 DEF ClassesSent

\* What is logged later is not of the frame of a line.
LEMMA LaterLogged ==
  ASSUME TypeInv, HandInv, LinesBefore, [Next]_vars,
         NEW i \in DOMAIN detLines, NEW j \in DOMAIN logged',
         logged'[j].kind = "type1", logged'[j].run = detLines[i].run,
         logged'[j].frame = detLines[i].frame
  PROVE  j \in DOMAIN logged /\ logged'[j] = logged[j]
<1>1. LoopTypes /\ MessageTypes /\ WireTypes
  BY DEF TypeInv, TypeOK
<1>2. CASE WriteType1 /\ at <= Len(batch) /\ batch[at] \in Message /\ Log(batch[at])
  <2>1. pc = "write"
    BY <1>2 DEF WriteType1
  <2>2. at \in DOMAIN batch
    BY <1>1, <1>2, MemberAt DEF LoopTypes, MessageTypes
  <2>3. PICK m \in Message : m = batch[at] /\ Log(m)
    BY <1>2
  <2>4. m.run = run /\ m.frame = frameIdx
    BY <2>1, <2>2, <2>3 DEF HandInv
  <2>5. ~(detLines[i].run = run /\ detLines[i].frame = frameIdx)
    BY <2>1, Numbers DEF LinesBefore, Running
  <2>. QED BY <1>1, <2>3, <2>4, <2>5, LoggedMore
<1>3. CASE WriteType2 /\ \E m \in firing : m \in Message /\ Log(m)
  <2>1. PICK m \in firing : m \in Message /\ Log(m)
    BY <1>3
  <2>2. m.kind = "type2"
    BY <1>1 DEF MessageTypes, Type2Message
  <2>. QED BY <1>1, <2>1, <2>2, LoggedMore
<1>4. CASE logged' = logged
  BY <1>4
<1>. QED BY <1>2, <1>3, <1>4, LogStep

LEMMA MarkStep ==
  /\ TypeInv /\ HandInv /\ SentInv /\ SentBefore /\ LinesBefore /\ MarkExact
  /\ [Next]_vars
  => MarkExact'
<1> SUFFICES ASSUME TypeInv, HandInv, SentInv, SentBefore, LinesBefore, MarkExact, [Next]_vars
             PROVE  MarkExact'
  OBVIOUS
<1> DEFINE Sent(log, r, f, class) ==
             \E j \in DOMAIN log : /\ log[j].kind = "type1" /\ log[j].run = r
                                   /\ log[j].frame = f /\ log[j].class = class
<1>1. ASSUME NEW i \in DOMAIN detLines, NEW class
      PROVE  Sent(logged', detLines[i].run, detLines[i].frame, class)
               <=> Sent(logged, detLines[i].run, detLines[i].frame, class)
  BY LoggedStays, LaterLogged
<1>2. ASSUME NEW i \in DOMAIN detLines, NEW label \in Label, detLines[i].det.label = label
      PROVE  detLines[i].inStre
               <=> /\ NormalizedLabel(label) \in DOMAIN ClassNamed
                   /\ Sent(logged', detLines[i].run, detLines[i].frame,
                           ClassNamed[NormalizedLabel(label)])
  <2>1. detLines[i].inStre
          <=> /\ NormalizedLabel(label) \in DOMAIN ClassNamed
              /\ Sent(logged, detLines[i].run, detLines[i].frame,
                      ClassNamed[NormalizedLabel(label)])
    BY <1>2 DEF MarkExact
  <2>. QED BY <1>1, <2>1
<1>3. CASE detLines' = detLines
  BY <1>2, <1>3 DEF MarkExact
<1>4. ASSUME pc = "mark", at <= Len(dets), logged' = logged,
             detLines' = Append(detLines, [run |-> run, frame |-> frameIdx, det |-> dets[at],
                                           inStre |-> IsInStre(dets[at].label, ClassesSent)])
      PROVE  MarkExact'
  <2>1. PICK line : /\ line = [run |-> run, frame |-> frameIdx, det |-> dets[at],
                               inStre |-> IsInStre(dets[at].label, ClassesSent)]
                    /\ detLines' = Append(detLines, line)
    BY <1>4
  <2>2. /\ line.run = run /\ line.frame = frameIdx
        /\ line.inStre = IsInStre(line.det.label, ClassesSent)
        /\ \A i \in DOMAIN detLines' :
             detLines'[i] = line \/ (i \in DOMAIN detLines /\ detLines'[i] = detLines[i])
    BY <1>4, <2>1, NewLine
  <2>3. ASSUME NEW label \in Label, line.det.label = label
        PROVE  line.inStre
                 <=> /\ NormalizedLabel(label) \in DOMAIN ClassNamed
                     /\ Sent(logged', line.run, line.frame, ClassNamed[NormalizedLabel(label)])
    <3>1. line.inStre <=> DiagnosticClass(label) \in ClassesSent
      BY <2>2, <2>3 DEF IsInStre
    <3>2. DiagnosticClass(label) \in ClassesSent
            <=> /\ NormalizedLabel(label) \in DOMAIN ClassNamed
                /\ ClassNamed[NormalizedLabel(label)] \in ClassesSent
      BY NamedIsDiagnosed, NoClassSent
    <3>3. ClassNamed[NormalizedLabel(label)] \in ClassesSent
            <=> Sent(logged, run, frameIdx, ClassNamed[NormalizedLabel(label)])
      BY <1>4, SentClasses
    <3>. QED BY <1>4, <2>2, <3>1, <3>2, <3>3
  <2>. QED BY <1>2, <2>2, <2>3 DEF MarkExact
<1>. QED BY <1>3, <1>4, DetLinesStep

\* What MarkExact says of the classes, MarkedWasSent says of the labels.
LEMMA ExactIsSent == TypeInv /\ MarkExact => MarkedWasSent
<1> SUFFICES ASSUME TypeInv, MarkExact, NEW i \in DOMAIN detLines
             PROVE  LET line == detLines[i]
                        named == NormalizedLabel(line.det.label)
                    IN  /\ line.inStre <=> named \in DOMAIN ClassNamed
                                           /\ SentOfClass(line, ClassNamed[named])
                        /\ line.inStre /\ Sendable(line.det.label)
                             => SentOfClass(line, InternalToStre[line.det.label])
  BY DEF MarkedWasSent
<1>1. PICK label \in Label : label = detLines[i].det.label
  BY Numbers
<1>2. detLines[i].inStre <=> /\ NormalizedLabel(label) \in DOMAIN ClassNamed
                             /\ SentOfClass(detLines[i], ClassNamed[NormalizedLabel(label)])
  BY <1>1 DEF MarkExact, SentOfClass, SentFor
<1>3. Sendable(label) /\ NormalizedLabel(label) \in DOMAIN ClassNamed
        => ClassNamed[NormalizedLabel(label)] = InternalToStre[label]
  BY SameClass
<1>. QED BY <1>1, <1>2, <1>3

\* is_in_stre, "this detection's class was represented on the wire": whatever text
\* a detector's label is, and however often runs end anywhere, a detection is
\* marked exactly if the log has a Type 1 message of its frame of the class that
\* its normalized label names; if it can be sent itself, that is its own class.
THEOREM MarksAreTrue == Spec => []MarkedWasSent
<1> DEFINE Inv == /\ TypeInv /\ HandInv /\ SentInv
                  /\ SentBefore /\ LinesBefore /\ MarkExact
<1>1. Init => Inv
  <2>1. Init => HandInv /\ SentInv
    BY DEF Init, HandInv, SentInv, WasSent, Written
  <2>2. Init => SentBefore /\ LinesBefore /\ MarkExact
    <3>1. Init => DOMAIN detLines = {} /\ DOMAIN logged = {}
      BY EmptySeq DEF Init, VlmInit
    <3>. QED BY <3>1 DEF SentBefore, LinesBefore, MarkExact
  <2>. QED BY <2>1, <2>2, InitType
<1>2. Inv /\ [Next]_vars => Inv'
  BY NextType, HandStep, SentStep, SentBeforeStep, LinesBeforeStep, MarkStep
<1>3. Inv => MarkedWasSent
  BY ExactIsSent
<1>. QED BY <1>1, <1>2, <1>3, PTL DEF Spec

-----------------------------------------------------------------------------
(* What the rich channel tells of is in the outbox *)

\* A row of the frame that tells of d.
Told(d) == \E r \in rows : r.run = run /\ r.frame = frameIdx /\ r.id.of = d

WasMirrored(i) == pc \in Written \cup {"write", "counted"} \/ (pc = "mirror" /\ i < at)

\* The time in an id is not ahead of the clock, and an id of this moment is one
\* of this frame.
RowsInv ==
  /\ \A r \in rows : r.id.ms \in Nat /\ r.id.ms <= clock
  /\ Processing => \A r \in rows : r.id.ms = clock => r.run = run /\ r.frame = frameIdx

ToldInv == \A i \in DOMAIN dets : WasMirrored(i) => Told(dets[i])

\* What a step does to the rows of the outbox.
LEMMA RowsStep ==
  ASSUME [Next]_vars
  PROVE  \/ rows' = rows
         \/ Mirror /\ at <= Len(dets) /\ rows' = Inserted(EventId(dets[at]))
         \/ ReportInference
  BY DEF Next, LoopStep, StartRun, ReadFrame, EndOfInput, Emit, Mirror, WriteType1, Counted, Ingest,
         WriteType2, Remember, Tally, Mark, Digest, Caption, EndFrame, Finish, Interrupt,
         WriteInterrupted, WriteTorn, Crash, vars

\* A row that is inserted, or was there under its id, is one of this frame.
LEMMA InsertedRow ==
  ASSUME RowsInv, Processing, clock \in Nat, NEW d
  PROVE  /\ rows \subseteq Inserted(EventId(d))
         /\ \A r \in Inserted(EventId(d)) :
              r \in rows \/ (r.id.ms = clock /\ r.run = run /\ r.frame = frameIdx)
         /\ \E r \in Inserted(EventId(d)) : r.run = run /\ r.frame = frameIdx /\ r.id.of = d
<1>1. EventId(d).ms = clock /\ EventId(d).of = d
  BY DEF EventId
<1>2. CASE \E r \in rows : r.id = EventId(d)
  <2>1. PICK r \in rows : r.id = EventId(d)
    BY <1>2
  <2>2. r.run = run /\ r.frame = frameIdx /\ r.id.of = d
    BY <1>1, <2>1 DEF RowsInv
  <2>. QED BY <1>2, <2>1, <2>2 DEF Inserted
<1>3. CASE ~\E r \in rows : r.id = EventId(d)
  <2> DEFINE new == [id |-> EventId(d), run |-> run, frame |-> frameIdx]
  <2>1. new.id.ms = clock /\ new.id.of = d /\ new.run = run /\ new.frame = frameIdx
    BY <1>1
  <2>2. Inserted(EventId(d)) = rows \cup {new}
    BY <1>3 DEF Inserted
  <2>. HIDE DEF new
  <2>. QED BY <2>1, <2>2
<1>. QED BY <1>2, <1>3

\* Nothing is lost from the outbox.
LEMMA RowsGrow ==
  ASSUME TypeInv, RowsInv, [Next]_vars
  PROVE  rows \subseteq rows'
<1>1. CASE Mirror /\ at <= Len(dets) /\ rows' = Inserted(EventId(dets[at]))
  BY <1>1, InsertedRow DEF Mirror, Processing, Running, TypeInv, TypeOK, LoopTypes
<1>2. CASE ReportInference
  BY <1>2 DEF ReportInference
<1>. QED BY <1>1, <1>2, RowsStep

LEMMA RowsInvStep == TypeInv /\ RowsInv /\ [Next]_vars => RowsInv'
<1> SUFFICES ASSUME TypeInv, RowsInv, [Next]_vars PROVE RowsInv'
  OBVIOUS
<1>1. clock \in Nat
  BY DEF TypeInv, TypeOK, LoopTypes
<1>2. CASE Mirror /\ at <= Len(dets) /\ rows' = Inserted(EventId(dets[at]))
  <2>1. Processing /\ UNCHANGED <<run, frameIdx, clock>>
    BY <1>2 DEF Mirror, Processing, Running, frameVars
  <2>2. \A r \in rows' : r \in rows \/ (r.id.ms = clock /\ r.run = run /\ r.frame = frameIdx)
    BY <1>1, <1>2, <2>1, InsertedRow
  <2>. QED BY <1>1, <2>1, <2>2 DEF RowsInv
<1>3. CASE ReportInference
  <2>1. Processing /\ UNCHANGED <<run, frameIdx, clock>>
    BY <1>3 DEF ReportInference, Processing, Running, frameVars
  <2>2. \A r \in rows' : r \in rows \/ (r.id.ms = clock /\ r.run = run /\ r.frame = frameIdx)
    <3>1. \A inf \in firing :
            LET r == [id |-> [of |-> inf, ms |-> clock], run |-> run, frame |-> frameIdx]
            IN  r.id.ms = clock /\ r.run = run /\ r.frame = frameIdx
      OBVIOUS
    <3>. QED BY <1>3, <3>1 DEF ReportInference
  <2>. QED BY <1>1, <2>1, <2>2 DEF RowsInv
<1>4. CASE rows' = rows
  <2>1. CASE ReadFrame
    BY <1>1, <1>4, <2>1 DEF ReadFrame, RowsInv, Processing, Running
  <2>2. CASE ~ReadFrame /\ Processing'
    <3>1. Processing /\ UNCHANGED <<run, frameIdx, clock>>
      BY <2>2 DEF Next, LoopStep, StartRun, EndOfInput, Emit, Mirror, WriteType1, Counted, Ingest,
           WriteType2, Remember, ReportInference, Tally, Mark, Digest, Caption, EndFrame, Finish,
           Interrupt, WriteInterrupted, WriteTorn, Crash, vars, frameVars, Processing, Running
    <3>. QED BY <1>4, <3>1 DEF RowsInv
  <2>3. CASE ~ReadFrame /\ ~Processing'
    <3>1. clock' = clock
      BY <2>3 DEF Next, LoopStep, StartRun, EndOfInput, Emit, Mirror, WriteType1, Counted, Ingest,
           WriteType2, Remember, ReportInference, Tally, Mark, Digest, Caption, EndFrame, Finish,
           Interrupt, WriteInterrupted, WriteTorn, Crash, vars, frameVars
    <3>. QED BY <1>4, <2>3, <3>1 DEF RowsInv
  <2>. QED BY <2>1, <2>2, <2>3
<1>. QED BY <1>2, <1>3, <1>4, RowsStep

LEMMA ToldStep == TypeInv /\ RowsInv /\ ToldInv /\ [Next]_vars => ToldInv'
<1> SUFFICES ASSUME TypeInv, RowsInv, ToldInv, [Next]_vars PROVE ToldInv'
  OBVIOUS
<1>1. LoopTypes /\ MessageTypes
  BY DEF TypeInv, TypeOK
<1>2. DOMAIN dets = 1 .. Len(dets) /\ Len(dets) \in Nat /\ at \in Nat \ {0}
  BY <1>1, LenProperties DEF LoopTypes, MessageTypes
<1>3. CASE pc' \notin Written \cup {"mirror", "write", "counted"}
  BY <1>3 DEF ToldInv, WasMirrored, Written
<1>4. CASE UNCHANGED <<run, frameIdx, dets>> /\ \A i \in DOMAIN dets : WasMirrored(i)' => WasMirrored(i)
  BY <1>4, RowsGrow DEF ToldInv, Told
<1>5. CASE Mirror /\ at <= Len(dets)
  <2>1. pc = "mirror" /\ pc' = "mirror" /\ at' = at + 1 /\ UNCHANGED <<run, frameIdx, dets>>
    BY <1>5 DEF Mirror, frameVars
  <2>2. \E r \in rows' : r.run = run /\ r.frame = frameIdx /\ r.id.of = dets[at]
    BY <1>1, <1>5, InsertedRow DEF Mirror, Processing, Running, LoopTypes
  <2>3. \A i \in DOMAIN dets : WasMirrored(i)' => WasMirrored(i) \/ i = at
    BY <1>2, <2>1 DEF WasMirrored, Written
  <2>. QED BY <2>1, <2>2, <2>3, RowsGrow DEF ToldInv, Told
<1>6. CASE Emit
  <2>1. pc' = "mirror" /\ at' = 1 /\ UNCHANGED <<run, frameIdx, dets>>
    BY <1>6 DEF Emit
  <2>. QED BY <1>2, <2>1 DEF ToldInv, WasMirrored, Written
<1>7. \/ pc' \notin Written \cup {"mirror", "write", "counted"}
      \/ UNCHANGED <<run, frameIdx, dets>> /\ \A i \in DOMAIN dets : WasMirrored(i)' => WasMirrored(i)
      \/ Mirror /\ at <= Len(dets)
      \/ Emit
  <2>. USE DEF WasMirrored, Written, frameVars
  <2>1. CASE StartRun \/ ReadFrame \/ EndOfInput \/ Finish \/ EndFrame
    BY <2>1 DEF StartRun, ReadFrame, EndOfInput, Finish, EndFrame
  <2>2. CASE Interrupt \/ WriteInterrupted \/ WriteTorn \/ Crash
    BY <2>2 DEF Interrupt, WriteInterrupted, WriteTorn, Crash
  <2>3. CASE Mirror
    BY <1>2, <2>3 DEF Mirror
  <2>4. CASE WriteType1 \/ Counted
    BY <2>4 DEF WriteType1, Counted
  <2>5. CASE Ingest \/ WriteType2 \/ Remember \/ ReportInference
    BY <2>5 DEF Ingest, WriteType2, Remember, ReportInference
  <2>6. CASE Tally \/ Mark \/ Digest \/ Caption
    BY <2>6 DEF Tally, Mark, Digest, Caption
  <2>7. CASE UNCHANGED vars
    BY <2>7 DEF vars
  <2>. QED BY <2>1, <2>2, <2>3, <2>4, <2>5, <2>6, <2>7 DEF Next, LoopStep
<1>. QED BY <1>3, <1>4, <1>5, <1>6, <1>7

LEMMA MirrorStep ==
  TypeInv /\ RowsInv /\ ToldInv /\ Mirrored /\ [Next]_vars => Mirrored'
<1> SUFFICES ASSUME TypeInv, RowsInv, ToldInv, Mirrored, [Next]_vars PROVE Mirrored'
  OBVIOUS
<1>1. LoopTypes /\ MessageTypes /\ RichTypes
  BY DEF TypeInv, TypeOK
<1> DEFINE ToldOf(line, rs) ==
             \E r \in rs : r.run = line.run /\ r.frame = line.frame /\ r.id.of = line.det
<1>2. \A i \in DOMAIN detLines : ToldOf(detLines[i], rows')
  BY RowsGrow DEF Mirrored
<1>3. CASE detLines' = detLines
  BY <1>2, <1>3 DEF Mirrored
<1>4. ASSUME pc = "mark", at <= Len(dets), rows' = rows,
             detLines' = Append(detLines, [run |-> run, frame |-> frameIdx, det |-> dets[at],
                                           inStre |-> IsInStre(dets[at].label, ClassesSent)])
      PROVE  Mirrored'
  <2> DEFINE line == [run |-> run, frame |-> frameIdx, det |-> dets[at],
                      inStre |-> IsInStre(dets[at].label, ClassesSent)]
             Line == [run : 1 .. MaxRuns, frame : Nat, det : Detection, inStre : BOOLEAN]
  <2>1. at \in DOMAIN dets /\ dets[at] \in Detection
    BY <1>1, <1>4, MemberAt DEF LoopTypes, MessageTypes
  <2>2. Told(dets[at])
    BY <1>4, <2>1 DEF ToldInv, WasMirrored, Written
  <2>3. ToldOf(line, rows')
    BY <1>4, <2>2 DEF Told
  <2>4. detLines \in Seq(Line) /\ line \in Line
    <3>1. run \in 1 .. MaxRuns /\ frameIdx \in Nat
      BY <1>1, <1>4 DEF TypeInv, LoopTypes
    <3>. QED BY <1>1, <2>1, <3>1 DEF IsInStre, RichTypes
  <2>5. detLines' = Append(detLines, line)
    BY <1>4
  <2>. HIDE DEF line, Line
  <2>6. /\ Len(detLines) \in Nat /\ DOMAIN detLines = 1 .. Len(detLines)
        /\ DOMAIN detLines' = 1 .. Len(detLines) + 1
        /\ \A i \in DOMAIN detLines : detLines'[i] = detLines[i]
        /\ detLines'[Len(detLines) + 1] = line
    BY <2>4, <2>5, AppendPlaces
  <2>7. \A i \in DOMAIN detLines' : detLines'[i] = line \/ (i \in DOMAIN detLines /\ detLines'[i] = detLines[i])
    BY <2>6
  <2>8. \A i \in DOMAIN detLines' : ToldOf(detLines'[i], rows')
    BY <1>2, <2>3, <2>7
  <2>. QED BY <2>8 DEF Mirrored
<1>. QED BY <1>3, <1>4, DetLinesStep

\* "emit a track event for every active track": whatever the rich channel tells
\* of, the outbox has an event of, from the same frame, though events of one
\* track and moment are inserted once only.
THEOREM DetectionsAreMirrored == Spec => []Mirrored
<1> DEFINE Inv == TypeInv /\ RowsInv /\ ToldInv /\ Mirrored
<1>1. Init => Inv
  <2>1. Init => RowsInv
    BY DEF Init, RowsInv
  <2>2. Init => ToldInv
    BY DEF Init, ToldInv, WasMirrored, Written
  <2>3. Init => Mirrored
    <3>1. Init => DOMAIN detLines = {}
      BY EmptySeq DEF Init, VlmInit
    <3>. QED BY <3>1 DEF Mirrored
  <2>. QED BY <2>1, <2>2, <2>3, InitType
<1>2. Inv /\ [Next]_vars => Inv'
  BY NextType, RowsInvStep, ToldStep, MirrorStep
<1>. QED BY <1>1, <1>2, PTL DEF Spec

-----------------------------------------------------------------------------
(* run_stats.json agrees with the wire log *)

\* The messages of a run and kind in a log.
Count(log, r, kind) == Cardinality({i \in DOMAIN log : log[i].run = r /\ log[i].kind = kind})

\* Nothing in the log is of a run to come.
LogRunsInv == \A j \in DOMAIN logged : logged[j].run <= run

\* A run reports once, when it goes down.
ReportRunsInv ==
  \A i \in DOMAIN reports : reports[i].run <= run /\ (pc # "down" => reports[i].run < run)

\* How many messages are appended and not yet counted.
Ahead(step) == IF pc = step THEN 1 ELSE 0

Missed1 == Count(logged, run, "type1") - stats.type1
Missed2 == Count(logged, run, "type2") - stats.type2

\* While a run goes on, it is at most one message behind, and where it was
\* interrupted it stays at that.
TallyInv ==
  /\ Running => Missed1 = Ahead("counted") /\ Missed2 = Ahead("inferred")
  /\ pc = "stopping" => Missed1 >= 0 /\ Missed2 >= 0 /\ Missed1 + Missed2 <= 1

\* Logging a message adds one to the messages of its run and kind.
LEMMA CountStep ==
  ASSUME WireTypes, NEW m \in Message, Log(m), NEW r, NEW kind
  PROVE  /\ Count(logged, r, kind) \in Nat
         /\ Count(logged', r, kind)
              = Count(logged, r, kind) + (IF m.run = r /\ m.kind = kind THEN 1 ELSE 0)
<1> DEFINE S == {i \in DOMAIN logged : logged[i].run = r /\ logged[i].kind = kind}
           T == {i \in DOMAIN logged' : logged'[i].run = r /\ logged'[i].kind = kind}
           n == Len(logged) + 1
<1>1. /\ DOMAIN logged = 1 .. Len(logged) /\ Len(logged) \in Nat
      /\ DOMAIN logged' = DOMAIN logged \cup {n}
      /\ \A j \in DOMAIN logged : logged'[j] = logged[j]
      /\ logged'[n] = m
  BY LoggedMore
<1>2. IsFiniteSet(S)
  <2>1. IsFiniteSet(1 .. Len(logged)) /\ S \subseteq 1 .. Len(logged)
    BY <1>1, FS_Interval
  <2>. QED BY <2>1, FS_Subset
<1>3. n \notin S
  BY <1>1
<1>4. T = IF m.run = r /\ m.kind = kind THEN S \cup {n} ELSE S
  BY <1>1
<1>5. Cardinality(S) \in Nat /\ Cardinality(S \cup {n}) = Cardinality(S) + 1
  BY <1>2, <1>3, FS_AddElement, FS_CardinalityType
<1>6. Count(logged, r, kind) = Cardinality(S) /\ Count(logged', r, kind) = Cardinality(T)
  BY DEF Count
<1>. HIDE DEF S, T, n
<1>. QED BY <1>4, <1>5, <1>6

\* Any count is a number.
LEMMA CountType ==
  ASSUME WireTypes, NEW r, NEW kind
  PROVE  Count(logged, r, kind) \in Nat
<1> DEFINE S == {i \in DOMAIN logged : logged[i].run = r /\ logged[i].kind = kind}
<1>1. DOMAIN logged = 1 .. Len(logged) /\ Len(logged) \in Nat
  BY LenProperties DEF WireTypes
<1>2. IsFiniteSet(1 .. Len(logged)) /\ S \subseteq 1 .. Len(logged)
  BY <1>1, FS_Interval
<1>3. IsFiniteSet(S)
  BY <1>2, FS_Subset
<1>. QED BY <1>3, FS_CardinalityType DEF Count

\* What is logged is of this run.
LEMMA LogOfRun ==
  ASSUME TypeInv, HandInv, [Next]_vars
  PROVE  \/ /\ WriteType1 /\ pc = "write" /\ pc' = "counted" /\ UNCHANGED <<run, stats, reports>>
            /\ \E m \in Message : m.run = run /\ m.kind = "type1" /\ Log(m)
         \/ /\ WriteType2 /\ pc = "infer" /\ pc' = "inferred" /\ UNCHANGED <<run, stats, reports>>
            /\ \E m \in Message : m.run = run /\ m.kind = "type2" /\ Log(m)
         \/ logged' = logged
<1>1. LoopTypes /\ MessageTypes
  BY DEF TypeInv, TypeOK
<1>2. CASE WriteType1 /\ at <= Len(batch) /\ batch[at] \in Message /\ Log(batch[at])
  <2>1. at \in DOMAIN batch /\ batch[at] \in Type1Message
    BY <1>1, <1>2, MemberAt DEF LoopTypes, MessageTypes
  <2>2. batch[at].run = run /\ batch[at].kind = "type1"
    BY <1>2, <2>1 DEF WriteType1, HandInv, Type1Message
  <2>. QED BY <1>2, <2>2 DEF WriteType1
<1>3. CASE WriteType2 /\ \E m \in firing : m \in Message /\ Log(m)
  <2>1. \A m \in firing : m.run = run /\ m.kind = "type2"
    BY <1>1, <1>3 DEF WriteType2, HandInv, MessageTypes, Type2Message
  <2>. QED BY <1>3, <2>1 DEF WriteType2
<1>. QED BY <1>2, <1>3, LogStep

LEMMA LogRunsStep == TypeInv /\ HandInv /\ LogRunsInv /\ [Next]_vars => LogRunsInv'
<1> SUFFICES ASSUME TypeInv, HandInv, LogRunsInv, [Next]_vars PROVE LogRunsInv'
  OBVIOUS
<1>1. WireTypes /\ run \in Nat
  BY DEF TypeInv, TypeOK, LoopTypes
<1>2. run' \in Nat /\ run <= run'
  <2>1. CASE StartRun
    BY <1>1, <2>1 DEF StartRun
  <2>2. ~StartRun => run' = run
    BY DEF Next, LoopStep, ReadFrame, EndOfInput, Emit, Mirror, WriteType1, Counted, Ingest,
           WriteType2, Remember, ReportInference, Tally, Mark, Digest, Caption, EndFrame, Finish,
           Interrupt, WriteInterrupted, WriteTorn, Crash, vars
  <2>. QED BY <1>1, <2>1, <2>2
<1>3. \A j \in DOMAIN logged : logged[j].run \in Nat
  <2>1. \A j \in DOMAIN logged : logged[j] \in Message
    BY <1>1, ElementOfSeq, LenProperties DEF WireTypes
  <2>2. \A m \in Message : m.run \in Nat
    <3>1. MaxRuns \in Nat
      BY FrameLoopAssumption
    <3>2. \A m \in Type1Message : m.run \in 1 .. MaxRuns
      BY DEF Type1Message
    <3>3. \A m \in Type2Message : m.run \in 1 .. MaxRuns
      BY DEF Type2Message
    <3>. QED BY <3>1, <3>2, <3>3 DEF Message
  <2>. QED BY <2>1, <2>2
<1>4. CASE logged' = logged
  BY <1>1, <1>2, <1>3, <1>4 DEF LogRunsInv
<1>5. ASSUME NEW m \in Message, m.run = run, Log(m) PROVE LogRunsInv'
  <2>1. \A j \in DOMAIN logged' : logged'[j] = m \/ (j \in DOMAIN logged /\ logged'[j] = logged[j])
    BY <1>1, <1>5, LoggedMore
  <2>. QED BY <1>1, <1>2, <1>3, <1>5, <2>1 DEF LogRunsInv
<1>. QED BY <1>4, <1>5, LogOfRun

LEMMA ReportRunsStep == TypeInv /\ ReportRunsInv /\ [Next]_vars => ReportRunsInv'
<1> SUFFICES ASSUME TypeInv, ReportRunsInv, [Next]_vars PROVE ReportRunsInv'
  OBVIOUS
<1>1. StatsTypes /\ run \in Nat /\ (pc # "down" => run \in 1 .. MaxRuns)
  BY DEF TypeInv, TypeOK, LoopTypes
<1>2. \A i \in DOMAIN reports : reports[i].run \in Nat
  <2>1. \A i \in DOMAIN reports : reports[i] \in [run : 1 .. MaxRuns, stats : Stats]
    BY <1>1, ElementOfSeq, LenProperties DEF StatsTypes
  <2>. QED BY <2>1, FrameLoopAssumption
<1>3. CASE StartRun
  BY <1>1, <1>2, <1>3 DEF StartRun, ReportRunsInv
<1>4. CASE Finish
  <2>1. [run |-> run, stats |-> stats] \in [run : 1 .. MaxRuns, stats : Stats]
    BY <1>1, <1>4 DEF Finish, StatsTypes
  <2>2. /\ Len(reports) \in Nat /\ DOMAIN reports = 1 .. Len(reports)
        /\ DOMAIN reports' = 1 .. Len(reports) + 1
        /\ \A i \in DOMAIN reports : reports'[i] = reports[i]
        /\ reports'[Len(reports) + 1] = [run |-> run, stats |-> stats]
    BY <1>1, <1>4, <2>1, AppendPlaces DEF Finish, StatsTypes
  <2>3. \A i \in DOMAIN reports' :
          reports'[i].run = run \/ (i \in DOMAIN reports /\ reports'[i] = reports[i])
    BY <2>2
  <2>4. pc' = "down" /\ run' = run
    BY <1>4 DEF Finish
  <2>. QED BY <1>1, <1>2, <2>3, <2>4 DEF ReportRunsInv
<1>5. CASE run' = run /\ reports' = reports /\ (pc' # "down" => pc # "down")
  BY <1>5 DEF ReportRunsInv
<1>6. StartRun \/ Finish \/ (run' = run /\ reports' = reports /\ (pc' # "down" => pc # "down"))
  BY DEF Next, LoopStep, ReadFrame, EndOfInput, Emit, Mirror, WriteType1, Counted, Ingest,
         WriteType2, Remember, ReportInference, Tally, Mark, Digest, Caption, EndFrame,
         Interrupt, Running, WriteInterrupted, WriteTorn, AtHand, Crash, vars
<1>. QED BY <1>3, <1>4, <1>5, <1>6

\* A run that is about to start has nothing in the log.
LEMMA NewRunCount ==
  ASSUME TypeInv, LogRunsInv, NEW kind
  PROVE  Count(logged, run + 1, kind) = 0
<1>1. WireTypes /\ run \in Nat
  BY DEF TypeInv, TypeOK, LoopTypes
<1>2. {i \in DOMAIN logged : logged[i].run = run + 1 /\ logged[i].kind = kind} = {}
  BY <1>1 DEF LogRunsInv
<1>. QED BY <1>2, FS_EmptySet DEF Count

LEMMA TallyStep == TypeInv /\ HandInv /\ LogRunsInv /\ TallyInv /\ [Next]_vars => TallyInv'
<1> SUFFICES ASSUME TypeInv, HandInv, LogRunsInv, TallyInv, [Next]_vars PROVE TallyInv'
  OBVIOUS
<1> DEFINE c1 == Count(logged, run, "type1")
           c2 == Count(logged, run, "type2")
<1>1. WireTypes /\ StatsTypes /\ run \in Nat
  BY DEF TypeInv, TypeOK, LoopTypes
<1>2. stats.type1 \in Nat /\ stats.type2 \in Nat
  BY <1>1 DEF StatsTypes, Stats
<1>3. c1 \in Nat /\ c2 \in Nat
  BY <1>1, CountType
<1>. USE DEF Running, Ahead, Missed1, Missed2
<1>4. CASE StartRun
  <2>1. pc' = "read" /\ run' = run + 1 /\ stats' = NoStats /\ logged' = logged
    BY <1>4 DEF StartRun, wireVars
  <2>2. Count(logged, run + 1, "type1") = 0 /\ Count(logged, run + 1, "type2") = 0
    BY NewRunCount
  <2>3. Missed1' = 0 /\ Missed2' = 0
    BY <2>1, <2>2 DEF NoStats
  <2>. QED BY <2>1, <2>3 DEF TallyInv
<1>5. CASE WriteType1 /\ pc = "write" /\ pc' = "counted" /\ UNCHANGED <<run, stats, reports>>
           /\ \E m \in Message : m.run = run /\ m.kind = "type1" /\ Log(m)
  <2>1. PICK m \in Message : m.run = run /\ m.kind = "type1" /\ Log(m)
    BY <1>5
  <2>2. Count(logged', run, "type1") = c1 + 1 /\ Count(logged', run, "type2") = c2 + 0
    BY <1>1, <2>1, CountStep
  <2>3. Missed1' = Missed1 + 1 /\ Missed2' = Missed2 + 0
    BY <1>2, <1>3, <1>5, <2>2
  <2>4. Missed1 = 0 /\ Missed2 = 0
    BY <1>5 DEF TallyInv
  <2>5. pc' = "counted" /\ Missed1' = 0 + 1 /\ Missed2' = 0 + 0
    BY <1>5, <2>3, <2>4
  <2>. QED BY <2>5 DEF TallyInv
<1>6. CASE WriteType2 /\ pc = "infer" /\ pc' = "inferred" /\ UNCHANGED <<run, stats, reports>>
           /\ \E m \in Message : m.run = run /\ m.kind = "type2" /\ Log(m)
  <2>1. PICK m \in Message : m.run = run /\ m.kind = "type2" /\ Log(m)
    BY <1>6
  <2>2. Count(logged', run, "type2") = c2 + 1 /\ Count(logged', run, "type1") = c1 + 0
    BY <1>1, <2>1, CountStep
  <2>3. Missed1' = Missed1 + 0 /\ Missed2' = Missed2 + 1
    BY <1>2, <1>3, <1>6, <2>2
  <2>4. Missed1 = 0 /\ Missed2 = 0
    BY <1>6 DEF TallyInv
  <2>5. pc' = "inferred" /\ Missed1' = 0 + 0 /\ Missed2' = 0 + 1
    BY <1>6, <2>3, <2>4
  <2>. QED BY <2>5 DEF TallyInv
<1>7. CASE logged' = logged /\ ~StartRun
  <2>1. run' = run
    BY <1>7 DEF Next, LoopStep, ReadFrame, EndOfInput, Emit, Mirror, WriteType1, Counted, Ingest,
           WriteType2, Remember, ReportInference, Tally, Mark, Digest, Caption, EndFrame, Finish,
           Interrupt, WriteInterrupted, WriteTorn, Crash, vars
  <2>2. Count(logged', run', "type1") = c1 /\ Count(logged', run', "type2") = c2
    BY <1>7, <2>1
  <2>3. CASE Counted
    <3>1. pc = "counted" /\ pc' = "write" /\ stats'.type1 = stats.type1 + 1 /\ stats'.type2 = stats.type2
      BY <1>1, <2>3 DEF Counted, CountType1, StatsTypes, Stats
    <3>. QED BY <1>2, <1>3, <2>2, <3>1 DEF TallyInv
  <2>4. CASE Remember
    <3>1. pc = "inferred" /\ pc' = "report" /\ stats'.type2 = stats.type2 + 1 /\ stats'.type1 = stats.type1
      BY <1>1, <2>4 DEF Remember, StatsTypes, Stats
    <3>. QED BY <1>2, <1>3, <2>2, <3>1 DEF TallyInv
  <2>5. CASE ReadFrame \/ Tally
    <3>1. /\ stats'.type1 = stats.type1 /\ stats'.type2 = stats.type2
          /\ pc \in {"read", "tally"} /\ pc' \in {"read", "emit", "mark"}
      BY <1>1, <2>5 DEF ReadFrame, Tally, StatsTypes, Stats
    <3>. QED BY <1>2, <1>3, <2>2, <3>1 DEF TallyInv
  <2>6. CASE stats' = stats /\ pc' \in {"stopping", "down"} /\ pc # "down"
    <3>1. CASE pc = "stopping"
      BY <2>2, <2>6, <3>1 DEF TallyInv
    <3>2. CASE pc # "stopping"
      BY <1>2, <1>3, <2>2, <2>6, <3>2 DEF TallyInv
    <3>. QED BY <3>1, <3>2
  <2>7. CASE /\ stats' = stats
             /\ pc \notin {"counted", "inferred", "stopping", "down"}
             /\ pc' \notin {"counted", "inferred", "stopping", "down"}
    BY <2>2, <2>7 DEF TallyInv
  <2>8. CASE stats' = stats /\ pc' = pc
    BY <2>2, <2>8 DEF TallyInv
  <2>9. \/ Counted \/ Remember \/ ReadFrame \/ Tally
        \/ stats' = stats /\ pc' \in {"stopping", "down"} /\ pc # "down"
        \/ /\ stats' = stats
           /\ pc \notin {"counted", "inferred", "stopping", "down"}
           /\ pc' \notin {"counted", "inferred", "stopping", "down"}
        \/ stats' = stats /\ pc' = pc
    <3>1. CASE EndOfInput \/ Interrupt \/ WriteInterrupted \/ WriteTorn \/ Crash \/ Finish
      <4>1. AtHand # {} => pc \in {"write", "infer"}
        BY DEF AtHand
      <4>. QED BY <3>1, <4>1 DEF EndOfInput, Interrupt, WriteInterrupted, WriteTorn, Crash, Finish
    <3>2. CASE Emit \/ Mirror \/ WriteType1 \/ Ingest \/ WriteType2
      <4>1. ~WriteType2 /\ (WriteType1 => ~(at <= Len(batch)))
        <5>1. \A m \in Message : ~Log(m)
          BY <1>1, <1>7, LoggedMore
        <5>2. \A m \in firing : m \in Message
          BY DEF TypeInv, TypeOK, MessageTypes, Message
        <5>3. WriteType1 /\ at <= Len(batch) => batch[at] \in Message
          BY MemberAt DEF TypeInv, TypeOK, LoopTypes, MessageTypes, Message
        <5>. QED BY <5>1, <5>2, <5>3 DEF WriteType1, WriteType2
      <4>. QED BY <3>2, <4>1 DEF Emit, Mirror, WriteType1, Ingest
    <3>3. CASE ReportInference \/ Mark \/ Digest \/ Caption \/ EndFrame
      BY <3>3 DEF ReportInference, Mark, Digest, Caption, EndFrame
    <3>4. CASE UNCHANGED vars
      BY <3>4 DEF vars
    <3>. QED BY <1>7, <3>1, <3>2, <3>3, <3>4 DEF Next, LoopStep
  <2>. QED BY <2>3, <2>4, <2>5, <2>6, <2>7, <2>8, <2>9
<1>8. StartRun => logged' = logged
  BY DEF StartRun, wireVars
<1>. QED BY <1>4, <1>5, <1>6, <1>7, LogOfRun

\* What a report says does not change when a later run logs.
LEMMA ReportStep ==
  TypeInv /\ HandInv /\ ReportRunsInv /\ TallyInv /\ StatsMatchWire /\ [Next]_vars => StatsMatchWire'
<1> SUFFICES ASSUME TypeInv, HandInv, ReportRunsInv, TallyInv, StatsMatchWire, [Next]_vars
             PROVE  StatsMatchWire'
  OBVIOUS
<1>1. WireTypes /\ StatsTypes /\ run \in Nat /\ (pc # "down" => run \in 1 .. MaxRuns)
  BY DEF TypeInv, TypeOK, LoopTypes
<1> DEFINE Fits(r, log) ==
             LET missed1 == Count(log, r.run, "type1") - r.stats.type1
                 missed2 == Count(log, r.run, "type2") - r.stats.type2
             IN  missed1 >= 0 /\ missed2 >= 0 /\ missed1 + missed2 <= 1
<1>2. StatsMatchWire <=> \A i \in DOMAIN reports : Fits(reports[i], logged)
  BY DEF StatsMatchWire, Appended, Count
<1>3. StatsMatchWire' <=> \A i \in DOMAIN reports' : Fits(reports'[i], logged')
  BY DEF StatsMatchWire, Appended, Count
<1>. HIDE DEF Fits
<1>4. CASE Finish
  <2>1. logged' = logged /\ pc = "stopping"
    BY <1>4 DEF Finish, wireVars
  <2> DEFINE now == [run |-> run, stats |-> stats]
  <2>2. now \in [run : 1 .. MaxRuns, stats : Stats]
    BY <1>1, <2>1 DEF StatsTypes
  <2>3. Fits(now, logged)
    BY <2>1 DEF TallyInv, Missed1, Missed2, Fits
  <2>. HIDE DEF now
  <2>4. reports' = Append(reports, now)
    BY <1>4 DEF Finish, now
  <2>5. /\ Len(reports) \in Nat /\ DOMAIN reports = 1 .. Len(reports)
        /\ DOMAIN reports' = 1 .. Len(reports) + 1
        /\ \A i \in DOMAIN reports : reports'[i] = reports[i]
        /\ reports'[Len(reports) + 1] = now
    BY <1>1, <2>2, <2>4, AppendPlaces DEF StatsTypes
  <2>6. \A i \in DOMAIN reports' : reports'[i] = now \/ (i \in DOMAIN reports /\ reports'[i] = reports[i])
    BY <2>5
  <2>. QED BY <1>2, <1>3, <2>1, <2>3, <2>6
<1>5. CASE reports' = reports /\ logged' = logged
  BY <1>2, <1>3, <1>5
<1>6. ASSUME NEW m \in Message, m.run = run, Log(m), reports' = reports, pc # "down"
      PROVE  StatsMatchWire'
  <2>1. ASSUME NEW i \in DOMAIN reports PROVE Fits(reports[i], logged')
    <3>1. reports[i] \in [run : 1 .. MaxRuns, stats : Stats]
      BY <1>1, ElementOfSeq, LenProperties DEF StatsTypes
    <3>2. reports[i].run # run
      BY <1>1, <1>6, <3>1, FrameLoopAssumption DEF ReportRunsInv
    <3>3. \A kind : Count(logged', reports[i].run, kind) = Count(logged, reports[i].run, kind)
      <4>1. ASSUME NEW kind PROVE Count(logged', reports[i].run, kind) = Count(logged, reports[i].run, kind)
        <5>1. /\ Count(logged, reports[i].run, kind) \in Nat
              /\ Count(logged', reports[i].run, kind) = Count(logged, reports[i].run, kind) + 0
          BY <1>1, <1>6, <3>2, CountStep
        <5>. QED BY <5>1
      <4>. QED BY <4>1
    <3>4. Fits(reports[i], logged)
      BY <1>2
    <3>. QED BY <3>3, <3>4 DEF Fits
  <2>. QED BY <1>3, <1>6, <2>1
<1>7. Finish \/ reports' = reports
  BY DEF Next, LoopStep, StartRun, ReadFrame, EndOfInput, Emit, Mirror, WriteType1, Counted, Ingest,
         WriteType2, Remember, ReportInference, Tally, Mark, Digest, Caption, EndFrame,
         Interrupt, WriteInterrupted, WriteTorn, Crash, vars
<1>. QED BY <1>4, <1>5, <1>6, <1>7, LogOfRun

\* run_stats.json: wherever a run is interrupted, and whatever later runs
\* append to the same log, the report counts the messages the run appended,
\* except at most the one it was at.
THEOREM ReportsMatchWire == Spec => []StatsMatchWire
<1> DEFINE Inv == TypeInv /\ HandInv /\ LogRunsInv /\ ReportRunsInv /\ TallyInv /\ StatsMatchWire
<1>1. Init => Inv
  <2>1. Init => HandInv /\ TallyInv
    BY DEF Init, HandInv, TallyInv, Running, Written
  <2>2. Init => DOMAIN logged = {} /\ DOMAIN reports = {}
    BY EmptySeq DEF Init
  <2>. QED BY <2>1, <2>2, InitType DEF LogRunsInv, ReportRunsInv, StatsMatchWire
<1>2. Inv /\ [Next]_vars => Inv'
  BY NextType, HandStep, LogRunsStep, ReportRunsStep, TallyStep, ReportStep
<1>. QED BY <1>1, <1>2, PTL DEF Spec

-----------------------------------------------------------------------------
(* The reader of the wire log.  Shown is defined by recursion; that the      *)
(* recursion has a solution, and what that solution is, follows by induction *)
(* over the cells from the end of the file.                                  *)

\* What the reader at p shows, when it goes on as g says.
ReadAt(f, g, p) ==
  IF ~HasRecord(f, p) THEN <<>>
  ELSE (IF Intact(f, p) THEN <<f[p].msg>> ELSE <<>>) \o g[p + BodyCells + 1]

Reads(f, g) == g = [p \in 1 .. Len(f) + 1 |-> ReadAt(f, g, p)]

\* The reader looks ahead only, and not past the end.
LEMMA ReadsAhead ==
  ASSUME NEW f, Len(f) \in Nat, NEW g, NEW h, NEW p \in 1 .. Len(f) + 1,
         \A k \in p + 1 .. Len(f) + 1 : g[k] = h[k]
  PROVE  ReadAt(f, g, p) = ReadAt(f, h, p)
<1>1. HasRecord(f, p) => p + BodyCells + 1 \in p + 1 .. Len(f) + 1
  BY WireLogAssumption DEF HasRecord
<1>. QED BY <1>1 DEF ReadAt

LEMMA ReaderExists ==
  ASSUME NEW f, Len(f) \in Nat
  PROVE  \E g : Reads(f, g)
<1> DEFINE L == Len(f)
           Done(n, g) == \A p \in 1 .. L + 1 : p > L + 1 - n => g[p] = ReadAt(f, g, p)
           S == {n \in 0 .. L + 1 : \E g : DOMAIN g = 1 .. L + 1 /\ g = [p \in 1 .. L + 1 |-> g[p]]
                                            /\ Done(n, g)}
<1>1. 0 \in S
  <2> DEFINE g == [p \in 1 .. L + 1 |-> <<>>]
  <2>1. DOMAIN g = 1 .. L + 1 /\ g = [p \in 1 .. L + 1 |-> g[p]] /\ Done(0, g)
    OBVIOUS
  <2>. HIDE DEF g, Done
  <2>. QED BY <2>1
<1>2. ASSUME NEW n \in 0 .. L, n \in S PROVE n + 1 \in S
  <2>1. PICK g : DOMAIN g = 1 .. L + 1 /\ g = [p \in 1 .. L + 1 |-> g[p]] /\ Done(n, g)
    BY <1>2
  <2> DEFINE q == L + 1 - n
             h == [p \in 1 .. L + 1 |-> IF p = q THEN ReadAt(f, g, q) ELSE g[p]]
  <2>2. DOMAIN h = 1 .. L + 1 /\ h = [p \in 1 .. L + 1 |-> h[p]]
    OBVIOUS
  <2>3. q \in 1 .. L + 1 /\ h[q] = ReadAt(f, g, q) /\ \A p \in 1 .. L + 1 : p # q => h[p] = g[p]
    OBVIOUS
  <2>. HIDE DEF h
  <2>4. ASSUME NEW p \in 1 .. L + 1, p > L + 1 - (n + 1) PROVE h[p] = ReadAt(f, h, p)
    <3>1. p >= q /\ \A k \in p + 1 .. L + 1 : g[k] = h[k]
      BY <2>3, <2>4
    <3>2. ReadAt(f, g, p) = ReadAt(f, h, p)
      BY <3>1, ReadsAhead
    <3>3. h[p] = ReadAt(f, g, p)
      BY <2>1, <2>3, <3>1
    <3>. QED BY <3>2, <3>3
  <2>5. Done(n + 1, h)
    BY <2>4
  <2>. HIDE DEF Done
  <2>. QED BY <2>2, <2>5
<1>3. L + 1 \in S
  <2>. HIDE DEF S
  <2>1. 0 .. L + 1 \subseteq S
    BY <1>1, <1>2, InductionUpTo
  <2>. QED BY <2>1
<1>4. PICK g : DOMAIN g = 1 .. L + 1 /\ g = [p \in 1 .. L + 1 |-> g[p]] /\ Done(L + 1, g)
  BY <1>3
<1>5. \A p \in 1 .. L + 1 : g[p] = ReadAt(f, g, p)
  BY <1>4
<1>. QED BY <1>4, <1>5 DEF Reads

\* What the reader shows of a file of cells, place by place.
LEMMA ShownReads ==
  ASSUME NEW M, NEW f \in Seq([msg : M, at : 0 .. BodyCells])
  PROVE  \E g \in [1 .. Len(f) + 1 -> Seq(M)] :
           Shown(f) = g[1] /\ \A p \in 1 .. Len(f) + 1 : g[p] = ReadAt(f, g, p)
<1> DEFINE L == Len(f)
           g == CHOOSE r : Reads(f, r)
           S == {n \in 0 .. L + 1 : \A p \in 1 .. L + 1 : p > L + 1 - n => g[p] \in Seq(M)}
<1>1. L \in Nat /\ BodyCells \in Nat
  BY LenProperties, WireLogAssumption
<1>2. Reads(f, g)
  BY <1>1, ReaderExists
<1>3. Shown(f) = g[1]
  BY DEF Shown, Reads, ReadAt
<1>. HIDE DEF g
<1>4. g = [p \in 1 .. L + 1 |-> ReadAt(f, g, p)]
  BY <1>2 DEF Reads
<1>5. \A p \in 1 .. L + 1 : g[p] = ReadAt(f, g, p)
  BY <1>4
<1>6. 0 \in S
  BY <1>1
<1>7. ASSUME NEW n \in 0 .. L, n \in S PROVE n + 1 \in S
  <2> DEFINE q == L + 1 - n
  <2>1. ASSUME HasRecord(f, q) PROVE g[q] \in Seq(M)
    <3>1. q \in 1 .. L /\ q + BodyCells + 1 \in 1 .. L + 1 /\ q + BodyCells + 1 > L + 1 - n
      BY <1>1, <2>1, WireLogAssumption DEF HasRecord
    <3>2. g[q + BodyCells + 1] \in Seq(M)
      BY <1>7, <3>1
    <3>3. f[q].msg \in M
      <4>1. f[q] \in [msg : M, at : 0 .. BodyCells]
        BY <3>1, ElementOfSeq
      <4>. QED BY <4>1
    <3>4. (IF Intact(f, q) THEN <<f[q].msg>> ELSE <<>>) \in Seq(M)
      <4>1. <<f[q].msg>> \in Seq(M)
        BY <3>3
      <4>2. <<>> \in Seq(M)
        BY EmptySeq
      <4>. QED BY <4>1, <4>2
    <3>5. ReadAt(f, g, q) \in Seq(M)
      BY <2>1, <3>2, <3>4, ConcatProperties DEF ReadAt
    <3>. QED BY <1>5, <3>1, <3>5
  <2>2. ASSUME ~HasRecord(f, q) PROVE g[q] \in Seq(M)
    <3>1. q \in 1 .. L + 1
      BY <1>1
    <3>2. g[q] = <<>>
      BY <1>5, <2>2, <3>1 DEF ReadAt
    <3>. QED BY <3>2, EmptySeq
  <2>3. \A p \in 1 .. L + 1 : p > L + 1 - (n + 1) => p = q \/ p > L + 1 - n
    BY <1>1
  <2>4. \A p \in 1 .. L + 1 : p > L + 1 - n => g[p] \in Seq(M)
    BY <1>7
  <2>5. \A p \in 1 .. L + 1 : p > L + 1 - (n + 1) => g[p] \in Seq(M)
    BY <2>1, <2>2, <2>3, <2>4
  <2>6. n + 1 \in 0 .. L + 1
    BY <1>1
  <2>. QED BY <2>5, <2>6
<1>8. L + 1 \in S
  <2>. HIDE DEF S
  <2>1. L + 1 \in Nat /\ (L + 1) - 1 = L
    BY <1>1
  <2>. HIDE DEF L
  <2>2. 0 .. L + 1 \subseteq S
    BY <1>6, <1>7, <2>1, InductionUpTo
  <2>. QED BY <2>1, <2>2
<1>9. \A p \in 1 .. L + 1 : g[p] \in Seq(M)
  BY <1>1, <1>8
<1>10. g \in [1 .. L + 1 -> Seq(M)]
  BY <1>4, <1>9
<1>. QED BY <1>3, <1>5, <1>10


\* The cell after the first i records.
Start(i) == i * (BodyCells + 1) + 1

\* The record of m stands whole at p.
RecordAt(f, p, m) == \A c \in 0 .. BodyCells : f[p + c] = [msg |-> m, at |-> c]

\* The file begins with the records of msgs.
BeginsWith(f, msgs) ==
  /\ Start(Len(msgs)) <= Len(f) + 1
  /\ \A i \in 1 .. Len(msgs) : RecordAt(f, Start(i - 1), msgs[i])

LEMMA StartFacts ==
  /\ Start(0) = 1
  /\ \A i \in Nat : Start(i) \in Nat \ {0} /\ Start(i + 1) = Start(i) + BodyCells + 1
<1>1. BodyCells \in Nat
  BY WireLogAssumption
<1>2. ASSUME NEW i \in Nat
      PROVE  Start(i) \in Nat \ {0} /\ Start(i + 1) = Start(i) + BodyCells + 1
  <2> DEFINE x == i * (BodyCells + 1)
             y == (i + 1) * (BodyCells + 1)
  <2>1. x \in Nat /\ y = x + BodyCells + 1
    BY <1>1
  <2>2. Start(i) = x + 1 /\ Start(i + 1) = y + 1
    BY DEF Start
  <2>. HIDE DEF x, y
  <2>. QED BY <1>1, <2>1, <2>2
<1>3. Start(0) = 1
  <2>1. 0 * (BodyCells + 1) = 0
    BY <1>1
  <2>. QED BY <2>1 DEF Start
<1>. QED BY <1>2, <1>3

\* Records follow one another.
LEMMA StartGrows ==
  ASSUME NEW n \in Nat
  PROVE  \A i \in 0 .. n : Start(i) <= Start(n)
<1> DEFINE S == {k \in Nat : \A i \in 0 .. k : Start(i) <= Start(k)}
<1>1. 0 \in S
  BY StartFacts
<1>2. ASSUME NEW k \in Nat, k \in S PROVE k + 1 \in S
  <2>1. \A i \in 0 .. k + 1 : i \in 0 .. k \/ i = k + 1
    OBVIOUS
  <2>2. Start(k) <= Start(k + 1) /\ \A i \in 0 .. k + 1 : Start(i) \in Nat
    BY StartFacts, WireLogAssumption
  <2>3. \A i \in 0 .. k : Start(i) <= Start(k)
    BY <1>2
  <2>. QED BY <2>1, <2>2, <2>3, StartFacts
<1>3. Nat \subseteq S
  <2>. HIDE DEF S
  <2>. QED BY <1>1, <1>2, Induction
<1>. QED BY <1>3

\* At a record that is whole the reader shows its message and goes on.
LEMMA ReadsOne ==
  ASSUME NEW M, NEW f \in Seq([msg : M, at : 0 .. BodyCells]), NEW g, NEW m, NEW p \in Nat \ {0},
         p + BodyCells <= Len(f), RecordAt(f, p, m)
  PROVE  ReadAt(f, g, p) = <<m>> \o g[p + BodyCells + 1]
<1>1. BodyCells \in Nat /\ Len(f) \in Nat
  BY WireLogAssumption, LenProperties
<1>2. f[p] = [msg |-> m, at |-> 0]
  <2>1. 0 \in 0 .. BodyCells /\ p + 0 = p
    BY <1>1
  <2>2. f[p + 0] = [msg |-> m, at |-> 0]
    BY <2>1 DEF RecordAt
  <2>. QED BY <2>1, <2>2
<1>3. HasRecord(f, p)
  BY <1>2 DEF HasRecord
<1>4. SubSeq(f, p, p + BodyCells) = Record(m)
  <2>1. \A i \in p .. p + BodyCells : f[i] \in [msg : M, at : 0 .. BodyCells]
    <3>1. \A i \in p .. p + BodyCells : i \in 1 .. Len(f)
      BY <1>1
    <3>. QED BY <3>1, ElementOfSeq
  <2>2. /\ SubSeq(f, p, p + BodyCells) \in Seq([msg : M, at : 0 .. BodyCells])
        /\ Len(SubSeq(f, p, p + BodyCells)) = BodyCells + 1
        /\ \A i \in 1 .. BodyCells + 1 : SubSeq(f, p, p + BodyCells)[i] = f[p + i - 1]
    BY <1>1, <2>1, SubSeqProperties
  <2>3. \A i \in 1 .. BodyCells + 1 : f[p + i - 1] = [msg |-> m, at |-> i - 1]
    <3>1. ASSUME NEW i \in 1 .. BodyCells + 1 PROVE f[p + i - 1] = [msg |-> m, at |-> i - 1]
      <4>1. i - 1 \in 0 .. BodyCells /\ p + i - 1 = p + (i - 1)
        BY <1>1
      <4>. QED BY <4>1 DEF RecordAt
    <3>. QED BY <3>1
  <2>4. m \in M
    <3>1. f[p] \in [msg : M, at : 0 .. BodyCells]
      BY <1>1, <2>1
    <3>. QED BY <1>2, <3>1
  <2>5. /\ Record(m) \in Seq([msg : M, at : 0 .. BodyCells])
        /\ Len(Record(m)) = BodyCells + 1
        /\ \A i \in 1 .. BodyCells + 1 : Record(m)[i] = [msg |-> m, at |-> i - 1]
    BY <2>4, RecordPlaces
  <2>. QED BY <2>2, <2>3, <2>5, SeqEqual
<1>5. Intact(f, p)
  BY <1>2, <1>4 DEF Intact
<1>. QED BY <1>2, <1>3, <1>5 DEF ReadAt

\* Of a file that begins with whole records, the reader shows their messages
\* first, in order.
LEMMA ReadsBeginning ==
  ASSUME NEW M, NEW f \in Seq([msg : M, at : 0 .. BodyCells]), NEW msgs \in Seq(M),
         BeginsWith(f, msgs)
  PROVE  /\ Shown(f) \in Seq(M)
         /\ Len(msgs) <= Len(Shown(f))
         /\ \A i \in 1 .. Len(msgs) : Shown(f)[i] = msgs[i]
<1> DEFINE n == Len(msgs)
<1>1. PICK g \in [1 .. Len(f) + 1 -> Seq(M)] :
        Shown(f) = g[1] /\ \A p \in 1 .. Len(f) + 1 : g[p] = ReadAt(f, g, p)
  BY ShownReads
<1>2. n \in Nat /\ Len(f) \in Nat /\ BodyCells \in Nat
  BY LenProperties, WireLogAssumption
<1> DEFINE Prefix(i) == /\ Len(g[1]) = i + Len(g[Start(i)])
                        /\ \A k \in 1 .. i : g[1][k] = msgs[k]
                        /\ \A k \in 1 .. Len(g[Start(i)]) : g[1][i + k] = g[Start(i)][k]
           S == {i \in 0 .. n : Prefix(i)}
<1>3. \A i \in 0 .. n : Start(i) \in 1 .. Len(f) + 1
  <2>1. \A i \in 0 .. n : Start(i) <= Start(n) /\ Start(i) \in Nat \ {0}
    BY <1>2, StartGrows, StartFacts
  <2>2. Start(n) \in Nat /\ Start(n) <= Len(f) + 1
    BY <1>2, StartFacts DEF BeginsWith
  <2>. QED BY <1>2, <2>1, <2>2
<1>4. 0 \in S
  <2>1. g[1] \in Seq(M) /\ Start(0) = 1 /\ 0 \in 0 .. n
    BY <1>1, <1>2, StartFacts
  <2>2. Len(g[1]) \in Nat
    BY <2>1, LenProperties
  <2> DEFINE a == Len(g[1])
  <2>. HIDE DEF a
  <2>3. a = 0 + a /\ \A k \in 1 .. a : 0 + k = k
    BY <2>2 DEF a
  <2>4. Prefix(0)
    BY <2>1, <2>3 DEF a
  <2>. HIDE DEF Prefix
  <2>. QED BY <2>1, <2>4
<1>5. ASSUME NEW i \in 0 .. n - 1, i \in S PROVE i + 1 \in S
  <2> DEFINE p == Start(i)
             q == Start(i + 1)
  <2>1. p \in 1 .. Len(f) + 1 /\ q \in 1 .. Len(f) + 1 /\ q = p + BodyCells + 1 /\ i + 1 \in 1 .. n
    <3>1. i \in Nat /\ i \in 0 .. n /\ i + 1 \in 0 .. n /\ i + 1 \in 1 .. n
      BY <1>2
    <3>. QED BY <1>3, <3>1, StartFacts
  <2>2. RecordAt(f, p, msgs[i + 1])
    <3>1. (i + 1) - 1 = i
      BY <1>2
    <3>. QED BY <2>1, <3>1 DEF BeginsWith
  <2>. HIDE DEF p, q
  <2>3. g[p] = <<msgs[i + 1]>> \o g[q]
    <3>1. p \in Nat \ {0} /\ p + BodyCells <= Len(f)
      BY <1>2, <2>1
    <3>2. ReadAt(f, g, p) = <<msgs[i + 1]>> \o g[p + BodyCells + 1]
      BY <2>2, <3>1, ReadsOne
    <3>. QED BY <1>1, <2>1, <3>2
  <2>4. msgs[i + 1] \in M /\ g[p] \in Seq(M) /\ g[q] \in Seq(M) /\ g[1] \in Seq(M)
    <3>1. msgs[i + 1] \in M
      BY <2>1, ElementOfSeq
    <3>2. 1 \in 1 .. Len(f) + 1
      BY <1>2
    <3>. QED BY <1>1, <2>1, <3>1, <3>2
  <2>5. /\ Len(g[q]) \in Nat /\ Len(g[p]) = 1 + Len(g[q]) /\ g[p][1] = msgs[i + 1]
        /\ \A k \in 1 .. Len(g[q]) : g[p][k + 1] = g[q][k]
    <3>1. <<msgs[i + 1]>> \in Seq(M) /\ Len(<<msgs[i + 1]>>) = 1
      BY <2>4
    <3>2. Len(g[q]) \in Nat
      BY <2>4, LenProperties
    <3>3. /\ Len(g[p]) = 1 + Len(g[q])
          /\ \A k \in 1 .. 1 + Len(g[q]) :
               g[p][k] = IF k <= 1 THEN <<msgs[i + 1]>>[k] ELSE g[q][k - 1]
      BY <2>3, <2>4, <3>1, ConcatProperties
    <3>4. g[p][1] = msgs[i + 1]
      BY <3>2, <3>3
    <3>. QED BY <3>2, <3>3, <3>4
  <2>6. /\ Len(g[1]) = i + Len(g[p]) /\ \A k \in 1 .. i : g[1][k] = msgs[k]
        /\ \A k \in 1 .. Len(g[p]) : g[1][i + k] = g[p][k]
    BY <1>5 DEF p
  <2>0. i \in Nat
    BY <1>2
  <2>7. Len(g[1]) = i + 1 + Len(g[q])
    <3> DEFINE a == Len(g[1])
               b == Len(g[p])
               c == Len(g[q])
    <3>1. c \in Nat /\ b = 1 + c /\ a = i + b
      BY <2>5, <2>6
    <3>. HIDE DEF a, b, c
    <3>2. a = i + 1 + c
      BY <2>0, <3>1
    <3>. QED BY <3>2 DEF a, c
  <2>8. g[1][i + 1] = msgs[i + 1]
    BY <2>5, <2>6
  <2>9. ASSUME NEW k \in 1 .. Len(g[q]) PROVE g[1][i + 1 + k] = g[q][k]
    <3> DEFINE b == Len(g[p])
               c == Len(g[q])
    <3>0. c \in Nat /\ b = 1 + c /\ k \in 1 .. c
      BY <2>5
    <3>. HIDE DEF b, c
    <3>1. k + 1 \in 1 .. b /\ i + 1 + k = i + (k + 1)
      BY <2>0, <3>0
    <3>2. g[1][i + (k + 1)] = g[p][k + 1] /\ g[p][k + 1] = g[q][k]
      BY <2>5, <2>6, <3>0, <3>1 DEF b, c
    <3>. QED BY <3>1, <3>2
  <2>10. \A k \in 1 .. i + 1 : g[1][k] = msgs[k]
    BY <1>2, <2>6, <2>8
  <2>11. Prefix(i + 1)
    BY <2>7, <2>9, <2>10 DEF q
  <2>12. i + 1 \in 0 .. n
    BY <1>2
  <2>. HIDE DEF Prefix
  <2>. QED BY <2>11, <2>12
<1>6. n \in S
  <2>. HIDE DEF S
  <2>1. 0 .. n \subseteq S
    BY <1>2, <1>4, <1>5, InductionUpTo
  <2>. QED BY <1>2, <2>1
<1>7. Shown(f) \in Seq(M) /\ Start(n) \in 1 .. Len(f) + 1 /\ Prefix(n)
  <2>1. 1 \in 1 .. Len(f) + 1 /\ n \in 0 .. n
    BY <1>2
  <2>. QED BY <1>1, <1>3, <1>6, <2>1
<1>8. Len(g[Start(n)]) \in Nat
  BY <1>7, LenProperties
<1>. QED BY <1>1, <1>2, <1>7, <1>8


\* Whatever is appended, the file begins as it did.
LEMMA BeginsStays ==
  ASSUME NEW C, NEW f \in Seq(C), NEW h \in Seq(C), NEW M, NEW msgs \in Seq(M),
         BeginsWith(f, msgs)
  PROVE  BeginsWith(f \o h, msgs)
<1> DEFINE n == Len(msgs)
<1>1. n \in Nat /\ BodyCells \in Nat /\ Len(f) \in Nat /\ Len(h) \in Nat
  BY LenProperties, WireLogAssumption
<1>2. /\ Len(f \o h) = Len(f) + Len(h)
      /\ \A k \in 1 .. Len(f) : (f \o h)[k] = f[k]
  <2>1. /\ Len(f \o h) = Len(f) + Len(h)
        /\ \A k \in 1 .. Len(f) + Len(h) :
             (f \o h)[k] = IF k <= Len(f) THEN f[k] ELSE h[k - Len(f)]
    BY ConcatProperties
  <2>. QED BY <1>1, <2>1
<1>3. Start(n) \in Nat /\ Start(n) <= Len(f) + 1
  BY <1>1, StartFacts DEF BeginsWith
<1>4. ASSUME NEW i \in 1 .. n PROVE RecordAt(f \o h, Start(i - 1), msgs[i])
  <2>1. i - 1 \in Nat /\ i \in 0 .. n /\ (i - 1) + 1 = i
    BY <1>1
  <2>2. Start(i - 1) \in Nat \ {0} /\ Start(i) = Start(i - 1) + BodyCells + 1 /\ Start(i) <= Start(n)
    BY <1>1, <2>1, StartFacts, StartGrows
  <2>3. \A c \in 0 .. BodyCells : Start(i - 1) + c \in 1 .. Len(f)
    BY <1>1, <1>3, <2>2
  <2>4. RecordAt(f, Start(i - 1), msgs[i])
    BY DEF BeginsWith
  <2>. QED BY <1>2, <2>3, <2>4 DEF RecordAt
<1>5. Start(n) <= Len(f \o h) + 1
  BY <1>1, <1>2, <1>3
<1>. QED BY <1>4, <1>5 DEF BeginsWith

\* A record that is appended where the last one ended is the next one.
LEMMA BeginsMore ==
  ASSUME NEW M, NEW f \in Seq([msg : M, at : 0 .. BodyCells]), NEW msgs \in Seq(M), NEW m \in M,
         BeginsWith(f, msgs), Len(f) + 1 = Start(Len(msgs))
  PROVE  /\ BeginsWith(f \o Record(m), Append(msgs, m))
         /\ Len(f \o Record(m)) + 1 = Start(Len(Append(msgs, m)))
<1> DEFINE n == Len(msgs)
           h == f \o Record(m)
           more == Append(msgs, m)
           start == Start(n)
<1>1. n \in Nat /\ BodyCells \in Nat /\ Len(f) \in Nat
  BY LenProperties, WireLogAssumption
<1>2. /\ Record(m) \in Seq([msg : M, at : 0 .. BodyCells])
      /\ Len(Record(m)) = BodyCells + 1
      /\ \A i \in 1 .. BodyCells + 1 : Record(m)[i] = [msg |-> m, at |-> i - 1]
  BY RecordPlaces
<1>3. /\ Len(h) = Len(f) + BodyCells + 1
      /\ \A k \in 1 .. BodyCells + 1 : h[Len(f) + k] = Record(m)[k]
  <2>1. /\ Len(h) = Len(f) + (BodyCells + 1)
        /\ \A k \in 1 .. Len(f) + (BodyCells + 1) :
             h[k] = IF k <= Len(f) THEN f[k] ELSE Record(m)[k - Len(f)]
    BY <1>2, ConcatProperties
  <2>2. ASSUME NEW k \in 1 .. BodyCells + 1 PROVE h[Len(f) + k] = Record(m)[k]
    <3>1. Len(f) + k \in 1 .. Len(f) + (BodyCells + 1) /\ ~(Len(f) + k <= Len(f))
          /\ (Len(f) + k) - Len(f) = k
      BY <1>1
    <3>. HIDE DEF h
    <3>. QED BY <2>1, <3>1
  <2>. QED BY <1>1, <2>1, <2>2
<1>4. /\ Len(more) = n + 1 /\ more[n + 1] = m
      /\ \A i \in 1 .. n : more[i] = msgs[i]
  BY AppendPlaces
<1>5. start \in Nat \ {0} /\ Start(n + 1) = start + BodyCells + 1 /\ start = Len(f) + 1
  BY <1>1, StartFacts
<1>6. BeginsWith(h, msgs)
  BY <1>2, BeginsStays
<1>7. RecordAt(h, start, m)
  <2>1. ASSUME NEW c \in 0 .. BodyCells PROVE h[start + c] = [msg |-> m, at |-> c]
    <3>1. c + 1 \in 1 .. BodyCells + 1 /\ start + c = Len(f) + (c + 1) /\ (c + 1) - 1 = c
      BY <1>1, <1>5
    <3>2. h[Len(f) + (c + 1)] = Record(m)[c + 1] /\ Record(m)[c + 1] = [msg |-> m, at |-> (c + 1) - 1]
      BY <1>2, <1>3, <3>1
    <3>. QED BY <3>1, <3>2
  <2>. QED BY <2>1 DEF RecordAt
<1>. HIDE DEF h, more, start
<1>8. \A i \in 1 .. n + 1 : RecordAt(h, Start(i - 1), more[i])
  <2>1. ASSUME NEW i \in 1 .. n + 1 PROVE RecordAt(h, Start(i - 1), more[i])
    <3>1. CASE i \in 1 .. n
      BY <1>4, <1>6, <3>1 DEF BeginsWith
    <3>2. CASE i = n + 1
      <4>1. i - 1 = n
        BY <1>1, <3>2
      <4>. QED BY <1>4, <1>7, <3>2, <4>1 DEF start
    <3>. QED BY <1>1, <3>1, <3>2
  <2>. QED BY <2>1
<1>9. Start(n + 1) = Len(h) + 1
  BY <1>1, <1>3, <1>5
<1>. QED BY <1>1, <1>3, <1>4, <1>8, <1>9 DEF BeginsWith, h, more

\* Up to the first tear the file holds the messages that were appended whole,
\* and nothing else as long as there is none.
WireInv ==
  /\ BeginsWith(wireFile, BeforeTear)
  /\ torn = NotTorn => Len(wireFile) + 1 = Start(Len(logged))
  /\ torn # NotTorn => torn <= Len(logged)

\* The messages before the first tear are the first ones of the log.
LEMMA BeforeTearPlaces ==
  ASSUME WireTypes, torn # NotTorn => torn <= Len(logged)
  PROVE  /\ BeforeTear \in Seq(Message)
         /\ Len(BeforeTear) \in 0 .. Len(logged)
         /\ \A i \in 1 .. Len(BeforeTear) : BeforeTear[i] = logged[i]
         /\ torn = NotTorn => BeforeTear = logged
         /\ torn # NotTorn => BeforeTear = SubSeq(logged, 1, torn) /\ Len(BeforeTear) = torn
<1>1. logged \in Seq(Message) /\ Len(logged) \in Nat /\ torn \in Nat \cup {NotTorn}
  BY LenProperties DEF WireTypes
<1>2. CASE torn = NotTorn
  BY <1>1, <1>2 DEF BeforeTear
<1>3. CASE torn # NotTorn
  <2>1. torn \in Nat /\ torn <= Len(logged) /\ BeforeTear = SubSeq(logged, 1, torn)
    BY <1>1, <1>3 DEF BeforeTear
  <2>2. \A i \in 1 .. torn : logged[i] \in Message
    BY <1>1, <2>1, ElementOfSeq
  <2>3. /\ SubSeq(logged, 1, torn) \in Seq(Message)
        /\ Len(SubSeq(logged, 1, torn)) = IF 1 <= torn THEN torn - 1 + 1 ELSE 0
        /\ \A i \in 1 .. torn - 1 + 1 : SubSeq(logged, 1, torn)[i] = logged[1 + i - 1]
    BY <2>1, <2>2, SubSeqProperties
  <2>4. Len(BeforeTear) = torn
    BY <2>1, <2>3
  <2>5. \A i \in 1 .. torn : i \in 1 .. torn - 1 + 1 /\ 1 + i - 1 = i
    BY <2>1
  <2>. QED BY <1>1, <1>3, <2>1, <2>3, <2>4, <2>5
<1>. QED BY <1>2, <1>3


\* The first n of a sequence, in a longer one.
LEMMA PrefixOf ==
  ASSUME NEW S, NEW s \in Seq(S), NEW t \in Seq(S), Len(t) <= Len(s),
         \A i \in 1 .. Len(t) : s[i] = t[i]
  PROVE  SubSeq(s, 1, Len(t)) = t
<1> DEFINE n == Len(t)
           u == SubSeq(s, 1, n)
<1>1. n \in Nat /\ Len(s) \in Nat
  BY LenProperties
<1>2. \A i \in 1 .. n : s[i] \in S
  BY <1>1, ElementOfSeq
<1>3. /\ u \in Seq(S)
      /\ Len(u) = IF 1 <= n THEN n - 1 + 1 ELSE 0
      /\ \A i \in 1 .. n - 1 + 1 : u[i] = s[1 + i - 1]
  BY <1>1, <1>2, SubSeqProperties
<1>4. Len(u) = n /\ \A i \in 1 .. n : u[i] = t[i]
  <2>. HIDE DEF u
  <2>1. \A i \in 1 .. n : i \in 1 .. n - 1 + 1 /\ 1 + i - 1 = i
    BY <1>1
  <2>. QED BY <1>1, <1>3, <2>1
<1>. HIDE DEF u
<1>5. u = t
  BY <1>3, <1>4, SeqEqual
<1>. QED BY <1>5 DEF u

LEMMA WireInvStep == TypeInv /\ WireInv /\ [Next]_vars => WireInv'
<1> SUFFICES ASSUME TypeInv, WireInv, [Next]_vars PROVE WireInv'
  OBVIOUS
<1>1. /\ wireFile \in Seq(Cell) /\ logged \in Seq(Message) /\ Len(logged) \in Nat
      /\ torn \in Nat \cup {NotTorn} /\ NotTorn \notin Nat
  BY LenProperties DEF TypeInv, TypeOK, WireTypes, Cell, NotTorn
<1>2. /\ BeforeTear \in Seq(Message)
      /\ Len(BeforeTear) \in 0 .. Len(logged)
      /\ \A i \in 1 .. Len(BeforeTear) : BeforeTear[i] = logged[i]
      /\ torn = NotTorn => BeforeTear = logged
      /\ torn # NotTorn => BeforeTear = SubSeq(logged, 1, torn) /\ Len(BeforeTear) = torn
  BY BeforeTearPlaces DEF TypeInv, TypeOK, WireInv
<1>3. ASSUME NEW m \in Message, Log(m) PROVE WireInv'
  <2>1. /\ wireFile' = wireFile \o Record(m) /\ logged' = Append(logged, m) /\ torn' = torn
        /\ Record(m) \in Seq(Cell)
    BY <1>3, RecordCells DEF Log, AppendRecord
  <2>2. /\ logged' \in Seq(Message) /\ Len(logged') = Len(logged) + 1
        /\ \A i \in 1 .. Len(logged) : logged'[i] = logged[i]
    BY <1>1, <2>1, AppendPlaces
  <2>3. CASE torn = NotTorn
    <3>1. BeginsWith(wireFile, logged) /\ Len(wireFile) + 1 = Start(Len(logged))
      BY <1>2, <2>3 DEF WireInv
    <3>2. /\ BeginsWith(wireFile \o Record(m), Append(logged, m))
          /\ Len(wireFile \o Record(m)) + 1 = Start(Len(Append(logged, m)))
      <4>1. wireFile \in Seq([msg : Message, at : 0 .. BodyCells])
        BY <1>1 DEF Cell
      <4>. QED BY <1>1, <3>1, <4>1, BeginsMore
    <3>3. BeforeTear' = logged' /\ torn' = NotTorn
      BY <2>1, <2>3 DEF BeforeTear, NotTorn
    <3>4. BeginsWith(wireFile', logged') /\ Len(wireFile') + 1 = Start(Len(logged'))
      BY <2>1, <3>2
    <3>. QED BY <3>3, <3>4 DEF WireInv
  <2>4. CASE torn # NotTorn
    <3>1. torn <= Len(logged) /\ torn \in Nat /\ torn' # NotTorn' /\ torn' <= Len(logged')
      BY <1>1, <2>1, <2>2, <2>4 DEF WireInv, NotTorn
    <3>2. SubSeq(logged', 1, Len(BeforeTear)) = BeforeTear
      BY <1>1, <1>2, <2>2, PrefixOf
    <3>3. BeforeTear' = BeforeTear
      BY <1>2, <2>1, <2>4, <3>1, <3>2 DEF BeforeTear
    <3>4. BeginsWith(wireFile', BeforeTear)
      BY <1>1, <1>2, <2>1, BeginsStays DEF WireInv
    <3>. QED BY <3>1, <3>3, <3>4 DEF WireInv
  <2>. QED BY <2>3, <2>4
<1>4. ASSUME NEW m \in Message, NEW k \in 1 .. BodyCells, LogPartly(m, k) PROVE WireInv'
  <2>1. /\ wireFile' = wireFile \o SubSeq(Record(m), 1, k) /\ logged' = logged
        /\ torn' = IF torn = NotTorn THEN Len(logged) ELSE torn
        /\ SubSeq(Record(m), 1, k) \in Seq(Cell)
    BY <1>4, RecordCells DEF LogPartly, AppendCells
  <2>2. torn' # NotTorn' /\ torn' <= Len(logged')
    BY <1>1, <2>1 DEF WireInv, NotTorn
  <2>3. SubSeq(logged, 1, Len(BeforeTear)) = BeforeTear
    BY <1>1, <1>2, PrefixOf
  <2>4. torn' = Len(BeforeTear)
    BY <1>2, <2>1
  <2>5. BeforeTear' = BeforeTear
    BY <2>1, <2>2, <2>3, <2>4 DEF BeforeTear
  <2>6. BeginsWith(wireFile', BeforeTear)
    BY <1>1, <1>2, <2>1, BeginsStays DEF WireInv
  <2>. QED BY <2>2, <2>5, <2>6 DEF WireInv
<1>5. CASE UNCHANGED wireVars
  BY <1>5 DEF wireVars, WireInv, BeforeTear, NotTorn
<1>. QED BY <1>3, <1>4, <1>5, WireMoves

LEMMA WireInvariant == Spec => [](TypeInv /\ WireInv)
<1>1. Init => WireInv
  <2> SUFFICES ASSUME Init PROVE WireInv
    OBVIOUS
  <2>1. wireFile = <<>> /\ logged = <<>> /\ torn = NotTorn /\ BeforeTear = <<>>
    BY DEF Init, BeforeTear
  <2>2. Len(<<>>) = 0 /\ Start(0) = 1
    BY EmptySeq, StartFacts
  <2>3. BeginsWith(wireFile, BeforeTear)
    BY <2>1, <2>2 DEF BeginsWith
  <2>. QED BY <2>1, <2>2, <2>3 DEF WireInv
<1>. QED BY <1>1, InitType, NextType, WireInvStep, PTL DEF Spec

\* What the log shows of the messages before the first tear.
LEMMA ShownBeginning ==
  ASSUME TypeInv, WireInv
  PROVE  /\ Shown(wireFile) \in Seq(Message) /\ BeforeTear \in Seq(Message)
         /\ Len(BeforeTear) <= Len(Shown(wireFile)) /\ Len(BeforeTear) <= Len(logged)
         /\ \A i \in 1 .. Len(BeforeTear) :
              Shown(wireFile)[i] = logged[i] /\ BeforeTear[i] = logged[i]
<1>1. /\ BeforeTear \in Seq(Message)
      /\ Len(BeforeTear) \in 0 .. Len(logged)
      /\ \A i \in 1 .. Len(BeforeTear) : BeforeTear[i] = logged[i]
  BY BeforeTearPlaces DEF TypeInv, TypeOK, WireInv
<1>2. wireFile \in Seq([msg : Message, at : 0 .. BodyCells]) /\ Len(logged) \in Nat
  BY LenProperties DEF TypeInv, TypeOK, WireTypes
<1>3. /\ Shown(wireFile) \in Seq(Message) /\ Len(BeforeTear) <= Len(Shown(wireFile))
      /\ \A i \in 1 .. Len(BeforeTear) : Shown(wireFile)[i] = BeforeTear[i]
  BY <1>1, <1>2, ReadsBeginning DEF WireInv
<1>. QED BY <1>1, <1>2, <1>3

\* inspect_wire.py reads back what was appended: however often a record is cut
\* off, by a crash, a full disk or Ctrl-C, and however many runs append to the
\* file after it, every message before the first such record is shown, in order.
THEOREM LogReadsBack == Spec => []ReadBack
<1>1. TypeInv /\ WireInv => ReadBack
  <2> SUFFICES ASSUME TypeInv, WireInv PROVE ReadBack
    OBVIOUS
  <2>1. /\ Shown(wireFile) \in Seq(Message) /\ BeforeTear \in Seq(Message)
        /\ Len(BeforeTear) <= Len(Shown(wireFile))
        /\ \A i \in 1 .. Len(BeforeTear) : Shown(wireFile)[i] = BeforeTear[i]
    BY ShownBeginning
  <2>2. SubSeq(Shown(wireFile), 1, Len(BeforeTear)) = BeforeTear
    BY <2>1, PrefixOf
  <2>3. Len(BeforeTear) \in Nat /\ Len(Shown(wireFile)) \in Nat
    BY <2>1, LenProperties
  <2>. QED BY <2>1, <2>2, <2>3 DEF ReadBack
<1>. QED BY <1>1, WireInvariant, PTL

-----------------------------------------------------------------------------
(* What an inference rests on can be looked up *)

\* The first n messages of the log hold what m rests on.
RestsOn(log, m, n) ==
  \A e \in m.evidence : \E i \in 1 .. n :
    log[i].kind = "type1" /\ log[i].run = m.run /\ log[i].event = e

\* The engine has heard of nothing that this run did not append.
HeardInv == \A m \in heard : m.run = run /\ Logged(m)

\* What an inference rests on is appended before it.
EvidenceInv ==
  /\ pc = "infer" => \A m \in firing : RestsOn(logged, m, Len(logged))
  /\ \A j \in DOMAIN logged : logged[j].kind = "type2" => RestsOn(logged, logged[j], j - 1)

\* What was appended may grow.
LEMMA RestsStill ==
  ASSUME NEW log, NEW more, NEW m, NEW n \in Nat, RestsOn(log, m, n),
         \A i \in 1 .. n : more[i] = log[i]
  PROVE  RestsOn(more, m, n)
  BY DEF RestsOn

\* What the engine hears of went to the wire.
LEMMA HeardStep ==
  TypeInv /\ HandInv /\ SentInv /\ HeardInv /\ [Next]_vars => HeardInv'
<1> SUFFICES ASSUME TypeInv, HandInv, SentInv, HeardInv, [Next]_vars PROVE HeardInv'
  OBVIOUS
<1>1. \A m : Logged(m) => \E j \in DOMAIN logged' : logged'[j] = m
  BY LoggedStays DEF Logged
<1>2. CASE StartRun
  BY <1>2 DEF StartRun, HeardInv
<1>3. CASE Ingest /\ at <= Len(batch)
  <2>1. heard' = heard \cup {batch[at]} /\ run' = run /\ pc = "ingest"
    BY <1>3 DEF Ingest
  <2>2. at \in DOMAIN batch
    BY <1>3, MemberAt DEF TypeInv, TypeOK, LoopTypes, MessageTypes
  <2>3. Logged(batch[at]) /\ batch[at].run = run
    BY <2>1, <2>2 DEF SentInv, WasSent, HandInv, Written
  <2>. QED BY <1>1, <2>1, <2>3 DEF HeardInv, Logged
<1>4. CASE heard' = heard /\ run' = run
  BY <1>1, <1>4 DEF HeardInv, Logged
<1>5. StartRun \/ (Ingest /\ at <= Len(batch)) \/ (heard' = heard /\ run' = run)
  BY DEF Next, LoopStep, ReadFrame, EndOfInput, Emit, Mirror, WriteType1, Counted, Ingest,
         WriteType2, Remember, ReportInference, Tally, Mark, Digest, Caption, EndFrame, Finish,
         Interrupt, WriteInterrupted, WriteTorn, Crash, engineVars, vars
<1>. QED BY <1>2, <1>3, <1>4, <1>5

\* An inference that fires rests on what the engine has heard of.
LEMMA FiringRests ==
  ASSUME TypeInv, HeardInv', Ingest, logged' = logged, heard' \subseteq Type1Message,
         pc' = "infer", NEW m \in firing'
  PROVE  RestsOn(logged, m, Len(logged))
<1>1. DOMAIN logged = 1 .. Len(logged)
  BY LenProperties DEF TypeInv, TypeOK, WireTypes
<1>2. PICK evidence \in SUBSET Vehicles(heard') :
        firing' = {[kind |-> "type2", run |-> run, frame |-> frameIdx, inference |-> nextInf,
                    evidence |-> {x.event : x \in evidence}]}
  BY DEF Ingest
<1>3. run' = run
  BY DEF Ingest
<1>4. ASSUME NEW e \in m.evidence
      PROVE  \E i \in 1 .. Len(logged) :
               logged[i].kind = "type1" /\ logged[i].run = m.run /\ logged[i].event = e
  <2>1. PICK x \in evidence : e = x.event
    BY <1>2, <1>4
  <2>2. x \in heard'
    BY <2>1 DEF Vehicles
  <2>3. x.run = run /\ x.kind = "type1" /\ \E j \in DOMAIN logged : logged[j] = x
    BY <1>3, <2>2 DEF HeardInv, Logged, Type1Message
  <2>4. m.run = run
    BY <1>2
  <2>. QED BY <1>1, <2>1, <2>3, <2>4
<1>. QED BY <1>4 DEF RestsOn

LEMMA EvidenceStep ==
  TypeInv /\ TypeInv' /\ HeardInv' /\ EvidenceInv /\ [Next]_vars => EvidenceInv'
<1> SUFFICES ASSUME TypeInv, TypeInv', HeardInv', EvidenceInv, [Next]_vars PROVE EvidenceInv'
  OBVIOUS
<1>1. WireTypes /\ DOMAIN logged = 1 .. Len(logged) /\ Len(logged) \in Nat
  BY LenProperties DEF TypeInv, TypeOK, WireTypes
<1>2. ASSUME NEW j \in DOMAIN logged, logged[j].kind = "type2"
      PROVE  logged'[j] = logged[j] /\ RestsOn(logged', logged[j], j - 1)
  <2>1. RestsOn(logged, logged[j], j - 1) /\ j - 1 \in Nat
    BY <1>1, <1>2 DEF EvidenceInv
  <2>2. \A i \in 1 .. j - 1 : i \in DOMAIN logged
    BY <1>1
  <2>. QED BY <2>1, <2>2, LoggedStays, RestsStill
<1>3. ASSUME NEW m \in Message, Log(m), m.kind = "type2" => RestsOn(logged, m, Len(logged)),
             pc' # "infer"
      PROVE  EvidenceInv'
  <2>1. /\ DOMAIN logged' = DOMAIN logged \cup {Len(logged) + 1}
        /\ \A j \in DOMAIN logged : logged'[j] = logged[j]
        /\ logged'[Len(logged) + 1] = m
    BY <1>1, <1>3, LoggedMore
  <2>2. m.kind = "type2" => RestsOn(logged', m, (Len(logged) + 1) - 1)
    <3>1. (Len(logged) + 1) - 1 = Len(logged)
      BY <1>1
    <3>. QED BY <1>1, <1>3, <2>1, <3>1, RestsStill
  <2>3. ASSUME NEW j \in DOMAIN logged', logged'[j].kind = "type2"
        PROVE  RestsOn(logged', logged'[j], j - 1)
    <3>1. CASE j \in DOMAIN logged
      BY <1>2, <2>1, <2>3, <3>1
    <3>2. CASE j = Len(logged) + 1
      BY <2>1, <2>2, <2>3, <3>2
    <3>. QED BY <2>1, <3>1, <3>2
  <2>. QED BY <1>3, <2>3 DEF EvidenceInv
<1>4. CASE WriteType1 /\ at <= Len(batch) /\ batch[at] \in Message /\ Log(batch[at])
  <2>1. batch[at].kind = "type1"
    <3>1. batch[at] \in Type1Message
      BY <1>4, MemberAt DEF TypeInv, TypeOK, LoopTypes, MessageTypes
    <3>. QED BY <3>1 DEF Type1Message
  <2>2. pc' # "infer"
    BY <1>4 DEF WriteType1
  <2>. QED BY <1>3, <1>4, <2>1, <2>2
<1>5. CASE WriteType2 /\ \E m \in firing : m \in Message /\ Log(m)
  BY <1>3, <1>5 DEF WriteType2, EvidenceInv
<1>6. CASE logged' = logged
  <2>1. CASE Ingest /\ pc' = "infer"
    <3>1. \A m \in firing' : RestsOn(logged, m, Len(logged))
      BY <1>6, <2>1, FiringRests DEF TypeInv, TypeOK, MessageTypes
    <3>. QED BY <1>6, <3>1 DEF EvidenceInv
  <2>2. CASE pc' = "infer" => pc = "infer" /\ firing' = firing
    BY <1>6, <2>2 DEF EvidenceInv
  <2>3. (Ingest /\ pc' = "infer") \/ (pc' = "infer" => pc = "infer" /\ firing' = firing)
    BY DEF Next, LoopStep, StartRun, ReadFrame, EndOfInput, Emit, Mirror, WriteType1, Counted,
           WriteType2, Remember, ReportInference, Tally, Mark, Digest, Caption, EndFrame, Finish,
           Interrupt, WriteInterrupted, WriteTorn, Crash, engineVars, vars
  <2>. QED BY <2>1, <2>2, <2>3
<1>. QED BY <1>4, <1>5, <1>6, LogStep

\* "evidence_ids": whoever reads the log back finds, ahead of an inference, the
\* Type 1 messages of its run that it rests on, whatever else was appended and
\* wherever runs were cut off.
THEOREM EvidenceIsShown == Spec => []EvidenceShown
<1> DEFINE Inv == TypeInv /\ HandInv /\ SentInv /\ HeardInv /\ EvidenceInv
<1>1. Init => Inv
  <2>1. Init => HandInv /\ SentInv /\ HeardInv
    BY DEF Init, HandInv, SentInv, WasSent, Written, HeardInv
  <2>2. Init => EvidenceInv
    <3>1. Init => DOMAIN logged = {} /\ pc # "infer"
      BY EmptySeq DEF Init
    <3>. QED BY <3>1 DEF EvidenceInv
  <2>. QED BY <2>1, <2>2, InitType
<1>2. Inv /\ [Next]_vars => Inv'
  BY NextType, HandStep, SentStep, HeardStep, EvidenceStep
<1>3. TypeInv /\ WireInv /\ EvidenceInv => EvidenceShown
  <2> SUFFICES ASSUME TypeInv, WireInv, EvidenceInv PROVE EvidenceShown
    OBVIOUS
  <2> DEFINE shown == Shown(wireFile)
  <2>1. /\ DOMAIN BeforeTear = 1 .. Len(BeforeTear) /\ Len(BeforeTear) \in Nat
        /\ DOMAIN logged = 1 .. Len(logged) /\ Len(logged) \in Nat
        /\ Len(BeforeTear) <= Len(logged)
        /\ \A i \in 1 .. Len(BeforeTear) : shown[i] = logged[i]
    BY ShownBeginning, LenProperties DEF TypeInv, TypeOK, WireTypes
  <2>. HIDE DEF shown
  <2>2. ASSUME NEW j \in DOMAIN BeforeTear, shown[j].kind = "type2", NEW e \in shown[j].evidence
        PROVE  \E i \in 1 .. j - 1 :
                 shown[i].kind = "type1" /\ shown[i].run = shown[j].run /\ shown[i].event = e
    <3>1. j \in DOMAIN logged /\ shown[j] = logged[j]
      BY <2>1
    <3>2. PICK i \in 1 .. j - 1 :
            logged[i].kind = "type1" /\ logged[i].run = logged[j].run /\ logged[i].event = e
      BY <2>2, <3>1 DEF EvidenceInv, RestsOn
    <3>3. shown[i] = logged[i]
      BY <2>1
    <3>. QED BY <3>1, <3>2, <3>3
  <2>. QED BY <2>2 DEF EvidenceShown, shown
<1>. QED BY <1>1, <1>2, <1>3, WireInvariant, PTL DEF Spec

-----------------------------------------------------------------------------
(* Every inference has its caption *)

Captioned(lines, r, n) == \E k \in DOMAIN lines : lines[k].run = r /\ lines[k].inference = n

\* The caption of what fired at this frame is still to come.
Undone == \/ pc \in {"report", "ingest", "tally", "mark", "digest"}
          \/ pc = "caption" /\ at <= Len(Newest)

\* What fires is new, and fires once.
FiringInv ==
  pc \in {"infer", "inferred"}
    => \E inf \in firing :
         /\ firing = {inf}
         /\ inf.run = run /\ inf.frame = frameIdx /\ inf.inference = nextInf - 1

\* Of the inferences remembered at most the last is of this frame, and none
\* until one has fired.
RecentInv ==
  /\ \A i \in DOMAIN recent :
       /\ recent[i].frame <= frameIdx /\ recent[i].inference < nextInf
       /\ i # Len(recent) => recent[i].frame < frameIdx
  /\ pc \in {"read", "emit", "mirror", "write", "counted", "infer", "inferred"}
       => \A i \in DOMAIN recent : recent[i].frame < frameIdx

\* No inference has two captions, and none has one too early.
SceneInv ==
  /\ \A j, k \in DOMAIN sceneLines :
       sceneLines[j].run = sceneLines[k].run /\ sceneLines[j].inference = sceneLines[k].inference
         => j = k
  /\ \A k \in DOMAIN sceneLines :
       sceneLines[k].run <= run /\ (sceneLines[k].run = run => sceneLines[k].inference < nextInf)
  /\ pc \in {"infer", "inferred"} => \A inf \in firing : ~Captioned(sceneLines, run, inf.inference)
  /\ Undone => \A i \in DOMAIN recent :
       recent[i].frame = frameIdx => ~Captioned(sceneLines, run, recent[i].inference)

\* It will be captioned before the frame is done.
Pending(m) ==
  /\ m.frame = frameIdx
  /\ \/ pc = "inferred" /\ firing = {m}
     \/ Undone /\ recent # <<>> /\ recent[Len(recent)] = m

CaptionInv ==
  /\ pc = "digest" => at = 1
  /\ Running => \A j \in DOMAIN logged :
       logged[j].kind = "type2" /\ logged[j].run = run
         => Captioned(sceneLines, run, logged[j].inference) \/ Pending(logged[j])

\* recent_type2 ends with what was remembered last, after some of what it held.
LEMMA RememberedPlaces ==
  ASSUME NEW S, recent \in Seq(S), NEW inf \in S
  PROVE  /\ Remembered(inf) \in Seq(S) /\ Len(Remembered(inf)) \in Nat \ {0}
         /\ Remembered(inf)[Len(Remembered(inf))] = inf
         /\ \A i \in DOMAIN Remembered(inf) :
              i # Len(Remembered(inf)) => \E k \in DOMAIN recent : Remembered(inf)[i] = recent[k]
<1>1. Len(recent) \in Nat /\ DOMAIN recent = 1 .. Len(recent) /\ RecentMax \in Nat \ {0}
  BY LenProperties, FrameLoopAssumption
<1>2. CASE Len(recent) < RecentMax
  BY <1>1, <1>2, AppendPlaces DEF Remembered
<1>3. CASE ~(Len(recent) < RecentMax)
  <2> DEFINE t == Tail(recent)
             u == Append(t, inf)
  <2>1. recent # <<>>
    BY <1>1, <1>3, EmptySeq
  <2>2. /\ t \in Seq(S) /\ Len(t) = Len(recent) - 1
        /\ \A i \in 1 .. Len(t) : t[i] = recent[i + 1]
    BY <2>1, HeadTailProperties
  <2>. HIDE DEF t
  <2>3. /\ u \in Seq(S) /\ Len(t) \in Nat /\ Len(u) = Len(t) + 1
        /\ DOMAIN t = 1 .. Len(t) /\ DOMAIN u = 1 .. Len(t) + 1
        /\ \A i \in DOMAIN t : u[i] = t[i]
        /\ u[Len(t) + 1] = inf
    BY <2>2, AppendPlaces
  <2>. HIDE DEF u
  <2>4. ASSUME NEW i \in DOMAIN u, i # Len(u) PROVE \E k \in DOMAIN recent : u[i] = recent[k]
    <3>1. i \in 1 .. Len(t) /\ i + 1 \in DOMAIN recent
      BY <1>1, <2>2, <2>3, <2>4
    <3>. QED BY <2>2, <2>3, <3>1
  <2>5. Len(u) \in Nat \ {0} /\ u[Len(u)] = inf
    BY <2>3
  <2>6. Remembered(inf) = u
    BY <1>3 DEF Remembered, t, u
  <2>. QED BY <2>3, <2>4, <2>5, <2>6
<1>. QED BY <1>2, <1>3

\* recent_type2[-3:] is the end of recent_type2.
LEMMA NewestPlaces ==
  ASSUME NEW S, recent \in Seq(S)
  PROVE  /\ Len(recent) \in Nat /\ DOMAIN recent = 1 .. Len(recent)
         /\ Len(Newest) \in 0 .. Len(recent) /\ (recent # <<>> => Len(Newest) # 0)
         /\ \A k \in 1 .. Len(Newest) : Newest[k] = recent[Len(recent) - Len(Newest) + k]
<1> DEFINE n == Len(recent)
           older == IF n > CaptionTail THEN n - CaptionTail ELSE 0
<1>1. n \in Nat /\ DOMAIN recent = 1 .. n /\ CaptionTail \in Nat \ {0}
  BY LenProperties, FrameLoopAssumption
<1>2. Newest = SubSeq(recent, older + 1, n) /\ (recent # <<>> => n # 0)
  BY EmptySeq DEF Newest
<1>3. \A i \in 1 .. n : recent[i] \in S
  BY ElementOfSeq
<1>. HIDE DEF n
<1>4. older \in 0 .. n /\ (n # 0 => older # n)
  BY <1>1
<1>. HIDE DEF older
<1>5. /\ Len(SubSeq(recent, older + 1, n)) = IF older + 1 <= n THEN n - (older + 1) + 1 ELSE 0
      /\ \A i \in 1 .. n - (older + 1) + 1 :
           SubSeq(recent, older + 1, n)[i] = recent[older + 1 + i - 1]
  <2>1. \A i \in older + 1 .. n : i \in 1 .. n
    BY <1>1, <1>4
  <2>2. older + 1 \in Nat \ {0} /\ older + 1 \in 1 .. n + 1 /\ \A i \in older + 1 .. n : recent[i] \in S
    BY <1>1, <1>3, <1>4, <2>1
  <2>. HIDE DEF older
  <2>. QED BY <1>1, <2>2, SubSeqProperties
<1>6. Len(Newest) = n - older
  BY <1>1, <1>2, <1>4, <1>5
<1>7. \A k \in 1 .. n - older : Newest[k] = recent[older + k]
  <2>1. \A k \in 1 .. n - older : k \in 1 .. n - (older + 1) + 1 /\ older + 1 + k - 1 = older + k
    BY <1>1, <1>4
  <2>. QED BY <1>2, <1>5, <2>1
<1>8. n - (n - older) = older /\ n - older \in 0 .. n /\ (n # 0 => n - older # 0)
  BY <1>1, <1>4
<1>. QED BY <1>1, <1>2, <1>6, <1>7, <1>8 DEF n

LEMMA FiringStep == TypeInv /\ FiringInv /\ [Next]_vars => FiringInv'
<1> SUFFICES ASSUME TypeInv, FiringInv, [Next]_vars PROVE FiringInv'
  OBVIOUS
<1>1. nextInf \in Nat \ {0}
  BY DEF TypeInv, TypeOK, LoopTypes
<1>2. CASE Ingest /\ pc' = "infer"
  <2>1. /\ nextInf' = nextInf + 1 /\ run' = run /\ frameIdx' = frameIdx
        /\ \E evidence \in SUBSET Vehicles(heard') :
             firing' = {[kind |-> "type2", run |-> run, frame |-> frameIdx, inference |-> nextInf,
                         evidence |-> {m.event : m \in evidence}]}
    BY <1>2 DEF Ingest, frameVars
  <2>2. nextInf' - 1 = nextInf
    BY <1>1, <2>1
  <2>. QED BY <2>1, <2>2 DEF FiringInv
<1>3. CASE pc' \in {"infer", "inferred"}
             => pc \in {"infer", "inferred"} /\ UNCHANGED <<firing, run, frameIdx, nextInf>>
  BY <1>3 DEF FiringInv
<1>4. \/ Ingest /\ pc' = "infer"
      \/ pc' \in {"infer", "inferred"}
           => pc \in {"infer", "inferred"} /\ UNCHANGED <<firing, run, frameIdx, nextInf>>
  BY DEF Next, LoopStep, StartRun, ReadFrame, EndOfInput, Emit, Mirror, WriteType1, Counted, Ingest,
         WriteType2, Remember, ReportInference, Tally, Mark, Digest, Caption, EndFrame, Finish,
         Interrupt, WriteInterrupted, WriteTorn, Crash, frameVars, engineVars, vars
<1>. QED BY <1>2, <1>3, <1>4

LEMMA RecentStep == TypeInv /\ FiringInv /\ RecentInv /\ [Next]_vars => RecentInv'
<1> SUFFICES ASSUME TypeInv, FiringInv, RecentInv, [Next]_vars PROVE RecentInv'
  OBVIOUS
<1>1. nextInf \in Nat \ {0} /\ frameIdx \in Nat /\ recent \in Seq(Type2Message)
      /\ firing \subseteq Type2Message
  BY DEF TypeInv, TypeOK, LoopTypes, MessageTypes
<1>2. \A i \in DOMAIN recent : recent[i].frame \in Nat /\ recent[i].inference \in Nat
  <2>1. \A i \in DOMAIN recent : recent[i] \in Type2Message
    BY <1>1, ElementOfSeq, LenProperties
  <2>. QED BY <2>1 DEF Type2Message
<1>. USE DEF frameVars, engineVars
<1>3. CASE StartRun
  <2>1. DOMAIN recent' = {}
    BY <1>3, EmptySeq DEF StartRun
  <2>. QED BY <2>1 DEF RecentInv
<1>4. CASE Remember
  <2>1. PICK inf \in firing : recent' = Remembered(inf)
    BY <1>4 DEF Remember
  <2>2. pc = "inferred" /\ pc' = "report" /\ frameIdx' = frameIdx /\ nextInf' = nextInf
    BY <1>4 DEF Remember
  <2>3. inf.frame = frameIdx /\ inf.inference = nextInf - 1
    BY <2>1, <2>2 DEF FiringInv
  <2>4. \A i \in DOMAIN recent : recent[i].frame < frameIdx /\ recent[i].inference < nextInf
    BY <2>2 DEF RecentInv
  <2>5. ASSUME NEW i \in DOMAIN recent'
        PROVE  /\ recent'[i].frame <= frameIdx /\ recent'[i].inference < nextInf
               /\ i # Len(recent') => recent'[i].frame < frameIdx
    <3>1. /\ recent'[Len(recent')] = inf
          /\ i # Len(recent') => \E k \in DOMAIN recent : recent'[i] = recent[k]
      BY <1>1, <2>1, RememberedPlaces
    <3>2. CASE i = Len(recent')
      BY <1>1, <2>3, <3>1, <3>2
    <3>3. CASE i # Len(recent')
      BY <1>1, <1>2, <2>4, <3>1, <3>3
    <3>. QED BY <3>2, <3>3
  <2>. QED BY <2>2, <2>5 DEF RecentInv
<1>5. CASE ReadFrame \/ EndFrame
  <2>1. recent' = recent /\ nextInf' = nextInf
    BY <1>5 DEF ReadFrame, EndFrame
  <2>2. \/ frameIdx' = frameIdx /\ (pc = "read" \/ pc' = "stopping")
        \/ frameIdx' = frameIdx + 1
    BY <1>5 DEF ReadFrame, EndFrame
  <2>3. CASE frameIdx' = frameIdx + 1
    BY <1>1, <1>2, <2>1, <2>3 DEF RecentInv
  <2>4. CASE frameIdx' = frameIdx /\ (pc = "read" \/ pc' = "stopping")
    BY <2>1, <2>4 DEF RecentInv
  <2>. QED BY <2>2, <2>3, <2>4
<1>6. CASE Ingest
  <2>1. recent' = recent /\ frameIdx' = frameIdx /\ pc' \in {"ingest", "infer", "tally"}
        /\ (nextInf' = nextInf \/ nextInf' = nextInf + 1)
    BY <1>6 DEF Ingest
  <2>2. pc' = "infer" => \A i \in DOMAIN recent : recent[i].frame < frameIdx
    <3>1. pc' = "infer" => \A i \in DOMAIN recent : recent[i].frame # frameIdx
      BY <1>6 DEF Ingest, FiredThisFrame
    <3>. QED BY <1>1, <1>2, <3>1 DEF RecentInv
  <2>. QED BY <1>1, <1>2, <2>1, <2>2 DEF RecentInv
<1>7. CASE UNCHANGED <<recent, frameIdx, nextInf>>
           /\ LET early == {"read", "emit", "mirror", "write", "counted", "infer", "inferred"}
              IN  pc' \in early => pc \in early
  BY <1>7 DEF RecentInv
<1>8. \/ StartRun \/ Remember \/ ReadFrame \/ EndFrame \/ Ingest
      \/ UNCHANGED <<recent, frameIdx, nextInf>>
         /\ LET early == {"read", "emit", "mirror", "write", "counted", "infer", "inferred"}
            IN  pc' \in early => pc \in early
  BY DEF Next, LoopStep, EndOfInput, Emit, Mirror, WriteType1, Counted,
         WriteType2, ReportInference, Tally, Mark, Digest, Caption, Finish,
         Interrupt, WriteInterrupted, WriteTorn, Crash, vars
<1>. QED BY <1>3, <1>4, <1>5, <1>6, <1>7, <1>8

\* What a step does to the captions.
LEMMA SceneMoves ==
  ASSUME TypeInv, [Next]_vars
  PROVE  \/ Caption /\ at <= Len(Newest) /\ ToCaption(Newest[at])
         \/ sceneLines' = sceneLines
  BY DEF Next, LoopStep, StartRun, ReadFrame, EndOfInput, Emit, Mirror, WriteType1, Counted, Ingest,
         WriteType2, Remember, ReportInference, Tally, Mark, Digest, Caption, EndFrame, Finish,
         Interrupt, WriteInterrupted, WriteTorn, Crash, WriteDetection, WriteFrameDigest, vlmVars, vars

\* A caption is added to those there are.
LEMMA CaptionAdded ==
  ASSUME TypeInv, Caption, at <= Len(Newest), ToCaption(Newest[at])
  PROVE  /\ DOMAIN sceneLines' = DOMAIN sceneLines \cup {Len(sceneLines) + 1}
         /\ Len(sceneLines) + 1 \notin DOMAIN sceneLines
         /\ \A k \in DOMAIN sceneLines : sceneLines'[k] = sceneLines[k]
         /\ sceneLines'[Len(sceneLines) + 1]
              = [run |-> run, frame |-> frameIdx, inference |-> Newest[at].inference]
         /\ at \in 1 .. Len(Newest)
         /\ Len(recent) - Len(Newest) + at \in DOMAIN recent
         /\ Newest[at] = recent[Len(recent) - Len(Newest) + at]
         /\ Newest[at] \in Type2Message /\ Newest[at].frame = frameIdx
<1> DEFINE Line == [run : 1 .. MaxRuns, frame : Nat, inference : Nat]
<1>1. /\ recent \in Seq(Type2Message) /\ at \in Nat \ {0} /\ frameIdx \in Nat
      /\ sceneLines \in Seq(Line) /\ pc = "caption" /\ run \in 1 .. MaxRuns
  BY DEF TypeInv, TypeOK, LoopTypes, MessageTypes, RichTypes, Caption
<1> DEFINE n == Len(recent)
           l == Len(Newest)
<1>2. /\ n \in Nat /\ DOMAIN recent = 1 .. n /\ l \in 0 .. n
      /\ \A k \in 1 .. l : Newest[k] = recent[n - l + k]
  BY <1>1, NewestPlaces
<1>3. at \in 1 .. l
  BY <1>1, <1>2
<1>4. n - l + at \in DOMAIN recent
  <2>. HIDE DEF n, l
  <2>. QED BY <1>2, <1>3
<1>5. Newest[at] = recent[n - l + at] /\ recent[n - l + at] \in Type2Message
  BY <1>1, <1>2, <1>3, <1>4, ElementOfSeq
<1>6. [run |-> run, frame |-> frameIdx, inference |-> Newest[at].inference] \in Line
  BY <1>1, <1>5 DEF Type2Message
<1>7. sceneLines' = Append(sceneLines, [run |-> run, frame |-> frameIdx,
                                        inference |-> Newest[at].inference])
  BY DEF Caption, WriteSceneCaption
<1>8. /\ Len(sceneLines) \in Nat /\ DOMAIN sceneLines = 1 .. Len(sceneLines)
      /\ DOMAIN sceneLines' = 1 .. Len(sceneLines) + 1
      /\ \A k \in DOMAIN sceneLines : sceneLines'[k] = sceneLines[k]
      /\ sceneLines'[Len(sceneLines) + 1]
           = [run |-> run, frame |-> frameIdx, inference |-> Newest[at].inference]
  <2>. HIDE DEF Line
  <2>. QED BY <1>1, <1>6, <1>7, AppendPlaces
<1>9. /\ DOMAIN sceneLines' = DOMAIN sceneLines \cup {Len(sceneLines) + 1}
      /\ Len(sceneLines) + 1 \notin DOMAIN sceneLines
  BY <1>8
<1>10. Newest[at].frame = frameIdx
  BY DEF ToCaption
<1>. QED BY <1>3, <1>4, <1>5, <1>8, <1>9, <1>10

\* What is captioned stays so.
LEMMA CaptionedStays ==
  ASSUME TypeInv, [Next]_vars, NEW r, NEW n, Captioned(sceneLines, r, n)
  PROVE  Captioned(sceneLines', r, n)
<1>1. CASE Caption /\ at <= Len(Newest) /\ ToCaption(Newest[at])
  BY <1>1, CaptionAdded DEF Captioned
<1>2. CASE sceneLines' = sceneLines
  BY <1>2
<1>. QED BY <1>1, <1>2, SceneMoves

LEMMA SceneStep ==
  TypeInv /\ FiringInv /\ FiringInv' /\ RecentInv /\ SceneInv /\ [Next]_vars => SceneInv'
<1> SUFFICES ASSUME TypeInv, FiringInv, FiringInv', RecentInv, SceneInv, [Next]_vars
             PROVE  SceneInv'
  OBVIOUS
<1>1. /\ nextInf \in Nat \ {0} /\ run \in Nat /\ recent \in Seq(Type2Message)
      /\ firing \subseteq Type2Message
  BY DEF TypeInv, TypeOK, LoopTypes, MessageTypes
<1>2. \A k \in DOMAIN sceneLines : sceneLines[k].run \in Nat /\ sceneLines[k].inference \in Nat
  <2>1. \A k \in DOMAIN sceneLines :
          sceneLines[k] \in [run : 1 .. MaxRuns, frame : Nat, inference : Nat]
    BY ElementOfSeq, LenProperties DEF TypeInv, TypeOK, RichTypes
  <2>. QED BY <2>1
<1>. USE DEF engineVars, frameVars
<1>3. CASE StartRun
  <2>1. /\ sceneLines' = sceneLines /\ run' = run + 1 /\ pc' = "read" /\ recent' = <<>>
    BY <1>3 DEF StartRun, vlmVars
  <2>2. \A k \in DOMAIN sceneLines : sceneLines[k].run <= run' /\ sceneLines[k].run # run'
    BY <1>1, <1>2, <2>1 DEF SceneInv
  <2>. QED BY <2>1, <2>2 DEF SceneInv, Undone
<1>4. CASE Ingest
  <2>1. /\ sceneLines' = sceneLines /\ run' = run /\ recent' = recent /\ frameIdx' = frameIdx
        /\ pc = "ingest"
    BY <1>4 DEF Ingest, vlmVars
  <2>2. CASE pc' = "infer"
    <3>1. nextInf' = nextInf + 1
      BY <1>4, <2>2 DEF Ingest
    <3>2. \A inf \in firing' : inf.inference = nextInf
      BY <1>1, <2>2, <3>1 DEF FiringInv
    <3>3. \A k \in DOMAIN sceneLines :
            sceneLines[k].run = run
              => sceneLines[k].inference # nextInf /\ sceneLines[k].inference < nextInf + 1
      BY <1>1, <1>2 DEF SceneInv
    <3>. QED BY <2>1, <2>2, <3>1, <3>2, <3>3 DEF SceneInv, Captioned, Undone
  <2>3. CASE pc' # "infer"
    <3>1. nextInf' = nextInf /\ pc' \notin {"infer", "inferred"} /\ Undone
      BY <1>4, <2>1, <2>3 DEF Ingest, Undone
    <3>. QED BY <2>1, <3>1 DEF SceneInv
  <2>. QED BY <2>2, <2>3
<1>5. CASE Remember
  <2>1. PICK inf \in firing : recent' = Remembered(inf)
    BY <1>5 DEF Remember
  <2>2. /\ pc = "inferred" /\ pc' = "report" /\ sceneLines' = sceneLines
        /\ UNCHANGED <<run, frameIdx, nextInf>>
    BY <1>5 DEF Remember, vlmVars
  <2>3. ~Captioned(sceneLines, run, inf.inference)
    BY <2>1, <2>2 DEF SceneInv
  <2>4. \A k \in DOMAIN recent : recent[k].frame < frameIdx /\ recent[k].frame \in Nat
    <3>1. \A k \in DOMAIN recent : recent[k] \in Type2Message
      BY <1>1, ElementOfSeq, LenProperties
    <3>. QED BY <2>2, <3>1 DEF RecentInv, Type2Message
  <2>5. ASSUME NEW i \in DOMAIN recent', recent'[i].frame = frameIdx
        PROVE  ~Captioned(sceneLines, run, recent'[i].inference)
    <3>1. /\ recent'[Len(recent')] = inf
          /\ i # Len(recent') => \E k \in DOMAIN recent : recent'[i] = recent[k]
      BY <1>1, <2>1, RememberedPlaces
    <3>2. i = Len(recent')
      BY <2>4, <2>5, <3>1
    <3>. QED BY <2>3, <3>1, <3>2
  <2>. QED BY <2>2, <2>5 DEF SceneInv
<1>6. CASE Caption /\ at <= Len(Newest) /\ ToCaption(Newest[at])
  <2> DEFINE i == Len(recent) - Len(Newest) + at
             line == [run |-> run, frame |-> frameIdx, inference |-> Newest[at].inference]
             k0 == Len(sceneLines) + 1
  <2>1. /\ DOMAIN sceneLines' = DOMAIN sceneLines \cup {k0} /\ k0 \notin DOMAIN sceneLines
        /\ \A k \in DOMAIN sceneLines : sceneLines'[k] = sceneLines[k]
        /\ sceneLines'[k0] = line
        /\ at \in 1 .. Len(Newest) /\ i \in DOMAIN recent /\ Newest[at] = recent[i]
        /\ Newest[at].frame = frameIdx
    BY <1>6, CaptionAdded
  <2>2. /\ pc = "caption" /\ pc' = "caption" /\ at' = at + 1
        /\ UNCHANGED <<run, frameIdx, nextInf, recent>>
    BY <1>6 DEF Caption
  <2>3. ~Captioned(sceneLines, run, Newest[at].inference) /\ Newest[at].inference < nextInf
    BY <1>6, <2>1, <2>2 DEF SceneInv, RecentInv, Undone
  <2>4. i = Len(recent)
    <3>1. \A k \in DOMAIN recent : k # Len(recent) => recent[k].frame < frameIdx
      BY DEF RecentInv
    <3>2. frameIdx \in Nat
      BY DEF TypeInv, TypeOK, LoopTypes
    <3>. HIDE DEF i
    <3>. QED BY <2>1, <3>1, <3>2
  <2>5. at = Len(Newest) /\ Len(Newest) \in Nat
    <3>1. Len(recent) \in Nat /\ Len(Newest) \in Nat
      BY <1>1, NewestPlaces
    <3>. QED BY <2>1, <2>4, <3>1
  <2>6. ~Undone'
    <3>1. Newest' = Newest
      BY <2>2 DEF Newest
    <3>. QED BY <2>2, <2>5, <3>1 DEF Undone
  <2>. HIDE DEF i, k0
  <2>7. \A j, k \in DOMAIN sceneLines' :
          sceneLines'[j].run = sceneLines'[k].run
            /\ sceneLines'[j].inference = sceneLines'[k].inference => j = k
    <3>1. \A k \in DOMAIN sceneLines :
            ~(sceneLines[k].run = run /\ sceneLines[k].inference = Newest[at].inference)
      BY <2>3 DEF Captioned
    <3>. QED BY <2>1, <3>1 DEF SceneInv
  <2>8. \A k \in DOMAIN sceneLines' :
          sceneLines'[k].run <= run
            /\ (sceneLines'[k].run = run => sceneLines'[k].inference < nextInf)
    BY <1>1, <2>1, <2>3 DEF SceneInv
  <2>. QED BY <2>2, <2>6, <2>7, <2>8 DEF SceneInv
<1>7. CASE /\ UNCHANGED <<sceneLines, run, recent, nextInf, firing>>
           /\ pc' \in {"infer", "inferred"} => pc \in {"infer", "inferred"}
           /\ Undone' => Undone /\ frameIdx' = frameIdx
  BY <1>7 DEF SceneInv
<1>8. CASE ReportInference
  <2>1. /\ UNCHANGED <<sceneLines, run, recent, nextInf, frameIdx>>
        /\ pc = "report" /\ pc' = "ingest"
    BY <1>8 DEF ReportInference, vlmVars
  <2>. QED BY <2>1 DEF SceneInv, Undone
<1>9. CASE WriteType1 /\ pc' = "ingest"
  <2>1. UNCHANGED <<sceneLines, run, recent, nextInf, frameIdx>> /\ pc = "write"
    BY <1>9 DEF WriteType1, vlmVars
  <2>2. \A i \in DOMAIN recent : recent[i].frame < frameIdx /\ recent[i].frame \in Nat
    <3>1. \A i \in DOMAIN recent : recent[i] \in Type2Message
      BY <1>1, ElementOfSeq, LenProperties
    <3>. QED BY <2>1, <3>1 DEF RecentInv, Type2Message
  <2>3. \A i \in DOMAIN recent' : recent'[i].frame # frameIdx'
    BY <2>1, <2>2
  <2>. QED BY <1>9, <2>1, <2>3 DEF SceneInv
<1>10. \/ StartRun \/ Ingest \/ Remember \/ ReportInference
       \/ WriteType1 /\ pc' = "ingest"
       \/ Caption /\ at <= Len(Newest) /\ ToCaption(Newest[at])
       \/ /\ UNCHANGED <<sceneLines, run, recent, nextInf, firing>>
          /\ pc' \in {"infer", "inferred"} => pc \in {"infer", "inferred"}
          /\ Undone' => Undone /\ frameIdx' = frameIdx
  <2>. USE DEF Undone, vlmVars
  <2>1. CASE ReadFrame \/ EndOfInput \/ Emit \/ Mirror \/ Counted \/ WriteType2
    BY <2>1 DEF ReadFrame, EndOfInput, Emit, Mirror, Counted, WriteType2
  <2>7. CASE WriteType1 /\ pc' # "ingest"
    BY <2>7 DEF WriteType1
  <2>2. CASE Tally \/ Mark \/ Digest \/ EndFrame \/ Finish
    BY <2>2 DEF Tally, Mark, Digest, WriteDetection, WriteFrameDigest, EndFrame, Finish
  <2>3. CASE Caption /\ at <= Len(Newest) /\ ~ToCaption(Newest[at])
    <3>1. /\ pc = "caption" /\ pc' = "caption" /\ at' = at + 1
          /\ UNCHANGED <<sceneLines, run, recent, nextInf, firing, frameIdx>>
      BY <2>3 DEF Caption
    <3>2. Newest' = Newest
      BY <3>1 DEF Newest
    <3>3. at \in Nat /\ Len(Newest) \in Nat
      BY <1>1, NewestPlaces DEF TypeInv, TypeOK, LoopTypes
    <3>4. at' <= Len(Newest) => at <= Len(Newest)
      BY <3>1, <3>3
    <3>. QED BY <3>1, <3>2, <3>4
  <2>4. CASE Caption /\ ~(at <= Len(Newest))
    BY <2>4 DEF Caption
  <2>5. CASE Interrupt \/ WriteInterrupted \/ WriteTorn \/ Crash
    BY <2>5 DEF Interrupt, WriteInterrupted, WriteTorn, Crash
  <2>6. CASE UNCHANGED vars
    <3>1. Newest' = Newest
      BY <2>6 DEF vars, Newest
    <3>. QED BY <2>6, <3>1 DEF vars
  <2>. HIDE DEF Undone, vlmVars, engineVars, frameVars
  <2>. QED BY <2>1, <2>2, <2>3, <2>4, <2>5, <2>6, <2>7 DEF Next, LoopStep
<1>. QED BY <1>3, <1>4, <1>5, <1>6, <1>7, <1>8, <1>9, <1>10

LEMMA CaptionStep ==
  TypeInv /\ HandInv /\ FiringInv /\ RecentInv /\ LogRunsInv /\ CaptionInv /\ [Next]_vars
    => CaptionInv'
<1> SUFFICES ASSUME TypeInv, HandInv, FiringInv, RecentInv, LogRunsInv, CaptionInv, [Next]_vars
             PROVE  CaptionInv'
  OBVIOUS
<1>1. /\ WireTypes /\ recent \in Seq(Type2Message) /\ firing \subseteq Type2Message
      /\ at \in Nat \ {0} /\ run \in Nat /\ frameIdx \in Nat
  BY DEF TypeInv, TypeOK, LoopTypes, MessageTypes
<1>2. /\ Len(recent) \in Nat /\ DOMAIN recent = 1 .. Len(recent)
      /\ Len(Newest) \in Nat /\ (recent # <<>> => Len(Newest) # 0)
  BY <1>1, NewestPlaces
<1>3. pc' = "digest" => at' = 1
  <2>1. CASE Mark
    BY <2>1 DEF Mark
  <2>2. CASE UNCHANGED <<pc, at>>
    BY <2>2 DEF CaptionInv
  <2>3. Mark \/ UNCHANGED <<pc, at>> \/ pc' # "digest"
    BY DEF Next, LoopStep, StartRun, ReadFrame, EndOfInput, Emit, Mirror, WriteType1, Counted, Ingest,
           WriteType2, Remember, ReportInference, Tally, Digest, Caption, EndFrame, Finish,
           Interrupt, WriteInterrupted, WriteTorn, Crash, vars
  <2>. QED BY <2>1, <2>2, <2>3
\* It is enough to look at what was pending and at what is new.
<1> DEFINE Ours(m) == m.kind = "type2" /\ m.run = run
           Still(m) == Captioned(sceneLines', run, m.inference) \/ Pending(m)'
<1>. HIDE DEF Still
<1>4. ASSUME run' = run, Running,
             logged' = logged \/ \E m \in Message : Log(m) /\ (m.kind = "type2" => Still(m)),
             \A m : Ours(m) /\ Pending(m) => Still(m)
      PROVE  CaptionInv'
  <2>1. ASSUME NEW m, NEW j \in DOMAIN logged, logged[j] = m, Ours(m) PROVE Still(m)
    <3>1. CASE Captioned(sceneLines, run, m.inference)
      BY <3>1, CaptionedStays DEF Still
    <3>2. CASE Pending(m)
      BY <1>4, <2>1, <3>2
    <3>. QED BY <1>4, <2>1, <3>1, <3>2 DEF CaptionInv
  <2>2. ASSUME NEW m, NEW j \in DOMAIN logged', logged'[j] = m, Ours(m) PROVE Still(m)
    <3>1. CASE logged' = logged
      BY <2>1, <2>2, <3>1
    <3>2. CASE \E x \in Message : Log(x) /\ (x.kind = "type2" => Still(x))
      <4>1. PICK x \in Message : Log(x) /\ (x.kind = "type2" => Still(x))
        BY <3>2
      <4>2. (j \in DOMAIN logged /\ logged[j] = m) \/ m = x
        BY <1>1, <2>2, <4>1, LoggedMore
      <4>. QED BY <2>1, <2>2, <4>1, <4>2
    <3>. QED BY <1>4, <3>1, <3>2
  <2>3. \A j \in DOMAIN logged' :
          logged'[j].kind = "type2" /\ logged'[j].run = run
            => Captioned(sceneLines', run, logged'[j].inference) \/ Pending(logged[j])'
    BY <2>2 DEF Still
  <2>. QED BY <1>3, <1>4, <2>3 DEF CaptionInv
\* A run that starts has nothing in the log.
<1>5. CASE StartRun
  <2>1. logged' = logged /\ run' = run + 1
    BY <1>5 DEF StartRun, wireVars
  <2>2. \A j \in DOMAIN logged : logged[j].run # run'
    BY <1>1, <2>1 DEF LogRunsInv
  <2>. QED BY <1>3, <2>1, <2>2 DEF CaptionInv
<1>6. CASE ~Running'
  BY <1>3, <1>6 DEF CaptionInv
<1>7. CASE WriteType2 /\ \E m \in firing : m \in Message /\ Log(m)
  <2>1. PICK m \in firing : m \in Message /\ Log(m)
    BY <1>7
  <2>2. pc = "infer" /\ pc' = "inferred" /\ run' = run /\ firing' = firing /\ frameIdx' = frameIdx
    BY <1>7 DEF WriteType2, frameVars, engineVars
  <2>3. firing = {m} /\ m.frame = frameIdx
    BY <2>1, <2>2 DEF FiringInv
  <2>4. Still(m)
    BY <2>2, <2>3 DEF Still, Pending
  <2>5. \A x : ~Pending(x)
    BY <2>2 DEF Pending, Undone
  <2>. QED BY <1>4, <2>1, <2>2, <2>4, <2>5 DEF Running
<1>8. CASE WriteType1 /\ at <= Len(batch) /\ batch[at] \in Message /\ Log(batch[at])
  <2>1. pc = "write" /\ run' = run
    BY <1>8 DEF WriteType1
  <2>2. \A x : ~Pending(x)
    BY <2>1 DEF Pending, Undone
  <2>3. batch[at].kind = "type1"
    <3>1. batch[at] \in Type1Message
      BY <1>8, MemberAt DEF TypeInv, TypeOK, LoopTypes, MessageTypes
    <3>. QED BY <3>1 DEF Type1Message
  <2>. QED BY <1>4, <1>8, <2>1, <2>2, <2>3 DEF Running
<1>9. CASE Remember
  <2>1. PICK inf \in firing : recent' = Remembered(inf)
    BY <1>9 DEF Remember
  <2>2. /\ pc = "inferred" /\ pc' = "report" /\ run' = run /\ frameIdx' = frameIdx
        /\ logged' = logged
    BY <1>9 DEF Remember, wireVars, frameVars
  <2>3. firing = {inf}
    BY <2>1, <2>2 DEF FiringInv
  <2>4. recent' # <<>> /\ recent'[Len(recent')] = inf
    BY <1>1, <2>1, RememberedPlaces, EmptySeq
  <2>5. ASSUME NEW m, Pending(m) PROVE Still(m)
    <3>1. m = inf /\ m.frame = frameIdx
      BY <2>2, <2>3, <2>5 DEF Pending, Undone
    <3>. QED BY <2>2, <2>4, <3>1 DEF Still, Pending, Undone
  <2>. QED BY <1>4, <2>2, <2>5 DEF Running
<1>10. CASE Ingest
  <2>1. /\ pc = "ingest" /\ run' = run /\ frameIdx' = frameIdx /\ recent' = recent
        /\ logged' = logged /\ pc' \in {"ingest", "infer", "tally"}
    BY <1>10 DEF Ingest, wireVars, frameVars
  <2>2. ASSUME NEW m, Pending(m) PROVE Still(m)
    <3>1. m.frame = frameIdx /\ recent # <<>> /\ recent[Len(recent)] = m
      BY <2>1, <2>2 DEF Pending
    <3>2. pc' # "infer"
      <4>1. Len(recent) \in DOMAIN recent
        BY <1>2, <3>1
      <4>2. FiredThisFrame
        BY <3>1, <4>1 DEF FiredThisFrame
      <4>. QED BY <1>10, <4>2 DEF Ingest
    <3>. QED BY <2>1, <3>1, <3>2 DEF Still, Pending, Undone
  <2>. QED BY <1>4, <2>1, <2>2 DEF Running
<1>11. CASE Caption
  <2>1. /\ pc = "caption" /\ run' = run /\ frameIdx' = frameIdx /\ recent' = recent
        /\ logged' = logged
    BY <1>11 DEF Caption, wireVars, frameVars, engineVars
  <2>2. ASSUME NEW m, Pending(m) PROVE Still(m)
    <3>1. /\ m.frame = frameIdx /\ recent # <<>> /\ recent[Len(recent)] = m
          /\ at <= Len(Newest)
      BY <2>1, <2>2 DEF Pending, Undone
    <3>2. CASE at = Len(Newest)
      <4>1. Newest[at] = m
        <5> DEFINE n == Len(recent)
                   l == Len(Newest)
        <5>1. \A k \in 1 .. l : Newest[k] = recent[n - l + k]
          BY <1>1, NewestPlaces
        <5>2. l \in 1 .. l /\ n - l + l = n
          <6>1. l \in Nat \ {0} /\ n \in Nat
            BY <1>2, <3>1
          <6>. HIDE DEF n, l
          <6>. QED BY <6>1
        <5>. QED BY <3>1, <3>2, <5>1, <5>2
      <4>2. ToCaption(Newest[at])
        BY <3>1, <4>1 DEF ToCaption
      <4>3. /\ Len(sceneLines) + 1 \in DOMAIN sceneLines'
            /\ sceneLines'[Len(sceneLines) + 1]
                 = [run |-> run, frame |-> frameIdx, inference |-> m.inference]
        BY <1>11, <3>1, <4>1, <4>2, CaptionAdded
      <4>. QED BY <4>3 DEF Still, Captioned
    <3>3. CASE at # Len(Newest)
      <4>1. pc' = "caption" /\ at' = at + 1
        BY <1>11, <3>1 DEF Caption
      <4>2. Newest' = Newest
        BY <2>1 DEF Newest
      <4>3. at' <= Len(Newest)
        BY <1>1, <1>2, <3>1, <3>3, <4>1
      <4>. QED BY <2>1, <3>1, <4>1, <4>2, <4>3 DEF Still, Pending, Undone
    <3>. QED BY <3>2, <3>3
  <2>. QED BY <1>4, <2>1, <2>2 DEF Running
<1>12. CASE Digest
  <2>1. /\ pc = "digest" /\ pc' = "caption" /\ at' = at /\ run' = run /\ frameIdx' = frameIdx
        /\ recent' = recent /\ logged' = logged
    BY <1>12 DEF Digest, wireVars, engineVars, frameVars
  <2>2. at = 1
    BY <2>1 DEF CaptionInv
  <2>3. Newest' = Newest
    BY <2>1 DEF Newest
  <2>4. ASSUME NEW m, Pending(m) PROVE Still(m)
    <3>1. m.frame = frameIdx /\ recent # <<>> /\ recent[Len(recent)] = m
      BY <2>1, <2>4 DEF Pending
    <3>2. at' <= Len(Newest')
      BY <1>2, <2>1, <2>2, <2>3, <3>1
    <3>. QED BY <2>1, <3>1, <3>2 DEF Still, Pending, Undone
  <2>. QED BY <1>4, <2>1, <2>4 DEF Running
\* At the other steps nothing was pending, or it stays so.
<1>13. CASE /\ Running /\ UNCHANGED <<run, logged>>
            /\ pc \in {"read", "emit", "mirror", "write", "counted", "infer", "end"}
  <2>1. \A m : ~Pending(m)
    BY <1>13 DEF Pending, Undone
  <2>. QED BY <1>4, <1>13, <2>1
<1>14. CASE /\ Running /\ UNCHANGED <<run, logged, recent, frameIdx>>
            /\ pc \in {"report", "tally", "mark"}
            /\ pc' \in {"ingest", "mark", "digest"}
  <2>1. \A m : Pending(m) => Still(m)
    BY <1>14 DEF Pending, Undone, Still
  <2>. QED BY <1>4, <1>14, <2>1
<1>15. CASE UNCHANGED vars
  <2>1. CaptionInv' <=> CaptionInv
    BY <1>15 DEF vars, engineVars, frameVars, vlmVars, wireVars, CaptionInv, Running, Captioned,
                 Pending, Undone, Newest
  <2>. QED BY <2>1
<1>16. \/ StartRun \/ ~Running' \/ Remember \/ Ingest \/ Caption \/ Digest
       \/ WriteType2 /\ \E m \in firing : m \in Message /\ Log(m)
       \/ WriteType1 /\ at <= Len(batch) /\ batch[at] \in Message /\ Log(batch[at])
       \/ /\ Running /\ UNCHANGED <<run, logged>>
          /\ pc \in {"read", "emit", "mirror", "write", "counted", "infer", "end"}
       \/ /\ Running /\ UNCHANGED <<run, logged, recent, frameIdx>>
          /\ pc \in {"report", "tally", "mark"}
          /\ pc' \in {"ingest", "mark", "digest"}
       \/ UNCHANGED vars
  <2>. USE DEF Running, wireVars
  <2>1. CASE ReadFrame \/ EndOfInput \/ Emit \/ Mirror \/ Counted \/ EndFrame
    BY <2>1 DEF ReadFrame, EndOfInput, Emit, Mirror, Counted, EndFrame
  <2>2. CASE (WriteType1 \/ WriteType2) /\ logged' = logged
    BY <2>2 DEF WriteType1, WriteType2
  <2>3. CASE ReportInference \/ Tally \/ Mark
    BY <2>3 DEF ReportInference, Tally, Mark, frameVars, engineVars
  <2>4. CASE Finish \/ Interrupt \/ WriteInterrupted \/ WriteTorn \/ Crash
    BY <2>4 DEF Finish, Interrupt, WriteInterrupted, WriteTorn, Crash
  <2>. HIDE DEF Running, wireVars
  <2>. QED BY <2>1, <2>2, <2>3, <2>4, LogStep DEF Next, LoopStep
<1>. QED BY <1>5, <1>6, <1>7, <1>8, <1>9, <1>10, <1>11, <1>12, <1>13, <1>14, <1>15, <1>16

\* "when a Type 2 fires": however often the engine fires, and however many of
\* its inferences are kept, each has one caption when its frame is done, and
\* none ever has two.
THEOREM CaptionsMatch == Spec => []CaptionedOnce
<1> DEFINE Inv == /\ TypeInv /\ HandInv /\ FiringInv /\ RecentInv /\ LogRunsInv
                  /\ SceneInv /\ CaptionInv
<1>1. Init => Inv
  <2> SUFFICES ASSUME Init PROVE Inv
    OBVIOUS
  <2>1. /\ pc = "down" /\ DOMAIN recent = {} /\ DOMAIN logged = {} /\ DOMAIN sceneLines = {}
    BY EmptySeq DEF Init, VlmInit
  <2>. QED BY <2>1, InitType
       DEF HandInv, Written, FiringInv, RecentInv, LogRunsInv, SceneInv, Undone, CaptionInv, Running
<1>2. Inv /\ [Next]_vars => Inv'
  BY NextType, HandStep, FiringStep, RecentStep, LogRunsStep, SceneStep, CaptionStep
<1>3. Inv => CaptionedOnce
  <2> SUFFICES ASSUME Inv, NEW j \in DOMAIN logged, logged[j].kind = "type2"
               PROVE  /\ Cardinality(CaptionsOf(logged[j])) <= 1
                      /\ pc \in {"read", "end"} /\ logged[j].run = run => CaptionsOf(logged[j]) # {}
    BY DEF CaptionedOnce
  <2> DEFINE C == CaptionsOf(logged[j])
  <2>1. \A x, y \in C : x = y
    BY DEF SceneInv, CaptionsOf
  <2>2. Cardinality(C) <= 1
    <3>. HIDE DEF C
    <3>1. CASE C = {}
      BY <3>1, FS_EmptySet
    <3>2. CASE C # {}
      <4>1. PICK x : C = {x}
        BY <2>1, <3>2
      <4>. QED BY <4>1, FS_Singleton
    <3>. QED BY <3>1, <3>2
  <2>3. ASSUME pc \in {"read", "end"}, logged[j].run = run PROVE C # {}
    <3>1. ~Pending(logged[j]) /\ Running
      BY <2>3 DEF Pending, Undone, Running
    <3>2. Captioned(sceneLines, run, logged[j].inference)
      BY <2>3, <3>1 DEF CaptionInv
    <3>. QED BY <2>3, <3>2 DEF Captioned, CaptionsOf
  <2>. QED BY <2>2, <2>3
<1>. QED BY <1>1, <1>2, <1>3, PTL DEF Spec
=============================================================================
