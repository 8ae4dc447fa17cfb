----------------------- MODULE EnsembleDetectorProofs -----------------------
(***************************************************************************)
(* Proofs about EnsembleDetector: what the models saw is fused without     *)
(* counting a box twice or missing an agreement, and suppression keeps the *)
(* boxes of a class apart without losing a sighting.                       *)
(***************************************************************************)
EXTENDS EnsembleDetector, SetInduction, SequenceTheorems, TLAPS

-----------------------------------------------------------------------------
(* Types *)

\* What appending adds to a sequence, by its places.
LEMMA AppendPlaces ==
  ASSUME NEW S, NEW s \in Seq(S), NEW x \in S
  PROVE  /\ Append(s, x) \in Seq(S)
         /\ Len(s) \in Nat
         /\ DOMAIN s = 1 .. Len(s)
         /\ DOMAIN Append(s, x) = 1 .. Len(s) + 1
         /\ \A i \in DOMAIN s : Append(s, x)[i] = s[i]
         /\ Append(s, x)[Len(s) + 1] = x
  BY AppendProperties, LenProperties

\* The first model's output becomes a list of detections, one for each box.
LEMMA MuaythaiIsList ==
  ASSUME NEW out \in MuaythaiOutput
  PROVE  Muaythai(out) \in Seq(Detection)
<1> DEFINE n == Len(out)
<1>1. n \in Nat /\ DOMAIN out = 1 .. n /\ \A i \in DOMAIN out : out[i].box \in Box /\ out[i].conf \in Int
  BY EnsembleAssumption
<1>2. ASSUME NEW i \in 1 .. n
      PROVE  Muaythai(out)[i] \in Detection
  <2>1. NormalizeMuaythai(out[i].raw) \in Label
    BY <1>1, <1>2 DEF Label, Raw
  <2>2. {<<"muaythai", i>>} \in SUBSET ({"muaythai", "gdino"} \X Nat)
    BY <1>1
  <2>. QED BY <1>1, <2>1, <2>2 DEF Muaythai, Detection
<1>. HIDE DEF n
<1>3. Muaythai(out) \in [1 .. n -> Detection]
  <2>1. Muaythai(out) = [i \in 1 .. n |-> Muaythai(out)[i]]
    BY <1>1 DEF Muaythai
  <2>. QED BY <2>1, <1>2
<1>. QED BY <1>1, <1>3, SeqDef

\* And so does the second model's.
LEMMA GdinoIsList ==
  ASSUME NEW out \in GdinoOutput
  PROVE  Gdino(out) \in Seq(Detection)
<1> DEFINE n == Len(out)
<1>1. n \in Nat /\ DOMAIN out = 1 .. n /\ \A i \in DOMAIN out : out[i].box \in Box /\ out[i].conf \in Int
  BY EnsembleAssumption
<1>2. ASSUME NEW i \in 1 .. n
      PROVE  Gdino(out)[i] \in Detection
  <2>1. NormalizeGdino(out[i].raw) \in Label
    BY <1>1, <1>2 DEF Label, Raw
  <2>2. {<<"gdino", i>>} \in SUBSET ({"muaythai", "gdino"} \X Nat)
    BY <1>1
  <2>. QED BY <1>1, <2>1, <2>2 DEF Gdino, Detection
<1>. HIDE DEF n
<1>3. Gdino(out) \in [1 .. n -> Detection]
  <2>1. Gdino(out) = [i \in 1 .. n |-> Gdino(out)[i]]
    BY <1>1 DEF Gdino
  <2>. QED BY <2>1, <1>2
<1>. QED BY <1>1, <1>3, SeqDef

\* A fused detection is one.
LEMMA FusedIsDetection ==
  ASSUME NEW m \in Detection, NEW g \in Detection
  PROVE  /\ Fused(m, g) \in Detection
         /\ Fused(m, g).from = m.from \cup g.from
         /\ Fused(m, g).conf >= m.conf
         /\ Fused(m, g).conf >= g.conf
<1>1. /\ Larger(m.conf, g.conf) \in Int
      /\ Larger(m.conf, g.conf) >= m.conf /\ Larger(m.conf, g.conf) >= g.conf
  BY DEF Larger, Detection
<1>2. m.from \cup g.from \in SUBSET ({"muaythai", "gdino"} \X Nat)
  BY DEF Detection
<1>. QED BY <1>1, <1>2 DEF Fused, Detection

\* Before fusion begins no box is marked, and none is kept before suppression.
Stages ==
  /\ pc = "gdino" => matched = {} /\ at = 1 /\ fused = <<>>
  /\ pc \in {"gdino", "fuse", "rest"} => kept = <<>>
  /\ pc = "idle" => group = {}

TypeInv == TypeOK /\ Stages

LEMMA InitType == Init => TypeInv
  BY EmptySeq DEF Init, TypeInv, TypeOK, Stages

LEMMA NextType == TypeInv /\ [Next]_vars => TypeInv'
<1> SUFFICES ASSUME TypeInv, [Next]_vars PROVE TypeInv'
  OBVIOUS
<1>. USE DEF TypeInv, Stages
<1>1. CASE Detect
  <2>1. PICK out \in MuaythaiOutput :
          /\ muaythai' = Muaythai(out)
          /\ \/ pc' = "gdino" /\ fused' = <<>> /\ group' = {}
             \/ pc' = "nms" /\ fused' = Muaythai(out) /\ group' = DOMAIN Muaythai(out)
    BY <1>1 DEF Detect
  <2>2. Muaythai(out) \in Seq(Detection)
    BY MuaythaiIsList
  <2>3. <<>> \in Seq(Detection) /\ <<>> \in Seq(DOMAIN fused')
    BY EmptySeq
  <2>4. calls' \in Nat /\ gdino' = <<>> /\ at' = 1 /\ matched' = {} /\ kept' = <<>>
    BY <1>1 DEF Detect, TypeOK
  <2>5. Muaythai(out) \in Seq(Detection) /\ muaythai' \in Seq(Detection) /\ gdino' \in Seq(Detection)
    BY <2>1, <2>2, <2>3, <2>4
  <2>6. CASE pc' = "gdino" /\ fused' = <<>> /\ group' = {}
    BY <2>3, <2>4, <2>5, <2>6 DEF TypeOK
  <2>7. CASE pc' = "nms" /\ fused' = Muaythai(out) /\ group' = DOMAIN Muaythai(out)
    BY <2>3, <2>4, <2>5, <2>7 DEF TypeOK
  <2>. QED BY <2>1, <2>6, <2>7
<1>2. CASE RunGdino
  <2>1. gdino' \in Seq(Detection)
    BY <1>2, GdinoIsList DEF RunGdino
  <2>2. matched = {} /\ matched' = matched
    BY <1>2 DEF RunGdino
  <2>. QED BY <1>2, <2>1, <2>2 DEF RunGdino, TypeOK
<1>3. CASE FuseNext
  <2>1. muaythai[at] \in Detection
    BY <1>3, ElementOfSeq DEF FuseNext, TypeOK
  <2>2. \A i \in Partner(muaythai[at]) :
          /\ i \in DOMAIN gdino
          /\ gdino[i] \in Detection
          /\ Fused(muaythai[at], gdino[i]) \in Detection
    <3>1. \A i \in Partner(muaythai[at]) : i \in DOMAIN gdino
      BY DEF Partner, Best, Unmatched
    <3>2. \A i \in DOMAIN gdino : gdino[i] \in Detection
      BY ElementOfSeq, LenProperties DEF TypeOK
    <3>. QED BY <3>1, <3>2, <2>1, FusedIsDetection
  <2>3. /\ matched' \subseteq DOMAIN gdino
        /\ \E x \in Detection : fused' = Append(fused, x)
    BY <1>3, <2>1, <2>2 DEF FuseNext, TypeOK
  <2>4. fused' \in Seq(Detection) /\ DOMAIN fused \subseteq DOMAIN fused'
    BY <2>3, AppendPlaces DEF TypeOK
  <2>5. kept \in Seq(DOMAIN fused')
    BY <2>4, SeqMonotonic DEF TypeOK
  <2>. QED BY <1>3, <2>3, <2>4, <2>5 DEF FuseNext, TypeOK
<1>4. CASE FuseDone
  BY <1>4 DEF FuseDone, TypeOK
<1>5. CASE RestNext
  <2>1. gdino[at] \in Detection
    BY <1>5, ElementOfSeq DEF RestNext, TypeOK
  <2>2. fused' \in Seq(Detection) /\ DOMAIN fused \subseteq DOMAIN fused'
    BY <1>5, <2>1, AppendPlaces DEF RestNext, TypeOK
  <2>3. kept \in Seq(DOMAIN fused')
    BY <2>2, SeqMonotonic DEF TypeOK
  <2>. QED BY <1>5, <2>2, <2>3 DEF RestNext, TypeOK
<1>6. CASE RestDone
  BY <1>6 DEF RestDone, TypeOK
<1>7. CASE NmsNext
  <2>1. PICK i \in Top(Current) : kept' = Append(kept, i) /\ group' \subseteq group
    BY <1>7 DEF NmsNext
  <2>2. i \in DOMAIN fused
    BY <2>1 DEF Top, OfClass, TypeOK
  <2>3. kept' \in Seq(DOMAIN fused)
    BY <2>1, <2>2, AppendProperties DEF TypeOK
  <2>. QED BY <1>7, <2>1, <2>3 DEF NmsNext, TypeOK
<1>8. CASE Return
  BY <1>8 DEF Return, TypeOK
<1>9. CASE UNCHANGED vars
  BY <1>9 DEF vars, TypeOK
<1>. QED BY <1>1, <1>2, <1>3, <1>4, <1>5, <1>6, <1>7, <1>8, <1>9 DEF Next

\* Every variable keeps its type: detect() hands detections from list to list,
\* and what it keeps are places of the fused list.
THEOREM TypeCorrect == Spec => []TypeOK
<1>1. Init => TypeInv
  BY InitType
<1>2. TypeInv /\ [Next]_vars => TypeInv'
  BY NextType
<1>3. TypeInv => TypeOK
  BY DEF TypeInv
<1>. QED BY <1>1, <1>2, <1>3, PTL DEF Spec

-----------------------------------------------------------------------------
(* Suppression *)

\* The overlap of two boxes does not depend on which is the first.
LEMMA OverlapBothWays ==
  ASSUME NEW b \in Box, NEW c \in Box
  PROVE  Covers(b, c) <=> Covers(c, b)
<1>1. ASSUME NEW i \in Int, NEW j \in Int
      PROVE  /\ Larger(i, j) = Larger(j, i) /\ Larger(i, j) \in Int
             /\ Smaller(i, j) = Smaller(j, i) /\ Smaller(i, j) \in Int
             /\ Extent(i, j) \in Int
  BY DEF Larger, Smaller, Extent
<1>2. /\ b.x1 \in Int /\ b.x2 \in Int /\ b.y1 \in Int /\ b.y2 \in Int
      /\ c.x1 \in Int /\ c.x2 \in Int /\ c.y1 \in Int /\ c.y2 \in Int
  BY DEF Box
<1>3. /\ Larger(b.x1, c.x1) = Larger(c.x1, b.x1) /\ Smaller(b.x2, c.x2) = Smaller(c.x2, b.x2)
      /\ Larger(b.y1, c.y1) = Larger(c.y1, b.y1) /\ Smaller(b.y2, c.y2) = Smaller(c.y2, b.y2)
  BY <1>1, <1>2
<1>4. Inter(b, c) = Inter(c, b)
  BY <1>3 DEF Inter
<1>5. Area(b) \in Int /\ Area(c) \in Int /\ Inter(b, c) \in Int
  <2>1. ASSUME NEW i \in Int, NEW j \in Int PROVE i * j \in Int
    OBVIOUS
  <2>2. Area(b) \in Int /\ Area(c) \in Int
    BY <1>1, <1>2, <2>1 DEF Area
  <2>3. Inter(b, c) \in Int
    BY <1>1, <1>2, <2>1 DEF Inter
  <2>. QED BY <2>2, <2>3
<1>6. Area(b) + Area(c) = Area(c) + Area(b)
  BY <1>5
<1>7. Iou(b, c) = Iou(c, b)
  <2>1. Area(b) + Area(c) - Inter(b, c) = Area(c) + Area(b) - Inter(c, b)
    BY <1>4, <1>5
  <2>. QED BY <1>4, <2>1, Zenon DEF Iou
<1>. QED BY <1>7 DEF Covers

\* Two different places that hold boxes of a class which do not overlap by the
\* threshold.
Apart(j, k) ==
  fused[j].label = fused[k].label => ~Covers(fused[j].box, fused[k].box)

\* What is kept is apart from what else is kept and from what is left.
ApartInv ==
  /\ \A j, k \in Kept : j # k => Apart(j, k)
  /\ \A k \in Kept, j \in group : j # k /\ Apart(k, j)

\* Keeping a place adds it to those kept.
LEMMA KeptGrows ==
  ASSUME NEW i \in DOMAIN fused, kept \in Seq(DOMAIN fused), kept' = Append(kept, i)
  PROVE  Kept' = Kept \cup {i}
  BY AppendPlaces DEF Kept

LEMMA NothingKept ==
  ASSUME kept = <<>>
  PROVE  Kept = {}
  BY EmptySeq DEF Kept

LEMMA NothingKeptNext ==
  ASSUME kept' = <<>>
  PROVE  Kept' = {}
  BY EmptySeq DEF Kept

LEMMA ApartStep == TypeInv /\ ApartInv /\ [Next]_vars => ApartInv'
<1> SUFFICES ASSUME TypeInv, ApartInv, [Next]_vars PROVE ApartInv'
  OBVIOUS
<1>1. CASE Detect
  BY <1>1, NothingKeptNext DEF Detect, ApartInv
<1>2. CASE RunGdino \/ FuseNext \/ FuseDone \/ RestNext \/ RestDone
  <2>1. kept' = <<>>
    BY <1>2 DEF TypeInv, Stages, RunGdino, FuseNext, FuseDone, RestNext, RestDone
  <2>. QED BY <2>1, NothingKeptNext DEF ApartInv
<1>3. CASE NmsNext
  <2>1. PICK i \in Top(Current) :
          kept' = Append(kept, i) /\ group' = (group \ {i}) \ Suppressed(i)
    BY <1>3 DEF NmsNext
  <2>2. i \in group /\ group \subseteq DOMAIN fused /\ fused' = fused
    BY <1>3, <2>1 DEF NmsNext, Top, OfClass, TypeInv, TypeOK
  <2>3. Kept' = Kept \cup {i}
    BY <2>1, <2>2, KeptGrows DEF TypeInv, TypeOK
  <2>4. \A k \in Kept : k # i /\ Apart(k, i) /\ k \in DOMAIN fused
    <3>1. \A k \in Kept : k \in DOMAIN fused
      BY ElementOfSeq, LenProperties DEF Kept, TypeInv, TypeOK
    <3>. QED BY <2>2, <3>1 DEF ApartInv
  <2>5. \A j \in DOMAIN fused : fused[j].box \in Box
    <3>1. \A j \in DOMAIN fused : fused[j] \in Detection
      BY ElementOfSeq, LenProperties DEF TypeInv, TypeOK
    <3>2. \A d \in Detection : d.box \in Box
      BY DEF Detection
    <3>. QED BY <3>1, <3>2
  <2>6. \A k \in Kept : Apart(i, k)
    BY <2>2, <2>4, <2>5, OverlapBothWays DEF Apart
  <2>7. \A j \in group' : j # i /\ Apart(i, j) /\ j \in group
    BY <2>1 DEF Suppressed, OfClass, Apart
  <2>8. \A j, k : Apart(j, k)' <=> Apart(j, k)
    BY <2>2 DEF Apart
  <2>9. \A j, k \in Kept' : j # k => Apart(j, k)
    BY <2>3, <2>4, <2>6 DEF ApartInv
  <2>10. \A k \in Kept', j \in group' : j # k /\ Apart(k, j)
    <3>1. \A k \in Kept, j \in group : j # k /\ Apart(k, j)
      BY DEF ApartInv
    <3>. QED BY <2>3, <2>7, <3>1
  <2>. QED BY <2>8, <2>9, <2>10 DEF ApartInv
<1>4. CASE Return \/ UNCHANGED vars
  BY <1>4 DEF Return, vars, ApartInv, Apart, Kept
<1>. QED BY <1>1, <1>2, <1>3, <1>4 DEF Next

\* One vehicle, one box: whatever the models saw and in whatever order, detect
\* returns no two detections of a class that overlap by the threshold or more.
THEOREM ReturnedApart == Spec => []KeptApart
<1>1. Init => TypeInv /\ ApartInv
  BY InitType, NothingKept DEF Init, ApartInv
<1>2. TypeInv /\ ApartInv /\ [Next]_vars => (TypeInv /\ ApartInv)'
  BY NextType, ApartStep
<1>3. TypeInv /\ ApartInv => KeptApart
  BY DEF ApartInv, KeptApart, Apart, Covers
<1>. QED BY <1>1, <1>2, <1>3, PTL DEF Spec

-----------------------------------------------------------------------------
(* Fusion *)

\* A list of detections has one that stands for d, and is as confident.
Behind(list, d) ==
  \E f \in DOMAIN list : d.from \subseteq list[f].from /\ list[f].conf >= d.conf

\* No box is behind two detections of a list.
Disjoint(list) ==
  \A e, f \in DOMAIN list : list[e].from \cap list[f].from # {} => e = f

\* The boxes of each model that fusion has dealt with.
DoneFirst(i) == pc \in {"rest", "nms", "idle"} \/ (pc = "fuse" /\ i < at)
DoneSecond(i) == pc \in {"nms", "idle"} \/ i \in matched \/ (pc = "rest" /\ i < at)

OriginInv ==
  /\ \A i \in DOMAIN muaythai : muaythai[i].from = {<<"muaythai", i>>}
  /\ \A i \in DOMAIN gdino : gdino[i].from = {<<"gdino", i>>}

\* The fused list holds the boxes dealt with, each of them in one place.
CountInv ==
  /\ Disjoint(fused)
  /\ \A e \in DOMAIN fused : \A o \in fused[e].from :
       \/ \E i \in DOMAIN muaythai : o = <<"muaythai", i>> /\ DoneFirst(i)
       \/ \E i \in DOMAIN gdino : o = <<"gdino", i>> /\ DoneSecond(i)
  /\ \A i \in DOMAIN muaythai : DoneFirst(i) => Behind(fused, muaythai[i])
  /\ \A i \in DOMAIN gdino : DoneSecond(i) => Behind(fused, gdino[i])

FuseInv == OriginInv /\ CountInv

\* What appending a detection of new boxes does to a list.
LEMMA OneMore ==
  ASSUME NEW list \in Seq(Detection), NEW x \in Detection, Disjoint(list),
         \A e \in DOMAIN list : list[e].from \cap x.from = {}
  PROVE  /\ Disjoint(Append(list, x))
         /\ \A d : Behind(list, d) => Behind(Append(list, x), d)
         /\ \A d : d.from \subseteq x.from /\ x.conf >= d.conf => Behind(Append(list, x), d)
<1> DEFINE more == Append(list, x)
<1>1. /\ Len(list) \in Nat
      /\ DOMAIN list = 1 .. Len(list)
      /\ DOMAIN more = 1 .. Len(list) + 1
      /\ \A i \in DOMAIN list : more[i] = list[i]
      /\ more[Len(list) + 1] = x
  BY AppendPlaces
<1>2. \A i \in DOMAIN more : i \in DOMAIN list \/ i = Len(list) + 1
  BY <1>1
<1>3. DOMAIN list \subseteq DOMAIN more /\ Len(list) + 1 \in DOMAIN more
  BY <1>1
<1>. HIDE DEF more
<1>4. Disjoint(more)
  BY <1>1, <1>2 DEF Disjoint
<1>5. \A d : Behind(list, d) => Behind(more, d)
  BY <1>1, <1>3 DEF Behind
<1>6. \A d : d.from \subseteq x.from /\ x.conf >= d.conf => Behind(more, d)
  BY <1>1, <1>3 DEF Behind
<1>. QED BY <1>4, <1>5, <1>6 DEF more

\* Each box of a model's output is behind one detection.
LEMMA ListOrigins ==
  /\ \A out \in MuaythaiOutput : \A i \in DOMAIN Muaythai(out) :
       Muaythai(out)[i].from = {<<"muaythai", i>>}
  /\ \A out \in GdinoOutput : \A i \in DOMAIN Gdino(out) :
       Gdino(out)[i].from = {<<"gdino", i>>}
  BY DEF Muaythai, Gdino

\* A list is as good as itself.
LEMMA BehindItself ==
  ASSUME NEW list \in Seq(Detection), NEW i \in DOMAIN list
  PROVE  Behind(list, list[i])
<1>1. list[i] \in Detection
  BY ElementOfSeq, LenProperties
<1>2. list[i].conf \in Int
  BY <1>1 DEF Detection
<1>. QED BY <1>2 DEF Behind

LEMMA FuseInit == Init => FuseInv
<1> SUFFICES ASSUME Init PROVE FuseInv
  OBVIOUS
<1>1. DOMAIN muaythai = {} /\ DOMAIN gdino = {} /\ DOMAIN fused = {}
  BY EmptySeq DEF Init
<1>. QED BY <1>1 DEF FuseInv, OriginInv, CountInv, Disjoint

LEMMA FuseDetect == TypeInv' /\ Detect => FuseInv'
<1> SUFFICES ASSUME TypeInv', Detect PROVE FuseInv'
  OBVIOUS
<1>1. PICK out \in MuaythaiOutput :
        /\ muaythai' = Muaythai(out)
        /\ \/ pc' = "gdino" /\ fused' = <<>>
           \/ pc' = "nms" /\ fused' = Muaythai(out)
  BY DEF Detect
<1>2. DOMAIN gdino' = {} /\ matched' = {}
  BY EmptySeq DEF Detect
<1>3. OriginInv'
  BY <1>1, <1>2, ListOrigins DEF OriginInv
<1>4. CASE pc' = "gdino" /\ fused' = <<>>
  <2>1. DOMAIN fused' = {}
    BY <1>4, EmptySeq
  <2>. QED BY <1>2, <1>3, <1>4, <2>1 DEF FuseInv, CountInv, Disjoint, DoneFirst, DoneSecond
<1>5. CASE pc' = "nms" /\ fused' = Muaythai(out)
  <2>1. fused' = muaythai'
    BY <1>1, <1>5
  <2>2. Disjoint(fused')
    BY <1>3, <2>1 DEF Disjoint, OriginInv
  <2>3. \A i \in DOMAIN muaythai' : Behind(fused', muaythai'[i])
    BY <2>1, BehindItself DEF TypeInv, TypeOK
  <2>4. \A e \in DOMAIN fused' : \A o \in fused'[e].from :
          \E i \in DOMAIN muaythai' : o = <<"muaythai", i>>
    BY <1>3, <2>1 DEF OriginInv
  <2>. QED BY <1>2, <1>3, <1>5, <2>2, <2>3, <2>4 DEF FuseInv, CountInv, DoneFirst, DoneSecond
<1>. QED BY <1>1, <1>4, <1>5

LEMMA FuseRunGdino == TypeInv /\ FuseInv /\ RunGdino => FuseInv'
<1> SUFFICES ASSUME TypeInv, FuseInv, RunGdino PROVE FuseInv'
  OBVIOUS
<1>1. /\ fused = <<>> /\ fused' = <<>> /\ matched' = {} /\ at' = 1 /\ pc' = "fuse"
      /\ muaythai' = muaythai
  BY DEF TypeInv, Stages, RunGdino
<1>2. OriginInv'
  <2>1. PICK out \in GdinoOutput : gdino' = Gdino(out)
    BY DEF RunGdino
  <2>. QED BY <1>1, <2>1, ListOrigins DEF FuseInv, OriginInv
<1>3. DOMAIN fused' = {}
  BY <1>1, EmptySeq
<1>4. \A i \in DOMAIN muaythai : i \in Nat /\ i >= 1
  BY LenProperties DEF TypeInv, TypeOK
<1>5. /\ \A i \in DOMAIN muaythai' : ~DoneFirst(i)'
      /\ \A i : ~DoneSecond(i)'
  BY <1>1, <1>4 DEF DoneFirst, DoneSecond
<1>6. Disjoint(fused')
  BY <1>3 DEF Disjoint
<1>. QED BY <1>2, <1>3, <1>5, <1>6 DEF FuseInv, CountInv

LEMMA FuseFuseNext == TypeInv /\ FuseInv /\ FuseNext => FuseInv'
<1> SUFFICES ASSUME TypeInv, FuseInv, FuseNext PROVE FuseInv'
  OBVIOUS
<1>1. /\ pc = "fuse" /\ pc' = "fuse" /\ at' = at + 1 /\ at \in Nat \ {0}
      /\ muaythai' = muaythai /\ gdino' = gdino
      /\ at \in DOMAIN muaythai /\ muaythai[at] \in Detection
      /\ fused \in Seq(Detection) /\ gdino \in Seq(Detection)
  BY ElementOfSeq, LenProperties DEF TypeInv, TypeOK, FuseNext
<1>2. \A i \in DOMAIN gdino : gdino[i] \in Detection
  BY <1>1, ElementOfSeq, LenProperties
<1>3. \E x \in Detection, new \in SUBSET (DOMAIN gdino \ matched) :
        /\ fused' = Append(fused, x)
        /\ matched' = matched \cup new
        /\ x.from = {<<"muaythai", at>>} \cup {<<"gdino", i>> : i \in new}
        /\ x.conf >= muaythai[at].conf
        /\ \A i \in new : x.conf >= gdino[i].conf
  <2>1. muaythai[at].from = {<<"muaythai", at>>}
    BY <1>1 DEF FuseInv, OriginInv
  <2>2. CASE \E i \in Partner(muaythai[at]) :
               /\ matched' = matched \cup {i}
               /\ fused' = Append(fused, Fused(muaythai[at], gdino[i]))
    <3>1. PICK i \in Partner(muaythai[at]) :
               /\ matched' = matched \cup {i}
               /\ fused' = Append(fused, Fused(muaythai[at], gdino[i]))
      BY <2>2
    <3>2. i \in DOMAIN gdino \ matched
      BY DEF Partner, Best, Unmatched
    <3>3. gdino[i].from = {<<"gdino", i>>}
      BY <3>2 DEF FuseInv, OriginInv
    <3> DEFINE x == Fused(muaythai[at], gdino[i])
    <3>4. /\ x \in Detection
          /\ x.from = {<<"muaythai", at>>} \cup {<<"gdino", i>>}
          /\ x.conf >= muaythai[at].conf /\ x.conf >= gdino[i].conf
      BY <1>1, <1>2, <2>1, <3>2, <3>3, FusedIsDetection
    <3>. HIDE DEF x
    <3>5. /\ x.from = {<<"muaythai", at>>} \cup {<<"gdino", j>> : j \in {i}}
          /\ \A j \in {i} : x.conf >= gdino[j].conf
          /\ {i} \in SUBSET (DOMAIN gdino \ matched)
      BY <3>2, <3>4
    <3>6. fused' = Append(fused, x)
      BY <3>1 DEF x
    <3>. QED BY <3>1, <3>4, <3>5, <3>6
  <2>3. CASE fused' = Append(fused, muaythai[at]) /\ matched' = matched
    <3>1. muaythai[at].conf >= muaythai[at].conf
      BY <1>1 DEF Detection
    <3>2. {<<"gdino", i>> : i \in {}} = {}
      OBVIOUS
    <3>3. /\ muaythai[at].from = {<<"muaythai", at>>} \cup {<<"gdino", i>> : i \in {}}
          /\ \A i \in {} : muaythai[at].conf >= gdino[i].conf
          /\ {} \in SUBSET (DOMAIN gdino \ matched) /\ matched' = matched \cup {}
      BY <2>1, <2>3, <3>2
    <3>. QED BY <1>1, <2>3, <3>1, <3>3
  <2>. QED BY <2>2, <2>3 DEF FuseNext
<1>4. PICK x \in Detection, new \in SUBSET (DOMAIN gdino \ matched) :
        /\ fused' = Append(fused, x)
        /\ matched' = matched \cup new
        /\ x.from = {<<"muaythai", at>>} \cup {<<"gdino", i>> : i \in new}
        /\ x.conf >= muaythai[at].conf
        /\ \A i \in new : x.conf >= gdino[i].conf
  BY <1>3
<1>5. \A e \in DOMAIN fused : \A o \in fused[e].from :
        \/ \E i \in DOMAIN muaythai : o = <<"muaythai", i>> /\ i < at
        \/ \E i \in matched : o = <<"gdino", i>>
  BY <1>1 DEF FuseInv, CountInv, DoneFirst, DoneSecond
<1>6. \A e \in DOMAIN fused : fused[e].from \cap x.from = {}
  BY <1>1, <1>4, <1>5
<1>7. /\ Disjoint(fused')
      /\ \A d : Behind(fused, d) => Behind(fused', d)
      /\ \A d : d.from \subseteq x.from /\ x.conf >= d.conf => Behind(fused', d)
  BY <1>1, <1>4, <1>6, OneMore DEF FuseInv, CountInv
<1>8. \A e \in DOMAIN fused' : (e \in DOMAIN fused /\ fused'[e] = fused[e]) \/ fused'[e] = x
  BY <1>1, <1>4, AppendPlaces
<1>9. \A i \in DOMAIN muaythai : i \in Nat
  BY LenProperties DEF TypeInv, TypeOK
<1>10. /\ \A i \in DOMAIN muaythai : DoneFirst(i)' <=> i < at \/ i = at
       /\ \A i : DoneSecond(i)' <=> i \in matched \cup new
  BY <1>1, <1>4, <1>9 DEF DoneFirst, DoneSecond
<1>11. \A e \in DOMAIN fused' : \A o \in fused'[e].from :
         \/ \E i \in DOMAIN muaythai : o = <<"muaythai", i>> /\ DoneFirst(i)'
         \/ \E i \in DOMAIN gdino : o = <<"gdino", i>> /\ DoneSecond(i)'
  <2>1. \A o \in x.from : \/ o = <<"muaythai", at>>
                          \/ \E i \in new : o = <<"gdino", i>>
    BY <1>4
  <2>2. matched \subseteq DOMAIN gdino
    BY DEF TypeInv, TypeOK
  <2>. QED BY <1>1, <1>4, <1>5, <1>8, <1>10, <2>1, <2>2
<1>12. \A i \in DOMAIN muaythai : DoneFirst(i)' => Behind(fused', muaythai[i])
  <2>1. Behind(fused', muaythai[at])
    BY <1>1, <1>4, <1>7 DEF FuseInv, OriginInv
  <2>2. \A i \in DOMAIN muaythai : i < at => Behind(fused, muaythai[i])
    BY <1>1 DEF FuseInv, CountInv, DoneFirst
  <2>. QED BY <1>7, <1>10, <2>1, <2>2
<1>13. \A i \in DOMAIN gdino : DoneSecond(i)' => Behind(fused', gdino[i])
  <2>1. \A i \in new : Behind(fused', gdino[i])
    <3>1. \A i \in new : gdino[i].from \subseteq x.from
      BY <1>4 DEF FuseInv, OriginInv
    <3>. QED BY <1>4, <1>7, <3>1
  <2>2. \A i \in matched : Behind(fused, gdino[i])
    BY DEF FuseInv, CountInv, DoneSecond, TypeInv, TypeOK
  <2>. QED BY <1>7, <1>10, <2>1, <2>2
<1>14. OriginInv'
  BY <1>1 DEF FuseInv, OriginInv
<1>. QED BY <1>1, <1>7, <1>11, <1>12, <1>13, <1>14 DEF FuseInv, CountInv

LEMMA FuseRestNext == TypeInv /\ FuseInv /\ RestNext => FuseInv'
<1> SUFFICES ASSUME TypeInv, FuseInv, RestNext PROVE FuseInv'
  OBVIOUS
<1>1. /\ pc = "rest" /\ pc' = "rest" /\ at' = at + 1 /\ at \in Nat \ {0}
      /\ muaythai' = muaythai /\ gdino' = gdino /\ matched' = matched
      /\ at \in DOMAIN gdino /\ gdino[at] \in Detection
      /\ fused \in Seq(Detection)
  BY ElementOfSeq, LenProperties DEF TypeInv, TypeOK, RestNext
<1>2. \A i \in DOMAIN gdino : i \in Nat
  BY LenProperties DEF TypeInv, TypeOK
<1>3. /\ \A i : DoneFirst(i) /\ DoneFirst(i)'
      /\ \A i \in DOMAIN gdino : DoneSecond(i)' <=> DoneSecond(i) \/ i = at
  BY <1>1, <1>2 DEF DoneFirst, DoneSecond
<1>4. OriginInv'
  BY <1>1 DEF FuseInv, OriginInv
<1>5. CASE at \in matched
  <2>1. fused' = fused
    BY <1>5 DEF RestNext, Unmatched
  <2>2. \A i \in DOMAIN gdino : DoneSecond(i)' <=> DoneSecond(i)
    BY <1>3, <1>5 DEF DoneSecond
  <2>. QED BY <1>1, <1>3, <1>4, <2>1, <2>2 DEF FuseInv, CountInv
<1>6. CASE at \notin matched
  <2>1. fused' = Append(fused, gdino[at])
    BY <1>1, <1>6 DEF RestNext, Unmatched
  <2>2. gdino[at].from = {<<"gdino", at>>} /\ ~DoneSecond(at)
    BY <1>1, <1>6 DEF FuseInv, OriginInv, DoneSecond
  <2>3. \A e \in DOMAIN fused : \A o \in fused[e].from :
          \/ \E i \in DOMAIN muaythai : o = <<"muaythai", i>>
          \/ \E i \in DOMAIN gdino : o = <<"gdino", i>> /\ DoneSecond(i)
    BY DEF FuseInv, CountInv
  <2>4. \A e \in DOMAIN fused : fused[e].from \cap gdino[at].from = {}
    BY <2>2, <2>3
  <2>5. /\ Disjoint(fused')
        /\ \A d : Behind(fused, d) => Behind(fused', d)
        /\ \A d : d.from \subseteq gdino[at].from /\ gdino[at].conf >= d.conf => Behind(fused', d)
    BY <1>1, <2>1, <2>4, OneMore DEF FuseInv, CountInv
  <2>6. \A e \in DOMAIN fused' : (e \in DOMAIN fused /\ fused'[e] = fused[e]) \/ fused'[e] = gdino[at]
    BY <1>1, <2>1, AppendPlaces
  <2>7. \A e \in DOMAIN fused' : \A o \in fused'[e].from :
          \/ \E i \in DOMAIN muaythai : o = <<"muaythai", i>> /\ DoneFirst(i)'
          \/ \E i \in DOMAIN gdino : o = <<"gdino", i>> /\ DoneSecond(i)'
    BY <1>1, <1>3, <2>2, <2>3, <2>6
  <2>8. \A i \in DOMAIN muaythai : Behind(fused', muaythai[i])
    BY <1>3, <2>5 DEF FuseInv, CountInv
  <2>9. Behind(fused', gdino[at])
    BY <1>1, <2>5 DEF Detection
  <2>10. \A i \in DOMAIN gdino : DoneSecond(i)' => Behind(fused', gdino[i])
    BY <1>3, <2>5, <2>9 DEF FuseInv, CountInv
  <2>. QED BY <1>1, <1>4, <2>5, <2>7, <2>8, <2>10 DEF FuseInv, CountInv
<1>. QED BY <1>5, <1>6

LEMMA FuseStep == TypeInv /\ FuseInv /\ [Next]_vars => FuseInv'
<1> SUFFICES ASSUME TypeInv, FuseInv, [Next]_vars PROVE FuseInv'
  OBVIOUS
<1>1. CASE Detect
  BY <1>1, NextType, FuseDetect
<1>2. CASE RunGdino
  BY <1>2, FuseRunGdino
<1>3. CASE FuseNext
  BY <1>3, FuseFuseNext
<1>4. CASE FuseDone
  <2>1. /\ \A i \in DOMAIN muaythai : DoneFirst(i) /\ DoneFirst(i)'
        /\ \A i \in DOMAIN gdino : DoneSecond(i)' <=> DoneSecond(i)
    BY <1>4, LenProperties DEF FuseDone, DoneFirst, DoneSecond, TypeInv, TypeOK
  <2>. QED BY <1>4, <2>1 DEF FuseDone, FuseInv, OriginInv, CountInv
<1>5. CASE RestNext
  BY <1>5, FuseRestNext
<1>6. CASE RestDone
  <2>1. /\ \A i \in DOMAIN muaythai : DoneFirst(i) /\ DoneFirst(i)'
        /\ \A i \in DOMAIN gdino : DoneSecond(i) /\ DoneSecond(i)'
    BY <1>6, LenProperties DEF RestDone, DoneFirst, DoneSecond, TypeInv, TypeOK
  <2>. QED BY <1>6, <2>1 DEF RestDone, FuseInv, OriginInv, CountInv
<1>7. CASE NmsNext \/ Return
  <2>1. /\ \A i : DoneFirst(i) /\ DoneFirst(i)'
        /\ \A i : DoneSecond(i) /\ DoneSecond(i)'
    BY <1>7 DEF NmsNext, Return, DoneFirst, DoneSecond
  <2>. QED BY <1>7, <2>1 DEF NmsNext, Return, FuseInv, OriginInv, CountInv
<1>8. CASE UNCHANGED vars
  BY <1>8 DEF vars, FuseInv, OriginInv, CountInv, DoneFirst, DoneSecond
<1>. QED BY <1>1, <1>2, <1>3, <1>4, <1>5, <1>6, <1>7, <1>8 DEF Next

\* Each box the models saw is behind one place of the fused list.
LEMMA FusedOnce == TypeInv /\ FuseInv => EachBoxOnce
<1> SUFFICES ASSUME TypeInv, FuseInv, FuseEnded, NEW o \in Origins
             PROVE  \E f \in DOMAIN fused : \A e \in DOMAIN fused : o \in fused[e].from <=> e = f
  BY DEF EachBoxOnce
<1>1. \E f \in DOMAIN fused : o \in fused[f].from
  <2>1. CASE \E i \in DOMAIN muaythai : o = <<"muaythai", i>>
    <3>1. PICK i \in DOMAIN muaythai : o = <<"muaythai", i>>
      BY <2>1
    <3>2. muaythai[i].from = {o} /\ Behind(fused, muaythai[i])
      BY <3>1 DEF FuseInv, OriginInv, CountInv, DoneFirst, FuseEnded
    <3>. QED BY <3>2 DEF Behind
  <2>2. CASE \E i \in DOMAIN gdino : o = <<"gdino", i>>
    <3>1. PICK i \in DOMAIN gdino : o = <<"gdino", i>>
      BY <2>2
    <3>2. gdino[i].from = {o} /\ Behind(fused, gdino[i])
      BY <3>1 DEF FuseInv, OriginInv, CountInv, DoneSecond, FuseEnded
    <3>. QED BY <3>2 DEF Behind
  <2>. QED BY <2>1, <2>2 DEF Origins
<1>2. \A e, f \in DOMAIN fused : o \in fused[e].from /\ o \in fused[f].from => e = f
  BY DEF FuseInv, CountInv, Disjoint
<1>. QED BY <1>1, <1>2

\* What the models saw is counted once: fuse_overlapping puts each box into one
\* detection of the fused list, whatever the boxes and whatever their order.
THEOREM CountedOnce == Spec => []EachBoxOnce
<1>1. Init => TypeInv /\ FuseInv
  BY InitType, FuseInit
<1>2. TypeInv /\ FuseInv /\ [Next]_vars => (TypeInv /\ FuseInv)'
  BY NextType, FuseStep
<1>. QED BY <1>1, <1>2, FusedOnce, PTL DEF Spec

-----------------------------------------------------------------------------
(* Suppression loses no sighting *)

\* The place k stands for f: of its class, at least as confident, on its box or
\* on one that covers it.
Stands(k, f) ==
  /\ fused[k].label = fused[f].label
  /\ fused[k].conf >= fused[f].conf
  /\ k = f \/ Covers(fused[k].box, fused[f].box)

\* A place that suppression has disposed of has one kept that stands for it.
CoverInv ==
  pc \in {"nms", "idle"} =>
    \A f \in DOMAIN fused \ group : \E k \in Kept : Stands(k, f)

LEMMA CoverStep == TypeInv /\ CoverInv /\ [Next]_vars => CoverInv'
<1> SUFFICES ASSUME TypeInv, CoverInv, [Next]_vars PROVE CoverInv'
  OBVIOUS
<1>1. CASE Detect
  <2>1. pc' \in {"nms", "idle"} => group' = DOMAIN fused'
    BY <1>1 DEF Detect
  <2>. QED BY <2>1 DEF CoverInv
<1>2. CASE RunGdino \/ FuseNext \/ FuseDone \/ RestNext
  BY <1>2 DEF RunGdino, FuseNext, FuseDone, RestNext, CoverInv
<1>3. CASE RestDone
  BY <1>3 DEF RestDone, CoverInv
<1>4. CASE NmsNext
  <2>1. PICK i \in Top(Current) :
          kept' = Append(kept, i) /\ group' = (group \ {i}) \ Suppressed(i)
    BY <1>4 DEF NmsNext
  <2>2. i \in group /\ group \subseteq DOMAIN fused /\ fused' = fused /\ pc = "nms"
    BY <1>4, <2>1 DEF NmsNext, Top, OfClass, TypeInv, TypeOK
  <2>3. Kept' = Kept \cup {i}
    BY <2>1, <2>2, KeptGrows DEF TypeInv, TypeOK
  <2>4. \A j \in DOMAIN fused : fused[j].conf \in Int
    <3>1. \A j \in DOMAIN fused : fused[j] \in Detection
      BY ElementOfSeq, LenProperties DEF TypeInv, TypeOK
    <3>2. \A d \in Detection : d.conf \in Int
      BY DEF Detection
    <3>. QED BY <3>1, <3>2
  <2>5. Stands(i, i)
    BY <2>2, <2>4 DEF Stands
  <2>6. ASSUME NEW f \in Suppressed(i) PROVE Stands(i, f)
    <3>1. /\ f \in group /\ fused[f].label = fused[i].label
          /\ Covers(fused[i].box, fused[f].box)
      BY DEF Suppressed, OfClass
    <3>2. fused[i].label = Current
      BY <2>1 DEF Top, OfClass
    <3>3. f \in OfClass(Current)
      BY <3>1, <3>2 DEF OfClass
    <3>4. fused[f].conf <= fused[i].conf
      BY <2>1, <3>3 DEF Top
    <3>. QED BY <2>2, <2>4, <3>1, <3>4 DEF Stands
  <2>7. \A f \in DOMAIN fused \ group' : \E k \in Kept' : Stands(k, f)
    <3>1. \A f \in DOMAIN fused \ group' : f \in DOMAIN fused \ group \/ f = i \/ f \in Suppressed(i)
      BY <2>1
    <3>2. \A f \in DOMAIN fused \ group : \E k \in Kept : Stands(k, f)
      BY <2>2 DEF CoverInv
    <3>. QED BY <2>3, <2>5, <2>6, <3>1, <3>2
  <2>8. \A k, f : Stands(k, f)' <=> Stands(k, f)
    BY <2>2 DEF Stands
  <2>. QED BY <2>2, <2>7, <2>8 DEF CoverInv
<1>5. CASE Return \/ UNCHANGED vars
  BY <1>5 DEF Return, vars, CoverInv, Stands, Kept
<1>. QED BY <1>1, <1>2, <1>3, <1>4, <1>5 DEF Next

\* When detect returns, every place is disposed of, and what the models saw is
\* behind one.
LEMMA CoveredIsKept == TypeInv /\ FuseInv /\ CoverInv => SightingsKept
<1> SUFFICES ASSUME TypeInv, FuseInv, CoverInv, pc = "idle",
                    NEW d \in {muaythai[i] : i \in DOMAIN muaythai} \cup {gdino[i] : i \in DOMAIN gdino}
             PROVE  \E f \in DOMAIN fused :
                      /\ d.from \subseteq fused[f].from
                      /\ \E k \in Kept :
                           /\ fused[k].label = fused[f].label
                           /\ fused[k].conf >= d.conf
                           /\ k = f \/ Covers(fused[k].box, fused[f].box)
  BY DEF SightingsKept, Returned
<1>1. Behind(fused, d)
  BY DEF FuseInv, CountInv, DoneFirst, DoneSecond
<1>2. PICK f \in DOMAIN fused : d.from \subseteq fused[f].from /\ fused[f].conf >= d.conf
  BY <1>1 DEF Behind
<1>3. group = {}
  BY DEF TypeInv, Stages
<1>4. PICK k \in Kept : Stands(k, f)
  BY <1>2, <1>3 DEF CoverInv
<1>5. k \in DOMAIN fused
  BY ElementOfSeq, LenProperties DEF Kept, TypeInv, TypeOK
<1>6. d.conf \in Int /\ fused[f].conf \in Int /\ fused[k].conf \in Int
  <2>1. /\ \A i \in DOMAIN muaythai : muaythai[i] \in Detection
        /\ \A i \in DOMAIN gdino : gdino[i] \in Detection
        /\ \A i \in DOMAIN fused : fused[i] \in Detection
    BY ElementOfSeq, LenProperties DEF TypeInv, TypeOK
  <2>2. d \in Detection /\ fused[f] \in Detection /\ fused[k] \in Detection
    BY <1>5, <2>1
  <2>. QED BY <2>2 DEF Detection
<1>7. fused[k].conf >= d.conf
  BY <1>2, <1>4, <1>6 DEF Stands
<1>. QED BY <1>2, <1>4, <1>7 DEF Stands

\* No sighting is lost: fusion and suppression leave, for every box that either
\* model saw, a detection that stands for it.
THEOREM NoSightingLost == Spec => []SightingsKept
<1>1. Init => TypeInv /\ FuseInv /\ CoverInv
  <2>1. Init => CoverInv
    BY EmptySeq DEF Init, CoverInv
  <2>. QED BY <2>1, InitType, FuseInit
<1>2. TypeInv /\ FuseInv /\ CoverInv /\ [Next]_vars => (TypeInv /\ FuseInv /\ CoverInv)'
  BY NextType, FuseStep, CoverStep
<1>. QED BY <1>1, <1>2, CoveredIsKept, PTL DEF Spec

-----------------------------------------------------------------------------
(* Agreement.  A box without a partner is paired with no box that is left:  *)
(* the best overlap is below the threshold, so all are.                     *)

\* A fraction that compares as one.
Ratio(p) == p[1] \in Nat /\ p[2] \in Nat \ {0}

LEMMA AboveOrder ==
  ASSUME NEW p, NEW q, NEW r, Ratio(p), Ratio(q), Ratio(r)
  PROVE  /\ Above(p, q) => ~Above(q, p)
         /\ Above(p, q) /\ ~Above(r, q) => Above(p, r)
         /\ Above(p, q) <=> p[1] * q[2] > q[1] * p[2]
<1> DEFINE a == p[1]
           b == p[2]
           c == q[1]
           d == q[2]
           e == r[1]
           f == r[2]
<1>1. a \in Nat /\ c \in Nat /\ e \in Nat /\ b \in Nat \ {0} /\ d \in Nat \ {0} /\ f \in Nat \ {0}
  BY DEF Ratio
<1>2. /\ Above(p, q) <=> a * d > c * b
      /\ Above(q, p) <=> c * b > a * d
      /\ Above(r, q) <=> e * d > c * f
      /\ Above(p, r) <=> a * f > e * b
  BY DEF Above
<1>. HIDE DEF a, b, c, d, e, f
<1>3. a * d \in Nat /\ c * b \in Nat
  BY <1>1
<1>4. ASSUME a * d > c * b, ~(e * d > c * f) PROVE a * f > e * b
  <2>1. (a * d) * f > (c * b) * f
    BY <1>1, <1>3, <1>4
  <2>2. (c * f) * b >= (e * d) * b
    <3>1. c * f \in Nat /\ e * d \in Nat
      BY <1>1
    <3>. QED BY <1>1, <1>4, <3>1
  <2>3. (a * d) * f = (a * f) * d /\ (c * b) * f = (c * f) * b /\ (e * d) * b = (e * b) * d
    BY <1>1
  <2>4. a * f \in Nat /\ e * b \in Nat /\ (c * f) * b \in Nat
    BY <1>1
  <2>5. (a * f) * d > (e * b) * d
    <3>1. (a * f) * d \in Nat /\ (e * b) * d \in Nat
      BY <1>1, <2>4
    <3>. QED BY <2>1, <2>2, <2>3, <2>4, <3>1
  <2> DEFINE x == a * f
             y == e * b
  <2>. HIDE DEF x, y
  <2>6. x \in Nat /\ y \in Nat /\ x * d > y * d
    BY <2>4, <2>5 DEF x, y
  <2>7. x > y
    BY <1>1, <2>6
  <2>. QED BY <2>7 DEF x, y
<1>. QED BY <1>2, <1>3, <1>4 DEF a, b, c, d

\* The overlap of two boxes is such a fraction.
LEMMA IouRatio ==
  ASSUME NEW b \in Box, NEW c \in Box
  PROVE  Ratio(Iou(b, c))
<1>1. ASSUME NEW i \in Int, NEW j \in Int
      PROVE  Larger(i, j) \in Int /\ Smaller(i, j) \in Int /\ Extent(i, j) \in Nat
  BY DEF Larger, Smaller, Extent
<1>2. /\ b.x1 \in Int /\ b.x2 \in Int /\ b.y1 \in Int /\ b.y2 \in Int
      /\ c.x1 \in Int /\ c.x2 \in Int /\ c.y1 \in Int /\ c.y2 \in Int
  BY DEF Box
<1>3. \A i, j \in Nat : i * j \in Nat
  OBVIOUS
<1>4. Area(b) \in Nat /\ Area(c) \in Nat
  BY <1>1, <1>2, <1>3 DEF Area
<1>5. Inter(b, c) \in Nat
  BY <1>1, <1>2, <1>3 DEF Inter
<1> DEFINE union == Area(b) + Area(c) - Inter(b, c)
<1>6. union \in Int
  BY <1>4, <1>5
<1>7. Iou(b, c) = IF union > 0 THEN <<Inter(b, c), union>> ELSE <<0, 1>>
  BY DEF Iou
<1>. HIDE DEF union
<1>8. CASE union > 0
  BY <1>5, <1>6, <1>7, <1>8 DEF Ratio
<1>9. CASE ~(union > 0)
  BY <1>7, <1>9 DEF Ratio
<1>. QED BY <1>8, <1>9

\* The place i in V has the best of the scores, and no place before it has.
FirstBest(score, V, i) ==
  \A j \in V : ~Above(score[j], score[i]) /\ (j < i => Above(score[i], score[j]))

\* There is one in every set of places that is not empty.
LEMMA FirstBestExists ==
  ASSUME NEW n \in Nat, NEW U, U \subseteq 1 .. n, U # {}, NEW score,
         \A i \in U : Ratio(score[i])
  PROVE  \E i \in U : FirstBest(score, U, i)
<1> DEFINE S == {k \in Nat : \A V \in SUBSET U : V \subseteq 1 .. k /\ V # {} =>
                                \E i \in V : FirstBest(score, V, i)}
<1>1. 0 \in S
  <2>1. 1 .. 0 = {}
    OBVIOUS
  <2>2. \A V \in SUBSET U : ~(V \subseteq 1 .. 0 /\ V # {})
    BY <2>1
  <2>. QED BY <2>2
<1>2. ASSUME NEW k \in Nat, k \in S PROVE k + 1 \in S
  <2> SUFFICES ASSUME NEW V \in SUBSET U, V \subseteq 1 .. k + 1, V # {}
               PROVE  \E i \in V : FirstBest(score, V, i)
    OBVIOUS
  <2>1. \A W \in SUBSET U : W \subseteq 1 .. k /\ W # {} => \E i \in W : FirstBest(score, W, i)
    BY <1>2
  <2> DEFINE m == k + 1
             W == V \ {m}
  <2>2. \A j \in V : j \in Nat /\ j <= m
    OBVIOUS
  <2>3. W \subseteq 1 .. k /\ W \in SUBSET U /\ \A j \in V : j \in W \/ j = m
    OBVIOUS
  <2>4. CASE m \notin V
    <3>1. W = V
      BY <2>4
    <3>. QED BY <2>1, <2>3, <3>1
  <2>5. CASE m \in V /\ W = {}
    <3>1. V = {m} /\ Ratio(score[m])
      BY <2>5
    <3>. HIDE DEF m
    <3>2. m \in Nat
      BY DEF m
    <3>. QED BY <3>1, <3>2, AboveOrder DEF FirstBest
  <2>6. CASE m \in V /\ W # {}
    <3>1. PICK i \in W : FirstBest(score, W, i)
      BY <2>1, <2>3, <2>6
    <3>2. i \in V /\ i < m /\ \A j \in W : j < m
      BY <2>3
    <3>3. \A j \in V : Ratio(score[j])
      OBVIOUS
    <3>. HIDE DEF m, W
    <3>4. CASE Above(score[m], score[i])
      <4>1. \A j \in W : Above(score[m], score[j]) /\ ~Above(score[j], score[m])
        BY <2>6, <3>1, <3>2, <3>3, <3>4, AboveOrder DEF FirstBest, W
      <4>2. ~Above(score[m], score[m]) /\ ~(m < m)
        BY <2>2, <2>6, <3>3, AboveOrder
      <4>3. FirstBest(score, V, m)
        BY <2>3, <4>1, <4>2 DEF FirstBest
      <4>. QED BY <2>6, <4>3
    <3>5. CASE ~Above(score[m], score[i])
      <4>1. ~(m < i)
        BY <2>2, <2>6, <3>2
      <4>2. FirstBest(score, V, i)
        BY <2>3, <3>1, <3>5, <4>1 DEF FirstBest
      <4>. QED BY <3>2, <4>2
    <3>. QED BY <3>4, <3>5
  <2>. QED BY <2>4, <2>5, <2>6
<1>. HIDE DEF S
<1>3. n \in S
  BY <1>1, <1>2, Induction
<1>. QED BY <1>3 DEF S

\* The threshold for fusing is a fraction that boxes apart do not reach.
FuseThreshold == FuseIou[1] \in Nat \ {0} /\ FuseIou[2] \in Nat \ {0}

\* What is left overlaps no box of the fused list that only the first model saw.
NoPartnerLeft(list, left, boxes) ==
  \A e \in DOMAIN list : list[e].source = "muaythai" =>
    \A i \in left : Above(FuseIou, Iou(list[e].box, boxes[i].box))

AgreeInv ==
  /\ \A i \in DOMAIN muaythai : muaythai[i].source = "muaythai"
  /\ \A i \in DOMAIN gdino : gdino[i].source = "gdino"
  /\ pc = "fuse" => \A e \in DOMAIN fused : fused[e].source # "gdino"
  /\ pc \in {"fuse", "rest"} =>
       /\ NoPartnerLeft(fused, Unmatched(matched), gdino)
       /\ \A f \in DOMAIN fused : fused[f].source = "gdino" =>
            \E i \in Unmatched(matched) : fused[f] = gdino[i]
  /\ AgreementFound

\* A box that finds no partner overlaps none of those that are left.
LEMMA NoPartner ==
  ASSUME FuseThreshold, TypeOK, NEW m \in Detection, Partner(m) = {}
  PROVE  \A i \in Unmatched(matched) : Above(FuseIou, Iou(m.box, gdino[i].box))
<1> DEFINE U == Unmatched(matched)
           n == Len(gdino)
           score == [i \in U |-> Score(m, i)]
<1>1. n \in Nat /\ DOMAIN gdino = 1 .. n /\ U \subseteq 1 .. n
  BY LenProperties DEF TypeOK, Unmatched
<1>2. ASSUME NEW i \in U PROVE score[i] = Score(m, i) /\ Ratio(score[i])
  <2>1. gdino[i] \in Detection
    BY <1>1, ElementOfSeq DEF TypeOK
  <2>2. m.box \in Box /\ gdino[i].box \in Box
    BY <2>1 DEF Detection
  <2>. QED BY <2>2, IouRatio DEF Score
<1>3. SUFFICES ASSUME U # {}, NEW j \in U PROVE Above(FuseIou, Score(m, j))
  BY DEF Score
<1>4. Ratio(FuseIou) /\ Ratio(<<0, 1>>)
  BY DEF Ratio, FuseThreshold
<1>. HIDE DEF score
<1>5. PICK i \in U : FirstBest(score, U, i)
  <2>. HIDE DEF U, n
  <2>. QED BY <1>1, <1>2, <1>3, FirstBestExists
<1>6. ~Above(score[j], score[i])
  BY <1>5 DEF FirstBest
<1>7. CASE Above(score[i], <<0, 1>>)
  <2>1. i \in Best(m)
    BY <1>2, <1>5, <1>7 DEF Best, FirstBest
  <2>2. Above(FuseIou, score[i])
    BY <1>2, <2>1 DEF Partner
  <2>3. Above(FuseIou, score[j])
    BY <1>2, <1>4, <1>6, <2>2, AboveOrder
  <2>. QED BY <1>2, <2>3
<1>8. CASE ~Above(score[i], <<0, 1>>)
  <2>1. Above(FuseIou, <<0, 1>>)
    BY DEF Above, FuseThreshold
  <2>2. Above(FuseIou, score[i])
    BY <1>2, <1>4, <1>8, <2>1, AboveOrder
  <2>3. Above(FuseIou, score[j])
    BY <1>2, <1>4, <1>6, <2>2, AboveOrder
  <2>. QED BY <1>2, <2>3
<1>. QED BY <1>7, <1>8

LEMMA AgreeInit == Init => AgreeInv
<1> SUFFICES ASSUME Init PROVE AgreeInv
  OBVIOUS
<1>1. DOMAIN muaythai = {} /\ DOMAIN gdino = {} /\ DOMAIN fused = {} /\ pc = "idle"
  BY EmptySeq DEF Init
<1>. QED BY <1>1 DEF AgreeInv, AgreementFound

LEMMA AgreeStep == FuseThreshold /\ TypeInv /\ AgreeInv /\ [Next]_vars => AgreeInv'
<1> SUFFICES ASSUME FuseThreshold, TypeInv, AgreeInv, [Next]_vars PROVE AgreeInv'
  OBVIOUS
<1>1. CASE Detect
  <2>1. PICK out \in MuaythaiOutput :
          /\ muaythai' = Muaythai(out)
          /\ \/ pc' = "gdino" /\ fused' = <<>>
             \/ pc' = "nms" /\ fused' = Muaythai(out)
    BY <1>1 DEF Detect
  <2>2. \A i \in DOMAIN Muaythai(out) : Muaythai(out)[i].source = "muaythai"
    BY DEF Muaythai
  <2>3. DOMAIN gdino' = {} /\ DOMAIN <<>> = {}
    BY <1>1, EmptySeq DEF Detect
  <2>4. AgreementFound'
    BY <2>1, <2>2, <2>3 DEF AgreementFound, FuseEnded
  <2>. QED BY <2>1, <2>2, <2>3, <2>4 DEF AgreeInv
<1>2. CASE RunGdino
  <2>1. PICK out \in GdinoOutput : gdino' = Gdino(out)
    BY <1>2 DEF RunGdino
  <2>2. \A i \in DOMAIN Gdino(out) : Gdino(out)[i].source = "gdino"
    BY DEF Gdino
  <2>3. pc' = "fuse" /\ DOMAIN fused' = {} /\ UNCHANGED muaythai
    BY <1>2, EmptySeq DEF RunGdino, TypeInv, Stages
  <2>. QED BY <2>1, <2>2, <2>3 DEF AgreeInv, NoPartnerLeft, AgreementFound, FuseEnded
<1>3. CASE FuseNext
  <2> DEFINE m == muaythai[at]
             U == Unmatched(matched)
  <2>1. m \in Detection /\ m.source = "muaythai" /\ fused \in Seq(Detection)
    <3>1. at \in DOMAIN muaythai
      BY <1>3, LenProperties DEF FuseNext, TypeInv, TypeOK
    <3>2. m \in Detection
      BY <3>1, ElementOfSeq, LenProperties DEF TypeInv, TypeOK
    <3>. QED BY <3>1, <3>2 DEF AgreeInv, TypeInv, TypeOK
  <2>2. /\ pc = "fuse" /\ pc' = "fuse" /\ UNCHANGED <<muaythai, gdino>>
        /\ \A e \in DOMAIN fused : fused[e].source # "gdino"
        /\ NoPartnerLeft(fused, U, gdino)
    BY <1>3 DEF FuseNext, AgreeInv
  <2>3. PICK x \in Detection : /\ fused' = Append(fused, x) /\ x.source # "gdino"
                               /\ matched \subseteq matched'
                               /\ x.source = "muaythai" =>
                                    \A i \in U : Above(FuseIou, Iou(x.box, gdino[i].box))
    <3>1. CASE \E i \in Partner(m) : /\ matched' = matched \cup {i}
                                     /\ fused' = Append(fused, Fused(m, gdino[i]))
      <4>1. PICK i \in Partner(m) : /\ matched' = matched \cup {i}
                                    /\ fused' = Append(fused, Fused(m, gdino[i]))
        BY <3>1
      <4>2. i \in DOMAIN gdino
        BY DEF Partner, Best, Unmatched
      <4>3. gdino[i] \in Detection
        BY <4>2, ElementOfSeq, LenProperties DEF TypeInv, TypeOK
      <4>4. Fused(m, gdino[i]) \in Detection /\ Fused(m, gdino[i]).source = "fused"
        BY <2>1, <4>3, FusedIsDetection DEF Fused
      <4>. QED BY <4>1, <4>4
    <3>2. CASE Partner(m) = {} /\ fused' = Append(fused, m) /\ matched' = matched
      BY <2>1, <3>2, NoPartner DEF TypeInv
    <3>. QED BY <1>3, <3>1, <3>2 DEF FuseNext
  <2>4. /\ DOMAIN fused' = 1 .. Len(fused) + 1 /\ DOMAIN fused = 1 .. Len(fused)
        /\ Len(fused) \in Nat
        /\ \A e \in DOMAIN fused : fused'[e] = fused[e]
        /\ fused'[Len(fused) + 1] = x
    BY <2>1, <2>3, AppendPlaces
  <2>5. \A e \in DOMAIN fused' : e \in DOMAIN fused \/ e = Len(fused) + 1
    BY <2>4
  <2>6. Unmatched(matched)' \subseteq U
    BY <2>2, <2>3 DEF Unmatched
  <2>7. \A e \in DOMAIN fused' : fused'[e].source # "gdino"
    BY <2>2, <2>3, <2>4, <2>5
  <2>8. NoPartnerLeft(fused', Unmatched(matched)', gdino)
    <3>. HIDE DEF U
    <3>. QED BY <2>2, <2>3, <2>4, <2>5, <2>6 DEF NoPartnerLeft
  <2>. QED BY <2>2, <2>7, <2>8 DEF AgreeInv, AgreementFound, FuseEnded
<1>4. CASE FuseDone
  BY <1>4 DEF FuseDone, AgreeInv, AgreementFound, FuseEnded, Unmatched
<1>5. CASE RestNext
  <2> DEFINE U == Unmatched(matched)
  <2>1. /\ pc = "rest" /\ pc' = "rest" /\ UNCHANGED <<muaythai, gdino, matched>>
        /\ NoPartnerLeft(fused, U, gdino)
        /\ \A f \in DOMAIN fused : fused[f].source = "gdino" => \E i \in U : fused[f] = gdino[i]
    BY <1>5 DEF RestNext, AgreeInv
  <2>2. Unmatched(matched)' = U
    BY <2>1 DEF Unmatched
  <2>3. CASE fused' = fused
    BY <2>1, <2>2, <2>3 DEF AgreeInv, AgreementFound, FuseEnded
  <2>4. CASE at \in U /\ fused' = Append(fused, gdino[at])
    <3>1. at \in DOMAIN gdino
      BY <2>4 DEF Unmatched
    <3>2. gdino[at] \in Detection /\ gdino[at].source = "gdino" /\ fused \in Seq(Detection)
      BY <3>1, ElementOfSeq, LenProperties DEF TypeInv, TypeOK, AgreeInv
    <3>3. /\ DOMAIN fused' = 1 .. Len(fused) + 1 /\ DOMAIN fused = 1 .. Len(fused)
          /\ Len(fused) \in Nat
          /\ \A e \in DOMAIN fused : fused'[e] = fused[e]
          /\ fused'[Len(fused) + 1] = gdino[at]
      BY <2>4, <3>2, AppendPlaces
    <3>4. \A e \in DOMAIN fused' : e \in DOMAIN fused \/ e = Len(fused) + 1
      BY <3>3
    <3>. HIDE DEF U
    <3>5. NoPartnerLeft(fused', U, gdino)
      BY <2>1, <3>2, <3>3, <3>4 DEF NoPartnerLeft
    <3>6. \A f \in DOMAIN fused' : fused'[f].source = "gdino" => \E i \in U : fused'[f] = gdino[i]
      BY <2>1, <2>4, <3>3, <3>4
    <3>. QED BY <2>1, <2>2, <3>5, <3>6 DEF AgreeInv, AgreementFound, FuseEnded
  <2>. QED BY <1>5, <2>3, <2>4 DEF RestNext
<1>6. CASE RestDone
  <2>1. /\ NoPartnerLeft(fused, Unmatched(matched), gdino)
        /\ \A f \in DOMAIN fused : fused[f].source = "gdino" =>
             \E i \in Unmatched(matched) : fused[f] = gdino[i]
    BY <1>6 DEF RestDone, AgreeInv
  <2>2. \A e, f \in DOMAIN fused : fused[e].source = "muaythai" /\ fused[f].source = "gdino"
          => Above(FuseIou, Iou(fused[e].box, fused[f].box))
    BY <2>1 DEF NoPartnerLeft
  <2>3. pc' = "nms" /\ UNCHANGED <<muaythai, gdino, fused>>
    BY <1>6 DEF RestDone
  <2>. QED BY <2>2, <2>3 DEF AgreeInv, AgreementFound
<1>7. CASE NmsNext \/ Return
  <2>1. /\ pc \in {"nms", "idle"} /\ pc' \in {"nms", "idle"}
        /\ UNCHANGED <<muaythai, gdino, fused, matched>>
    BY <1>7 DEF NmsNext, Return
  <2>. QED BY <2>1 DEF AgreeInv, AgreementFound, FuseEnded
<1>8. CASE UNCHANGED vars
  BY <1>8 DEF vars, AgreeInv, AgreementFound, FuseEnded, NoPartnerLeft, Unmatched
<1>. QED BY <1>1, <1>2, <1>3, <1>4, <1>5, <1>6, <1>7, <1>8 DEF Next

\* Whatever the two models see, and in whatever order: a box that only the
\* first saw and one that only the second saw overlap by less than the
\* threshold, though each box is fused with at most one other.
THEOREM AgreementIsFused ==
  ASSUME FuseThreshold
  PROVE  Spec => []AgreementFound
<1>1. AgreeInv => AgreementFound
  BY DEF AgreeInv
<1>. QED BY <1>1, InitType, NextType, AgreeInit, AgreeStep, PTL DEF Spec
=============================================================================
