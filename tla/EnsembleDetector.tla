-------------------------- MODULE EnsembleDetector --------------------------
(***************************************************************************)
(* EnsembleDetector.detect: the boxes of a closed-set model (muaythai) on  *)
(* every call, those of an open-vocabulary model (grounding_dino) on every *)
(* GdinoEveryN-th; boxes on which the two agree are fused, and of boxes of *)
(* one class that overlap the most confident is kept.                      *)
(*                                                                         *)
(*   idle - gdino - fuse - rest - nms - idle                               *)
(*     \______________________ nms - idle     (gdino is skipped)           *)
(*                                                                         *)
(* One turn of each loop is a step.  The outcome depends on the order of   *)
(* the boxes; the properties must hold in any order.                       *)
(***************************************************************************)
EXTENDS Integers, Sequences

CONSTANTS
  MuaythaiOutput,  \* what the first model may see: sequences of [raw, box, conf]
  GdinoOutput,     \* what the second one may see
  GdinoEveryN,     \* gdino_every_n
  FuseIou,         \* fuse_iou, a fraction <<num, den>>
  NmsIou,          \* nms_iou
  MaxCalls         \* bound: calls of detect

Box == [x1 : Int, x2 : Int, y1 : Int, y2 : Int]

ASSUME EnsembleAssumption ==
  /\ \A out \in MuaythaiOutput \cup GdinoOutput :
       /\ Len(out) \in Nat /\ DOMAIN out = 1 .. Len(out)
       /\ \A i \in DOMAIN out : out[i].box \in Box /\ out[i].conf \in Int
  /\ GdinoEveryN \in Nat \ {0}

VARIABLES
  pc,
  calls,     \* _call_count
  muaythai,  \* muaythai_dets
  gdino,     \* gdino_dets
  at,        \* position in the list that is being looped over
  matched,   \* gdino_matched, as a set of positions
  fused,     \* the list fuse_overlapping builds
  group,     \* class_aware_nms: the places in fused that are not disposed of
  kept       \* the places it keeps, in the end the detections returned

vars == <<pc, calls, muaythai, gdino, at, matched, fused, group, kept>>

-----------------------------------------------------------------------------
(* Labels *)

\* LABEL_NORM.
LabelNorm ==
  [raw \in {"tank", "artillery", "apc", "afv", "military-vehicle", "military_vehicle",
             "car", "truck"} |->
     CASE raw = "afv" -> "apc"
       [] raw = "military-vehicle" -> "military_vehicle"
       [] raw = "car" -> "civilian_vehicle"
       [] OTHER -> raw]

\* GDINO_SUBSTRING_RULES, the needles in their order.
GdinoRules ==
  << <<"tank", "tank">>, <<"armored personnel carrier", "apc">>, <<"apc", "apc">>,
     <<"artillery", "artillery">>, <<"military truck", "truck">>,
     <<"military vehicle", "military_vehicle">>, <<"armored vehicle", "military_vehicle">>,
     <<"helicopter", "helicopter">>, <<"drone", "drone">>, <<"soldier", "soldier">>,
     <<"smoke", "smoke">>, <<"fire", "fire">>, <<"explosion", "fire">>,
     <<"car", "civilian_vehicle">> >>

\* A label that is not listed is passed on.
NormalizeMuaythai(raw) ==
  CASE raw \in DOMAIN LabelNorm -> LabelNorm[raw]
    [] raw = "" -> "unknown"
    [] OTHER -> raw

\* A raw label of gdino is a text and the needles that occur in it.
NormalizeGdino(raw) ==
  LET hits == {i \in DOMAIN GdinoRules : GdinoRules[i][1] \in raw.needles}
  IN  CASE raw.text \in DOMAIN LabelNorm -> LabelNorm[raw.text]
        [] raw.text \notin DOMAIN LabelNorm /\ hits = {} -> "military_object"
        [] OTHER -> GdinoRules[CHOOSE i \in hits : \A j \in hits : i <= j][2]

\* A detection carries the places it comes from in the models' outputs, for
\* which the code keeps the raw labels.
Muaythai(out) ==
  [i \in DOMAIN out |-> [box |-> out[i].box, label |-> NormalizeMuaythai(out[i].raw),
                         conf |-> out[i].conf, source |-> "muaythai",
                         from |-> {<<"muaythai", i>>}]]
Gdino(out) ==
  [i \in DOMAIN out |-> [box |-> out[i].box, label |-> NormalizeGdino(out[i].raw),
                         conf |-> out[i].conf, source |-> "gdino",
                         from |-> {<<"gdino", i>>}]]

-----------------------------------------------------------------------------
(* Overlap, in exact fractions *)

Larger(a, b) == IF a < b THEN b ELSE a
Smaller(a, b) == IF a < b THEN a ELSE b
Extent(x1, x2) == Larger(0, x2 - x1)
Area(b) == Extent(b.x1, b.x2) * Extent(b.y1, b.y2)
Inter(b, c) ==
  Extent(Larger(b.x1, c.x1), Smaller(b.x2, c.x2)) * Extent(Larger(b.y1, c.y1), Smaller(b.y2, c.y2))

Iou(b, c) ==
  LET union == Area(b) + Area(c) - Inter(b, c)
  IN  IF union > 0 THEN <<Inter(b, c), union>> ELSE <<0, 1>>

Above(p, q) == p[1] * q[2] > q[1] * p[2]

-----------------------------------------------------------------------------
Init ==
  /\ pc = "idle" /\ calls = 0
  /\ muaythai = <<>> /\ gdino = <<>> /\ at = 1 /\ matched = {}
  /\ fused = <<>> /\ group = {} /\ kept = <<>>

\* detect() runs the first model, and decides whether to run the second.
Detect ==
  /\ pc = "idle"
  /\ calls < MaxCalls
  /\ calls' = calls + 1
  /\ \E out \in MuaythaiOutput :
       LET dets == Muaythai(out)
       IN  /\ muaythai' = dets
           /\ \/ calls' % GdinoEveryN = 0 /\ pc' = "gdino" /\ fused' = <<>> /\ group' = {}
              \/ calls' % GdinoEveryN # 0 /\ pc' = "nms" /\ fused' = dets /\ group' = DOMAIN dets
  /\ gdino' = <<>> /\ at' = 1 /\ matched' = {} /\ kept' = <<>>

\* An output that cannot be post-processed is an empty one.
RunGdino ==
  /\ pc = "gdino"
  /\ \E out \in GdinoOutput : gdino' = Gdino(out)
  /\ pc' = "fuse"
  /\ UNCHANGED <<calls, muaythai, at, matched, fused, group, kept>>

-----------------------------------------------------------------------------
(* fuse_overlapping *)

\* A faulty Unmatched, which offers a box again that is already fused.
Unfiltered(ms) == DOMAIN gdino

Unmatched(ms) == DOMAIN gdino \ ms

Score(m, i) == Iou(m.box, gdino[i].box)

\* A faulty Best, which takes the first box that overlaps at all.
FirstOverlap(m) ==
  {i \in Unmatched(matched) :
     /\ Above(Score(m, i), <<0, 1>>)
     /\ \A j \in Unmatched(matched) : j < i => ~Above(Score(m, j), <<0, 1>>)}

\* The box with the best overlap, the first of them when several are as good.
Best(m) ==
  {i \in Unmatched(matched) :
     /\ Above(Score(m, i), <<0, 1>>)
     /\ \A j \in Unmatched(matched) :
          /\ ~Above(Score(m, j), Score(m, i))
          /\ j < i => Above(Score(m, i), Score(m, j))}

Partner(m) == {i \in Best(m) : ~Above(FuseIou, Score(m, i))}

\* A faulty Fused, which keeps the first model's confidence.
FusedAsSeen(m, g) ==
  [box |-> m.box, label |-> m.label, conf |-> m.conf, source |-> "fused",
   from |-> m.from \cup g.from]

Fused(m, g) ==
  [box |-> m.box, label |-> m.label, conf |-> Larger(m.conf, g.conf), source |-> "fused",
   from |-> m.from \cup g.from]

FuseNext ==
  /\ pc = "fuse"
  /\ at <= Len(muaythai)
  /\ LET m == muaythai[at]
     IN  \/ \E i \in Partner(m) :
              /\ matched' = matched \cup {i}
              /\ fused' = Append(fused, Fused(m, gdino[i]))
         \/ /\ Partner(m) = {}
            /\ fused' = Append(fused, m)
            /\ UNCHANGED matched
  /\ at' = at + 1
  /\ UNCHANGED <<pc, calls, muaythai, gdino, group, kept>>

FuseDone ==
  /\ pc = "fuse"
  /\ at > Len(muaythai)
  /\ pc' = "rest" /\ at' = 1
  /\ UNCHANGED <<calls, muaythai, gdino, matched, fused, group, kept>>

\* gdino-only survivors.
RestNext ==
  /\ pc = "rest"
  /\ at <= Len(gdino)
  /\ fused' = IF at \in Unmatched(matched) THEN Append(fused, gdino[at]) ELSE fused
  /\ at' = at + 1
  /\ UNCHANGED <<pc, calls, muaythai, gdino, matched, group, kept>>

RestDone ==
  /\ pc = "rest"
  /\ at > Len(gdino)
  /\ pc' = "nms" /\ group' = DOMAIN fused
  /\ UNCHANGED <<calls, muaythai, gdino, at, matched, fused, kept>>

-----------------------------------------------------------------------------
(* class_aware_nms *)

OfClass(label) == {i \in group : fused[i].label = label}
First(S) == CHOOSE i \in S : \A j \in S : i <= j

\* The classes are done one by one, in the order in which they first appear.
Current ==
  LET label == fused[kept[Len(kept)]].label
  IN  IF kept # <<>> /\ OfClass(label) # {} THEN label ELSE fused[First(group)].label

\* A faulty Top, which leaves the boxes in the order in which they came.
TopUnsorted(label) == {i \in OfClass(label) : \A j \in OfClass(label) : i <= j}

\* The head of the sorted list: by confidence, and the sort is stable.
Top(label) ==
  {i \in OfClass(label) :
     \A j \in OfClass(label) : /\ fused[j].conf <= fused[i].conf
                               /\ fused[j].conf = fused[i].conf => i <= j}

\* A faulty Covers, which takes the threshold itself for no overlap.
CoversBeyond(b, c) == Above(Iou(b, c), NmsIou)

Covers(b, c) == ~Above(NmsIou, Iou(b, c))

Suppressed(i) == {j \in OfClass(fused[i].label) : Covers(fused[i].box, fused[j].box)}

NmsNext ==
  /\ pc = "nms"
  /\ group # {}
  /\ \E i \in Top(Current) :
       /\ kept' = Append(kept, i)
       /\ group' = (group \ {i}) \ Suppressed(i)
  /\ UNCHANGED <<pc, calls, muaythai, gdino, at, matched, fused>>

Return ==
  /\ pc = "nms"
  /\ group = {}
  /\ pc' = "idle"
  /\ UNCHANGED <<calls, muaythai, gdino, at, matched, fused, group, kept>>

-----------------------------------------------------------------------------
Next ==
  \/ Detect
  \/ RunGdino
  \/ FuseNext
  \/ FuseDone
  \/ RestNext
  \/ RestDone
  \/ NmsNext
  \/ Return

Spec == Init /\ [][Next]_vars

-----------------------------------------------------------------------------
Origins ==
  {<<"muaythai", i>> : i \in DOMAIN muaythai} \cup {<<"gdino", i>> : i \in DOMAIN gdino}
Kept == {kept[k] : k \in DOMAIN kept}
FuseEnded == pc \in {"nms", "idle"}
Returned == pc = "idle"

Raw(outputs) == UNION {{out[i].raw : i \in DOMAIN out} : out \in outputs}
Label ==
  {NormalizeMuaythai(raw) : raw \in Raw(MuaythaiOutput)}
    \cup {NormalizeGdino(raw) : raw \in Raw(GdinoOutput)}
Detection ==
  [box : Box, label : Label, conf : Int, source : {"muaythai", "gdino", "fused"},
   from : SUBSET ({"muaythai", "gdino"} \X Nat)]

\* Each variable has its type.
TypeOK ==
  /\ pc \in {"idle", "gdino", "fuse", "rest", "nms"}
  /\ calls \in Nat
  /\ {muaythai, gdino, fused} \subseteq Seq(Detection)
  /\ at \in Nat \ {0}
  /\ matched \subseteq DOMAIN gdino
  /\ group \subseteq DOMAIN fused
  /\ kept \in Seq(DOMAIN fused)

\* What the models saw is counted once: each of their boxes is behind one
\* detection of the fused list, and no gdino box confirms two others.
EachBoxOnce ==
  FuseEnded =>
    \A o \in Origins :
      \E f \in DOMAIN fused : \A e \in DOMAIN fused : o \in fused[e].from <=> e = f

\* Where the models agree the boxes are fused: no box is left that only the
\* first saw beside an overlapping one that only the second saw.
AgreementFound ==
  FuseEnded =>
    \A e, f \in DOMAIN fused :
      fused[e].source = "muaythai" /\ fused[f].source = "gdino"
        => Above(FuseIou, Iou(fused[e].box, fused[f].box))

\* No sighting is lost: whatever either model saw, detect returns a detection
\* at least as confident, of the class that the sighting was given, on the box
\* it was given or one that covers it.
SightingsKept ==
  Returned =>
    \A d \in {muaythai[i] : i \in DOMAIN muaythai} \cup {gdino[i] : i \in DOMAIN gdino} :
      \E f \in DOMAIN fused :
        /\ d.from \subseteq fused[f].from
        /\ \E k \in Kept :
             /\ fused[k].label = fused[f].label
             /\ fused[k].conf >= d.conf
             /\ k = f \/ Covers(fused[k].box, fused[f].box)

\* One vehicle, one box: no two detections of a class that are returned overlap
\* by the threshold or more.
KeptApart ==
  Returned =>
    \A j, k \in Kept :
      j # k /\ fused[j].label = fused[k].label
        => Above(NmsIou, Iou(fused[j].box, fused[k].box))
=============================================================================
