----------------------------- MODULE VlmChannel -----------------------------
(***************************************************************************)
(* The rich channel beside the wire: VlmChannelSink's three JSONL files,   *)
(* and the classes by which a detection is said to have been sent.  There  *)
(* are two ways from a detector's label to a STRE class: the bridge's      *)
(* table, which decides what is sent, and the channel's normalized label,  *)
(* which decides what is marked.                                           *)
(***************************************************************************)
EXTENDS Integers, Sequences, FiniteSets

CONSTANTS
  Label,     \* labels a detection may have: any text, as the detector passes on
             \* what it has no class for
  Needles    \* for each, the needles of NormalizeRules that occur in it

VARIABLES
  detLines,     \* vlm_detections.jsonl
  frameLines,   \* vlm_frames.jsonl
  sceneLines    \* vlm_scenes.jsonl

vlmVars == <<detLines, frameLines, sceneLines>>

VlmInit == detLines = <<>> /\ frameLines = <<>> /\ sceneLines = <<>>

\* INTERNAL_TO_STRE_CLASS.  Smoke and fire are not sent.
InternalToStre ==
  [tank |-> "vehicle_tracked", apc |-> "vehicle_tracked", artillery |-> "artillery",
   soldier |-> "personnel", drone |-> "drone", helicopter |-> "aircraft_rotary",
   truck |-> "vehicle_wheeled", military_vehicle |-> "vehicle_wheeled",
   civilian_vehicle |-> "vehicle_wheeled", military_object |-> "unknown"]

\* The rules of vlm_channel.normalize_label, in their order.
NormalizeRules ==
  << <<{"tank", "tracked", "ifv", "bmp"}, "tracked_vehicle">>,
     <<{"apc", "armored personnel"}, "tracked_vehicle">>,
     <<{"truck", "wheeled", "humvee", "lav", "transporter"}, "wheeled_vehicle">>,
     <<{"artillery", "howitzer", "mortar", "cannon"}, "artillery">>,
     <<{"soldier", "infantry", "person", "personnel", "troop"}, "personnel">>,
     <<{"drone", "uav", "quadcopter", "unmanned aerial"}, "drone">>,
     <<{"helicopter", "rotorcraft", "rotary"}, "rotary_aircraft">>,
     <<{"military_vehicle", "military vehicle", "vehicle"}, "vehicle_other">> >>

Needle == UNION {NormalizeRules[i][1] : i \in DOMAIN NormalizeRules}

\* The needles in the keys of the bridge's table.
KeyNeedles ==
  [tank |-> {"tank"}, apc |-> {"apc"}, artillery |-> {"artillery"}, soldier |-> {"soldier"},
   drone |-> {"drone"}, helicopter |-> {"helicopter"}, truck |-> {"truck"},
   military_vehicle |-> {"military_vehicle", "vehicle"}, civilian_vehicle |-> {"vehicle"},
   military_object |-> {}]

ASSUME VlmChannelAssumption ==
  /\ Needles \in [Label -> SUBSET Needle]
  /\ \A label \in Label \cap DOMAIN InternalToStre : Needles[label] = KeyNeedles[label]

\* vlm_channel.normalize_label: the first rule with a needle in the label.
NormalizedLabel(label) ==
  LET hits == {i \in DOMAIN NormalizeRules : NormalizeRules[i][1] \cap Needles[label] # {}}
  IN  IF hits = {} THEN "unknown"
      ELSE NormalizeRules[CHOOSE i \in hits : \A j \in hits : i <= j][2]

Sendable(label) == label \in DOMAIN InternalToStre
NoClass == "none"

\* A faulty DiagnosticLabel, with the two replacements exchanged.
DiagnosticLabelSwapped(label) ==
  LET n == NormalizedLabel(label)
  IN  CASE n = "tracked_vehicle" -> "truck"
        [] n = "wheeled_vehicle" -> "tank"
        [] OTHER -> n

\* .replace("tracked_vehicle", "tank").replace("wheeled_vehicle", "truck")
DiagnosticLabel(label) ==
  LET n == NormalizedLabel(label)
  IN  CASE n = "tracked_vehicle" -> "tank"
        [] n = "wheeled_vehicle" -> "truck"
        [] OTHER -> n

\* The STRE class a detection is looked up under.  Personnel, rotary_aircraft,
\* vehicle_other and unknown are not keys of the bridge's table.
DiagnosticClass(label) ==
  IF Sendable(DiagnosticLabel(label)) THEN InternalToStre[DiagnosticLabel(label)] ELSE NoClass

\* is_in_stre: some message of the class was sent for this frame.
IsInStre(label, classesSent) == DiagnosticClass(label) \in classesSent

WriteDetection(r, f, d, classesSent) ==
  /\ detLines' = Append(detLines, [run |-> r, frame |-> f, det |-> d,
                                   inStre |-> IsInStre(d.label, classesSent)])
  /\ UNCHANGED <<frameLines, sceneLines>>

Marked(ds, classesSent) ==
  Cardinality({i \in DOMAIN ds : IsInStre(ds[i].label, classesSent)})

\* One FrameDigest for the detections of a frame.
WriteFrameDigest(r, f, ds, classesSent) ==
  /\ frameLines' = Append(frameLines, [run |-> r, frame |-> f, total |-> Len(ds),
                                       emitted |-> Marked(ds, classesSent)])
  /\ UNCHANGED <<detLines, sceneLines>>

WriteSceneCaption(r, f, inference) ==
  /\ sceneLines' = Append(sceneLines, [run |-> r, frame |-> f, inference |-> inference])
  /\ UNCHANGED <<detLines, frameLines>>
=============================================================================
