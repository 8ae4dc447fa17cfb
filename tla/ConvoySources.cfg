\* Two sources whose clocks differ by up to one window, and a restart of C2.
SPECIFICATION Spec
CONSTANTS
  s1 = s1
  s2 = s2
  vehicle = vehicle
  other = other
  Source = {s1, s2}
  Class = {vehicle}
  VehicleClass = {vehicle}
  Cell <- North
  Spot = {"a"}
  Leg <- Pinned
  Window = 2
  MinVehicles = 2
  Tolerance = 45
  MinObs = 2
  MinSpeed = 5
  ObsMax = 2
  RecentMax = 4
  MaxSkew = 2
  MaxTime = 5
  MaxHeard = 5
  MaxRuns = 2
INVARIANTS TypeOK FiredOnEvidence ConvoyReported WindowApart
SYMMETRY SourceSymmetry
\* The system stops when every bound is reached.
CHECK_DEADLOCK FALSE
