\* One source whose vehicles move.
SPECIFICATION Spec
CONSTANTS
  s1 = s1
  s2 = s2
  vehicle = vehicle
  other = other
  Source = {s1}
  Class = {vehicle, other}
  VehicleClass = {vehicle}
  Cell <- North
  Spot = {"a", "nnw", "s"}
  Leg <- Compass
  Window = 2
  MinVehicles = 2
  Tolerance = 45
  MinObs = 2
  MinSpeed = 5
  ObsMax = 2
  RecentMax = 2
  MaxSkew = 1
  MaxTime = 2
  MaxHeard = 5
  MaxRuns = 1
PROPERTIES ReportedMoveTogether
\* The system stops when every bound is reached.
CHECK_DEADLOCK FALSE
