\* Two places and a hazard signal that has no STRE class, with ids that are soon used again.
SPECIFICATION Spec
CONSTANTS
  a = a
  b = b
  smoke = smoke
  Place = {a, b, smoke}
  Reportable = {a, b}
  IdMax = 2
  Interval = 2
  StaleAfter = 2
  MaxLag = 1
  MaxTracks = 2
  MaxTime = 8
INVARIANTS TypeOK OnePerInterval
PROPERTIES HeldBackForCause
\* The clock stops at its bound.
CHECK_DEADLOCK FALSE
