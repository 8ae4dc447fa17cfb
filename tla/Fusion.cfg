\* A call without and one with the second model, on boxes that overlap by more,
\* by less and by exactly the thresholds.
SPECIFICATION Spec
CONSTANTS
  MuaythaiOutput <- MuaythaiOutputs
  GdinoOutput <- GdinoOutputs
  MuaythaiMax = 3
  GdinoMax = 2
  GdinoEveryN = 2
  FuseIou <- Half
  NmsIou <- Half
  MaxCalls = 2
INVARIANTS EachBoxOnce AgreementFound SightingsKept KeptApart
\* The last call has returned.
CHECK_DEADLOCK FALSE
