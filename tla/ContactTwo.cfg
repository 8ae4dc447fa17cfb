\* Two sources, each of which may fall silent, return and fall silent again.
SPECIFICATION Spec
CONSTANTS
  s1 = s1
  s2 = s2
  Source = {s1, s2}
  Period = 1
  Slack = 1
  RestoredWithin = 4
  LostAfter = 4
  MaxTime = 14
  MaxCounter = 3
INVARIANTS OutageAnnounced ReturnAnnounced
PROPERTIES CalledLostWhenSilent MissedCoversOutage
SYMMETRY SourceSymmetry
\* C2 has ended, or the clock is at its bound.
CHECK_DEADLOCK FALSE
