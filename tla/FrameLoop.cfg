\* Three frames, in one run or two, which Ctrl-C or a crash ends anywhere.
SPECIFICATION FairSpec
CONSTANTS
  BodyCells = 2
  Scene <- Scenes
  Label <- Labels
  Needles <- LabelNeedles
  FrameSkip = 2
  RecentMax = 1
  CaptionTail = 2
  MinVehicles = 2
  MaxFrames = 3
  MaxRuns = 2
INVARIANTS ReadBack EvidenceShown StatsMatchWire MarkedWasSent CaptionedOnce Mirrored
PROPERTIES VideoEnds
\* A process that has ended and is not started again does nothing.
CHECK_DEADLOCK FALSE
