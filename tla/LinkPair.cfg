\* Two edge processes, each with a source and a counter file of its own, and a
\* lossless path to one run of C2, under fairness.
SPECIFICATION FairSpec
CONSTANTS
  p1 = p1
  p2 = p2
  s1 = s1
  s2 = s2
  f1 = f1
  f2 = f2
  Process = {p1, p2}
  Source = {s1, s2}
  SourceOf <- OwnSource
  File = {f1, f2}
  FileOf <- OwnFile
  Kind = {"type1"}
  Provisioned = {p1, p2}
  Accepted = {s1, s2}
  CounterMax = 2
  MaxMessages = 2
  MaxStarts = 2
  MaxRuns = 1
  Lossy = FALSE
  StorageFaults = FALSE
INVARIANTS CounterUnique LoggedBeforeSent
PROPERTIES FeedCatchesUp
\* The system stops when every bound is reached.
CHECK_DEADLOCK FALSE
