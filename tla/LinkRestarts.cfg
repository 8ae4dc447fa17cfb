\* One edge process and C2, both restarted, and more messages than counters.
SPECIFICATION Spec
CONSTANTS
  p1 = p1
  p2 = p2
  s1 = s1
  s2 = s2
  f1 = f1
  f2 = f2
  Process = {p1}
  Source = {s1}
  SourceOf <- OneSource
  File = {f1}
  FileOf <- OneFile
  Kind = {"type1", "type2"}
  Provisioned = {p1}
  Accepted = {s1}
  CounterMax = 3
  MaxMessages = 4
  MaxStarts = 2
  MaxRuns = 2
  Lossy = TRUE
  StorageFaults = FALSE
INVARIANTS TypeOK ResumesAboveLog PerceptionOrder
PROPERTIES ImplementsFeed
\* The system stops when every bound is reached.
CHECK_DEADLOCK FALSE
