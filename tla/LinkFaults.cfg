\* Two processes that share a source and a counter file, one without the PSK;
\* files may be damaged.
SPECIFICATION Spec
CONSTANTS
  p1 = p1
  p2 = p2
  s1 = s1
  s2 = s2
  f1 = f1
  f2 = f2
  Process = {p1, p2}
  Source = {s1}
  SourceOf <- SharedSource
  File = {f1}
  FileOf <- SharedFile
  Kind = {"type1"}
  Provisioned = {p1}
  Accepted = {s1}
  CounterMax = 3
  MaxMessages = 2
  MaxStarts = 2
  MaxRuns = 1
  Lossy = FALSE
  StorageFaults = TRUE
INVARIANTS CounterOrder GapAccounting
\* The system stops when every bound is reached.
CHECK_DEADLOCK FALSE
