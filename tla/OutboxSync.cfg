\* Two events, a database call that raises, and one restart.
SPECIFICATION Spec
CONSTANTS
  e1 = e1
  e2 = e2
  Event = {e1, e2}
  BatchSize = 2
  MaxRetry = 2
  Poison = {}
  MaxFaults = 1
  MaxStarts = 2
  Sinks = 1
INVARIANTS TypeOK SyncedImpliesDelivered CopiesBounded OnceBeforeStop OvertakenOnlyIfFailed
SYMMETRY EventSymmetry
\* A process that has ended and is not started again does nothing.
CHECK_DEADLOCK FALSE
