\* Two events, one of which can never be delivered, under fairness.
SPECIFICATION FairSpec
CONSTANTS
  e1 = e1
  e2 = e2
  Event = {e1, e2}
  BatchSize = 2
  MaxRetry = 1
  Poison = {e2}
  MaxFaults = 0
  MaxStarts = 1
  Sinks = 2
PROPERTIES SteadyHasAll PendingDelivered StopReturns
\* A process that has ended and is not started again does nothing.
CHECK_DEADLOCK FALSE
