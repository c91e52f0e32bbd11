\* Steps of one and two nanoseconds, the cap being two, that may miss their
\* target by more than a step; the tick range is reached after a few of them.
CONSTANTS
  Intervals = {1, 2}
  MaxInterval = 2
  TicksPerNs = 2
  TickMax = 14
  Over = 3
  Under = 2
  MaxForeign = 1
SPECIFICATION FairSpec
INVARIANTS OwnTicksOnly BoundedDrift 
PROPERTIES  Answered
CHECK_DEADLOCK FALSE
