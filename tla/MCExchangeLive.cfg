\* Three guest messages against queues of one: both host queues overflow, and
\* the sessions that go on rest on the fairness of threads and guest.
SPECIFICATION FairSpec
CONSTANTS
  MaxMessages = 1
  MaxBytes = 1
  NoKey = "none"
  Keys = {}
  Sizes = {1}
  MaxSubmits <- MostlyUp
INVARIANTS NoGaps
PROPERTIES StepReturns Delivered StopTerminates FailureEnds
CHECK_DEADLOCK FALSE
