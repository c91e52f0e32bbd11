\* Calls of one or two physics steps, of a world whose iterations may take
\* longer than the configuration says; three statistics in flight.
SPECIFICATION FairSpec
CONSTANTS
  Counts = {1, 2}
  PhysicsStep = 1
  WorldSteps = {1, 2}
  MaxSteps = 3
  MaxStats = 3
INVARIANTS SerialCoupling VerifiedStep
 
CHECK_DEADLOCK FALSE
