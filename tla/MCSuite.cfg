\* Two runs and three failures, interrupts and kills.
SPECIFICATION SuiteFairSpec
CONSTANTS
  RunOrder <- TwoRuns
  Gem5 = TRUE
  Quiet = FALSE
  KeepGoing = TRUE
  MaxFaults = 3
INVARIANTS  ReturnTruthful
PROPERTIES Completes
CHECK_DEADLOCK FALSE
