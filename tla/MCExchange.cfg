\* Three host messages, with and without a key, against queues of two: batches
\* of two, replacement, and overflow on the guest side.
SPECIFICATION Spec
CONSTANTS
  MaxMessages = 2
  MaxBytes = 2
  NoKey = "none"
  Keys = {"k"}
  Sizes = {1}
  MaxSubmits <- MostlyDown
INVARIANTS Ordered Conserved PhaseAgreement InstructionOpsAfterSwitch
  PausedBetweenSteps CleanStop
CHECK_DEADLOCK FALSE
