\* Two keys and sizes that meet the byte limit before, at and after the
\* message limit; enough calls for the cursor to wrap.
SPECIFICATION Spec
CONSTANTS
  MaxMessages = 3
  MaxBytes = 4
  NoKey = "none"
  Keys = {"a", "b"}
  Sizes = {0, 1, 3}
  MaxCalls = 5
INVARIANTS ExactLimits
PROPERTIES FifoOrder
