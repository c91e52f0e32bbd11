\* Windows longer and shorter than the command timeout, so that commands stop
\* in one and one command outlasts the other; two updates of two parameters
\* that constrain each other.
SPECIFICATION CollectorSpec
CONSTANTS
  Durations = {2, 4}
  Timeout = 2
  Values = {1, 2, 3}
  MaxTime = 7
  MaxStart = 2
  MaxSamples = 4
  MaxSets = 2
INVARIANTS GapBounded WindowCovered ExitTruthful ParametersFollow
CHECK_DEADLOCK FALSE
