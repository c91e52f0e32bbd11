\* A bridge, an application and gem5, which may ignore SIGINT.
SPECIFICATION SupervisorFairSpec
CONSTANTS
  Order <- ThreeCommands
INVARIANTS NoneLeft
PROPERTIES Returns
CHECK_DEADLOCK FALSE
