\* Two routes and one, payloads the guest refuses, queues of two.
SPECIFICATION BridgeFairSpec
CONSTANTS
  Routes <- TwoRoutes
  Payloads <- ShortAndLong
  byte_limit <- One
  queue_limit <- Two
  Base = 3
  Width = 2
  max_messages = 2
  max_bytes = 8
  MaxArrivals = 3
INVARIANTS NoSilentLoss
PROPERTIES Published
CHECK_DEADLOCK FALSE
