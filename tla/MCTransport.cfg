\* Two exchanges of up to two bytes, a length of two digits.
SPECIFICATION TransportFairSpec
CONSTANTS
  Base = 2
  Width = 2
  MaxSize = 2
  MaxExchanges = 2
PROPERTIES LinkSpec Delivered CancelReturns
CHECK_DEADLOCK FALSE
