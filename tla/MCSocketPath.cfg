\* Two hosts that want the same data paths, gem5, and the suite.
SPECIFICATION SocketFairSpec
CONSTANTS
  Opens <- TwoHostsAndGem5
  MaxStarts = 3
 
PROPERTIES StaleRemoved
