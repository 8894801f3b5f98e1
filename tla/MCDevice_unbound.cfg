SPECIFICATION Spec
CONSTANTS
  PubKeys = {k1, k2}
  PrivKeys = {s1, s2}
  Addrs = {a1, a2}
  Bits = 1
  LineSets <- MCLineSets
  Width = 2
  LFSR_POLY <- MCPoly
  Seeds <- MCSeeds
  NoKey = NoKey
  NoAddr = NoAddr
  ConnectOutcomes = {TRUE, FALSE}
  MaxPeers = 2
  MaxPort = 2
  MaxConns = 2
  MaxLimiters = 2
  MaxChanges = 3
CONSTRAINT FewChanges
SYMMETRY Symmetry
CHECK_DEADLOCK FALSE
INVARIANTS AlwaysConnected
