SPECIFICATION FairSpec
CONSTANTS
  w1 = w1
  w2 = w2
  p1 = p1
  NoThread = NoThread
  NoPeer = NoPeer
  Workers <- MCWorkers
  Peers <- MCPeers
  Fds <- MCFds
  Addresses <- MCAddresses
  MaxListeners = 2
INVARIANTS
  OneHolder
  NoDangling
  NoLostEvent
  NoLeak
  YieldForWriter
PROPERTIES
  ShutDownFreed
  WriterRuns
