SPECIFICATION FairSpec
CONSTANTS
  Threads = {t1, t2, t3}
  NoThread = NoThread
  ApiSources = 3
  MaxRequests = 3
INVARIANTS OneWriter MutateAlone YieldOnlyForWriter
PROPERTIES NoNewReader WriterCompletes ReaderReturns AllExit
