SPECIFICATION TransportsSpec
CONSTANTS
  t1 = t1
  t2 = t2
  t3 = t3
  d1 = d1
  d2 = d2
  d3 = d3
  Threads <- MCThreads
  Descriptors <- MCDescriptors
  NoThread = NoThread
  NoFd = NoFd
  NoSocket = NoSocket
  Configs <- MCConfigs
  Budget = 2
  MaxCandidates = 2
  MaxSockets = 4
  MaxSent = 4
INVARIANTS NoDescriptorLeak NothingLeftBehind SetupWithinBudget
PROPERTIES ImplementsDescriptorLease CloseTerminates
