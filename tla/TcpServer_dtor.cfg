SPECIFICATION Spec
CONSTANTS
  Clients = {c1}
  MaxThreads = 1
  MaxFds = 1
  Setups <- MCOneThread
  InitEvents = 1
  LiveDtor = TRUE
INVARIANT DtorAsserts
CHECK_DEADLOCK FALSE
