SPECIFICATION FairSpec
CONSTANTS
  Clients = {c1, c2}
  MaxThreads = 2
  MaxFds = 2
  Setups <- MCSetups
  InitEvents = 1
  LiveDtor = FALSE
INVARIANTS TypeOK NoAbort LifeCycle
PROPERTIES ClientAnswered SocketReleased
CHECK_DEADLOCK FALSE
