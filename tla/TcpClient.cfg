SPECIFICATION FairSpec
CONSTANTS
  MaxFds = 4
  MaxCalls = 4
  CallbackOps = {"disconnect", "stop", "forceClose"}
  ConnectOnce = TRUE
INVARIANTS TypeOK NoAbort SocketsAccounted
PROPERTIES StopEnds
