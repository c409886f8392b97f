SPECIFICATION Spec
CONSTANTS
  MaxFds = 3
  MaxCalls = 1
  CallbackOps = {"connect"}
  ConnectOnce = TRUE
INVARIANT NoAbort
