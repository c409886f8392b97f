SPECIFICATION Spec
CONSTANTS
  a1 = a1
  a2 = a2
  b1 = b1
  Messages <- MCMessages
  Threads = {t1}
  ThreadOps = {"send", "shutdown", "forceClose", "forceCloseWithDelay", "startRead", "stopRead"}
  CallbackOps = {"send", "shutdown", "forceClose", "forceCloseWithDelay", "startRead", "stopRead"}
  WriteComplete = TRUE
  PeerMayReset = TRUE
  SafeRelease = TRUE
  MaxCalls = 3
CHECK_DEADLOCK FALSE
INVARIANTS PollerAgrees StreamIntact
