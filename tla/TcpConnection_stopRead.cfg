SPECIFICATION Spec
CONSTANTS
  a1 = a1
  a2 = a2
  b1 = b1
  Messages <- MCMessages
  Threads = {t1}
  ThreadOps = {}
  CallbackOps = {"stopRead", "forceClose"}
  WriteComplete = TRUE
  PeerMayReset = TRUE
  SafeRelease = TRUE
  MaxCalls = 2
INVARIANT CloseAssert
