SPECIFICATION FairSpec
CONSTANTS
  a1 = a1
  a2 = a2
  b1 = b1
  Messages <- MCMessages
  Threads = {t1}
  ThreadOps = {"send"}
  CallbackOps = {"send", "shutdown", "forceClose"}
  WriteComplete = TRUE
  PeerMayReset = TRUE
  SafeRelease = TRUE
  MaxCalls = 3
INVARIANTS TypeOK WriterArmed ShutdownDrains DownReportedOnce NoAbort
           RunsOnLiveObject
PROPERTIES EndedIsRemoved DisconnectingEnds PeerEndSeen
