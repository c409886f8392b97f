SPECIFICATION FairSpec
CONSTANTS
  Callers = {t1, t2}
  Calls = {k1, k2, k3}
  BadCalls = {k3}
  MaxConns = 2
  IdSpace = 3
  MayBreak = TRUE
  CallersWait = TRUE
  Async = TRUE
INVARIANTS TypeOK OwnAnswer ResponsesExpected CrashNeedsReplacement
PROPERTIES ImplementsRpcCalls CallCompletes
CHECK_DEADLOCK FALSE
