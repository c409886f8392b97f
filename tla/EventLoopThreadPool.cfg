SPECIFICATION FairSpec
CONSTANTS
  MaxThreads = 3
  MaxGets = 2
INVARIANTS TypeOK LoopsUsable RoundRobin
PROPERTIES StartReturns JoinReturns
CHECK_DEADLOCK FALSE
