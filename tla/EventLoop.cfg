SPECIFICATION FairSpec
CONSTANTS
  LoopThread = loop
  Threads = {t1, t2}
  Functors = {f1, f2}
  MaxPosts = 3
INVARIANTS TypeOK NoLostWakeup NoLostQuit FunctorsRunInOrder
PROPERTIES ImplementsFunctorQueue QueuedFunctorRuns
