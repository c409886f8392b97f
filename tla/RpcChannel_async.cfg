SPECIFICATION Spec
CONSTANTS
  Callers = {t1, t2}
  Calls = {k1, k2, k3}
  BadCalls = {k3}
  MaxConns = 1
  IdSpace = 4
  MayBreak = TRUE
  CallersWait = TRUE
  Async = TRUE
INVARIANT ChannelLives
