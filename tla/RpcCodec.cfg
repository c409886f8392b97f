SPECIFICATION Spec
CONSTANTS
  kCheapPrepend = 4
  kInitialSize = 8
  ExtraSize = 5
  Word = 2
  kMaxMessageLen = 7
  MaxSends = 3
  Payloads <- const_Payloads
INVARIANTS TypeOK InputIsStream NothingLeftBehind
CHECK_DEADLOCK FALSE
