SPECIFICATION Spec
CONSTANTS
  c1 = c1
  c2 = c2
  fs1 = fs1
  fs2 = fs2
  None = None
  Calls = {c1, c2}
  Lines = 1
  Addr <- OneAddr
  Law = "alaw"
  Talkers <- OneTalk
  NFd = 5
  MaxRetry = 0
  MaxLoss = 0
  InOrder = TRUE
INVARIANTS NoLostWakeup
PROPERTIES ImplementsRecorder
CHECK_DEADLOCK FALSE
