SPECIFICATION Spec
CONSTANTS
  c1 = c1
  c2 = c2
  fs1 = fs1
  fs2 = fs2
  None = None
  Calls = {c1}
  Lines = 1
  Addr <- OneAddr
  Law = "alaw"
  Talkers <- OneTalk
  NFd = 20
  MaxRetry = 1
  MaxLoss = 1
  InOrder = FALSE
INVARIANTS NoFaultBeforeHangUp
CHECK_DEADLOCK FALSE
