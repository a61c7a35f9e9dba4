SPECIFICATION FairSpec
CONSTANTS
  c1 = c1
  c2 = c2
  fs1 = fs1
  fs2 = fs2
  None = None
  Calls = {c1}
  Lines = 1
  Addr <- OneAddr
  Law = "alaw"
  Talkers <- Silence
  NFd = 20
  MaxRetry = 2
  MaxLoss = 0
  InOrder = TRUE
INVARIANTS NothingLeftBehind RecordingsIntact
PROPERTIES InviteAnswered CallsDrain
CHECK_DEADLOCK FALSE
