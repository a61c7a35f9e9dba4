SPECIFICATION FairSpec
CONSTANTS
  d1 = d1
  d2 = d2
  Dialogs <- TwoEnds
  Caller = d1
  None = None
  MaxOffers = 1
INVARIANTS ByeAfterAck ToldTheTruth CallIsListed
PROPERTIES InviteKeepsItsWord WaitsEnd
CHECK_DEADLOCK FALSE
