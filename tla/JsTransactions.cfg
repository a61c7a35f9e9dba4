SPECIFICATION FairSpec
CONSTANTS
  c1 = c1
  c2 = c2
  s1 = s1
  s2 = s2
  b1 = b1
  b2 = b2
  NoTx = NoTx
  ClientTx = {c1}
  ServerTx = {s1, s2}
  Branches = {b1}
  InDialog = {b1}
INVARIANTS OneOutcome TablesAreTrue AnswersAreOne
PROPERTIES EndIsFinal InvitesKeepTheirWord Drains
CHECK_DEADLOCK FALSE
