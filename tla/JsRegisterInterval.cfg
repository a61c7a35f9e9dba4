CONSTANTS
  s1 = s1
  s2 = s2
  Sockets <- MCSockets
  Weight <- MCWeight
  Refusals <- MCRefusals
  Answers <- MCAnswersBrief
  ConfigRegister = TRUE
  MaxCSeq = 4
SPECIFICATION Spec
PROPERTY
  AttemptsAgain
