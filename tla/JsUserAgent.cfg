CONSTANTS
  s1 = s1
  s2 = s2
  Sockets <- MCSockets
  Weight <- MCWeight
  Refusals <- MCRefusals
  Answers <- MCAnswers
  ConfigRegister = TRUE
  MaxCSeq = 5
SPECIFICATION Spec
INVARIANTS OneWebSocket StatusFollows RegistrationIsTrue
PROPERTIES RegistrationSettles ConnectionSettles
