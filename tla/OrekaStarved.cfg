SPECIFICATION Spec
CONSTANTS
  c1 = c1
  c2 = c2
  p1 = p1
  p2 = p2
  p3 = p3
  p4 = p4
  h1 = h1
  h2 = h2
  h3 = h3
  h4 = h4
  NULL = NULL
  NoPort = NoPort
  Calls = {c1, c2}
  Ports = {p1, p3}
  StartupPorts = {}
  Unbindable = {p3}
  NFd = 5
  Heap = {h1, h2, h3}
  Rounds = 0
  MaxLoss = 0
  MaxDup = 1
  InOrder = TRUE
  Voiced = {"rx"}
  QuickReuse = TRUE
  RxNamed = {}
SYMMETRY CallSymmetry
INVARIANTS OneChannelPerCall NoDescriptorLeak
CHECK_DEADLOCK FALSE
