SPECIFICATION Spec
CONSTANTS
  c1 = c1
  c2 = c2
  p1 = p1
  p2 = p2
  p3 = p3
  p4 = p4
  h1 = h1
  h2 = h2
  h3 = h3
  h4 = h4
  NULL = NULL
  NoPort = NoPort
  Calls = {c1, c2}
  Ports = {p1, p2}
  StartupPorts = {}
  Unbindable = {}
  NFd = 8
  Heap = {h1, h2, h3}
  Rounds = 0
  MaxLoss = 1
  MaxDup = 0
  InOrder = FALSE
  Voiced = {"rx"}
  QuickReuse = FALSE
  RxNamed = {c2}
SYMMETRY PortSymmetry
INVARIANTS DescriptorOwnership FaultsOnNullOnly
CHECK_DEADLOCK FALSE
