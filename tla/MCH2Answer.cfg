SPECIFICATION Spec
CONSTANTS
  c1 = c1
  c2 = c2
  x1 = x1
  Clients <- MCTwo
  NatAddrs = {}
  Seen <- MCSeen
  Gw <- MCGw
  Locals = {l1}
  Proxy = Proxy
  NoAddr = NoAddr
  QueueCap = 2
  MaxStreams = 2
  MaxClose = 0
INVARIANTS
  AnswerToRequest
SYMMETRY MCSymmetry
CHECK_DEADLOCK FALSE
