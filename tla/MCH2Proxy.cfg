SPECIFICATION Spec
CONSTANTS
  c1 = c1
  c2 = c2
  x1 = x1
  Clients <- MCOne
  NatAddrs = {}
  Seen <- MCSeen
  Gw <- MCGw
  Locals = {l1, l2}
  Proxy = Proxy
  NoAddr = NoAddr
  QueueCap = 2
  MaxStreams = 3
  MaxClose = 1
INVARIANTS
  AnswerWhileOpen
  AnswerStaysTogether
  
  TwoWays
CHECK_DEADLOCK FALSE
