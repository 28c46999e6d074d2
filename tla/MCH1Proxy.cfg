SPECIFICATION Spec
CONSTANTS
  c1 = c1
  c2 = c2
  x1 = x1
  x2 = x2
  Clients <- MCClients
  NatAddrs <- MCNatAddrs
  Seen <- MCSeen
  Gw <- MCGw
  Upstreams = {u1}
  Locals = {l1, l2}
  Proxy = Proxy
  NoAddr = NoAddr
  QueueCap = 2
  FibCap = 2
  UtrnCap = 8
  MaxReqs = 2
  MaxBody = 1
INVARIANTS
  NoCrossDelivery
  ExclusiveConn
  WellFramed
  ServersMonitored
  UturnHasToken
  
CHECK_DEADLOCK FALSE
