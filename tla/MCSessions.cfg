SPECIFICATION Spec
CONSTANTS
  p1 = p1
  p2 = p2
  a1 = a1
  a2 = a2
  b1 = b1
  NoEntry = NoEntry
  Parked = Parked
  Peers <- MCPeers
  Ips <- MCIps
  Addrs <- MCAddrs
  DnsEnabled = TRUE
  MaxConn = 2
  OsFaults <- AllFaults
INVARIANTS
  SessionsInv
  RoutesMatchRelay
  ConnectedMeansServed
  EndedLeavesNothing
PROPERTIES
  OnlyOwnerWithdraws
SYMMETRY AddrSymmetry
CHECK_DEADLOCK FALSE
