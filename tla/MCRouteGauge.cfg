SPECIFICATION GaugeSpec
CONSTANTS
  p1 = p1
  p2 = p2
  a1 = a1
  a2 = a2
  NoEntry = NoEntry
  Parked = Parked
  Peers <- MCPeers
  Ips <- MCIps
  MaxConn = 1
  OsFaults <- AllFaults
  MaxDrift = 2
INVARIANTS
  RelayInv
  NoOrphanRoute
  DriftBounded
PROPERTIES
  RollbackIsTotal
  ImplementsDispatch
