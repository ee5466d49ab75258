SPECIFICATION FairSpec
CONSTANTS
  p1 = p1
  p2 = p2
  a1 = a1
  a2 = a2
  b1 = b1
  NoEntry = NoEntry
  Parked = Parked
  Peers <- MCPeers
  Ips <- LiveIps
  Addrs <- LiveAddrs
  DnsEnabled = TRUE
  MaxConn = 1
  OsFaults <- AllFaults
PROPERTY
  OpenConnectionIsUsed
CHECK_DEADLOCK FALSE
