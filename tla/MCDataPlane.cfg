SPECIFICATION FairDataSpec
CONSTANTS
  a1 = a1
  c1 = c1
  c2 = c2
  NoEntry = NoEntry
  Parked = Parked
  DnsServer = DnsServer
  NoDest = NoDest
  NoPacket = NoPacket
  Ips <- MCIps
  Values <- MCValues
  Packets <- MCPackets
  Pool = 3
  Cap = 1
  MaxDgram = 2
INVARIANTS
  BuffersConserved
  WaitersInLine
PROPERTIES
  ReaderServed
  SendersServed
  TunFailureEndsAll
