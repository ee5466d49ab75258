SPECIFICATION AlgorithmsSpec
CONSTANTS
  Width4 = 3
  Width6 = 4
  PrefixLen = 1
  SubnetLen = 2
  Global = 1
  Keys = {1, 2}
  One = 8
  Threshold = 4
  Rest = {0, 1, 5}
  SumMod = 7
  Peers <- MCPeers
  Labels <- MCLabels
  Lower <- MCLower
  suffix <- MCSuffix
  Addrs = {1, 2}
  MaxLen = 3
  MaxElapsed = 9
  MaxDelay = 3
  OpTime = 1
  MaxLate = 2
  Horizon = 12
INVARIANTS
  NamesInv
  GeneratedAloneVerifies
  ConfigurableIsAcceptable
  SignalUnderstood
  DropsLinearly
  ReadyInTimeSucceeds
PROPERTIES
  ResolvesToReachable
CHECK_DEADLOCK FALSE
