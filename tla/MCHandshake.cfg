SPECIFICATION FairHandshakeSpec
CONSTANTS
  A = A
  B = B
  inside = inside
  elsewhere = elsewhere
  Nodes <- MCNodes
  Allowed <- MCAllowed
  Requests <- MCRequests
INVARIANTS
  RoutesAreThePeers
  RejectionFailsBoth
  SplitNeedsExpiry
PROPERTIES
  ClosedEndsHandshake
  BothSucceed
CHECK_DEADLOCK FALSE
