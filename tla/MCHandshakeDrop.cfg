SPECIFICATION HandshakeSpec
CONSTANTS
  A = A
  B = B
  inside = inside
  elsewhere = elsewhere
  Nodes <- MCNodes
  Allowed <- MCAllowed
  Requests <- OwnAddress
INVARIANT
  SuccessMeansHandled
CHECK_DEADLOCK FALSE
