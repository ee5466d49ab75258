SPECIFICATION TasksSpec
CONSTANTS
  Names <- MCNames
  PublicKeys = {"ka", "kb", "kx"}
  KeyOf <- MCKeyOf
  None = None
  ChannelCap = 1
  ListenCap = 2
  MaxArrivals = 4
  MaxConn = 2
INVARIANTS
  TasksInv
  DeliveredInOrder
PROPERTIES
  EveryConnectionSettled
  GaugesFollow
CHECK_DEADLOCK FALSE
