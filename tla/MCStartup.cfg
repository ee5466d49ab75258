SPECIFICATION StartupSpec
CONSTANTS
  MaxKeys = 3
  Linux = TRUE
  Absent = Absent
  Torn = Torn
INVARIANTS
  StartupInv
  PrintedIsStored
PROPERTIES
  KeyKept
