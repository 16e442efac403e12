\* Rings that wrap, packets put off and passed by others, lost and damaged
\* frames and reboots.
SPECIFICATION FairSpec
CONSTANTS
  MAX_CALLBACKS = 3
  PacketIds = 3
  Window = 2
  DeferCap = 2
  MaxSends = 5
  LinkCap = 2
  MaxLost = 1
INVARIANTS
  TypeOK
  ReportsMatch
PROPERTIES
  Reported
  Boots
CHECK_DEADLOCK FALSE
