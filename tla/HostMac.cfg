\* A second answer to the request for the MAC address.
SPECIFICATION Spec
CONSTANTS
  MAX_CALLBACKS = 2
  PacketIds = 2
  Window = 2
  DeferCap = 1
  MaxSends = 1
  LinkCap = 2
  MaxLost = 0
INVARIANTS
  StaysRoot
CHECK_DEADLOCK FALSE
