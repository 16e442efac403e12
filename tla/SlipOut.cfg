\* Short and long packets, partial writes, a full buffer, a delay.
SPECIFICATION FairSpec
CONSTANTS
  Packets <- MCPackets
  BufSize = 22
  SendDelay = TRUE
INVARIANTS
  TypeOK
  FrameBoundary
PROPERTIES
  ImplementsQueue
  Drains
CHECK_DEADLOCK FALSE
