\* A packet that comes when the buffer has just become empty.
SPECIFICATION Spec
CONSTANTS
  Packets <- MCPackets
  BufSize = 12
  SendDelay = TRUE
PROPERTIES
  DelayBetweenFrames
CHECK_DEADLOCK FALSE
