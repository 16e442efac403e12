\* Two messages and more on the line, lost bytes, a small buffer, with and
\* without lines echoed.  A write outside the array is where the model ends.
SPECIFICATION Spec
CONSTANTS
  Messages <- MCMessages
  Binary <- MCBinary
  InbufSize = 6
  MaxSensors = 2
  RowSize = 2
  Verbosities = {0, 2}
  LineCap = 7
INVARIANTS
  TypeOK
  InbufInBounds
  IntactFrameHandled
PROPERTIES
  SensorsStored
CHECK_DEADLOCK FALSE
