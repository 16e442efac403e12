\* The broker refuses the connection.
SPECIFICATION FairSpec
CONSTANTS
  NumEvents = 2
  LEDS_YELLOW <- MCYellow
  Signals <- MCNoSignals
  Values <- MCOneValue
  BootSample <- MCBootNone
  Unset = 0
  AttemptModulus = 8
  ReconnectAttempts = 7
  BufferSize = 48
  Lengths = {16}
  MayRefuse = TRUE
PROPERTIES
  ConnectingEnds
