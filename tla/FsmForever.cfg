\* RETRY_FOREVER, as the node is built: the attempt counter wraps around.
SPECIFICATION FairSpec
CONSTANTS
  NumEvents = 2
  LEDS_YELLOW <- MCYellow
  Signals <- MCSignals
  Values <- MCOneValue
  BootSample <- MCBootOne
  Unset = 0
  AttemptModulus = 5
  ReconnectAttempts = 4
  BufferSize = 48
  Lengths = {16}
  MayRefuse = FALSE
INVARIANTS
  TypeOK
  AttemptBudget
PROPERTIES
  Reconnects
  Subscribes
