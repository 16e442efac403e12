\* A sensor event or an old timer event cuts the backoff short.
SPECIFICATION Spec
CONSTANTS
  NumEvents = 2
  LEDS_YELLOW <- MCYellow
  Signals <- MCSignals
  Values <- MCOneValue
  BootSample <- MCBootOne
  Unset = 0
  AttemptModulus = 8
  ReconnectAttempts = 7
  BufferSize = 48
  Lengths = {16}
  MayRefuse = FALSE
PROPERTIES
  BackoffRespected
