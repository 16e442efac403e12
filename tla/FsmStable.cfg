\* A stable connection that is lost before the FSM runs again.
SPECIFICATION Spec
CONSTANTS
  NumEvents = 2
  LEDS_YELLOW <- MCYellow
  Signals <- MCSignals
  Values <- MCOneValue
  BootSample <- MCBootOne
  Unset = 0
  AttemptModulus = 8
  ReconnectAttempts = 3
  BufferSize = 48
  Lengths = {16}
  MayRefuse = FALSE
PROPERTIES
  AllAttemptsAfterStable
