\* A limited number of attempts, every event of the broker, a short queue.
SPECIFICATION Spec
CONSTANTS
  NumEvents = 2
  LEDS_YELLOW <- MCYellow
  Signals <- MCTwoSignals
  Values <- MCValues
  BootSample <- MCBootTwo
  Unset = 0
  AttemptModulus = 8
  ReconnectAttempts = 2
  BufferSize = 48
  Lengths = {16, 48}
  MayRefuse = TRUE
INVARIANTS
  FsmMatchesConnection
  WakeupPending
  SubscribedWhilePublishing
  AttemptBudget
  LastSampleKnown
  LampIsBlip
PROPERTIES
  PayloadIntact
  ImplementsLink
