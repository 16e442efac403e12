\* Presses, holds and releases in any order, and a full queue.
SPECIFICATION FairSpec
CONSTANTS
  NumEvents = 4
  LEDS_YELLOW <- MCYellowOfZoul
  NORMAL_LEVEL = 2
  YELLOW_TRESHOLD = 6
  RED_TRESHOLD = 8
  LevelModulus = 11
INVARIANTS
  TypeOK
  AlarmFollowsLevel
  LampsShowLevel
PROPERTIES
  AlarmSounds
  AlarmStops
