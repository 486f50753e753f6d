SPECIFICATION FairSpec
CONSTANTS
  l1 = l1
  NoAnswer = NoAnswer
  Handles = {l1, l2}
  UserKeys <- OneKey
  MaxLidars = 2
  MaxInfo = 2
PROPERTIES
  ConfiguredBecomesSampling
  ReachesNormalMode
CHECK_DEADLOCK FALSE
