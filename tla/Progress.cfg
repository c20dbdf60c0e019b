SPECIFICATION Spec
CONSTANTS
  None = none
  a1 = a1
  r1 = r1
CHECK_DEADLOCK FALSE
PROPERTIES
  KeysArrive
  OneShotFires
  CallsServed
  KeepsPlaying
  AcceptedEnds
  FollowedSettles
