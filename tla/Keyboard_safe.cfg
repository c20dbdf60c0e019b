SPECIFICATION Spec
CONSTANTS
  Keys <- ThreeKeys
  Cap = 4
INVARIANTS
  TypeOK
  IrqMatchesQueue
  FlippersFollowKeys
