SPECIFICATION Spec
CONSTANTS
  Keys = {42, 56, 184}
  Cap = 4
  Batch = 4
  Unarmed = 2
  IdleJump = 5
  Delay = 6
  Spin = 3
  Sub = 1
  Micro = 1
  Legacy = FALSE
  MaxCycle = 16
  MaxEvents = 3
INVARIANTS
  FocusLossReplays
