SPECIFICATION Spec
CONSTANTS
  Radix = 3
  PortPast = 4
  MaxPast = 6
  BatchSize = 4
  Unarmed = 2
  Resync = 5
  Modes = {0}
  Others = {1}
  Slots = 3
  MaxLine = 2
  Cols = 4
  Rows = 2
  MaxTyped = 6
  Programs = {1, 2}
  Starts <- TwoStarts
  Lengths <- TwoLengths
  Half = 4
  Transfer = 6
  Due = {1, 2}
  NBUF = 3
  Top = 7
  Size = 9
  Segment = 6
  Bases = {0, 2}
  Bulk = 2
  MaxCount = 4
  Sections <- OneOfEach
  Sized = {"RAMLOW", "VRAM"}
  MaxTime = 2
  MaxDeaths = 2
CHECK_DEADLOCK FALSE
INVARIANTS
  TypeOK
  PortsTellTruth
  MusicInOrder
  InstructionsRight
PROPERTIES
  InterruptsInOrder
  KeysKept
  OneMoment
