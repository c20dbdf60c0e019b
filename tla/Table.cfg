SPECIFICATION Spec
CONSTANTS
  Short = 1
  Long = 2
  SCLog = 2
  Setups <- Installs
  MaxGames = 2
  MaxScore = 1
  Tables = {"t1", "t2"}
  Sites <- TwoTables
  Places = {1, 2}
  PageVtotal = 4
  PageVrs = 2
  SaHist = 3
  BallHold = 6
  Bytes = {0, 1}
  Vtotal = 5
  Vde = 3
  Vrs = 3
  Flip = 4
  Mid = 1
  Wander = 1
  Steady = 1
  PalSw = 3
  Width = 2
  Cells = 8
  Settings <- EachMode
  Addrs = {0, 5, 9, 13}
  Values <- SomeBytes
  Screen <- SixRows
  Pattern <- Stripes
  Accesses = 2
  Buckets = 8
  Warmup = 3
  Every = 2
  Margin = 1
  MinW = 1
  SeedLo = 1
  SeedHi = 3
  Retrace <- TwoTimings
  None = none
CHECK_DEADLOCK FALSE
INVARIANTS
  TypeOK
  RankedIsWon
PROPERTIES
  PokesAreClean
  PictureSteady
  PlanesRight
