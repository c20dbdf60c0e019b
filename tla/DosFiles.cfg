SPECIFICATION Spec
CONSTANTS
  Files = {"TABLE1.HI", "INTRO.MOD"}
  StateFiles = {"TABLE1.HI"}
  LastHandle = 6
  MaxWrites = 2
  MaxPos = 1
INVARIANTS
  InstallNeverRewritten
  ReadsBackWritten
  ShadowHides
PROPERTIES
  HandlesComeBack
