SPECIFICATION Spec
CONSTANTS
  CommandLines <- FlagSets
  MaxRuns = 2
  None = none
  LastStamp = 2
  MaxEvents = 2
  HashedLines = 5
  MaxLines = 3
  Volumes = {5, 70}
  Vol0 = 70
  Notches = {0, 1}
  Opts = {o0, o1}
  Opt0 = o0
  MaxLaunches = 2
  MaxCrashes = 1
  Programs <- ThreePrograms
  Releases <- ThreeReleases
  Table <- Shipped
  Boot <- StartedBy
  Needed <- MusicNeeded
  Odd = "odd"
  Kept <- UserMade
  Discs <- ThreeDiscs
  Listing <- AsListed
  GogImage = "gog"
  Part = "part"
  MaxDeaths = 2
  Recordings = {r1, r2, r3}
  Present <- TwoOfThem
  MaxGames = 1
  MaxLists = 1
CHECK_DEADLOCK FALSE
INVARIANTS
  TypeOK
  WholeSessions
PROPERTIES
  SettingsKept
  InstallsWhole
  EndsAsItSays
  ListIsCurrent
