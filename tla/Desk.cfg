SPECIFICATION Spec
CONSTANTS
  None = none
  Installs = {i1, i2}
  Elsewhere = i0
  Release <- OneRelease
  Names = {1, 2, 3}
  Kept <- OneRanked
  MaxLaunches = 2
  Accounts = {a1, a2}
  Files = {r1}
  MaxLogins = 2
  MaxWindows = 2
  MaxJobs = 2
  MaxLosses = 1
  Tokens = {t0, t1}
  MaxDeaths = 1
CHECK_DEADLOCK FALSE
INVARIANTS
  TypeOK
PROPERTIES
  LaunchesAsShown
  LoginKept
