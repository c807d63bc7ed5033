\* The command and one descendant, whose process id is used twice.
SPECIFICATION SandboxedSpec
CONSTANTS
  Child = child
  Descendants = {d1}
  Nobody = Nobody
  Configs <- MCConfigs
  MaxCalls = 2
  MaxForks = 2
  MaxKills = 1
  Home <- MCHome
  Cwd <- MCCwd
  Tmp <- MCTmp
  Wild <- MCWild
  DangerousFiles <- MCDangerousFiles
  GlobDepth = 3
  ScanDepth = 2
  Threshold = 3
  SystemPaths <- MCSystemPaths
  ExecDirs <- MCExecDirs
  Devices <- MCDevices
  Terminals <- MCTerminals
  TmpParents = {}
  Builtins <- MCBuiltins
  UserFiles <- MCUserFiles
  Wanted <- MCWanted
  RawOverrides <- MCRawOverrides
  Disks <- MCDisks
  Drivers <- MCDrivers
  Managers <- MCManagers
  NoProfile <- MCNoProfile
INVARIANTS
  PolicyIsKept
  PolicyHolds
  LintIsTrue
  ConfinementHolds
  NothingLeftBehind
PROPERTIES
  NothingWaitsForever
