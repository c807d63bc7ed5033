\* Two graphs, two goroutines to a call, every request of the walk may fail; the three
\* analyzers of createAnalyzer, in and outside paranoid mode; the command lines and the
\* requests to registries of the modules extended; two analyses at once, two background
\* goroutines, a refresh command and a restart over two editions of the feed.
SPECIFICATION StepsSpec
CONSTANTS
  Packages = {root, a, b, c}
  root = root
  a = a
  b = b
  c = c
  Root = root
  Graphs <- MCGraphs
  MaxDepth = 3
  MaxConcurrency = 2
  Scopes <- MCScopes
  Versions <- MCVersions
  BuildTags <- MCBuildTags
  NoVersion = ""
  RegistryRequests <- MCRequests
  Registries <- MCRegistries
  Analysed <- MCAnalysed
  Packuments <- MCPackuments
  SimplePages <- MCSimplePages
  Pins = {"", "v1", "v2"}
  Feed = {"v2"}
  CooldownDays = 2
  Today = 5
  Numbers <- MCNumbers
  Bare <- MCBare
  CommandLines <- MCCommandLines
  Releases <- MCReleases
  Requires <- MCRequires
  Settings <- MCSettings
  Analyzers = {"malysis", "aikido", "policy"}
  Capacity = 3
  Callers = {c1, c2}
  Refreshers = {g1, g2}
  Command = cmd
  Editions = 2
  Restarts = 1
INVARIANTS
  VerdictIsRight
  ResolutionIsSound
  PackageIsNamed
  CooldownIsKept
  CommandIsUnderstood
  DownloadsAreWatched
  LoadsAreSound
  FetchNeverRegresses
PROPERTIES
  AllWorkEnds
CHECK_DEADLOCK FALSE
