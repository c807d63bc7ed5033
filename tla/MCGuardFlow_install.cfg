\* One target with three dependencies, two workers, two analyzers.
SPECIFICATION FairSpec
CONSTANTS
  Packages = {app, shady, evil, own}
  app = app
  shady = shady
  evil = evil
  own = own
  Trusted = {own}
  Targets <- MCTargets
  Dependencies <- MCDependencies
  Analyzers = 2
  Answers <- MCAnswers
  Workers = {w1, w2}
INVARIANTS
  OnlyClearedRuns
  ReportMatchesAudit
PROPERTIES
  FlowEnds
CHECK_DEADLOCK FALSE
