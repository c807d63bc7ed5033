\* Three concurrent downloads of any of three packages; the breaker trips at once.
\* Temporal properties, so no symmetry; nothing is assumed of the user.
SPECIFICATION FairSpec
CONSTANTS
  Requests = {r1, r2, r3}
  Packages = {evil, shady, own}
  shady = shady
  evil = evil
  own = own
  Nobody = Nobody
  Trusted = {own}
  Insecure = FALSE
  Answers <- MCAnswers
  ChanCap = 1
  FailureLimit = 1
INVARIANTS
  ConsentRequired
  CacheIsGenuine
  StatsMatchDecisions
  BreakerShieldsAnalyzer
PROPERTIES
  ImplementsGate
  EverybodyIsAnswered
CHECK_DEADLOCK FALSE
