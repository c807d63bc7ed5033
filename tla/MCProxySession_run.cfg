\* One run of the package manager, no symmetry because of SessionEnds.
SPECIFICATION FairSession
CONSTANTS
  Requests = {r1, r2}
  Packages = {shady, evil, own}
  shady = shady
  evil = evil
  own = own
  Nobody = Nobody
  Trusted = {own}
  Insecure = FALSE
  Answers <- MCAnswers
  ChanCap = 1
  FailureLimit = 1
  Codes = {0, 7}
INVARIANTS
  SessionClosesCleanly
  OutcomeIsHonest
  ReportTellsAll
PROPERTIES
  SessionEnds
CHECK_DEADLOCK FALSE
