SPECIFICATION SessionSpec
CONSTANTS
  Requests = {r1}
  Packages = {shady, evil}
  shady = shady
  evil = evil
  own = own
  Nobody = Nobody
  Trusted = {}
  Insecure = FALSE
  Answers <- MCAnswers
  ChanCap = 1
  FailureLimit = 1
  Codes = {0, 7}
INVARIANT
  ExitCodeIsPropagated
CHECK_DEADLOCK FALSE
