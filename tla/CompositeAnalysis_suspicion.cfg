\* Without the Aikido feed: the policy file alone is quick enough to hide a Confirm.
SPECIFICATION AnalysisSpec
CONSTANTS
  Analyzers = {"malysis", "policy"}
  Capacity = 2
INVARIANT SuspicionIsPrompted
CHECK_DEADLOCK FALSE
