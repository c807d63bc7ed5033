\* One run of pmg at a time, two children and the user's own sync, one more event than
\* the WAL holds, one fault.
SPECIFICATION FairSpec
CONSTANTS
  Runs = {r1}
  Children = {c1, c2}
  Manual = sync
  Nobody = Nobody
  Events = {e1, e2}
  Capacity = 1
  MaxFaults = 1
INVARIANTS
  CopiesAreAccounted
  AttemptsAreSpaced
PROPERTIES
  SyncMakesProgress
CHECK_DEADLOCK FALSE
