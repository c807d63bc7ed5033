SPECIFICATION FairSpec
CONSTANTS
  MaxPrompts = 2
  LinesPerPrompt = 2
  MaxKeys = 2
  MaxOutput = 2
PROPERTIES
  LoopStopsOnCancel
CHECK_DEADLOCK FALSE
