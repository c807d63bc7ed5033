SPECIFICATION FairSpec
CONSTANTS
  MaxPrompts = 2
  LinesPerPrompt = 1
  MaxKeys = 2
  MaxOutput = 2
PROPERTIES
  PromptIsPrivate
  OutputIsShown
  RunReturns
CHECK_DEADLOCK FALSE
