SPECIFICATION FairSpec
CONSTANTS
  Prompts <- ThePrompts
  Steers = {}
  Closers <- TheClosers
  Loaders <- TheLoaders
  None = None
PROPERTIES CancelledRunGivesWay
CHECK_DEADLOCK FALSE
