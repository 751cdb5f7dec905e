SPECIFICATION Spec
CONSTANTS
  Prompts <- ThePrompts
  Steers <- TheSteers
  Closers <- TheClosers
  Loaders <- TheLoaders
  None = None
INVARIANTS RunsExclude CloseCancels ClosedIsReleased
CHECK_DEADLOCK FALSE
