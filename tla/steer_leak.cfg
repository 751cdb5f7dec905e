SPECIFICATION Spec
CONSTANTS
  Prompts <- ThePrompts
  Steers <- TheSteers
  Closers = {}
  Loaders = {}
  None = None
INVARIANTS SteersStayWithTheirRun
CHECK_DEADLOCK FALSE
