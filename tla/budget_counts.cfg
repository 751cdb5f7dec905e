SPECIFICATION Spec
CONSTANTS
  Requests = {}
  Batches = {}
  Known = {}
  Final = {}
  Malformed = {}
  Tools <- TheTools
  ToolOf <- NoTool
  Screen <- NoScreen
  Flagged = {}
  GivenAnswers = {}
  Mode = "auto"
  FinalOutput = FALSE
  Compaction = FALSE
  CompactionSheds = TRUE
  HooksDeny = TRUE
  CanCancel = FALSE
  MaxTurns = 2
  MaxRetries = 0
  BlockCap = 1
  MaxContextErrorCompactions = 2
  MaxMessages = 24
  MaxPrompts = 1
  MaxSteers = 0
  MaxErrors = 0
  MaxCrashes = 0
  PromptNotes = {"none", "goal", "grind"}
PROPERTIES BudgetCountsInferences
CHECK_DEADLOCK FALSE
