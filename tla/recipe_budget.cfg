SPECIFICATION Spec
CONSTANTS
  Requests = {}
  Batches = {}
  Known = {}
  Final = {}
  Malformed = {}
  Tools <- TheTools
  ToolOf <- NoTool
  Screen <- NoScreen
  Flagged = {}
  GivenAnswers = {}
  Mode = "auto"
  FinalOutput = TRUE
  Compaction = FALSE
  CompactionSheds = TRUE
  HooksDeny = FALSE
  CanCancel = FALSE
  MaxTurns = 2
  MaxRetries = 0
  BlockCap = 1
  MaxContextErrorCompactions = 2
  MaxMessages = 24
  MaxPrompts = 1
  MaxSteers = 0
  MaxErrors = 0
  MaxCrashes = 0
  PromptNotes = {"none"}
INVARIANTS TurnBudget
CHECK_DEADLOCK FALSE
