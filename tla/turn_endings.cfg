SPECIFICATION FairSpec
CONSTANTS
  Requests = {}
  Batches = {}
  Known = {}
  Final = {}
  Malformed = {}
  Tools <- TheTools
  ToolOf <- NoTool
  Screen <- NoScreen
  Flagged = {}
  GivenAnswers = {}
  Mode = "auto"
  FinalOutput = FALSE
  Compaction = FALSE
  CompactionSheds = TRUE
  HooksDeny = TRUE
  CanCancel = FALSE
  MaxTurns = 3
  MaxRetries = 1
  BlockCap = 1
  MaxContextErrorCompactions = 2
  MaxMessages = 24
  MaxPrompts = 1
  MaxSteers = 2
  MaxErrors = 1
  MaxCrashes = 1
  PromptNotes = {"none", "goal", "grind"}
INVARIANTS TurnBudget RetriesBounded DenialsBounded SteersKept
PROPERTIES RunEnds
CHECK_DEADLOCK FALSE
