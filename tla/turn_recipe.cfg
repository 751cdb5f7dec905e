SPECIFICATION Spec
CONSTANTS
  Requests <- RecipeRequests
  Batches <- RecipeBatches
  Known <- SingleRequest
  Final = {"f", "g"}
  Malformed = {"m"}
  Tools <- TheTools
  ToolOf <- RecipeTool
  Screen <- RecipeScreen
  Flagged = {}
  GivenAnswers = {"allow", "deny"}
  Mode = "approve"
  FinalOutput = TRUE
  Compaction = FALSE
  CompactionSheds = TRUE
  HooksDeny = FALSE
  CanCancel = TRUE
  MaxTurns = 3
  MaxRetries = 0
  BlockCap = 0
  MaxContextErrorCompactions = 2
  MaxMessages = 9
  MaxPrompts = 1
  MaxSteers = 0
  MaxErrors = 0
  MaxCrashes = 0
  PromptNotes = {"none"}
PROPERTIES ExecutionIsPermitted NothingLeftBehind RecipeEndsWithOutput
CHECK_DEADLOCK FALSE
