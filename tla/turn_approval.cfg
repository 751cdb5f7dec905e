SPECIFICATION Spec
CONSTANTS
  Requests <- ApprovalRequests
  Batches <- ApprovalBatches
  Known <- ApprovalRequests
  Final = {}
  Malformed = {}
  Tools <- TheTools
  ToolOf <- ApprovalTool
  Screen <- ApprovalScreen
  Flagged = {}
  GivenAnswers = {"allow", "deny", "alwaysAllow"}
  Mode = "approve"
  FinalOutput = FALSE
  Compaction = FALSE
  CompactionSheds = TRUE
  HooksDeny = FALSE
  CanCancel = TRUE
  MaxTurns = 3
  MaxRetries = 0
  BlockCap = 0
  MaxContextErrorCompactions = 2
  MaxMessages = 12
  MaxPrompts = 1
  MaxSteers = 0
  MaxErrors = 0
  MaxCrashes = 1
  PromptNotes = {"none"}
INVARIANTS TypeOK ExecutedOnce AnsweredOnce
PROPERTIES ExecutionIsPermitted NothingLeftBehind CancelledRunCloses
CHECK_DEADLOCK FALSE
