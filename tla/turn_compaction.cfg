SPECIFICATION RequestFairSpec
CONSTANTS
  Requests <- CompactRequests
  Batches <- CompactBatches
  Known <- CompactRequests
  Final = {}
  Malformed = {}
  Tools <- TheTools
  ToolOf <- CompactTool
  Screen <- CompactScreen
  Flagged = {}
  GivenAnswers = {"allow"}
  Mode = "approve"
  FinalOutput = FALSE
  Compaction = TRUE
  CompactionSheds = TRUE
  HooksDeny = FALSE
  CanCancel = FALSE
  MaxTurns = 3
  MaxRetries = 0
  BlockCap = 0
  MaxContextErrorCompactions = 1
  MaxMessages = 40
  MaxPrompts = 1
  MaxSteers = 1
  MaxErrors = 2
  MaxCrashes = 0
  PromptNotes = {"none"}
INVARIANTS ReactiveCompactionsBounded TurnBudget SteersKept
PROPERTIES ExecutionIsPermitted RequestIsAccepted RequestsExtend RunEnds
CHECK_DEADLOCK FALSE
