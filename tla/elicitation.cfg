SPECIFICATION FairSpec
CONSTANTS
  Requests <- TheRequests
  Answers <- TheAnswers
  Foreign <- TheForeign
  Dispatches <- TheDispatches
  Capacity = 1
  None = None
INVARIANTS RecordedIsAccepted NothingLeftPending NoStaleStream
PROPERTIES EveryQuestionEnds KeepsThePromise
CHECK_DEADLOCK FALSE
