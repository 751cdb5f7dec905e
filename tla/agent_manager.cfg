SPECIFICATION FairSpec
CONSTANTS
  Sessions <- TheSessions
  Callers <- TheCallers
  Messages <- TheMessages
  Removers <- TheRemovers
  SessionOf <- TheSessionOf
  Capacity = 1
  None = None
INVARIANTS OneBuilder LocksFollowSessions OneReply
PROPERTIES InterruptFrees CallsReturn
CHECK_DEADLOCK FALSE
