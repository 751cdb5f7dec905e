SPECIFICATION Spec
CONSTANTS
  Runs = {x1, x2}
  Kills <- TheKills
  Edits <- TheEdits
  MaxCrashes = 1
  Startup = Startup
  Broken = Broken
  None = None
INVARIANTS RunningIsReal RunsAreReachable TaskFollowsTable FileFollowsTable
CHECK_DEADLOCK FALSE
SYMMETRY RunSymmetry
