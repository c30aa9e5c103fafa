SPECIFICATION FairSpec
CONSTANTS
  N = 3
  Conv <- SharedConv
  Lane <- ChatLanes
  LaneSlots <- OneSlot
  Concurrency = 3
  MaxAttempts = 2
  Agents = {1}
  AutoResume = {}
  MaxAsks = 1
  MaxCrashes = 0
  MaxResets = 0
INVARIANTS OneTaskPerConversation
PROPERTIES LaneIsolation AbortSettles
CHECK_DEADLOCK FALSE
