SPECIFICATION Spec
CONSTANTS
  N = 2
  Conv <- OwnConv
  Lane <- ChatLanes
  LaneSlots <- OneSlot
  Concurrency = 2
  MaxAttempts = 2
  Agents = {1, 2}
  AutoResume = {2}
  MaxAsks = 2
  MaxCrashes = 1
  MaxResets = 1
INVARIANTS
  DriversHold NoBlindRerun OpenGateHasRow RetriesBounded PumpNeverOversleeps
PROPERTY
  QuitSettlesNothing
CHECK_DEADLOCK FALSE
