SPECIFICATION Spec
CONSTANTS
  N = 2
  Msgs = {1, 2}
  Cmds = {"c", "d"}
INVARIANTS
  LeavesNothing ToldAndSteeredOnce
CHECK_DEADLOCK FALSE
