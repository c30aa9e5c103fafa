SPECIFICATION FairSpec
CONSTANTS
  N = 2
  Msgs = {1}
  Cmds = {"c"}
PROPERTIES WaitEnds NextTurnStarts
CHECK_DEADLOCK FALSE
