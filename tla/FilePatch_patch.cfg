SPECIFICATION Spec
CONSTANTS N = 3
          Edits = {e1, e2}
          MaxFaults = 2
INVARIANTS AllOrNothing EditsKept AnswerHolds
CHECK_DEADLOCK FALSE
