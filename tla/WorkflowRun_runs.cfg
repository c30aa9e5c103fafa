SPECIFICATION FairSpec
CONSTANTS
  Runs = {r1}
  N = 3
  Validated = {2}
  Surfaced = {1, 3}
  Budget = 2
  MaxContinued = 1
  MaxSurfaces = 1
  Feedback = {f}
  NoFeedback = NoFeedback
INVARIANTS InOrder CorrectionsHold FeedbackHolds
PROPERTIES CompletedStays ExecutionEnds
