SPECIFICATION Spec
CONSTANTS
  Ops = {"check", "note"}
  ReadOnly = {}
  Parallel = {}
  Timed = {"check"}
  Actions = {"electron_run","electron_interact"}
  Gates <- OneGate
  Workers = 2
  MaxCalls = 3
  Width = 3
INVARIANT NotStartedDidNothing
