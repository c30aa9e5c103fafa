SPECIFICATION Spec
CONSTANTS
  Ops = {"edit", "note", "read", "fetch"}
  ReadOnly = {"read", "fetch"}
  Parallel = {"read"}
  Timed = {"edit", "read", "fetch"}
  Actions = {"file_edit", "web_fetch"}
  Gates <- OneGate
  Workers = 2
  MaxCalls = 3
  Width = 3
INVARIANTS NotStartedDidNothing CallsAnswered NothingAfterUnknown
PROPERTY NoRepeatOfUnknown
