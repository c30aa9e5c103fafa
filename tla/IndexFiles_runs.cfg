SPECIFICATION FilesSpec
CONSTANTS
  Paths = {a, b}
  Texts = {x, y}
  BatchSize = 2
  MaxEdits = 2
  Absent = Absent
  NoRow = NoRow
  Nothing = Nothing
INVARIANTS FilesTypeOK IndexExact NothingSkipped
