SPECIFICATION Spec
CONSTANTS
  Process = {p1, p2}
  Nobody = Nobody
  Name = {a, b}
  Body = {x, y}
  Statements = 2
  MaxRows = 2
SYMMETRY Symmetry
INVARIANTS
  OpenedIsComplete
  OpeningKeeps
  OneAnswerPerName
PROPERTIES
  NothingSlipsIn
