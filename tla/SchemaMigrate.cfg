SPECIFICATION Spec
CONSTANTS
  Processes = {p1, p2}
  RowIds = {1, 2}
  p1 = p1
  p2 = p2
INVARIANT TypeOK
INVARIANT OpenIsUsable
INVARIANT VerdictsKept
PROPERTY NewerUntouched
