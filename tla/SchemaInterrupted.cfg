SPECIFICATION Spec
CONSTANTS
  Processes = {p1}
  RowIds = {1, 2}
  p1 = p1
INVARIANT ToldApart
