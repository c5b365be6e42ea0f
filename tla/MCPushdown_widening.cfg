\* The WHERE a <> v returns the rows that have no a.
CONSTANTS
  None = None
  a = a
  b = b
  Field = {a, b}
  Value = {0, 1}
  Operand <- Operands
  List <- Lists
  BaseFilter <- BaseFilters
  MaxSize = 1
  MaxFilters = 1
SPECIFICATION Spec
INVARIANTS NeverWidened
\* A query ends.
CHECK_DEADLOCK FALSE
