\* Every short WHERE over documents with and without their fields.
CONSTANTS
  None = None
  a = a
  b = b
  Field = {a, b}
  Value = {0, 1}
  Operand <- Operands
  List <- Lists
  BaseFilter <- BaseFilters
  MaxSize = 3
  MaxFilters = 2
SPECIFICATION Spec
INVARIANTS TypeOK NoRowLost WidenedOnlyByNull BaseFilterHolds ExactWithoutNegation Translation
\* A query ends.
CHECK_DEADLOCK FALSE
