\* unsigned_long values beyond i64, read into the inferred Int64 column.
CONSTANTS
  None = None
  Width <- Widths
  Char <- Chars
  Scenario <- LargeNumbers
  Literal <- Literals
  LikeArgs <- Patterns
  Source <- Sources
SPECIFICATION Spec
INVARIANTS OutOfRangeIsNull
\* A query ends.
CHECK_DEADLOCK FALSE
