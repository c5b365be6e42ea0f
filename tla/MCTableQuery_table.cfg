\* From CREATE EXTERNAL TABLE to the row of a query.
CONSTANTS
  None = None
  Width <- Widths
  Char <- Chars
  Scenario <- Scenarios
  Literal <- Literals
  LikeArgs <- Patterns
  Source <- Sources
SPECIFICATION Spec
INVARIANTS TypeOK RequestsAsTold OptionsInForce LikeMeansPattern PrefixWhenSole
  ReadAsIndexed NoOtherNumber PushedAsFiltered
\* A query ends.
CHECK_DEADLOCK FALSE
