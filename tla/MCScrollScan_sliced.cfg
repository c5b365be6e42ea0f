\* Two sliced streams over an index that changes twice while they open.
CONSTANTS
  None = None
  Doc = {1, 2, 3, 4}
  HashCode <- MCHashCode
  Sparse = {}
  Queries <- SlicedQueries
  Limits = {3}
  InitialIndexes <- MostOrMissing
  MaxPartitions = 2
  Window = 2
  MaxWrites = 2
  Faults = {}
SPECIFICATION Spec
INVARIANTS NoRowTwice NothingMissed LimitNeverExceeded
