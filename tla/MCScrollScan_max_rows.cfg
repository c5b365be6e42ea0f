\* max_rows under a larger LIMIT.
CONSTANTS
  None = None
  Doc = {1, 2, 3}
  HashCode <- MCHashCode
  Sparse = {}
  Queries <- MaxRowsQueries
  Limits = {}
  InitialIndexes <- Whole
  MaxPartitions = 1
  Window = 2
  MaxWrites = 0
  Faults = {}
SPECIFICATION Spec
INVARIANTS MaxRowsOnlyWithoutLimit
