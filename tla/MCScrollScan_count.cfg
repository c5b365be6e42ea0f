\* SELECT count(*): a scan that projects no column.
CONSTANTS
  None = None
  Doc = {1, 2, 3}
  HashCode <- MCHashCode
  Sparse = {}
  Queries <- CountQueries
  Limits = {}
  InitialIndexes <- Whole
  MaxPartitions = 1
  Window = 2
  MaxWrites = 0
  Faults = {}
SPECIFICATION Spec
INVARIANTS ScanSucceeds
