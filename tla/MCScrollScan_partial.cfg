\* A search some of whose shards failed.
CONSTANTS
  None = None
  Doc = {1, 2, 3}
  HashCode <- MCHashCode
  Sparse = {}
  Queries <- PartialQueries
  Limits = {}
  InitialIndexes <- Whole
  MaxPartitions = 1
  Window = 2
  MaxWrites = 0
  Faults = {"partial"}
SPECIFICATION Spec
INVARIANTS NothingMissed
