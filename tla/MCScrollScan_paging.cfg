\* One stream, no faults: page, limit and cursor arithmetic.
CONSTANTS
  None = None
  Doc = {1, 2, 3, 4}
  HashCode <- MCHashCode
  Sparse = {}
  Queries <- PagingQueries
  Limits = {0, 1, 3}
  InitialIndexes <- WholeOrMissing
  MaxPartitions = 1
  Window = 2
  MaxWrites = 0
  Faults = {}
SPECIFICATION Spec
INVARIANTS PrefixDelivered CompleteWhenEnded LimitNeverExceeded CursorReleased BoundedPages ScanSucceeds
