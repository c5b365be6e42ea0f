\* Two streams, lost messages, expiring cursors, failed shards, a deleted index,
\* cancellation and batches that cannot be built.
CONSTANTS
  None = None
  Doc = {1, 2, 3}
  HashCode <- MCHashCode
  Sparse = {2}
  Queries <- FaultQueries
  Limits = {}
  InitialIndexes <- Whole
  MaxPartitions = 2
  Window = 2
  MaxWrites = 1
  Faults = {"lose", "expire", "cancel", "partial", "drop_index"}
SPECIFICATION FairSpec
INVARIANTS TypeOK PrefixDelivered CompleteWhenEnded CursorHeld IInv
PROPERTIES ImplementsContract EveryStreamEnds
