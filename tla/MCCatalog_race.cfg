\* A table() in flight across a refresh() brings a deleted index back.
CONSTANTS
  None = None
  t1 = t1
  t2 = t2
  Index = {"logs", ".kibana"}
  System = {".kibana"}
  TableCallers = {t1}
  Refreshers = {t2}
  MaxEpoch = 3
  Lossy = FALSE
SPECIFICATION Spec
INVARIANTS DeletedIsForgotten
