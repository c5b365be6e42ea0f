\* Two tasks that both call table() and refresh().
CONSTANTS
  None = None
  t1 = t1
  t2 = t2
  Index = {"logs", ".kibana"}
  System = {".kibana"}
  TableCallers = {t1, t2}
  Refreshers = {t1, t2}
  MaxEpoch = 2
  Lossy = TRUE
SPECIFICATION FairSpec
INVARIANTS TypeOK ListingIsCurrent DeletedIsForgottenUnlessOvertaken IInv
PROPERTIES CachedOnce EveryCallReturns
