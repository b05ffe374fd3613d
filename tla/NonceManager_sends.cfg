CONSTANTS
  t1 = t1
  t2 = t2
  None = None
  Threads = {t1, t2}
  ProcessOf <- TwoProcesses
  Lagging = TRUE
  Forgetful = FALSE
  MaxTx = 3
SPECIFICATION FairSpec
INVARIANTS
  TypeOK
  LiveNoncesDiffer
  NothingDisplaced
  EveryTxOnRecord
PROPERTIES
  SpentNonceNotReused
  PendingSettles
CHECK_DEADLOCK FALSE
