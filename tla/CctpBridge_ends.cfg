CONSTANTS
  t1 = t1
  t2 = t2
  None = None
  Transfers = {t1, t2}
  Workers = {w1, w2}
  MayDie = {w2}
  Scenes <- EachFault
  MaxTries = 3
SPECIFICATION FairSpec
INVARIANTS
  TypeOK
  BurnedOnceUnlessStalled
PROPERTIES
  NoBurnForgotten
  KeepsPromise
  TransferEnds
CHECK_DEADLOCK FALSE
