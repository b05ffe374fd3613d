CONSTANTS
  w1 = w1
  w2 = w2
  b1 = b1
  b2 = b2
  b3 = b3
  b4 = b4
  None = None
  Workers = {w1, w2}
  MayCrash = {w1, w2}
  Bets = {b1, b2, b3, b4}
  Side <- MixedSides
  Amount <- MixedAmounts
  Rails = {"demo", "pool"}
  Chips = 1300
  Cash = 450
  DailyCap = 900
  MaxSent = 2
  Seed = 100
  DrawSeed = 50
  PotCap = 1033
  DrawCap = 500
  FlatFee = 100
  FlatMax = 1000
  FeeBps = 700
  CreatorBps = 200
SPECIFICATION Spec
SYMMETRY AnyWorker
CONSTRAINT OneContest
INVARIANTS
  AddsUp
  
  BookBalances
CHECK_DEADLOCK FALSE
