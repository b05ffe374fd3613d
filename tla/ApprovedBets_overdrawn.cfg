CONSTANTS
  w1 = w1
  w2 = w2
  b1 = b1
  b2 = b2
  b3 = b3
  b4 = b4
  None = None
  Workers = {w1}
  MayCrash = {}
  Bets = {b1}
  Side <- MixedSides
  Amount <- MixedAmounts
  Rails = {"demo"}
  Chips = 1000
  Cash = 600
  DailyCap = 900
  MaxSent = 1
  Seed = 100
  DrawSeed = 50
  PotCap = 1033
  DrawCap = 500
  FlatFee = 100
  FlatMax = 1000
  FeeBps = 700
  CreatorBps = 200
SPECIFICATION Spec
INVARIANTS
  NeverOverdrawn
CHECK_DEADLOCK FALSE
