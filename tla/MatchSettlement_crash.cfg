CONSTANTS
  p1 = p1
  p2 = p2
  p3 = p3
  None = None
  Procs = {p1, p2, p3}
  MayCrash = {p1, p2}
  MayStall = {}
  Roaming = {}
  Results = {"white", "draw"}
  MaxTries = 1
  Funds = 1100
  Stake = 1000
  Fee = 140
  CreatorCut = 86
  LpShare = 77
  Seed = 100
  Bet = 100
  FanShare <- FanOnWhite
SPECIFICATION FairSpec
INVARIANTS
  Consistent
  MoneyConserved
PROPERTIES
  ForwardOnly
  StakesComeHome
CHECK_DEADLOCK FALSE
