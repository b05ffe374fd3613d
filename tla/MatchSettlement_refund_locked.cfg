CONSTANTS
  p1 = p1
  p2 = p2
  p3 = p3
  None = None
  Procs = {p1, p2}
  MayCrash = {}
  MayStall = {p1}
  Roaming = {"white", "black"}
  Results = {"white", "draw"}
  MaxTries = 1
  Funds = 1100
  Stake = 1000
  Fee = 140
  CreatorCut = 86
  LpShare = 77
  Seed = 100
  Bet = 100
  FanShare <- FanOnWhite
SPECIFICATION Spec
INVARIANTS
  RefundedNeverLocked
CHECK_DEADLOCK FALSE
