CONSTANTS
  agentA = agentA
  agentB = agentB
  fanX = fanX
  fanY = fanY
  keyA = keyA
  keyB = keyB
  m1 = m1
  m2 = m2
  Zero = Zero
  Pool = Pool
  Addr = {agentA, agentB, fanX, fanY, keyA}
  Fans = {fanX}
  MatchIds = {m1, m2}
  BookInputs <- TwoBooks
  Amounts = {501}
  Resolvers = {keyA}
  Treasuries = {keyA}
  ScheduleInputs = {}
  Blockable = {}
  Endowment = 2000
  InitialSchedule <- DefaultSchedule
  refundGrace = 1
  claimWindow = 1
  MAX_BETTING_WINDOW = 2
  MAX_PLATFORM_FEE_BPS = 1000
  MAX_FLAT_FEE = 100
  CREATOR_BPS = 200
  WINNER_CREATOR_PCT = 75
  BPS_DENOM = 10000
  MaxTime = 3
  MaxSchedules = 1
SPECIFICATION FairSpec
INVARIANTS
  Solvent
  MoneyAccounted
PROPERTIES
  EveryBookSettles
CHECK_DEADLOCK FALSE
