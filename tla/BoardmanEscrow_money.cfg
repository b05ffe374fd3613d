CONSTANTS
  alice = alice
  bob = bob
  keyA = keyA
  keyB = keyB
  safe = safe
  m1 = m1
  m2 = m2
  Zero = Zero
  Escrow = Escrow
  Addr = {alice, bob, keyA, keyB, safe}
  MatchIds = {m1, m2}
  Permits <- AllPermits
  Resolvers = {keyA, keyB}
  Treasuries = {keyA, safe}
  TierInputs <- NewTiers
  CapInputs = {199, 500, 1000001}
  Blockable = {bob}
  InitialTiers <- DefaultTiers
  Endowment = 1201
  openTimeout = 2
  lockTimeout = 1
  MIN_STAKE = 200
  MAX_STAKE = 1000000
  MAX_FEE_BPS = 1000
  BPS_DENOM = 10000
  MaxTime = 3
SPECIFICATION FairSpec
INVARIANTS
  TypeOK
  FeeWithinQuarter
  Solvent
  WayOut
  MoneyAccounted
PROPERTIES
  TermsFixed
  KeepsPromise
  EveryMatchSettles
CHECK_DEADLOCK FALSE
