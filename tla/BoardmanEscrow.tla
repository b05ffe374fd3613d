--------------------------- MODULE BoardmanEscrow ---------------------------
(***************************************************************************)
(* The on-chain escrow of a two-player USDC match (BoardmanEscrow.sol).    *)
(*                                                                         *)
(* Every external function is one action: the EVM runs a transaction to    *)
(* its end before the next one starts, every function that moves tokens is *)
(* nonReentrant, and a revert is an action whose guard is false.  The      *)
(* order of transactions, the clock between them, the token's blacklist    *)
(* and the owner's knobs are nondeterministic.                             *)
(***************************************************************************)
EXTENDS Naturals, FiniteSets, Functions

CONSTANTS
  Addr,            \* the accounts that call the contract or are paid by it
  Escrow,          \* the contract's own account in the token's books
  Zero,            \* address(0)
  MatchIds,        \* bytes32 match ids
  Permits,         \* the create permits a resolver key ever signs
  Resolvers,       \* the resolver keys the owner rotates through
  Treasuries,      \* the fee recipients the owner rotates through
  TierInputs,      \* the arguments tried with setFeeTiers
  CapInputs,       \* the arguments tried with setMaxStake
  Blockable,       \* the accounts the token issuer may blacklist
  InitialTiers,    \* the constructor's fee schedule
  Endowment,       \* USDC each account holds at the start
  openTimeout, lockTimeout,
  MIN_STAKE, MAX_STAKE, MAX_FEE_BPS, BPS_DENOM,
  MaxTime          \* the bound on the clock

FeeTiers == [flat: Nat, bps: Nat, premium: Nat, flatMax: Nat, bpsMax: Nat]

Permit == [signer: Addr, matchId: MatchIds, player1: Addr, player2: Addr \cup {Zero},
           stake: Nat, deadline: Nat]

MAX_FLAT_FEE_PER_PLAYER == MIN_STAKE \div 4

\* Mutant of ValidTiers: the flat fee has no cap of its own.
UncappedFlatFee(t) ==
  /\ t.bps <= t.premium /\ t.premium <= MAX_FEE_BPS
  /\ MIN_STAKE <= t.flatMax /\ t.flatMax <= t.bpsMax

\* setFeeTiers accepts exactly these schedules.
ValidTiers(t) ==
  /\ t.bps <= t.premium
  /\ t.premium <= MAX_FEE_BPS
  /\ t.flat <= MAX_FLAT_FEE_PER_PLAYER
  /\ MIN_STAKE <= t.flatMax
  /\ t.flatMax <= t.bpsMax

ASSUME AccountsAssumption ==
  /\ IsFiniteSet(Addr) /\ IsFiniteSet(MatchIds)
  /\ Escrow \notin Addr /\ Zero \notin Addr /\ Escrow # Zero
  /\ Resolvers \subseteq Addr /\ Resolvers # {}
  /\ Treasuries \subseteq Addr /\ Treasuries # {}
  /\ Blockable \subseteq Addr \cup {Escrow}

ASSUME InputsAssumption ==
  /\ Permits \subseteq Permit
  /\ TierInputs \subseteq FeeTiers
  /\ CapInputs \subseteq Nat

ASSUME ParametersAssumption ==
  /\ openTimeout \in Nat \ {0} /\ lockTimeout \in Nat \ {0} /\ MaxTime \in Nat
  /\ Endowment \in Nat
  /\ MIN_STAKE \in Nat \ {0} /\ MAX_STAKE \in Nat /\ MIN_STAKE <= MAX_STAKE
  /\ BPS_DENOM \in Nat \ {0} /\ MAX_FEE_BPS \in Nat /\ 4 * MAX_FEE_BPS <= BPS_DENOM
  /\ InitialTiers \in FeeTiers /\ ValidTiers(InitialTiers)

VARIABLES
  matches,                                   \* _matches
  totalLocked, accruedFees, totalFeesCollected,
  owed, totalOwed,                           \* payouts whose push failed
  tiers, maxStakePerPlayer, feeRecipient, resolver, paused,
  wallet,                                    \* the token's balances, Escrow's included
  blocked,                                   \* the token's blacklist
  now                                        \* block.timestamp

admin == <<tiers, maxStakePerPlayer, feeRecipient, resolver, paused>>
fees  == <<accruedFees, totalFeesCollected>>
cash  == <<owed, totalOwed, wallet>>
vars  == <<matches, totalLocked, fees, cash, admin, blocked, now>>

-----------------------------------------------------------------------------
(* Data *)

MatchStatus == {"OPEN", "LOCKED", "DISPUTED", "RESOLVED", "CANCELLED"}

Match == [player1: Addr \cup {Zero}, player2: Addr \cup {Zero}, stakePerPlayer: Nat,
          status: MatchStatus, createdAt: Nat, lockedAt: Nat, platformFee: Nat]

\* An id nobody has used reads as the zero struct, whose status is OPEN.
ZeroMatch == [player1 |-> Zero, player2 |-> Zero, stakePerPlayer |-> 0,
              status |-> "OPEN", createdAt |-> 0, lockedAt |-> 0, platformFee |-> 0]

matchExists(m) == matches[m].player1 # Zero

\* Mutant of BothStaked: a resolved match still counts as staked.
StakedOnceLocked(r) == r.status \notin {"OPEN", "CANCELLED"}

BothStaked(r) == r.status \in {"LOCKED", "DISPUTED"}

\* The stakes the contract holds for the match r.
StakeHeld(r) == IF BothStaked(r) THEN 2 * r.stakePerPlayer
                ELSE IF r.status = "OPEN" THEN r.stakePerPlayer
                ELSE 0

_platformFee(pot) ==
  LET perPlayer == pot \div 2
      fee == IF perPlayer < tiers.flatMax THEN tiers.flat * 2
             ELSE IF perPlayer <= tiers.bpsMax THEN (pot * tiers.bps) \div BPS_DENOM
             ELSE (pot * tiers.premium) \div BPS_DENOM
  IN IF fee > pot THEN pot ELSE fee

\* Mutants of _refundableAt: the lock timeout counted from the creation, and
\* a dispute that stops the clock.
RefundableFromCreation(r) == IF r.status = "OPEN" THEN r.createdAt + openTimeout
                             ELSE IF BothStaked(r) THEN r.createdAt + lockTimeout
                             ELSE 0

NeverWhileDisputed(r) == IF r.status = "OPEN" THEN r.createdAt + openTimeout
                         ELSE IF r.status = "LOCKED" THEN r.lockedAt + lockTimeout
                         ELSE 0

\* 0 stands for "never": no live match has it.
_refundableAt(r) == IF r.status = "OPEN" THEN r.createdAt + openTimeout
                    ELSE IF BothStaked(r) THEN r.lockedAt + lockTimeout
                    ELSE 0

-----------------------------------------------------------------------------
(* The USDC token: a transfer reverts when either side is blacklisted or   *)
(* the sender cannot cover it.                                             *)

CanTransfer(w, from, to, amt) == {from, to} \cap blocked = {} /\ w[from] >= amt

\* Escrow is one of the two sides, so they differ.
Transferred(w, from, to, amt) == [w EXCEPT ![from] = @ - amt, ![to] = @ + amt]

Cash == [wallet |-> wallet, owed |-> owed, totalOwed |-> totalOwed]

\* Mutants of _pay: a second credit overwrites the first one, and a payout
\* whose push failed is forgotten.
CreditOverwrites(c, to, amt) ==
  IF amt = 0 THEN c
  ELSE IF CanTransfer(c.wallet, Escrow, to, amt)
  THEN [c EXCEPT !.wallet = Transferred(c.wallet, Escrow, to, amt)]
  ELSE [c EXCEPT !.owed[to] = amt, !.totalOwed = @ + amt]

PayoutForgotten(c, to, amt) ==
  IF amt = 0 \/ ~ CanTransfer(c.wallet, Escrow, to, amt) THEN c
  ELSE [c EXCEPT !.wallet = Transferred(c.wallet, Escrow, to, amt)]

\* Push the payout; when the push fails credit it for a later withdraw.
_pay(c, to, amt) ==
  IF amt = 0 THEN c
  ELSE IF CanTransfer(c.wallet, Escrow, to, amt)
  THEN [c EXCEPT !.wallet = Transferred(c.wallet, Escrow, to, amt)]
  ELSE [c EXCEPT !.owed[to] = @ + amt, !.totalOwed = @ + amt]

CashBecomes(c) == wallet' = c.wallet /\ owed' = c.owed /\ totalOwed' = c.totalOwed

-----------------------------------------------------------------------------
(* Player actions *)

\* The caller presents permit p.  Any other caller or calldata hashes to a
\* digest from which the resolver's key is not recovered.
createMatch(caller, p) ==
  LET fee == _platformFee(p.stake * 2) IN
  /\ ~paused
  /\ p.stake # 0 /\ p.stake >= MIN_STAKE /\ p.stake <= maxStakePerPlayer
  /\ p.player2 # Zero /\ p.player2 # caller
  /\ now <= p.deadline
  /\ ~matchExists(p.matchId)
  /\ caller = p.player1 /\ p.signer = resolver
  /\ CanTransfer(wallet, caller, Escrow, p.stake)
  /\ matches' = [matches EXCEPT ![p.matchId] =
       [player1 |-> caller, player2 |-> p.player2, stakePerPlayer |-> p.stake,
        status |-> "OPEN", createdAt |-> now, lockedAt |-> 0, platformFee |-> fee]]
  /\ totalLocked' = totalLocked + p.stake
  /\ wallet' = Transferred(wallet, caller, Escrow, p.stake)
  /\ UNCHANGED <<fees, owed, totalOwed, admin, blocked, now>>

joinMatch(caller, m) ==
  LET r == matches[m] IN
  /\ ~paused
  /\ matchExists(m)
  /\ r.status = "OPEN"
  /\ caller = r.player2
  /\ now < r.createdAt + openTimeout
  /\ CanTransfer(wallet, caller, Escrow, r.stakePerPlayer)
  /\ matches' = [matches EXCEPT ![m].status = "LOCKED", ![m].lockedAt = now]
  /\ totalLocked' = totalLocked + r.stakePerPlayer
  /\ wallet' = Transferred(wallet, caller, Escrow, r.stakePerPlayer)
  /\ UNCHANGED <<fees, owed, totalOwed, admin, blocked, now>>

\* Mutant of _cancel: totalLocked gives up one stake, whatever was staked.
CancelCountsOneStake(m) ==
  LET r  == matches[m]
      c1 == _pay(Cash, r.player1, r.stakePerPlayer)
      c2 == IF BothStaked(r) THEN _pay(c1, r.player2, r.stakePerPlayer) ELSE c1
  IN /\ totalLocked >= StakeHeld(r)
     /\ matches' = [matches EXCEPT ![m].status = "CANCELLED"]
     /\ totalLocked' = totalLocked - r.stakePerPlayer
     /\ CashBecomes(c2)
     /\ UNCHANGED <<fees, admin, blocked, now>>

\* Solidity's checked arithmetic reverts when totalLocked would underflow.
_cancel(m) ==
  LET r  == matches[m]
      c1 == _pay(Cash, r.player1, r.stakePerPlayer)
      c2 == IF BothStaked(r) THEN _pay(c1, r.player2, r.stakePerPlayer) ELSE c1
  IN /\ totalLocked >= StakeHeld(r)
     /\ matches' = [matches EXCEPT ![m].status = "CANCELLED"]
     /\ totalLocked' = totalLocked - StakeHeld(r)
     /\ CashBecomes(c2)
     /\ UNCHANGED <<fees, admin, blocked, now>>

\* Anyone may call it, paused or not.
refundExpired(m) ==
  /\ matchExists(m)
  /\ _refundableAt(matches[m]) # 0
  /\ now >= _refundableAt(matches[m])
  /\ _cancel(m)

\* Mutant of withdraw: pausing stops it.
WithdrawUnlessPaused(caller) ==
  /\ ~paused
  /\ owed[caller] # 0
  /\ totalOwed >= owed[caller]
  /\ CanTransfer(wallet, Escrow, caller, owed[caller])
  /\ owed' = [owed EXCEPT ![caller] = 0]
  /\ totalOwed' = totalOwed - owed[caller]
  /\ wallet' = Transferred(wallet, Escrow, caller, owed[caller])
  /\ UNCHANGED <<matches, totalLocked, fees, admin, blocked, now>>

withdraw(caller) ==
  /\ owed[caller] # 0
  /\ totalOwed >= owed[caller]
  /\ CanTransfer(wallet, Escrow, caller, owed[caller])
  /\ owed' = [owed EXCEPT ![caller] = 0]
  /\ totalOwed' = totalOwed - owed[caller]
  /\ wallet' = Transferred(wallet, Escrow, caller, owed[caller])
  /\ UNCHANGED <<matches, totalLocked, fees, admin, blocked, now>>

\* Mutant of withdrawFees: accruedFees is not reset.
SweepWithoutReset ==
  /\ accruedFees # 0
  /\ CanTransfer(wallet, Escrow, feeRecipient, accruedFees)
  /\ wallet' = Transferred(wallet, Escrow, feeRecipient, accruedFees)
  /\ UNCHANGED <<matches, totalLocked, fees, owed, totalOwed, admin, blocked, now>>

withdrawFees ==
  /\ accruedFees # 0
  /\ CanTransfer(wallet, Escrow, feeRecipient, accruedFees)
  /\ accruedFees' = 0
  /\ wallet' = Transferred(wallet, Escrow, feeRecipient, accruedFees)
  /\ UNCHANGED <<matches, totalLocked, totalFeesCollected, owed, totalOwed, admin, blocked, now>>

-----------------------------------------------------------------------------
(* Resolver actions *)

resolveMatch(caller, m, winner) ==
  LET r   == matches[m]
      pot == r.stakePerPlayer * 2
      fee == IF r.platformFee > pot THEN pot ELSE r.platformFee
  IN /\ caller = resolver
     /\ matchExists(m)
     /\ BothStaked(r)
     /\ winner \in {r.player1, r.player2}
     /\ now < r.lockedAt + lockTimeout
     /\ totalLocked >= pot
     /\ matches' = [matches EXCEPT ![m].status = "RESOLVED"]
     /\ totalLocked' = totalLocked - pot
     /\ totalFeesCollected' = totalFeesCollected + fee
     /\ accruedFees' = accruedFees + fee
     /\ CashBecomes(_pay(Cash, winner, pot - fee))
     /\ UNCHANGED <<admin, blocked, now>>

flagDispute(caller, m) ==
  /\ caller = resolver
  /\ matchExists(m)
  /\ matches[m].status = "LOCKED"
  /\ matches' = [matches EXCEPT ![m].status = "DISPUTED"]
  /\ UNCHANGED <<totalLocked, fees, cash, admin, blocked, now>>

\* Mutant of cancelMatch: a settled match can be cancelled.
CancelAnyStatus(caller, m) == caller = resolver /\ matchExists(m) /\ _cancel(m)

cancelMatch(caller, m) ==
  /\ caller = resolver
  /\ matchExists(m)
  /\ matches[m].status \notin {"RESOLVED", "CANCELLED"}
  /\ _cancel(m)

-----------------------------------------------------------------------------
(* Owner actions.  The owner is a multisig; its key handling is the        *)
(* library's and renounceOwnership always reverts.                         *)

money == <<matches, totalLocked, fees, cash, blocked, now>>

setResolver(k) ==
  /\ resolver' = k
  /\ UNCHANGED <<money, tiers, maxStakePerPlayer, feeRecipient, paused>>

setFeeRecipient(t) ==
  /\ feeRecipient' = t
  /\ UNCHANGED <<money, tiers, maxStakePerPlayer, resolver, paused>>

setFeeTiers(t) ==
  /\ ValidTiers(t)
  /\ tiers' = t
  /\ UNCHANGED <<money, maxStakePerPlayer, feeRecipient, resolver, paused>>

\* Mutant of setMaxStake: no upper limit.
RaiseWithoutLimit(newMax) ==
  /\ newMax >= MIN_STAKE
  /\ maxStakePerPlayer' = newMax
  /\ UNCHANGED <<money, tiers, feeRecipient, resolver, paused>>

setMaxStake(newMax) ==
  /\ newMax >= MIN_STAKE /\ newMax <= MAX_STAKE
  /\ maxStakePerPlayer' = newMax
  /\ UNCHANGED <<money, tiers, feeRecipient, resolver, paused>>

pause ==
  /\ ~paused /\ paused' = TRUE
  /\ UNCHANGED <<money, tiers, maxStakePerPlayer, feeRecipient, resolver>>

unpause ==
  /\ paused /\ paused' = FALSE
  /\ UNCHANGED <<money, tiers, maxStakePerPlayer, feeRecipient, resolver>>

-----------------------------------------------------------------------------
(* The surroundings *)

\* The token issuer blacklists an account, or lifts the blacklist.
blacklist(a) ==
  /\ blocked' = IF a \in blocked THEN blocked \ {a} ELSE blocked \cup {a}
  /\ UNCHANGED <<matches, totalLocked, fees, cash, admin, now>>

tick ==
  /\ now < MaxTime
  /\ now' = now + 1
  /\ UNCHANGED <<matches, totalLocked, fees, cash, admin, blocked>>

Init ==
  /\ matches = [m \in MatchIds |-> ZeroMatch]
  /\ totalLocked = 0 /\ accruedFees = 0 /\ totalFeesCollected = 0
  /\ owed = [a \in Addr |-> 0] /\ totalOwed = 0
  /\ tiers = InitialTiers
  /\ maxStakePerPlayer = MAX_STAKE
  /\ feeRecipient \in Treasuries /\ resolver \in Resolvers
  /\ paused = FALSE
  /\ wallet = [a \in Addr \cup {Escrow} |-> IF a = Escrow THEN 0 ELSE Endowment]
  /\ blocked = {}
  /\ now = 0

PlayerNext ==
  \/ \E c \in Addr, p \in Permits : createMatch(c, p)
  \/ \E c \in Addr, m \in MatchIds : joinMatch(c, m)
  \/ \E m \in MatchIds : refundExpired(m)
  \/ \E c \in Addr : withdraw(c)
  \/ withdrawFees

ResolverNext ==
  \/ \E c, w \in Addr, m \in MatchIds : resolveMatch(c, m, w)
  \/ \E c \in Addr, m \in MatchIds : flagDispute(c, m)
  \/ \E c \in Addr, m \in MatchIds : cancelMatch(c, m)

OwnerNext ==
  \/ \E k \in Resolvers : setResolver(k)
  \/ \E t \in Treasuries : setFeeRecipient(t)
  \/ \E t \in TierInputs : setFeeTiers(t)
  \/ \E n \in CapInputs : setMaxStake(n)
  \/ pause
  \/ unpause

Next == PlayerNext \/ ResolverNext \/ OwnerNext
        \/ (\E a \in Blockable : blacklist(a)) \/ tick

Spec == Init /\ [][Next]_vars

\* Time passes, and for every match somebody wants the refund back: any
\* account may call refundExpired, so its caller is never out of reach.
\* Nothing is assumed of the resolver, the owner or the token issuer.
Fairness ==
  /\ WF_vars(tick)
  /\ \A m \in MatchIds : WF_vars(refundExpired(m))

FairSpec == Spec /\ Fairness

-----------------------------------------------------------------------------
(* Properties *)

TypeOK ==
  /\ matches \in [MatchIds -> Match]
  /\ totalLocked \in Nat /\ accruedFees \in Nat /\ totalFeesCollected \in Nat
  /\ owed \in [Addr -> Nat] /\ totalOwed \in Nat
  /\ tiers \in FeeTiers /\ ValidTiers(tiers)
  /\ maxStakePerPlayer \in Nat /\ maxStakePerPlayer <= MAX_STAKE
  /\ feeRecipient \in Treasuries /\ resolver \in Resolvers
  /\ paused \in BOOLEAN
  /\ wallet \in [Addr \cup {Escrow} -> Nat]
  /\ blocked \subseteq Addr \cup {Escrow}
  /\ now \in Nat

\* The contract's token balance is exactly what it owes: live stakes, fees
\* not yet swept to the treasury and payouts waiting for a withdraw.  So
\* withdrawFees and withdraw can never be paid out of somebody's stake.
Solvent == wallet[Escrow] = totalLocked + accruedFees + totalOwed

\* totalLocked, kept by additions at create and join and by one subtraction
\* at the end of a match, is the sum of the stakes of the live matches.
StakesAccounted ==
  totalLocked = SumFunction([m \in MatchIds |->
                  IF matchExists(m) THEN StakeHeld(matches[m]) ELSE 0])

\* totalOwed is the sum of the credits that _pay made and withdraw cleared.
CreditsAccounted == totalOwed = SumFunction(owed)

\* The lifetime fee counter is the sum of the snapshots of the resolved
\* matches: a cancelled or refunded match is never charged.
FeesEarnedByWins ==
  /\ totalFeesCollected = SumFunction([m \in MatchIds |->
       IF matches[m].status = "RESOLVED" THEN matches[m].platformFee ELSE 0])
  /\ accruedFees <= totalFeesCollected

\* The contract's running totals, kept by increments, are the sums they stand
\* for, after any sequence of calls on several matches.
MoneyAccounted == StakesAccounted /\ CreditsAccounted /\ FeesEarnedByWins

\* However the owner moves the tiers, no match's snapshot takes more than a
\* quarter of its pot, so the clamp in resolveMatch is unreachable.
FeeWithinQuarter ==
  \A m \in MatchIds : 2 * matches[m].platformFee <= matches[m].stakePerPlayer

\* The players, the stake and the fee of a match are fixed when it is
\* created, and a settled match stays as it was settled: no later tier
\* change, cap change, key rotation or replayed create touches it.
TermsKept ==
  \A m \in MatchIds : matchExists(m) =>
    /\ \A f \in {"player1", "player2", "stakePerPlayer", "platformFee", "createdAt"} :
          matches'[m][f] = matches[m][f]
    /\ matches[m].status \in {"RESOLVED", "CANCELLED"} => matches'[m] = matches[m]

TermsFixed == [][TermsKept]_vars

\* At any instant a fully staked match can either still be resolved or
\* already be refunded: the two windows neither overlap nor leave a gap in
\* which the money is stuck.  Likewise for joining and refunding.
OneWayOut ==
  \A m \in MatchIds : matchExists(m) =>
    /\ BothStaked(matches[m]) =>
         (ENABLED refundExpired(m) <=>
            ~ ENABLED (\E c, w \in Addr : resolveMatch(c, m, w)))
    /\ matches[m].status = "OPEN" =>
         ~ (ENABLED refundExpired(m) /\ ENABLED (\E c \in Addr : joinMatch(c, m)))

\* Money can always leave, paused or not: a credit of an account the token
\* does not block can be withdrawn, and accrued fees can be swept, whatever
\* happened to the other matches and payouts.
MoneyOutNeverBlocked ==
  Escrow \notin blocked =>
    /\ \A a \in Addr \ blocked : owed[a] > 0 => ENABLED withdraw(a)
    /\ accruedFees > 0 /\ feeRecipient \notin blocked => ENABLED withdrawFees

\* Money that is inside has a way out at every instant: one for a stake, and
\* one for a credit and for the fees.
WayOut == OneWayOut /\ MoneyOutNeverBlocked

Settled(m) == matches[m].status \in {"RESOLVED", "CANCELLED"}

\* Every stake comes home: a match that holds a stake is eventually settled,
\* with no help from the resolver, even if the contract stays paused, the
\* tokens of a player are frozen or the resolver key is lost.
EveryMatchSettles == \A m \in MatchIds : matchExists(m) ~> Settled(m)

-----------------------------------------------------------------------------
(* The promise of the contract, and how its state shows it. *)

Stage(r) == IF r.player1 = Zero THEN "none"
            ELSE IF r.status = "OPEN" THEN "open"
            ELSE IF BothStaked(r) THEN "locked"
            ELSE "settled"

Promise == INSTANCE EscrowPromise WITH
  stage  <- [m \in MatchIds |-> Stage(matches[m])],
  terms  <- [m \in MatchIds |-> [player1 |-> matches[m].player1, player2 |-> matches[m].player2,
               stake |-> matches[m].stakePerPlayer, fee |-> matches[m].platformFee]],
  purse  <- [a \in Addr |-> wallet[a] + owed[a]],
  feePot <- accruedFees

\* The contract implements the promise: whether a payout is pushed, or
\* credited and withdrawn later, is invisible in what an account is worth.
KeepsPromise == Promise!Spec
=============================================================================
