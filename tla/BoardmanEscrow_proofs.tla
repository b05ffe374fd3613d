------------------------ MODULE BoardmanEscrow_proofs ------------------------
(***************************************************************************)
(* The escrow's books, for any accounts, matches, permits, fee schedules   *)
(* and timeouts: the type invariant, solvency, the quarter limit on fees,  *)
(* the immutability of a match's terms, that money always has a way out,   *)
(* and the refinement of EscrowPromise.                                    *)
(***************************************************************************)
EXTENDS BoardmanEscrow, Sums

\* The two players of a match are two accounts: a match never has to give
\* back both of its stakes to one player, nor a stake to address(0).
Opponents ==
  \A m \in MatchIds : matchExists(m) =>
    /\ matches[m].player1 \in Addr /\ matches[m].player2 \in Addr
    /\ matches[m].player1 # matches[m].player2

\* The inductive invariant.
IInv == TypeOK /\ Solvent /\ FeeWithinQuarter /\ Opponents

CashType == [wallet: [Addr \cup {Escrow} -> Nat], owed: [Addr -> Nat], totalOwed: Nat]

-----------------------------------------------------------------------------
(* Arithmetic *)

\* A rate of at most a quarter takes at most a quarter of the pot 2 * s.
LEMMA QuarterRate ==
  ASSUME NEW s \in Nat, NEW rate \in Nat, NEW d \in Nat \ {0}, 4 * rate <= d
  PROVE  /\ ((s * 2) * rate) \div d \in Nat
         /\ 2 * (((s * 2) * rate) \div d) <= s
<1> DEFINE x == (s * 2) * rate
           q == x \div d
<1>1. x \in Nat /\ 2 * x = (4 * rate) * s
  BY SMT
<1>2. q \in Nat /\ q * d <= x
  <2> HIDE DEF x
  <2> QED BY <1>1, Quotient
<1>3. (4 * rate) * s <= d * s
  BY MulMonotone, SMT
<1>4. (2 * q) * d <= s * d
  <2> HIDE DEF x, q
  <2>1. (2 * q) * d = 2 * (q * d)
    BY <1>2, SMT
  <2>2. d * s = s * d
    BY SMT
  <2>3. q * d \in Nat /\ d * s \in Nat
    BY <1>2, SMT
  <2> QED BY <1>1, <1>2, <1>3, <2>1, <2>2, <2>3, SMT
<1>5. 2 * q <= s
  <2> HIDE DEF x, q
  <2> QED BY <1>2, <1>4, MulCancel, SMT
<1> QED BY <1>2, <1>5

\* Whatever the tiers, the fee of a stake the contract accepts takes at most
\* a quarter of the pot, and so is not clamped.
LEMMA FeeBound ==
  ASSUME tiers \in FeeTiers, ValidTiers(tiers), NEW s \in Nat, MIN_STAKE <= s
  PROVE  _platformFee(s * 2) \in Nat /\ 2 * _platformFee(s * 2) <= s
<1> USE ParametersAssumption
<1> DEFINE flat == tiers.flat * 2
           mid  == ((s * 2) * tiers.bps) \div BPS_DENOM
           top  == ((s * 2) * tiers.premium) \div BPS_DENOM
           pick == IF (s * 2) \div 2 < tiers.flatMax THEN flat
                   ELSE IF (s * 2) \div 2 <= tiers.bpsMax THEN mid ELSE top
<1>1. /\ tiers.flat \in Nat /\ tiers.bps \in Nat /\ tiers.premium \in Nat
      /\ 4 * tiers.bps <= BPS_DENOM /\ 4 * tiers.premium <= BPS_DENOM
      /\ tiers.flat <= MIN_STAKE \div 4
  BY DEF FeeTiers, ValidTiers, MAX_FLAT_FEE_PER_PLAYER
<1>2. flat \in Nat /\ 2 * flat <= s
  BY <1>1, SMT
<1>3. mid \in Nat /\ 2 * mid <= s
  BY <1>1, QuarterRate
<1>4. top \in Nat /\ 2 * top <= s
  BY <1>1, QuarterRate
<1>5. pick \in Nat /\ 2 * pick <= s
  <2> HIDE DEF flat, mid, top
  <2> QED BY <1>2, <1>3, <1>4
<1>6. _platformFee(s * 2) = IF pick > s * 2 THEN s * 2 ELSE pick
  BY DEF _platformFee
<1> HIDE DEF pick
<1> QED BY <1>5, <1>6, SMT

-----------------------------------------------------------------------------
(* Payouts *)

\* Between the books c and p, amt left the contract for to: as tokens or as
\* a credit, and either way to is worth amt more and nobody else is.
PaidOut(c, p, to, amt) ==
  /\ p \in CashType
  /\ c.wallet[Escrow] + p.totalOwed = p.wallet[Escrow] + c.totalOwed + amt
  /\ \A a \in Addr : p.wallet[a] + p.owed[a]
                       = c.wallet[a] + c.owed[a] + (IF a = to THEN amt ELSE 0)

\* _pay moves amt out of the contract's balance or into the credits of its
\* payee, and never both: the balance less the credits falls by exactly amt.
LEMMA PayKeepsBooks ==
  \A c \in CashType, to \in Addr, amt \in Nat : PaidOut(c, _pay(c, to, amt), to, amt)
<1> SUFFICES ASSUME NEW c \in CashType, NEW to \in Addr, NEW amt \in Nat
             PROVE  PaidOut(c, _pay(c, to, amt), to, amt)
  OBVIOUS
<1> USE AccountsAssumption DEF CashType, PaidOut
<1>1. CASE amt = 0
  BY <1>1 DEF _pay
<1>2. CASE amt # 0 /\ CanTransfer(c.wallet, Escrow, to, amt)
  <2> DEFINE w == Transferred(c.wallet, Escrow, to, amt)
  <2>1. _pay(c, to, amt) = [c EXCEPT !.wallet = w]
    BY <1>2 DEF _pay
  <2>2. c.wallet[Escrow] >= amt
    BY <1>2 DEF CanTransfer
  <2>3. /\ w \in [Addr \cup {Escrow} -> Nat]
        /\ w[Escrow] = c.wallet[Escrow] - amt
        /\ \A a \in Addr : w[a] = IF a = to THEN c.wallet[a] + amt ELSE c.wallet[a]
    BY <2>2 DEF Transferred
  <2> HIDE DEF w
  <2> QED BY <2>1, <2>2, <2>3
<1>3. CASE amt # 0 /\ ~ CanTransfer(c.wallet, Escrow, to, amt)
  <2>1. _pay(c, to, amt) = [c EXCEPT !.owed[to] = @ + amt, !.totalOwed = @ + amt]
    BY <1>3 DEF _pay
  <2> DEFINE credits == [c.owed EXCEPT ![to] = @ + amt]
             p == [wallet |-> c.wallet, owed |-> credits, totalOwed |-> c.totalOwed + amt]
  <2>2. p = _pay(c, to, amt)
    BY <2>1
  <2>3. /\ credits \in [Addr -> Nat]
        /\ \A a \in Addr : credits[a] = IF a = to THEN c.owed[a] + amt ELSE c.owed[a]
    OBVIOUS
  <2> HIDE DEF credits
  <2>4. PaidOut(c, p, to, amt)
    BY <2>3
  <2> QED BY <2>2, <2>4
<1> QED BY <1>1, <1>2, <1>3

\* A cancellation gives back exactly the stakes held, to those who paid them.
LEMMA CancelKeepsBooks ==
  ASSUME IInv, NEW m \in MatchIds, matchExists(m),
         matches[m].status \in {"OPEN", "LOCKED", "DISPUTED"}, _cancel(m)
  PROVE  /\ wallet' \in [Addr \cup {Escrow} -> Nat] /\ owed' \in [Addr -> Nat]
         /\ totalOwed' \in Nat /\ totalLocked' \in Nat
         /\ wallet'[Escrow] = totalLocked' + accruedFees + totalOwed'
         /\ \A a \in Addr : wallet'[a] + owed'[a] = wallet[a] + owed[a]
              + (IF a = matches[m].player1 \/ (BothStaked(matches[m]) /\ a = matches[m].player2)
                 THEN matches[m].stakePerPlayer ELSE 0)
<1> USE AccountsAssumption
<1> DEFINE r  == matches[m]
           s  == r.stakePerPlayer
           c1 == _pay(Cash, r.player1, s)
           c2 == IF BothStaked(r) THEN _pay(c1, r.player2, s) ELSE c1
           held == StakeHeld(r)
<1>1. /\ s \in Nat /\ r.player1 \in Addr /\ r.player2 \in Addr /\ r.player1 # r.player2
      /\ Cash \in CashType /\ Cash.wallet = wallet /\ Cash.owed = owed /\ Cash.totalOwed = totalOwed
      /\ totalLocked \in Nat /\ accruedFees \in Nat
      /\ wallet[Escrow] = totalLocked + accruedFees + totalOwed
  BY DEF IInv, TypeOK, Solvent, Opponents, Match, Cash, CashType
<1>2. PaidOut(Cash, c1, r.player1, s)
  BY <1>1, PayKeepsBooks
<1>3. wallet' = c2.wallet /\ owed' = c2.owed /\ totalOwed' = c2.totalOwed
  BY DEF _cancel, CashBecomes
<1>4. totalLocked >= held /\ totalLocked' = totalLocked - held
  BY DEF _cancel
<1>5. CASE BothStaked(r)
  <2>1. PaidOut(c1, c2, r.player2, s)
    <3>1. c2 = _pay(c1, r.player2, s)
      BY <1>5
    <3>2. c1 \in CashType
      BY <1>2 DEF PaidOut
    <3> HIDE DEF c1, c2
    <3> QED BY <1>1, <3>1, <3>2, PayKeepsBooks
  <2>2. held = 2 * s
    BY <1>5 DEF StakeHeld
  <2> HIDE DEF c1, c2, held
  <2>3. \A a \in Addr : wallet'[a] + owed'[a] = wallet[a] + owed[a]
          + (IF a = r.player1 THEN s ELSE 0) + (IF a = r.player2 THEN s ELSE 0)
    <3> HIDE DEF r, s
    <3> QED BY <1>1, <1>2, <1>3, <2>1 DEF CashType, PaidOut
  <2>4. wallet'[Escrow] = totalLocked' + accruedFees + totalOwed'
    <3> HIDE DEF r, s
    <3> QED BY <1>1, <1>2, <1>3, <1>4, <2>1, <2>2 DEF CashType, PaidOut
  <2>5. /\ wallet' \in [Addr \cup {Escrow} -> Nat] /\ owed' \in [Addr -> Nat]
        /\ totalOwed' \in Nat /\ totalLocked' \in Nat
    <3> HIDE DEF r, s
    <3> QED BY <1>1, <1>3, <1>4, <2>1, <2>2 DEF CashType, PaidOut
  <2>6. \A a \in Addr : wallet[a] \in Nat /\ owed[a] \in Nat
    BY DEF IInv, TypeOK
  <2>7. \A a \in Addr : wallet'[a] + owed'[a] = wallet[a] + owed[a]
          + (IF a = r.player1 \/ a = r.player2 THEN s ELSE 0)
    <3> HIDE DEF r, s
    <3> QED BY <1>1, <2>3, <2>6
  <2> QED BY <1>5, <2>4, <2>5, <2>7
<1>6. CASE ~ BothStaked(r)
  <2>1. c2 = c1 /\ held = s
    <3>1. c2 = c1
      BY <1>6
    <3>2. held = s
      <4> HIDE DEF c1, c2
      <4> QED BY <1>6 DEF StakeHeld, BothStaked
    <3> QED BY <3>1, <3>2
  <2>2. /\ wallet' = c1.wallet /\ owed' = c1.owed /\ totalOwed' = c1.totalOwed
        /\ totalLocked' = totalLocked - s /\ totalLocked >= s
    BY <1>3, <1>4, <2>1
  <2>3. \A a \in Addr : wallet'[a] + owed'[a]
          = wallet[a] + owed[a] + (IF a = r.player1 THEN s ELSE 0)
    <3>1. \A a \in Addr : c1.wallet[a] + c1.owed[a]
            = Cash.wallet[a] + Cash.owed[a] + (IF a = r.player1 THEN s ELSE 0)
      BY <1>2 DEF PaidOut
    <3> HIDE DEF r, s, c1
    <3> QED BY <1>1, <2>2, <3>1
  <2> HIDE DEF r, s, c1, c2, held
  <2>4. wallet'[Escrow] = totalLocked' + accruedFees + totalOwed'
    <3>1. /\ c1.wallet[Escrow] \in Nat /\ c1.totalOwed \in Nat
          /\ wallet[Escrow] + c1.totalOwed = c1.wallet[Escrow] + totalOwed + s
      BY <1>1, <1>2 DEF CashType, PaidOut
    <3>2. wallet'[Escrow] = c1.wallet[Escrow]
      BY <2>2
    <3>3. wallet[Escrow] \in Nat /\ totalOwed \in Nat
      BY DEF IInv, TypeOK
    <3> QED BY <1>1, <2>2, <3>1, <3>2, <3>3
  <2>5. /\ wallet' \in [Addr \cup {Escrow} -> Nat] /\ owed' \in [Addr -> Nat]
        /\ totalOwed' \in Nat /\ totalLocked' \in Nat
    BY <1>1, <1>2, <2>2 DEF CashType, PaidOut
  <2> QED BY <1>6, <2>3, <2>4, <2>5 DEF r, s
<1> QED BY <1>5, <1>6

-----------------------------------------------------------------------------
(* Every action keeps the invariant. *)

\* The constructor establishes the invariant.
LEMMA InitInvariant == Init => IInv
<1> SUFFICES ASSUME Init PROVE IInv
  OBVIOUS
<1> USE AccountsAssumption, ParametersAssumption DEF Init
<1>1. ZeroMatch \in Match
  BY DEF ZeroMatch, Match, MatchStatus
<1>2. /\ matches \in [MatchIds -> Match] /\ owed \in [Addr -> Nat]
      /\ wallet \in [Addr \cup {Escrow} -> Nat] /\ maxStakePerPlayer <= MAX_STAKE
  BY <1>1
<1>3. TypeOK
  BY <1>2 DEF TypeOK
<1>4. Solvent
  BY DEF Solvent
<1>5. FeeWithinQuarter /\ Opponents
  BY DEF FeeWithinQuarter, Opponents, ZeroMatch, matchExists
<1> QED BY <1>3, <1>4, <1>5 DEF IInv

\* A new match starts with two different players and a fee of at most a
\* quarter of its pot, whatever the tiers are at that moment.
LEMMA CreateInvariant ==
  ASSUME IInv, NEW c \in Addr, NEW p \in Permits, createMatch(c, p)
  PROVE  IInv'
<1> USE AccountsAssumption
<1> DEFINE fee == _platformFee(p.stake * 2)
           r == [player1 |-> c, player2 |-> p.player2, stakePerPlayer |-> p.stake,
                 status |-> "OPEN", createdAt |-> now, lockedAt |-> 0, platformFee |-> fee]
<1>1. /\ p.stake \in Nat /\ p.matchId \in MatchIds /\ p.player2 \in Addr /\ p.player2 # c
      /\ MIN_STAKE <= p.stake
  BY InputsAssumption DEF createMatch, Permit
<1>2. fee \in Nat /\ 2 * fee <= p.stake
  BY <1>1, FeeBound DEF IInv, TypeOK
<1>3. r \in Match
  <2> HIDE DEF fee
  <2> QED BY <1>1, <1>2 DEF Match, MatchStatus, IInv, TypeOK
<1>4. matches' = [matches EXCEPT ![p.matchId] = r]
  BY DEF createMatch
<1> HIDE DEF fee, r
<1>5. wallet[c] >= p.stake /\ wallet' = Transferred(wallet, c, Escrow, p.stake)
      /\ totalLocked' = totalLocked + p.stake
      /\ UNCHANGED <<fees, owed, totalOwed, admin, blocked, now>>
  BY DEF createMatch, CanTransfer
<1>6. wallet' \in [Addr \cup {Escrow} -> Nat] /\ wallet'[Escrow] = wallet[Escrow] + p.stake
  BY <1>1, <1>5 DEF Transferred, IInv, TypeOK
<1>7. TypeOK'
  BY <1>1, <1>3, <1>4, <1>5, <1>6 DEF IInv, TypeOK, fees, admin, ValidTiers
<1>8. Solvent'
  BY <1>1, <1>5, <1>6 DEF IInv, TypeOK, Solvent, fees
<1>9. FeeWithinQuarter' /\ Opponents'
  BY <1>1, <1>2, <1>4 DEF IInv, TypeOK, FeeWithinQuarter, Opponents, matchExists, r
<1> QED BY <1>7, <1>8, <1>9 DEF IInv

\* joinMatch adds the same stake to the balance and to totalLocked.
LEMMA JoinInvariant ==
  ASSUME IInv, NEW c \in Addr, NEW m \in MatchIds, joinMatch(c, m)
  PROVE  IInv'
<1> USE AccountsAssumption
<1> DEFINE s == matches[m].stakePerPlayer
<1>1. s \in Nat
  BY DEF IInv, TypeOK, Match
<1>2. /\ matches' = [matches EXCEPT ![m].status = "LOCKED", ![m].lockedAt = now]
      /\ wallet[c] >= s /\ wallet' = Transferred(wallet, c, Escrow, s)
      /\ totalLocked' = totalLocked + s
      /\ UNCHANGED <<fees, owed, totalOwed, admin, blocked, now>>
  BY DEF joinMatch, CanTransfer
<1> HIDE DEF s
<1>3. wallet' \in [Addr \cup {Escrow} -> Nat] /\ wallet'[Escrow] = wallet[Escrow] + s
  BY <1>1, <1>2 DEF Transferred, IInv, TypeOK
<1>4. matches' \in [MatchIds -> Match]
  <2>1. [matches[m] EXCEPT !.status = "LOCKED", !.lockedAt = now] \in Match
    <3>1. matches[m] \in Match /\ now \in Nat
      BY DEF IInv, TypeOK
    <3> QED BY <3>1 DEF Match, MatchStatus
  <2>2. matches' = [matches EXCEPT ![m] = [matches[m] EXCEPT !.status = "LOCKED", !.lockedAt = now]]
    BY <1>2 DEF IInv, TypeOK
  <2> QED BY <2>1, <2>2 DEF IInv, TypeOK
<1>5. TypeOK'
  BY <1>1, <1>2, <1>3, <1>4 DEF IInv, TypeOK, fees, admin, ValidTiers
<1>6. Solvent'
  BY <1>1, <1>2, <1>3 DEF IInv, TypeOK, Solvent, fees
<1>7. FeeWithinQuarter' /\ Opponents'
  BY <1>2 DEF IInv, TypeOK, FeeWithinQuarter, Opponents, matchExists, Match
<1> QED BY <1>5, <1>6, <1>7 DEF IInv

\* Cancelling a live match keeps the invariant; refundExpired and cancelMatch
\* both end in it.
LEMMA CancelInvariant ==
  ASSUME IInv, NEW m \in MatchIds, matchExists(m),
         matches[m].status \in {"OPEN", "LOCKED", "DISPUTED"}, _cancel(m)
  PROVE  IInv'
<1>1. /\ wallet' \in [Addr \cup {Escrow} -> Nat] /\ owed' \in [Addr -> Nat]
      /\ totalOwed' \in Nat /\ totalLocked' \in Nat
      /\ wallet'[Escrow] = totalLocked' + accruedFees + totalOwed'
  BY CancelKeepsBooks
<1>2. /\ matches' = [matches EXCEPT ![m].status = "CANCELLED"]
      /\ UNCHANGED <<fees, admin, blocked, now>>
  BY DEF _cancel
<1>3. matches' \in [MatchIds -> Match]
  BY <1>2 DEF IInv, TypeOK, Match, MatchStatus
<1>4. TypeOK'
  BY <1>1, <1>2, <1>3 DEF IInv, TypeOK, fees, admin, ValidTiers
<1>5. Solvent'
  BY <1>1, <1>2 DEF Solvent, fees
<1>6. FeeWithinQuarter' /\ Opponents'
  BY <1>2 DEF IInv, TypeOK, FeeWithinQuarter, Opponents, matchExists, Match
<1> QED BY <1>4, <1>5, <1>6 DEF IInv

\* The fee of a match leaves its pot whole: the clamp in resolveMatch never
\* applies, and the winner's payout and the fee add up to the pot.
LEMMA ResolveKeepsBooks ==
  ASSUME IInv, NEW m \in MatchIds, NEW c \in Addr, NEW w \in Addr, resolveMatch(c, m, w)
  PROVE  LET r == matches[m] IN
         /\ BothStaked(r) /\ w \in {r.player1, r.player2}
         /\ matches' = [matches EXCEPT ![m].status = "RESOLVED"]
         /\ accruedFees' = accruedFees + r.platformFee
         /\ totalFeesCollected' = totalFeesCollected + r.platformFee
         /\ totalLocked' \in Nat /\ totalLocked' + 2 * r.stakePerPlayer = totalLocked
         /\ PaidOut(Cash, Cash', w, 2 * r.stakePerPlayer - r.platformFee)
         /\ UNCHANGED <<admin, blocked, now>>
<1> DEFINE r   == matches[m]
           pot == r.stakePerPlayer * 2
           fee == IF r.platformFee > pot THEN pot ELSE r.platformFee
<1>1. /\ r.stakePerPlayer \in Nat /\ r.platformFee \in Nat
      /\ 2 * r.platformFee <= r.stakePerPlayer
  BY DEF IInv, TypeOK, Match, FeeWithinQuarter
<1>2. pot = 2 * r.stakePerPlayer /\ fee = r.platformFee
      /\ pot - fee = 2 * r.stakePerPlayer - r.platformFee /\ pot - fee \in Nat
  <2> HIDE DEF r
  <2> QED BY <1>1
<1>3. /\ BothStaked(r) /\ w \in {r.player1, r.player2}
      /\ matches' = [matches EXCEPT ![m].status = "RESOLVED"]
      /\ totalLocked >= pot /\ totalLocked' = totalLocked - pot
      /\ totalFeesCollected' = totalFeesCollected + fee
      /\ accruedFees' = accruedFees + fee
      /\ CashBecomes(_pay(Cash, w, pot - fee))
      /\ UNCHANGED <<admin, blocked, now>>
  BY DEF resolveMatch
<1> HIDE DEF fee, pot
<1>4. Cash \in CashType /\ totalLocked \in Nat
  BY DEF IInv, TypeOK, Cash, CashType
<1>5. PaidOut(Cash, _pay(Cash, w, pot - fee), w, pot - fee)
  BY <1>2, <1>4, PayKeepsBooks
<1>6. Cash' = _pay(Cash, w, pot - fee)
  <2>1. _pay(Cash, w, pot - fee) \in CashType
    BY <1>5 DEF PaidOut
  <2> QED BY <1>3, <2>1 DEF CashBecomes, Cash, CashType
<1>7. PaidOut(Cash, Cash', w, pot - fee)
  BY <1>5, <1>6
<1>8. totalLocked' \in Nat /\ totalLocked' + pot = totalLocked
  BY <1>1, <1>2, <1>3, <1>4
<1> QED BY <1>2, <1>3, <1>7, <1>8

\* resolveMatch keeps the invariant.
LEMMA ResolveInvariant ==
  ASSUME IInv, NEW m \in MatchIds, NEW c \in Addr, NEW w \in Addr, resolveMatch(c, m, w)
  PROVE  IInv'
<1> DEFINE fee == matches[m].platformFee
           s   == matches[m].stakePerPlayer
<1>1. s \in Nat /\ fee \in Nat /\ 2 * fee <= s
  BY DEF IInv, TypeOK, Match, FeeWithinQuarter
<1>2. /\ matches' = [matches EXCEPT ![m].status = "RESOLVED"]
      /\ accruedFees' = accruedFees + fee
      /\ totalFeesCollected' = totalFeesCollected + fee
      /\ totalLocked' \in Nat /\ totalLocked' + 2 * s = totalLocked
      /\ PaidOut(Cash, Cash', w, 2 * s - fee)
      /\ UNCHANGED <<admin, blocked, now>>
  BY ResolveKeepsBooks
<1> HIDE DEF fee, s
<1>3. /\ wallet' \in [Addr \cup {Escrow} -> Nat] /\ owed' \in [Addr -> Nat] /\ totalOwed' \in Nat
      /\ wallet[Escrow] + totalOwed' = wallet'[Escrow] + totalOwed + (2 * s - fee)
  BY <1>2 DEF PaidOut, CashType, Cash
<1>4. matches' \in [MatchIds -> Match]
  BY <1>2 DEF IInv, TypeOK, Match, MatchStatus
<1>5. TypeOK'
  BY <1>1, <1>2, <1>3, <1>4 DEF IInv, TypeOK, admin, ValidTiers
<1>6. Solvent'
  <2>1. /\ wallet[Escrow] \in Nat /\ totalOwed \in Nat /\ totalLocked \in Nat /\ accruedFees \in Nat
        /\ wallet[Escrow] = totalLocked + accruedFees + totalOwed
    BY AccountsAssumption DEF IInv, TypeOK, Solvent
  <2>2. wallet'[Escrow] \in Nat
    BY <1>3
  <2>3. totalLocked' + 2 * s = totalLocked /\ accruedFees' = accruedFees + fee
        /\ totalLocked' \in Nat /\ totalOwed' \in Nat
    BY <1>2, <1>3
  <2>4. wallet[Escrow] + totalOwed' = wallet'[Escrow] + totalOwed + (2 * s - fee)
    BY <1>3
  <2>5. wallet[Escrow] + totalOwed' + fee = wallet'[Escrow] + totalOwed + 2 * s
    BY <1>1, <2>1, <2>2, <2>3, <2>4
  <2>6. wallet[Escrow] = totalLocked' + 2 * s + accruedFees + totalOwed
    BY <1>1, <2>1, <2>3
  <2>7. wallet'[Escrow] = totalLocked' + (accruedFees + fee) + totalOwed'
    BY <1>1, <2>1, <2>2, <2>3, <2>5, <2>6
  <2> QED BY <2>3, <2>7 DEF Solvent
<1>7. FeeWithinQuarter' /\ Opponents'
  BY <1>2 DEF IInv, TypeOK, FeeWithinQuarter, Opponents, matchExists, Match
<1> QED BY <1>5, <1>6, <1>7 DEF IInv

\* withdraw takes the same amount from the balance and from totalOwed.
LEMMA WithdrawInvariant ==
  ASSUME IInv, NEW c \in Addr, withdraw(c)
  PROVE  IInv'
<1> USE AccountsAssumption
<1> DEFINE x == owed[c]
<1>1. /\ x \in Nat /\ totalOwed \in Nat /\ wallet \in [Addr \cup {Escrow} -> Nat]
  BY DEF IInv, TypeOK
<1>2. /\ totalOwed >= x /\ wallet[Escrow] >= x
      /\ owed' = [owed EXCEPT ![c] = 0] /\ totalOwed' = totalOwed - x
      /\ wallet' = Transferred(wallet, Escrow, c, x)
      /\ UNCHANGED <<matches, totalLocked, fees, admin, blocked, now>>
  BY DEF withdraw, CanTransfer
<1> HIDE DEF x
<1>3. wallet' \in [Addr \cup {Escrow} -> Nat] /\ wallet'[Escrow] = wallet[Escrow] - x
  BY <1>1, <1>2 DEF Transferred
<1>4. TypeOK'
  <2>1. owed' \in [Addr -> Nat] /\ totalOwed' \in Nat
    BY <1>1, <1>2 DEF IInv, TypeOK
  <2> QED BY <1>2, <1>3, <2>1 DEF IInv, TypeOK, fees, admin, ValidTiers
<1>5. Solvent'
  BY <1>1, <1>2, <1>3 DEF IInv, TypeOK, Solvent, fees
<1>6. FeeWithinQuarter' /\ Opponents'
  BY <1>2 DEF IInv, FeeWithinQuarter, Opponents, matchExists
<1> QED BY <1>4, <1>5, <1>6 DEF IInv

\* withdrawFees takes from the balance exactly the fees it clears.
LEMMA WithdrawFeesInvariant ==
  ASSUME IInv, withdrawFees
  PROVE  IInv'
<1> USE AccountsAssumption
<1>1. /\ wallet[Escrow] >= accruedFees /\ accruedFees' = 0
      /\ wallet' = Transferred(wallet, Escrow, feeRecipient, accruedFees)
      /\ UNCHANGED <<matches, totalLocked, totalFeesCollected, owed, totalOwed, admin, blocked, now>>
  BY DEF withdrawFees, CanTransfer
<1>2. feeRecipient \in Addr /\ accruedFees \in Nat /\ wallet \in [Addr \cup {Escrow} -> Nat]
  BY DEF IInv, TypeOK
<1>3. wallet' \in [Addr \cup {Escrow} -> Nat] /\ wallet'[Escrow] = wallet[Escrow] - accruedFees
  BY <1>1, <1>2 DEF Transferred
<1>4. TypeOK'
  BY <1>1, <1>2, <1>3 DEF IInv, TypeOK, admin, ValidTiers
<1>5. Solvent'
  BY <1>1, <1>2, <1>3 DEF IInv, TypeOK, Solvent
<1>6. FeeWithinQuarter' /\ Opponents'
  BY <1>1 DEF IInv, FeeWithinQuarter, Opponents, matchExists
<1> QED BY <1>4, <1>5, <1>6 DEF IInv

\* flagDispute moves no money: a disputed match still holds both stakes.
LEMMA DisputeInvariant ==
  ASSUME IInv, NEW c \in Addr, NEW m \in MatchIds, flagDispute(c, m)
  PROVE  IInv'
<1>1. /\ matches' = [matches EXCEPT ![m].status = "DISPUTED"]
      /\ UNCHANGED <<totalLocked, fees, cash, admin, blocked, now>>
  BY DEF flagDispute
<1>2. matches' \in [MatchIds -> Match]
  BY <1>1 DEF IInv, TypeOK, Match, MatchStatus
<1>3. TypeOK' /\ Solvent'
  BY <1>1, <1>2 DEF IInv, TypeOK, Solvent, fees, cash, admin, ValidTiers
<1>4. FeeWithinQuarter' /\ Opponents'
  BY <1>1 DEF IInv, TypeOK, FeeWithinQuarter, Opponents, matchExists, Match
<1> QED BY <1>3, <1>4 DEF IInv

\* No knob of the owner reaches the books, and the schedules it may set keep
\* every limit that the fee of the next match relies on.
LEMMA OwnerInvariant ==
  ASSUME IInv, OwnerNext
  PROVE  IInv' /\ UNCHANGED money
<1>1. UNCHANGED money
  BY DEF OwnerNext, setResolver, setFeeRecipient, setFeeTiers, setMaxStake, pause, unpause
<1>2. /\ tiers' \in FeeTiers /\ ValidTiers(tiers')
      /\ maxStakePerPlayer' \in Nat /\ maxStakePerPlayer' <= MAX_STAKE
      /\ feeRecipient' \in Treasuries /\ resolver' \in Resolvers /\ paused' \in BOOLEAN
  <2> USE InputsAssumption DEF IInv, TypeOK
  <2>1. CASE \E k \in Resolvers : setResolver(k)
    BY <2>1 DEF setResolver
  <2>2. CASE \E t \in Treasuries : setFeeRecipient(t)
    BY <2>2 DEF setFeeRecipient
  <2>3. CASE \E t \in TierInputs : setFeeTiers(t)
    BY <2>3 DEF setFeeTiers
  <2>4. CASE \E n \in CapInputs : setMaxStake(n)
    BY <2>4 DEF setMaxStake
  <2>5. CASE pause \/ unpause
    BY <2>5 DEF pause, unpause
  <2> QED BY <2>1, <2>2, <2>3, <2>4, <2>5 DEF OwnerNext
<1>3. TypeOK'
  BY <1>1, <1>2 DEF IInv, TypeOK, money, fees, cash, ValidTiers
<1>4. (Solvent /\ FeeWithinQuarter /\ Opponents)'
  BY <1>1 DEF IInv, Solvent, FeeWithinQuarter, Opponents, matchExists, money, fees, cash
<1> QED BY <1>1, <1>3, <1>4 DEF IInv

\* blacklist, tick and stuttering.
LEMMA SurroundingsInvariant ==
  ASSUME IInv, (\E a \in Blockable : blacklist(a)) \/ tick \/ UNCHANGED vars
  PROVE  IInv' /\ UNCHANGED <<matches, totalLocked, fees, cash, admin>>
<1>1. UNCHANGED <<matches, totalLocked, fees, cash, admin>>
  BY DEF blacklist, tick, vars
<1>2. blocked' \subseteq Addr \cup {Escrow} /\ now' \in Nat
  BY AccountsAssumption DEF IInv, TypeOK, blacklist, tick, vars
<1>3. TypeOK'
  BY <1>1, <1>2 DEF IInv, TypeOK, fees, cash, admin, ValidTiers
<1>4. (Solvent /\ FeeWithinQuarter /\ Opponents)'
  BY <1>1 DEF IInv, Solvent, FeeWithinQuarter, Opponents, matchExists, fees, cash
<1> QED BY <1>1, <1>3, <1>4 DEF IInv

\* refundExpired and cancelMatch cancel live matches only.
LEMMA LiveCancelled ==
  ASSUME IInv, NEW m \in MatchIds,
         refundExpired(m) \/ \E c \in Addr : cancelMatch(c, m)
  PROVE  matchExists(m) /\ matches[m].status \in {"OPEN", "LOCKED", "DISPUTED"} /\ _cancel(m)
<1>1. CASE refundExpired(m)
  BY <1>1 DEF refundExpired, _refundableAt, BothStaked
<1>2. CASE \E c \in Addr : cancelMatch(c, m)
  <2>1. matches[m].status \in MatchStatus
    BY DEF IInv, TypeOK, Match
  <2> QED BY <1>2, <2>1 DEF cancelMatch, MatchStatus
<1> QED BY <1>1, <1>2

\* Every transaction, and everything the surroundings do, keeps the invariant.
LEMMA NextInvariant == IInv /\ [Next]_vars => IInv'
<1> SUFFICES ASSUME IInv, [Next]_vars PROVE IInv'
  OBVIOUS
<1>1. CASE \E c \in Addr, p \in Permits : createMatch(c, p)
  BY <1>1, CreateInvariant
<1>2. CASE \E c \in Addr, m \in MatchIds : joinMatch(c, m)
  BY <1>2, JoinInvariant
<1>3. CASE \E m \in MatchIds : refundExpired(m)
  BY <1>3, LiveCancelled, CancelInvariant
<1>4. CASE \E c \in Addr : withdraw(c)
  BY <1>4, WithdrawInvariant
<1>5. CASE withdrawFees
  BY <1>5, WithdrawFeesInvariant
<1>6. CASE \E c, w \in Addr, m \in MatchIds : resolveMatch(c, m, w)
  BY <1>6, ResolveInvariant
<1>7. CASE \E c \in Addr, m \in MatchIds : flagDispute(c, m)
  BY <1>7, DisputeInvariant
<1>8. CASE \E c \in Addr, m \in MatchIds : cancelMatch(c, m)
  BY <1>8, LiveCancelled, CancelInvariant
<1>9. CASE OwnerNext
  BY <1>9, OwnerInvariant
<1>10. CASE (\E a \in Blockable : blacklist(a)) \/ tick \/ UNCHANGED vars
  BY <1>10, SurroundingsInvariant
<1> QED BY <1>1, <1>2, <1>3, <1>4, <1>5, <1>6, <1>7, <1>8, <1>9, <1>10
        DEF Next, PlayerNext, ResolverNext

\* The inductive invariant holds in every reachable state: typed, solvent,
\* every fee within a quarter of its pot, and every match between two
\* different accounts.
THEOREM Invariance == Spec => []IInv
  BY InitInvariant, NextInvariant, PTL DEF Spec

\* Type correctness: no balance, credit or counter of the contract ever
\* underflows, and the owner's knobs stay within the limits of the source.
THEOREM TypeCorrect == Spec => []TypeOK
<1>1. IInv => TypeOK
  BY DEF IInv
<1> QED BY <1>1, Invariance, PTL

\* Solvency: the token balance is at every moment exactly the live stakes,
\* the accrued fees and the credits, so no payout is made from somebody
\* else's stake.
THEOREM Solvency == Spec => []Solvent
<1>1. IInv => Solvent
  BY DEF IInv
<1> QED BY <1>1, Invariance, PTL

\* No sequence of tier changes makes a match that pays more than a quarter.
THEOREM FeesBounded == Spec => []FeeWithinQuarter
<1>1. IInv => FeeWithinQuarter
  BY DEF IInv
<1> QED BY <1>1, Invariance, PTL

-----------------------------------------------------------------------------
(* The running totals *)

\* What a match holds of totalLocked, and what it added to the lifetime fees.
LockedFor(m) == IF matchExists(m) THEN StakeHeld(matches[m]) ELSE 0
EarnedFrom(m) == IF matches[m].status = "RESOLVED" THEN matches[m].platformFee ELSE 0

\* A match that was never created has no past either.
Unopened == \A m \in MatchIds : ~ matchExists(m) => matches[m].status = "OPEN"

\* Both are amounts.
LEMMA ShareTypes ==
  ASSUME TypeOK, NEW m \in MatchIds
  PROVE  LockedFor(m) \in Nat /\ EarnedFrom(m) \in Nat
<1>1. matches[m].stakePerPlayer \in Nat /\ matches[m].platformFee \in Nat
  BY DEF TypeOK, Match
<1> QED BY <1>1 DEF LockedFor, EarnedFrom, StakeHeld

\* The same in the next state.
LEMMA ShareTypesNext ==
  ASSUME TypeOK', NEW m \in MatchIds
  PROVE  LockedFor(m)' \in Nat /\ EarnedFrom(m)' \in Nat
<1>1. matches'[m].stakePerPlayer \in Nat /\ matches'[m].platformFee \in Nat
  BY DEF TypeOK, Match
<1> QED BY <1>1 DEF LockedFor, EarnedFrom, StakeHeld, BothStaked, matchExists

\* totalLocked follows a step that changes one match when it changes by what
\* that match holds.
LEMMA LockedMoves ==
  ASSUME TypeOK, TypeOK', StakesAccounted, NEW m \in MatchIds,
         \A k \in MatchIds : k # m => matches'[k] = matches[k],
         totalLocked' + LockedFor(m) = totalLocked + LockedFor(m)'
  PROVE  StakesAccounted'
<1> DEFINE f == [k \in MatchIds |-> LockedFor(k)]
           g == [k \in MatchIds |-> LockedFor(k)']
<1>1. \A k \in MatchIds : f[k] \in Nat /\ g[k] \in Nat /\ (k # m => g[k] = f[k])
  BY ShareTypes, ShareTypesNext DEF LockedFor, matchExists
<1>2. f[m] = LockedFor(m) /\ g[m] = LockedFor(m)'
  OBVIOUS
<1>3. totalLocked = SumFunctionOnSet(f, MatchIds)
  BY DEF StakesAccounted, SumFunction, LockedFor
<1>4. totalLocked' = SumFunctionOnSet(g, MatchIds) => StakesAccounted'
  BY DEF StakesAccounted, SumFunction, LockedFor
<1>5. totalLocked' \in Nat /\ totalLocked \in Nat
  BY DEF TypeOK
<1> HIDE DEF f, g
<1>6. /\ SumFunctionOnSet(f, MatchIds) \in Nat
      /\ SumFunctionOnSet(g, MatchIds) = SumFunctionOnSet(f, MatchIds) - f[m] + g[m]
  BY <1>1, SumChange, AccountsAssumption
<1>7. totalLocked' = SumFunctionOnSet(g, MatchIds)
  BY <1>1, <1>2, <1>3, <1>5, <1>6
<1> QED BY <1>4, <1>7

\* The lifetime fees follow it when they grow by what that match earned.
LEMMA EarnedMoves ==
  ASSUME TypeOK, TypeOK', FeesEarnedByWins, NEW m \in MatchIds,
         \A k \in MatchIds : k # m => matches'[k] = matches[k],
         NEW x \in Nat, EarnedFrom(m)' = EarnedFrom(m) + x,
         totalFeesCollected' = totalFeesCollected + x, accruedFees' = accruedFees + x
  PROVE  FeesEarnedByWins'
<1> DEFINE f == [k \in MatchIds |-> EarnedFrom(k)]
           g == [k \in MatchIds |-> EarnedFrom(k)']
<1>1. \A k \in MatchIds : f[k] \in Nat /\ g[k] \in Nat /\ (k # m => g[k] = f[k])
  BY ShareTypes, ShareTypesNext DEF EarnedFrom
<1>2. f[m] = EarnedFrom(m) /\ g[m] = EarnedFrom(m)'
  OBVIOUS
<1>3. totalFeesCollected = SumFunctionOnSet(f, MatchIds) /\ accruedFees <= totalFeesCollected
  BY DEF FeesEarnedByWins, SumFunction, EarnedFrom
<1>4. totalFeesCollected' = SumFunctionOnSet(g, MatchIds) /\ accruedFees' <= totalFeesCollected'
        => FeesEarnedByWins'
  BY DEF FeesEarnedByWins, SumFunction, EarnedFrom
<1>5. totalFeesCollected \in Nat /\ accruedFees \in Nat
  BY DEF TypeOK
<1> HIDE DEF f, g
<1>6. /\ SumFunctionOnSet(f, MatchIds) \in Nat
      /\ SumFunctionOnSet(g, MatchIds) = SumFunctionOnSet(f, MatchIds) - f[m] + g[m]
  BY <1>1, SumChange, AccountsAssumption
<1>7. totalFeesCollected' = SumFunctionOnSet(g, MatchIds)
  BY <1>1, <1>2, <1>3, <1>6
<1>8. accruedFees' <= totalFeesCollected'
  BY <1>3, <1>5
<1> QED BY <1>4, <1>7, <1>8

\* A payout raises totalOwed by exactly the credit it leaves behind, if any.
LEMMA PayKeepsCredits ==
  ASSUME NEW c \in CashType, NEW to \in Addr, NEW amt \in Nat,
         c.totalOwed = SumFunctionOnSet(c.owed, Addr)
  PROVE  _pay(c, to, amt).totalOwed = SumFunctionOnSet(_pay(c, to, amt).owed, Addr)
<1> USE AccountsAssumption
<1>1. CASE amt = 0 \/ CanTransfer(c.wallet, Escrow, to, amt)
  BY <1>1 DEF _pay, CashType
<1>2. CASE amt # 0 /\ ~ CanTransfer(c.wallet, Escrow, to, amt)
  <2> DEFINE credits == [c.owed EXCEPT ![to] = @ + amt]
  <2>1. _pay(c, to, amt).owed = credits /\ _pay(c, to, amt).totalOwed = c.totalOwed + amt
    BY <1>2 DEF _pay, CashType
  <2>2. /\ c.owed[to] \in Nat /\ credits[to] = c.owed[to] + amt
        /\ \A a \in Addr : c.owed[a] \in Nat /\ credits[a] \in Nat
                            /\ (a # to => credits[a] = c.owed[a])
    BY DEF CashType
  <2> HIDE DEF credits
  <2>3. /\ SumFunctionOnSet(c.owed, Addr) \in Nat
        /\ SumFunctionOnSet(credits, Addr) = SumFunctionOnSet(c.owed, Addr) - c.owed[to] + credits[to]
    BY <2>2, SumChange
  <2>4. SumFunctionOnSet(credits, Addr) = c.totalOwed + amt
    BY <2>2, <2>3
  <2> QED BY <2>1, <2>4
<1> QED BY <1>1, <1>2

\* CreditsAccounted, for the cash as a whole.
CashAccounted == Cash \in CashType /\ Cash.totalOwed = SumFunctionOnSet(Cash.owed, Addr)

LEMMA CreditsAsCash ==
  /\ TypeOK => (CreditsAccounted <=> CashAccounted)
  /\ TypeOK' => (CreditsAccounted' <=> CashAccounted')
<1>1. TypeOK => (CreditsAccounted <=> CashAccounted)
  BY DEF TypeOK, CreditsAccounted, CashAccounted, Cash, CashType, SumFunction
<1>2. TypeOK' => (CreditsAccounted' <=> CashAccounted')
  BY DEF TypeOK, CreditsAccounted, CashAccounted, Cash, CashType, SumFunction
<1> QED BY <1>1, <1>2

\* A step that leaves owed and totalOwed alone keeps the credits.
LEMMA CreditsStay ==
  ASSUME CreditsAccounted, UNCHANGED <<owed, totalOwed>>
  PROVE  CreditsAccounted'
BY DEF CreditsAccounted

\* A step that leaves the matches alone, and whose treasury sweep at most
\* lowers accruedFees, keeps the two sums over the matches.
LEMMA MatchesStay ==
  ASSUME TypeOK, TypeOK', StakesAccounted, FeesEarnedByWins, accruedFees' <= accruedFees,
         UNCHANGED <<matches, totalLocked, totalFeesCollected>>
  PROVE  StakesAccounted' /\ FeesEarnedByWins'
<1>1. StakesAccounted'
  BY DEF StakesAccounted, matchExists
<1>2. accruedFees' <= totalFeesCollected'
  BY DEF TypeOK, FeesEarnedByWins
<1>3. FeesEarnedByWins'
  BY <1>2 DEF FeesEarnedByWins
<1> QED BY <1>1, <1>3

\* createMatch locks one stake.
LEMMA CreateAccounted ==
  ASSUME IInv, IInv', Unopened, MoneyAccounted,
         NEW c \in Addr, NEW p \in Permits, createMatch(c, p)
  PROVE  MoneyAccounted'
<1> DEFINE m == p.matchId
           r == matches'[m]
<1>1. m \in MatchIds /\ p.stake \in Nat /\ c \in Addr /\ c # Zero
  BY InputsAssumption, AccountsAssumption DEF Permit
<1>2. /\ ~ matchExists(m) /\ totalLocked' = totalLocked + p.stake
      /\ UNCHANGED <<accruedFees, totalFeesCollected, owed, totalOwed>>
  BY DEF createMatch, fees
<1>3. /\ r.player1 = c /\ r.status = "OPEN" /\ r.stakePerPlayer = p.stake
      /\ \A k \in MatchIds : k # m => matches'[k] = matches[k]
  BY <1>1 DEF createMatch, IInv, TypeOK
<1>4. LockedFor(m) = 0 /\ LockedFor(m)' = p.stake
  BY <1>1, <1>2, <1>3 DEF LockedFor, matchExists, StakeHeld, BothStaked
<1>5. EarnedFrom(m)' = EarnedFrom(m) + 0
  <2>1. matches[m].status # "RESOLVED"
    BY <1>1, <1>2 DEF Unopened
  <2> QED BY <1>3, <2>1 DEF EarnedFrom
<1>6. totalLocked \in Nat /\ totalFeesCollected \in Nat /\ accruedFees \in Nat
  BY DEF IInv, TypeOK
<1>7. totalLocked' + LockedFor(m) = totalLocked + LockedFor(m)'
  BY <1>1, <1>2, <1>4, <1>6
<1>8. StakesAccounted'
  BY <1>1, <1>3, <1>7, LockedMoves DEF IInv, MoneyAccounted
<1>9. FeesEarnedByWins'
  BY <1>1, <1>2, <1>3, <1>5, <1>6, EarnedMoves DEF IInv, MoneyAccounted
<1> QED BY <1>2, <1>8, <1>9, CreditsStay DEF MoneyAccounted

\* joinMatch locks the other one.
LEMMA JoinAccounted ==
  ASSUME IInv, IInv', MoneyAccounted, NEW c \in Addr, NEW m \in MatchIds, joinMatch(c, m)
  PROVE  MoneyAccounted'
<1> DEFINE r == matches'[m]
           s == matches[m].stakePerPlayer
<1>1. /\ matchExists(m) /\ matches[m].status = "OPEN" /\ totalLocked' = totalLocked + s
      /\ UNCHANGED <<accruedFees, totalFeesCollected, owed, totalOwed>>
  BY DEF joinMatch, fees
<1>2. /\ r.player1 = matches[m].player1 /\ r.status = "LOCKED" /\ r.stakePerPlayer = s
      /\ \A k \in MatchIds : k # m => matches'[k] = matches[k]
      /\ s \in Nat
  BY DEF joinMatch, IInv, TypeOK, Match
<1>3. LockedFor(m) = s /\ LockedFor(m)' = 2 * s
  BY <1>1, <1>2 DEF LockedFor, matchExists, StakeHeld, BothStaked
<1>4. EarnedFrom(m)' = EarnedFrom(m) + 0
  BY <1>1, <1>2 DEF EarnedFrom
<1>5. totalLocked \in Nat /\ totalFeesCollected \in Nat /\ accruedFees \in Nat
  BY DEF IInv, TypeOK
<1> HIDE DEF s
<1>6. totalLocked' + LockedFor(m) = totalLocked + LockedFor(m)'
  BY <1>1, <1>2, <1>3, <1>5
<1>7. StakesAccounted'
  BY <1>2, <1>6, LockedMoves DEF IInv, MoneyAccounted
<1>8. FeesEarnedByWins'
  BY <1>1, <1>2, <1>4, <1>5, EarnedMoves DEF IInv, MoneyAccounted
<1> QED BY <1>1, <1>7, <1>8, CreditsStay DEF MoneyAccounted

\* A cancellation gives up what the match holds, charges no fee, and credits
\* each payee whose push failed.
LEMMA CancelAccounted ==
  ASSUME IInv, IInv', MoneyAccounted, NEW m \in MatchIds, matchExists(m),
         matches[m].status \in {"OPEN", "LOCKED", "DISPUTED"}, _cancel(m)
  PROVE  MoneyAccounted'
<1> DEFINE r  == matches[m]
           q  == matches'[m]
           s  == r.stakePerPlayer
           c1 == _pay(Cash, r.player1, s)
           c2 == IF BothStaked(r) THEN _pay(c1, r.player2, s) ELSE c1
<1>1. /\ totalLocked' = totalLocked - StakeHeld(r) /\ CashBecomes(c2)
      /\ UNCHANGED <<accruedFees, totalFeesCollected>>
  BY DEF _cancel, fees
<1>2. /\ q.player1 = r.player1 /\ q.status = "CANCELLED"
      /\ \A k \in MatchIds : k # m => matches'[k] = matches[k]
      /\ s \in Nat /\ r.player1 \in Addr /\ r.player2 \in Addr
  BY DEF _cancel, IInv, TypeOK, Match, Opponents
<1>3. LockedFor(m) = StakeHeld(r) /\ LockedFor(m)' = 0 /\ StakeHeld(r) \in Nat
  BY <1>2 DEF LockedFor, matchExists, StakeHeld, BothStaked
<1>4. EarnedFrom(m)' = EarnedFrom(m) + 0
  BY <1>2 DEF EarnedFrom
<1>5. totalLocked \in Nat /\ totalFeesCollected \in Nat /\ accruedFees \in Nat
  BY DEF IInv, TypeOK
<1>6. CreditsAccounted'
  <2>1. Cash \in CashType /\ Cash.totalOwed = SumFunctionOnSet(Cash.owed, Addr)
    BY CreditsAsCash DEF IInv, MoneyAccounted, CashAccounted
  <2>2. c1 \in CashType /\ c1.totalOwed = SumFunctionOnSet(c1.owed, Addr)
    BY <1>2, <2>1, PayKeepsBooks, PayKeepsCredits DEF PaidOut
  <2>3. c2 \in CashType /\ c2.totalOwed = SumFunctionOnSet(c2.owed, Addr)
    <3>1. CASE BothStaked(r)
      <4>1. c2 = _pay(c1, r.player2, s)
        BY <3>1
      <4> HIDE DEF c1, c2
      <4> QED BY <1>2, <2>2, <4>1, PayKeepsBooks, PayKeepsCredits DEF PaidOut
    <3>2. CASE ~ BothStaked(r)
      BY <2>2, <3>2
    <3> QED BY <3>1, <3>2
  <2> HIDE DEF c2
  <2>4. totalOwed' = SumFunctionOnSet(owed', Addr)
    BY <1>1, <2>3 DEF CashBecomes
  <2> QED BY <2>4 DEF IInv, TypeOK, CreditsAccounted, SumFunction
<1> HIDE DEF r, q, s, c1, c2
<1>7. totalLocked' + LockedFor(m) = totalLocked + LockedFor(m)'
  BY <1>1, <1>3, <1>5
<1>8. StakesAccounted'
  BY <1>2, <1>7, LockedMoves DEF IInv, MoneyAccounted
<1>9. FeesEarnedByWins'
  BY <1>1, <1>2, <1>4, <1>5, EarnedMoves DEF IInv, MoneyAccounted
<1> QED BY <1>6, <1>8, <1>9 DEF MoneyAccounted

\* A resolution gives up both stakes, and its fee is earned once.
LEMMA ResolveAccounted ==
  ASSUME IInv, IInv', MoneyAccounted, NEW m \in MatchIds, NEW c \in Addr, NEW w \in Addr,
         resolveMatch(c, m, w)
  PROVE  MoneyAccounted'
<1> DEFINE r   == matches[m]
           q   == matches'[m]
           pot == r.stakePerPlayer * 2
           fee == IF r.platformFee > pot THEN pot ELSE r.platformFee
<1>1. /\ matchExists(m) /\ BothStaked(r) /\ totalLocked >= pot /\ totalLocked' = totalLocked - pot
      /\ totalFeesCollected' = totalFeesCollected + fee /\ accruedFees' = accruedFees + fee
      /\ CashBecomes(_pay(Cash, w, pot - fee))
  BY DEF resolveMatch
<1>2. /\ q.player1 = r.player1 /\ q.status = "RESOLVED" /\ q.platformFee = r.platformFee
      /\ \A k \in MatchIds : k # m => matches'[k] = matches[k]
      /\ r.stakePerPlayer \in Nat /\ r.platformFee \in Nat /\ 2 * r.platformFee <= r.stakePerPlayer
  BY DEF resolveMatch, IInv, TypeOK, Match, FeeWithinQuarter
<1>3. fee = r.platformFee /\ pot = 2 * r.stakePerPlayer /\ pot - fee \in Nat
  <2> HIDE DEF r, q
  <2> QED BY <1>2
<1>4. LockedFor(m) = pot /\ LockedFor(m)' = 0
  BY <1>1, <1>2, <1>3 DEF LockedFor, matchExists, StakeHeld, BothStaked
<1>5. EarnedFrom(m)' = EarnedFrom(m) + fee
  BY <1>1, <1>2, <1>3 DEF EarnedFrom, BothStaked
<1>6. totalLocked \in Nat /\ totalFeesCollected \in Nat /\ accruedFees \in Nat
  BY DEF IInv, TypeOK
<1>7. CreditsAccounted'
  <2>1. Cash \in CashType /\ Cash.totalOwed = SumFunctionOnSet(Cash.owed, Addr)
    BY CreditsAsCash DEF IInv, MoneyAccounted, CashAccounted
  <2>2. _pay(Cash, w, pot - fee).totalOwed = SumFunctionOnSet(_pay(Cash, w, pot - fee).owed, Addr)
    <3> HIDE DEF pot, fee
    <3> QED BY <1>3, <2>1, PayKeepsCredits
  <2> HIDE DEF pot, fee
  <2>3. totalOwed' = SumFunctionOnSet(owed', Addr)
    BY <1>1, <2>2 DEF CashBecomes
  <2> QED BY <2>3 DEF IInv, TypeOK, CreditsAccounted, SumFunction
<1>8. fee \in Nat /\ pot \in Nat
  BY <1>2, <1>3
<1> HIDE DEF r, q, pot, fee
<1>9. totalLocked' + LockedFor(m) = totalLocked + LockedFor(m)'
  BY <1>1, <1>4, <1>6, <1>8
<1>10. StakesAccounted'
  BY <1>2, <1>9, LockedMoves DEF IInv, MoneyAccounted
<1>11. FeesEarnedByWins'
  BY <1>1, <1>2, <1>5, <1>8, EarnedMoves DEF IInv, MoneyAccounted
<1> QED BY <1>7, <1>10, <1>11 DEF MoneyAccounted

\* A dispute changes neither what a match holds nor what it earned.
LEMMA DisputeAccounted ==
  ASSUME IInv, IInv', MoneyAccounted, NEW c \in Addr, NEW m \in MatchIds, flagDispute(c, m)
  PROVE  MoneyAccounted'
<1>1. /\ matches[m].status = "LOCKED"
      /\ UNCHANGED <<totalLocked, accruedFees, totalFeesCollected, owed, totalOwed>>
  BY DEF flagDispute, fees, cash
<1>2. /\ matches'[m].player1 = matches[m].player1 /\ matches'[m].status = "DISPUTED"
      /\ matches'[m].stakePerPlayer = matches[m].stakePerPlayer
      /\ \A k \in MatchIds : k # m => matches'[k] = matches[k]
  BY DEF flagDispute, IInv, TypeOK, Match
<1>3. LockedFor(m)' = LockedFor(m) /\ EarnedFrom(m)' = EarnedFrom(m) + 0
  BY <1>1, <1>2 DEF LockedFor, EarnedFrom, matchExists, StakeHeld, BothStaked
<1>4. totalFeesCollected' = totalFeesCollected + 0 /\ accruedFees' = accruedFees + 0
  BY <1>1 DEF IInv, TypeOK
<1>5. StakesAccounted'
  BY <1>1, <1>2, <1>3, LockedMoves DEF IInv, MoneyAccounted
<1>6. FeesEarnedByWins'
  BY <1>2, <1>3, <1>4, EarnedMoves DEF IInv, MoneyAccounted
<1> QED BY <1>1, <1>5, <1>6, CreditsStay DEF MoneyAccounted

\* withdraw clears one credit and takes it out of totalOwed.
LEMMA WithdrawAccounted ==
  ASSUME IInv, IInv', MoneyAccounted, NEW c \in Addr, withdraw(c)
  PROVE  MoneyAccounted'
<1>1. /\ totalOwed >= owed[c] /\ owed' = [owed EXCEPT ![c] = 0] /\ totalOwed' = totalOwed - owed[c]
      /\ UNCHANGED <<matches, totalLocked, accruedFees, totalFeesCollected>>
  BY DEF withdraw, fees
<1>2. /\ owed \in [Addr -> Nat] /\ totalOwed \in Nat /\ accruedFees \in Nat /\ owed[c] \in Nat
      /\ totalOwed = SumFunctionOnSet(owed, Addr)
  BY DEF IInv, TypeOK, MoneyAccounted, CreditsAccounted, SumFunction
<1>3. \A a \in Addr : owed[a] \in Nat /\ owed'[a] \in Nat /\ (a # c => owed'[a] = owed[a])
  BY <1>1, <1>2
<1>4. SumFunctionOnSet(owed', Addr) = SumFunctionOnSet(owed, Addr) - owed[c] + owed'[c]
  BY <1>3, SumChange, AccountsAssumption
<1>5. SumFunctionOnSet(owed', Addr) = totalOwed'
  BY <1>1, <1>2, <1>4
<1>6. CreditsAccounted'
  BY <1>5 DEF IInv, TypeOK, CreditsAccounted, SumFunction
<1>7. StakesAccounted' /\ FeesEarnedByWins'
  BY <1>1, <1>2, MatchesStay DEF IInv, MoneyAccounted
<1> QED BY <1>6, <1>7 DEF MoneyAccounted

\* A match that was never created stays untouched until it is.
LEMMA UnopenedStep == IInv /\ Unopened /\ [Next]_vars => Unopened'
<1> SUFFICES ASSUME IInv, Unopened, [Next]_vars PROVE Unopened'
  OBVIOUS
<1> USE DEF Unopened, matchExists
<1>1. ASSUME NEW c \in Addr, NEW p \in Permits, createMatch(c, p) PROVE Unopened'
  BY <1>1, InputsAssumption DEF createMatch, Permit, IInv, TypeOK
<1>2. ASSUME NEW m \in MatchIds, matchExists(m), matches'[m].player1 = matches[m].player1,
             \A k \in MatchIds : k # m => matches'[k] = matches[k]
      PROVE  Unopened'
  BY <1>2
<1>3. ASSUME NEW c \in Addr, NEW m \in MatchIds, joinMatch(c, m) PROVE Unopened'
  BY <1>2, <1>3 DEF joinMatch, IInv, TypeOK, Match
<1>4. ASSUME NEW m \in MatchIds, refundExpired(m) \/ \E c \in Addr : cancelMatch(c, m)
      PROVE  Unopened'
  BY <1>2, <1>4 DEF refundExpired, cancelMatch, _cancel, IInv, TypeOK, Match
<1>5. ASSUME NEW c \in Addr, NEW w \in Addr, NEW m \in MatchIds, resolveMatch(c, m, w)
      PROVE  Unopened'
  BY <1>2, <1>5 DEF resolveMatch, IInv, TypeOK, Match
<1>6. ASSUME NEW c \in Addr, NEW m \in MatchIds, flagDispute(c, m) PROVE Unopened'
  BY <1>2, <1>6 DEF flagDispute, IInv, TypeOK, Match
<1>7. ASSUME UNCHANGED matches PROVE Unopened'
  BY <1>7
<1>8. CASE (\E c \in Addr : withdraw(c)) \/ withdrawFees
  BY <1>7, <1>8 DEF withdraw, withdrawFees
<1>9. CASE OwnerNext
  BY <1>7, <1>9, OwnerInvariant DEF money
<1>10. CASE (\E a \in Blockable : blacklist(a)) \/ tick \/ UNCHANGED vars
  BY <1>7, <1>10, SurroundingsInvariant
<1> QED BY <1>1, <1>3, <1>4, <1>5, <1>6, <1>8, <1>9, <1>10 DEF Next, PlayerNext, ResolverNext

\* Nothing is locked, owed or earned before the first match.
LEMMA InitAccounted == Init => MoneyAccounted /\ Unopened
<1> SUFFICES ASSUME Init PROVE MoneyAccounted /\ Unopened
  OBVIOUS
<1> USE AccountsAssumption
<1>1. \A m \in MatchIds : matches[m] = ZeroMatch
  BY DEF Init
<1>2. Unopened
  BY <1>1 DEF Unopened, ZeroMatch
<1>3. \A m \in MatchIds : LockedFor(m) = 0 /\ EarnedFrom(m) = 0
  BY <1>1 DEF LockedFor, EarnedFrom, matchExists, ZeroMatch
<1>4. SumFunctionOnSet([m \in MatchIds |-> LockedFor(m)], MatchIds) = 0
  BY <1>3, SumZero
<1>5. SumFunctionOnSet([m \in MatchIds |-> EarnedFrom(m)], MatchIds) = 0
  BY <1>3, SumZero
<1>6. SumFunctionOnSet(owed, Addr) = 0 /\ DOMAIN owed = Addr
  BY SumZero DEF Init
<1>7. StakesAccounted
  BY <1>4 DEF StakesAccounted, SumFunction, LockedFor, Init
<1>8. CreditsAccounted
  BY <1>6 DEF CreditsAccounted, SumFunction, Init
<1>9. FeesEarnedByWins
  BY <1>5 DEF FeesEarnedByWins, SumFunction, EarnedFrom, Init
<1> QED BY <1>2, <1>7, <1>8, <1>9 DEF MoneyAccounted

\* Every step keeps the running totals the sums they stand for.
LEMMA NextAccounted == IInv /\ Unopened /\ MoneyAccounted /\ [Next]_vars => MoneyAccounted'
<1> SUFFICES ASSUME IInv, IInv', Unopened, MoneyAccounted, [Next]_vars PROVE MoneyAccounted'
  BY NextInvariant
<1>1. CASE \E c \in Addr, p \in Permits : createMatch(c, p)
  BY <1>1, CreateAccounted
<1>2. CASE \E c \in Addr, m \in MatchIds : joinMatch(c, m)
  BY <1>2, JoinAccounted
<1>3. CASE \E m \in MatchIds : refundExpired(m) \/ \E c \in Addr : cancelMatch(c, m)
  BY <1>3, LiveCancelled, CancelAccounted
<1>4. CASE \E c \in Addr : withdraw(c)
  BY <1>4, WithdrawAccounted
<1>5. ASSUME accruedFees' <= accruedFees,
             UNCHANGED <<matches, totalLocked, totalFeesCollected, owed, totalOwed>>
      PROVE  MoneyAccounted'
  BY <1>5, MatchesStay, CreditsStay DEF IInv, MoneyAccounted
<1>6. CASE withdrawFees
  <2>1. accruedFees' <= accruedFees
    BY <1>6 DEF withdrawFees, IInv, TypeOK
  <2> QED BY <1>5, <1>6, <2>1 DEF withdrawFees
<1>7. CASE \E c, w \in Addr, m \in MatchIds : resolveMatch(c, m, w)
  BY <1>7, ResolveAccounted
<1>8. CASE \E c \in Addr, m \in MatchIds : flagDispute(c, m)
  BY <1>8, DisputeAccounted
<1>9. ASSUME UNCHANGED <<matches, totalLocked, accruedFees, totalFeesCollected, owed, totalOwed>>
      PROVE  MoneyAccounted'
  BY <1>5, <1>9 DEF IInv, TypeOK
<1>10. CASE OwnerNext
  BY <1>9, <1>10, OwnerInvariant DEF money, fees, cash
<1>11. CASE (\E a \in Blockable : blacklist(a)) \/ tick \/ UNCHANGED vars
  BY <1>9, <1>11, SurroundingsInvariant DEF fees, cash
<1> QED BY <1>1, <1>2, <1>3, <1>4, <1>6, <1>7, <1>8, <1>10, <1>11
        DEF Next, PlayerNext, ResolverNext

\* For any number of matches and accounts and any sequence of calls, the
\* totals the contract keeps by increments are the sums they stand for.
THEOREM TotalsAreSums == Spec => []MoneyAccounted
<1>1. IInv /\ Unopened /\ MoneyAccounted /\ [Next]_vars => (Unopened /\ MoneyAccounted)'
  BY UnopenedStep, NextAccounted
<1> QED BY <1>1, InitAccounted, Invariance, PTL DEF Spec

-----------------------------------------------------------------------------
(* The ways out, by the guards of the calls.  WayOut speaks of ENABLED,    *)
(* which has no rules here; Guarded shows that each of the calls is a      *)
(* guard and one assignment to every variable, so the guard is when it can *)
(* be made.                                                                *)

MayRefund(m) ==
  /\ matchExists(m) /\ _refundableAt(matches[m]) # 0
  /\ now >= _refundableAt(matches[m])
  /\ totalLocked >= StakeHeld(matches[m])

MayResolve(caller, m, winner) ==
  /\ caller = resolver /\ matchExists(m) /\ BothStaked(matches[m])
  /\ winner \in {matches[m].player1, matches[m].player2}
  /\ now < matches[m].lockedAt + lockTimeout
  /\ totalLocked >= matches[m].stakePerPlayer * 2

MayJoin(caller, m) ==
  /\ ~paused /\ matchExists(m) /\ matches[m].status = "OPEN"
  /\ caller = matches[m].player2
  /\ now < matches[m].createdAt + openTimeout
  /\ CanTransfer(wallet, caller, Escrow, matches[m].stakePerPlayer)

MayWithdraw(a) ==
  owed[a] # 0 /\ totalOwed >= owed[a] /\ CanTransfer(wallet, Escrow, a, owed[a])

MaySweep == accruedFees # 0 /\ CanTransfer(wallet, Escrow, feeRecipient, accruedFees)

\* One value for every variable a player or the resolver can change.
Becomes(ms, locked, accrued, collected, c) ==
  /\ matches' = ms /\ totalLocked' = locked
  /\ accruedFees' = accrued /\ totalFeesCollected' = collected
  /\ wallet' = c.wallet /\ owed' = c.owed /\ totalOwed' = c.totalOwed
  /\ UNCHANGED <<admin, blocked, now>>

HandedBack(r) ==
  LET c1 == _pay(Cash, r.player1, r.stakePerPlayer)
  IN IF BothStaked(r) THEN _pay(c1, r.player2, r.stakePerPlayer) ELSE c1

\* Each call is its guard and one assignment to every variable.
LEMMA Guarded ==
  ASSUME NEW m \in MatchIds, NEW c \in Addr, NEW w \in Addr
  PROVE  /\ refundExpired(m) <=> MayRefund(m) /\
              Becomes([matches EXCEPT ![m].status = "CANCELLED"], totalLocked - StakeHeld(matches[m]),
                      accruedFees, totalFeesCollected, HandedBack(matches[m]))
         /\ LET pot == matches[m].stakePerPlayer * 2
                fee == IF matches[m].platformFee > pot THEN pot ELSE matches[m].platformFee
            IN resolveMatch(c, m, w) <=> MayResolve(c, m, w) /\
                 Becomes([matches EXCEPT ![m].status = "RESOLVED"], totalLocked - pot,
                         accruedFees + fee, totalFeesCollected + fee, _pay(Cash, w, pot - fee))
         /\ LET stake == matches[m].stakePerPlayer
            IN joinMatch(c, m) <=> MayJoin(c, m) /\
                 Becomes([matches EXCEPT ![m].status = "LOCKED", ![m].lockedAt = now], totalLocked + stake,
                         accruedFees, totalFeesCollected,
                         [Cash EXCEPT !.wallet = Transferred(wallet, c, Escrow, stake)])
         /\ withdraw(c) <=> MayWithdraw(c) /\
              Becomes(matches, totalLocked, accruedFees, totalFeesCollected,
                      [wallet |-> Transferred(wallet, Escrow, c, owed[c]),
                       owed |-> [owed EXCEPT ![c] = 0], totalOwed |-> totalOwed - owed[c]])
         /\ withdrawFees <=> MaySweep /\
              Becomes(matches, totalLocked, 0, totalFeesCollected,
                      [Cash EXCEPT !.wallet = Transferred(wallet, Escrow, feeRecipient, accruedFees)])
<1>1. refundExpired(m) <=> MayRefund(m) /\
        Becomes([matches EXCEPT ![m].status = "CANCELLED"], totalLocked - StakeHeld(matches[m]),
                accruedFees, totalFeesCollected, HandedBack(matches[m]))
  BY DEF refundExpired, _cancel, MayRefund, Becomes, HandedBack, CashBecomes, fees
<1>2. LET pot == matches[m].stakePerPlayer * 2
          fee == IF matches[m].platformFee > pot THEN pot ELSE matches[m].platformFee
      IN resolveMatch(c, m, w) <=> MayResolve(c, m, w) /\
           Becomes([matches EXCEPT ![m].status = "RESOLVED"], totalLocked - pot,
                   accruedFees + fee, totalFeesCollected + fee, _pay(Cash, w, pot - fee))
  BY DEF resolveMatch, MayResolve, Becomes, CashBecomes
<1>3. LET stake == matches[m].stakePerPlayer
      IN joinMatch(c, m) <=> MayJoin(c, m) /\
           Becomes([matches EXCEPT ![m].status = "LOCKED", ![m].lockedAt = now], totalLocked + stake,
                   accruedFees, totalFeesCollected,
                   [Cash EXCEPT !.wallet = Transferred(wallet, c, Escrow, stake)])
  BY DEF joinMatch, MayJoin, Becomes, Cash, fees
<1>4. withdraw(c) <=> MayWithdraw(c) /\
        Becomes(matches, totalLocked, accruedFees, totalFeesCollected,
                [wallet |-> Transferred(wallet, Escrow, c, owed[c]),
                 owed |-> [owed EXCEPT ![c] = 0], totalOwed |-> totalOwed - owed[c]])
  BY DEF withdraw, MayWithdraw, Becomes, fees
<1>5. withdrawFees <=> MaySweep /\
        Becomes(matches, totalLocked, 0, totalFeesCollected,
                [Cash EXCEPT !.wallet = Transferred(wallet, Escrow, feeRecipient, accruedFees)])
  BY DEF withdrawFees, MaySweep, Becomes, Cash
<1> QED BY <1>1, <1>2, <1>3, <1>4, <1>5

\* WayOut with the guards in the place of ENABLED.
WaysOut ==
  /\ \A m \in MatchIds : matchExists(m) =>
       /\ BothStaked(matches[m]) => (MayRefund(m) <=> ~ \E c, w \in Addr : MayResolve(c, m, w))
       /\ matches[m].status = "OPEN" => ~ (MayRefund(m) /\ \E c \in Addr : MayJoin(c, m))
  /\ Escrow \notin blocked =>
       /\ \A a \in Addr \ blocked : owed[a] > 0 => MayWithdraw(a)
       /\ accruedFees > 0 /\ feeRecipient \notin blocked => MaySweep

\* totalLocked covers every single match, so no refund or resolve underflows.
LEMMA LockedCovers ==
  ASSUME TypeOK, StakesAccounted, NEW m \in MatchIds
  PROVE  LockedFor(m) <= totalLocked
<1> DEFINE f == [k \in MatchIds |-> LockedFor(k)]
<1>1. \A k \in MatchIds : f[k] \in Nat
  BY ShareTypes
<1>2. f[m] = LockedFor(m) /\ totalLocked = SumFunctionOnSet(f, MatchIds)
  BY DEF StakesAccounted, SumFunction, LockedFor
<1> HIDE DEF f
<1> QED BY <1>1, <1>2, AccountsAssumption, SumCovers

\* totalOwed covers every single credit.
LEMMA OwedCovers ==
  ASSUME TypeOK, CreditsAccounted, NEW a \in Addr
  PROVE  owed[a] <= totalOwed
<1>1. (\A b \in Addr : owed[b] \in Nat) /\ totalOwed = SumFunctionOnSet(owed, Addr)
  BY DEF TypeOK, CreditsAccounted, SumFunction
<1> QED BY <1>1, AccountsAssumption, SumCovers

\* The books and the windows leave exactly one way out of a match.
LEMMA OneWindow ==
  ASSUME IInv, MoneyAccounted, NEW m \in MatchIds, matchExists(m)
  PROVE  /\ BothStaked(matches[m]) => (MayRefund(m) <=> ~ \E c, w \in Addr : MayResolve(c, m, w))
         /\ matches[m].status = "OPEN" => ~ (MayRefund(m) /\ \E c \in Addr : MayJoin(c, m))
<1> DEFINE r == matches[m]
<1>1. /\ r.lockedAt \in Nat /\ r.createdAt \in Nat /\ r.stakePerPlayer \in Nat /\ now \in Nat /\ totalLocked \in Nat
      /\ r.player1 \in Addr /\ resolver \in Addr
  BY AccountsAssumption DEF IInv, TypeOK, Match, matchExists
<1>2. LockedFor(m) <= totalLocked /\ LockedFor(m) = StakeHeld(r)
  BY LockedCovers DEF IInv, MoneyAccounted, LockedFor
<1>3. ASSUME BothStaked(r) PROVE MayRefund(m) <=> ~ \E c, w \in Addr : MayResolve(c, m, w)
  <2>1. r.status # "OPEN" /\ _refundableAt(r) = r.lockedAt + lockTimeout /\ StakeHeld(r) = 2 * r.stakePerPlayer
    BY <1>3 DEF BothStaked, _refundableAt, StakeHeld
  <2>2. r.lockedAt + lockTimeout \in Nat \ {0}
    BY <1>1, ParametersAssumption
  <2>3. MayRefund(m) <=> now >= r.lockedAt + lockTimeout
    BY <1>1, <1>2, <2>1, <2>2 DEF MayRefund
  <2>4. \A c, w \in Addr : MayResolve(c, m, w) => now < r.lockedAt + lockTimeout
    BY DEF MayResolve
  <2>5. now < r.lockedAt + lockTimeout => MayResolve(resolver, m, r.player1)
    BY <1>1, <1>2, <1>3, <2>1 DEF MayResolve
  <2> QED BY <1>1, <2>2, <2>3, <2>4, <2>5
<1>4. ASSUME r.status = "OPEN" PROVE ~ (MayRefund(m) /\ \E c \in Addr : MayJoin(c, m))
  <2>1. _refundableAt(r) = r.createdAt + openTimeout /\ r.createdAt + openTimeout \in Nat
    BY <1>1, <1>4, ParametersAssumption DEF _refundableAt
  <2> QED BY <1>1, <2>1 DEF MayRefund, MayJoin
<1> QED BY <1>3, <1>4

\* The balance covers every credit and the fees at once.
LEMMA MoneyComesOut ==
  ASSUME IInv, MoneyAccounted, Escrow \notin blocked
  PROVE  /\ \A a \in Addr \ blocked : owed[a] > 0 => MayWithdraw(a)
         /\ accruedFees > 0 /\ feeRecipient \notin blocked => MaySweep
<1>1. /\ totalLocked \in Nat /\ accruedFees \in Nat /\ totalOwed \in Nat /\ wallet[Escrow] \in Nat
      /\ wallet[Escrow] = totalLocked + accruedFees + totalOwed
  BY DEF IInv, TypeOK, Solvent
<1>2. ASSUME NEW a \in Addr \ blocked, owed[a] > 0 PROVE MayWithdraw(a)
  <2>1. owed[a] \in Nat /\ owed[a] <= totalOwed
    BY OwedCovers DEF IInv, MoneyAccounted, TypeOK
  <2> QED BY <1>1, <1>2, <2>1 DEF MayWithdraw, CanTransfer
<1>3. ASSUME accruedFees > 0, feeRecipient \notin blocked PROVE MaySweep
  BY <1>1, <1>3 DEF MaySweep, CanTransfer
<1> QED BY <1>2, <1>3

\* At every instant a fully staked match can be resolved or refunded and not
\* both, an open one cannot be joined and refunded at once, and a credit or
\* the fees can leave unless the token itself blocks one of the two sides:
\* no sequence of calls on other matches, and no pause, takes that away.
THEOREM MoneyHasAWayOut == Spec => []WaysOut
<1>1. IInv /\ MoneyAccounted => WaysOut
  BY OneWindow, MoneyComesOut DEF WaysOut
<1> QED BY <1>1, Invariance, TotalsAreSums, PTL

-----------------------------------------------------------------------------
(* The terms of a match *)

SameTerms(r, q) ==
  /\ r.player1 = q.player1 /\ r.player2 = q.player2
  /\ r.stakePerPlayer = q.stakePerPlayer /\ r.platformFee = q.platformFee
  /\ r.createdAt = q.createdAt

\* A step that changes only the status and the lock time of one live match.
LEMMA LiveMatchChanges ==
  ASSUME NEW m \in MatchIds, matches[m].status \notin {"RESOLVED", "CANCELLED"},
         \A k \in MatchIds \ {m} : matches'[k] = matches[k],
         SameTerms(matches'[m], matches[m])
  PROVE  TermsKept
<1> SUFFICES ASSUME NEW k \in MatchIds, matchExists(k)
             PROVE  /\ \A f \in {"player1", "player2", "stakePerPlayer", "platformFee", "createdAt"} :
                          matches'[k][f] = matches[k][f]
                    /\ matches[k].status \in {"RESOLVED", "CANCELLED"} => matches'[k] = matches[k]
  BY DEF TermsKept
<1>1. CASE k # m
  BY <1>1
<1>2. CASE k = m
  BY <1>2 DEF SameTerms
<1> QED BY <1>1, <1>2

\* A settlement, a cancellation or a dispute of a live match keeps its terms.
LEMMA StatusChanges ==
  ASSUME IInv, NEW m \in MatchIds, matches[m].status \notin {"RESOLVED", "CANCELLED"},
         NEW st \in MatchStatus, matches' = [matches EXCEPT ![m].status = st]
  PROVE  TermsKept
<1>1. SameTerms(matches'[m], matches[m])
  BY DEF IInv, TypeOK, Match, SameTerms
<1>2. \A k \in MatchIds \ {m} : matches'[k] = matches[k]
  BY DEF IInv, TypeOK
<1> QED BY <1>1, <1>2, LiveMatchChanges

\* No step touches the terms of a match or a match that is settled.
LEMMA TermsStep == IInv /\ [Next]_vars => TermsKept
<1> SUFFICES ASSUME IInv, [Next]_vars PROVE TermsKept
  OBVIOUS
<1> USE DEF MatchStatus, BothStaked
<1>1. ASSUME NEW c \in Addr, NEW p \in Permits, createMatch(c, p) PROVE TermsKept
  BY <1>1 DEF createMatch, TermsKept, IInv, TypeOK
<1>2. ASSUME NEW c \in Addr, NEW m \in MatchIds, joinMatch(c, m) PROVE TermsKept
  <2>1. /\ matches[m].status = "OPEN"
        /\ matches' = [matches EXCEPT ![m].status = "LOCKED", ![m].lockedAt = now]
    BY <1>2 DEF joinMatch
  <2>2. SameTerms(matches'[m], matches[m])
    BY <2>1 DEF IInv, TypeOK, Match, SameTerms
  <2>3. \A k \in MatchIds \ {m} : matches'[k] = matches[k]
    BY <2>1 DEF IInv, TypeOK
  <2> QED BY <2>1, <2>2, <2>3, LiveMatchChanges
<1>3. ASSUME NEW m \in MatchIds, refundExpired(m) \/ \E c \in Addr : cancelMatch(c, m)
      PROVE  TermsKept
  BY <1>3, LiveCancelled, StatusChanges DEF _cancel
<1>4. ASSUME NEW c \in Addr, NEW w \in Addr, NEW m \in MatchIds, resolveMatch(c, m, w)
      PROVE  TermsKept
  BY <1>4, StatusChanges DEF resolveMatch
<1>5. ASSUME NEW c \in Addr, NEW m \in MatchIds, flagDispute(c, m) PROVE TermsKept
  BY <1>5, StatusChanges DEF flagDispute
<1>6. ASSUME UNCHANGED matches PROVE TermsKept
  BY <1>6 DEF TermsKept
<1>7. CASE (\E c \in Addr : withdraw(c)) \/ withdrawFees
  BY <1>6, <1>7 DEF withdraw, withdrawFees
<1>8. CASE OwnerNext
  BY <1>6, <1>8, OwnerInvariant DEF money
<1>9. CASE (\E a \in Blockable : blacklist(a)) \/ tick \/ UNCHANGED vars
  BY <1>6, <1>9, SurroundingsInvariant
<1> QED BY <1>1, <1>2, <1>3, <1>4, <1>5, <1>7, <1>8, <1>9 DEF Next, PlayerNext, ResolverNext

\* What a match was made with outlives every later call, and a settled match
\* is settled for good.
THEOREM TermsStay == Spec => TermsFixed
  BY Invariance, TermsStep, PTL DEF Spec, TermsFixed

-----------------------------------------------------------------------------
(* The refinement: every transaction of the contract is one step of        *)
(* EscrowPromise, or invisible in it.                                      *)

\* The promise's state, as the contract shows it.
stage  == [m \in MatchIds |-> Stage(matches[m])]
terms  == [m \in MatchIds |->
             [player1 |-> matches[m].player1, player2 |-> matches[m].player2,
              stake |-> matches[m].stakePerPlayer, fee |-> matches[m].platformFee]]
purse  == [a \in Addr |-> wallet[a] + owed[a]]
feePot == accruedFees

\* A freshly deployed contract has no match, and no fee to collect.
LEMMA InitPromise == Init => Promise!Init
<1> SUFFICES ASSUME Init PROVE Promise!Init
  OBVIOUS
<1> USE AccountsAssumption, ParametersAssumption DEF Init
<1>1. stage = [m \in MatchIds |-> "none"]
  BY DEF stage, Stage, ZeroMatch
<1>2. terms = [m \in MatchIds |-> Promise!NoTerms]
  BY DEF terms, ZeroMatch, Promise!NoTerms
<1>3. purse \in [Addr -> Nat]
  BY DEF purse
<1> QED BY <1>1, <1>2, <1>3 DEF Promise!Init, stage, terms, purse

\* What a step that touches one match does to the stages.
LEMMA StageMoves ==
  ASSUME IInv, NEW m \in MatchIds, NEW st,
         Stage(matches'[m]) = st, \A k \in MatchIds \ {m} : matches'[k] = matches[k]
  PROVE  stage' = [stage EXCEPT ![m] = st]
  BY DEF stage

\* What it does to the terms, when it keeps the match's own.
LEMMA TermsSame ==
  ASSUME IInv, \A k \in MatchIds : SameTerms(matches'[k], matches[k])
  PROVE  terms' = terms
  BY DEF terms, SameTerms

\* A status change of one match.
LEMMA StatusMoves ==
  ASSUME IInv, NEW m \in MatchIds, matchExists(m), NEW st \in {"LOCKED", "DISPUTED", "RESOLVED", "CANCELLED"},
         matches' = [matches EXCEPT ![m].status = st]
  PROVE  /\ stage' = [stage EXCEPT ![m] = IF st \in {"LOCKED", "DISPUTED"} THEN "locked" ELSE "settled"]
         /\ terms' = terms
<1>1. /\ matches'[m].status = st
      /\ \A k \in MatchIds : SameTerms(matches'[k], matches[k])
      /\ \A k \in MatchIds \ {m} : matches'[k] = matches[k]
  BY DEF IInv, TypeOK, Match, SameTerms
<1>2. matches'[m].player1 # Zero
  BY <1>1 DEF SameTerms, matchExists
<1>3. Stage(matches'[m]) = IF st \in {"LOCKED", "DISPUTED"} THEN "locked" ELSE "settled"
  BY <1>1, <1>2 DEF Stage, BothStaked
<1> QED BY <1>1, <1>3, StageMoves, TermsSame

\* One account pays x, and no other purse changes.
LEMMA PursePays ==
  ASSUME NEW c \in Addr, NEW x \in Nat,
         \A a \in Addr : wallet[a] \in Nat /\ owed[a] \in Nat, wallet[c] >= x,
         \A a \in Addr : wallet'[a] = IF a = c THEN wallet[a] - x ELSE wallet[a],
         owed' = owed
  PROVE  purse[c] >= x /\ purse' = [purse EXCEPT ![c] = @ - x]
<1>1. /\ purse = [a \in Addr |-> purse[a]] /\ purse' = [a \in Addr |-> purse'[a]]
      /\ \A a \in Addr : purse[a] = wallet[a] + owed[a] /\ purse'[a] = wallet'[a] + owed'[a]
  BY DEF purse
<1>2. ASSUME NEW a \in Addr PROVE purse'[a] = IF a = c THEN purse[a] - x ELSE purse[a]
  <2> DEFINE w == wallet[a]
             o == owed[a]
  <2>1. /\ w \in Nat /\ o \in Nat /\ purse[a] = w + o /\ purse'[a] = wallet'[a] + o
        /\ wallet'[a] = IF a = c THEN w - x ELSE w
    BY <1>1
  <2>2. a = c => w >= x
    OBVIOUS
  <2> HIDE DEF w, o
  <2>3. CASE a = c
    <3>1. purse'[a] = (w - x) + o /\ (w - x) + o = (w + o) - x
      BY <2>1, <2>2, <2>3
    <3> QED BY <2>1, <2>3, <3>1
  <2>4. CASE a # c
    BY <2>1, <2>4
  <2> QED BY <2>3, <2>4
<1>3. purse[c] >= x
  BY <1>1
<1> HIDE DEF purse
<1> QED BY <1>1, <1>2, <1>3

\* createMatch agrees a match and takes the first stake.
LEMMA CreateAgrees ==
  ASSUME IInv, NEW c \in Addr, NEW p \in Permits, createMatch(c, p)
  PROVE  Promise!Agree(p.matchId)
<1> USE AccountsAssumption
<1> DEFINE fee == _platformFee(p.stake * 2)
           m == p.matchId
           r == [player1 |-> c, player2 |-> p.player2, stakePerPlayer |-> p.stake,
                 status |-> "OPEN", createdAt |-> now, lockedAt |-> 0, platformFee |-> fee]
<1>1. /\ p.stake \in Nat /\ m \in MatchIds /\ p.player2 \in Addr /\ p.player2 # c
      /\ MIN_STAKE <= p.stake
  BY InputsAssumption DEF createMatch, Permit
<1>2. fee \in Nat /\ 2 * fee <= p.stake
  BY <1>1, FeeBound DEF IInv, TypeOK
<1>3. matches' = [matches EXCEPT ![m] = r] /\ ~ matchExists(m)
  BY DEF createMatch
<1> HIDE DEF fee
<1>4. matches'[m] = r /\ \A k \in MatchIds \ {m} : matches'[k] = matches[k]
  BY <1>1, <1>3 DEF IInv, TypeOK
<1>5. stage[m] = "none"
  BY <1>1, <1>3 DEF stage, Stage, matchExists
<1>6. stage' = [stage EXCEPT ![m] = "open"]
  <2>1. Stage(matches'[m]) = "open"
    BY <1>4 DEF Stage
  <2> HIDE DEF m
  <2> QED BY <1>1, <1>4, <2>1, StageMoves
<1>7. terms'[m] = [player1 |-> c, player2 |-> p.player2, stake |-> p.stake, fee |-> fee]
  BY <1>1, <1>4 DEF terms
<1>8. \A k \in MatchIds \ {m} : terms'[k] = terms[k]
  BY <1>4 DEF terms
<1>9. Promise!FairFee(terms'[m])
  BY <1>1, <1>2, <1>7 DEF Promise!FairFee
<1>10. /\ wallet[c] >= p.stake /\ wallet' = Transferred(wallet, c, Escrow, p.stake)
       /\ owed' = owed /\ accruedFees' = accruedFees
  BY DEF createMatch, CanTransfer, fees
<1>11. purse[c] >= p.stake /\ purse' = [purse EXCEPT ![c] = @ - p.stake]
  <2>1. \A a \in Addr : wallet'[a] = IF a = c THEN wallet[a] - p.stake ELSE wallet[a]
    BY <1>1, <1>10 DEF Transferred, IInv, TypeOK
  <2>2. \A a \in Addr : wallet[a] \in Nat /\ owed[a] \in Nat
    BY DEF IInv, TypeOK
  <2> QED BY <1>1, <1>10, <2>1, <2>2, PursePays
<1>12. /\ terms'[m].player1 = c /\ terms'[m].player2 = p.player2 /\ terms'[m].stake = p.stake
  BY <1>7
<1>13. Promise!Agree(m) <=>
         /\ stage[m] = "none"
         /\ stage' = [stage EXCEPT ![m] = "open"]
         /\ \E a, b \in Addr :
              /\ a # b
              /\ terms'[m].player1 = a /\ terms'[m].player2 = b
              /\ Promise!FairFee(terms'[m])
              /\ purse[a] >= terms'[m].stake
              /\ purse' = [purse EXCEPT ![a] = @ - terms'[m].stake]
         /\ \A k \in MatchIds \ {m} : terms'[k] = terms[k]
         /\ UNCHANGED accruedFees
  BY Zenon DEF Promise!Agree, stage, terms, purse
<1> HIDE DEF m, r
<1>14. \E a, b \in Addr :
         /\ a # b
         /\ terms'[m].player1 = a /\ terms'[m].player2 = b
         /\ Promise!FairFee(terms'[m])
         /\ purse[a] >= terms'[m].stake
         /\ purse' = [purse EXCEPT ![a] = @ - terms'[m].stake]
  BY <1>1, <1>9, <1>11, <1>12
<1>15. Promise!Agree(m)
  BY <1>5, <1>6, <1>8, <1>10, <1>13, <1>14
<1> QED BY <1>15 DEF m

\* joinMatch meets the stake.
LEMMA JoinMeets ==
  ASSUME IInv, NEW c \in Addr, NEW m \in MatchIds, joinMatch(c, m)
  PROVE  Promise!Meet(m)
<1> USE AccountsAssumption
<1> DEFINE s == matches[m].stakePerPlayer
<1>1. /\ matchExists(m) /\ matches[m].status = "OPEN" /\ c = matches[m].player2
      /\ matches' = [matches EXCEPT ![m].status = "LOCKED", ![m].lockedAt = now]
      /\ wallet[c] >= s /\ wallet' = Transferred(wallet, c, Escrow, s)
      /\ owed' = owed /\ accruedFees' = accruedFees
  BY DEF joinMatch, CanTransfer, fees
<1>2. s \in Nat /\ \A a \in Addr : wallet[a] \in Nat /\ owed[a] \in Nat
  BY DEF IInv, TypeOK, Match
<1>3. /\ matches'[m].status = "LOCKED" /\ SameTerms(matches'[m], matches[m])
      /\ \A k \in MatchIds \ {m} : matches'[k] = matches[k]
  BY <1>1 DEF IInv, TypeOK, Match, SameTerms
<1>4. stage[m] = "open" /\ stage' = [stage EXCEPT ![m] = "locked"]
  <2>1. Stage(matches'[m]) = "locked"
    BY <1>1, <1>3 DEF Stage, BothStaked, SameTerms, matchExists
  <2>2. stage[m] = "open"
    BY <1>1 DEF stage, Stage, matchExists
  <2> QED BY <1>3, <2>1, <2>2, StageMoves
<1>5. terms' = terms
  <2>1. \A k \in MatchIds : SameTerms(matches'[k], matches[k])
    BY <1>3 DEF SameTerms
  <2> QED BY <2>1, TermsSame
<1>6. purse[c] >= s /\ purse' = [purse EXCEPT ![c] = @ - s]
  <2>1. \A a \in Addr : wallet'[a] = IF a = c THEN wallet[a] - s ELSE wallet[a]
    BY <1>1, <1>2 DEF Transferred, IInv, TypeOK
  <2> HIDE DEF s
  <2> QED BY <1>1, <1>2, <2>1, PursePays
<1>7. terms[m].player2 = c /\ terms[m].stake = s
  BY <1>1 DEF terms
<1>8. Promise!Meet(m) <=>
        /\ stage[m] = "open"
        /\ purse[terms[m].player2] >= terms[m].stake
        /\ stage' = [stage EXCEPT ![m] = "locked"]
        /\ purse' = [purse EXCEPT ![terms[m].player2] = @ - terms[m].stake]
        /\ UNCHANGED <<terms, accruedFees>>
  BY Zenon DEF Promise!Meet, stage, terms, purse
<1> HIDE DEF s
<1> QED BY <1>1, <1>4, <1>5, <1>6, <1>7, <1>8

\* _cancel gives every stake back, by a push or by a credit.
LEMMA CancelGivesBack ==
  ASSUME IInv, NEW m \in MatchIds, matchExists(m),
         matches[m].status \in {"OPEN", "LOCKED", "DISPUTED"}, _cancel(m)
  PROVE  Promise!GiveBack(m)
<1> DEFINE r == matches[m]
<1>1. \A a \in Addr : wallet'[a] + owed'[a] = wallet[a] + owed[a]
        + (IF a = r.player1 \/ (BothStaked(r) /\ a = r.player2) THEN r.stakePerPlayer ELSE 0)
  BY CancelKeepsBooks
<1>2. /\ matches' = [matches EXCEPT ![m].status = "CANCELLED"] /\ accruedFees' = accruedFees
  BY DEF _cancel, fees
<1>3. stage' = [stage EXCEPT ![m] = "settled"] /\ terms' = terms
  BY <1>2, StatusMoves
<1>4. /\ stage[m] \in {"open", "locked"} /\ (stage[m] = "locked" <=> BothStaked(r))
  BY DEF stage, Stage, matchExists, BothStaked
<1>5. /\ terms[m].player1 = r.player1 /\ terms[m].player2 = r.player2
      /\ terms[m].stake = r.stakePerPlayer
  BY DEF terms
<1>6. \A a \in Addr : purse[a] = wallet[a] + owed[a] /\ wallet[a] + owed[a] \in Nat
  BY DEF purse, IInv, TypeOK
<1>7. purse' = [a \in Addr |->
                  IF a = terms[m].player1 \/ (stage[m] = "locked" /\ a = terms[m].player2)
                  THEN purse[a] + terms[m].stake ELSE purse[a]]
  <2>1. ASSUME NEW a \in Addr
        PROVE  wallet'[a] + owed'[a] =
                 IF a = terms[m].player1 \/ (stage[m] = "locked" /\ a = terms[m].player2)
                 THEN purse[a] + terms[m].stake ELSE purse[a]
    <3> HIDE DEF r
    <3>1. CASE a = r.player1 \/ (BothStaked(r) /\ a = r.player2)
      BY <1>1, <1>4, <1>5, <1>6, <3>1
    <3>2. CASE ~ (a = r.player1 \/ (BothStaked(r) /\ a = r.player2))
      <4>1. wallet'[a] + owed'[a] = (wallet[a] + owed[a]) + 0
        BY <1>1, <3>2
      <4>2. wallet'[a] + owed'[a] = purse[a]
        BY <1>6, <4>1
      <4> QED BY <1>4, <1>5, <3>2, <4>2
    <3> QED BY <3>1, <3>2
  <2>2. purse' = [a \in Addr |-> wallet'[a] + owed'[a]]
    BY DEF purse
  <2> QED BY <2>1, <2>2
<1>8. Promise!GiveBack(m) <=>
        /\ stage[m] \in {"open", "locked"}
        /\ stage' = [stage EXCEPT ![m] = "settled"]
        /\ purse' = [a \in Addr |->
             IF a = terms[m].player1 \/ (stage[m] = "locked" /\ a = terms[m].player2)
             THEN purse[a] + terms[m].stake ELSE purse[a]]
        /\ UNCHANGED <<terms, accruedFees>>
  BY Zenon DEF Promise!GiveBack, stage, terms, purse
<1> QED BY <1>2, <1>3, <1>4, <1>7, <1>8

\* One account is worth x more, and nobody else.
LEMMA PurseGains ==
  ASSUME NEW c \in Addr, NEW x \in Nat,
         \A a \in Addr : wallet[a] + owed[a] \in Nat,
         \A a \in Addr : wallet'[a] + owed'[a] = wallet[a] + owed[a] + (IF a = c THEN x ELSE 0)
  PROVE  purse' = [purse EXCEPT ![c] = @ + x]
<1>1. ASSUME NEW a \in Addr PROVE purse'[a] = IF a = c THEN purse[a] + x ELSE purse[a]
  <2>1. purse[a] = wallet[a] + owed[a] /\ purse'[a] = wallet'[a] + owed'[a]
    BY DEF purse
  <2>2. CASE a = c
    BY <2>1, <2>2
  <2>3. CASE a # c
    <3>1. wallet'[a] + owed'[a] = (wallet[a] + owed[a]) + 0
      BY <2>3
    <3> QED BY <2>1, <2>3, <3>1
  <2> QED BY <2>2, <2>3
<1>2. purse = [a \in Addr |-> purse[a]] /\ purse' = [a \in Addr |-> purse'[a]]
  BY DEF purse
<1> HIDE DEF purse
<1> QED BY <1>1, <1>2

\* resolveMatch awards the pot less the agreed fee to one of the two players.
LEMMA ResolveAwards ==
  ASSUME IInv, NEW m \in MatchIds, NEW c \in Addr, NEW w \in Addr, resolveMatch(c, m, w)
  PROVE  Promise!Award(m, w)
<1> DEFINE r   == matches[m]
           due == 2 * r.stakePerPlayer - r.platformFee
<1>1. /\ BothStaked(r) /\ w \in {r.player1, r.player2}
      /\ matches' = [matches EXCEPT ![m].status = "RESOLVED"]
      /\ accruedFees' = accruedFees + r.platformFee
      /\ PaidOut(Cash, Cash', w, due)
  BY ResolveKeepsBooks
<1>2. due \in Nat
  BY DEF IInv, TypeOK, Match, FeeWithinQuarter
<1>3. matchExists(m)
  BY DEF resolveMatch
<1>4. stage[m] = "locked" /\ stage' = [stage EXCEPT ![m] = "settled"] /\ terms' = terms
  <2>1. stage[m] = "locked"
    BY <1>1, <1>3 DEF stage, Stage, BothStaked, matchExists
  <2> QED BY <1>1, <1>3, <2>1, StatusMoves
<1>5. /\ terms[m].player1 = r.player1 /\ terms[m].player2 = r.player2
      /\ terms[m].stake = r.stakePerPlayer /\ terms[m].fee = r.platformFee
  BY DEF terms
<1>6. purse' = [purse EXCEPT ![w] = @ + due]
  <2> HIDE DEF due
  <2>1. \A a \in Addr : wallet'[a] + owed'[a] = wallet[a] + owed[a] + (IF a = w THEN due ELSE 0)
    BY <1>1 DEF PaidOut, Cash
  <2>2. \A a \in Addr : wallet[a] + owed[a] \in Nat
    BY DEF IInv, TypeOK
  <2> QED BY <1>2, <2>1, <2>2, PurseGains
<1>7. Promise!Award(m, w) <=>
        /\ stage[m] = "locked"
        /\ w \in {terms[m].player1, terms[m].player2}
        /\ stage' = [stage EXCEPT ![m] = "settled"]
        /\ purse' = [purse EXCEPT ![w] = @ + (2 * terms[m].stake - terms[m].fee)]
        /\ accruedFees' = accruedFees + terms[m].fee
        /\ UNCHANGED terms
  BY Zenon DEF Promise!Award, stage, terms, purse
<1> QED BY <1>1, <1>4, <1>5, <1>6, <1>7

\* withdrawFees collects the fees of all earlier awards.
LEMMA WithdrawFeesCollects ==
  ASSUME IInv, withdrawFees, NEW t \in Addr, t = feeRecipient
  PROVE  Promise!CollectFees(t)
<1> USE AccountsAssumption
<1>1. /\ accruedFees # 0 /\ accruedFees' = 0 /\ owed' = owed /\ matches' = matches
      /\ wallet' = Transferred(wallet, Escrow, t, accruedFees)
  BY DEF withdrawFees
<1>2. /\ accruedFees \in Nat /\ wallet \in [Addr \cup {Escrow} -> Nat]
      /\ owed \in [Addr -> Nat]
  BY DEF IInv, TypeOK
<1>3. purse' = [purse EXCEPT ![t] = @ + accruedFees]
  <2>1. \A a \in Addr : wallet'[a] = IF a = t THEN wallet[a] + accruedFees ELSE wallet[a]
    BY <1>1, <1>2 DEF Transferred
  <2>2. \A a \in Addr : wallet'[a] + owed'[a]
          = wallet[a] + owed[a] + (IF a = t THEN accruedFees ELSE 0)
    BY <1>1, <1>2, <2>1
  <2> QED BY <1>2, <2>2, PurseGains
<1>4. stage' = stage /\ terms' = terms
  BY <1>1 DEF stage, terms
<1>5. Promise!CollectFees(t) <=>
        /\ accruedFees > 0
        /\ purse' = [purse EXCEPT ![t] = @ + accruedFees]
        /\ accruedFees' = 0
        /\ UNCHANGED <<stage, terms>>
  BY Zenon DEF Promise!CollectFees, stage, terms, purse
<1> QED BY <1>1, <1>2, <1>3, <1>4, <1>5

\* withdraw turns a credit into tokens, which is invisible in a purse.
LEMMA WithdrawStutters ==
  ASSUME IInv, NEW c \in Addr, withdraw(c)
  PROVE  UNCHANGED Promise!vars
<1> USE AccountsAssumption
<1> DEFINE x == owed[c]
<1>1. /\ wallet[Escrow] >= x /\ owed' = [owed EXCEPT ![c] = 0]
      /\ wallet' = Transferred(wallet, Escrow, c, x)
      /\ matches' = matches /\ accruedFees' = accruedFees
  BY DEF withdraw, CanTransfer, fees
<1>2. owed \in [Addr -> Nat] /\ wallet \in [Addr \cup {Escrow} -> Nat]
  BY DEF IInv, TypeOK
<1>3. \A a \in Addr : wallet'[a] + owed'[a] = wallet[a] + owed[a]
  BY <1>1, <1>2 DEF Transferred
<1>4. purse' = purse /\ stage' = stage /\ terms' = terms
  BY <1>1, <1>3 DEF purse, stage, terms
<1> QED BY <1>1, <1>4 DEF Promise!vars, purse, stage, terms

\* A dispute is invisible too: a locked match stays locked.
LEMMA DisputeStutters ==
  ASSUME IInv, NEW c \in Addr, NEW m \in MatchIds, flagDispute(c, m)
  PROVE  UNCHANGED Promise!vars
<1>1. /\ matchExists(m) /\ matches[m].status = "LOCKED"
      /\ matches' = [matches EXCEPT ![m].status = "DISPUTED"]
      /\ wallet' = wallet /\ owed' = owed /\ accruedFees' = accruedFees
  BY DEF flagDispute, fees, cash
<1>2. stage' = [stage EXCEPT ![m] = "locked"] /\ terms' = terms
  BY <1>1, StatusMoves
<1>3. stage = [stage EXCEPT ![m] = "locked"]
  BY <1>1 DEF stage, Stage, matchExists, BothStaked
<1>4. purse' = purse
  BY <1>1 DEF purse
<1> QED BY <1>1, <1>2, <1>3, <1>4 DEF Promise!vars, purse, stage, terms

\* Every transaction is a step of the promise, or leaves it as it was.
LEMMA NextPromise == IInv /\ [Next]_vars => [Promise!Next]_(Promise!vars)
<1> SUFFICES ASSUME IInv, [Next]_vars PROVE [Promise!Next]_(Promise!vars)
  OBVIOUS
<1>1. CASE \E c \in Addr, p \in Permits : createMatch(c, p)
  <2>1. PICK c \in Addr, p \in Permits : createMatch(c, p)
    BY <1>1
  <2>2. p.matchId \in MatchIds
    BY InputsAssumption DEF Permit
  <2> QED BY <2>1, <2>2, CreateAgrees DEF Promise!Next
<1>2. CASE \E c \in Addr, m \in MatchIds : joinMatch(c, m)
  BY <1>2, JoinMeets DEF Promise!Next
<1>3. CASE \E m \in MatchIds : refundExpired(m) \/ \E c \in Addr : cancelMatch(c, m)
  BY <1>3, LiveCancelled, CancelGivesBack DEF Promise!Next
<1>4. CASE \E c, w \in Addr, m \in MatchIds : resolveMatch(c, m, w)
  BY <1>4, ResolveAwards DEF Promise!Next
<1>5. CASE withdrawFees
  <2>1. feeRecipient \in Addr
    BY AccountsAssumption DEF IInv, TypeOK
  <2>2. PICK t \in Addr : t = feeRecipient
    BY <2>1
  <2>3. Promise!CollectFees(t)
    BY <1>5, <2>2, WithdrawFeesCollects
  <2> QED BY <2>3 DEF Promise!Next
<1>6. CASE \E c \in Addr : withdraw(c)
  BY <1>6, WithdrawStutters
<1>7. CASE \E c \in Addr, m \in MatchIds : flagDispute(c, m)
  BY <1>7, DisputeStutters
<1>8. ASSUME UNCHANGED <<matches, fees, cash>> PROVE UNCHANGED Promise!vars
  BY <1>8 DEF Promise!vars, fees, cash
<1>9. CASE OwnerNext
  BY <1>8, <1>9, OwnerInvariant DEF money
<1>10. CASE (\E a \in Blockable : blacklist(a)) \/ tick \/ UNCHANGED vars
  BY <1>8, <1>10, SurroundingsInvariant
<1> QED BY <1>1, <1>2, <1>3, <1>4, <1>5, <1>6, <1>7, <1>9, <1>10
        DEF Next, PlayerNext, ResolverNext

\* The contract keeps the promise of EscrowPromise: one pot per match, paid
\* once, to one of its two players less the agreed fee or back to those who
\* staked; no other call moves anybody's money.
THEOREM Implements == Spec => KeepsPromise
  BY InitPromise, NextPromise, Invariance, PTL DEF Spec, KeepsPromise, Promise!Spec
=============================================================================
