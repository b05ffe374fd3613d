---------------------------- MODULE SpectatorPool ----------------------------
(***************************************************************************)
(* The on-chain pari-mutuel pot of a match's spectators                    *)
(* (SpectatorPool.sol): fans bet on side 0, side 1 or the draw, the two    *)
(* agents seed the book, the resolver settles it and winners pull their    *)
(* share.  Several books share one token balance.                          *)
(***************************************************************************)
EXTENDS Integers, FiniteSets, Sequences, Functions

CONSTANTS
  Addr, Pool, Zero, MatchIds,
  Fans,             \* the accounts that bet; any account may, so these are inputs
  BookInputs,       \* the arguments openBook is called with
  Amounts,          \* the amounts tried with seed and deposit
  Resolvers, Treasuries, ScheduleInputs,
  Blockable,        \* the accounts the token issuer may blacklist
  Endowment,        \* USDC each account holds at the start
  InitialSchedule,
  refundGrace, claimWindow,
  MAX_BETTING_WINDOW, MAX_PLATFORM_FEE_BPS, MAX_FLAT_FEE,
  CREATOR_BPS, WINNER_CREATOR_PCT, BPS_DENOM,
  MaxTime,          \* the bound on the clock
  MaxSchedules      \* the bound on the schedules ever pushed

Sides == 0..2                                  \* agent A, agent B, draw
DRAW_SIDE == -2
Tickets == {"A", "B", "drawA", "drawB"}         \* the seeds a book can take

BookInput == [matchId: MatchIds, agentA: Addr, agentB: Addr,
              agentWalletA: Addr \cup {Zero}, agentWalletB: Addr \cup {Zero},
              creatorA: Addr \cup {Zero}, creatorB: Addr \cup {Zero},
              potCap: Nat, closeAt: Nat]

FeeSchedule == [flatFee: Nat, feeBps: Nat, premiumFeeBps: Nat, tierFlatMax: Nat, tierBpsMax: Nat]

ValidSchedule(s) ==
  /\ s.feeBps <= s.premiumFeeBps
  /\ s.premiumFeeBps <= MAX_PLATFORM_FEE_BPS
  /\ s.flatFee <= MAX_FLAT_FEE
  /\ s.tierFlatMax <= s.tierBpsMax

ASSUME AccountsAssumption ==
  /\ IsFiniteSet(Addr) /\ IsFiniteSet(MatchIds)
  /\ Pool \notin Addr /\ Zero \notin Addr /\ Pool # Zero
  /\ Resolvers \subseteq Addr /\ Resolvers # {}
  /\ Treasuries \subseteq Addr /\ Treasuries # {}
  /\ Blockable \subseteq Addr

ASSUME InputsAssumption ==
  /\ Fans \subseteq Addr
  /\ BookInputs \subseteq BookInput /\ Amounts \subseteq Nat
  /\ ScheduleInputs \subseteq FeeSchedule

ASSUME ParametersAssumption ==
  /\ refundGrace \in Nat \ {0} /\ claimWindow \in Nat \ {0} /\ MaxTime \in Nat
  /\ MAX_BETTING_WINDOW \in Nat /\ Endowment \in Nat /\ MaxSchedules \in Nat
  /\ BPS_DENOM \in Nat \ {0} /\ WINNER_CREATOR_PCT \in 0..100
  /\ CREATOR_BPS \in Nat /\ MAX_PLATFORM_FEE_BPS \in Nat /\ MAX_FLAT_FEE \in Nat
  /\ 4 * MAX_PLATFORM_FEE_BPS <= BPS_DENOM /\ 50 * CREATOR_BPS <= BPS_DENOM
  /\ InitialSchedule \in FeeSchedule /\ ValidSchedule(InitialSchedule)

VARIABLES
  books,          \* the Book records
  fan,            \* fanDepositA, fanDepositB, fanDepositDraw
  seeds,          \* seedA, seedB, seedDrawA, seedDrawB: 0 until its payer seeds
  claimed,        \* the users who claimed a book
  protocolFees, owed, totalOwed,
  schedules,      \* _feeSchedules, append-only
  resolver, feeRecipient, paused,
  wallet, blocked, now

admin  == <<schedules, resolver, feeRecipient, paused>>
world  == <<blocked, now>>
bets   == <<fan, seeds>>
vars   == <<books, bets, claimed, protocolFees, owed, totalOwed, admin, wallet, world>>

-----------------------------------------------------------------------------
(* Data *)

BookStatus == {"None", "Open", "Closed", "Resolved", "Cancelled"}

\* sideCount, gameId and the agent ids decide nothing after openBook.
Book == [status: BookStatus, agentWalletA: Addr \cup {Zero}, agentWalletB: Addr \cup {Zero},
         creatorA: Addr \cup {Zero}, creatorB: Addr \cup {Zero}, potCap: Nat,
         total: [Sides -> Nat], winnerSide: {DRAW_SIDE, -1, 0, 1}, distributable: Nat,
         fanWin: Nat, closeAt: Nat, settledAt: Nat, feeScheduleId: Nat,
         swept: BOOLEAN, remaining: Nat]

NoBook == [status |-> "None", agentWalletA |-> Zero, agentWalletB |-> Zero,
           creatorA |-> Zero, creatorB |-> Zero, potCap |-> 0,
           total |-> [s \in Sides |-> 0], winnerSide |-> 0, distributable |-> 0,
           fanWin |-> 0, closeAt |-> 0, settledAt |-> 0, feeScheduleId |-> 0,
           swept |-> FALSE, remaining |-> 0]

_pot(b) == b.total[0] + b.total[1] + b.total[2]

\* Mutant of Betting: only the status closes the betting, not the clock.
BettingByStatus(b) == b.status = "Open"

Betting(b) == b.status = "Open" /\ now < b.closeAt

Settled(b) == b.status \in {"Resolved", "Cancelled"}

Live(b) == b.status \in {"Open", "Closed"}

\* Mutant of _platformFee: a small pot pays the whole flat fee.
FlatFeeUncapped(s, pot) ==
  IF pot < s.tierFlatMax THEN s.flatFee
  ELSE IF pot <= s.tierBpsMax THEN (pot * s.feeBps) \div BPS_DENOM
  ELSE (pot * s.premiumFeeBps) \div BPS_DENOM

_platformFee(s, pot) ==
  IF pot < s.tierFlatMax THEN IF s.flatFee > pot \div 4 THEN pot \div 4 ELSE s.flatFee
  ELSE IF pot <= s.tierBpsMax THEN (pot * s.feeBps) \div BPS_DENOM
  ELSE (pot * s.premiumFeeBps) \div BPS_DENOM

\* The side a seed counts for and the agent wallet that may pay it.
SideOf(t) == CASE t = "A" -> 0 [] t = "B" -> 1 [] OTHER -> 2
PayerOf(b, t) == IF t \in {"A", "drawA"} THEN b.agentWalletA ELSE b.agentWalletB

\* Only a ticket that was seeded has a payer, and then it is the agent wallet.
seedOf(m, user) ==
  SumFunctionOnSet(seeds[m], {t \in Tickets : PayerOf(books[m], t) = user})

\* Mutant of claimable: shares are rounded up.
ClaimableRoundedUp(m, user) ==
  LET b == books[m]
      side == IF b.winnerSide = DRAW_SIDE THEN 2 ELSE b.winnerSide
  IN IF user \in claimed[m] \/ b.swept \/ ~Settled(b) THEN 0
     ELSE IF b.status = "Resolved" /\ b.winnerSide # -1 /\ b.fanWin > 0
     THEN (fan[m][user][side] * b.distributable + b.fanWin - 1) \div b.fanWin
     ELSE SumFunction(fan[m][user]) + seedOf(m, user)

\* The users of the winning side's tickets share distributable by weight,
\* rounded down; a refund book returns every deposit and seed.
claimable(m, user) ==
  LET b == books[m]
      side == IF b.winnerSide = DRAW_SIDE THEN 2 ELSE b.winnerSide
  IN IF user \in claimed[m] \/ b.swept \/ ~Settled(b) THEN 0
     ELSE IF b.status = "Resolved" /\ b.winnerSide # -1 /\ b.fanWin > 0
     THEN (fan[m][user][side] * b.distributable) \div b.fanWin
     ELSE SumFunction(fan[m][user]) + seedOf(m, user)

-----------------------------------------------------------------------------
(* The USDC token *)

CanTransfer(from, to, amt) == {from, to} \cap blocked = {} /\ wallet[from] >= amt

Transfer(from, to, amt) ==
  /\ CanTransfer(from, to, amt)
  /\ wallet' = [wallet EXCEPT ![from] = @ - amt, ![to] = @ + amt]

-----------------------------------------------------------------------------
(* Book lifecycle *)

openBook(caller, in) ==
  LET m == in.matchId IN
  /\ caller = resolver
  /\ ~paused
  /\ books[m].status = "None"
  /\ in.agentA # in.agentB /\ in.agentWalletA # in.agentWalletB
  /\ in.agentWalletA # Zero /\ in.agentWalletB # Zero
  /\ in.potCap # 0
  /\ in.closeAt > now /\ in.closeAt <= now + MAX_BETTING_WINDOW
  /\ books' = [books EXCEPT ![m] = [NoBook EXCEPT
       !.status = "Open", !.agentWalletA = in.agentWalletA, !.agentWalletB = in.agentWalletB,
       !.creatorA = in.creatorA, !.creatorB = in.creatorB, !.potCap = in.potCap,
       !.winnerSide = -1, !.closeAt = in.closeAt, !.feeScheduleId = Len(schedules)]]
  /\ UNCHANGED <<bets, claimed, protocolFees, owed, totalOwed, admin, wallet, world>>

\* Closing a closed book returns without a change.
close(caller, m) ==
  /\ caller = resolver
  /\ books[m].status = "Open"
  /\ books' = [books EXCEPT ![m].status = "Closed"]
  /\ UNCHANGED <<bets, claimed, protocolFees, owed, totalOwed, admin, wallet, world>>

_markRefund(m, asCancel) ==
  /\ books' = [books EXCEPT ![m] = [@ EXCEPT
       !.winnerSide = -1, !.distributable = 0, !.fanWin = 0,
       !.status = IF asCancel THEN "Cancelled" ELSE "Resolved",
       !.settledAt = now, !.remaining = _pot(books[m])]]
  /\ UNCHANGED <<protocolFees, owed, totalOwed>>

\* What fans, not the agents' own seeds, have on the winning side.
FanWin(m, winnerSide) ==
  CASE winnerSide = 0 -> books[m].total[0] - seeds[m]["A"]
    [] winnerSide = 1 -> books[m].total[1] - seeds[m]["B"]
    [] OTHER -> books[m].total[2] - seeds[m]["drawA"] - seeds[m]["drawB"]

\* Mutant of _accrueCreators: a creator of both agents is credited once.
CreditOneCreator(b, platformFee, creatorPool, winnerSide) ==
  LET winner == IF winnerSide = 1 THEN b.creatorB ELSE b.creatorA
      loser  == IF winnerSide = 1 THEN b.creatorA ELSE b.creatorB
      winShare == IF winnerSide = DRAW_SIDE THEN creatorPool \div 2
                  ELSE (creatorPool * WINNER_CREATOR_PCT) \div 100
      due(c) == IF c = winner THEN winShare ELSE IF c = loser THEN creatorPool - winShare ELSE 0
  IN /\ owed' = [a \in Addr |-> owed[a] + due(a)]
     /\ protocolFees' = protocolFees + platformFee + due(Zero)
     /\ totalOwed' = totalOwed + creatorPool - due(Zero)

\* The winner's creator gets its part of the creator pool, the other one the
\* rest; the share of a missing creator stays with the protocol.
_accrueCreators(b, platformFee, creatorPool, winnerSide) ==
  LET winner == IF winnerSide = 1 THEN b.creatorB ELSE b.creatorA
      loser  == IF winnerSide = 1 THEN b.creatorA ELSE b.creatorB
      winShare == IF winnerSide = DRAW_SIDE THEN creatorPool \div 2
                  ELSE (creatorPool * WINNER_CREATOR_PCT) \div 100
      due(c) == (IF c = winner THEN winShare ELSE 0)
                + (IF c = loser THEN creatorPool - winShare ELSE 0)
  IN /\ owed' = [a \in Addr |-> owed[a] + due(a)]
     /\ protocolFees' = protocolFees + platformFee + due(Zero)
     /\ totalOwed' = totalOwed + creatorPool - due(Zero)

\* Mutant of FeeOf: the fee of the schedule pushed last.
FeeToday(b) == _platformFee(schedules[Len(schedules)], _pot(b))

\* The platform's fee of a book, by the schedule it was opened under.
FeeOf(b) == _platformFee(schedules[b.feeScheduleId], _pot(b))

_resolve(m, winnerSide) ==
  LET b == books[m]
      pot == _pot(b)
      creatorPool == (pot * CREATOR_BPS) \div BPS_DENOM
      fee == FeeOf(b)
      \* unreachable under the caps
      platformFee == IF fee + creatorPool > pot THEN pot - creatorPool ELSE fee
      paidOut == pot - platformFee - creatorPool
  IN IF winnerSide = -1 \/ pot = 0 \/ FanWin(m, winnerSide) = 0
     THEN _markRefund(m, FALSE)
     ELSE /\ books' = [books EXCEPT ![m] = [@ EXCEPT
               !.winnerSide = winnerSide, !.distributable = paidOut,
               !.fanWin = FanWin(m, winnerSide), !.status = "Resolved",
               !.settledAt = now, !.remaining = paidOut]]
          /\ _accrueCreators(b, platformFee, creatorPool, winnerSide)

resolve(caller, m, winnerSide) ==
  /\ caller = resolver
  /\ Live(books[m])
  /\ books[m].status = "Open" => now >= books[m].closeAt
  /\ now < books[m].closeAt + refundGrace
  /\ winnerSide \in {DRAW_SIDE, -1, 0, 1}
  /\ _resolve(m, winnerSide)
  /\ UNCHANGED <<bets, claimed, admin, wallet, world>>

\* Mutant of cancel: a resolved book can still be cancelled.
CancelResolved(caller, m) ==
  /\ caller = resolver
  /\ books[m].status \notin {"None", "Cancelled"}
  /\ _markRefund(m, TRUE)
  /\ UNCHANGED <<bets, claimed, admin, wallet, world>>

\* Cancelling a cancelled book returns without a change.
cancel(caller, m) ==
  /\ caller = resolver
  /\ Live(books[m])
  /\ _markRefund(m, TRUE)
  /\ UNCHANGED <<bets, claimed, admin, wallet, world>>

\* Mutants of refundExpired: off by one at the deadline; closed books left out.
RefundAfterDeadline(m) ==
  /\ Live(books[m])
  /\ now > books[m].closeAt + refundGrace
  /\ _markRefund(m, TRUE)
  /\ UNCHANGED <<bets, claimed, admin, wallet, world>>

RefundOpenOnly(m) ==
  /\ books[m].status = "Open"
  /\ now >= books[m].closeAt + refundGrace
  /\ _markRefund(m, TRUE)
  /\ UNCHANGED <<bets, claimed, admin, wallet, world>>

refundExpired(m) ==
  /\ Live(books[m])
  /\ now >= books[m].closeAt + refundGrace
  /\ _markRefund(m, TRUE)
  /\ UNCHANGED <<bets, claimed, admin, wallet, world>>

-----------------------------------------------------------------------------
(* Money in *)

\* An agent wallet seeds each of its two tickets once.
seed(caller, m, t, amount) ==
  LET b == books[m] IN
  /\ ~paused
  /\ amount # 0
  /\ Betting(b)
  /\ caller = PayerOf(b, t)
  /\ seeds[m][t] = 0
  /\ _pot(b) + amount <= b.potCap
  /\ seeds' = [seeds EXCEPT ![m][t] = amount]
  /\ books' = [books EXCEPT ![m].total[SideOf(t)] = @ + amount]
  /\ Transfer(caller, Pool, amount)
  /\ UNCHANGED <<fan, claimed, protocolFees, owed, totalOwed, admin, world>>

\* Mutant of _creditDeposit: a second bet replaces the first.
DepositReplaces(m, user, amount, side) ==
  LET b == books[m] IN
  /\ amount # 0
  /\ Betting(b)
  /\ _pot(b) + amount <= b.potCap
  /\ fan' = [fan EXCEPT ![m][user][side] = amount]
  /\ books' = [books EXCEPT ![m].total[side] = @ + amount]

_creditDeposit(m, user, amount, side) ==
  LET b == books[m] IN
  /\ amount # 0
  /\ Betting(b)
  /\ _pot(b) + amount <= b.potCap
  /\ fan' = [fan EXCEPT ![m][user][side] = @ + amount]
  /\ books' = [books EXCEPT ![m].total[side] = @ + amount]

deposit(caller, m, amount, side) ==
  /\ ~paused
  /\ _creditDeposit(m, caller, amount, side)
  /\ Transfer(caller, Pool, amount)
  /\ UNCHANGED <<seeds, claimed, protocolFees, owed, totalOwed, admin, world>>

\* The House's custodial path: the resolver pays, the user owns the ticket.
depositFor(caller, m, user, amount, side) ==
  /\ caller = resolver
  /\ ~paused
  /\ _creditDeposit(m, user, amount, side)
  /\ Transfer(caller, Pool, amount)
  /\ UNCHANGED <<seeds, claimed, protocolFees, owed, totalOwed, admin, world>>

-----------------------------------------------------------------------------
(* Money out *)

claim(caller, m) ==
  LET amt == claimable(m, caller) IN
  /\ amt # 0
  /\ amt <= books[m].remaining
  /\ claimed' = [claimed EXCEPT ![m] = @ \cup {caller}]
  /\ books' = [books EXCEPT ![m].remaining = @ - amt]
  /\ Transfer(Pool, caller, amt)
  /\ UNCHANGED <<bets, protocolFees, owed, totalOwed, admin, world>>

withdraw(caller) ==
  /\ owed[caller] # 0
  /\ totalOwed >= owed[caller]
  /\ owed' = [owed EXCEPT ![caller] = 0]
  /\ totalOwed' = totalOwed - owed[caller]
  /\ Transfer(Pool, caller, owed[caller])
  /\ UNCHANGED <<books, bets, claimed, protocolFees, admin, world>>

withdrawFees ==
  /\ protocolFees # 0
  /\ protocolFees' = 0
  /\ Transfer(Pool, feeRecipient, protocolFees)
  /\ UNCHANGED <<books, bets, claimed, owed, totalOwed, admin, world>>

\* Mutant of sweep: what was swept stays in the book.
SweepKeepsRemaining(m) ==
  LET b == books[m] IN
  /\ Settled(b)
  /\ ~b.swept
  /\ now >= b.settledAt + claimWindow
  /\ b.remaining # 0
  /\ books' = [books EXCEPT ![m].swept = TRUE]
  /\ protocolFees' = protocolFees + b.remaining
  /\ UNCHANGED <<bets, claimed, owed, totalOwed, admin, wallet, world>>

\* The owner takes what nobody claimed within claimWindow.
sweep(m) ==
  LET b == books[m] IN
  /\ Settled(b)
  /\ ~b.swept
  /\ now >= b.settledAt + claimWindow
  /\ b.remaining # 0
  /\ books' = [books EXCEPT ![m].remaining = 0, ![m].swept = TRUE]
  /\ protocolFees' = protocolFees + b.remaining
  /\ UNCHANGED <<bets, claimed, owed, totalOwed, admin, wallet, world>>

-----------------------------------------------------------------------------
(* Owner actions and the surroundings *)

money == <<books, bets, claimed, protocolFees, owed, totalOwed, wallet, world>>

setResolver(k) ==
  resolver' = k /\ UNCHANGED <<money, schedules, feeRecipient, paused>>

setFeeRecipient(t) ==
  feeRecipient' = t /\ UNCHANGED <<money, schedules, resolver, paused>>

\* Mutant of setSpectatorFeeTiers: any schedule is pushed.
PushAnySchedule(s) ==
  /\ Len(schedules) < MaxSchedules
  /\ schedules' = Append(schedules, s)
  /\ UNCHANGED <<money, resolver, feeRecipient, paused>>

setSpectatorFeeTiers(s) ==
  /\ ValidSchedule(s)
  /\ Len(schedules) < MaxSchedules
  /\ schedules' = Append(schedules, s)
  /\ UNCHANGED <<money, resolver, feeRecipient, paused>>

pause == ~paused /\ paused' = TRUE /\ UNCHANGED <<money, schedules, resolver, feeRecipient>>

unpause == paused /\ paused' = FALSE /\ UNCHANGED <<money, schedules, resolver, feeRecipient>>

blacklist(a) ==
  /\ blocked' = IF a \in blocked THEN blocked \ {a} ELSE blocked \cup {a}
  /\ UNCHANGED <<books, bets, claimed, protocolFees, owed, totalOwed, admin, wallet, now>>

tick ==
  /\ now < MaxTime
  /\ now' = now + 1
  /\ UNCHANGED <<books, bets, claimed, protocolFees, owed, totalOwed, admin, wallet, blocked>>

Init ==
  /\ books = [m \in MatchIds |-> NoBook]
  /\ fan = [m \in MatchIds |-> [a \in Addr |-> [s \in Sides |-> 0]]]
  /\ seeds = [m \in MatchIds |-> [t \in Tickets |-> 0]]
  /\ claimed = [m \in MatchIds |-> {}]
  /\ protocolFees = 0 /\ owed = [a \in Addr |-> 0] /\ totalOwed = 0
  /\ schedules = <<InitialSchedule>>
  /\ resolver \in Resolvers /\ feeRecipient \in Treasuries
  /\ paused = FALSE
  /\ wallet = [a \in Addr \cup {Pool} |-> IF a = Pool THEN 0 ELSE Endowment]
  /\ blocked = {}
  /\ now = 0

BookNext ==
  \/ \E c \in Addr, in \in BookInputs : openBook(c, in)
  \/ \E c \in Addr, m \in MatchIds : close(c, m)
  \/ \E c \in Addr, m \in MatchIds, w \in {DRAW_SIDE, -1, 0, 1} : resolve(c, m, w)
  \/ \E c \in Addr, m \in MatchIds : cancel(c, m)
  \/ \E m \in MatchIds : refundExpired(m)

MoneyNext ==
  \/ \E c \in Addr, m \in MatchIds, t \in Tickets, x \in Amounts : seed(c, m, t, x)
  \/ \E c \in Fans, m \in MatchIds, x \in Amounts, s \in Sides : deposit(c, m, x, s)
  \/ \E c \in Addr, u \in Fans, m \in MatchIds, x \in Amounts, s \in Sides :
       depositFor(c, m, u, x, s)
  \/ \E c \in Addr, m \in MatchIds : claim(c, m)
  \/ \E c \in Addr : withdraw(c)
  \/ withdrawFees

OwnerNext ==
  \/ \E m \in MatchIds : sweep(m)
  \/ \E k \in Resolvers : setResolver(k)
  \/ \E t \in Treasuries : setFeeRecipient(t)
  \/ \E s \in ScheduleInputs : setSpectatorFeeTiers(s)
  \/ pause
  \/ unpause

Next == BookNext \/ MoneyNext \/ OwnerNext
        \/ (\E a \in Blockable : blacklist(a)) \/ tick

Spec == Init /\ [][Next]_vars

\* Time passes, and anyone may call refundExpired.
Fairness ==
  /\ WF_vars(tick)
  /\ \A m \in MatchIds : WF_vars(refundExpired(m))

FairSpec == Spec /\ Fairness

-----------------------------------------------------------------------------
(* Properties *)

TypeOK ==
  /\ books \in [MatchIds -> Book]
  /\ fan \in [MatchIds -> [Addr -> [Sides -> Nat]]]
  /\ seeds \in [MatchIds -> [Tickets -> Nat]]
  /\ claimed \in [MatchIds -> SUBSET Addr]
  /\ protocolFees \in Nat /\ owed \in [Addr -> Nat] /\ totalOwed \in Nat
  /\ schedules \in Seq(FeeSchedule) /\ \A i \in DOMAIN schedules : ValidSchedule(schedules[i])
  /\ \A m \in MatchIds : books[m].status # "None" => books[m].feeScheduleId \in DOMAIN schedules
  /\ resolver \in Resolvers /\ feeRecipient \in Treasuries /\ paused \in BOOLEAN
  /\ wallet \in [Addr \cup {Pool} -> Nat]
  /\ blocked \subseteq Addr /\ now \in Nat

\* What the contract owes to the claimants of a book.
BookDebt(b) == IF Live(b) THEN _pot(b) ELSE b.remaining

\* The token balance is exactly the pots of the live books, what is left of
\* the settled ones, the protocol's fees and the creators' credits: sweeps
\* and claims of one book never reach into another one.
Solvent ==
  wallet[Pool] = SumFunction([m \in MatchIds |-> BookDebt(books[m])]) + protocolFees + totalOwed

\* The side totals, on which the shares are computed, are the sum of the
\* tickets: every fan's deposits and the agents' seeds.
TicketsAccounted ==
  \A m \in MatchIds, s \in Sides :
    books[m].total[s] = SumFunction([u \in Addr |-> fan[m][u][s]])
                        + SumFunctionOnSet(seeds[m], {t \in Tickets : SideOf(t) = s})

\* The creators' credits add up to totalOwed.
CreditsAccounted == totalOwed = SumFunction(owed)

\* The contract's running totals, kept by increments, are the sums they stand
\* for, after any sequence of calls.
MoneyAccounted == TicketsAccounted /\ CreditsAccounted

\* Whoever claims first, what is left of a settled book covers every claim
\* not made yet, so the guard in claim never turns a winner away.
EveryClaimCovered ==
  \A m \in MatchIds : Settled(books[m]) =>
    SumFunction([u \in Addr |-> claimable(m, u)]) <= books[m].remaining

\* A resolved book gives back at least 73% of its pot: the platform takes at
\* most a quarter, the creators at most a fiftieth.
TakeBounded ==
  \A m \in MatchIds : books[m].status = "Resolved" /\ books[m].fanWin > 0 =>
    100 * books[m].distributable >= 73 * _pot(books[m])

\* The totals the shares are computed from are right, a settled book owes the
\* bettors most of its pot, and it can pay what it owes.
ClaimsCovered == MoneyAccounted /\ EveryClaimCovered /\ TakeBounded

\* Nobody bets on a known result: from the first moment the resolver could
\* settle a book by its outcome, no ticket of it changes any more.
NoBetOnKnownResult ==
  [][\A m \in MatchIds :
       (ENABLED (\E c \in Addr, w \in {DRAW_SIDE, 0, 1} : resolve(c, m, w))) =>
         fan'[m] = fan[m] /\ seeds'[m] = seeds[m]]_vars

\* A book past its betting window can either be resolved or be turned into
\* a refund by anyone, never both and never neither.
OneWayOut ==
  \A m \in MatchIds : Live(books[m]) /\ now >= books[m].closeAt =>
    (ENABLED refundExpired(m) <=> ~ ENABLED (\E c \in Addr : resolve(c, m, -1)))

\* What the protocol and the creators get of a book that is resolved: the fee
\* of its own schedule and the creators' part, or nothing.
ChargedByTerms(m) ==
  Live(books[m]) /\ books'[m].status = "Resolved" =>
    LET pot == _pot(books[m]) IN
    protocolFees' + totalOwed' - (protocolFees + totalOwed) =
      IF books'[m].fanWin = 0 THEN 0
      ELSE _platformFee(schedules[books[m].feeScheduleId], pot) + (pot * CREATOR_BPS) \div BPS_DENOM

\* What a step keeps of every book that was opened.
BookTerms ==
  \A m \in MatchIds : books[m].status # "None" =>
    /\ \A f \in {"agentWalletA", "agentWalletB", "creatorA", "creatorB", "potCap", "closeAt"} :
          books'[m][f] = books[m][f]
    /\ schedules'[books'[m].feeScheduleId] = schedules[books[m].feeScheduleId]
    /\ ChargedByTerms(m)
    /\ Settled(books[m]) =>
         /\ books'[m].remaining <= books[m].remaining
         /\ [books'[m] EXCEPT !.remaining = 0, !.swept = FALSE]
              = [books[m] EXCEPT !.remaining = 0, !.swept = FALSE]

\* The agents, creators, deadline and fee schedule of an open book are
\* fixed, whatever schedules are pushed later, and its settlement charges by
\* that schedule; a settled book only pays out.
BookTermsFixed == [][BookTerms]_vars

\* No book keeps its bettors' money for ever: even without the resolver an
\* open book is eventually settled.
EveryBookSettles == \A m \in MatchIds : Live(books[m]) ~> Settled(books[m])
=============================================================================
