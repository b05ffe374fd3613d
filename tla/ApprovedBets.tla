---------------------------- MODULE ApprovedBets ----------------------------
(***************************************************************************)
(* One player's spends from the play balance, and the book they bet on:    *)
(* bets and LP deposits approved in Telegram (rematch_web.py,              *)
(* tx_approval.py), withdrawals (withdrawals.py, safety.py), the overlay   *)
(* of the balance (play_adjust.py) and the demo book                       *)
(* (economy/spectator.py).                                                 *)
(*                                                                         *)
(* Several workers act: the Telegram handler, the background waiter, the   *)
(* poll of the web page.  One action is one database or file transaction,  *)
(* or one call to Circle or the chain; a worker may die between any two.   *)
(* The play balance is the wallet's USDC on the chain plus an overlay.     *)
(***************************************************************************)
EXTENDS Integers, FiniteSets, Functions

CONSTANTS
  Workers, MayCrash, None,
  Bets,         \* the approvals
  Side,         \* "a", "b", "draw" of a bet; "lp" of an LP deposit
  Amount,       \* of each approval
  Rails,        \* "demo": the ledger's book; "pool": the SpectatorPool
  Chips,        \* USDC in the play wallet at first
  Cash, DailyCap,                            \* a withdrawal, and the cap of a day
  MaxSent,      \* bound: the withdrawals Circle takes
  Seed, DrawSeed, PotCap, DrawCap,
  FlatFee, FlatMax, FeeBps, CreatorBps

ASSUME WorkersAssumption ==
  /\ MayCrash \subseteq Workers /\ IsFiniteSet(Workers) /\ IsFiniteSet(Bets)
  /\ None \notin Workers /\ "cash" \notin Bets
  /\ None \notin [bettors : [Bets -> Int], agents : Int, creators : Int, fee : Int, dust : Int]
ASSUME BetsAssumption ==
  /\ Side \in [Bets -> {"a", "b", "draw", "lp"}] /\ Amount \in [Bets -> Nat \ {0}]
  /\ Rails \subseteq {"demo", "pool"}
  /\ {Chips, Cash, DailyCap, MaxSent, Seed, DrawSeed, PotCap, DrawCap, FlatFee, FlatMax, FeeBps, CreatorBps}
       \subseteq Nat

VARIABLES
  approval,     \* status of the tx_approvals rows
  claims,       \* how many workers took an approval for theirs
  wallet,       \* USDC of the play wallet on the chain
  adjust, keys, \* play_adjust: the overlay, and the keys applied
  transit,      \* transfers Circle has taken that are not yet on the chain
  landed, failed, \* ... those carried out, and those that failed there
  unheard,      \* transfers taken whose caller was told they failed
  deposits,     \* pool rail: depositFor transactions sent and not mined
  refunded,     \* pool rail: pulls the House paid back
  lock,         \* the holder of play-spend:<profile>
  work, dead,   \* what each worker does, for which approval; those that died
  tickets,      \* tickets booked (LP: deposits credited) for each approval
  book,         \* the book's status
  payouts,      \* the payouts block of the book
  capUsed,      \* today's count against the cap
  rail          \* spectator_onchain_enabled

asked == <<approval, claims>>
balance == <<wallet, adjust, keys>>
circle == <<transit, landed, failed, unheard>>
external == <<circle, deposits, refunded>>
market == <<tickets, book, payouts>>
vars == <<asked, balance, external, lock, work, dead, market, capUsed, rail>>

-----------------------------------------------------------------------------
(* The book: what a settlement or a void owes *)

StakeOn(S) == SumFunctionOnSet([b \in Bets |-> tickets[b] * Amount[b]], S)
On(s) == {b \in Bets : Side[b] = s}
SideBets == On("a") \cup On("b")
Fans == SideBets \cup On("draw")

HalfEven(n, d) ==
  LET q == n \div d  r == n % d IN IF 2 * r > d \/ (2 * r = d /\ q % 2 = 1) THEN q + 1 ELSE q

\* spectator_platform_fee_for_pot, without its premium tier.
Fee(pot) ==
  IF pot < FlatMax THEN (IF 4 * FlatFee <= pot THEN FlatFee ELSE HalfEven(pot, 4))
  ELSE HalfEven(pot * FeeBps, 10000)

Owes(bettors, agents, creators, fee, dust) ==
  [bettors |-> bettors, agents |-> agents, creators |-> creators, fee |-> fee, dust |-> dust]

StakesBack(S) == [b \in Bets |-> IF b \in S THEN tickets[b] * Amount[b] ELSE 0]

CreatorPool(pot) ==
  LET cut == (pot * CreatorBps) \div 10000 IN IF cut > pot THEN pot ELSE cut

\* What the winners share: the pot less fee and creators, if anything is left.
Distributable(pot) ==
  LET rest == pot - Fee(pot) - CreatorPool(pot) IN IF rest < 0 THEN 0 ELSE rest

\* Mutant of _split: shares are rounded up.
SplitRoundedUp(pot, winners, agents) ==
  LET dist == Distributable(pot)
      win == StakeOn(winners)
      share == [b \in Bets |-> IF b \in winners THEN tickets[b] * ((Amount[b] * dist + win - 1) \div win) ELSE 0]
  IN Owes(share, agents, CreatorPool(pot), pot - CreatorPool(pot) - dist,
          dist - SumFunctionOnSet(share, winners))

\* _split: fee and creators first, then shares rounded down; dust to the house.
_split(pot, winners, agents) ==
  LET dist == Distributable(pot)
      win == StakeOn(winners)
      share == [b \in Bets |-> IF b \in winners THEN tickets[b] * ((Amount[b] * dist) \div win) ELSE 0]
  IN Owes(share, agents, CreatorPool(pot), pot - CreatorPool(pot) - dist,
          dist - SumFunctionOnSet(share, winners))

\* _settle_book.  After a decisive game the agents that underwrote the draw
\* keep the draw tickets; after a draw its tickets win everything.
_settle_book(result) ==
  LET sidePot == StakeOn(SideBets) + 2 * Seed
      pot == StakeOn(Fans) + 2 * Seed + 2 * DrawSeed
      underwriters == StakeOn(On("draw")) + 2 * DrawSeed
  IN IF result = "draw"
     THEN IF StakeOn(On("draw")) = 0
          THEN Owes(StakesBack(Fans), 2 * Seed + 2 * DrawSeed, 0, 0, 0)
          ELSE _split(pot, On("draw"), 0)
     ELSE IF StakeOn(On(result)) = 0
          THEN Owes(StakesBack(SideBets), 2 * Seed + underwriters, 0, 0, 0)
          ELSE _split(sidePot, On(result), underwriters)

closeBook ==
  /\ book \in {"open", "full"} /\ book' = "closed"
  /\ UNCHANGED <<asked, balance, external, lock, work, tickets, payouts, capUsed, dead, rail>>

\* Mutant of Unsettled: only a settled book refuses another end.
NotYetSettled == book # "settled"

\* A void book is not settled and a settled one not voided.
Unsettled == book \in {"open", "full", "closed"}

\* settle and void both read and write the book's row in one transaction.
settle ==
  /\ rail = "demo" /\ Unsettled
  /\ \E result \in {"a", "b", "draw"} : payouts' = _settle_book(result)
  /\ book' = "settled"
  /\ UNCHANGED <<asked, balance, external, lock, work, tickets, capUsed, dead, rail>>

void ==
  /\ rail = "demo" /\ Unsettled
  /\ payouts' = Owes(StakesBack(Fans), 0, 0, 0, 0)
  /\ book' = "void"
  /\ UNCHANGED <<asked, balance, external, lock, work, tickets, capUsed, dead, rail>>

-----------------------------------------------------------------------------
(* The overlay *)

Idle == [at |-> "idle", bet |-> None]
At(w, place) == w \notin dead /\ work[w].at = place
Go(w, place) == work' = [work EXCEPT ![w].at = place]
Due(w) == Amount[work[w].bet]

\* Mutant of apply_once: every call applies.
ApplyAgain(key, amt) == adjust' = adjust + amt /\ keys' = keys \cup {key}

\* apply_once: a key is applied once.
apply_once(key, amt) ==
  /\ keys' = keys \cup {key}
  /\ adjust' = IF key \in keys THEN adjust ELSE adjust + amt

\* The spend is over, whatever came of it; the lock goes if it is still held.
Leave(w) ==
  /\ lock' = IF lock = w THEN None ELSE lock
  /\ work' = [work EXCEPT ![w] = Idle]

\* profile_payouts, credited by the keyed play_adjust steps of the settlement
\* or the abort, which recovery may run again.
payFan ==
  /\ book \in {"settled", "void"}
  /\ apply_once(<<"payout", None>>, SumFunctionOnSet(payouts.bettors, Bets))
  /\ UNCHANGED <<asked, wallet, external, lock, work, market, capUsed, dead, rail>>

-----------------------------------------------------------------------------
(* The approval *)

\* The player answers, or the two minutes pass ("denied" stands for expired
\* too).  Only a pending row changes.
resolve_approval(b) ==
  /\ approval[b] = "pending"
  /\ \E s \in {"approved", "denied"} : approval' = [approval EXCEPT ![b] = s]
  /\ UNCHANGED <<claims, balance, external, lock, work, market, capUsed, dead, rail>>

\* claim_apply reads the row, then updates it if it is still approved, then
\* reads it again and goes on if it is applied, whoever made it so.
readApproval(w, b) ==
  /\ At(w, "idle") /\ approval[b] = "approved"
  /\ work' = [work EXCEPT ![w] = [at |-> "claim", bet |-> b]]
  /\ UNCHANGED <<asked, balance, external, lock, market, capUsed, dead, rail>>

\* If the database fails, the worker goes away, the row updated or not.
claim_apply(w) ==
  LET applied == [approval EXCEPT ![work[w].bet] = "applied"] IN
  /\ At(w, "claim")
  /\ \/ /\ approval' = applied /\ claims' = [claims EXCEPT ![work[w].bet] = @ + 1]
        /\ Go(w, "enter")
     \/ /\ approval' \in {approval, applied} /\ UNCHANGED claims
        /\ work' = [work EXCEPT ![w] = Idle]
  /\ UNCHANGED <<balance, external, lock, market, capUsed, dead, rail>>

OnDemo(b) == rail = "demo" \/ Side[b] = "lp"

\* The kill switch is asked again, then the spend lock is taken; if either
\* refuses, nothing is booked or charged.
enter(w) ==
  /\ At(w, "enter")
  /\ \/ /\ lock = None /\ lock' = w
        /\ Go(w, IF OnDemo(work[w].bet) THEN "hold" ELSE "pool")
     \/ work' = [work EXCEPT ![w] = Idle] /\ UNCHANGED lock
  /\ UNCHANGED <<asked, balance, external, market, capUsed, dead, rail>>

-----------------------------------------------------------------------------
(* A demo ticket or an LP deposit: hold, book, pull, release *)

\* _reserve_play_stake: one conditional debit against a fresh chain read.
hold(w) ==
  LET key == <<"hold", work[w].bet>> IN
  /\ At(w, "hold")
  /\ IF key \in keys \/ wallet + adjust >= Due(w)
     THEN apply_once(key, - Due(w)) /\ Go(w, "book") /\ UNCHANGED lock
     ELSE Leave(w) /\ UNCHANGED <<adjust, keys>>
  /\ UNCHANGED <<asked, wallet, external, market, capUsed, dead, rail>>

\* The pot a ticket joins and its cap: the draw book has its own.
PotFor(b) == IF Side[b] = "draw" THEN StakeOn(On("draw")) ELSE StakeOn(SideBets) + 2 * Seed
CapFor(b) == IF Side[b] = "draw" THEN DrawCap ELSE PotCap

\* _book_bet; the side pot is measured against whichever cap the ticket had.
StatusAfter(b) ==
  LET sidePot == StakeOn(SideBets) + 2 * Seed + (IF Side[b] = "draw" THEN 0 ELSE Amount[b])
  IN IF sidePot >= CapFor(b) THEN "full" ELSE book

\* Mutant of BookOpen: whether bets are open was asked before, by the House.
OpenWhenAsked(b) == TRUE

\* place_bet asks the status in the transaction that books the ticket.
BookOpen(b) == book = "open"

Fits(b) == PotFor(b) + Amount[b] <= CapFor(b)

\* take_bet, place_bet or AgentLPPool.deposit; what is refused is given back.
bookTicket(w) ==
  LET b == work[w].bet IN
  /\ At(w, "book")
  /\ IF Side[b] = "lp" \/ (BookOpen(b) /\ Fits(b))
     THEN /\ tickets' = [tickets EXCEPT ![b] = @ + 1]
          /\ book' = IF Side[b] = "lp" THEN book ELSE StatusAfter(b)
          /\ Go(w, "pull")
     ELSE /\ book' = IF book = "open" /\ Side[b] # "draw" /\ PotFor(b) >= PotCap THEN "full" ELSE book
          /\ Go(w, "unhold")
          /\ UNCHANGED tickets
  /\ UNCHANGED <<asked, balance, external, lock, payouts, capUsed, dead, rail>>

\* The match is over, or the pool refuses: the House raises before the book.
bookRefused(w) ==
  /\ At(w, "book") /\ Go(w, "unhold")
  /\ UNCHANGED <<asked, balance, external, lock, market, capUsed, dead, rail>>

\* Mutant of unhold: the refused stake stays on hold.
UnholdForgotten(w) ==
  /\ At(w, "unhold") /\ Leave(w)
  /\ UNCHANGED <<asked, balance, external, market, capUsed, dead, rail>>

\* _unreserve_play_stake after a refusal.
unhold(w) ==
  /\ At(w, "unhold")
  /\ apply_once(<<"hold-unbooked", work[w].bet>>, Due(w))
  /\ Leave(w)
  /\ UNCHANGED <<asked, wallet, external, market, capUsed, dead, rail>>

AmountOf(k) == IF k = "cash" THEN Cash ELSE Amount[k]

\* transfer_usdc returns when Circle takes the transfer, which reaches the
\* chain later; or it raises, and Circle may have taken it all the same.
Sent(k) == transit' = [transit EXCEPT ![k] = @ + 1] /\ UNCHANGED <<landed, failed>>
Accepted(k) == Sent(k) /\ UNCHANGED unheard
Refused(k) ==
  \/ Sent(k) /\ unheard' = [unheard EXCEPT ![k] = @ + 1]
  \/ UNCHANGED circle

\* Circle carries a transfer out, if the wallet has the amount, or it fails.
land ==
  \E k \in Bets \cup {"cash"} :
    /\ transit[k] > 0 /\ transit' = [transit EXCEPT ![k] = @ - 1]
    /\ \/ /\ wallet >= AmountOf(k) /\ wallet' = wallet - AmountOf(k)
          /\ landed' = [landed EXCEPT ![k] = @ + 1] /\ UNCHANGED failed
       \/ failed' = [failed EXCEPT ![k] = @ + 1] /\ UNCHANGED <<wallet, landed>>
    /\ UNCHANGED <<asked, adjust, keys, unheard, deposits, refunded, lock, work, market, capUsed, dead, rail>>

\* Mutant of pull: a pull that fails releases the hold too.
PullOrNot(w) ==
  /\ At(w, "pull") /\ Go(w, "release")
  /\ Accepted(work[w].bet) \/ Refused(work[w].bet)
  /\ UNCHANGED <<asked, balance, deposits, refunded, lock, market, capUsed, dead, rail>>

\* _pull_play_usdc for a stake on hold, which counts back toward a balance
\* read as zero if it is less.  If it fails, the hold stays and is the debit.
pull(w) ==
  /\ At(w, "pull")
  /\ \/ Accepted(work[w].bet) /\ Go(w, "release") /\ UNCHANGED lock
     \/ Refused(work[w].bet) /\ Leave(w)
  /\ UNCHANGED <<asked, balance, deposits, refunded, market, capUsed, dead, rail>>

\* The transfer was taken, so the hold goes.
releaseHold(w) ==
  /\ At(w, "release")
  /\ apply_once(<<"hold-pulled", work[w].bet>>, Due(w))
  /\ Leave(w)
  /\ UNCHANGED <<asked, wallet, external, market, capUsed, dead, rail>>

-----------------------------------------------------------------------------
(* A ticket in the SpectatorPool: pull, deposit, or refund *)

pullForPool(w) ==
  /\ At(w, "pool")
  /\ \/ wallet + adjust >= Due(w) /\ Accepted(work[w].bet) /\ Go(w, "deposit") /\ UNCHANGED lock
     \/ Refused(work[w].bet) /\ Leave(w)
  /\ UNCHANGED <<asked, balance, deposits, refunded, market, capUsed, dead, rail>>

Deposited(b) == tickets' = [tickets EXCEPT ![b] = @ + 1]
Unconfirmed(b) == deposits' = [deposits EXCEPT ![b] = @ + 1] /\ UNCHANGED tickets

\* Mutant of deposit: no receipt in time counts as no deposit.
DepositOrRefund(w) ==
  LET b == work[w].bet IN
  /\ At(w, "deposit")
  /\ \/ Deposited(b) /\ Leave(w) /\ UNCHANGED deposits
     \/ Go(w, "refund") /\ UNCHANGED <<tickets, deposits, lock>>
     \/ Unconfirmed(b) /\ Go(w, "refund") /\ UNCHANGED lock
  /\ UNCHANGED <<asked, balance, circle, refunded, book, payouts, capUsed, dead, rail>>

\* _deposit_spectator_onchain, from the House's own float: confirmed, failed
\* for sure, or unconfirmed; only a sure failure is refunded.
deposit(w) ==
  LET b == work[w].bet IN
  /\ At(w, "deposit")
  /\ \/ Deposited(b) /\ Leave(w) /\ UNCHANGED deposits
     \/ Go(w, "refund") /\ UNCHANGED <<tickets, deposits, lock>>
     \/ Unconfirmed(b) /\ Leave(w)
  /\ UNCHANGED <<asked, balance, circle, refunded, book, payouts, capUsed, dead, rail>>

\* An unconfirmed deposit is mined after all, or dropped.
mineDeposit ==
  /\ \E b \in Bets :
       /\ deposits[b] > 0 /\ deposits' = [deposits EXCEPT ![b] = @ - 1]
       /\ Deposited(b) \/ UNCHANGED tickets
  /\ UNCHANGED <<asked, balance, circle, refunded, lock, work, book, payouts, capUsed, dead, rail>>

\* refund_float_to_user, which may fail.
refundFloat(w) ==
  /\ At(w, "refund")
  /\ \/ wallet' = wallet + Due(w) /\ refunded' = [refunded EXCEPT ![work[w].bet] = @ + 1]
     \/ UNCHANGED <<wallet, refunded>>
  /\ Leave(w)
  /\ UNCHANGED <<asked, adjust, keys, circle, deposits, market, capUsed, dead, rail>>

-----------------------------------------------------------------------------
(* Withdrawals, and the surroundings *)

\* Mutant of reserve_daily_withdraw: the amount is not counted before the transfer.
CapAskedOnly == capUsed + Cash <= DailyCap /\ UNCHANGED capUsed

\* reserve_daily_withdraw checks and counts in one locked write.
reserve_daily_withdraw == capUsed + Cash <= DailyCap /\ capUsed' = capUsed + Cash

SentFor(k) == transit[k] + landed[k] + failed[k]

\* _perform_locked up to the transfer.
startCash(w) ==
  /\ At(w, "idle") /\ wallet + adjust >= Cash /\ SentFor("cash") < MaxSent
  /\ lock = None /\ lock' = w
  /\ reserve_daily_withdraw
  /\ Go(w, "cash")
  /\ UNCHANGED <<asked, balance, external, market, dead, rail>>

\* Mutant of sendCash: the cap is given back until the transfer is final.
CapGivenBack(w) ==
  /\ At(w, "cash")
  /\ Accepted("cash") \/ Refused("cash")
  /\ capUsed' = capUsed - Cash
  /\ Go(w, "sent")
  /\ UNCHANGED <<asked, balance, deposits, refunded, lock, market, dead, rail>>

\* The transfer; the cap is given back when it is said to have failed.
sendCash(w) ==
  /\ At(w, "cash")
  /\ \/ Accepted("cash") /\ UNCHANGED capUsed
     \/ Refused("cash") /\ capUsed' = capUsed - Cash
  /\ Go(w, "sent")
  /\ UNCHANGED <<asked, balance, deposits, refunded, lock, market, dead, rail>>

\* The answer ("submitted") is given, and the lock goes.
endCash(w) ==
  /\ At(w, "sent") /\ Leave(w)
  /\ UNCHANGED <<asked, balance, external, market, capUsed, dead, rail>>

crash(w) ==
  /\ w \in MayCrash \ dead /\ ~ At(w, "idle")
  /\ dead' = dead \cup {w}
  /\ UNCHANGED <<asked, balance, external, lock, work, market, capUsed, rail>>

\* The spend lock runs out after ninety seconds and is not renewed, whether
\* its holder is dead or only slow.
lapse ==
  /\ lock # None /\ lock' = None
  /\ UNCHANGED <<asked, balance, external, work, market, capUsed, dead, rail>>

Init ==
  /\ approval = [b \in Bets |-> "pending"] /\ claims = [b \in Bets |-> 0]
  /\ wallet = Chips /\ adjust = 0 /\ keys = {}
  /\ transit = [k \in Bets \cup {"cash"} |-> 0] /\ landed = transit /\ failed = transit
  /\ unheard = transit /\ deposits = [b \in Bets |-> 0] /\ refunded = deposits
  /\ lock = None /\ work = [w \in Workers |-> Idle] /\ dead = {}
  /\ tickets = [b \in Bets |-> 0] /\ book = "open" /\ payouts = None
  /\ capUsed = 0
  /\ rail \in Rails

Apply(w) ==
  \/ \E b \in Bets : readApproval(w, b)
  \/ claim_apply(w) \/ enter(w) \/ hold(w) \/ bookTicket(w) \/ bookRefused(w) \/ unhold(w)
  \/ pull(w) \/ releaseHold(w) \/ pullForPool(w) \/ deposit(w) \/ refundFloat(w)

Next ==
  \/ \E b \in Bets : resolve_approval(b)
  \/ \E w \in Workers : Apply(w) \/ startCash(w) \/ sendCash(w) \/ endCash(w) \/ crash(w)
  \/ closeBook \/ settle \/ void \/ payFan
  \/ land \/ mineDeposit \/ lapse

Spec == Init /\ [][Next]_vars

-----------------------------------------------------------------------------
(* Properties *)

Places == {"idle", "claim", "enter", "hold", "book", "unhold", "pull", "release",
           "pool", "deposit", "refund", "cash", "sent"}

TypeOK ==
  /\ approval \in [Bets -> {"pending", "approved", "denied", "applied"}]
  /\ wallet \in Nat /\ adjust \in Int
  /\ {transit, landed, failed, unheard} \subseteq [Bets \cup {"cash"} -> Nat]
  /\ {claims, tickets, deposits, refunded} \subseteq [Bets -> Nat]
  /\ lock \in Workers \cup {None}
  /\ work \in [Workers -> [at : Places, bet : Bets \cup {None}]] /\ dead \subseteq MayCrash
  /\ book \in {"open", "full", "closed", "settled", "void"} /\ (payouts = None) = Unsettled
  /\ capUsed \in 0 .. DailyCap /\ rail \in {"demo", "pool"}

Applied(why, b) == IF <<why, b>> \in keys THEN 1 ELSE 0
Returned(b) == Applied("hold-unbooked", b) + Applied("hold-pulled", b)
Working(b) == \E w \in Workers : work[w].bet = b

\* What a ticket of the demo book, or an LP deposit, took from the player:
\* on the overlay, and by transfers that landed or may still.
Cost(b) == Amount[b] * (Applied("hold", b) - Returned(b) + transit[b] + landed[b])

\* However deaths, refusals, lapsed locks and late transfers fall, a ticket
\* or LP deposit applied for one worker is paid for at every moment, and when
\* its spend is over it cost its stake, a refused one nothing -- but for what
\* Circle says wrongly: a transfer it took and answered as failed costs a
\* second stake, and one it accepted that fails on the chain costs none.  (Two
\* workers that both win a claim are OneTicketPerApproval's.)
TicketsCharged ==
  \A b \in Bets : claims[b] <= 1 =>
    /\ tickets[b] + deposits[b] <= claims[b]
    /\ OnDemo(b) => Cost(b) >= Amount[b] * (tickets[b] - failed[b])
    /\ OnDemo(b) /\ ~ Working(b) => Cost(b) = Amount[b] * (tickets[b] + unheard[b] - failed[b])

Got == IF <<"payout", None>> \in keys THEN SumFunctionOnSet(payouts.bettors, Bets) ELSE 0
OnHold == SumFunctionOnSet([b \in Bets |-> Amount[b] * Applied("hold", b)], Bets)
GivenBack == SumFunctionOnSet([b \in Bets |-> Amount[b] * Returned(b)], Bets)

\* The overlay is what its keys say, whoever repeats a step: two workers on
\* one approval, or a settlement's recovery that pays again.
OverlayAddsUp == adjust + OnHold = Got + GivenBack

\* On the pool rail the House makes a deposit or a refund, never both, for
\* each pull Circle accepted -- two workers on one approval, unconfirmed
\* deposits and failed refunds included.  (It pays before the pull lands, so
\* a pull that fails on the chain is the House's loss.)
PoolBackedByPulls ==
  \A b \in Bets : ~ OnDemo(b) => tickets[b] + deposits[b] + refunded[b] <= SentFor(b) - unheard[b]

\* The day's count stands for every withdrawal Circle accepted, until the
\* day is over, whatever runs side by side, dies or fails on the chain.  (One
\* it took and answered as failed is not counted: see WithinDailyCap.)
CapCounts == Cash * (SentFor("cash") - unheard["cash"]) <= capUsed /\ capUsed <= DailyCap

\* What the code keeps by increments adds up, whatever races, dies, lapses,
\* comes late or is answered wrongly.
AddsUp == TypeOK /\ OverlayAddsUp /\ PoolBackedByPulls /\ CapCounts

\* A settled book pays out exactly what came in, to the smallest unit, and a
\* void one every stake; a ticket that slipped in later would break it.  The
\* shares never add up to more than is left to share: the house makes up nothing.
BookBalances ==
  payouts # None =>
    /\ SumFunctionOnSet(payouts.bettors, Bets) + payouts.agents + payouts.creators
         + payouts.fee + payouts.dust
       = StakeOn(Fans) + (IF book = "void" THEN 0 ELSE 2 * Seed + 2 * DrawSeed)
    /\ payouts.fee >= 0 /\ payouts.dust >= 0

-----------------------------------------------------------------------------
(* What the source says of this design and the code does not keep.         *)

\* rematch_web.py: "Debit + book the bet once.  Idempotent across background
\* task and GET poll".  Both may win the claim of one approval.
OneTicketPerApproval == \A b \in Bets : tickets[b] <= 1

\* rematch_web.py: "take its stake, exactly once ... the reservation is
\* released, since the chain now carries the debit".  It does not yet carry it.
TicketsPaid ==
  \A b \in Bets : claims[b] <= 1 /\ OnDemo(b) /\ ~ Working(b) => Cost(b) >= Amount[b] * tickets[b]

\* withdrawals.py: a withdrawal and a bet "can no longer both pass the same
\* checks".  The next spend reads the balance before the last one's transfer lands.
NeverOverdrawn == (\A w \in Workers : At(w, "idle")) => wallet + adjust >= 0

\* safety.py: "Give it back with release_daily_withdraw only when nothing was
\* sent".  It is given back when the answer to a transfer was lost.
WithinDailyCap == Cash * landed["cash"] <= DailyCap

\* spectator.py: the draw book is "separate".  A draw ticket closes the side
\* market when the side pot exceeds the draw book's cap.
FullMeansFull == book = "full" => StakeOn(SideBets) + 2 * Seed >= PotCap
=============================================================================
