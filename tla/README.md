# Boardman: a TLA+ verification project

Boardman is an arena in which software agents play board games against each
other for USDC stakes. A *House* opens tables, locks both agents' stakes, runs
the game, and settles: it pays the winner, the platform fee, the winner's
creator and the agent's liquidity providers, and settles the spectators' bets.
Money lives in three places: two contracts on a chain (`BoardmanEscrow`,
`SpectatorPool`), an off-chain ledger in a shared database, and the play
balances of web and Telegram users, which Circle's wallets hold and which leave
through withdrawals, a bridge to another chain, or a naira cash-out. What can go wrong is mostly about money
that moves twice, not at all, or to both sides: the interleavings, crashes and
late answers that unit tests seldom reach. That is what is modelled here.

Source paths below are relative to the repository. Its Python packages live
under `src/stack/agentic` and `src/backend`, its contracts under
`contracts/contracts/core`.

## 1. Inventory

| Part | State | Operations | What is hard | What makes it correct |
|---|---|---|---|---|
| `BoardmanEscrow.sol` | match records, `totalLocked`, `accruedFees`, `owed`, tiers, roles, pause | create, join, resolve, dispute, cancel, refundExpired, withdraw, withdrawFees, owner's setters | payout pushes that fail, timeouts at the boundary, rounding, the owner's changes under open matches | solvency, one settlement, fixed terms, every stake has a way out |
| `SpectatorPool.sol` | books, tickets, seeds, claims, `protocolFees`, `owed`, fee schedules | open, close, seed, deposit(For), resolve, cancel, refundExpired, claim, withdraw, sweep, setters | rounded shares, claim order, several books on one balance, deadlines | solvency, every claim covered, no bet on a known result |
| `matches.py` | the match record (`status`, `pending_result`, ...) | lock_both, run_match, _finish_settlement, _settle | every step can crash or fail; long calls between read and use | no step twice, no outcome twice, money conserved |
| `house.py` | workers, queue | workers, abort_table, release_stale_pair | refund against settlement, error handlers that overwrite | a refund and a settlement exclude each other |
| `recovery.py` | none of its own | plan, seat, refund orphans | stale plans | locked stakes come home |
| `db/leases.py` | lease rows, heartbeat | acquire, renew, release, assert_held | a holder that is alive but cut off | one driver; no money without the lease |
| `db/journal.py` | one row per match and step | get, record | effect and row not always in one transaction | a step with a row is never run again |
| `ledger.py` | balances, escrows | lock, settle, debit, credit | several tables draw on one balance | conservation, one settlement per escrow |
| `economy/spectator.py` | off-chain books | bet, close, settle, void | a bet against a closing book, settle against void | a ticket is paid or refunded, once, and the book balances |
| `play_adjust.py` | overlay of the wallet, keys applied, spend lock | apply_once, spend_lock | repeats after a crash | one application per key |
| `rematch_web.py`, `tx_approval.py` | approval rows | approve, claim, hold, book, pull, release, deposit | four calls for one spend, any of them the last; two workers on one approval | a claimed ticket is charged once |
| `withdrawals.py`, `safety.py` | the day's total | reserve, transfer, give back | a transfer that fails, or seems to, after the cap was counted | what Circle accepted is counted |
| `onchain.py` | transactions in flight | send, wait, reconcile | late mining, lost answers | chain and ledger end alike |
| `db/nonces.py` | `onchain_txs` rows | reserve, sign, send, receipt, reconcile | several processes with one key, a lagging node | no nonce twice, no transaction lost or displaced |
| `registry.py` | game and fee counters | update_stats, credit_creator_fee | repeats after a crash | counted once |
| `bridge/cctp.py`, `chain_ops.py` | transfer rows, Circle's transactions | approve, burn, attest, mint, retry, reconcile | a call carried out whose answer is lost; two transfers on one allowance | burned once, arrives once, always ends |
| `paycrest/` (cash-out) | orders, webhook events | bridge out, submit, fund, poll, hear, refund | webhooks against polls, ambiguous answers, crashes | paid at the bank or given back, never both |
| `paycrest/onramp.py`, `fiat_topup.py` | orders, top-ups | create, credit | a payment heard twice | not modelled yet (section 7) |
| `clawstation_*.py`, tournaments | the human venue's rows | stake, settle, refund | as above, over Supabase | not modelled yet |
| `spectator_onchain.py`, `economy/lp.py`, `budget.py`, `fees.py`, `odds.py` | on-chain book operator, LP shares, budgets | open/resolve books, distribute profit | failures half way | planned (section 7) |
| engines, agents, runtime, API, bots, frontend, deployment | - | rules of the games, prompts, HTTP, UI | - | not modelled: they decide nothing about money but the result of a game |

How they interact. The House calls `matches.py` on worker threads. A worker
holds the table's lease while it locks, plays and settles. `matches.py` calls
the chain (`onchain.py`, waiting minutes for a receipt), the ledger, the
spectator book and the registry; each money step writes a row in the journal.
`recovery.py` runs in every process and takes over tables without a live lease.
On the chain the two contracts know nothing of the database; anyone may call
their timeouts. Every transaction of the House goes through `onchain.py` and gets
its nonce from `db/nonces.py`. A player's bet is approved in Telegram, claimed by
the handler, the background waiter or the page's poll, and charged to the play
balance, which a withdrawal and the settlement of the book also touch. The naira
cash-out starts a CCTP transfer, sends what arrives to Paycrest, and a second
transfer brings a refund home; one reconciler per process carries both on.

`PROJECT.json` lists every component with its status, and the hazards of the
code, each at its line with the properties that would catch it.

## 2. Modules

| Module | What it is |
|---|---|
| `EscrowPromise` | the abstract escrow: one stake, two stakes, one settlement; no other movement of money |
| `BoardmanEscrow` | the contract, one action per external function |
| `BoardmanEscrow_proofs` | its inductive invariant, the safety theorems, and the proof that it implements `EscrowPromise` |
| `SpectatorPool` | the pari-mutuel contract, one action per external function |
| `SpectatorPool_proofs` | its inductive invariant, the coverage of claims and the running totals |
| `Sums` | sums over finite sets: what one change does to them; lemmas about division. Used by the proofs of both contracts, of the settlement and of the spends |
| `MatchSettlement` | one table, several processes: lease, journal, lock, play, settle, refund, recovery, ledger, book and chain together |
| `MatchSettlement_proofs` | its two inductive invariants, with and without stalls, and the safety theorems |
| `NonceManager` | the nonces of one signer, several threads and processes, a lagging node |
| `NonceManager_proofs` | its inductive invariants and the safety theorems |
| `ApprovedBets` | one player's bets, LP deposits and withdrawals: approval, spend lock, overlay, book and pool together |
| `ApprovedBets_proofs` | its inductive invariant, which assumes nothing of faults or races, and the safety theorems |
| `BridgePromise` | the abstract bridge: a row that opens and ends, USDC that leaves once and arrives once |
| `CctpBridge` | CCTP transfers of one wallet; implements `BridgePromise` |
| `CctpBridge_proofs` | its inductive invariants, the proof that it implements `BridgePromise`, and which faults leave it one burn |
| `NairaCashOut` | one cash-out at Paycrest, over two `BridgePromise` transfers |
| `NairaCashOut_proofs` | its inductive invariant, and where the money of an order is |
| `MC...` | instances for TLC: accounts, amounts, inputs, fault scenes |

Operators whose comment says "Mutant of ..." are plausible bugs of the code,
used to test that a property can fail. No specification uses them.

### BoardmanEscrow and EscrowPromise

The EVM runs one transaction at a time and every function that moves tokens is
`nonReentrant`, so each external function is one atomic action and a revert is
a disabled action. State variables keep the contract's names; `wallet` is the
token's table of balances (the contract's included), `blocked` the token
issuer's blacklist, `now` the block time. A transfer is possible unless a side
is blacklisted or the sender cannot cover it. `_pay` pushes a payout and
credits it when the push fails, exactly as the code does; the decision is
taken again for the second payee of a cancellation. Fees are computed with the
contract's integer division, at cent scale. The resolver's permit is a record:
a signature over any other data does not recover the resolver's key, so the
guard asks for a permit that names the caller. Addresses that only appear as
inputs come from small sets; any account may be the caller of anything.

`EscrowPromise` says what the contract promises without saying how. The
refinement maps `purse[a]` to the balance plus the credit of `a`: whether a
payout is pushed or waits for `withdraw` is invisible.

### SpectatorPool

Side 2 is the draw. The four seeds of a book are a function over `Tickets`; a
seed is 0 until its payer has seeded, and `seedOf` adds the seeds whose agent
wallet is the user. A resolution without fans on the winning side, or for an
unknown winner, becomes a refund. `claimable` and `_platformFee` are translated
with their divisions. Fee schedules are append-only and a book remembers its own.

### MatchSettlement

One table, `Procs` processes. `work[w]` is what process `w` is doing: the place
in the code (`at`), the status a recovery plan saw (`seen`), the result it is
settling (`res`), the journaled steps it has left (`todo`) and whether the
external call of the first of them has been made and its row not yet written
(`ran`). One action is one database transaction or one call that leaves the
database, so every point where a process can die or be overtaken lies between
two actions.

* `_step` is `Commits`: effect, row and lease check in one action.
* `_external_step` is three actions: the call (`Calls`), then `writeRow` with
  the lease check, or `stepFails`. Its call asks no lease, as in the code.
* The lease row is `leaseOwner` and `fresh`. `lapse` expires it, for a process
  that died or one in `MayStall`, which is alive but cannot reach the database
  for a TTL; `renew_held` is the heartbeat, `release` deletes only one's own row.
* A restarted process has a new owner id, so `crash` is final for `w` and the
  other members of `Procs` stand for restarts too.
* The chain is the escrow's status and the set of the House's transactions that
  are sent and not mined. A receipt timeout leaves the transaction in the set.
* The spectator book holds both seeds and one fan's ticket placed before the
  lock. `FanShare` is what the book owes the fan under each result.
* `otherTable` is any other use of an agent's balance: the agents in `Roaming` may
  commit what they have at other tables.

Abstractions, and why they lose nothing the properties speak of: the statuses
`queued` and `locking` behave as `open`; the on-chain mode is on and the ledger
fallback off (the deployed configuration, and the one with most steps); a
conflicting re-settlement and the "already settled" no-op both just end the
driver; the registry counters stop at 2, which means "more than once"; grace
periods and TTLs become "at any moment"; whether an interrupted game can be
replayed is a choice. Left out: `lp_loss`, `opening_stats` and `notify`, which
move none of this money, and the SpectatorPool calls (the demo book is used).

### NonceManager

`rows` is `onchain_txs`, `work[w]` where a thread is between `reserve` and its
receipt, `pool` and `mined` what the node holds. The process lock covers
reservation to broadcast (`Inside`), the row lock only `_reserve`; the pending
count is read between the two, from a node that may be anywhere between what
every node has seen (`seen`) and the truth. A node may take a transaction and
its answer be lost; then `_tx_known` asks. The stale window is one action,
`age`: it passes for a row no live thread holds, and by then all nodes have
caught up. `displaced` records what the node replaced by another transaction.

### ApprovedBets

One action is one database or file transaction, or one call to Circle or the
chain. `wallet` is the USDC on the chain, `adjust` the overlay, `keys` what
`apply_once` has applied, `deposits` the `depositFor` transactions without a
receipt. `lock` is the spend lease. Both rails are one initial choice. The book has
its side and its draw market, caps, seeds, and the fee of `_split` to the unit, with
its guard for a fee and creators' share that would pass the pot (`Distributable`).

Four things of the code decide what can be said of it, and the module has them as
they are:

* `transfer_usdc` returns when Circle takes the request. What it took is in
  `transit` until `land` carries it out (`landed`) or it fails on the chain
  (`failed`), at any later time; no step of a spend waits for it.
* Any exception of the call is an answer "failed", also when Circle took the
  transfer (`unheard`).
* `claim_apply` reads, updates and reads again (`readApproval`, `claim_apply`), so
  any number of workers may win one approval; `claims` counts them.
* The spend lock runs out after ninety seconds under its holder (`lapse`).

`claims`, `landed`, `failed`, `unheard` and `refunded` only count what happened: no
action reads them, but for the bound `MaxSent` on the withdrawals Circle takes.

### BridgePromise, CctpBridge, NairaCashOut

`CctpBridge` keeps the row of each transfer, Circle's transactions by their
idempotency keys (`circle`), the order in which those of the wallet land
(`queue`), its one allowance, and the burns and mints of each transfer. A worker
reads the row (`look`), calls (`call`), and writes by compare-and-set (`write`,
`failOrRetry`). `NairaCashOut` replaces both bridges of a cash-out by the two
rows of `BridgePromise`, of which it knows no more than `CctpBridge` is shown to
keep; everything else, the order row, the orders at Paycrest, the webhook
events, follows `offramp.py`, `events.py` and `reconcile.py`, again one action
per transaction or call. `TRANSITIONS` is the table of `store.py`.

Which faults occur is part of the initial state (`scene`), so that one run asks
the same properties under several fault models and each property can say which
it needs. Where `stalls` is false a worker starts only while no live one is
under way: the reconciler's passes take turns, and a slow worker is a fault.

Left out of the cash-out: quotes, caps, messages, compliance holds, and the
early return for a listing that lacks the receive address.

## 3. What TLC checks

All runs use `CHECK_DEADLOCK FALSE`, because these systems may stop: the clock
is bounded (contracts), or the table is finished and all processes are idle or
dead.

| Run | Instance | Properties | Shows |
|---|---|---|---|
| `escrow_money` | 2 matches, times 0..3, timeouts 2 and 1, a player blacklisted at times, two resolver keys, two treasuries, new tiers (two sets refused) and caps | `TypeOK`, `FeeWithinQuarter`, `Solvent`, `MoneyAccounted`, `WayOut`, `TermsFixed`, `KeepsPromise`, `EveryMatchSettles` | books balance through failed pushes, the windows meet exactly, the owner cannot move the terms of a match or trap money, refinement of `EscrowPromise`, no help of the resolver is needed to settle |
| `pool_book` | 1 book, refused inputs; 2 fans, one of them blacklisted at times, 2 amounts that do not divide; or 1 fan and the owner's schedules, rotation and pause | `TypeOK`, `ClaimsCovered`, `OneWayOut`, `NoBetOnKnownResult`, `BookTermsFixed` | rounding never turns a claimant away; an open book keeps its terms and is charged by them, whatever schedules are pushed; betting ends before a result counts |
| `pool_books` | 2 books, one creator on both sides of one | `Solvent`, `MoneyAccounted`, `EveryBookSettles` | books never pay for each other; no help of the resolver is needed to settle |
| `match_crash` | 3 processes, two of which may die anywhere | `Consistent`, `MoneyConserved`, `ForwardOnly`, `StakesComeHome` | takeover after a crash keeps one driver and one direction; ledger and chain agree; the survivor settles, refunds or parks |
| `match_stall` | 2 processes, one may lose its lease alive; agents who may empty their wallets elsewhere | `MoneyConserved`, `FanPaidOnce`, `OneOutcome`, `LedgerUnderLease` | no money is made, lost or moved without the lease |
| `nonce_sends` | 2 processes, 3 transactions, a lagging node, deaths anywhere | `TypeOK`, `LiveNoncesDiffer`, `NothingDisplaced`, `EveryTxOnRecord`, `SpentNonceNotReused`, `PendingSettles` | one key in two processes is safe, and no receipt stays open |
| `bets_spends` | 2 workers, both may claim the bet or LP deposit, both may die, and the lock may lapse; withdrawals; both rails; transfers late, failed, unheard; or two side bets and a draw bet on one book | `AddsUp`, `TicketsCharged`, `BookBalances` | what one worker claims is charged once; overlay, pool money and the day's count add up whatever races; the book pays out what it took in, to the unit, wherever it ends |
| `bridge_ends` | 2 workers; a stall; a death with lost answers; apart from these, two transfers that share an allowance | `TypeOK`, `BurnedOnceUnlessStalled`, `NoBurnForgotten`, `KeepsPromise`, `TransferEnds` | refinement of `BridgePromise`; every transfer ends |
| `naira_ends` | 2 workers; late and reordered webhooks next to foreign USDC; lost answers; a stall; a death | `MoneyInOnePlace`, `CashOutEnds` | the bank or the player, never both; an ended order is true |

Some properties are conjunctions of named parts, each with its own comment in the
module and most with a mutant of its own: `MoneyAccounted`, `WayOut`,
`ClaimsCovered`, `AddsUp`, `Consistent` and `MoneyInOnePlace`, of which the last
three contain the type invariant of their module. The parts of `AddsUp` are
`OverlayAddsUp`, `PoolBackedByPulls` and `CapCounts`.

The bounds. Two matches and two books are enough for one to be paid from the
other's money. Timeouts of 1 or 2 and a clock of 3 or 4 give a moment before,
at and after every deadline. The amounts put a stake on the flat tier at its
25% limit, on the middle tier with a remainder, and use pots that do not divide
by the shares. Three processes let a second takeover meet a stale plan of a
third one; `MaxTries = 1` parks a table on the second attempt, which is enough
to pass through every branch of the attempt counter. One fan and one ticket
suffice for "paid or refunded, once"; several fans are in `SpectatorPool`.
Three transactions of two processes give a reservation below, at and above a
gap that a death left, with a count that lags by one or two. In `bets_spends` and
`pool_book` the constraint `OneContest` cuts the product of independent choices.
The first explores one approval with everything that can happen to it, for
`TicketsCharged` and the pool's part of `AddsUp` speak of one at a time: two workers
are what a race or a takeover of the lock needs, and two withdrawals, the other
spends that meet it in the wallet, the lock and the overlay, fill the day's cap
(they come while the book is open, which they do not touch). Three bets share a
book only where one worker acts at a time and none dies, because a ticket is
booked in one transaction and the race is with the book's end; each of the book's
caps can be reached there. `pool_book` has either two fans and two amounts, one of
which does not divide, while the owner does nothing, or the owner's actions
over one fan and one amount; the agents seed one amount, and one of them the draw
(both in `pool_books`). A transfer
has three tries (two under a stall): a leg may fail, go back and fail again. A
cash-out makes up to two orders at Paycrest, so that one can be abandoned for the
other, and at most one ambiguous answer before the last attempt.

Fairness. Contracts: time passes (`WF` on `tick`) and somebody calls
`refundExpired`, which anyone may. Nothing is assumed of the resolver, the owner
or the token issuer. `MatchSettlement`: a live thread goes on, every live
process scans for orphans again and again (the recovery loop of every house and
API process), and a lease nobody renews runs out. The chain promises nothing: a
receipt may never come. A process that dies stops being enabled. `NonceManager`:
time passes, and the reconciler looks at every pending row (a periodic job); of
senders and the chain nothing is assumed. `CctpBridge`: the chain lands or fails
what it was given, a live worker ends what it began, and the worker outside
`MayDie` looks at every open transfer for ever (strong fairness, because looks
take turns). `NairaCashOut`: Paycrest and the chains go on, a live worker ends
what it began, and the survivor's passes begin work for ever, again strongly.
`ApprovedBets` has no liveness: a spend may be refused anywhere.

### Where the code and its documents differ

These runs check one statement of a comment or docstring, and TLC finds a
behaviour of the code that violates it. The findings of `PROJECT.json` quote
both places.

| Run | Statement | What happens |
|---|---|---|
| `match_refund_locked` | "a table already being refunded or settled is never locked" (`matches.py:700`) | a stale locker locks the ledger after the refund |
| `bets_overdrawn` | "two withdrawals ..., or a withdrawal and a bet, can no longer both pass the same checks" (`withdrawals.py:101`) | the lock goes with the "submitted" answer; the next spend reads the balance before the transfer lands |
| `naira_verdict` | "everything a webhook or a crash could miss" (`paycrest/reconcile.py:1`), "poll Paycrest for orders waiting on it" (`:8`) | the status found on a second pass is recorded as already seen, and the poller skips the order for ever |

The first needs a lease to expire under a live process (a heartbeat that fails
for a whole TTL), the second a crash between the transfer to Paycrest and its
record, before which the answer to the creation of the order was ambiguous. The
third needs nothing unusual: a transfer is on its way after every accepted spend.

More statements that the code does not keep are written as properties at the end
of their modules, each under the comment that quotes it. To see one, name it in
the cfg of a run of its module, with the constant given here:

| Property | Statement | What happens |
|---|---|---|
| `FinishedStaysSettled` (`match_stall`) | a settlement "can only move forward" (`db/tables.py:16`) | a stale driver's failing step writes `settle_failed` over `settled` (`matches.py:1210`); proved where leases lapse only after a death |
| `RegistryCountsOnce` (`match_crash`) | an external step "must itself be safe to repeat" (`matches.py:923`) | the registry counts twice after a crash (`matches.py:1245`) |
| `NoStakeAfterCancel` (`match_crash`) | an absent escrow is skipped "not while a lock tx we sent may still mine" (`house.py:624`) | a locker that dies waiting has not noted its transaction; the open timeout returns the stake |
| `ReleasedNeverMines` (`nonce_sends`, `Forgetful = TRUE`) | a row is "released if the broadcast never happened" (`db/nonces.py`) | a node that took the transaction cannot be asked for it |
| `FullMeansFull` (`bets_spends`) | the draw book is separate (`economy/spectator.py:16`) | a draw ticket closes the side market when the side pot passes the draw cap |
| `OneTicketPerApproval` (`bets_spends`) | "Debit + book the bet once. Idempotent across background task and GET poll" (`rematch_web.py:450`), "the row if we won the race, else None" (`tx_approval.py:207`) | `claim_apply` does not ask how many rows its update changed (`tx_approval.py:220`): both workers find the row applied and both book |
| `TicketsPaid` (`bets_spends`) | "take its stake, exactly once", "the chain now carries the debit" (`rematch_web.py:335`) | the hold is released when Circle accepts the pull (`rematch_web.py:409`), which then fails on the chain: a free ticket |
| `WithinDailyCap` (`bets_spends`, `DailyCap = 500`) | "Give it back ... only when nothing was sent" (`safety.py:209`) | it is given back when the answer to a transfer is lost (`withdrawals.py:146`), and spent again |
| `BurnedOnce` (`bridge_ends`) | "two workers cannot double-submit" (`bridge/cctp.py:11`) | a worker that stalls between read and call burns again under the key of a later attempt; so may two transfers that share the allowance, with a lost answer or a death (`cctp.py:143`) |

What else these properties depend on. `TicketsCharged` is claimed of an approval
that one worker claims, and counts what Circle reports wrongly: a transfer it
took and answered as failed costs a second stake, one it accepted that fails on
the chain costs none. `PoolBackedByPulls` is about pulls accepted: the House
pays the deposit before the pull lands, and a pull that fails afterwards is its
loss. `CapCounts` is about withdrawals accepted and answered. What these words leave
out is what `bets_overdrawn` shows and what `OneTicketPerApproval`, `TicketsPaid`
and `WithinDailyCap` say. `BurnedOnceUnlessStalled` is
claimed of scenes that keep a shared allowance apart from deaths and lost
answers. `NothingDisplaced` is claimed only before a row outlives the stale
window: a gap two senders fill later can displace a queued transaction.
`StakesComeHome` is claimed under crashes, not under stalls. `CashOutEnds` is
claimed only without crashes, stalls and lost answers, because an order is left
where it is when a worker dies after writing `confirmed` or `submitting`, when
the bridge ends while `markOut` is held up, or when a transfer whose answer was
lost (`offramp.py:360`, "Not sent; the unfunded Paycrest order simply expires")
went out after all and the refund then finds no USDC.

Three more differences are visible in the model, which follows the code:

* "a worker that lost its lease mid-game cannot move money" (`db/leases.py:6`):
  an external step asks the lease only after its call (`matches.py:930`), so the
  on-chain resolve or cancel still goes out. The ledger keeps the promise
  (`LedgerUnderLease`).
* abort flips the table "so nobody can start or settle it any more"
  (`house.py:517`): a stale driver's `_claim` takes an aborting or a cancelled
  table (`matches.py:976`). `OneOutcome` holds all the same, because the escrow
  settles once.
* "nothing is skipped" (`matches.py:1091`): a failed book settlement or payout
  is logged (`matches.py:1458` and 1477) and the table becomes settled.

One behaviour is allowed by `RailsAgree` rather than refuted, because no document
settles it: a settlement resumed after the contract's lock timeout finds the
on-chain stakes refunded, accepts any final escrow as success, and pays the
winner on the ledger.

## 4. What TLAPS proves

`BoardmanEscrow_proofs`, for every set of accounts and matches, every stake,
timeout and endowment that meets the assumptions:

* `TypeCorrect`: `[]TypeOK`. No balance or counter underflows.
* `Solvency`: `[]Solvent`. The balance is the live stakes plus unswept fees plus credits.
* `FeesBounded`: `[]FeeWithinQuarter`. No fee passes a quarter of its pot.
* `TermsStay`: the action property `TermsFixed`.
* `TotalsAreSums`: `[]MoneyAccounted`. `totalLocked` is the sum of the live stakes,
  the fees are what was earned and not withdrawn, and no USDC appears or vanishes.
* `Implements`: `Spec => KeepsPromise`, step by step.
* `MoneyHasAWayOut`: `[]WaysOut`, which is `WayOut` with the guards of the calls in the
  place of `ENABLED`.

Its assumptions: `AccountsAssumption` (the contract and `address(0)` are
not among the callers, keys and treasuries are accounts), `InputsAssumption`
(inputs are typed) and `ParametersAssumption` (positive timeouts, `MIN_STAKE <= MAX_STAKE`,
a percentage cap of at most a quarter, valid initial tiers). TLC evaluates them
on every instance.

The argument. The inductive invariant `IInv` is `TypeOK`, `Solvent`,
`FeeWithinQuarter` and `Opponents` (both players of an existing match are
accounts, and they differ). `Solvent` alone is not
inductive: a resolution takes a fee and pays the rest, and if the fee passed the
pot the clamp would change what is paid; so the fee bound is needed, and with it
the valid tiers of `TypeOK`. `Opponents` is needed for the refinement, where a
cancellation pays two purses that must not be one. The fee bound rests on lemmas
of arithmetic (`Quotient`, `MulMonotone`, `MulCancel`, `QuarterRate`), the
payments on `PayKeepsBooks`: whatever `_pay` does, the balance less the credits
falls by the amount. Each action has its lemma; `NextInvariant` collects them.
`MoneyAccounted` then needs only that no stake is held by a match that does not exist
yet (`Unopened`): each action changes one term of each sum, and `LockedMoves` and
`EarnedMoves` say by how much.

`ENABLED` is beyond the prover, so what "can be called" means is spelled out:
`MayRefund`, `MayResolve`, `MayJoin`, `MayWithdraw` and `MaySweep` are the conditions
under which the contract does not revert, and the lemma `Guarded` shows that a call
is its guard and one assignment to every variable, so that it can be made exactly
where its guard holds. The step from there to `ENABLED` is the one TLC takes: it
checks the `ENABLED` form on the instances. The proof is about the checked subtractions:
a refund could be stuck for ever if `totalLocked` were below one match's stakes, a
withdrawal if the balance or `totalOwed` were below one credit. `SumCovers` (no term exceeds
its sum) and `MoneyAccounted` exclude it.

`SpectatorPool_proofs`, for every set of users and books, every amount, fee
schedule and deadline that meets the assumptions:

* `TypeCorrect`: `[]TypeOK`; `TermsStay`: the action property `BookTermsFixed`, with
  it that a settlement credits protocol and creators by the book's own schedule.
* `Solvency`: `[]Solvent`. The balance covers every open pot, every claim, the
  fees and the credits.
* `TotalsAreSums`: `[]MoneyAccounted`. Pools and tickets agree.
* `ClaimsStayCovered`: `[]ClaimsCovered`. What a settled book still owes is always
  enough for all who have not claimed, whatever the order of the claims.
* `MoneyHasAWayOut`: `[]WaysOut`. A book past its window can be resolved or refunded,
  never both; and, which TLC does not check, every claim, credit and fee can
  be paid out at every instant unless the token blocks the receiver.
* `NoLateBet`: `[][TicketsFrozen]_vars`, which is `NoBetOnKnownResult` with the guard of
  `resolve` in the place of `ENABLED`.

Its inductive invariant `IInv` adds to `TypeOK`, `Solvent` and `ClaimsCovered` that a
book that was never opened holds nothing (`Unopened`) and that a book names a
schedule that exists (`Scheduled`). The rounding argument is one of sums: the floors of the
shares of any set of claimants add up to at most the floor of their joint share
(`SharesCovered`), and a claimant who leaves takes exactly one term out of the sum.
What a settlement charges is a fact of one step (`ResolveCharges`): the fee is at most
a quarter of the pot and the creators' part a fiftieth, so the clamp of `_resolve`
never cuts it, and the creators' shares add up to their part (`CreatorsCredited`).
The last two theorems speak of guards as those of the escrow do: `Guarded` shows
that a call which is its guard and one assignment to every variable; of
`resolve` by an outcome `NoLateBet` needs only that it implies its guard.

Sums over a set are folds, and the library proves facts about folds by induction
over an operator, which the provers cannot instantiate. `Sums` goes round it: the
subsets of a finite set on which a statement fails, if there are any, have one of
least size (`WFMin`), and that one without a member is a counterexample too. In
this form the induction is over a set of subsets, which is an ordinary value.
Everything the modules need (a sum is a natural number, one changed term changes
it by the difference, a smaller term gives a smaller sum) follows by that lemma.

The proof of `ClaimsCovered` met an ambiguity of the model: `claimable` was a
`CASE` with overlapping guards, of which TLC takes the first and the definition
promises only some one. It is an `IF` chain now, in the order of the code's returns.

`NonceManager_proofs`, for any number of threads, processes and transactions:

* `TypeCorrect`, `NoncesDiffer`, `TxOnRecord`: the invariants of the same meaning.
* `SpentNotReused`: the action property `SpentNonceNotReused`.
* `NoneDisplaced`: `[]NothingDisplaced`, under `~ Forgetful`.

Its first invariant `IInv` adds to the three properties that every thread that is
sending has a fresh row in flight, with its hash on record once it has signed.
That makes `LiveNoncesDiffer` inductive: the reservation is the only step that
hands out a nonce, and it steps over the nonces of all such rows. A spent nonce
is stepped over whatever its age, so the action property needs nothing more.
`NothingDisplaced` needs a second invariant, `FreshInv`: until a row is stale, no
two rows that hold a nonce hold the same one, and what the node holds has a row
that holds its nonce. Only `~ Forgetful` keeps the last part when `_tx_known`
releases a row.

`CctpBridge_proofs`, for any number of transfers, workers and attempts, and under
every scene of faults, mixed ones included:

* `TypeCorrect`: `[]TypeOK`; `BurnRemembered`: the action property `NoBurnForgotten`.
* `Implements`: `Spec => KeepsPromise`, step by step.

`TypeOK` says nothing of what the workers remember, and a worker writes what it
saw some steps ago. So `IInv` adds that a worker under way read an open row and
steps back only from a submitted leg (`WorkOK`), that one about to write `minted`
saw a mint that is done (`SeenThere`), that a done mint is on the chain
(`MintsLanded`), and that what waits to land belongs to a started transfer
(`QueueStarted`, without which a burn could come before the promise's `opens`).
The compare-and-set of each write does the rest. `NairaCashOut` therefore rests on
`BridgePromise` for all instances, and not only those TLC has seen.

* `OneBurn`: `Spec => []BurnedOnceUnlessStalled`, assuming that in every scene
  where nobody stalls either all calls are answered and recorded (nobody dies, no
  answer is lost) or one transfer has the wallet to itself. The scenes of
  `bridge_ends` are of these kinds, and neither half of the assumption can go: TLC
  finds two burns of one transfer when two share the allowance and workers die,
  and again when answers get lost (section 3).

Here `IInv` is not enough, for it holds under every fault. `BurnInv` adds what
taking turns gives (`InTurn`): at most one live worker is under way and its row
is the one in the table (`UpToDate`), the keys Circle knows are of attempts the
row has come to and land in their order (`KeysInOrder`), and the approval a row
holds is the last one given (`ApprovalsInOrder`). Then there are two reasons for
one burn. Where calls are recorded, a burn that may still land is the one under
way (`EachBurnKnown`), and a burn that landed is never started again. Alone on the
wallet, no approval is left to land once a burn was given (`OneAllowance`): so of
all the burns that lost answers and dead workers leave behind under their own
keys, one finds the allowance and the others fail.

`NairaCashOut_proofs`, for any number of workers, orders at Paycrest and submits,
and under every mixture of stalls, deaths, lost answers and webhooks:

* `TypeCorrect`: `[]TypeOK`, with it that the out wallet never owes USDC.
* `PaidFromTheWallet`: the bank payments and the refund of an order take at most
  its own unit and the strays.
* `MoneyFollowsOrder`: `[](scene.stray = 0 \/ Undisturbed => MoneyInOnePlace)`, where
  `Undisturbed` is that nobody stalls or dies and no answer is lost. Late and
  repeated webhooks and failed transfers are in both.

The argument is one of conservation. What the wallet holds is the strays, plus the
bridge out, less the bridge home, less the orders whose transfer landed and that
are not refunded (`BaseIs`); a transfer or a burn needs a unit there, so this never
falls below zero, and every order paid at the bank is among those subtracted
(`PaidFor`). That bounds `PaidOnce` whatever the order's row does, so no step of the
state machine has to be right for it. `EndsHonest` does need them: `Starting` (one
worker opens the bridge out, on an order no webhook can move), `JobOK` (who carries
`settled` heard it of a paid order) and `MintedThere`.

With a stray unit in the wallet the sum allows a second payment, and what excludes it
is the order. `CalmInv` says so: workers take turns (`InTurn`), so the one under way
knows where the order is (`Knows`); before its transfer the order is in a status of
`Before`, and it never comes back to one (`OrderKnows`); the bridge home starts only
once all that was sent has returned (`RefundOK`). Neither condition can go: with a stray unit TLC
finds a second payment from any one of a stall, a death or a lost answer, for a
transfer that is reported as not sent lets the order be submitted again, and a fresh
order at Paycrest is paid with the stranger's USDC (that a lost answer counts as not
sent is known to the project: `docs/security/AUDIT_2026-10_money.md`, O-3).

`MatchSettlement_proofs`, for any number of processes, any results, any amounts and
however leases lapse, under a live process too:

* `TypeCorrect`: `[]TypeOK`. What a process has left to do is always the rest of
  one of the three programs (a decisive result, a draw, an abort).
* `Conserved`: `[]MoneyConserved`; `PaidOnce`: `[]FanPaidOnce`.
* `OutcomesStay`: the action property `OneOutcome`; `UnderLease`: the action property
  `LedgerUnderLease`.

and, where a lease lapses only after a death (`MayStall = {}`):

* `EndsAlike`: `[]Consistent`. One process drives the table, and ledger and chain agree.
* `GoesForward`: the action property `ForwardOnly`.
* `RefundNeverLocks`: `[]RefundedNeverLocked`, and `FinishedStays`: `[]FinishedStaysSettled`,
  the two statements of the source that a stall refutes (section 3). So their comments
  are right of every crash, and the lapse under a live process is the whole of
  the gap.

The first invariant, `IInv`, has to hold when two processes run the same step or
opposite programs, so it says little of the table's status. `WorkOK` says of each
process that a step which uses what an earlier one left comes after the row of
that one, so the journal stands for what the process remembers. `MoneyOK` ties the
rows of the money steps to the escrow and the book: a row is there exactly when
its effect is, the pot of the book still covers whatever the fan may get, and the
fan gets it under one key only. `MoneyConserved` is then a sum that every
step keeps. Its one arithmetic condition, that the winner's pot covers the fee, is
`Fee <= 2 * Stake` of `AmountsAssumption`: `platform_fee_for_pot` takes a flat fee
capped at the pot, or at most a tenth of it (`economy/fees.py`).

The second invariant, `OneInv`, says who may move the table. A process at work
holds the lease (`Held`), has a plan or a status it may still act on (`Planned`,
`DriversFit`), and nobody else moves the table meanwhile. The result chosen, or the
refund, then determines where ledger, chain and mempool may go (`TableFits`); its
hardest part is `Closed`: once a refund has seen the escrow absent or cancelled, no second
stake can still reach the contract. Without `MayStall = {}` the same statements are
false: `match_refund_locked` and `FinishedStaysSettled` show it (section 3).

The attempt to prove `MoneyConserved` found a mistake of the model: `payFan` took
the amount from the result the *process* was settling, and three processes with a
stale plan among them could pay the share of one result out of a book settled for
another. The code pays what the book's row recorded (`matches.py:1425`), and so
does the model now.

`ApprovedBets_proofs`, for any number of workers, approvals and deaths, any amounts,
seeds, caps and fee rates, and whatever races, lapses, is late, is lost or fails on
the chain; nothing is assumed of either:

* `TypeCorrect`: `[]TypeOK`, with it that the wallet never goes below zero and that
  the day's count stays within its cap.
* `Balances`: `[]BookBalances`. The payouts add up to what came in, and the house
  never makes up a payout (fee and dust are at least zero).
* `Overlay`: `[]OverlayAddsUp`. The overlay is the sum of its keys.
* `CapStands`: `[]CapCounts`. The day's count covers what Circle accepted.
* `PoolBacked`: `[]PoolBackedByPulls`. One deposit or refund for each pull.
* `AllAddUp`: `[]AddsUp`, the conjunction of these three and the types.
* `ChargedOnce`: `[]TicketsCharged`. What one worker claims is charged once.

`BookBalances` has two halves. The stakes must not move after the end: the ledger's
book refuses a ticket then, and only on the rail where it never ends can a deposit
still be mined (`RailOK`). And the winners' shares, each rounded down, must fit in
what is left to share (`SharesFit`: each share times the winning stakes is at most
its stake times the rest, and these sum), so that the dust is never a debt. For
every rate this needs the code's guard against a fee and a creators' share that
pass the pot, `Distributable`.

Two statements become inductive when the workers on their way are added to them:
`CapCovers` adds the withdrawals reserved and not sent to those sent, and
`PoolCovers` the pulls in hand to the deposits and refunds made. `OverlayAddsUp` is
inductive with `PaidOK` (a payout is paid only once it is written down): each step
changes one term of one of its sums, and `apply_once` changes it only for a new key.

`TicketsCharged` needs to know where each spend is. `Hands` says that two workers
carry one approval only if both won its claim. `Course` then describes an approval
with one claim: while its worker carries it, the overlay's keys, transfers, tickets
and deposits are exactly those of the place it has reached (`Stage`); when nobody
carries it any more, what was put on hold and what was sent add up to the ticket
and to the transfers that went unheard (`Over`), whichever step was the last. A
worker that dies keeps its place, so a death needs no case of its own. A lapsed lock
needs none either: nothing in the argument uses the lock.

Only model-checked, and why:

* `WayOut`, `OneWayOut` and `NoBetOnKnownResult` speak of `ENABLED`. Their form with
  guards is proved (above).
* Liveness under fairness: `EveryMatchSettles`, `EveryBookSettles`, `StakesComeHome`,
  `PendingSettles`, `TransferEnds`, `CashOutEnds`.

## 5. Checking it

In this directory: `tlc -config BoardmanEscrow_money.cfg MCBoardmanEscrow` and
so on for each run of `PROJECT.json`; `tlapm BoardmanEscrow_proofs.tla`, and so on
for each module of proofs. The longest run takes two to three minutes on two cores.

## 6. Not modelled

Gas, reentrancy (excluded by the guards), key management, signature recovery,
token amounts beyond their width (Solidity reverts on overflow and the caps keep
every amount far below it), game rules, agents, prompts, odds, formatting, HTTP,
bots and the user interface. The database is taken at its word: a transaction is
atomic and serialized. `ClawEscrow.sol` is the predecessor of `BoardmanEscrow`
and has the same shape.

Most of the repository's hundred thousand lines are of these kinds: the football
simulation and the engines of the board games, which run in one process and
reach money only through a result; bot handlers and pages, which format and
route; clients of outside services. The lines that move money or decide who may
are a small part of them, and of those the largest that remain are the human
venue's settlement and the on-ramp.

## 7. Plan

The runs are kept few and each asks a distinct question: a new module takes its
place by merging runs whose instances can be shared.

1. Done: `EscrowPromise`, `BoardmanEscrow`, its proofs and its refinement;
   `SpectatorPool` and its proofs; `MatchSettlement` and its proofs; `NonceManager`
   and its proofs; `ApprovedBets` (the off-chain book with its betting window, the spends, the
   withdrawals) and its proofs; `BridgePromise`, `CctpBridge`,
   `NairaCashOut` and their proofs.
2. `SpectatorOperator`: `spectator_onchain.py` composed with `SpectatorPool`
   (close before resolve, retries, a cancelled book).
3. House scheduling: seats, queue, the threads of one process and their shared
   lease (`_workers`, `_RUNNING`, `hold`).
4. The human venue's settlement (`clawstation_settlement.py`), the on-ramp, LP
   pools and budgets.
