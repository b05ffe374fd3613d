--------------------------- MODULE MatchSettlement ---------------------------
(***************************************************************************)
(* One staked table from its lock to its settlement or refund, driven by   *)
(* several house and API processes over one shared database               *)
(* (matches.py, house.py, recovery.py, db/leases.py, db/journal.py,        *)
(* ledger.py).                                                             *)
(*                                                                         *)
(* A process works the table under a lease it renews, records every money  *)
(* step in a journal, and may die at any point; another one then recovers  *)
(* the table.  A process in MayStall may also lose its lease while it is   *)
(* still running (its heartbeat cannot reach the database for a TTL).      *)
(* One action is one database transaction, or one call that leaves the     *)
(* database (the chain, the registry, the play-balance file).              *)
(*                                                                         *)
(* On-chain mode with the ledger fallback off; the spectator book is on    *)
(* the ledger and holds both agents' seeds and one fan's ticket.           *)
(***************************************************************************)
EXTENDS Integers, Sequences, FiniteSets, Functions

CONSTANTS
  Procs,        \* processes; a restarted one has a new owner id, so is another
  MayCrash,     \* those that may die
  MayStall,     \* those whose lease may expire under them
  Roaming,      \* the agents that also play at other tables
  None,
  Results,      \* the results a game may end with
  MaxTries,     \* _max_settle_attempts
  Funds, Stake, Fee, CreatorCut, LpShare, Seed, Bet,
  FanShare      \* what the book owes the fan under each result

Winners == {"white", "black"}
Wallets == Winners \cup {"treasury", "creator", "lp", "elsewhere"}

ASSUME ProcsAssumption == IsFiniteSet(Procs) /\ MayCrash \cup MayStall \subseteq Procs /\ None \notin Procs
ASSUME ResultsAssumption == Results \subseteq Winners \cup {"draw"} /\ None \notin Results
ASSUME AmountsAssumption ==
  /\ {MaxTries, Funds, Stake, Fee, CreatorCut, LpShare, Seed, Bet} \subseteq Nat
  /\ Stake > 0 /\ MaxTries > 0 /\ Fee <= 2 * Stake /\ Roaming \subseteq Winners
  /\ FanShare \in [Results -> 0 .. 2 * Seed + Bet]

VARIABLES
  status, pending, result,   \* the match record: status, pending_result, result
  tries, aborts,             \* settle_attempts, abort_attempts
  pendingTx,                 \* onchain_pending_tx was noted on the record
  leaseOwner, fresh,         \* the lease row and whether it is unexpired
  journal,                   \* settlement_journal rows of this match
  skipped,                   \* the creator_fee row says "skipped"
  escrow, bal,               \* the ledger's escrow and balances
  book, pot,                 \* the spectator book and what it still holds
  fan,                       \* play_adjust keys applied to the fan
  stats, feesCredited,       \* the registry: games counted, creator fees counted
  chain, mempool,            \* BoardmanEscrow's record; house txs not yet mined
  work                       \* what each process is doing

record   == <<status, pending, result, tries, aborts, pendingTx>>
lease    == <<leaseOwner, fresh>>
ledger   == <<escrow, bal>>
bets     == <<book, pot, fan>>
registry == <<stats, feesCredited>>
onchain  == <<chain, mempool>>
vars == <<record, lease, journal, skipped, ledger, bets, registry, onchain, work>>

-----------------------------------------------------------------------------
(* The journaled programs, in the order of _settle and _abort_under_lease. *)
(* Steps that move no modelled money (lp_loss, opening_stats, notify and   *)
(* the SpectatorPool calls) are left out.                                  *)

WinSteps == <<"onchain_resolve", "escrow", "stats", "creator_fee", "creator_fee_registry",
              "lp_profit", "spectator_settle", "play_adjust", "finalize">>
DrawSteps == <<"onchain_resolve", "escrow", "stats", "spectator_settle", "play_adjust", "finalize">>
AbortSteps == <<"abort:onchain", "abort:escrow", "abort:spectator", "abort:play_adjust",
                "abort:finalize">>

SettleSteps(r) == IF r = "draw" THEN DrawSteps ELSE WinSteps

\* _external_step: the call comes first, its row after it.
External == {"onchain_resolve", "stats", "creator_fee_registry", "play_adjust",
             "abort:onchain", "abort:play_adjust"}

Statuses == {"open", "locked", "playing", "settling", "settled", "settle_failed",
             "aborting", "cancelled", "lock_failed", "partial_lock", "error"}

ABORTABLE_STATUSES == {"open", "partial_lock", "locked", "lock_failed", "playing", "aborting", "error"}

Kind(r) == IF r = "draw" THEN "draw" ELSE "win"

ONCHAIN_FINAL == Winners \cup {"CANCELLED", "REFUNDED"}

\* When BoardmanEscrow accepts a transaction, and what it makes of it.
Accepts(c, t) == CASE t = "create"  -> c = "absent"
                   [] t = "join"    -> c = "OPEN"
                   [] t = "cancel"  -> c \in {"OPEN", "LOCKED"}
                   [] t \in Winners -> c = "LOCKED"

After(t) == CASE t = "create" -> "OPEN" [] t = "join" -> "LOCKED"
              [] t = "cancel" -> "CANCELLED" [] t \in Winners -> t

-----------------------------------------------------------------------------
(* Processes and the lease *)

Idle == [at |-> "idle", seen |-> None, res |-> None, todo |-> <<>>, ran |-> FALSE]

At(w, place) == work[w].at = place
Go(w, place) == work' = [work EXCEPT ![w].at = place]
Step(w) == Head(work[w].todo)
Working(w) == ~ At(w, "idle") /\ ~ At(w, "dead") /\ ~ At(w, "seat") /\ ~ At(w, "refund")

\* Mutant of Free: the expiry is compared the wrong way round.
FreeUntilExpiry(w) == leaseOwner \in {None, w} \/ fresh

\* try_acquire: the row is missing, ours, or expired.
Free(w) == leaseOwner \in {None, w} \/ ~ fresh
Take(w) == leaseOwner' = w /\ fresh' = TRUE

\* Mutant of AssertHeld: the lease is not asked.
LeaseNotAsked(w) == UNCHANGED lease

\* assert_held: as Free, but our own row is not renewed.
AssertHeld(w) ==
  /\ Free(w)
  /\ leaseOwner' = w
  /\ fresh' = (leaseOwner = w => fresh)

\* An exception: a driver goes to its error handler, a refund just ends.
Aborting(w) == work[w].todo # <<>> /\ Step(w) \in Range(AbortSteps)
Raise(w) == work' = [work EXCEPT ![w] = [Idle EXCEPT !.at = IF Aborting(w) THEN "leave" ELSE "failed"]]

Advance(w) ==
  work' = [work EXCEPT ![w] = IF Len(@.todo) = 1 THEN [Idle EXCEPT !.at = "leave"]
                              ELSE [@ EXCEPT !.todo = Tail(work[w].todo), !.ran = FALSE]]

\* The owner stops renewing: it died, or cannot reach the database.
lapse ==
  /\ leaseOwner # None /\ fresh
  /\ At(leaseOwner, "dead") \/ leaseOwner \in MayStall
  /\ fresh' = FALSE
  /\ UNCHANGED <<record, leaseOwner, journal, skipped, ledger, bets, registry, onchain, work>>

\* renew_held: the heartbeat takes back a lease that is free again.
renew_held(w) ==
  /\ Working(w) /\ Free(w) /\ Take(w)
  /\ UNCHANGED <<record, journal, skipped, ledger, bets, registry, onchain, work>>

\* Mutant of release: the lease is left behind, and renewed.
LeaveWithLease(w) ==
  /\ At(w, "leave")
  /\ work' = [work EXCEPT ![w] = Idle]
  /\ UNCHANGED <<record, lease, journal, skipped, ledger, bets, registry, onchain>>

\* release deletes only the owner's own row.
release(w) ==
  /\ At(w, "leave")
  /\ IF leaseOwner = w THEN leaseOwner' = None /\ fresh' = TRUE ELSE UNCHANGED lease
  /\ work' = [work EXCEPT ![w] = Idle]
  /\ UNCHANGED <<record, journal, skipped, ledger, bets, registry, onchain>>

crash(w) ==
  /\ w \in MayCrash /\ ~ At(w, "dead")
  /\ work' = [work EXCEPT ![w] = [Idle EXCEPT !.at = "dead"]]
  /\ UNCHANGED <<record, lease, journal, skipped, ledger, bets, registry, onchain>>

-----------------------------------------------------------------------------
(* Who takes a table, and for what *)

\* The process that opened the table starts its worker.
startTable(w) ==
  /\ At(w, "idle") /\ status = "open"
  /\ Free(w) /\ Take(w)
  /\ Go(w, "lock")
  /\ UNCHANGED <<record, journal, skipped, ledger, bets, registry, onchain>>

\* Classify an orphan: no live lease, not driven here.  A game may or may
\* not be replayable, and ops may choose the refund.
plan_table(w) ==
  /\ At(w, "idle")
  /\ leaseOwner = None \/ ~ fresh
  /\ result = None
  /\ \E place \in {"seat", "refund"} :
       /\ place = "seat" =>
            status = "settling" \/ (status \in {"locked", "playing"} /\ escrow = "locked")
       /\ place = "refund" =>
            \/ status \in {"aborting", "open", "lock_failed", "locked", "playing"}
            \/ status = "error" /\ escrow = "locked"
       /\ work' = [work EXCEPT ![w].at = place, ![w].seen = status]
  /\ UNCHANGED <<record, lease, journal, skipped, ledger, bets, registry, onchain>>

\* _seat: take the lease, then drive the table unless it moved meanwhile.
seat(w) ==
  /\ At(w, "seat")
  /\ IF Free(w) /\ status = work[w].seen /\ result = None
     THEN Take(w) /\ work' = [work EXCEPT ![w] = [Idle EXCEPT !.at = "run"]]
     ELSE work' = [work EXCEPT ![w] = Idle] /\ UNCHANGED lease
  /\ UNCHANGED <<record, journal, skipped, ledger, bets, registry, onchain>>

\* abort_table up to its first write.
refund(w) ==
  /\ At(w, "refund")
  /\ IF Free(w)
     THEN Take(w) /\ work' = [work EXCEPT ![w] = [Idle EXCEPT !.at = "abort"]]
     ELSE work' = [work EXCEPT ![w] = Idle] /\ UNCHANGED lease
  /\ UNCHANGED <<record, journal, skipped, ledger, bets, registry, onchain>>

\* Ops retry a parked settlement with the result on its record.
settle_result(w) ==
  /\ At(w, "idle") /\ status = "settle_failed" /\ pending # None
  /\ Free(w) /\ Take(w)
  /\ work' = [work EXCEPT ![w] = [Idle EXCEPT !.at = "claim", !.res = pending]]
  /\ UNCHANGED <<record, journal, skipped, ledger, bets, registry, onchain>>

\* A parked table whose money moved is marked settled again.
release_stale_pair ==
  /\ status = "settle_failed" /\ result # None /\ escrow \in Results
  /\ status' = "settled"
  /\ UNCHANGED <<pending, result, tries, aborts, pendingTx, lease, journal, skipped, ledger, bets,
                 registry, onchain, work>>

\* Mutant of driverFailed: the error overwrites whatever status there is.
FailOverwrites(w) ==
  /\ At(w, "failed")
  /\ status' = "error"
  /\ Go(w, "leave")
  /\ UNCHANGED <<pending, result, tries, aborts, pendingTx, lease, journal, skipped, ledger, bets,
                 registry, onchain>>

\* The except branch of _run_table / _lock_and_run, through set_status.
driverFailed(w) ==
  /\ At(w, "failed")
  /\ status' = IF status \in {"settle_failed", "lock_failed", "settled", "settling", "aborting"}
               THEN status ELSE "error"
  /\ Go(w, "leave")
  /\ UNCHANGED <<pending, result, tries, aborts, pendingTx, lease, journal, skipped, ledger, bets,
                 registry, onchain>>

-----------------------------------------------------------------------------
(* Locking the stakes: on the chain, then on the ledger *)

\* _lock_both_leased up to the first transaction it sends.
lock(w) ==
  /\ At(w, "lock")
  /\ \/ /\ escrow = "locked" /\ status \notin {"aborting", "cancelled", "settling", "settled"}
        /\ status' = IF status \in {"open", "partial_lock"} THEN "locked" ELSE status
        /\ Go(w, "run")
     \/ /\ escrow # "locked" /\ status \in {"open", "partial_lock"}
        /\ chain \notin ONCHAIN_FINAL
        /\ Go(w, IF chain = "LOCKED" THEN "seal" ELSE "create")
        /\ UNCHANGED status
     \/ /\ escrow # "locked" /\ status \in {"open", "partial_lock"}
        /\ chain \in ONCHAIN_FINAL
        /\ status' = "lock_failed"
        /\ Raise(w)
     \/ /\ IF escrow = "locked" THEN status \in {"aborting", "cancelled", "settling", "settled"}
                                ELSE status \notin {"open", "partial_lock"}
        /\ Raise(w)
        /\ UNCHANGED status
  /\ UNCHANGED <<pending, result, tries, aborts, pendingTx, lease, journal, skipped, ledger, bets,
                 registry, onchain>>

Waiting(tx) == IF tx = "create" THEN "creating" ELSE "joining"

\* createMatch, then joinMatch: broadcast, and wait for the receipt.
send(w, tx) ==
  /\ At(w, tx)
  /\ Accepts(chain, tx)
  /\ mempool' = mempool \cup {tx}
  /\ Go(w, Waiting(tx))
  /\ UNCHANGED <<record, lease, journal, skipped, ledger, bets, registry, chain>>

receipt(w, tx, next) ==
  /\ At(w, Waiting(tx))
  /\ tx \notin mempool /\ chain = After(tx)
  /\ Go(w, next)
  /\ UNCHANGED <<record, lease, journal, skipped, ledger, bets, registry, onchain>>

\* Refused, reverted or unreachable; or no receipt in time, and then the
\* transaction may still mine.  The write is a plain _set.
lockFailed(w, tx) ==
  /\ At(w, tx) \/ At(w, Waiting(tx))
  /\ pendingTx' = (pendingTx \/ tx \in mempool)
  /\ status' = "lock_failed"
  /\ Raise(w)
  /\ UNCHANGED <<pending, result, tries, aborts, lease, journal, skipped, ledger, bets, registry,
                 onchain>>

\* Both stakes and both seeds, in one transaction; ledger.lock returns the
\* escrow as it is once both sides are in.
lock_escrow_and_seeds(w) ==
  /\ At(w, "seal")
  /\ IF escrow # "open"
     THEN Go(w, "mark") /\ UNCHANGED <<escrow, bal, pot, journal>>
     ELSE IF \A a \in Winners : bal[a] >= Stake + Seed
     THEN /\ escrow' = "locked"
          /\ bal' = [a \in Wallets |-> IF a \in Winners THEN bal[a] - Stake - Seed ELSE bal[a]]
          /\ pot' = pot + 2 * Seed
          /\ journal' = journal \cup {"lock:seeds"}
          /\ Go(w, "mark")
     ELSE Raise(w) /\ UNCHANGED <<escrow, bal, pot, journal>>
  /\ UNCHANGED <<record, lease, skipped, book, fan, registry, onchain>>

\* The final update of the record: only forward from a pre-lock status.
mark(w) ==
  /\ At(w, "mark")
  /\ status' = IF status \notin {"open", "partial_lock", "locked"} THEN status
               ELSE IF escrow = "locked" THEN "locked" ELSE "partial_lock"
  /\ Go(w, "run")
  /\ UNCHANGED <<pending, result, tries, aborts, pendingTx, lease, journal, skipped, ledger, bets,
                 registry, onchain>>

-----------------------------------------------------------------------------
(* Playing, and claiming the table for a settlement or a refund *)

\* _run_match_inner up to the game.
run_match(w) ==
  /\ At(w, "run")
  /\ \/ /\ status = "settling"
        /\ work' = [work EXCEPT ![w] = [Idle EXCEPT !.at = "claim", !.res = pending]]
        /\ UNCHANGED status
     \/ status \in {"open", "partial_lock"} /\ Go(w, "lock") /\ UNCHANGED status
     \/ status \in {"locked", "playing"} /\ status' = "playing" /\ Go(w, "play")
     \/ /\ status \notin {"open", "partial_lock", "locked", "playing", "settling"}
        /\ Raise(w) /\ UNCHANGED status
  /\ UNCHANGED <<pending, result, tries, aborts, pendingTx, lease, journal, skipped, ledger, bets,
                 registry, onchain>>

\* The game ends with a result, or the engine raises.
play(w) ==
  /\ At(w, "play")
  /\ \/ \E r \in Results : work' = [work EXCEPT ![w].at = "claim", ![w].res = r]
     \/ Raise(w)
  /\ UNCHANGED <<record, lease, journal, skipped, ledger, bets, registry, onchain>>

\* _claim of _finish_settlement.  It asks the record, not the lease.
claimSettlement(w) ==
  LET r == work[w].res
      go == work' = [work EXCEPT ![w].at = "steps", ![w].todo = SettleSteps(r)]
  IN /\ At(w, "claim")
     /\ \/ /\ status = "settled" \/ pending \notin {None, r}
           /\ Raise(w)
           /\ UNCHANGED <<status, pending, tries>>
        \/ /\ status = "settling" /\ pending = r
           /\ tries' = tries + 1
           /\ IF tries' > MaxTries THEN status' = "settle_failed" /\ Raise(w)
                                   ELSE go /\ UNCHANGED status
           /\ UNCHANGED pending
        \/ /\ status \notin {"settled", "settling"} /\ pending \in {None, r}
           /\ status' = "settling" /\ pending' = r /\ tries' = 1
           /\ go
     /\ UNCHANGED <<result, aborts, pendingTx, lease, journal, skipped, ledger, bets, registry,
                    onchain>>

\* _claim of _abort_under_lease.
claimAbort(w) ==
  LET go == work' = [work EXCEPT ![w].at = "steps", ![w].todo = AbortSteps]
      refused == pending # None \/ result # None \/ status \notin ABORTABLE_STATUSES
  IN /\ At(w, "abort")
     /\ \/ refused /\ Go(w, "leave") /\ UNCHANGED <<status, aborts>>
        \/ /\ ~ refused /\ status = "aborting"
           /\ aborts' = aborts + 1
           /\ IF aborts' > MaxTries THEN status' = "settle_failed" /\ Go(w, "leave")
                                    ELSE go /\ UNCHANGED status
        \/ /\ ~ refused /\ status # "aborting"
           /\ status' = "aborting" /\ aborts' = 1
           /\ go
     /\ UNCHANGED <<pending, result, tries, pendingTx, lease, journal, skipped, ledger, bets,
                    registry, onchain>>

-----------------------------------------------------------------------------
(* Running the journaled steps *)

Rest == <<record, skipped, ledger, bets, registry, onchain>>

\* Step s is next and has no row yet.
Due(w, s) == At(w, "steps") /\ Step(w) = s /\ s \notin journal

\* _step: the work and its row commit together, under the lease.
Commits(w, s) == Due(w, s) /\ AssertHeld(w) /\ journal' = journal \cup {s} /\ Advance(w)

\* _external_step: the call, with its row still to come.
Calls(w, s) == Due(w, s) /\ ~ work[w].ran /\ UNCHANGED <<lease, journal>>
Called(w) == work' = [work EXCEPT ![w].ran = TRUE]

\* A step whose row exists is skipped; _external_step does not ask the lease.
skipStep(w) ==
  /\ At(w, "steps") /\ Step(w) \in journal /\ ~ work[w].ran
  /\ IF Step(w) \in External THEN UNCHANGED lease ELSE AssertHeld(w)
  /\ Advance(w)
  /\ UNCHANGED <<journal, Rest>>

\* The row of an external step, after its call.
writeRow(w) ==
  /\ At(w, "steps") /\ work[w].ran
  /\ AssertHeld(w)
  /\ journal' = journal \cup {Step(w)}
  /\ Advance(w)
  /\ UNCHANGED Rest

\* A call or a transaction fails, or the lease check does (LeaseLost).  The
\* on-chain resolve then marks the record with a plain _set; a failure in the
\* book or in the fan's payout is logged and passed over.
stepFails(w) ==
  LET s == Step(w)
      lost == ~ Free(w) /\ (s \notin External \/ work[w].ran)
      error == Free(w) \/ (s \in External /\ ~ work[w].ran)
  IN /\ At(w, "steps")
     /\ lost \/ error
     /\ IF s = "spectator_settle" /\ error
        THEN work' = [work EXCEPT ![w].todo = <<"finalize">>]
        ELSE IF s = "play_adjust" /\ error THEN Advance(w) ELSE Raise(w)
     /\ status' = IF s = "onchain_resolve" THEN "settle_failed" ELSE status
     /\ UNCHANGED <<pending, result, tries, aborts, pendingTx, lease, journal, skipped, ledger,
                    bets, registry, onchain>>

\* Mutant of sendsHouseTx: a transaction that was sent counts as mined.
SentIsMined(w, tx) ==
  \/ chain \in ONCHAIN_FINAL /\ Called(w) /\ UNCHANGED onchain
  \/ Accepts(chain, tx) /\ chain' = After(tx) /\ Called(w) /\ UNCHANGED mempool
  \/ Accepts(chain, tx) /\ mempool' = mempool \cup {tx} /\ Called(w) /\ UNCHANGED chain

\* resolve_onchain: a final escrow counts as success, whatever it paid.  The
\* last alternative is TxPendingConfirmation.
sendsHouseTx(w, tx) ==
  \/ chain \in ONCHAIN_FINAL /\ Called(w) /\ UNCHANGED onchain
  \/ Accepts(chain, tx) /\ chain' = After(tx) /\ Called(w) /\ UNCHANGED mempool
  \/ Accepts(chain, tx) /\ mempool' = mempool \cup {tx} /\ Raise(w) /\ UNCHANGED chain

resolveChain(w) ==
  /\ Calls(w, "onchain_resolve")
  /\ sendsHouseTx(w, IF work[w].res = "draw" THEN "cancel" ELSE work[w].res)
  /\ UNCHANGED <<record, skipped, ledger, bets, registry>>

\* An escrow that was never filled has nothing to cancel, unless a lock
\* transaction on the record may still mine.
cancelChain(w) ==
  /\ Calls(w, "abort:onchain")
  /\ \/ chain = "absent" /\ ~ pendingTx /\ Called(w) /\ UNCHANGED onchain
     \/ sendsHouseTx(w, "cancel")
  /\ UNCHANGED <<record, skipped, ledger, bets, registry>>

\* Mutant of Settles: a repeat that pays.
RepeatPays(r) ==
  /\ escrow # "open"
  /\ escrow' = r
  /\ bal' = IF r = "draw" THEN [bal EXCEPT !["white"] = @ + Stake, !["black"] = @ + Stake]
            ELSE [bal EXCEPT ![r] = @ + (2 * Stake - Fee), !["treasury"] = @ + Fee]

\* ledger.settle: once, and a repeat is accepted for the same kind of result.
Settles(r) ==
  IF escrow = "locked"
  THEN /\ escrow' = r
       /\ bal' = IF r = "draw" THEN [bal EXCEPT !["white"] = @ + Stake, !["black"] = @ + Stake]
                 ELSE [bal EXCEPT ![r] = @ + (2 * Stake - Fee), !["treasury"] = @ + Fee]
  ELSE escrow # "open" /\ Kind(escrow) = Kind(r) /\ UNCHANGED ledger

settleEscrow(w) ==
  /\ Commits(w, "escrow")
  /\ Settles(work[w].res)
  /\ UNCHANGED <<record, skipped, bets, registry, onchain>>

refundEscrow(w) ==
  /\ Commits(w, "abort:escrow")
  /\ (escrow = "open" /\ UNCHANGED ledger) \/ Settles("draw")
  /\ UNCHANGED <<record, skipped, bets, registry, onchain>>

\* reg.update_stats adds one each time it is called; 2 stands for "more".
Again(n) == IF n < 2 THEN n + 1 ELSE 2

updateStats(w) ==
  /\ Calls(w, "stats")
  /\ stats' = Again(stats)
  /\ Called(w)
  /\ UNCHANGED <<record, skipped, ledger, bets, feesCredited, onchain>>

\* Mutant of creatorFee: the creator is credited although the debit failed.
CreditUnpaidCut(w) ==
  LET winner == work[w].res
      paid == IF bal[winner] >= CreatorCut THEN CreatorCut ELSE 0
  IN /\ Commits(w, "creator_fee")
     /\ skipped' = (paid = 0)
     /\ bal' = [bal EXCEPT ![winner] = @ - paid, !["creator"] = @ + CreatorCut]
     /\ UNCHANGED <<record, escrow, bets, registry, onchain>>

\* Out of the winner's payout, or not at all when the winner spent it.
creatorFee(w) ==
  LET winner == work[w].res
      covered == bal[winner] >= CreatorCut
  IN /\ Commits(w, "creator_fee")
     /\ skipped' = ~ covered
     /\ bal' = IF covered THEN [bal EXCEPT ![winner] = @ - CreatorCut, !["creator"] = @ + CreatorCut]
               ELSE bal
     /\ UNCHANGED <<record, escrow, bets, registry, onchain>>

\* reg.credit_creator_fee adds each time it is called.
creditRegistry(w) ==
  /\ Calls(w, "creator_fee_registry")
  /\ IF skipped THEN Advance(w) /\ UNCHANGED feesCredited
                ELSE Called(w) /\ feesCredited' = Again(feesCredited)
  /\ UNCHANGED <<record, skipped, ledger, bets, stats, onchain>>

lpProfit(w) ==
  LET winner == work[w].res IN
  /\ Commits(w, "lp_profit")
  /\ bal' = IF bal[winner] >= LpShare THEN [bal EXCEPT ![winner] = @ - LpShare, !["lp"] = @ + LpShare]
            ELSE bal
  /\ UNCHANGED <<record, skipped, escrow, bets, registry, onchain>>

\* The fan's payout waits in the book for the play_adjust step; the rest of
\* the pot goes to ledger wallets here.
settleBook(w) ==
  LET r == work[w].res IN
  /\ Commits(w, "spectator_settle")
  /\ \/ /\ book = "open"
        /\ book' = r /\ pot' = FanShare[r]
        /\ bal' = [bal EXCEPT !["creator"] = @ + (pot - FanShare[r])]
     \/ book = r /\ UNCHANGED <<book, pot, bal>>
  /\ UNCHANGED <<record, skipped, escrow, fan, registry, onchain>>

\* Mutants of voidBook: seeds nobody locked are returned; a settled book is
\* voided.
VoidReturnsSeeds(w) ==
  /\ Commits(w, "abort:spectator")
  /\ book \in {"open", "void"}
  /\ book' = "void" /\ pot' = pot - 2 * Seed
  /\ bal' = [bal EXCEPT !["white"] = @ + Seed, !["black"] = @ + Seed]
  /\ UNCHANGED <<record, skipped, escrow, fan, registry, onchain>>

VoidSettledBook(w) ==
  LET back == IF "lock:seeds" \in journal THEN Seed ELSE 0 IN
  /\ Commits(w, "abort:spectator")
  /\ book' = "void" /\ pot' = pot - 2 * back
  /\ bal' = [bal EXCEPT !["white"] = @ + back, !["black"] = @ + back]
  /\ UNCHANGED <<record, skipped, escrow, fan, registry, onchain>>

voidBook(w) ==
  LET back == IF "lock:seeds" \in journal THEN Seed ELSE 0 IN
  /\ Commits(w, "abort:spectator")
  /\ book \in {"open", "void"}
  /\ book' = "void" /\ pot' = pot - 2 * back
  /\ bal' = [bal EXCEPT !["white"] = @ + back, !["black"] = @ + back]
  /\ UNCHANGED <<record, skipped, escrow, fan, registry, onchain>>

\* Mutant of AppliesOnce: every call pays.
AppliesEveryTime(key, amt) == fan' = fan \cup {key} /\ pot' = pot - amt

\* apply_once: a key is applied once.
AppliesOnce(key, amt) ==
  /\ fan' = fan \cup {key}
  /\ pot' = IF key \in fan THEN pot ELSE pot - amt

\* What is paid is the amount on the book's row, whatever this driver's result.
payFan(w) ==
  LET amt == FanShare[book] IN
  /\ Calls(w, "play_adjust")
  /\ IF amt = 0 THEN Advance(w) /\ UNCHANGED <<fan, pot>> ELSE AppliesOnce("payout", amt) /\ Called(w)
  /\ UNCHANGED <<record, skipped, ledger, book, registry, onchain>>

refundFan(w) ==
  /\ Calls(w, "abort:play_adjust")
  /\ AppliesOnce("refund", Bet) /\ Called(w)
  /\ UNCHANGED <<record, skipped, ledger, book, registry, onchain>>

finalize(w) ==
  /\ Commits(w, "finalize")
  /\ status' = "settled" /\ result' = work[w].res /\ pending' = None
  /\ UNCHANGED <<tries, aborts, pendingTx, skipped, ledger, bets, registry, onchain>>

finalizeAbort(w) ==
  /\ Commits(w, "abort:finalize")
  /\ status' = "cancelled"
  /\ UNCHANGED <<pending, result, tries, aborts, pendingTx, skipped, ledger, bets, registry, onchain>>

-----------------------------------------------------------------------------
(* The surroundings *)

mine ==
  /\ \E tx \in mempool :
       /\ mempool' = mempool \ {tx}
       /\ chain' = IF Accepts(chain, tx) THEN After(tx) ELSE chain
  /\ UNCHANGED <<record, lease, journal, skipped, ledger, bets, registry, work>>

\* Anyone refunds the on-chain escrow once its lock timeout has passed.
refundExpired ==
  /\ chain \in {"OPEN", "LOCKED"}
  /\ chain' = "REFUNDED"
  /\ UNCHANGED <<record, lease, journal, skipped, ledger, bets, registry, mempool, work>>

\* An agent commits what it has at other tables.  Once is enough: a second
\* commitment leaves the same empty wallet.
otherTable(a) ==
  /\ bal["elsewhere"] = 0 /\ bal[a] > 0
  /\ bal' = [bal EXCEPT ![a] = 0, !["elsewhere"] = bal[a]]
  /\ UNCHANGED <<record, lease, journal, skipped, escrow, bets, registry, onchain, work>>

Init ==
  /\ status = "open" /\ pending = None /\ result = None
  /\ tries = 0 /\ aborts = 0 /\ pendingTx = FALSE
  /\ leaseOwner = None /\ fresh = TRUE
  /\ journal = {} /\ skipped = FALSE
  /\ escrow = "open"
  /\ bal = [a \in Wallets |-> IF a \in Winners THEN Funds ELSE 0]
  /\ book = "open" /\ pot = Bet /\ fan = {}
  /\ stats = 0 /\ feesCredited = 0
  /\ chain = "absent" /\ mempool = {}
  /\ work = [w \in Procs |-> Idle]

Lock(w) ==
  \/ lock(w) \/ lock_escrow_and_seeds(w) \/ mark(w)
  \/ \E tx \in {"create", "join"} : send(w, tx) \/ lockFailed(w, tx)
  \/ receipt(w, "create", "join") \/ receipt(w, "join", "seal")

Settle(w) ==
  \/ resolveChain(w) \/ settleEscrow(w) \/ updateStats(w) \/ creatorFee(w) \/ creditRegistry(w)
  \/ lpProfit(w) \/ settleBook(w) \/ payFan(w) \/ finalize(w)

Refund(w) ==
  cancelChain(w) \/ refundEscrow(w) \/ voidBook(w) \/ refundFan(w) \/ finalizeAbort(w)

\* The steps of a thread that has taken the table.
Drive(w) ==
  \/ Lock(w) \/ run_match(w) \/ play(w) \/ claimSettlement(w) \/ claimAbort(w)
  \/ skipStep(w) \/ writeRow(w) \/ stepFails(w) \/ Settle(w) \/ Refund(w)
  \/ driverFailed(w) \/ release(w)

Recover(w) == plan_table(w) \/ seat(w) \/ refund(w)

Next ==
  \/ \E w \in Procs : startTable(w) \/ settle_result(w) \/ Recover(w) \/ Drive(w) \/ renew_held(w)
                      \/ crash(w)
  \/ lapse \/ release_stale_pair \/ mine \/ refundExpired
  \/ \E a \in Roaming : otherTable(a)

Spec == Init /\ [][Next]_vars

\* Threads that have taken the table go on (or die), the recovery scan of
\* every live process runs again and again, and a lease nobody renews runs
\* out.  The chain, the games and the agents promise nothing.
Fairness ==
  /\ \A w \in Procs : WF_vars(Drive(w) \/ Recover(w))
  /\ WF_vars(lapse)

FairSpec == Spec /\ Fairness

-----------------------------------------------------------------------------
(* Properties *)

Suffixes(p) == {SubSeq(p, i, Len(p)) : i \in 1 .. Len(p) + 1}

Places == {"idle", "dead", "seat", "refund", "lock", "create", "creating", "join", "joining",
           "seal", "mark", "run", "play", "claim", "abort", "steps", "failed", "leave"}

Outcomes == Results \cup {"draw"}

TypeOK ==
  /\ status \in Statuses /\ {pending, result} \subseteq Results \cup {None}
  /\ tries \in 0 .. MaxTries + 1 /\ aborts \in 0 .. MaxTries + 1 /\ pendingTx \in BOOLEAN
  /\ leaseOwner \in Procs \cup {None} /\ fresh \in BOOLEAN
  /\ journal \subseteq Range(WinSteps) \cup Range(AbortSteps) \cup {"lock:seeds"}
  /\ skipped \in BOOLEAN
  /\ escrow \in {"open", "locked"} \cup Outcomes
  /\ bal \in [Wallets -> Nat]
  /\ book \in {"open", "void"} \cup Results /\ pot \in Nat /\ fan \subseteq {"payout", "refund"}
  /\ stats \in 0 .. 2 /\ feesCredited \in 0 .. 2
  /\ chain \in {"absent", "OPEN", "LOCKED"} \cup ONCHAIN_FINAL
  /\ mempool \subseteq {"create", "join", "cancel"} \cup Winners
  /\ \A w \in Procs :
       /\ work[w].at \in Places /\ work[w].seen \in Statuses \cup {None}
       /\ work[w].res \in Results \cup {None} /\ work[w].ran \in BOOLEAN
       /\ work[w].todo \in Suffixes(WinSteps) \cup Suffixes(DrawSteps) \cup Suffixes(AbortSteps)

FanGot == (IF "payout" \in fan THEN FanShare[book] ELSE 0) + (IF "refund" \in fan THEN Bet ELSE 0)

\* No USDC is minted or lost: the ledger's wallets and escrow, the book and
\* the fan's play balance always hold together what the two agents and the
\* fan brought, through every crash, takeover, retry and failed step.
MoneyConserved ==
  SumFunction(bal) + (IF escrow = "locked" THEN 2 * Stake ELSE 0) + pot + FanGot
    = 2 * Funds + Bet

\* One ticket is paid out or refunded, never both: the two payments have
\* different keys and belong to different journals, and only the state of
\* the book keeps a settlement and a refund of the same table apart.
FanPaidOnce ==
  /\ Cardinality(fan) <= 1
  /\ "payout" \in fan => book \in Results
  /\ "refund" \in fan => book = "void"

\* The escrow and the book each reach one outcome and keep it, whichever
\* processes settle or refund the table afterwards, and in whatever order.
OneOutcome ==
  [][/\ escrow \in Outcomes => escrow' = escrow
     /\ book # "open" => book' = book]_vars

\* A settlement or refund step moves ledger money only when no other process
\* holds an unexpired lease: a driver that lost its lease cannot.
LedgerUnderLease ==
  [][\A w \in Procs : At(w, "steps") /\ work'[w] # work[w] /\ ledger' # ledger => Free(w)]_vars

\* When leases only expire after a crash, one process at a time drives the
\* table.
OneDriver ==
  \A v, w \in Procs : Working(v) /\ Working(w) => v = w

\* When leases only expire after a crash, the two rails end alike: a settled
\* table paid the recorded result on the ledger and on the chain (unless the
\* chain's own timeout gave the stakes back first), and a cancelled one holds
\* no stake on the ledger, no locked pair on the chain, and paid nobody.
RailsAgree ==
  /\ status = "settled" =>
       /\ escrow = result
       /\ chain \in {"REFUNDED", IF result = "draw" THEN "CANCELLED" ELSE result}
  /\ status = "cancelled" =>
       /\ escrow \in {"open", "draw"}
       /\ chain \in {"absent", "OPEN", "CANCELLED", "REFUNDED"}

\* When leases only expire after a crash, the database, the two rails and the
\* processes agree on where the table is and who drives it.
Consistent == TypeOK /\ OneDriver /\ RailsAgree

\* When leases only expire after a crash, a settlement or a refund that has
\* begun only goes forward, although the writes that fail a table ask neither
\* the lease nor the status.
ForwardOnly ==
  [][/\ status = "settled" => status' = "settled"
     /\ status = "cancelled" => status' = "cancelled"
     /\ status = "aborting" => status' \in {"aborting", "cancelled", "settle_failed"}
     /\ status = "settling" => status' \in {"settling", "settled", "settle_failed"}]_vars

\* Locked stakes do not stay locked: they are paid or refunded, or the table
\* is parked for ops, however its drivers die, as long as one process lives.
StakesComeHome == escrow = "locked" ~> (escrow \in Outcomes \/ status = "settle_failed")

-----------------------------------------------------------------------------
(* What the source says of this design and the code does not keep.         *)

\* matches.py: "a table already being refunded or settled is never locked".
\* The ledger lock after the on-chain lock asks neither lease nor status.
RefundedNeverLocked == "abort:escrow" \in journal => escrow # "locked"

\* tables.py: "A settlement that has started (or finished) can only move
\* forward".  The plain _set after a failed resolve takes it back.
FinishedStaysSettled == "finalize" \in journal => status = "settled"

\* matches.py: a re-run external step "must itself be safe to repeat".  The
\* registry counts the creator fee and the games again.
RegistryCountsOnce == stats <= 1 /\ feesCredited <= 1

\* house.py: an absent escrow is skipped, "and not while a lock tx we sent may
\* still mine".  A locker that dies waiting has not noted its transaction.
NoStakeAfterCancel == status = "cancelled" => chain # "OPEN"
=============================================================================
