---------------------------- MODULE NonceManager ----------------------------
(***************************************************************************)
(* Threads of several processes sign with one key on one chain             *)
(* (db/nonces.py, onchain.py _send and reconcile_pending_txs).             *)
(*                                                                         *)
(* A thread reserves a nonce as a row of onchain_txs, signs, records the   *)
(* hash, broadcasts and waits for the receipt.  The lock of a process      *)
(* covers all but the wait; the row lock of the signer covers only the     *)
(* reservation.  The chain's pending count is read before the row lock is  *)
(* taken, from a node that may lag; a thread may die anywhere.             *)
(*                                                                         *)
(* A row and its transaction have the same number.  The stale window is    *)
(* the action `age`: a node never lags by a whole window, and a thread     *)
(* that is alive never takes that long.                                    *)
(***************************************************************************)
EXTENDS Integers, Sequences, FiniteSets

CONSTANTS
  Threads,
  ProcessOf,    \* the process of each thread
  None,
  Lagging,      \* the node asked for the pending count may be behind
  Forgetful,    \* a node that took a transaction may be unreachable when asked for it
  MaxTx         \* bound on the transactions ever reserved

ASSUME ThreadsAssumption == None \notin Nat /\ {Lagging, Forgetful} \subseteq BOOLEAN
ASSUME MaxTxAssumption == MaxTx \in Nat

VARIABLES
  rows,         \* onchain_txs: nonce, status, whether the hash is recorded, whether it is stale
  work,         \* what each thread is doing: where, the pending count it read, its row
  pool, mined,  \* transactions in the mempool, and in a block
  displaced,    \* transactions the node took and then replaced by another
  seen          \* the pending count that every node has reached

vars == <<rows, work, pool, mined, displaced, seen>>
node == <<pool, mined, displaced, seen>>

IN_FLIGHT == {"reserved", "sent", "pending_confirmation"}
MINED == {"confirmed", "reverted"}

Nonces == 0 .. MaxTx - 1
Places == {"idle", "locked", "reserved", "signed", "check", "known", "wait", "dead"}

Idle == [at |-> "idle", count |-> 0, row |-> None]
At(w, place) == work[w].at = place
Go(w, place) == work' = [work EXCEPT ![w].at = place]
Mark(i, status) == rows' = [rows EXCEPT ![i].status = status]

-----------------------------------------------------------------------------
(* The chain *)

\* The next nonce a block takes, and the pending count: it stops at a gap.
NextNonce == Cardinality(mined)
Pending(n) ==
  /\ n >= NextNonce
  /\ \A m \in NextNonce .. n - 1 : \E i \in pool : rows[i].nonce = m
  /\ \A i \in pool : rows[i].nonce # n

Rivals(i) == {j \in pool : rows[j].nonce = rows[i].nonce}

\* The node takes a transaction; one of the same nonce gives way, or the
\* newcomer is refused.
Takes(i) ==
  /\ rows[i].nonce >= NextNonce
  /\ pool' = (pool \ Rivals(i)) \cup {i}
  /\ displaced' = displaced \cup Rivals(i)
  /\ UNCHANGED <<mined, seen>>

mine ==
  \E i \in pool :
    /\ rows[i].nonce = NextNonce
    /\ mined' = mined \cup {i} /\ pool' = pool \ {i}
    /\ UNCHANGED <<rows, work, displaced, seen>>

\* The stale window passes for a row nobody holds.  Meanwhile every node
\* has caught up.
age ==
  \E i \in DOMAIN rows :
    /\ ~ rows[i].old /\ rows[i].status \in IN_FLIGHT \cup MINED
    /\ \A w \in Threads : work[w].row # i
    /\ rows' = [rows EXCEPT ![i].old = TRUE]
    /\ \E p \in 0 .. MaxTx : Pending(p) /\ seen' = p
    /\ UNCHANGED <<work, pool, mined, displaced>>

-----------------------------------------------------------------------------
(* One transaction of one thread *)

\* The process lock is held from here to the end of the broadcast.
Inside == {"locked", "reserved", "signed", "check", "known"}

\* reserve: take the process lock and ask the node for the pending count.
enter(w) ==
  /\ At(w, "idle")
  /\ \A v \in Threads : ProcessOf[v] = ProcessOf[w] => work[v].at \notin Inside
  /\ \E p \in 0 .. MaxTx : Pending(p) /\ \E n \in (IF Lagging THEN seen ELSE p) .. p :
       work' = [work EXCEPT ![w] = [at |-> "locked", count |-> n, row |-> None]]
  /\ UNCHANGED <<rows, node>>

\* Mutant of Blocks: a mined nonce is also forgotten after the stale window.
BlocksWhileFresh(i) == rows[i].status \in IN_FLIGHT \cup MINED /\ ~ rows[i].old

\* Mutant of Blocks: only what was broadcast keeps its nonce.
BlocksOnceSent(i) ==
  \/ rows[i].status \in MINED
  \/ rows[i].status \in IN_FLIGHT \ {"reserved"} /\ ~ rows[i].old

\* The rows whose nonce may not be handed out.
Blocks(i) ==
  \/ rows[i].status \in MINED
  \/ rows[i].status \in IN_FLIGHT /\ ~ rows[i].old

Taken == {rows[i].nonce : i \in {j \in DOMAIN rows : Blocks(j)}}

\* _reserve: the lowest free nonce from the count on.
_reserve(w) ==
  /\ At(w, "locked") /\ Len(rows) < MaxTx
  /\ \E n \in Nonces :
       /\ n >= work[w].count /\ n \notin Taken
       /\ \A m \in work[w].count .. n - 1 : m \in Taken
       /\ rows' = Append(rows, [nonce |-> n, status |-> "reserved", hash |-> FALSE, old |-> FALSE])
  /\ work' = [work EXCEPT ![w].at = "reserved", ![w].row = Len(rows) + 1]
  /\ UNCHANGED node

\* Mutant of signed: the hash is kept in memory only.
SignedInMemory(w) ==
  /\ At(w, "reserved")
  /\ Go(w, "signed")
  /\ UNCHANGED <<rows, node>>

\* slot.signed: the hash is on record before the broadcast.
signed(w) ==
  /\ At(w, "reserved")
  /\ rows' = [rows EXCEPT ![work[w].row].hash = TRUE]
  /\ Go(w, "signed")
  /\ UNCHANGED node

\* send_raw_transaction: the node takes it, or not, and its answer may be lost.
broadcast(w) ==
  /\ At(w, "signed")
  /\ \/ Takes(work[w].row) /\ Go(w, "known")
     \/ Takes(work[w].row) /\ Go(w, "check")
     \/ Go(w, "check") /\ UNCHANGED node
  /\ UNCHANGED rows

Holds(i) == i \in pool \cup mined

\* Mutant of tx_known: an answer that is lost is a broadcast that failed.
NeverKnown(w) ==
  /\ At(w, "check")
  /\ Mark(work[w].row, "released") /\ work' = [work EXCEPT ![w] = Idle]
  /\ UNCHANGED node

\* _tx_known after a broadcast that raised: the row is released unless the
\* node has the transaction.  No answer counts as no.
tx_known(w) ==
  /\ At(w, "check")
  /\ \/ Holds(work[w].row) /\ Go(w, "known") /\ UNCHANGED rows
     \/ /\ Holds(work[w].row) => Forgetful
        /\ Mark(work[w].row, "released") /\ work' = [work EXCEPT ![w] = Idle]
  /\ UNCHANGED node

\* slot.sent, and the process lock is given back.
sent(w) ==
  /\ At(w, "known")
  /\ Mark(work[w].row, "sent") /\ Go(w, "wait")
  /\ UNCHANGED node

\* Whatever fails before the signature leaves the block and frees the nonce.
bodyFails(w) ==
  /\ At(w, "reserved")
  /\ Mark(work[w].row, "released") /\ work' = [work EXCEPT ![w] = Idle]
  /\ UNCHANGED node

\* Mutant of receipt: no receipt in time is a failure.
TimeoutIsFailure(w) ==
  /\ At(w, "wait")
  /\ \/ work[w].row \in mined /\ \E s \in MINED : Mark(work[w].row, s)
     \/ Mark(work[w].row, "failed")
  /\ work' = [work EXCEPT ![w] = Idle]
  /\ UNCHANGED node

\* The receipt, of a success or of a revert; or none in time.
receipt(w) ==
  /\ At(w, "wait")
  /\ \/ work[w].row \in mined /\ \E s \in MINED : Mark(work[w].row, s)
     \/ Mark(work[w].row, "pending_confirmation")
  /\ work' = [work EXCEPT ![w] = Idle]
  /\ UNCHANGED node

crash(w) ==
  /\ work[w].at \notin {"idle", "dead"}
  /\ work' = [work EXCEPT ![w] = [Idle EXCEPT !.at = "dead"]]
  /\ UNCHANGED <<rows, node>>

\* Mutant of reconcile: a transaction without a receipt keeps waiting.
ReconcileMinedOnly(i) ==
  /\ rows[i].status = "pending_confirmation"
  /\ i \in mined /\ \E s \in MINED : Mark(i, s)
  /\ UNCHANGED <<work, node>>

\* reconcile_pending: settle a row from its receipt, or drop a stale one.
reconcile(i) ==
  /\ rows[i].status = "pending_confirmation"
  /\ \/ i \in mined /\ \E s \in MINED : Mark(i, s)
     \/ i \notin mined /\ rows[i].old /\ Mark(i, "dropped")
  /\ UNCHANGED <<work, node>>

Init ==
  /\ rows = <<>> /\ work = [w \in Threads |-> Idle]
  /\ pool = {} /\ mined = {} /\ displaced = {} /\ seen = 0

Send(w) ==
  \/ enter(w) \/ _reserve(w) \/ signed(w) \/ broadcast(w) \/ tx_known(w) \/ sent(w)
  \/ bodyFails(w) \/ receipt(w)

Next ==
  \/ \E w \in Threads : Send(w) \/ crash(w)
  \/ \E i \in DOMAIN rows : reconcile(i)
  \/ mine \/ age

Spec == Init /\ [][Next]_vars

\* The reconciler is a periodic job; time passes.
FairSpec == Spec /\ WF_vars(age) /\ \A i \in 1 .. MaxTx : WF_vars(i \in DOMAIN rows /\ reconcile(i))

-----------------------------------------------------------------------------
(* Properties *)

Row == [nonce : Nat, status : IN_FLIGHT \cup MINED \cup {"released", "dropped"},
        hash : BOOLEAN, old : BOOLEAN]

TypeOK ==
  /\ rows \in Seq(Row) /\ Len(rows) <= MaxTx
  /\ work \in [Threads -> [at : Places, count : Nat, row : DOMAIN rows \cup {None}]]
  /\ pool \cup mined \cup displaced \subseteq DOMAIN rows
  /\ seen \in Nat

\* The transaction a live thread is sending or waiting for.
Sending(w) == work[w].row # None

\* Two live threads never send with one nonce, in one process or in two,
\* although the pending count was read outside the row lock, may be stale
\* and comes from a node that lags.
LiveNoncesDiffer ==
  \A v, w \in Threads :
    v # w /\ Sending(v) /\ Sending(w) => rows[work[v].row].nonce # rows[work[w].row].nonce

\* As long as no row has outlived the stale window, nothing the node took is
\* pushed out by another transaction of ours: not by a crash between
\* reservation and broadcast, an answer that is lost, or a lagging count.
NothingDisplaced == (\A i \in DOMAIN rows : ~ rows[i].old) => displaced = {}

\* No transaction is at the node that the table cannot name: a process that
\* dies right after the broadcast leaves the hash to look for.
EveryTxOnRecord == \A i \in pool \cup mined : rows[i].hash

\* A nonce known to be spent is never handed out again, however old its row.
SpentNonceNotReused ==
  [][\A i \in DOMAIN rows' \ DOMAIN rows :
       \A j \in DOMAIN rows : rows[j].status \in MINED => rows'[i].nonce # rows[j].nonce]_vars

IsIn(i, statuses) == i \in DOMAIN rows /\ rows[i].status \in statuses

\* A receipt that did not come in time is not the last word: the row ends
\* confirmed, reverted or dropped.
PendingSettles ==
  \A i \in 1 .. MaxTx : IsIn(i, {"pending_confirmation"}) ~> IsIn(i, MINED \cup {"dropped"})

-----------------------------------------------------------------------------
(* What the source says of this design and the code does not keep.         *)

\* nonces.py: a row is "released if the broadcast never happened".  A node
\* that took the transaction and cannot be asked for it counts as never.
ReleasedNeverMines == \A i \in mined : rows[i].status # "released"
=============================================================================
