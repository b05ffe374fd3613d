----------------------------- MODULE CctpBridge -----------------------------
(***************************************************************************)
(* CCTP transfers of one wallet (backend/services/bridge/cctp.py and       *)
(* chain_ops.py, rows in paycrest/store.py): approve, burn, attestation,   *)
(* mint, each leg recorded by a compare-and-set on the row's status.       *)
(*                                                                         *)
(* Workers are the threads that call advance: the reconciler of each API   *)
(* process, and whoever started the transfer.  One action is one database  *)
(* transaction or one call to Circle; between two of them others run and   *)
(* the worker may die.  Every transfer moves one unit; fees and gas are    *)
(* left out.  What an ended transfer tells the order layer (_emit) is in   *)
(* NairaCashOut.                                                           *)
(***************************************************************************)
EXTENDS Integers, Sequences

CONSTANTS
  Transfers,    \* transfers from one source wallet
  Workers, MayDie, None,
  Scenes,       \* which transfers are started, and which faults there are
  MaxTries      \* bound on bridge.max_attempts

ASSUME WorkersAssumption == MayDie \subseteq Workers /\ None \notin Transfers
ASSUME MaxTriesAssumption == MaxTries \in Nat \ {0}

\* started: the transfers that are started.  stalls: workers interleave, one
\* may be held up between two steps for as long as an attempt takes, and a
\* stranger may relay a message first; when it is false a worker begins only
\* while no live worker is under way.  dies: workers die between two steps.
\* lossy: the answer of a call that Circle carries out may be lost.  tries:
\* bridge.max_attempts.
ASSUME ScenesAssumption ==
  Scenes \subseteq [started: SUBSET Transfers, stalls: BOOLEAN, dies: BOOLEAN, lossy: BOOLEAN, tries: 1 .. MaxTries]

VARIABLES
  scene,
  rows,         \* bridge_transfers
  circle,       \* the transactions Circle was given, by idempotency key
  queue,        \* those of the source wallet that have not landed, in order
  allowance,    \* what the messenger may burn from the source wallet
  burnt, minted,\* burns on chain, and messages relayed, of each transfer
  work, dead    \* what each worker does; those that died

vars == <<scene, rows, circle, queue, allowance, burnt, minted, work, dead>>

Attempts == 0 .. MaxTries - 1
Legs == {"approve", "burn", "mint"}
Txs == Transfers \X Legs \X Attempts

BRIDGE_OPEN == {"pending", "approve_submitted", "burn_submitted", "burned", "attested", "mint_submitted"}
Finished == {"minted", "failed"}

\* tx: the attempt whose transaction the row holds, one for each leg.
NoRow == [status |-> "none", n |-> 0, tx |-> [leg \in Legs |-> 0]]
Idle == [at |-> "idle", b |-> None, row |-> NoRow]

Init ==
  /\ scene \in Scenes
  /\ rows = [b \in Transfers |-> NoRow] /\ circle = [tx \in Txs |-> "none"] /\ queue = <<>> /\ allowance = 0
  /\ burnt = [b \in Transfers |-> 0] /\ minted = [b \in Transfers |-> 0]
  /\ work = [w \in Workers |-> Idle] /\ dead = {}

At(w, place) == w \notin dead /\ work[w].at = place
Go(w, place) == work' = [work EXCEPT ![w].at = place]
Rest(w) == work' = [work EXCEPT ![w] = Idle]

-----------------------------------------------------------------------------
(* Circle and the chains *)

\* What is burned once lands once: an approval sets the allowance, a burn
\* needs and takes it.  A wallet's transactions land in the order given.
land ==
  /\ queue # <<>> /\ queue' = Tail(queue)
  /\ LET tx == Head(queue) IN
     \/ tx[2] = "approve" /\ circle' = [circle EXCEPT ![tx] = "done"] /\ allowance' = 1 /\ UNCHANGED burnt
     \/ /\ tx[2] = "burn" /\ allowance = 1
        /\ circle' = [circle EXCEPT ![tx] = "done"] /\ allowance' = 0
        /\ burnt' = [burnt EXCEPT ![tx[1]] = @ + 1]
     \/ circle' = [circle EXCEPT ![tx] = "failed"] /\ UNCHANGED <<allowance, burnt>>
  /\ UNCHANGED <<scene, rows, minted, work, dead>>

\* A message is relayed once.
landMint(b, n) ==
  /\ circle[<<b, "mint", n>>] = "queued"
  /\ \/ /\ minted[b] < burnt[b] /\ minted' = [minted EXCEPT ![b] = @ + 1]
        /\ circle' = [circle EXCEPT ![<<b, "mint", n>>] = "done"]
     \/ circle' = [circle EXCEPT ![<<b, "mint", n>>] = "failed"] /\ UNCHANGED minted
  /\ UNCHANGED <<scene, rows, queue, allowance, burnt, work, dead>>

\* destinationCaller is zero: anyone may relay.
relay(b) ==
  /\ scene.stalls /\ minted[b] < burnt[b] /\ minted' = [minted EXCEPT ![b] = @ + 1]
  /\ UNCHANGED <<scene, rows, circle, queue, allowance, burnt, work, dead>>

\* Circle takes a transaction once for each idempotency key.
Give(tx) ==
  IF circle[tx] # "none" THEN UNCHANGED <<circle, queue>>
  ELSE /\ circle' = [circle EXCEPT ![tx] = "queued"]
       /\ queue' = IF tx[2] = "mint" THEN queue ELSE Append(queue, tx)

-----------------------------------------------------------------------------
(* One transfer *)

\* start: the row, once for each key.
start(b) ==
  /\ b \in scene.started /\ rows[b].status = "none"
  /\ rows' = [rows EXCEPT ![b].status = "pending"]
  /\ UNCHANGED <<scene, circle, queue, allowance, burnt, minted, work, dead>>

\* advance reads the row.
look(w, b) ==
  /\ At(w, "idle") /\ rows[b].status \in BRIDGE_OPEN
  /\ scene.stalls \/ \A x \in Workers \ dead : work[x].at = "idle"
  /\ work' = [work EXCEPT ![w] = [at |-> "call", b |-> b, row |-> rows[b]]]
  /\ UNCHANGED <<scene, rows, circle, queue, allowance, burnt, minted, dead>>

\* Mutant of CallKey: a new idempotency key for every call, the first one free.
FreshKey(b, leg, n) ==
  <<b, leg, CHOOSE m \in Attempts : /\ circle[<<b, leg, m>>] = "none" \/ m = MaxTries - 1
                                    /\ \A o \in Attempts : o < m => circle[<<b, leg, o>>] # "none">>

CallKey(b, leg, n) == <<b, leg, n>>

\* A call to Circle gives an answer, or an error; after an error Circle may
\* have taken the transaction all the same.
Call(w, leg) ==
  LET tx == CallKey(work[w].b, leg, work[w].row.n) IN
  \/ Give(tx) /\ work' = [work EXCEPT ![w].at = "write", ![w].row.tx[leg] = tx[3]]
  \/ Go(w, "retry") /\ (UNCHANGED <<circle, queue>> \/ (scene.lossy /\ Give(tx)))

\* The transaction a submitted leg waits for, as the row read names it.
Waited(w) ==
  LET r == work[w].row
      leg == CASE r.status = "approve_submitted" -> "approve" [] r.status = "burn_submitted" -> "burn"
               [] OTHER -> "mint"
  IN circle[<<work[w].b, leg, r.tx[leg]>>]

submits(w) ==
  \/ work[w].row.status = "pending" /\ Call(w, "approve")
  \/ work[w].row.status = "approve_submitted" /\ Waited(w) = "done" /\ Call(w, "burn")
  \/ work[w].row.status = "attested" /\ Call(w, "mint")

\* Mutant of observes: a leg that failed on chain is waited for.
WaitsForFailed(w) ==
  /\ \/ work[w].row.status = "burned" /\ (Go(w, "write") \/ Go(w, "retry"))
     \/ work[w].row.status \in {"burn_submitted", "mint_submitted"} /\ Waited(w) = "done" /\ Go(w, "write")
     \/ /\ work[w].row.status \in {"approve_submitted", "burn_submitted", "mint_submitted"}
        /\ Waited(w) # "done" /\ Rest(w)
  /\ UNCHANGED <<circle, queue>>

\* An attestation is there, or its lookup fails.
observes(w) ==
  /\ \/ work[w].row.status = "burned" /\ (Go(w, "write") \/ Go(w, "retry"))
     \/ work[w].row.status \in {"burn_submitted", "mint_submitted"} /\ Waited(w) = "done" /\ Go(w, "write")
     \/ /\ work[w].row.status \in {"approve_submitted", "burn_submitted", "mint_submitted"}
        /\ \/ Waited(w) = "failed" /\ Go(w, "back")
           \/ Waited(w) = "queued" /\ Rest(w)
  /\ UNCHANGED <<circle, queue>>

call(w) ==
  /\ At(w, "call") /\ (submits(w) \/ observes(w))
  /\ UNCHANGED <<scene, rows, allowance, burnt, minted, dead>>

-----------------------------------------------------------------------------
(* What the call gave is written *)

\* Mutant of After: minted as soon as the mint is sent.
AfterSending(st) == CASE st = "pending" -> "approve_submitted" [] st = "approve_submitted" -> "burn_submitted"
                      [] st = "burn_submitted" -> "burned" [] st = "burned" -> "attested" [] OTHER -> "minted"

\* The status a step leads to.
After(st) == CASE st = "pending" -> "approve_submitted" [] st = "approve_submitted" -> "burn_submitted"
               [] st = "burn_submitted" -> "burned" [] st = "burned" -> "attested"
               [] st = "attested" -> "mint_submitted" [] st = "mint_submitted" -> "minted"

\* Mutant of BackTo: a burn that failed is approved again.
BackToStart(st) == IF st = "mint_submitted" THEN "attested" ELSE "pending"

\* Where a leg that failed on chain starts again.
BackTo(st) == CASE st = "approve_submitted" -> "pending" [] st = "burn_submitted" -> "approve_submitted"
                [] st = "mint_submitted" -> "attested"

\* Mutant of StillAt: the row is written as long as it is open.
StillOpen(w) == rows[work[w].b].status \in BRIDGE_OPEN

\* update_bridge with expect.
StillAt(w) == rows[work[w].b].status = work[w].row.status

Wrote(st) == CASE st = "pending" -> {"approve"} [] st = "approve_submitted" -> {"burn"} [] st = "attested" -> {"mint"}
               [] OTHER -> {}

write(w) ==
  LET b == work[w].b  st == work[w].row.status IN
  /\ At(w, "write")
  /\ rows' = IF ~ StillAt(w) THEN rows
             ELSE [rows EXCEPT ![b].status = After(st),
                               ![b].tx = [leg \in Legs |-> IF leg \in Wrote(st) THEN work[w].row.tx[leg] ELSE @[leg]]]
  /\ Rest(w)
  /\ UNCHANGED <<scene, circle, queue, allowance, burnt, minted, dead>>

\* Mutant of LastTry: one try too many.
PastLastTry(n) == n > scene.tries

LastTry(n) == n >= scene.tries

\* _fail_or_retry
failOrRetry(w) ==
  LET b == work[w].b  n == work[w].row.n + 1
      st == IF At(w, "back") THEN BackTo(work[w].row.status) ELSE work[w].row.status IN
  /\ At(w, "retry") \/ At(w, "back")
  /\ rows' = IF ~ StillAt(w) THEN rows
             ELSE IF LastTry(n) THEN [rows EXCEPT ![b].status = "failed"]
             ELSE [rows EXCEPT ![b].n = n, ![b].status = st]
  /\ Rest(w)
  /\ UNCHANGED <<scene, circle, queue, allowance, burnt, minted, dead>>

crash(w) ==
  /\ scene.dies /\ w \in MayDie \ dead /\ dead' = dead \cup {w}
  /\ UNCHANGED <<scene, rows, circle, queue, allowance, burnt, minted, work>>

step(w) == call(w) \/ write(w) \/ failOrRetry(w)

Next ==
  \/ land
  \/ \E b \in Transfers : start(b) \/ relay(b) \/ \E n \in Attempts : landMint(b, n)
  \/ \E w \in Workers : step(w) \/ crash(w) \/ \E b \in Transfers : look(w, b)

Spec == Init /\ [][Next]_vars

\* The chain includes what it was given; a live worker ends what it began; a
\* pass of the reconciler looks at every open transfer, and the process that
\* survives makes passes for ever.
Fairness ==
  /\ WF_vars(land) /\ \A b \in Transfers, n \in Attempts : WF_vars(landMint(b, n))
  /\ \A w \in Workers : WF_vars(step(w))
  /\ \A w \in Workers \ MayDie, b \in Transfers : SF_vars(look(w, b))

FairSpec == Spec /\ Fairness

-----------------------------------------------------------------------------
(* Properties *)

TypeOK ==
  /\ scene \in Scenes /\ dead \subseteq MayDie /\ allowance \in 0 .. 1
  /\ \A b \in Transfers :
       /\ rows[b].status \in BRIDGE_OPEN \cup Finished \cup {"none"}
       /\ rows[b].n \in Attempts /\ rows[b].tx \in [Legs -> Attempts]
       /\ burnt[b] \in Nat /\ minted[b] \in 0 .. burnt[b]
  /\ circle \in [Txs -> {"none", "queued", "done", "failed"}] /\ queue \in Seq(Txs)
  /\ \A w \in Workers : work[w].at \in {"idle", "call", "write", "retry", "back"}

\* The USDC of a transfer leaves the wallet once (cctp.advance).
BurnedOnce == \A b \in Transfers : burnt[b] <= 1

\* The same where nobody stalls: workers take turns, die between a call and
\* its record, and try a call again under a new key.  It is claimed of scenes
\* that keep transfers which share the allowance apart from deaths and lost
\* answers: together they do lead to a second burn.
BurnedOnceUnlessStalled == scene.stalls \/ BurnedOnce

\* A burn the row knows of is never given up as long as its transfer is
\* alive: the leg only moves on towards the mint (cctp._fail_or_retry).
NoBurnForgotten ==
  [][\A b \in Transfers : rows[b].status \in {"burned", "attested", "mint_submitted", "minted"}
       => rows'[b].status \in {"burned", "attested", "mint_submitted"} \cup Finished]_rows

Promise == INSTANCE BridgePromise WITH bridges <-
  [b \in Transfers |->
     [row |-> IF rows[b].status \in BRIDGE_OPEN THEN "open" ELSE rows[b].status,
      usdc |-> IF minted[b] > 0 THEN "there" ELSE IF burnt[b] > 0 THEN "burned" ELSE "source"]]

\* A transfer does what the order layer counts on: minted is written only
\* once the USDC is there, and an ended row stays ended.
KeepsPromise == Promise!BridgeSpec

\* A transfer that was recorded ends, minted or failed, whatever the chain
\* refuses and whoever dies (cctp.reconcile).
TransferEnds == \A b \in Transfers : rows[b].status = "pending" ~> rows[b].status \in Finished
=============================================================================
