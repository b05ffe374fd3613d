------------------------- MODULE CctpBridge_proofs -------------------------
(***************************************************************************)
(* For any number of transfers, workers and attempts, and under every      *)
(* fault scene: the types, that a burn on record is never given up for a   *)
(* new one, and that a transfer keeps the promise the order layer relies   *)
(* on (BridgePromise).  Then, which faults leave it one burn.              *)
(***************************************************************************)
EXTENDS CctpBridge, SequenceTheorems, TLAPS

Submitted == {"approve_submitted", "burn_submitted", "mint_submitted"}

TransferRow == [status : BRIDGE_OPEN \cup Finished \cup {"none"}, n : Attempts, tx : [Legs -> Attempts]]

Jobs == [at : {"idle", "call", "write", "retry", "back"}, b : Transfers \cup {None}, row : TransferRow]

\* The types, with those of the rows the workers remember.
Typed ==
  /\ scene \in Scenes /\ dead \subseteq MayDie /\ allowance \in 0 .. 1
  /\ rows \in [Transfers -> TransferRow]
  /\ burnt \in [Transfers -> Nat] /\ minted \in [Transfers -> Nat]
  /\ \A b \in Transfers : minted[b] <= burnt[b]
  /\ circle \in [Txs -> {"none", "queued", "done", "failed"}]
  /\ queue \in Seq(Txs)
  /\ work \in [Workers -> Jobs]

Started(b) == rows[b].status # "none"

\* A worker under way has read a row that was open, and steps back only from
\* a leg that was submitted.
WorkOK(w) ==
  work[w].at # "idle" =>
    /\ work[w].b \in Transfers /\ Started(work[w].b)
    /\ work[w].row.status \in BRIDGE_OPEN
    /\ work[w].at = "back" => work[w].row.status \in Submitted

\* Whoever is about to write that a transfer is minted has seen it there.
SeenThere(w) ==
  work[w].at = "write" /\ work[w].row.status = "mint_submitted" => minted[work[w].b] > 0

\* A mint that succeeded at Circle is on the chain.
MintsLanded == \A b \in Transfers, n \in Attempts : circle[<<b, "mint", n>>] = "done" => minted[b] > 0

\* What waits to land belongs to a transfer that has a row.
QueueStarted == \A i \in 1 .. Len(queue) : Started(queue[i][1])

\* The inductive invariant.
IInv ==
  /\ Typed
  /\ \A w \in Workers : WorkOK(w) /\ SeenThere(w)
  /\ MintsLanded
  /\ QueueStarted

-----------------------------------------------------------------------------
(* What a step may do to the rows                                           *)

\* A table in which one row was changed.
LEMMA RowSet ==
  ASSUME Typed, NEW b \in Transfers, NEW r \in TransferRow, rows' = [rows EXCEPT ![b] = r]
  PROVE  /\ rows' \in [Transfers -> TransferRow] /\ rows'[b] = r
         /\ \A c \in Transfers : c # b => rows'[c] = rows[c]
BY DEF Typed

\* The rows a worker's write can leave for its transfer: the next status, a
\* step back, a failure, or none of these.
Steps(r, q) ==
  \/ q = r
  \/ /\ r.status \in BRIDGE_OPEN
     /\ q.status = After(r.status) \/ q.status = "failed" \/ q.status = r.status
        \/ (r.status \in Submitted /\ q.status = BackTo(r.status))

LEMMA WriteRow ==
  ASSUME IInv, NEW w \in Workers, write(w)
  PROVE  LET b == work[w].b IN
         /\ b \in Transfers /\ rows' \in [Transfers -> TransferRow]
         /\ \A c \in Transfers : c # b => rows'[c] = rows[c]
         /\ \/ rows'[b] = rows[b]
            \/ /\ rows[b].status \in BRIDGE_OPEN /\ rows'[b].status = After(rows[b].status)
               /\ rows[b].status = "mint_submitted" => minted[b] > 0
<1> DEFINE b == work[w].b  st == work[w].row.status
<1>1. /\ b \in Transfers /\ st \in BRIDGE_OPEN /\ work[w].at = "write"
      /\ rows[b] \in TransferRow /\ work[w].row \in TransferRow
  BY DEF IInv, Typed, WorkOK, write, At, Jobs
<1>2. CASE ~ StillAt(w)
  BY <1>1, <1>2 DEF write, IInv, Typed
<1>3. CASE StillAt(w)
  <2> DEFINE t == [leg \in Legs |-> IF leg \in Wrote(st) THEN work[w].row.tx[leg] ELSE rows[b].tx[leg]]
             r == [[rows[b] EXCEPT !.status = After(st)] EXCEPT !.tx = t]
  <2>1. t \in [Legs -> Attempts]
    BY <1>1 DEF TransferRow
  <2>2. After(st) \in BRIDGE_OPEN \cup Finished
    BY <1>1 DEF After, BRIDGE_OPEN, Finished
  <2>3. r \in TransferRow /\ r.status = After(st)
    BY <1>1, <2>1, <2>2 DEF TransferRow
  <2>4. rows' = [rows EXCEPT ![b] = r]
    BY <1>1, <1>3 DEF write, IInv, Typed
  <2> HIDE DEF r
  <2>5. rows' \in [Transfers -> TransferRow] /\ rows'[b] = r /\ \A c \in Transfers : c # b => rows'[c] = rows[c]
    BY <1>1, <2>3, <2>4, RowSet DEF IInv
  <2>6. rows[b].status = st
    BY <1>3 DEF StillAt
  <2>7. st = "mint_submitted" => minted[b] > 0
    BY <1>1 DEF IInv, SeenThere
  <2> QED
    BY <1>1, <2>3, <2>5, <2>6, <2>7
<1> QED
  BY <1>2, <1>3

LEMMA FailRow ==
  ASSUME IInv, NEW w \in Workers, failOrRetry(w)
  PROVE  LET b == work[w].b IN
         /\ b \in Transfers /\ rows' \in [Transfers -> TransferRow]
         /\ \A c \in Transfers : c # b => rows'[c] = rows[c]
         /\ \/ rows'[b] = rows[b]
            \/ /\ rows[b].status \in BRIDGE_OPEN
               /\ \/ rows'[b].status \in {"failed", rows[b].status}
                  \/ rows[b].status \in Submitted /\ rows'[b].status = BackTo(rows[b].status)
<1> DEFINE b == work[w].b  n == work[w].row.n + 1
           st == IF At(w, "back") THEN BackTo(work[w].row.status) ELSE work[w].row.status
<1>1. /\ b \in Transfers /\ work[w].row.status \in BRIDGE_OPEN /\ rows[b] \in TransferRow
      /\ work[w].row \in TransferRow /\ (At(w, "back") => work[w].row.status \in Submitted)
  BY DEF IInv, Typed, WorkOK, failOrRetry, At, Jobs
<1>2. st \in BRIDGE_OPEN
  BY <1>1 DEF BackTo, Submitted, BRIDGE_OPEN
<1>3. CASE ~ StillAt(w)
  BY <1>1, <1>3 DEF failOrRetry, IInv, Typed
<1>4. CASE StillAt(w) /\ LastTry(n)
  <2> DEFINE r == [rows[b] EXCEPT !.status = "failed"]
  <2>1. r \in TransferRow /\ r.status = "failed"
    BY <1>1 DEF TransferRow, Finished
  <2>2. rows' = [rows EXCEPT ![b] = r]
    BY <1>1, <1>4 DEF failOrRetry, IInv, Typed
  <2> HIDE DEF r
  <2>3. rows' \in [Transfers -> TransferRow] /\ rows'[b] = r /\ \A c \in Transfers : c # b => rows'[c] = rows[c]
    BY <1>1, <2>1, <2>2, RowSet DEF IInv
  <2> QED
    BY <1>1, <1>4, <2>1, <2>3 DEF StillAt
<1>5. CASE StillAt(w) /\ ~ LastTry(n)
  <2> DEFINE r == [[rows[b] EXCEPT !.n = n] EXCEPT !.status = st]
  <2>1. scene.tries \in 1 .. MaxTries /\ n \in Nat
    BY <1>1, ScenesAssumption, MaxTriesAssumption DEF IInv, Typed, TransferRow, Attempts
  <2>2. n \in Attempts
    BY <1>5, <2>1, MaxTriesAssumption DEF LastTry, Attempts
  <2>3. r \in TransferRow /\ r.status = st
    BY <1>1, <1>2, <2>2 DEF TransferRow
  <2>4. rows' = [rows EXCEPT ![b] = r]
    BY <1>1, <1>5 DEF failOrRetry, IInv, Typed
  <2> HIDE DEF r
  <2>5. rows' \in [Transfers -> TransferRow] /\ rows'[b] = r /\ \A c \in Transfers : c # b => rows'[c] = rows[c]
    BY <1>1, <2>3, <2>4, RowSet DEF IInv
  <2> QED
    BY <1>1, <1>5, <2>3, <2>5 DEF StillAt
<1> QED
  BY <1>3, <1>4, <1>5

\* No row is ever taken away.
StillStarted == \A b \in Transfers : Started(b) => Started(b)'

LEMMA WriteStarted == ASSUME IInv, NEW w \in Workers, write(w) \/ failOrRetry(w) PROVE StillStarted
<1>1. CASE write(w)
  BY <1>1, WriteRow DEF StillStarted, Started, After, BRIDGE_OPEN
<1>2. CASE failOrRetry(w)
  BY <1>2, FailRow DEF StillStarted, Started, BackTo, Submitted, BRIDGE_OPEN
<1> QED
  BY <1>1, <1>2

-----------------------------------------------------------------------------
(* Each action keeps the invariant                                          *)

LEMMA IdleJob == Idle \in Jobs /\ NoRow \in TransferRow
BY MaxTriesAssumption DEF Idle, NoRow, Jobs, TransferRow, Attempts

LEMMA InitInv == Init => IInv
<1> SUFFICES ASSUME Init PROVE IInv
  OBVIOUS
<1>1. Typed
  BY IdleJob DEF Init, Typed
<1>2. \A w \in Workers : WorkOK(w) /\ SeenThere(w)
  BY DEF Init, WorkOK, SeenThere, Idle
<1>3. MintsLanded
  <2> SUFFICES ASSUME NEW b \in Transfers, NEW n \in Attempts PROVE circle[<<b, "mint", n>>] = "none"
    BY DEF MintsLanded
  <2>1. <<b, "mint", n>> \in Txs
    BY DEF Txs, Legs
  <2> QED
    BY <2>1 DEF Init
<1> QED
  BY <1>1, <1>2, <1>3 DEF IInv, QueueStarted, Init

\* One worker turns to another job; what it saw is still so.
LEMMA JobInv ==
  ASSUME IInv, NEW w \in Workers, NEW q \in Jobs, work' = [work EXCEPT ![w] = q],
         StillStarted, UNCHANGED minted,
         q.at # "idle" =>
           /\ q.b \in Transfers /\ Started(q.b)' /\ q.row.status \in BRIDGE_OPEN
           /\ q.at = "back" => q.row.status \in Submitted
           /\ q.at = "write" /\ q.row.status = "mint_submitted" => minted[q.b] > 0
  PROVE  work' \in [Workers -> Jobs] /\ \A v \in Workers : WorkOK(v)' /\ SeenThere(v)'
<1>1. work' \in [Workers -> Jobs] /\ work'[w] = q /\ \A v \in Workers : v # w => work'[v] = work[v]
  BY DEF IInv, Typed
<1>2. WorkOK(w)' /\ SeenThere(w)'
  BY <1>1 DEF WorkOK, SeenThere, Started
<1>3. \A v \in Workers : v # w => WorkOK(v)' /\ SeenThere(v)'
  BY <1>1 DEF IInv, WorkOK, SeenThere, StillStarted
<1> QED
  BY <1>1, <1>2, <1>3

\* The transactions of the transfers that were started stay theirs.
LEMMA QueueKept == ASSUME IInv, StillStarted, UNCHANGED queue PROVE QueueStarted'
<1> SUFFICES ASSUME NEW i \in 1 .. Len(queue) PROVE Started(queue[i][1])'
  BY DEF QueueStarted
<1>1. queue[i] \in Txs
  BY DEF IInv, Typed
<1>2. queue[i][1] \in Transfers
  BY <1>1 DEF Txs
<1> QED
  BY <1>2 DEF IInv, QueueStarted, StillStarted

\* A job given back leaves the rest of what the worker touched alone.
LEMMA RestInv ==
  ASSUME IInv, NEW w \in Workers, Rest(w), rows' \in [Transfers -> TransferRow], StillStarted,
         UNCHANGED <<scene, circle, queue, allowance, burnt, minted, dead>>
  PROVE  IInv'
<1>1. work' \in [Workers -> Jobs] /\ \A v \in Workers : WorkOK(v)' /\ SeenThere(v)'
  <2>1. work' = [work EXCEPT ![w] = Idle] /\ Idle \in Jobs /\ Idle.at = "idle"
    BY IdleJob DEF Rest, Idle
  <2> QED
    BY <2>1, JobInv
<1>2. Typed'
  BY <1>1 DEF IInv, Typed
<1>3. MintsLanded' /\ QueueStarted'
  BY QueueKept DEF IInv, MintsLanded
<1> QED
  BY <1>1, <1>2, <1>3 DEF IInv

LEMMA WriteInv == ASSUME IInv, NEW w \in Workers, write(w) PROVE IInv'
<1>1. Rest(w) /\ UNCHANGED <<scene, circle, queue, allowance, burnt, minted, dead>>
  BY DEF write
<1> QED
  BY <1>1, WriteRow, WriteStarted, RestInv

LEMMA FailInv == ASSUME IInv, NEW w \in Workers, failOrRetry(w) PROVE IInv'
<1>1. Rest(w) /\ UNCHANGED <<scene, circle, queue, allowance, burnt, minted, dead>>
  BY DEF failOrRetry
<1> QED
  BY <1>1, FailRow, WriteStarted, RestInv

LEMMA StartInv == ASSUME IInv, NEW b \in Transfers, start(b) PROVE IInv'
<1> DEFINE r == [rows[b] EXCEPT !.status = "pending"]
<1>1. rows[b] \in TransferRow /\ rows' = [rows EXCEPT ![b] = r]
  BY DEF start, IInv, Typed
<1>2. r \in TransferRow /\ r.status = "pending"
  BY <1>1 DEF TransferRow, BRIDGE_OPEN
<1> HIDE DEF r
<1>3. rows' \in [Transfers -> TransferRow] /\ rows'[b] = r /\ \A c \in Transfers : c # b => rows'[c] = rows[c]
  BY <1>1, <1>2, RowSet DEF IInv
<1>4. StillStarted
  BY <1>2, <1>3 DEF StillStarted, Started
<1>5. Typed' /\ MintsLanded' /\ QueueStarted'
  BY <1>3, <1>4, QueueKept DEF start, IInv, Typed, MintsLanded
<1>6. \A v \in Workers : WorkOK(v)' /\ SeenThere(v)'
  BY <1>4 DEF start, IInv, WorkOK, SeenThere, StillStarted
<1> QED
  BY <1>5, <1>6 DEF IInv

LEMMA LookInv == ASSUME IInv, NEW w \in Workers, NEW b \in Transfers, look(w, b) PROVE IInv'
<1> DEFINE q == [at |-> "call", b |-> b, row |-> rows[b]]
<1>1. work' = [work EXCEPT ![w] = q] /\ rows[b].status \in BRIDGE_OPEN
      /\ UNCHANGED <<scene, rows, circle, queue, allowance, burnt, minted, dead>>
  BY DEF look
<1>2. q \in Jobs /\ q.at = "call" /\ q.b = b /\ q.row = rows[b] /\ Started(b)'
  BY <1>1 DEF IInv, Typed, Jobs, Started, BRIDGE_OPEN
<1>3. StillStarted
  BY <1>1 DEF StillStarted, Started
<1> HIDE DEF q
<1>4. work' \in [Workers -> Jobs] /\ \A v \in Workers : WorkOK(v)' /\ SeenThere(v)'
  BY <1>1, <1>2, <1>3, JobInv
<1>5. Typed' /\ MintsLanded' /\ QueueStarted'
  BY <1>1, <1>3, <1>4, QueueKept DEF IInv, Typed, MintsLanded
<1> QED
  BY <1>4, <1>5 DEF IInv

\* Giving Circle a transaction of a started transfer completes nothing.
LEMMA GiveInv ==
  ASSUME IInv, NEW tx \in Txs, Started(tx[1]), Give(tx), UNCHANGED <<rows, minted>>
  PROVE  /\ circle' \in [Txs -> {"none", "queued", "done", "failed"}]
         /\ queue' \in Seq(Txs) /\ QueueStarted' /\ MintsLanded'
<1>1. CASE UNCHANGED <<circle, queue>>
  BY <1>1 DEF IInv, Typed, QueueStarted, MintsLanded, Started
<1>2. CASE circle' = [circle EXCEPT ![tx] = "queued"]
           /\ queue' = IF tx[2] = "mint" THEN queue ELSE Append(queue, tx)
  <2>1. circle' \in [Txs -> {"none", "queued", "done", "failed"}]
        /\ \A x \in Txs : circle'[x] = "done" => circle[x] = "done"
    BY <1>2 DEF IInv, Typed
  <2>2. MintsLanded'
    <3> SUFFICES ASSUME NEW b \in Transfers, NEW n \in Attempts, circle'[<<b, "mint", n>>] = "done"
                 PROVE  minted[b] > 0
      BY DEF MintsLanded
    <3>1. <<b, "mint", n>> \in Txs
      BY DEF Txs, Legs
    <3> QED
      BY <2>1, <3>1 DEF IInv, MintsLanded
  <2>3. CASE queue' = queue
    BY <2>1, <2>2, <2>3 DEF IInv, Typed, QueueStarted, Started
  <2>4. CASE queue' = Append(queue, tx)
    <3>1. queue \in Seq(Txs)
      BY DEF IInv, Typed
    <3>2. /\ queue' \in Seq(Txs) /\ Len(queue') = Len(queue) + 1 /\ Len(queue) \in Nat
          /\ queue'[Len(queue) + 1] = tx /\ \A i \in 1 .. Len(queue) : queue'[i] = queue[i]
      BY <2>4, <3>1
    <3>3. QueueStarted'
      BY <3>2 DEF IInv, QueueStarted, Started
    <3> QED
      BY <2>1, <2>2, <3>2, <3>3
  <2> QED
    BY <1>2, <2>3, <2>4
<1> QED
  BY <1>1, <1>2 DEF Give

\* What a worker under way may turn to: it says "minted" only of a mint that
\* is done.
Fits(q) ==
  q.at # "idle" =>
    /\ q.b \in Transfers /\ Started(q.b) /\ q.row.status \in BRIDGE_OPEN
    /\ q.at = "back" => q.row.status \in Submitted
    /\ q.at = "write" /\ q.row.status = "mint_submitted" => minted[q.b] > 0

LEMMA GoJob ==
  ASSUME IInv, NEW w \in Workers, work[w].at # "idle",
         NEW place \in {"write", "retry", "back"}, Go(w, place),
         place = "back" => work[w].row.status \in Submitted,
         place = "write" /\ work[w].row.status = "mint_submitted" => minted[work[w].b] > 0
  PROVE  \E q \in Jobs : work' = [work EXCEPT ![w] = q] /\ Fits(q)
<1> DEFINE j == work[w]  q == [j EXCEPT !.at = place]
<1>1. j \in Jobs /\ j.b \in Transfers /\ Started(j.b) /\ j.row.status \in BRIDGE_OPEN
  BY DEF IInv, Typed, WorkOK
<1>2. q \in Jobs /\ q.at = place /\ q.b = j.b /\ q.row = j.row
  BY <1>1 DEF Jobs
<1>3. work' = [work EXCEPT ![w] = q]
  BY DEF Go, IInv, Typed
<1>4. Fits(q)
  BY <1>1, <1>2 DEF Fits
<1> QED
  BY <1>2, <1>3, <1>4

\* A call leaves the worker with a result to record, an error, or nothing.
LEMMA CallJob ==
  ASSUME IInv, NEW w \in Workers, call(w)
  PROVE  \E q \in Jobs : work' = [work EXCEPT ![w] = q] /\ Fits(q)
<1> DEFINE j == work[w]
<1>1. /\ j \in Jobs /\ j.at = "call" /\ j.b \in Transfers /\ Started(j.b)
      /\ j.row.status \in BRIDGE_OPEN /\ j.row \in TransferRow
  BY DEF IInv, Typed, WorkOK, call, At, Jobs
<1>2. ASSUME NEW leg \in Legs, Call(w, leg), j.row.status # "mint_submitted"
      PROVE  \E q \in Jobs : work' = [work EXCEPT ![w] = q] /\ Fits(q)
  <2>1. CASE Go(w, "retry")
    BY <1>1, <2>1, GoJob
  <2>2. CASE work' = [work EXCEPT ![w].at = "write", ![w].row.tx[leg] = CallKey(j.b, leg, j.row.n)[3]]
    <3> DEFINE t == [j.row.tx EXCEPT ![leg] = j.row.n]
               r == [j.row EXCEPT !.tx = t]
               q == [[j EXCEPT !.at = "write"] EXCEPT !.row = r]
    <3>1. t \in [Legs -> Attempts]
      BY <1>1 DEF TransferRow
    <3>2. r \in TransferRow /\ r.status = j.row.status
      BY <1>1, <3>1 DEF TransferRow
    <3>3. q \in Jobs /\ q.at = "write" /\ q.b = j.b /\ q.row = r
      BY <1>1, <3>2 DEF Jobs
    <3>4. work' = [work EXCEPT ![w] = q]
      BY <1>1, <2>2 DEF CallKey, IInv, Typed
    <3>5. Fits(q)
      BY <1>1, <1>2, <3>2, <3>3 DEF Fits
    <3> QED
      BY <3>3, <3>4, <3>5
  <2> QED
    BY <1>2, <2>1, <2>2 DEF Call
<1>3. CASE submits(w)
  BY <1>2, <1>3 DEF submits, Legs
<1>4. CASE observes(w)
  <2>1. CASE Rest(w)
    BY <2>1, IdleJob DEF Rest, Idle, Fits
  <2>2. CASE Go(w, "back") /\ j.row.status \in Submitted
    BY <1>1, <2>2, GoJob
  <2>3. CASE j.row.status = "burned" /\ (Go(w, "write") \/ Go(w, "retry"))
    BY <1>1, <2>3, GoJob
  <2>4. CASE j.row.status \in {"burn_submitted", "mint_submitted"} /\ Waited(w) = "done" /\ Go(w, "write")
    <3>1. ASSUME j.row.status = "mint_submitted" PROVE minted[j.b] > 0
      <4>1. Waited(w) = circle[<<j.b, "mint", j.row.tx["mint"]>>]
        BY <3>1 DEF Waited
      <4>2. j.row.tx["mint"] \in Attempts
        BY <1>1 DEF TransferRow, Legs
      <4> QED
        BY <1>1, <2>4, <4>1, <4>2 DEF IInv, MintsLanded
    <3> QED
      BY <1>1, <2>4, <3>1, GoJob
  <2> QED
    BY <1>4, <2>1, <2>2, <2>3, <2>4 DEF observes, Submitted
<1> QED
  BY <1>3, <1>4 DEF call

LEMMA CallInv == ASSUME IInv, NEW w \in Workers, call(w) PROVE IInv'
<1> DEFINE j == work[w]
<1>1. j.b \in Transfers /\ Started(j.b) /\ j.row.n \in Attempts
  BY DEF IInv, Typed, WorkOK, call, At, Jobs, TransferRow
<1>2. UNCHANGED <<scene, rows, allowance, burnt, minted, dead>>
  BY DEF call
<1>3. UNCHANGED <<circle, queue>> \/ \E leg \in Legs : Give(<<j.b, leg, j.row.n>>)
  BY DEF call, submits, observes, Call, CallKey, Legs
<1>4. /\ circle' \in [Txs -> {"none", "queued", "done", "failed"}]
      /\ queue' \in Seq(Txs) /\ QueueStarted' /\ MintsLanded'
  <2>1. CASE UNCHANGED <<circle, queue>>
    BY <1>2, <2>1 DEF IInv, Typed, QueueStarted, MintsLanded, Started
  <2>2. CASE \E leg \in Legs : Give(<<j.b, leg, j.row.n>>)
    <3>1. PICK leg \in Legs : Give(<<j.b, leg, j.row.n>>)
      BY <2>2
    <3>2. <<j.b, leg, j.row.n>> \in Txs
      BY <1>1 DEF Txs
    <3> QED
      BY <1>1, <1>2, <3>1, <3>2, GiveInv
  <2> QED
    BY <1>3, <2>1, <2>2
<1>5. work' \in [Workers -> Jobs] /\ \A v \in Workers : WorkOK(v)' /\ SeenThere(v)'
  <2>1. PICK q \in Jobs : work' = [work EXCEPT ![w] = q] /\ Fits(q)
    BY CallJob
  <2>2. StillStarted /\ \A b \in Transfers : Started(b)' <=> Started(b)
    BY <1>2 DEF StillStarted, Started
  <2> QED
    BY <1>2, <2>1, <2>2, JobInv DEF Fits
<1>6. Typed'
  BY <1>2, <1>4, <1>5 DEF IInv, Typed
<1> QED
  BY <1>4, <1>5, <1>6 DEF IInv

\* The first of the queue lands; it is not a mint.
LEMMA LandInv == ASSUME IInv, land PROVE IInv'
<1> DEFINE tx == Head(queue)
<1>1. queue \in Seq(Txs) /\ queue # <<>> /\ queue' = Tail(queue) /\ UNCHANGED <<scene, rows, minted, work, dead>>
  BY DEF land, IInv, Typed
<1>2. /\ tx \in Txs /\ queue' \in Seq(Txs) /\ Len(queue') = Len(queue) - 1
      /\ \A i \in 1 .. Len(queue') : queue'[i] = queue[i + 1]
  BY <1>1
<1>3. QueueStarted'
  BY <1>1, <1>2 DEF IInv, QueueStarted, Started
<1>4. PICK st \in {"done", "failed"} :
        circle' = [circle EXCEPT ![tx] = st] /\ (st = "done" => tx[2] # "mint")
  BY DEF land
<1>5. /\ circle' \in [Txs -> {"none", "queued", "done", "failed"}]
      /\ \A x \in Txs : circle'[x] = "done" => circle[x] = "done" \/ x[2] # "mint"
  BY <1>2, <1>4 DEF IInv, Typed
<1>6. MintsLanded'
  <2> SUFFICES ASSUME NEW b \in Transfers, NEW n \in Attempts, circle'[<<b, "mint", n>>] = "done"
               PROVE  minted[b] > 0
    BY <1>1 DEF MintsLanded
  <2>1. <<b, "mint", n>> \in Txs
    BY DEF Txs, Legs
  <2> QED
    BY <1>5, <2>1 DEF IInv, MintsLanded
<1>7. allowance' \in 0 .. 1 /\ burnt' \in [Transfers -> Nat] /\ \A b \in Transfers : burnt'[b] >= burnt[b]
  <2>1. tx[1] \in Transfers
    BY <1>2 DEF Txs
  <2>2. CASE UNCHANGED <<allowance, burnt>>
    BY <2>2 DEF IInv, Typed
  <2>3. CASE allowance' = 1 /\ UNCHANGED burnt
    BY <2>3 DEF IInv, Typed
  <2>4. CASE allowance' = 0 /\ burnt' = [burnt EXCEPT ![tx[1]] = @ + 1]
    BY <2>1, <2>4 DEF IInv, Typed
  <2> QED
    BY <2>2, <2>3, <2>4 DEF land
<1>8. Typed'
  BY <1>1, <1>2, <1>5, <1>7 DEF IInv, Typed
<1>9. \A v \in Workers : WorkOK(v)' /\ SeenThere(v)'
  BY <1>1 DEF IInv, WorkOK, SeenThere, Started
<1> QED
  BY <1>3, <1>6, <1>8, <1>9 DEF IInv

\* One more message is relayed, of those burned.
Relayed(b) == minted[b] < burnt[b] /\ minted' = [minted EXCEPT ![b] = @ + 1]

LEMMA RelayInv ==
  ASSUME IInv, NEW b \in Transfers, Relayed(b), UNCHANGED <<scene, rows, queue, allowance, burnt, work, dead>>,
         circle' \in [Txs -> {"none", "queued", "done", "failed"}],
         \A n \in Attempts, c \in Transfers :
           circle'[<<c, "mint", n>>] = "done" => circle[<<c, "mint", n>>] = "done" \/ c = b
  PROVE  IInv'
<1>1. /\ minted' \in [Transfers -> Nat] /\ minted'[b] > 0 /\ minted'[b] <= burnt[b]
      /\ \A c \in Transfers : c # b => minted'[c] = minted[c]
  BY DEF Relayed, IInv, Typed
<1>2. \A c \in Transfers : minted[c] > 0 => minted'[c] > 0
  BY <1>1
<1>3. Typed'
  BY <1>1 DEF IInv, Typed
<1>4. \A v \in Workers : WorkOK(v)' /\ SeenThere(v)'
  BY <1>2 DEF IInv, WorkOK, SeenThere, Started
<1>5. MintsLanded' /\ QueueStarted'
  BY <1>1, <1>2 DEF IInv, MintsLanded, QueueStarted, Started
<1> QED
  BY <1>3, <1>4, <1>5 DEF IInv

LEMMA LandMintInv ==
  ASSUME IInv, NEW b \in Transfers, NEW n \in Attempts, landMint(b, n)
  PROVE  IInv' /\ (Relayed(b) \/ UNCHANGED minted)
<1>1. <<b, "mint", n>> \in Txs
  BY DEF Txs, Legs
<1>2. UNCHANGED <<scene, rows, queue, allowance, burnt, work, dead>>
  BY DEF landMint
<1>3. CASE Relayed(b) /\ circle' = [circle EXCEPT ![<<b, "mint", n>>] = "done"]
  <2>1. circle' \in [Txs -> {"none", "queued", "done", "failed"}]
    BY <1>1, <1>3 DEF IInv, Typed
  <2>2. ASSUME NEW m \in Attempts, NEW c \in Transfers, circle'[<<c, "mint", m>>] = "done", c # b
        PROVE  circle[<<c, "mint", m>>] = "done"
    <3>1. <<c, "mint", m>> \in Txs /\ <<c, "mint", m>> # <<b, "mint", n>>
      BY <2>2 DEF Txs, Legs
    <3> QED
      BY <1>3, <2>2, <3>1 DEF IInv, Typed
  <2> QED
    BY <1>2, <1>3, <2>1, <2>2, RelayInv
<1>4. CASE circle' = [circle EXCEPT ![<<b, "mint", n>>] = "failed"] /\ UNCHANGED minted
  <2>1. /\ circle' \in [Txs -> {"none", "queued", "done", "failed"}]
        /\ \A x \in Txs : circle'[x] = "done" => circle[x] = "done"
    BY <1>1, <1>4 DEF IInv, Typed
  <2>2. \A c \in Transfers, m \in Attempts : <<c, "mint", m>> \in Txs
    BY DEF Txs, Legs
  <2>3. MintsLanded'
    BY <1>4, <2>1, <2>2 DEF IInv, MintsLanded
  <2>4. Typed' /\ QueueStarted' /\ \A v \in Workers : WorkOK(v)' /\ SeenThere(v)'
    BY <1>2, <1>4, <2>1 DEF IInv, Typed, QueueStarted, WorkOK, SeenThere, Started
  <2> QED
    BY <1>4, <2>3, <2>4 DEF IInv
<1> QED
  BY <1>3, <1>4 DEF landMint, Relayed

LEMMA NextInv == IInv /\ [Next]_vars => IInv'
<1> SUFFICES ASSUME IInv, [Next]_vars PROVE IInv'
  OBVIOUS
<1>1. CASE land
  BY <1>1, LandInv
<1>2. CASE \E b \in Transfers : start(b)
  BY <1>2, StartInv
<1>3. CASE \E b \in Transfers : relay(b)
  BY <1>3, RelayInv DEF relay, Relayed, IInv, Typed
<1>4. CASE \E b \in Transfers, n \in Attempts : landMint(b, n)
  BY <1>4, LandMintInv
<1>5. CASE \E w \in Workers : step(w)
  BY <1>5, CallInv, WriteInv, FailInv DEF step
<1>6. CASE \E w \in Workers, b \in Transfers : look(w, b)
  BY <1>6, LookInv
<1>7. CASE (\E w \in Workers : crash(w)) \/ UNCHANGED vars
  <2>1. UNCHANGED <<scene, rows, circle, queue, allowance, burnt, minted, work>> /\ dead' \subseteq MayDie
    BY <1>7 DEF crash, vars, IInv, Typed
  <2> QED
    BY <2>1 DEF IInv, Typed, QueueStarted, MintsLanded, WorkOK, SeenThere, Started
<1> QED
  BY <1>1, <1>2, <1>3, <1>4, <1>5, <1>6, <1>7 DEF Next

LEMMA SpecInv == Spec => []IInv
BY InitInv, NextInv, PTL DEF Spec

-----------------------------------------------------------------------------
(* The theorems                                                             *)

\* Rows, transactions at Circle and workers stay within their types, and no
\* message arrives that was not burned.
THEOREM TypeCorrect == Spec => []TypeOK
<1>1. IInv => TypeOK
  BY DEF IInv, Typed, TypeOK, TransferRow, Jobs
<1> QED
  BY <1>1, SpecInv, PTL

\* From a burn on record a transfer only goes on to its mint, or is given up:
\* no fault sends it back to where it would burn again.
THEOREM BurnRemembered == Spec => NoBurnForgotten
<1> DEFINE After4 == {"burned", "attested", "mint_submitted", "minted"}
           Onward == \A b \in Transfers : rows[b].status \in After4
                       => rows'[b].status \in {"burned", "attested", "mint_submitted"} \cup Finished
<1>1. IInv /\ [Next]_vars => [Onward]_rows
  <2> SUFFICES ASSUME IInv, Next, rows' # rows PROVE Onward
    BY DEF vars
  <2>1. CASE \E b \in Transfers : start(b)
    BY <2>1 DEF start, IInv, Typed, Finished
  <2>2. CASE \E w \in Workers : write(w)
    BY <2>2, WriteRow DEF After, BRIDGE_OPEN, Finished
  <2>3. CASE \E w \in Workers : failOrRetry(w)
    BY <2>3, FailRow DEF BackTo, Submitted, BRIDGE_OPEN, Finished
  <2> QED
    BY <2>1, <2>2, <2>3 DEF Next, land, relay, landMint, step, call, crash, look
<1> QED
  BY <1>1, SpecInv, PTL DEF Spec, NoBurnForgotten

-----------------------------------------------------------------------------
(* The promise                                                              *)

\* What the order layer sees of a transfer.
Shown(b) ==
  [row |-> IF rows[b].status \in BRIDGE_OPEN THEN "open" ELSE rows[b].status,
   usdc |-> IF minted[b] > 0 THEN "there" ELSE IF burnt[b] > 0 THEN "burned" ELSE "source"]

shown == [b \in Transfers |-> Shown(b)]

LEMMA InitPromise == Init => Promise!BridgeInit
BY DEF Init, Promise!BridgeInit, NoRow, BRIDGE_OPEN

\* A step that shows nothing, or changes what one transfer shows.
LEMMA ShownSame ==
  ASSUME \A b \in Transfers : Shown(b)' = Shown(b)
  PROVE  shown' = shown
BY DEF shown

LEMMA ShownOne ==
  ASSUME NEW b \in Transfers, NEW r, NEW u, Shown(b)' = [row |-> r, usdc |-> u],
         \A c \in Transfers : c # b => Shown(c)' = Shown(c)
  PROVE  /\ r = Shown(b).row => shown' = [shown EXCEPT ![b].usdc = u]
         /\ u = Shown(b).usdc => shown' = [shown EXCEPT ![b].row = r]
<1>1. shown[b] = Shown(b) /\ shown' = [shown EXCEPT ![b] = [row |-> r, usdc |-> u]]
  BY DEF shown
<1>2. ASSUME r = Shown(b).row PROVE [Shown(b) EXCEPT !.usdc = u] = [row |-> r, usdc |-> u]
  BY <1>2 DEF Shown
<1>3. ASSUME u = Shown(b).usdc PROVE [Shown(b) EXCEPT !.row = r] = [row |-> r, usdc |-> u]
  BY <1>3 DEF Shown
<1> QED
  BY <1>1, <1>2, <1>3

\* A burn that lands is the promise's burn, unless one had landed before.
LEMMA LandShown == ASSUME IInv, land PROVE Promise!BridgeNext \/ UNCHANGED shown
<1>1. /\ queue \in Seq(Txs) /\ queue # <<>> /\ UNCHANGED <<rows, minted>>
  BY DEF land, IInv, Typed
<1>2. Head(queue) \in Txs /\ Head(queue) = queue[1] /\ 1 \in 1 .. Len(queue)
  BY <1>1
<1>3. PICK b \in Transfers : b = Head(queue)[1] /\ Started(b)
  BY <1>2 DEF IInv, QueueStarted, Txs
<1>4. CASE UNCHANGED burnt
  BY <1>1, <1>4, ShownSame DEF Shown
<1>5. CASE burnt' = [burnt EXCEPT ![b] = @ + 1]
  <2>1. burnt'[b] = burnt[b] + 1 /\ burnt[b] \in Nat /\ minted[b] \in Nat /\ minted[b] <= burnt[b]
        /\ \A c \in Transfers : c # b => Shown(c)' = Shown(c)
    BY <1>1, <1>3, <1>5 DEF IInv, Typed, Shown
  <2>2. CASE burnt[b] > 0
    <3>1. Shown(b)' = Shown(b)
      BY <1>1, <2>1, <2>2 DEF Shown
    <3> QED
      BY <2>1, <3>1, ShownSame
  <2>3. CASE burnt[b] = 0
    <3>1. /\ Shown(b).usdc = "source" /\ Shown(b).row # "none"
          /\ Shown(b)' = [row |-> Shown(b).row, usdc |-> "burned"]
      BY <1>1, <1>3, <2>1, <2>3 DEF Shown, Started
    <3>2. shown' = [shown EXCEPT ![b].usdc = "burned"]
      BY <1>3, <2>1, <3>1, ShownOne
    <3>3. Promise!burns(b)
      BY <1>3, <3>1, <3>2 DEF Promise!burns, shown, Shown
    <3> QED
      BY <1>3, <3>3 DEF Promise!BridgeNext
  <2> QED
    BY <2>1, <2>2, <2>3
<1> QED
  BY <1>3, <1>4, <1>5 DEF land

\* A message that is relayed is the arrival, unless it had arrived.
LEMMA RelayShown ==
  ASSUME IInv, NEW b \in Transfers, Relayed(b), UNCHANGED <<rows, burnt>>
  PROVE  Promise!BridgeNext \/ UNCHANGED shown
<1>1. minted'[b] = minted[b] + 1 /\ burnt[b] \in Nat /\ minted[b] \in Nat /\ minted[b] < burnt[b]
      /\ \A c \in Transfers : c # b => Shown(c)' = Shown(c)
  BY DEF IInv, Typed, Shown, Relayed
<1>2. CASE minted[b] > 0
  <2>1. Shown(b)' = Shown(b)
    BY <1>1, <1>2 DEF Shown
  <2> QED
    BY <1>1, <2>1, ShownSame
<1>3. CASE minted[b] = 0
  <2>1. Shown(b).usdc = "burned" /\ Shown(b)' = [row |-> Shown(b).row, usdc |-> "there"]
    BY <1>1, <1>3 DEF Shown
  <2>2. shown' = [shown EXCEPT ![b].usdc = "there"]
    BY <1>1, <2>1, ShownOne
  <2>3. Promise!arrives(b)
    BY <2>1, <2>2 DEF Promise!arrives, shown, Shown
  <2> QED
    BY <2>3 DEF Promise!BridgeNext
<1> QED
  BY <1>1, <1>2, <1>3

\* A row that changes opens, ends, or shows nothing.
LEMMA RowShown ==
  ASSUME NEW b \in Transfers, NEW st,
         UNCHANGED <<burnt, minted>>, rows'[b].status = st,
         \A c \in Transfers : c # b => rows'[c] = rows[c],
         \/ rows[b].status = "none" /\ st = "pending"
         \/ rows[b].status \in BRIDGE_OPEN /\ st \in BRIDGE_OPEN \cup {"failed"}
         \/ rows[b].status \in BRIDGE_OPEN /\ st = "minted" /\ minted[b] > 0
         \/ rows'[b] = rows[b]
  PROVE  Promise!BridgeNext \/ UNCHANGED shown
<1>1. \A c \in Transfers : c # b => Shown(c)' = Shown(c)
  BY DEF Shown
<1>2. Shown(b)' = [row |-> IF st \in BRIDGE_OPEN THEN "open" ELSE st, usdc |-> Shown(b).usdc]
  BY DEF Shown
<1>3. CASE rows'[b] = rows[b] \/ (rows[b].status \in BRIDGE_OPEN /\ st \in BRIDGE_OPEN)
  <2>1. Shown(b)' = Shown(b)
    BY <1>3 DEF Shown
  <2> QED
    BY <1>1, <2>1, ShownSame
<1>4. CASE rows[b].status = "none" /\ st = "pending"
  <2>1. Shown(b).row = "none" /\ shown' = [shown EXCEPT ![b].row = "open"]
    BY <1>1, <1>2, <1>4, ShownOne DEF Shown, BRIDGE_OPEN
  <2>2. Promise!opens(b)
    BY <2>1 DEF Promise!opens, shown, Shown
  <2> QED
    BY <2>2 DEF Promise!BridgeNext
<1>5. CASE rows[b].status \in BRIDGE_OPEN /\ (st = "failed" \/ (st = "minted" /\ minted[b] > 0))
  <2>1. Shown(b).row = "open" /\ shown' = [shown EXCEPT ![b].row = st]
        /\ (st = "minted" => Shown(b).usdc = "there")
    <3>1. st \notin BRIDGE_OPEN
      BY <1>5 DEF BRIDGE_OPEN
    <3>2. Shown(b)' = [row |-> st, usdc |-> Shown(b).usdc]
      BY <1>2, <3>1
    <3>3. shown' = [shown EXCEPT ![b].row = st]
      BY <1>1, <3>2, ShownOne
    <3>4. Shown(b).row = "open" /\ (minted[b] > 0 => Shown(b).usdc = "there")
      BY <1>5 DEF Shown
    <3> QED
      BY <1>5, <3>3, <3>4
  <2>2. Promise!ends(b)
    BY <1>5, <2>1 DEF Promise!ends, shown, Shown
  <2> QED
    BY <2>2 DEF Promise!BridgeNext
<1> QED
  BY <1>3, <1>4, <1>5

LEMMA NextPromise == IInv /\ [Next]_vars => Promise!BridgeNext \/ UNCHANGED shown
<1> SUFFICES ASSUME IInv, [Next]_vars PROVE Promise!BridgeNext \/ UNCHANGED shown
  OBVIOUS
<1>1. CASE land
  BY <1>1, LandShown
<1>2. ASSUME NEW b \in Transfers, start(b) PROVE Promise!BridgeNext \/ UNCHANGED shown
  <2>1. rows'[b].status = "pending" /\ \A c \in Transfers : c # b => rows'[c] = rows[c]
    BY <1>2 DEF start, IInv, Typed, TransferRow
  <2> QED
    BY <1>2, <2>1, RowShown DEF start
<1>3. CASE \E b \in Transfers : relay(b)
  BY <1>3, RelayShown DEF relay, Relayed
<1>4. ASSUME NEW b \in Transfers, NEW n \in Attempts, landMint(b, n)
      PROVE  Promise!BridgeNext \/ UNCHANGED shown
  <2>1. Relayed(b) \/ UNCHANGED minted
    BY <1>4, LandMintInv
  <2>2. UNCHANGED <<rows, burnt>>
    BY <1>4 DEF landMint
  <2> QED
    BY <2>1, <2>2, RelayShown, ShownSame DEF Shown
<1>5. ASSUME NEW w \in Workers, write(w) PROVE Promise!BridgeNext \/ UNCHANGED shown
  <2>1. UNCHANGED <<burnt, minted>>
    BY <1>5 DEF write
  <2> QED
    BY <1>5, <2>1, WriteRow, RowShown DEF After, BRIDGE_OPEN
<1>6. ASSUME NEW w \in Workers, failOrRetry(w) PROVE Promise!BridgeNext \/ UNCHANGED shown
  <2>1. UNCHANGED <<burnt, minted>>
    BY <1>6 DEF failOrRetry
  <2> QED
    BY <1>6, <2>1, FailRow, RowShown DEF BackTo, Submitted, BRIDGE_OPEN
<1>7. ASSUME UNCHANGED <<rows, burnt, minted>> PROVE UNCHANGED shown
  BY <1>7, ShownSame DEF Shown
<1>8. CASE (\E w \in Workers : call(w) \/ crash(w) \/ \E b \in Transfers : look(w, b)) \/ UNCHANGED vars
  BY <1>7, <1>8 DEF call, crash, look, vars
<1> QED
  BY <1>1, <1>2, <1>3, <1>4, <1>5, <1>6, <1>8 DEF Next, step

\* CCTP keeps what NairaCashOut counts on: the USDC of a transfer is burned
\* before it arrives and counts once, "minted" is written only when it is
\* there, and an ended row stays ended, whatever faults the scene allows.
THEOREM Implements == Spec => KeepsPromise
<1>1. UNCHANGED shown <=> UNCHANGED [b \in Transfers |->
     [row |-> IF rows[b].status \in BRIDGE_OPEN THEN "open" ELSE rows[b].status,
      usdc |-> IF minted[b] > 0 THEN "there" ELSE IF burnt[b] > 0 THEN "burned" ELSE "source"]]
  BY DEF shown, Shown
<1> QED
  BY <1>1, InitPromise, NextPromise, SpecInv, PTL DEF Spec, KeepsPromise, Promise!BridgeSpec

-----------------------------------------------------------------------------
(* One burn                                                                 *)

\* Workers that take turns: of the live ones at most one is under way.
Turns == \A v, w \in Workers \ dead : work[v].at # "idle" /\ work[w].at # "idle" => v = w

ApproveOf(b, n) == circle[<<b, "approve", n>>]
BurnOf(b, n) == circle[<<b, "burn", n>>]

\* What a live worker under way remembers is still so: nobody else writes.
UpToDate(w) ==
  LET job == work[w]  r == rows[job.b] IN
  w \notin dead /\ job.at # "idle" =>
    /\ job.row.status = r.status /\ job.row.n = r.n
    /\ job.at = "call" => job.row.tx = r.tx
    /\ job.at = "write" =>
         /\ r.status = "pending" => job.row.tx["approve"] = r.n
         /\ r.status = "approve_submitted" => job.row.tx["burn"] = r.n
         /\ r.status = "burn_submitted" => BurnOf(job.b, r.tx["burn"]) = "done"
    /\ job.at = "back" =>
         /\ r.status = "approve_submitted" => ApproveOf(job.b, r.tx["approve"]) = "failed"
         /\ r.status = "burn_submitted" => BurnOf(job.b, r.tx["burn"]) = "failed"
    /\ job.at = "retry" => r.status # "burn_submitted"

\* Circle knows no key of an attempt the row has not come to; what waits to
\* land has not landed, and the attempts of a leg land in their order.
KeysInOrder ==
  /\ \A b \in Transfers, n \in Attempts :
       ApproveOf(b, n) # "none" \/ BurnOf(b, n) # "none" => n <= rows[b].n
  /\ \A i \in 1 .. Len(queue) : queue[i][2] # "mint" /\ circle[queue[i]] = "queued"
  /\ \A i, j \in 1 .. Len(queue) :
       i < j /\ queue[i][1] = queue[j][1] /\ queue[i][2] = queue[j][2] => queue[i][3] < queue[j][3]

\* Only transfers of the scene have rows, and nobody dies where none may.
InScene ==
  /\ \A b \in Transfers : Started(b) => b \in scene.started
  /\ scene.dies \/ dead = {}

\* The attempt at a burn that is under way: the row's, or the one a worker is
\* about to record.
Burning(b, n) ==
  \/ rows[b].status = "burn_submitted" /\ rows[b].tx["burn"] = n
  \/ /\ rows[b].status = "approve_submitted" /\ rows[b].n = n
     /\ \E w \in Workers : work[w].at = "write" /\ work[w].b = b

BurnBehind == {"burned", "attested", "mint_submitted", "minted", "failed"}

\* Where every call is answered and recorded, a burn that may still land is
\* the one under way, and a burn that landed is the one under way or behind.
EachBurnKnown ==
  /\ \A b \in Transfers, n \in Attempts : BurnOf(b, n) = "queued" => Burning(b, n)
  /\ \A b \in Transfers :
       \/ burnt[b] = 0
       \/ /\ burnt[b] = 1
          /\ rows[b].status \in BurnBehind \/ \E n \in Attempts : Burning(b, n) /\ BurnOf(b, n) = "done"

BurnGiven(b) == \E n \in Attempts : BurnOf(b, n) # "none"

\* The approval a row holds is the last that was given, and once it landed so
\* have those before it.
ApprovalsInOrder ==
  /\ \A b \in Transfers, n \in Attempts :
       rows[b].status \in {"approve_submitted", "burn_submitted"} /\ ApproveOf(b, n) # "none"
         => n <= rows[b].tx["approve"]
  /\ \A i \in 1 .. Len(queue), b \in Transfers, m, n \in Attempts :
       queue[i] = <<b, "approve", m>> /\ m < n => ApproveOf(b, n) \notin {"done", "failed"}

\* A transfer that has the wallet to itself: once a burn was given there is no
\* approval to come, so of the burns given, whatever their keys, one finds the
\* allowance.
OneAllowance ==
  \A b \in Transfers :
    IF BurnGiven(b)
      THEN /\ rows[b].status \notin {"none", "pending"} /\ ApproveOf(b, rows[b].tx["approve"]) = "done"
           /\ \A i \in 1 .. Len(queue) : queue[i][2] # "approve"
           /\ allowance + burnt[b] <= 1
      ELSE burnt[b] = 0

Answered == ~ scene.dies /\ ~ scene.lossy
Unshared == \A b, c \in scene.started : b = c

\* What holds whenever workers take turns.
InTurn ==
  /\ Turns /\ \A w \in Workers : UpToDate(w)
  /\ KeysInOrder /\ InScene /\ ApprovalsInOrder

\* The inductive invariant of the burns, next to IInv.
BurnInv ==
  ~ scene.stalls =>
    /\ InTurn
    /\ Answered => EachBurnKnown
    /\ Unshared => OneAllowance

\* A transaction is a transfer, a leg and an attempt.
LEMMA TxParts ==
  /\ \A b \in Transfers, leg \in Legs, n \in Attempts : <<b, leg, n>> \in Txs
  /\ \A tx \in Txs : /\ tx = <<tx[1], tx[2], tx[3]>>
                     /\ tx[1] \in Transfers /\ tx[2] \in Legs /\ tx[3] \in Attempts
BY DEF Txs

\* What waits to land is a transaction of a started transfer.
LEMMA Waiting ==
  ASSUME IInv, NEW i \in 1 .. Len(queue)
  PROVE  /\ queue[i] \in Txs /\ queue[i] = <<queue[i][1], queue[i][2], queue[i][3]>>
         /\ queue[i][1] \in Transfers /\ queue[i][2] \in Legs /\ queue[i][3] \in Attempts
         /\ Started(queue[i][1])
<1>1. queue[i] \in Txs
  BY DEF IInv, Typed
<1> QED
  BY <1>1, TxParts DEF IInv, QueueStarted

\* At first nothing was given, and nobody is under way.
LEMMA BurnInit == Init => BurnInv
<1> SUFFICES ASSUME Init PROVE BurnInv
  OBVIOUS
<1>1. \A b \in Transfers, n \in Attempts : ApproveOf(b, n) = "none" /\ BurnOf(b, n) = "none"
  BY TxParts DEF Init, ApproveOf, BurnOf, Legs
<1>2. Turns /\ \A w \in Workers : UpToDate(w)
  BY DEF Init, Turns, UpToDate, Idle
<1>3. KeysInOrder /\ InScene /\ ApprovalsInOrder
  BY <1>1 DEF Init, KeysInOrder, InScene, ApprovalsInOrder, Started, NoRow
<1>4. EachBurnKnown /\ OneAllowance
  BY <1>1 DEF Init, EachBurnKnown, OneAllowance, BurnGiven
<1> QED
  BY <1>2, <1>3, <1>4 DEF BurnInv, InTurn

\* Attempts are only counted up, so the keys stay in their order.
LEMMA KeysKept ==
  ASSUME IInv, rows' \in [Transfers -> TransferRow], KeysInOrder, UNCHANGED <<circle, queue>>,
         \A b \in Transfers : rows'[b].n >= rows[b].n
  PROVE  KeysInOrder'
<1>1. \A b \in Transfers : rows[b].n \in Int /\ rows'[b].n \in Int
  BY DEF IInv, Typed, TransferRow, Attempts
<1>2. \A n \in Attempts : n \in Int
  BY DEF Attempts
<1> QED
  BY <1>1, <1>2 DEF KeysInOrder, ApproveOf, BurnOf

-----------------------------------------------------------------------------
(* The steps that touch neither Circle nor the chain                        *)

\* Of the live workers the one that has written was alone under way: now none is.
LEMMA WriterAlone ==
  ASSUME IInv, Turns, NEW w \in Workers \ dead, work[w].at # "idle", Rest(w), UNCHANGED dead
  PROVE  /\ \A v \in Workers \ dead : v # w => work[v].at = "idle"
         /\ \A v \in Workers \ dead : work'[v].at = "idle"
         /\ Turns' /\ \A v \in Workers : UpToDate(v)'
<1>1. \A v \in Workers \ dead : v # w => work[v].at = "idle"
  BY DEF Turns
<1>2. \A v \in Workers \ dead : work'[v].at = "idle"
  BY <1>1 DEF Rest, IInv, Typed, Idle
<1> QED
  BY <1>1, <1>2 DEF Turns, UpToDate

\* write, of a worker that is up to date: its row takes the next status, and
\* of a leg just given the attempt.
LEMMA WroteRow ==
  ASSUME IInv, InTurn, NEW w \in Workers, write(w)
  PROVE  LET b == work[w].b IN
         /\ b \in Transfers /\ rows' \in [Transfers -> TransferRow]
         /\ w \notin dead /\ work[w].at = "write"
         /\ \A c \in Transfers : c # b => rows'[c] = rows[c]
         /\ rows[b].status \in BRIDGE_OPEN /\ rows'[b].status = After(rows[b].status)
         /\ rows'[b].n = rows[b].n
         /\ rows'[b].tx["approve"] = IF rows[b].status = "pending" THEN rows[b].n ELSE rows[b].tx["approve"]
         /\ rows'[b].tx["burn"] = IF rows[b].status = "approve_submitted" THEN rows[b].n ELSE rows[b].tx["burn"]
<1> DEFINE b == work[w].b  st == work[w].row.status
           t == [leg \in Legs |-> IF leg \in Wrote(st) THEN work[w].row.tx[leg] ELSE rows[b].tx[leg]]
<1>1. /\ b \in Transfers /\ st \in BRIDGE_OPEN /\ work[w].at = "write" /\ w \notin dead
      /\ rows[b] \in TransferRow /\ work[w].row \in TransferRow
  BY DEF IInv, Typed, WorkOK, write, At, Jobs
<1>2. /\ st = rows[b].status /\ StillAt(w)
      /\ st = "pending" => work[w].row.tx["approve"] = rows[b].n
      /\ st = "approve_submitted" => work[w].row.tx["burn"] = rows[b].n
  BY <1>1 DEF InTurn, UpToDate, StillAt
<1>3. rows' = [rows EXCEPT ![b].status = After(st), ![b].tx = t]
  BY <1>1, <1>2 DEF write
<1>4. /\ t["approve"] = IF st = "pending" THEN rows[b].n ELSE rows[b].tx["approve"]
      /\ t["burn"] = IF st = "approve_submitted" THEN rows[b].n ELSE rows[b].tx["burn"]
  BY <1>2 DEF Wrote, Legs
<1> HIDE DEF t
<1>5. rows'[b].status = After(st) /\ rows'[b].n = rows[b].n /\ rows'[b].tx = t
  BY <1>1, <1>3 DEF IInv, Typed, TransferRow
<1>6. rows' \in [Transfers -> TransferRow] /\ \A c \in Transfers : c # b => rows'[c] = rows[c]
  BY WriteRow
<1> QED
  BY <1>1, <1>2, <1>4, <1>5, <1>6

\* _fail_or_retry, of a worker that is up to date: the row fails, or counts one
\* more attempt and stays or steps back.
LEMMA FailedRow ==
  ASSUME IInv, InTurn, NEW w \in Workers, failOrRetry(w)
  PROVE  LET b == work[w].b IN
         /\ b \in Transfers /\ rows' \in [Transfers -> TransferRow]
         /\ w \notin dead /\ work[w].at \in {"retry", "back"}
         /\ \A c \in Transfers : c # b => rows'[c] = rows[c]
         /\ rows[b].status \in BRIDGE_OPEN /\ rows'[b].tx = rows[b].tx /\ rows'[b].n >= rows[b].n
         /\ work[w].at = "back" => rows[b].status \in Submitted
         /\ \/ rows'[b].status = "failed"
            \/ work[w].at = "back" /\ rows'[b].status = BackTo(rows[b].status)
            \/ work[w].at = "retry" /\ rows'[b].status = rows[b].status
<1> DEFINE b == work[w].b  n == work[w].row.n + 1
           st == IF At(w, "back") THEN BackTo(work[w].row.status) ELSE work[w].row.status
<1>1. /\ b \in Transfers /\ work[w].row.status \in BRIDGE_OPEN /\ rows[b] \in TransferRow
      /\ w \notin dead /\ work[w].at \in {"retry", "back"}
      /\ work[w].at = "back" => work[w].row.status \in Submitted
  BY DEF IInv, Typed, WorkOK, failOrRetry, At, Jobs
<1>2. work[w].row.status = rows[b].status /\ work[w].row.n = rows[b].n /\ StillAt(w)
  BY <1>1 DEF InTurn, UpToDate, StillAt
<1>3. rows[b].n \in Int
  BY <1>1 DEF TransferRow, Attempts
<1>4. rows' = IF LastTry(n) THEN [rows EXCEPT ![b].status = "failed"]
              ELSE [rows EXCEPT ![b].n = n, ![b].status = st]
  BY <1>2 DEF failOrRetry
<1> HIDE DEF st, n
<1>5. /\ rows'[b].tx = rows[b].tx
      /\ \/ rows'[b].status = "failed" /\ rows'[b].n = rows[b].n
         \/ rows'[b].status = st /\ rows'[b].n = n
  BY <1>1, <1>4 DEF IInv, Typed, TransferRow
<1>6. rows' \in [Transfers -> TransferRow] /\ \A c \in Transfers : c # b => rows'[c] = rows[c]
  BY FailRow
<1>7. n = rows[b].n + 1 /\ st = IF work[w].at = "back" THEN BackTo(rows[b].status) ELSE rows[b].status
  BY <1>1, <1>2 DEF n, st, At
<1> QED
  BY <1>1, <1>2, <1>3, <1>5, <1>6, <1>7

\* Of the transfer a worker is about to record, the burn under way is the one
\* that is done or failed, or the one just given.
LEMMA BurnWritten ==
  ASSUME IInv, InTurn, ~ scene.stalls, Answered, EachBurnKnown, NEW w \in Workers, write(w),
         NEW b \in Transfers, b = work[w].b
  PROVE  EachBurnKnown'
<1>1. /\ dead = {} /\ dead' = {} /\ b \in Transfers /\ work[w].at = "write"
      /\ UNCHANGED <<circle, queue, burnt>> /\ Rest(w) /\ UNCHANGED dead
  BY WroteRow DEF InTurn, InScene, Answered, write
<1>2. /\ \A v \in Workers : v # w => work[v].at = "idle"
      /\ \A v \in Workers : work'[v].at = "idle"
  BY <1>1, WriterAlone DEF InTurn
<1>3. /\ \A c \in Transfers : c # b => rows'[c] = rows[c]
      /\ rows[b].status \in BRIDGE_OPEN /\ rows'[b].status = After(rows[b].status)
      /\ rows[b].status = "approve_submitted" => rows'[b].tx["burn"] = rows[b].n
      /\ rows[b].status = "burn_submitted" => BurnOf(b, rows[b].tx["burn"]) = "done"
  BY <1>1, WroteRow DEF InTurn, UpToDate
<1>4. \A c \in Transfers, n \in Attempts : c # b /\ Burning(c, n) => Burning(c, n)'
  BY <1>2, <1>3 DEF Burning
<1>5. \A n \in Attempts : Burning(b, n) =>
        \/ Burning(b, n)'
        \/ BurnOf(b, n) = "done" /\ rows'[b].status = "burned"
  BY <1>3 DEF Burning, After
<1>6. ASSUME NEW c \in Transfers, NEW n \in Attempts, BurnOf(c, n)' = "queued"
      PROVE  Burning(c, n)'
  BY <1>1, <1>3, <1>4, <1>5, <1>6 DEF EachBurnKnown, BurnOf
<1>7. ASSUME NEW c \in Transfers, burnt[c] = 1
      PROVE  rows'[c].status \in BurnBehind \/ \E n \in Attempts : Burning(c, n)' /\ BurnOf(c, n)' = "done"
  <2>1. rows[c].status \in BurnBehind \/ \E n \in Attempts : Burning(c, n) /\ BurnOf(c, n) = "done"
    BY <1>7 DEF EachBurnKnown
  <2>2. ASSUME rows[b].status \in BurnBehind PROVE rows'[b].status \in BurnBehind
    BY <1>3, <2>2 DEF After, BurnBehind, BRIDGE_OPEN
  <2> QED
    BY <1>1, <1>3, <1>4, <1>5, <2>1, <2>2 DEF BurnOf, BurnBehind
<1> QED
  BY <1>1, <1>6, <1>7 DEF EachBurnKnown

\* A result on record: the burn that was given is the row's.
LEMMA WriteBurns ==
  ASSUME IInv, BurnInv, NEW w \in Workers, write(w)
  PROVE  BurnInv'
<1> SUFFICES ASSUME ~ scene.stalls
             PROVE  InTurn' /\ (Answered => EachBurnKnown') /\ (Unshared => OneAllowance')
  BY DEF BurnInv, write, Answered, Unshared
<1> DEFINE b == work[w].b
<1>1. InTurn /\ Rest(w) /\ UNCHANGED <<scene, circle, queue, allowance, burnt, minted, dead>>
  BY DEF write, BurnInv
<1>2. /\ b \in Transfers /\ rows' \in [Transfers -> TransferRow] /\ w \notin dead
      /\ \A c \in Transfers : c # b => rows'[c] = rows[c]
      /\ rows[b].status \in BRIDGE_OPEN /\ rows'[b].status = After(rows[b].status) /\ rows'[b].n = rows[b].n
      /\ rows'[b].tx["approve"] = IF rows[b].status = "pending" THEN rows[b].n ELSE rows[b].tx["approve"]
  BY <1>1, WroteRow
<1>3. Turns' /\ \A v \in Workers : UpToDate(v)'
  BY <1>1, <1>2, WriterAlone, WroteRow DEF InTurn
<1>4. KeysInOrder'
  <2>1. \A c \in Transfers : rows[c].n \in Int
    BY DEF IInv, Typed, TransferRow, Attempts
  <2> QED
    BY <1>1, <1>2, <2>1, KeysKept DEF InTurn
<1>5. InScene'
  BY <1>1, <1>2 DEF InTurn, InScene, Started, BRIDGE_OPEN
<1>6. ApprovalsInOrder'
  <2>1. \A c \in Transfers, n \in Attempts : ApproveOf(c, n)' = ApproveOf(c, n)
    BY <1>1 DEF ApproveOf
  <2>2. \A n \in Attempts : rows[b].status = "pending" /\ ApproveOf(b, n) # "none" => n <= rows[b].n
    BY <1>1, <1>2 DEF InTurn, KeysInOrder
  <2>3. rows'[b].status \in {"approve_submitted", "burn_submitted"} =>
          \/ rows[b].status = "pending" /\ rows'[b].tx["approve"] = rows[b].n
          \/ rows[b].status = "approve_submitted" /\ rows'[b].tx["approve"] = rows[b].tx["approve"]
    BY <1>2 DEF After, BRIDGE_OPEN
  <2> HIDE DEF b
  <2> QED
    BY <1>1, <1>2, <2>1, <2>2, <2>3 DEF InTurn, ApprovalsInOrder
<1>7. Answered => EachBurnKnown'
  BY <1>1, <1>2, BurnWritten DEF BurnInv
<1>8. ASSUME Unshared PROVE OneAllowance'
  <2>1. OneAllowance
    BY <1>8 DEF BurnInv
  <2>2. \A c \in Transfers : BurnGiven(c)' <=> BurnGiven(c)
    BY <1>1 DEF BurnGiven, BurnOf
  <2>3. \A c \in Transfers : rows[c].status \notin {"none", "pending"} =>
          rows'[c].status \notin {"none", "pending"} /\ rows'[c].tx["approve"] = rows[c].tx["approve"]
    BY <1>2 DEF After, BRIDGE_OPEN
  <2> QED
    BY <1>1, <2>1, <2>2, <2>3 DEF OneAllowance, ApproveOf
<1> QED
  BY <1>3, <1>4, <1>5, <1>6, <1>7, <1>8 DEF InTurn

\* A row fails or steps back only from a burn that failed, or before one was
\* given.
LEMMA BurnFailed ==
  ASSUME IInv, InTurn, ~ scene.stalls, Answered, EachBurnKnown, NEW w \in Workers, failOrRetry(w),
         NEW b \in Transfers, b = work[w].b
  PROVE  EachBurnKnown'
<1>1. /\ dead = {} /\ dead' = {} /\ b \in Transfers /\ work[w].at \in {"retry", "back"}
      /\ UNCHANGED <<circle, queue, burnt>> /\ Rest(w) /\ UNCHANGED dead
  BY FailedRow DEF InTurn, InScene, Answered, failOrRetry
<1>2. \A v \in Workers : v # w => work[v].at = "idle"
  BY <1>1, WriterAlone DEF InTurn
<1>3. /\ \A c \in Transfers : c # b => rows'[c] = rows[c]
      /\ rows[b].status \in BRIDGE_OPEN
      /\ work[w].at = "back" => rows[b].status \in Submitted
      /\ \/ rows'[b].status = "failed"
         \/ work[w].at = "back" /\ rows'[b].status = BackTo(rows[b].status)
         \/ work[w].at = "retry" /\ rows'[b].status = rows[b].status
      /\ rows[b].status = "burn_submitted" => BurnOf(b, rows[b].tx["burn"]) = "failed"
  BY <1>1, FailedRow DEF InTurn, UpToDate
<1>4. \A c \in Transfers, n \in Attempts : c # b /\ Burning(c, n) => Burning(c, n)'
  BY <1>1, <1>2, <1>3 DEF Burning
<1>5. \A n \in Attempts : Burning(b, n) => BurnOf(b, n) = "failed"
  BY <1>1, <1>2, <1>3 DEF Burning
<1>6. ASSUME NEW c \in Transfers, NEW n \in Attempts, BurnOf(c, n)' = "queued"
      PROVE  Burning(c, n)'
  BY <1>1, <1>3, <1>4, <1>5, <1>6 DEF EachBurnKnown, BurnOf
<1>7. ASSUME NEW c \in Transfers, burnt[c] = 1
      PROVE  rows'[c].status \in BurnBehind \/ \E n \in Attempts : Burning(c, n)' /\ BurnOf(c, n)' = "done"
  <2>1. rows[c].status \in BurnBehind \/ \E n \in Attempts : Burning(c, n) /\ BurnOf(c, n) = "done"
    BY <1>7 DEF EachBurnKnown
  <2>2. ASSUME rows[b].status \in BurnBehind PROVE rows'[b].status \in BurnBehind
    BY <1>3, <2>2 DEF BackTo, Submitted, BurnBehind, BRIDGE_OPEN
  <2> QED
    BY <1>1, <1>3, <1>4, <1>5, <2>1, <2>2 DEF BurnOf
<1> QED
  BY <1>1, <1>6, <1>7 DEF EachBurnKnown

\* A failure on record never takes a given burn back to its approval.
LEMMA FailBurns ==
  ASSUME IInv, BurnInv, NEW w \in Workers, failOrRetry(w)
  PROVE  BurnInv'
<1> SUFFICES ASSUME ~ scene.stalls
             PROVE  InTurn' /\ (Answered => EachBurnKnown') /\ (Unshared => OneAllowance')
  BY DEF BurnInv, failOrRetry, Answered, Unshared
<1> DEFINE b == work[w].b
<1>1. InTurn /\ Rest(w) /\ UNCHANGED <<scene, circle, queue, allowance, burnt, minted, dead>>
  BY DEF failOrRetry, BurnInv
<1>2. /\ b \in Transfers /\ rows' \in [Transfers -> TransferRow]
      /\ w \notin dead /\ work[w].at \in {"retry", "back"}
      /\ \A c \in Transfers : c # b => rows'[c] = rows[c]
      /\ rows[b].status \in BRIDGE_OPEN /\ rows'[b].tx = rows[b].tx /\ rows'[b].n >= rows[b].n
      /\ work[w].at = "back" => rows[b].status \in Submitted
      /\ \/ rows'[b].status = "failed"
         \/ work[w].at = "back" /\ rows'[b].status = BackTo(rows[b].status)
         \/ work[w].at = "retry" /\ rows'[b].status = rows[b].status
  BY <1>1, FailedRow
<1>3. Turns' /\ \A v \in Workers : UpToDate(v)'
  BY <1>1, <1>2, WriterAlone DEF InTurn
<1>4. KeysInOrder'
  <2>1. \A c \in Transfers : rows[c].n \in Int
    BY DEF IInv, Typed, TransferRow, Attempts
  <2> QED
    BY <1>1, <1>2, <2>1, KeysKept DEF InTurn
<1>5. InScene'
  BY <1>1, <1>2 DEF InTurn, InScene, Started, BRIDGE_OPEN
<1>6. ApprovalsInOrder'
  BY <1>1, <1>2 DEF InTurn, ApprovalsInOrder, ApproveOf, BackTo, Submitted, BRIDGE_OPEN
<1>7. Answered => EachBurnKnown'
  BY <1>1, <1>2, BurnFailed DEF BurnInv
<1>8. rows[b].status = "approve_submitted" /\ work[w].at = "back" => ApproveOf(b, rows[b].tx["approve"]) = "failed"
  BY <1>1, <1>2 DEF InTurn, UpToDate
<1>9. ASSUME Unshared PROVE OneAllowance'
  <2>1. OneAllowance
    BY <1>9 DEF BurnInv
  <2>2. /\ \A c \in Transfers : BurnGiven(c)' <=> BurnGiven(c)
        /\ \A c \in Transfers, n \in Attempts : ApproveOf(c, n)' = ApproveOf(c, n)
    BY <1>1 DEF BurnGiven, BurnOf, ApproveOf
  <2>3. \A c \in Transfers : rows'[c].tx["approve"] = rows[c].tx["approve"]
    BY <1>2
  <2> HIDE DEF b
  <2>4. ASSUME NEW c \in Transfers, BurnGiven(c)
        PROVE  rows'[c].status \notin {"none", "pending"}
    <3>1. rows[c].status \notin {"none", "pending"} /\ ApproveOf(c, rows[c].tx["approve"]) = "done"
      BY <2>1, <2>4 DEF OneAllowance
    <3>2. CASE c # b
      BY <1>2, <3>1, <3>2
    <3>3. CASE c = b
      BY <1>2, <1>8, <3>1, <3>3 DEF BackTo, Submitted, BRIDGE_OPEN, b
    <3> QED BY <3>2, <3>3
  <2>5. \A c \in Transfers : rows'[c].tx["approve"] \in Attempts
    BY <1>2 DEF TransferRow, Legs
  <2>6. queue' = queue /\ allowance' = allowance /\ burnt' = burnt
    BY <1>1
  <2> QED
    BY <2>1, <2>2, <2>3, <2>4, <2>5, <2>6 DEF OneAllowance, ApproveOf
<1> QED
  BY <1>3, <1>4, <1>5, <1>6, <1>7, <1>9 DEF InTurn

\* A new row has given nothing.
LEMMA StartBurns ==
  ASSUME IInv, BurnInv, NEW b \in Transfers, start(b)
  PROVE  BurnInv'
<1> SUFFICES ASSUME ~ scene.stalls
             PROVE  InTurn' /\ (Answered => EachBurnKnown') /\ (Unshared => OneAllowance')
  BY DEF BurnInv, start, Answered, Unshared
<1>1. InTurn /\ UNCHANGED <<scene, circle, queue, allowance, burnt, minted, work, dead>>
      /\ b \in scene.started /\ rows[b].status = "none"
  BY DEF start, BurnInv
<1>2. /\ rows' \in [Transfers -> TransferRow] /\ \A c \in Transfers : c # b => rows'[c] = rows[c]
      /\ rows'[b].status = "pending" /\ rows'[b].n = rows[b].n
  <2> DEFINE r == [rows[b] EXCEPT !.status = "pending"]
  <2>1. rows \in [Transfers -> TransferRow] /\ rows' = [rows EXCEPT ![b] = r]
    BY DEF start, IInv, Typed
  <2>2. r.status = "pending" /\ r.n = rows[b].n
    BY <2>1 DEF TransferRow
  <2>3. rows' \in [Transfers -> TransferRow]
    BY StartInv DEF IInv, Typed
  <2> HIDE DEF r
  <2> QED
    BY <2>1, <2>2, <2>3
<1>3. Turns' /\ \A v \in Workers : UpToDate(v)'
  <2>1. \A v \in Workers : work[v].at # "idle" => work[v].b \in Transfers /\ work[v].b # b
    BY <1>1 DEF IInv, WorkOK, Started
  <2>2. Turns'
    BY <1>1 DEF InTurn, Turns
  <2>3. ASSUME NEW v \in Workers PROVE UpToDate(v)'
    <3>1. UpToDate(v) /\ work'[v] = work[v] /\ dead' = dead /\ circle' = circle
      BY <1>1 DEF InTurn
    <3>2. work[v].at # "idle" => rows'[work[v].b] = rows[work[v].b]
      BY <1>2, <2>1
    <3> QED
      BY <3>1, <3>2 DEF UpToDate, ApproveOf, BurnOf
  <2> QED
    BY <2>2, <2>3
<1>4. KeysInOrder'
  <2>1. \A c \in Transfers : rows[c].n \in Int
    BY DEF IInv, Typed, TransferRow, Attempts
  <2> QED
    BY <1>1, <1>2, <2>1, KeysKept DEF InTurn
<1>5. InScene'
  BY <1>1, <1>2 DEF InTurn, InScene, Started
<1>6. ApprovalsInOrder'
  BY <1>1, <1>2 DEF InTurn, ApprovalsInOrder, ApproveOf
<1>7. ASSUME Answered PROVE EachBurnKnown'
  <2>1. EachBurnKnown
    BY <1>7 DEF BurnInv
  <2>2. \A c \in Transfers, n \in Attempts : Burning(c, n) => Burning(c, n)'
    BY <1>1, <1>2 DEF Burning
  <2>3. \A c \in Transfers : rows[c].status \in BurnBehind => rows'[c].status \in BurnBehind
    BY <1>1, <1>2 DEF BurnBehind
  <2> QED
    BY <1>1, <2>1, <2>2, <2>3 DEF EachBurnKnown, BurnOf
<1>8. Unshared => OneAllowance'
  BY <1>1, <1>2 DEF BurnInv, OneAllowance, BurnGiven, BurnOf, ApproveOf
<1> QED
  BY <1>3, <1>4, <1>5, <1>6, <1>7, <1>8 DEF InTurn

\* A worker looks only while no live one is under way.
LEMMA LookBurns ==
  ASSUME IInv, BurnInv, NEW w \in Workers, NEW b \in Transfers, look(w, b)
  PROVE  BurnInv'
<1> SUFFICES ASSUME ~ scene.stalls
             PROVE  InTurn' /\ (Answered => EachBurnKnown') /\ (Unshared => OneAllowance')
  BY DEF BurnInv, look, Answered, Unshared
<1>1. InTurn /\ UNCHANGED <<scene, rows, circle, queue, allowance, burnt, minted, dead>>
      /\ w \notin dead /\ work[w].at = "idle" /\ \A v \in Workers \ dead : work[v].at = "idle"
  BY DEF look, At, BurnInv
<1>2. /\ work'[w] = [at |-> "call", b |-> b, row |-> rows[b]]
      /\ \A v \in Workers : v # w => work'[v] = work[v]
  BY DEF look, IInv, Typed
<1>3. Turns' /\ \A v \in Workers : UpToDate(v)'
  <2>1. Turns'
    BY <1>1, <1>2 DEF Turns
  <2>2. UpToDate(w)'
    BY <1>1, <1>2 DEF UpToDate
  <2>3. \A v \in Workers : v # w => UpToDate(v)'
    BY <1>1, <1>2 DEF UpToDate
  <2> QED
    BY <2>1, <2>2, <2>3
<1>4. KeysInOrder' /\ InScene' /\ ApprovalsInOrder'
  BY <1>1 DEF InTurn, KeysInOrder, InScene, ApprovalsInOrder, ApproveOf, BurnOf, Started
<1>5. ASSUME Answered PROVE EachBurnKnown'
  <2>1. EachBurnKnown /\ dead = {}
    BY <1>1, <1>5 DEF BurnInv, InTurn, InScene, Answered
  <2>2. \A c \in Transfers, n \in Attempts : Burning(c, n) => Burning(c, n)'
    BY <1>1, <2>1 DEF Burning
  <2> QED
    BY <1>1, <2>1, <2>2 DEF EachBurnKnown, BurnOf
<1>6. Unshared => OneAllowance'
  BY <1>1 DEF BurnInv, OneAllowance, BurnGiven, BurnOf, ApproveOf
<1> QED
  BY <1>3, <1>4, <1>5, <1>6 DEF InTurn

\* Who dies leaves the others one worker fewer under way.
LEMMA CrashBurns ==
  ASSUME IInv, BurnInv, NEW w \in Workers, crash(w)
  PROVE  BurnInv'
<1>1. /\ UNCHANGED <<scene, rows, circle, queue, allowance, burnt, minted, work>>
      /\ scene.dies /\ dead \subseteq dead'
  BY DEF crash
<1>2. \A b \in Transfers, n \in Attempts : ApproveOf(b, n)' = ApproveOf(b, n) /\ BurnOf(b, n)' = BurnOf(b, n)
  BY <1>1 DEF ApproveOf, BurnOf
<1>3. ASSUME InTurn PROVE Turns' /\ \A v \in Workers : UpToDate(v)'
  BY <1>1, <1>3 DEF InTurn, Turns, UpToDate, ApproveOf, BurnOf
<1>4. ASSUME InTurn PROVE KeysInOrder' /\ InScene' /\ ApprovalsInOrder'
  BY <1>1, <1>2, <1>4 DEF InTurn, KeysInOrder, InScene, ApprovalsInOrder, Started
<1>5. OneAllowance => OneAllowance'
  BY <1>1 DEF OneAllowance, BurnGiven, ApproveOf, BurnOf
<1> QED
  BY <1>1, <1>3, <1>4, <1>5 DEF BurnInv, InTurn, Unshared, Answered

-----------------------------------------------------------------------------
(* Calls to Circle                                                          *)

\* Circle takes the transaction of a leg at the row's attempt.
Gave(b, leg) ==
  LET tx == <<b, leg, rows[b].n>> IN
  /\ circle[tx] = "none" /\ circle' = [circle EXCEPT ![tx] = "queued"]
  /\ queue' = IF leg = "mint" THEN queue ELSE Append(queue, tx)

\* What Circle then knows of each approval and burn.
LEMMA GaveKeys ==
  ASSUME IInv, NEW b \in Transfers, NEW leg \in Legs, Gave(b, leg)
  PROVE  \A c \in Transfers, n \in Attempts :
           /\ IF leg = "approve" /\ c = b /\ n = rows[b].n
                THEN ApproveOf(c, n) = "none" /\ ApproveOf(c, n)' = "queued"
                ELSE ApproveOf(c, n)' = ApproveOf(c, n)
           /\ IF leg = "burn" /\ c = b /\ n = rows[b].n
                THEN BurnOf(c, n) = "none" /\ BurnOf(c, n)' = "queued"
                ELSE BurnOf(c, n)' = BurnOf(c, n)
<1>1. rows[b].n \in Attempts
  BY DEF IInv, Typed, TransferRow
<1>2. \A c \in Transfers, n \in Attempts :
        <<c, "approve", n>> \in Txs /\ <<c, "burn", n>> \in Txs /\ <<b, leg, rows[b].n>> \in Txs
  BY <1>1, TxParts DEF Legs
<1>3. ASSUME NEW x \in Txs
      PROVE  circle'[x] = IF x = <<b, leg, rows[b].n>> THEN "queued" ELSE circle[x]
  BY <1>3 DEF Gave, IInv, Typed
<1>4. circle[<<b, leg, rows[b].n>>] = "none"
  BY DEF Gave
<1> QED
  BY <1>2, <1>3, <1>4 DEF ApproveOf, BurnOf

\* A transaction is given only by a row that is there for it, and where calls
\* are answered the worker is then about to record it.
LEMMA CallGives ==
  ASSUME IInv, InTurn, NEW w \in Workers, call(w), NEW b \in Transfers, b = work[w].b
  PROVE  \/ UNCHANGED <<circle, queue>>
         \/ \E leg \in Legs :
              /\ Gave(b, leg)
              /\ leg = "approve" => rows[b].status = "pending"
              /\ leg = "burn" => /\ rows[b].status = "approve_submitted"
                                 /\ ApproveOf(b, rows[b].tx["approve"]) = "done"
              /\ Answered => work'[w].at = "write"
<1>1. /\ work[w] \in Jobs /\ work[w].at = "call" /\ w \notin dead
      /\ work[w].row.status = rows[b].status /\ work[w].row.n = rows[b].n /\ work[w].row.tx = rows[b].tx
  BY DEF call, At, InTurn, UpToDate, IInv, Typed
<1>2. ASSUME NEW leg \in Legs, Call(w, leg)
      PROVE  UNCHANGED <<circle, queue>> \/ (Gave(b, leg) /\ (Answered => work'[w].at = "write"))
  <2> DEFINE tx == <<b, leg, rows[b].n>>
  <2>1. tx[2] = leg
    OBVIOUS
  <2>2. Give(tx) => UNCHANGED <<circle, queue>> \/ Gave(b, leg)
    <3>1. tx \in Txs
      BY TxParts DEF IInv, Typed, TransferRow
    <3>2. CASE circle[tx] # "none"
      BY <3>2 DEF Give
    <3>3. CASE circle[tx] = "none"
      BY <2>1, <3>3 DEF Give, Gave
    <3> QED
      BY <3>2, <3>3
  <2>3. CASE Give(tx) /\ work' = [work EXCEPT ![w].at = "write", ![w].row.tx[leg] = tx[3]]
    <3>1. work'[w].at = "write"
      BY <1>1, <2>3 DEF IInv, Typed, Jobs
    <3> QED
      BY <2>2, <2>3, <3>1
  <2>4. CASE UNCHANGED <<circle, queue>> \/ (scene.lossy /\ Give(tx))
    BY <2>2, <2>4 DEF Answered
  <2> QED
    BY <1>1, <1>2, <2>3, <2>4 DEF Call, CallKey
<1>3. CASE observes(w)
  BY <1>3 DEF observes
<1>4. CASE submits(w)
  <2>1. Waited(w) = ApproveOf(b, rows[b].tx["approve"]) \/ rows[b].status # "approve_submitted"
    BY <1>1 DEF Waited, ApproveOf
  <2> QED
    BY <1>1, <1>2, <1>4, <2>1 DEF submits, Legs
<1> QED
  BY <1>3, <1>4 DEF call

\* What the worker then remembers.
LEMMA CallRemembers ==
  ASSUME IInv, InTurn, NEW w \in Workers, call(w), NEW b \in Transfers, b = work[w].b
  PROVE  /\ \A v \in Workers : v # w => work'[v] = work[v]
         /\ \/ work'[w].at = "idle"
            \/ LET q == work'[w] IN
               /\ q.b = b /\ q.row.status = rows[b].status /\ q.row.n = rows[b].n
               /\ q.at \in {"write", "retry", "back"}
               /\ q.at = "write" =>
                    /\ rows[b].status = "pending" => q.row.tx["approve"] = rows[b].n
                    /\ rows[b].status = "approve_submitted" => q.row.tx["burn"] = rows[b].n
                    /\ rows[b].status = "burn_submitted" => BurnOf(b, rows[b].tx["burn"]) = "done"
               /\ q.at = "back" =>
                    /\ rows[b].status = "approve_submitted" => ApproveOf(b, rows[b].tx["approve"]) = "failed"
                    /\ rows[b].status = "burn_submitted" => BurnOf(b, rows[b].tx["burn"]) = "failed"
               /\ q.at = "retry" => rows[b].status # "burn_submitted"
<1> DEFINE j == work[w]
<1>1. /\ j \in Jobs /\ j.at = "call" /\ j.row \in TransferRow
      /\ j.row.status = rows[b].status /\ j.row.n = rows[b].n /\ j.row.tx = rows[b].tx
  BY DEF call, At, InTurn, UpToDate, IInv, Typed, Jobs
<1>2. /\ rows[b].status = "approve_submitted" => Waited(w) = ApproveOf(b, rows[b].tx["approve"])
      /\ rows[b].status = "burn_submitted" => Waited(w) = BurnOf(b, rows[b].tx["burn"])
  BY <1>1 DEF Waited, ApproveOf, BurnOf
<1>3. \A v \in Workers : v # w => work'[v] = work[v]
  <2>1. PICK q \in Jobs : work' = [work EXCEPT ![w] = q]
    BY CallJob
  <2> QED
    BY <2>1 DEF IInv, Typed
<1>4. \A place \in {"write", "retry", "back"} : Go(w, place) => work'[w] = [j EXCEPT !.at = place]
  BY DEF Go, IInv, Typed
<1>5. \A place \in {"write", "retry", "back"} : Go(w, place) =>
        /\ work'[w].at = place /\ work'[w].b = b /\ work'[w].row = j.row
  BY <1>1, <1>4 DEF Jobs
<1>6. Rest(w) => work'[w].at = "idle"
  BY DEF Rest, Idle, IInv, Typed
<1>7. CASE observes(w)
  BY <1>1, <1>2, <1>3, <1>5, <1>6, <1>7 DEF observes
<1>8. ASSUME NEW leg \in Legs, Call(w, leg), rows[b].status # "burn_submitted",
             rows[b].status = "pending" => leg = "approve",
             rows[b].status = "approve_submitted" => leg = "burn"
      PROVE  \/ Go(w, "retry")
             \/ /\ work'[w].at = "write" /\ work'[w].b = b
                /\ work'[w].row.status = rows[b].status /\ work'[w].row.n = rows[b].n
                /\ work'[w].row.tx[leg] = rows[b].n
  <2>1. ASSUME work' = [work EXCEPT ![w].at = "write", ![w].row.tx[leg] = CallKey(j.b, leg, j.row.n)[3]]
        PROVE  /\ work'[w].at = "write" /\ work'[w].b = b
               /\ work'[w].row.status = rows[b].status /\ work'[w].row.n = rows[b].n
               /\ work'[w].row.tx[leg] = rows[b].n
    <3> DEFINE t == [j.row.tx EXCEPT ![leg] = j.row.n]
               r == [j.row EXCEPT !.tx = t]
               q == [[j EXCEPT !.at = "write"] EXCEPT !.row = r]
    <3>1. t[leg] = j.row.n
      BY <1>1 DEF TransferRow
    <3>2. r.status = j.row.status /\ r.n = j.row.n /\ r.tx = t
      BY <1>1 DEF TransferRow
    <3>3. q.at = "write" /\ q.b = j.b /\ q.row = r
      BY <1>1 DEF Jobs
    <3>4. work'[w] = q
      BY <1>1, <2>1 DEF CallKey, IInv, Typed
    <3> HIDE DEF t, r, q
    <3> QED
      BY <1>1, <3>1, <3>2, <3>3, <3>4
  <2> QED
    BY <1>8, <2>1 DEF Call
<1>9. CASE submits(w)
  BY <1>1, <1>3, <1>5, <1>8, <1>9 DEF submits, Legs
<1> QED
  BY <1>7, <1>9 DEF call

\* A transaction that was given stands behind the earlier attempts of its leg.
LEMMA GaveInOrder ==
  ASSUME IInv, InTurn, NEW b \in Transfers, NEW leg \in Legs, Gave(b, leg), UNCHANGED rows
  PROVE  KeysInOrder'
<1> DEFINE tx == <<b, leg, rows[b].n>>
<1>1. tx \in Txs /\ rows[b].n \in Attempts /\ queue \in Seq(Txs) /\ Len(queue) \in Nat
  BY TxParts DEF IInv, Typed, TransferRow
<1>2. \A n \in Attempts : n \in Int
  BY DEF Attempts
<1>3. \A c \in Transfers, n \in Attempts :
        (ApproveOf(c, n) # "none" \/ BurnOf(c, n) # "none" => n <= rows[c].n)'
  BY <1>1, <1>2, GaveKeys DEF InTurn, KeysInOrder
<1>4. \A x \in Txs : circle'[x] = IF x = tx THEN "queued" ELSE circle[x]
  BY DEF Gave, IInv, Typed
<1>5. \A i \in 1 .. Len(queue) : queue[i] \in Txs /\ queue[i][2] # "mint" /\ circle'[queue[i]] = "queued"
  BY <1>4, Waiting DEF InTurn, KeysInOrder
<1>6. CASE leg = "mint"
  <2>1. queue' = queue
    BY <1>6 DEF Gave
  <2> QED
    BY <1>3, <1>5, <2>1 DEF InTurn, KeysInOrder
<1>7. CASE leg # "mint"
  <2>1. queue' = Append(queue, tx)
    BY <1>7 DEF Gave
  <2>2. /\ Len(queue') = Len(queue) + 1 /\ queue'[Len(queue) + 1] = tx
        /\ \A i \in 1 .. Len(queue) : queue'[i] = queue[i]
    BY <1>1, <2>1
  <2>3. ASSUME NEW i \in 1 .. Len(queue), queue[i][1] = b, queue[i][2] = leg
        PROVE  queue[i][3] < rows[b].n
    <3>1. queue[i] = <<b, leg, queue[i][3]>> /\ queue[i][3] \in Attempts /\ circle[queue[i]] = "queued"
      BY <2>3, Waiting DEF InTurn, KeysInOrder
    <3>2. queue[i][3] <= rows[b].n
      <4>1. CASE leg = "approve"
        BY <3>1, <4>1 DEF InTurn, KeysInOrder, ApproveOf
      <4>2. CASE leg = "burn"
        BY <3>1, <4>2 DEF InTurn, KeysInOrder, BurnOf
      <4> QED
        BY <1>7, <4>1, <4>2 DEF Legs
    <3>3. queue[i][3] # rows[b].n
      BY <3>1 DEF Gave
    <3> QED
      BY <1>1, <1>2, <3>1, <3>2, <3>3
  <2>4. \A i \in 1 .. Len(queue') : queue'[i][2] # "mint" /\ circle'[queue'[i]] = "queued"
    <3> SUFFICES ASSUME NEW i \in 1 .. Len(queue') PROVE queue'[i][2] # "mint" /\ circle'[queue'[i]] = "queued"
      OBVIOUS
    <3>1. CASE i \in 1 .. Len(queue)
      BY <1>5, <2>2, <3>1
    <3>2. CASE i = Len(queue) + 1
      BY <1>1, <1>4, <1>7, <2>2, <3>2
    <3> QED
      BY <1>1, <2>2, <3>1, <3>2
  <2>5. ASSUME NEW i \in 1 .. Len(queue'), NEW k \in 1 .. Len(queue'),
               i < k, queue'[i][1] = queue'[k][1], queue'[i][2] = queue'[k][2]
        PROVE  queue'[i][3] < queue'[k][3]
    <3>1. i \in 1 .. Len(queue) /\ (k \in 1 .. Len(queue) \/ k = Len(queue) + 1)
      <4>1. Len(queue) \in Nat /\ i \in 1 .. Len(queue) + 1 /\ k \in 1 .. Len(queue) + 1 /\ i < k
        BY <1>1, <2>2, <2>5
      <4> QED
        BY <4>1
    <3>2. CASE k \in 1 .. Len(queue)
      BY <2>2, <2>5, <3>1, <3>2 DEF InTurn, KeysInOrder
    <3>3. CASE k = Len(queue) + 1
      <4>1. queue'[k][1] = b /\ queue'[k][2] = leg /\ queue'[k][3] = rows[b].n
        BY <2>2, <3>3
      <4> QED
        BY <2>2, <2>3, <2>5, <3>1, <4>1
    <3> QED
      BY <3>1, <3>2, <3>3
  <2> QED
    BY <1>3, <2>4, <2>5 DEF KeysInOrder
<1> QED
  BY <1>6, <1>7

\* The approval that is given is the last so far.
LEMMA GaveApprovals ==
  ASSUME IInv, InTurn, NEW b \in Transfers, NEW leg \in Legs, Gave(b, leg), UNCHANGED rows,
         leg = "approve" => rows[b].status = "pending"
  PROVE  ApprovalsInOrder'
<1> DEFINE tx == <<b, leg, rows[b].n>>
<1>1. rows[b].n \in Attempts /\ queue \in Seq(Txs) /\ Len(queue) \in Nat /\ \A n \in Attempts : n \in Int
  BY DEF IInv, Typed, TransferRow, Attempts
<1>2. \A c \in Transfers, n \in Attempts :
        /\ ApproveOf(c, n)' \in {"done", "failed"} => ApproveOf(c, n) \in {"done", "failed"}
        /\ ApproveOf(c, n)' # "none" => ApproveOf(c, n) # "none" \/ (c = b /\ leg = "approve")
  BY GaveKeys
<1>3. ASSUME NEW i \in 1 .. Len(queue'), NEW c \in Transfers, NEW m \in Attempts, NEW n \in Attempts,
             queue'[i] = <<c, "approve", m>>, m < n
      PROVE  ApproveOf(c, n) \notin {"done", "failed"}
  <2>1. CASE i \in 1 .. Len(queue) /\ queue'[i] = queue[i]
    BY <1>3, <2>1 DEF InTurn, ApprovalsInOrder
  <2>2. CASE queue'[i] = tx
    <3>1. c = b /\ m = rows[b].n
      BY <1>3, <2>2
    <3> QED
      BY <1>1, <1>3, <3>1 DEF InTurn, KeysInOrder
  <2> QED
    BY <1>1, <2>1, <2>2 DEF Gave
<1> QED
  BY <1>2, <1>3 DEF InTurn, ApprovalsInOrder

\* The first burn of a transfer alone is given when no approval is to come.
LEMMA GaveAllowance ==
  ASSUME IInv, InTurn, OneAllowance, Unshared, NEW b \in Transfers, NEW leg \in Legs,
         Gave(b, leg), UNCHANGED <<rows, allowance, burnt>>, Started(b),
         leg = "approve" => rows[b].status = "pending",
         leg = "burn" => /\ rows[b].status = "approve_submitted"
                         /\ ApproveOf(b, rows[b].tx["approve"]) = "done"
  PROVE  OneAllowance'
<1>1. /\ rows[b].n \in Attempts /\ rows[b].tx["approve"] \in Attempts
      /\ queue \in Seq(Txs) /\ Len(queue) \in Nat /\ \A n \in Attempts : n \in Int
      /\ allowance <= 1 /\ allowance \in Int
  BY DEF IInv, Typed, TransferRow, Attempts, Legs
<1>2. \A c \in Transfers : Started(c) => c = b
  BY DEF InTurn, InScene, Unshared
<1>3. \A c \in Transfers : BurnGiven(c)' => BurnGiven(c) \/ (c = b /\ leg = "burn")
  BY GaveKeys DEF BurnGiven
<1>4. \A c \in Transfers : BurnGiven(c) => BurnGiven(c)'
  BY GaveKeys DEF BurnGiven
<1>5. ASSUME ApproveOf(b, rows[b].tx["approve"]) = "done" PROVE ApproveOf(b, rows[b].tx["approve"])' = "done"
  BY <1>1, <1>5, GaveKeys DEF ApproveOf
<1>6. ASSUME NEW c \in Transfers, BurnGiven(c)
      PROVE  /\ c = b /\ rows[b].status \notin {"none", "pending"}
             /\ ApproveOf(b, rows[b].tx["approve"]) = "done"
             /\ \A i \in 1 .. Len(queue) : queue[i][2] # "approve"
             /\ allowance + burnt[b] <= 1
  BY <1>2, <1>6 DEF OneAllowance, Started
<1>7. ASSUME leg = "burn"
      PROVE  /\ rows[b].status \notin {"none", "pending"}
             /\ ApproveOf(b, rows[b].tx["approve"]) = "done"
             /\ \A i \in 1 .. Len(queue) : queue[i][2] # "approve"
             /\ allowance + burnt[b] <= 1
  <2>1. ASSUME NEW i \in 1 .. Len(queue), queue[i][2] = "approve" PROVE FALSE
    <3> DEFINE m == queue[i][3]
    <3>1. queue[i] = <<b, "approve", m>> /\ m \in Attempts /\ ApproveOf(b, m) = "queued"
      BY <1>2, <2>1, Waiting DEF InTurn, KeysInOrder, ApproveOf
    <3>2. m < rows[b].tx["approve"]
      <4>1. m <= rows[b].tx["approve"]
        BY <1>7, <3>1 DEF InTurn, ApprovalsInOrder
      <4>2. m # rows[b].tx["approve"]
        BY <1>7, <3>1
      <4> QED
        BY <1>1, <3>1, <4>1, <4>2
    <3> QED
      BY <1>1, <1>7, <3>1, <3>2 DEF InTurn, ApprovalsInOrder
  <2>2. burnt[b] = 0 \/ BurnGiven(b)
    BY DEF OneAllowance
  <2> QED
    BY <1>1, <1>6, <1>7, <2>1, <2>2
<1>8. ASSUME NEW c \in Transfers, BurnGiven(c)'
      PROVE  /\ c = b /\ rows[b].status \notin {"none", "pending"}
             /\ ApproveOf(b, rows[b].tx["approve"])' = "done"
             /\ \A i \in 1 .. Len(queue') : queue'[i][2] # "approve"
             /\ allowance + burnt[b] <= 1
  <2>1. /\ c = b /\ rows[b].status \notin {"none", "pending"}
        /\ ApproveOf(b, rows[b].tx["approve"]) = "done"
        /\ \A i \in 1 .. Len(queue) : queue[i][2] # "approve"
        /\ allowance + burnt[b] <= 1
    BY <1>3, <1>6, <1>7, <1>8
  <2>2. leg # "approve"
    BY <2>1
  <2>3. \A i \in 1 .. Len(queue') : queue'[i][2] # "approve"
    <3> SUFFICES ASSUME NEW i \in 1 .. Len(queue') PROVE queue'[i][2] # "approve"
      OBVIOUS
    <3>1. CASE queue' = queue
      BY <2>1, <3>1
    <3>2. CASE queue' = Append(queue, <<b, leg, rows[b].n>>)
      <4>1. \/ i \in 1 .. Len(queue) /\ queue'[i] = queue[i]
            \/ queue'[i] = <<b, leg, rows[b].n>>
        BY <1>1, <3>2
      <4> QED
        BY <2>1, <2>2, <4>1
    <3> QED
      BY <3>1, <3>2 DEF Gave
  <2> QED
    BY <1>5, <2>1, <2>3
<1> QED
  BY <1>4, <1>8 DEF OneAllowance

\* A call gives at most the transaction the row is there for.
LEMMA CallBurns ==
  ASSUME IInv, BurnInv, NEW w \in Workers, call(w)
  PROVE  BurnInv'
<1> SUFFICES ASSUME ~ scene.stalls
             PROVE  InTurn' /\ (Answered => EachBurnKnown') /\ (Unshared => OneAllowance')
  BY DEF BurnInv, call, Answered, Unshared
<1>1. /\ InTurn /\ UNCHANGED <<scene, rows, allowance, burnt, minted, dead>>
      /\ w \notin dead /\ work[w].at = "call"
  BY DEF call, At, BurnInv
<1>2. PICK b \in Transfers : b = work[w].b /\ Started(b)
  BY <1>1 DEF IInv, WorkOK
<1>3. rows[b] \in TransferRow /\ rows[b].n \in Attempts /\ rows[b].tx["approve"] \in Attempts
      /\ rows[b].tx["burn"] \in Attempts
  BY DEF IInv, Typed, TransferRow, Legs
<1>4. \A c \in Transfers, n \in Attempts :
        /\ ApproveOf(c, n) \in {"done", "failed"} => ApproveOf(c, n)' = ApproveOf(c, n)
        /\ BurnOf(c, n) \in {"done", "failed"} => BurnOf(c, n)' = BurnOf(c, n)
  <2>1. CASE UNCHANGED circle
    BY <2>1 DEF ApproveOf, BurnOf
  <2>2. CASE \E leg \in Legs : Gave(b, leg)
    BY <2>2, GaveKeys
  <2> QED
    BY <1>1, <1>2, <2>1, <2>2, CallGives
<1>5. \A v \in Workers \ dead : v # w => work[v].at = "idle" /\ work'[v].at = "idle"
  BY <1>1, <1>2, CallRemembers DEF InTurn, Turns
<1>6. Turns' /\ \A v \in Workers : UpToDate(v)'
  <2>1. Turns'
    BY <1>1, <1>5 DEF Turns
  <2>2. \A v \in Workers : v # w => UpToDate(v)'
    BY <1>1, <1>5 DEF UpToDate
  <2>3. UpToDate(w)'
    <3>1. /\ BurnOf(b, rows[b].tx["burn"]) \in {"done", "failed"} =>
               BurnOf(b, rows[b].tx["burn"]) = circle'[<<b, "burn", rows[b].tx["burn"]>>]
          /\ ApproveOf(b, rows[b].tx["approve"]) \in {"done", "failed"} =>
               ApproveOf(b, rows[b].tx["approve"]) = circle'[<<b, "approve", rows[b].tx["approve"]>>]
      BY <1>3, <1>4 DEF BurnOf, ApproveOf
    <3>2. CASE work'[w].at = "idle"
      BY <3>2 DEF UpToDate
    <3>3. CASE work'[w].at # "idle"
      <4>1. /\ work'[w].b = b /\ work'[w].at \in {"write", "retry", "back"}
            /\ work'[w].row.status = rows[b].status /\ work'[w].row.n = rows[b].n
        BY <1>1, <1>2, <3>3, CallRemembers
      <4>2. work'[w].at = "write" =>
              /\ rows[b].status = "pending" => work'[w].row.tx["approve"] = rows[b].n
              /\ rows[b].status = "approve_submitted" => work'[w].row.tx["burn"] = rows[b].n
              /\ rows[b].status = "burn_submitted" => BurnOf(b, rows[b].tx["burn"])' = "done"
        BY <1>1, <1>2, <3>1, <3>3, CallRemembers DEF BurnOf
      <4>3. /\ work'[w].at = "back" =>
                 /\ rows[b].status = "approve_submitted" => ApproveOf(b, rows[b].tx["approve"])' = "failed"
                 /\ rows[b].status = "burn_submitted" => BurnOf(b, rows[b].tx["burn"])' = "failed"
            /\ work'[w].at = "retry" => rows[b].status # "burn_submitted"
        BY <1>1, <1>2, <3>1, <3>3, CallRemembers DEF ApproveOf, BurnOf
      <4> QED
        BY <1>1, <4>1, <4>2, <4>3 DEF UpToDate
    <3> QED
      BY <3>2, <3>3
  <2> QED
    BY <2>1, <2>2, <2>3
<1>7. KeysInOrder' /\ InScene' /\ ApprovalsInOrder'
  <2>1. CASE UNCHANGED <<circle, queue>>
    BY <1>1, <2>1 DEF InTurn, KeysInOrder, InScene, ApprovalsInOrder, ApproveOf, BurnOf, Started
  <2>2. ASSUME NEW leg \in Legs, Gave(b, leg), leg = "approve" => rows[b].status = "pending"
        PROVE  KeysInOrder' /\ InScene' /\ ApprovalsInOrder'
    BY <1>1, <2>2, GaveInOrder, GaveApprovals DEF InTurn, InScene, Started
  <2> QED
    BY <1>1, <1>2, <2>1, <2>2, CallGives
<1>8. ASSUME Answered PROVE EachBurnKnown'
  <2>1. EachBurnKnown /\ dead = {}
    BY <1>1, <1>8 DEF BurnInv, InTurn, InScene, Answered
  <2>2. \A c \in Transfers, n \in Attempts : Burning(c, n) => Burning(c, n)'
    BY <1>1, <1>5, <2>1 DEF Burning
  <2>3. ASSUME NEW c \in Transfers, NEW n \in Attempts, BurnOf(c, n)' = "queued"
        PROVE  Burning(c, n)'
    <3>1. CASE BurnOf(c, n) = "queued"
      BY <2>1, <2>2, <3>1 DEF EachBurnKnown
    <3>2. CASE BurnOf(c, n) # "queued"
      <4>1. circle' # circle
        BY <2>3, <3>2 DEF BurnOf
      <4>2. PICK leg \in Legs :
              /\ Gave(b, leg) /\ work'[w].at = "write"
              /\ leg = "burn" => rows[b].status = "approve_submitted"
        BY <1>1, <1>2, <1>8, <4>1, CallGives
      <4>3. leg = "burn" /\ c = b /\ n = rows[b].n
        BY <2>3, <3>2, <4>2, GaveKeys
      <4>4. work'[w].b = b
        BY <1>1, <1>2, <4>2, CallRemembers
      <4> QED
        BY <1>1, <4>2, <4>3, <4>4 DEF Burning
    <3> QED
      BY <3>1, <3>2
  <2> QED
    BY <1>1, <1>4, <2>1, <2>2, <2>3 DEF EachBurnKnown
<1>9. ASSUME Unshared PROVE OneAllowance'
  <2>1. OneAllowance
    BY <1>9 DEF BurnInv
  <2>2. CASE UNCHANGED <<circle, queue>>
    BY <1>1, <2>1, <2>2 DEF OneAllowance, BurnGiven, ApproveOf, BurnOf
  <2>3. ASSUME NEW leg \in Legs, Gave(b, leg), leg = "approve" => rows[b].status = "pending",
               leg = "burn" => /\ rows[b].status = "approve_submitted"
                               /\ ApproveOf(b, rows[b].tx["approve"]) = "done"
        PROVE  OneAllowance'
    BY <1>1, <1>2, <1>9, <2>1, <2>3, GaveAllowance
  <2> QED
    BY <1>1, <1>2, <2>2, <2>3, CallGives
<1> QED
  BY <1>6, <1>7, <1>8, <1>9 DEF InTurn

-----------------------------------------------------------------------------
(* What lands on the chain                                                  *)

\* A step of the chain leaves rows and workers alone, and what had landed.
LEMMA LandedInTurn ==
  ASSUME IInv, InTurn, UNCHANGED <<scene, rows, work, dead>>,
         \A b \in Transfers, n \in Attempts :
           /\ ApproveOf(b, n) \in {"done", "failed"} => ApproveOf(b, n)' = ApproveOf(b, n)
           /\ BurnOf(b, n) \in {"done", "failed"} => BurnOf(b, n)' = BurnOf(b, n)
  PROVE  Turns' /\ InScene' /\ \A w \in Workers : UpToDate(w)'
<1>1. Turns' /\ InScene'
  BY DEF InTurn, Turns, InScene, Started
<1>2. ASSUME NEW w \in Workers PROVE UpToDate(w)'
  <2>1. CASE w \in dead \/ work[w].at = "idle"
    BY <2>1 DEF UpToDate
  <2>2. CASE w \notin dead /\ work[w].at # "idle"
    <3>1. PICK b \in Transfers : b = work[w].b
      BY <2>2 DEF IInv, WorkOK
    <3>2. rows[b].tx["approve"] \in Attempts /\ rows[b].tx["burn"] \in Attempts
      BY DEF IInv, Typed, TransferRow, Legs
    <3>3. /\ BurnOf(b, rows[b].tx["burn"]) \in {"done", "failed"} =>
               BurnOf(b, rows[b].tx["burn"]) = circle'[<<b, "burn", rows[b].tx["burn"]>>]
          /\ ApproveOf(b, rows[b].tx["approve"]) \in {"done", "failed"} =>
               ApproveOf(b, rows[b].tx["approve"]) = circle'[<<b, "approve", rows[b].tx["approve"]>>]
      BY <3>2 DEF BurnOf, ApproveOf
    <3> QED
      BY <3>1, <3>3 DEF InTurn, UpToDate, BurnOf, ApproveOf
  <2> QED
    BY <2>1, <2>2
<1> QED
  BY <1>1, <1>2

\* A mint is no burn.
LEMMA LandMintBurns ==
  ASSUME IInv, BurnInv, NEW b \in Transfers, NEW n \in Attempts, landMint(b, n)
  PROVE  BurnInv'
<1> SUFFICES ASSUME ~ scene.stalls
             PROVE  InTurn' /\ (Answered => EachBurnKnown') /\ (Unshared => OneAllowance')
  BY DEF BurnInv, landMint, Answered, Unshared
<1>1. InTurn /\ UNCHANGED <<scene, rows, queue, allowance, burnt, work, dead>>
  BY DEF landMint, BurnInv
<1>2. \A x \in Txs : x[2] # "mint" => circle'[x] = circle[x]
  BY DEF landMint, IInv, Typed
<1>3. \A c \in Transfers, m \in Attempts : ApproveOf(c, m)' = ApproveOf(c, m) /\ BurnOf(c, m)' = BurnOf(c, m)
  <2> SUFFICES ASSUME NEW c \in Transfers, NEW m \in Attempts
               PROVE  ApproveOf(c, m)' = ApproveOf(c, m) /\ BurnOf(c, m)' = BurnOf(c, m)
    OBVIOUS
  <2>1. <<c, "approve", m>> \in Txs /\ <<c, "burn", m>> \in Txs
    BY TxParts DEF Legs
  <2> QED
    BY <1>2, <2>1 DEF ApproveOf, BurnOf
<1>4. Turns' /\ InScene' /\ \A w \in Workers : UpToDate(w)'
  BY <1>1, <1>3, LandedInTurn
<1>5. KeysInOrder' /\ ApprovalsInOrder'
  <2>1. \A i \in 1 .. Len(queue) : circle'[queue[i]] = circle[queue[i]]
    BY <1>1, <1>2, Waiting DEF InTurn, KeysInOrder
  <2> QED
    BY <1>1, <1>3, <2>1 DEF InTurn, KeysInOrder, ApprovalsInOrder
<1>6. EachBurnKnown => EachBurnKnown'
  BY <1>1, <1>3 DEF EachBurnKnown, Burning
<1>7. OneAllowance => OneAllowance'
  <2>1. \A c \in Transfers : BurnGiven(c)' <=> BurnGiven(c)
    BY <1>3 DEF BurnGiven
  <2>2. \A c \in Transfers : rows[c].tx["approve"] \in Attempts
    BY DEF IInv, Typed, TransferRow, Legs
  <2>3. \A c \in Transfers : ApproveOf(c, rows[c].tx["approve"])' = ApproveOf(c, rows[c].tx["approve"])
    BY <1>1, <1>3, <2>2 DEF ApproveOf
  <2> QED
    BY <1>1, <2>1, <2>3 DEF OneAllowance
<1> QED
  BY <1>4, <1>5, <1>6, <1>7 DEF InTurn, BurnInv

\* The first that waits lands or fails; the others wait on, and are not it.
LEMMA LandKeys ==
  ASSUME IInv, InTurn, land
  PROVE  \E b \in Transfers, leg \in Legs, n \in Attempts :
           /\ queue # <<>> /\ queue[1] = <<b, leg, n>> /\ Head(queue) = queue[1] /\ Started(b)
           /\ circle[<<b, leg, n>>] = "queued" /\ circle'[<<b, leg, n>>] \in {"done", "failed"}
           /\ \A x \in Txs : x # <<b, leg, n>> => circle'[x] = circle[x]
           /\ Len(queue) \in Nat /\ Len(queue) >= 1 /\ Len(queue') = Len(queue) - 1
           /\ \A i \in 1 .. Len(queue') : /\ i + 1 \in 1 .. Len(queue) /\ queue'[i] = queue[i + 1]
                                          /\ queue[i + 1] # queue[1]
<1>1. queue \in Seq(Txs) /\ queue # <<>> /\ queue' = Tail(queue)
  BY DEF land, IInv, Typed
<1>2. /\ Len(queue) \in Nat /\ Len(queue) >= 1 /\ Len(queue') = Len(queue) - 1 /\ Head(queue) = queue[1]
      /\ \A i \in 1 .. Len(queue') : i + 1 \in 1 .. Len(queue) /\ queue'[i] = queue[i + 1]
  BY <1>1
<1>3. 1 \in 1 .. Len(queue)
  BY <1>2
<1>4. /\ queue[1] \in Txs /\ queue[1] = <<queue[1][1], queue[1][2], queue[1][3]>>
      /\ queue[1][1] \in Transfers /\ queue[1][2] \in Legs /\ queue[1][3] \in Attempts /\ Started(queue[1][1])
  BY <1>3, Waiting
<1>5. circle[queue[1]] = "queued"
  BY <1>3 DEF InTurn, KeysInOrder
<1>6. circle' = [circle EXCEPT ![queue[1]] = "done"] \/ circle' = [circle EXCEPT ![queue[1]] = "failed"]
  BY <1>2 DEF land
<1>7. circle'[queue[1]] \in {"done", "failed"} /\ \A x \in Txs : x # queue[1] => circle'[x] = circle[x]
  BY <1>4, <1>6 DEF IInv, Typed
<1>8. ASSUME NEW i \in 1 .. Len(queue') PROVE queue[i + 1] # queue[1]
  <2>1. i + 1 \in 1 .. Len(queue) /\ 1 < i + 1
    BY <1>2
  <2>2. queue[1][3] \in Int
    BY <1>4 DEF Attempts
  <2> QED
    BY <1>3, <2>1, <2>2 DEF InTurn, KeysInOrder
<1> QED
  BY <1>1, <1>2, <1>4, <1>5, <1>7, <1>8

\* What lands was the first to wait, and the rest wait on in their order.
LEMMA LandInTurn ==
  ASSUME IInv, InTurn, land
  PROVE  /\ InTurn'
         /\ \A c \in Transfers, n \in Attempts :
              /\ ApproveOf(c, n) \in {"done", "failed"} => ApproveOf(c, n)' = ApproveOf(c, n)
              /\ BurnOf(c, n) \in {"done", "failed"} => BurnOf(c, n)' = BurnOf(c, n)
              /\ BurnOf(c, n)' = "queued" => BurnOf(c, n) = "queued"
              /\ BurnOf(c, n)' # "none" <=> BurnOf(c, n) # "none"
<1>1. UNCHANGED <<scene, rows, work, dead>>
  BY DEF land
<1>2. PICK b \in Transfers, leg \in Legs, n \in Attempts :
        /\ queue # <<>> /\ queue[1] = <<b, leg, n>>
        /\ circle[<<b, leg, n>>] = "queued" /\ circle'[<<b, leg, n>>] \in {"done", "failed"}
        /\ \A x \in Txs : x # <<b, leg, n>> => circle'[x] = circle[x]
        /\ Len(queue) \in Nat /\ Len(queue) >= 1 /\ Len(queue') = Len(queue) - 1
        /\ \A i \in 1 .. Len(queue') : /\ i + 1 \in 1 .. Len(queue) /\ queue'[i] = queue[i + 1]
                                       /\ queue[i + 1] # queue[1]
  BY LandKeys
<1>3. ASSUME NEW c \in Transfers, NEW k \in {"approve", "burn"}, NEW m \in Attempts
      PROVE  /\ circle[<<c, k, m>>] \in {"done", "failed"} => circle'[<<c, k, m>>] = circle[<<c, k, m>>]
             /\ circle'[<<c, k, m>>] = circle[<<c, k, m>>]
                  \/ (<<c, k, m>> = queue[1] /\ circle[<<c, k, m>>] = "queued"
                        /\ circle'[<<c, k, m>>] \in {"done", "failed"})
  <2>1. <<c, k, m>> \in Txs
    BY TxParts DEF Legs
  <2> QED
    BY <1>2, <2>1
<1>4. \A c \in Transfers, m \in Attempts :
        /\ ApproveOf(c, m) \in {"done", "failed"} => ApproveOf(c, m)' = ApproveOf(c, m)
        /\ BurnOf(c, m) \in {"done", "failed"} => BurnOf(c, m)' = BurnOf(c, m)
        /\ BurnOf(c, m)' = "queued" => BurnOf(c, m) = "queued"
        /\ BurnOf(c, m)' # "none" <=> BurnOf(c, m) # "none"
        /\ ApproveOf(c, m)' # "none" <=> ApproveOf(c, m) # "none"
  BY <1>3 DEF ApproveOf, BurnOf
<1>5. Turns' /\ InScene' /\ \A w \in Workers : UpToDate(w)'
  BY <1>1, <1>4, LandedInTurn
<1>6. KeysInOrder'
  <2>1. \A i \in 1 .. Len(queue') : queue'[i][2] # "mint" /\ circle'[queue'[i]] = "queued"
    <3> SUFFICES ASSUME NEW i \in 1 .. Len(queue') PROVE queue'[i][2] # "mint" /\ circle'[queue'[i]] = "queued"
      OBVIOUS
    <3>1. i + 1 \in 1 .. Len(queue) /\ queue'[i] = queue[i + 1] /\ queue[i + 1] # <<b, leg, n>>
      BY <1>2
    <3>2. queue[i + 1] \in Txs /\ queue[i + 1][2] # "mint" /\ circle[queue[i + 1]] = "queued"
      BY <3>1, Waiting DEF InTurn, KeysInOrder
    <3> QED
      BY <1>2, <3>1, <3>2
  <2>2. ASSUME NEW i \in 1 .. Len(queue'), NEW k \in 1 .. Len(queue'),
               i < k, queue'[i][1] = queue'[k][1], queue'[i][2] = queue'[k][2]
        PROVE  queue'[i][3] < queue'[k][3]
    <3>1. /\ i + 1 \in 1 .. Len(queue) /\ queue'[i] = queue[i + 1]
          /\ k + 1 \in 1 .. Len(queue) /\ queue'[k] = queue[k + 1] /\ i + 1 < k + 1
      BY <1>2, <2>2
    <3> QED
      BY <2>2, <3>1 DEF InTurn, KeysInOrder
  <2> QED
    BY <1>1, <1>4, <2>1, <2>2 DEF InTurn, KeysInOrder
<1>7. ApprovalsInOrder'
  <2>1. ASSUME NEW i \in 1 .. Len(queue'), NEW c \in Transfers, NEW m \in Attempts, NEW o \in Attempts,
               queue'[i] = <<c, "approve", m>>, m < o
        PROVE  ApproveOf(c, o)' \notin {"done", "failed"}
    <3>1. i + 1 \in 1 .. Len(queue) /\ queue[i + 1] = <<c, "approve", m>> /\ 1 < i + 1 /\ 1 \in 1 .. Len(queue)
      BY <1>2, <2>1
    <3>2. ApproveOf(c, o) \notin {"done", "failed"}
      BY <2>1, <3>1 DEF InTurn, ApprovalsInOrder
    <3>3. <<c, "approve", o>> # queue[1]
      <4>1. SUFFICES ASSUME queue[1] = <<c, "approve", o>> PROVE FALSE
        OBVIOUS
      <4>2. queue[1][3] < queue[i + 1][3]
        BY <3>1, <4>1 DEF InTurn, KeysInOrder
      <4>3. o < m /\ o \in Int /\ m \in Int
        BY <3>1, <4>1, <4>2 DEF Attempts
      <4> QED
        BY <2>1, <4>3
    <3> QED
      BY <1>3, <3>2, <3>3 DEF ApproveOf
  <2> QED
    BY <1>1, <1>4, <2>1 DEF InTurn, ApprovalsInOrder
<1> QED
  BY <1>4, <1>5, <1>6, <1>7 DEF InTurn

\* A burn that lands is the first of its transfer.
LEMMA LandKnown ==
  ASSUME IInv, InTurn, EachBurnKnown, land
  PROVE  EachBurnKnown'
<1>1. UNCHANGED <<scene, rows, work, dead>>
  BY DEF land
<1>2. PICK b \in Transfers, leg \in Legs, n \in Attempts :
        /\ queue # <<>> /\ queue[1] = <<b, leg, n>> /\ Head(queue) = queue[1]
        /\ circle[<<b, leg, n>>] = "queued"
  BY LandKeys
<1>3. \A c \in Transfers, m \in Attempts : Burning(c, m)' <=> Burning(c, m)
  BY <1>1 DEF Burning
<1>4. \A c \in Transfers, m \in Attempts :
        /\ BurnOf(c, m) \in {"done", "failed"} => BurnOf(c, m)' = BurnOf(c, m)
        /\ BurnOf(c, m)' = "queued" => BurnOf(c, m) = "queued"
  BY LandInTurn
<1>5. \A c \in Transfers, m \in Attempts : BurnOf(c, m)' = "queued" => Burning(c, m)'
  BY <1>3, <1>4 DEF EachBurnKnown
<1>6. \A c \in Transfers :
        \/ burnt[c] = 0
        \/ /\ burnt[c] = 1
           /\ rows[c].status \in BurnBehind \/ \E m \in Attempts : Burning(c, m)' /\ BurnOf(c, m)' = "done"
  BY <1>3, <1>4 DEF EachBurnKnown
<1>7. CASE UNCHANGED burnt
  BY <1>1, <1>5, <1>6, <1>7 DEF EachBurnKnown
<1>8. CASE leg = "burn" /\ burnt' = [burnt EXCEPT ![b] = @ + 1] /\ circle' = [circle EXCEPT ![<<b, leg, n>>] = "done"]
  <2>1. BurnOf(b, n) = "queued" /\ Burning(b, n)
    BY <1>2, <1>8 DEF EachBurnKnown, BurnOf
  <2>2. \A m \in Attempts : Burning(b, m) => m = n
    BY <2>1 DEF Burning
  <2>3. burnt[b] = 0
    BY <2>1, <2>2 DEF EachBurnKnown, Burning, BurnBehind
  <2>4. burnt'[b] = 1 /\ \A c \in Transfers : c # b => burnt'[c] = burnt[c]
    BY <1>8, <2>3 DEF IInv, Typed
  <2>5. BurnOf(b, n)' = "done"
    <3>1. <<b, "burn", n>> \in Txs
      BY TxParts DEF Legs
    <3> QED
      BY <1>8, <3>1 DEF BurnOf, IInv, Typed
  <2>6. Burning(b, n)'
    BY <1>3, <2>1
  <2> QED
    BY <1>1, <1>5, <1>6, <2>4, <2>5, <2>6 DEF EachBurnKnown
<1> QED
  BY <1>2, <1>7, <1>8 DEF land

\* A burn that lands has taken the allowance, and no approval sets it again.
LEMMA LandAllowance ==
  ASSUME IInv, InTurn, Unshared, OneAllowance, land
  PROVE  OneAllowance'
<1>1. UNCHANGED <<scene, rows, work, dead>>
  BY DEF land
<1>2. PICK b \in Transfers, leg \in Legs, n \in Attempts :
        /\ queue # <<>> /\ queue[1] = <<b, leg, n>> /\ Head(queue) = queue[1] /\ Started(b)
        /\ circle[<<b, leg, n>>] = "queued"
        /\ Len(queue) \in Nat /\ Len(queue) >= 1
        /\ \A i \in 1 .. Len(queue') : i + 1 \in 1 .. Len(queue) /\ queue'[i] = queue[i + 1]
  BY LandKeys
<1>3. \A c \in Transfers : BurnGiven(c)' <=> BurnGiven(c)
  BY LandInTurn DEF BurnGiven
<1>4. ASSUME NEW c \in Transfers, BurnGiven(c)
      PROVE  /\ c = b /\ leg # "approve" /\ rows'[c].status \notin {"none", "pending"}
             /\ circle'[<<c, "approve", rows'[c].tx["approve"]>>] = "done"
             /\ \A i \in 1 .. Len(queue') : queue'[i][2] # "approve"
  <2>1. /\ rows[c].status \notin {"none", "pending"} /\ ApproveOf(c, rows[c].tx["approve"]) = "done"
        /\ \A i \in 1 .. Len(queue) : queue[i][2] # "approve"
    BY <1>4 DEF OneAllowance
  <2>2. c = b
    BY <1>2, <2>1 DEF InTurn, InScene, Unshared, Started
  <2>3. leg # "approve"
    BY <1>2, <2>1
  <2>4. rows[c].tx["approve"] \in Attempts
    BY DEF IInv, Typed, TransferRow, Legs
  <2>5. circle'[<<c, "approve", rows[c].tx["approve"]>>] = "done"
    BY <2>1, <2>4, LandInTurn DEF ApproveOf
  <2> QED
    BY <1>1, <1>2, <2>1, <2>2, <2>3, <2>5
<1>5. leg = "burn" => BurnGiven(b)
  BY <1>2 DEF BurnGiven, BurnOf
<1>6. \A c \in Transfers : IF BurnGiven(c) THEN allowance' + burnt'[c] <= 1 ELSE burnt'[c] = 0
  <2>1. \A c \in Transfers : burnt[c] \in Int /\ IF BurnGiven(c) THEN allowance + burnt[c] <= 1 ELSE burnt[c] = 0
    BY DEF OneAllowance, IInv, Typed
  <2>2. CASE UNCHANGED <<allowance, burnt>>
    BY <2>1, <2>2
  <2>3. CASE leg = "approve" /\ UNCHANGED burnt
    BY <1>4, <2>1, <2>3
  <2>4. CASE leg = "burn" /\ allowance = 1 /\ allowance' = 0 /\ burnt' = [burnt EXCEPT ![b] = @ + 1]
    <3>1. burnt'[b] = burnt[b] + 1 /\ \A c \in Transfers : c # b => burnt'[c] = burnt[c]
      BY <2>4 DEF IInv, Typed
    <3> QED
      BY <1>4, <1>5, <2>1, <2>4, <3>1
  <2> QED
    BY <1>2, <2>2, <2>3, <2>4 DEF land
<1> QED
  BY <1>3, <1>4, <1>6 DEF OneAllowance, ApproveOf

\* Whatever lands, no transfer has burned twice.
LEMMA LandBurns == ASSUME IInv, BurnInv, land PROVE BurnInv'
BY LandInTurn, LandKnown, LandAllowance DEF BurnInv, land, Answered, Unshared

\* Every step keeps the invariant.
LEMMA BurnNext == IInv /\ BurnInv /\ [Next]_vars => BurnInv'
<1> SUFFICES ASSUME IInv, BurnInv, [Next]_vars PROVE BurnInv'
  OBVIOUS
<1>1. CASE land
  BY <1>1, LandBurns
<1>2. CASE \E b \in Transfers : start(b)
  BY <1>2, StartBurns
<1>3. CASE \E b \in Transfers : relay(b)
  BY <1>3 DEF relay, BurnInv
<1>4. CASE \E b \in Transfers, n \in Attempts : landMint(b, n)
  BY <1>4, LandMintBurns
<1>5. CASE \E w \in Workers : step(w)
  BY <1>5, CallBurns, WriteBurns, FailBurns DEF step
<1>6. CASE \E w \in Workers, b \in Transfers : look(w, b)
  BY <1>6, LookBurns
<1>7. CASE \E w \in Workers : crash(w)
  BY <1>7, CrashBurns
<1>8. CASE UNCHANGED vars
  <2>1. UNCHANGED <<scene, rows, circle, queue, allowance, burnt, work, dead>>
    BY <1>8 DEF vars
  <2>2. InTurn => InTurn'
    <3>1. UNCHANGED <<Turns, KeysInOrder, InScene, ApprovalsInOrder>>
      BY <2>1 DEF Turns, KeysInOrder, InScene, ApprovalsInOrder, ApproveOf, BurnOf, Started
    <3>2. ASSUME NEW w \in Workers PROVE UpToDate(w) => UpToDate(w)'
      <4>1. UNCHANGED <<rows, work, dead>> /\ \A c, n : UNCHANGED <<ApproveOf(c, n), BurnOf(c, n)>>
        BY <2>1 DEF ApproveOf, BurnOf
      <4> QED
        BY <4>1 DEF UpToDate
    <3> QED
      BY <3>1, <3>2 DEF InTurn
  <2>3. EachBurnKnown => EachBurnKnown'
    <3>1. \A b \in Transfers, n \in Attempts : (Burning(b, n)' <=> Burning(b, n)) /\ BurnOf(b, n)' = BurnOf(b, n)
      BY <2>1 DEF Burning, BurnOf
    <3> QED
      BY <2>1, <3>1 DEF EachBurnKnown
  <2>4. OneAllowance => OneAllowance'
    BY <2>1 DEF OneAllowance, BurnGiven, ApproveOf, BurnOf
  <2> QED
    BY <2>1, <2>2, <2>3, <2>4 DEF BurnInv, Answered, Unshared
<1> QED
  BY <1>1, <1>2, <1>3, <1>4, <1>5, <1>6, <1>7, <1>8 DEF Next

\* Where workers take turns, the USDC of a transfer is burned at most once: if
\* every call is answered and recorded, however many transfers share the wallet
\* and its allowance; and if workers die and answers get lost, while a transfer
\* has the wallet to itself (cctp.advance).  Transfers that share the allowance
\* while a call goes unrecorded may burn twice: a second key finds the approval
\* of the other.
THEOREM OneBurn ==
  ASSUME \A s \in Scenes : s.stalls \/ (~ s.dies /\ ~ s.lossy) \/ \A b, c \in s.started : b = c
  PROVE  Spec => []BurnedOnceUnlessStalled
<1>1. IInv /\ BurnInv => BurnedOnceUnlessStalled
  <2> SUFFICES ASSUME IInv, BurnInv, ~ scene.stalls, NEW b \in Transfers PROVE burnt[b] <= 1
    BY DEF BurnedOnceUnlessStalled, BurnedOnce
  <2>1. scene \in Scenes /\ allowance \in 0 .. 1 /\ burnt[b] \in Nat
    BY DEF IInv, Typed
  <2>2. CASE Answered
    BY <2>1, <2>2 DEF BurnInv, EachBurnKnown
  <2>3. CASE Unshared
    BY <2>1, <2>3 DEF BurnInv, OneAllowance
  <2> QED
    BY <2>1, <2>2, <2>3 DEF Answered, Unshared
<1> QED
  BY <1>1, SpecInv, BurnInit, BurnNext, PTL DEF Spec
=============================================================================
