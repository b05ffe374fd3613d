------------------------ MODULE NonceManager_proofs ------------------------
(***************************************************************************)
(* What holds of the nonces of one signer for any number of threads and    *)
(* processes, whatever the nodes' lag and whoever dies: the types, that    *)
(* two live threads never share a nonce, that every transaction at a node  *)
(* is on record, and that a spent nonce is not handed out again.           *)
(***************************************************************************)
EXTENDS NonceManager, SequenceTheorems, TLAPS

Owning == {"reserved", "signed", "check", "known", "wait"}

\* A thread that sends has a row of its own, which blocks its nonce.
OwnRow(w) ==
  /\ Sending(w) <=> work[w].at \in Owning
  /\ Sending(w) => /\ rows[work[w].row].status \in {"reserved", "sent"}
                   /\ ~ rows[work[w].row].old
  /\ work[w].at \in Owning \ {"reserved"} => rows[work[w].row].hash

\* The inductive invariant: the rows of live threads are fresh and in flight,
\* so that the reservation of another thread steps over their nonces.
IInv ==
  /\ TypeOK
  /\ \A w \in Threads : OwnRow(w)
  /\ LiveNoncesDiffer
  /\ EveryTxOnRecord

-----------------------------------------------------------------------------
(* Tables of rows *)

Marked(s, i, st) == [s EXCEPT ![i].status = st]
Hashed(s, i) == [s EXCEPT ![i].hash = TRUE]
Aged(s, i) == [s EXCEPT ![i].old = TRUE]

\* A status that is set leaves the table a table and the rest of it alone.
LEMMA MarkFacts ==
  ASSUME NEW s \in Seq(Row), NEW i \in DOMAIN s,
         NEW st \in IN_FLIGHT \cup MINED \cup {"released", "dropped"}
  PROVE  /\ Marked(s, i, st) \in Seq(Row)
         /\ Len(Marked(s, i, st)) = Len(s) /\ DOMAIN Marked(s, i, st) = DOMAIN s
         /\ \A j \in DOMAIN s : /\ Marked(s, i, st)[j].nonce = s[j].nonce
                                /\ Marked(s, i, st)[j].old = s[j].old
                                /\ Marked(s, i, st)[j].hash = s[j].hash
                                /\ Marked(s, i, st)[j].status = IF j = i THEN st ELSE s[j].status
<1> DEFINE r == [s[i] EXCEPT !.status = st]
<1>1. s[i] \in Row
  OBVIOUS
<1>2. r \in Row /\ r.nonce = s[i].nonce /\ r.old = s[i].old /\ r.hash = s[i].hash /\ r.status = st
  BY <1>1 DEF Row
<1> DEFINE t == Marked(s, i, st)
<1>3. t = [s EXCEPT ![i] = r]
  BY DEF Marked
<1>4. t \in Seq(Row) /\ Len(t) = Len(s) /\ \A j \in 1 .. Len(s) : t[j] = IF j = i THEN r ELSE s[j]
  BY <1>2, <1>3, ExceptSeq
<1> HIDE DEF r, t
<1>5. DOMAIN t = DOMAIN s /\ \A j \in DOMAIN s : t[j] = IF j = i THEN r ELSE s[j]
  BY <1>4
<1>6. t \in Seq(Row) /\ Len(t) = Len(s) /\ DOMAIN t = DOMAIN s
  BY <1>4, <1>5
<1> QED
  BY <1>2, <1>5, <1>6 DEF t, r

\* So does recording the hash of a row.
LEMMA HashFacts ==
  ASSUME NEW s \in Seq(Row), NEW i \in DOMAIN s
  PROVE  /\ Hashed(s, i) \in Seq(Row) /\ Len(Hashed(s, i)) = Len(s) /\ DOMAIN Hashed(s, i) = DOMAIN s
         /\ \A j \in DOMAIN s : /\ Hashed(s, i)[j].nonce = s[j].nonce /\ Hashed(s, i)[j].old = s[j].old
                                /\ Hashed(s, i)[j].status = s[j].status
                                /\ (s[j].hash \/ j = i) => Hashed(s, i)[j].hash
<1> DEFINE r == [s[i] EXCEPT !.hash = TRUE]
<1>1. s[i] \in Row
  OBVIOUS
<1>2. r \in Row /\ r.nonce = s[i].nonce /\ r.old = s[i].old /\ r.hash = TRUE /\ r.status = s[i].status
  BY <1>1 DEF Row
<1> DEFINE t == Hashed(s, i)
<1>3. t = [s EXCEPT ![i] = r]
  BY DEF Hashed
<1>4. t \in Seq(Row) /\ Len(t) = Len(s) /\ \A j \in 1 .. Len(s) : t[j] = IF j = i THEN r ELSE s[j]
  BY <1>2, <1>3, ExceptSeq
<1> HIDE DEF r, t
<1>5. DOMAIN t = DOMAIN s /\ \A j \in DOMAIN s : t[j] = IF j = i THEN r ELSE s[j]
  BY <1>4
<1>6. t \in Seq(Row) /\ Len(t) = Len(s) /\ DOMAIN t = DOMAIN s
  BY <1>4, <1>5
<1> QED
  BY <1>2, <1>5, <1>6 DEF t, r

\* And the stale window passing for one.
LEMMA AgeFacts ==
  ASSUME NEW s \in Seq(Row), NEW i \in DOMAIN s
  PROVE  /\ Aged(s, i) \in Seq(Row) /\ Len(Aged(s, i)) = Len(s) /\ DOMAIN Aged(s, i) = DOMAIN s
         /\ \A j \in DOMAIN s : /\ Aged(s, i)[j].nonce = s[j].nonce /\ Aged(s, i)[j].hash = s[j].hash
                                /\ Aged(s, i)[j].status = s[j].status
                                /\ j # i => Aged(s, i)[j].old = s[j].old
         /\ i \in DOMAIN Aged(s, i) /\ Aged(s, i)[i].old
<1> DEFINE r == [s[i] EXCEPT !.old = TRUE]
<1>1. s[i] \in Row
  OBVIOUS
<1>2. r \in Row /\ r.nonce = s[i].nonce /\ r.hash = s[i].hash /\ r.old = TRUE /\ r.status = s[i].status
  BY <1>1 DEF Row
<1> DEFINE t == Aged(s, i)
<1>3. t = [s EXCEPT ![i] = r]
  BY DEF Aged
<1>4. t \in Seq(Row) /\ Len(t) = Len(s) /\ \A j \in 1 .. Len(s) : t[j] = IF j = i THEN r ELSE s[j]
  BY <1>2, <1>3, ExceptSeq
<1> HIDE DEF r, t
<1>5. DOMAIN t = DOMAIN s /\ \A j \in DOMAIN s : t[j] = IF j = i THEN r ELSE s[j]
  BY <1>4
<1>6. t \in Seq(Row) /\ Len(t) = Len(s) /\ DOMAIN t = DOMAIN s
  BY <1>4, <1>5
<1> QED
  BY <1>2, <1>5, <1>6 DEF t, r

\* A reserved row is added at the end.
LEMMA ReserveFacts ==
  ASSUME NEW s \in Seq(Row), NEW r \in Row, NEW t, t = Append(s, r)
  PROVE  /\ t \in Seq(Row) /\ Len(t) = Len(s) + 1 /\ Len(s) \in Nat
         /\ DOMAIN t = DOMAIN s \cup {Len(s) + 1} /\ Len(s) + 1 \notin DOMAIN s
         /\ \A j \in DOMAIN s : t[j] = s[j]
         /\ t[Len(s) + 1] = r
OBVIOUS

-----------------------------------------------------------------------------
(* Each action keeps the invariant *)

LEMMA InitInv == Init => IInv
BY MaxTxAssumption DEF Init, IInv, TypeOK, OwnRow, LiveNoncesDiffer, EveryTxOnRecord, Sending, Idle, Owning, Places

\* Steps that leave the table alone and no thread with another row.
LEMMA NodeSteps ==
  ASSUME IInv, UNCHANGED <<rows, work>>, seen' = seen,
         pool' \cup mined' \subseteq pool \cup mined, displaced' = displaced
  PROVE  IInv'
BY DEF IInv, TypeOK, OwnRow, LiveNoncesDiffer, EveryTxOnRecord, Sending

LEMMA EnterInv == ASSUME IInv, NEW w \in Threads, enter(w) PROVE IInv'
<1>1. PICK p \in 0 .. MaxTx :
        \E n \in (IF Lagging THEN seen ELSE p) .. p :
          work' = [work EXCEPT ![w] = [at |-> "locked", count |-> n, row |-> None]]
  BY DEF enter
<1>2. PICK n \in (IF Lagging THEN seen ELSE p) .. p :
        work' = [work EXCEPT ![w] = [at |-> "locked", count |-> n, row |-> None]]
  BY <1>1
<1>3. n \in Nat
  <2>1. seen \in Nat /\ p \in Nat
    BY MaxTxAssumption DEF IInv, TypeOK
  <2> QED
    BY <2>1
<1>4. \A v \in Threads : work'[v] = IF v = w THEN [at |-> "locked", count |-> n, row |-> None] ELSE work[v]
  BY <1>2 DEF IInv, TypeOK
<1>5. UNCHANGED <<rows, pool, mined, displaced, seen>>
  BY DEF enter, node
<1>6. TypeOK'
  BY <1>2, <1>3, <1>5 DEF IInv, TypeOK, Places
<1>7. (\A v \in Threads : OwnRow(v))' /\ LiveNoncesDiffer' /\ EveryTxOnRecord'
  BY <1>4, <1>5 DEF IInv, OwnRow, LiveNoncesDiffer, EveryTxOnRecord, Sending, Owning
<1> QED
  BY <1>6, <1>7 DEF IInv

\* The only step that hands out a nonce: every live thread's row blocks it.
LEMMA ReserveInv == ASSUME IInv, NEW w \in Threads, _reserve(w) PROVE IInv'
<1>1. PICK n \in Nonces :
        /\ n \notin Taken
        /\ rows' = Append(rows, [nonce |-> n, status |-> "reserved", hash |-> FALSE, old |-> FALSE])
  BY DEF _reserve
<1> DEFINE new == [nonce |-> n, status |-> "reserved", hash |-> FALSE, old |-> FALSE]
           i == Len(rows) + 1
<1>2. /\ Len(rows) < MaxTx /\ UNCHANGED <<pool, mined, displaced, seen>>
      /\ work' = [work EXCEPT ![w].at = "reserved", ![w].row = i]
  BY DEF _reserve, node
<1>3. n \in Nat /\ new \in Row
  BY MaxTxAssumption DEF Nonces, Row, IN_FLIGHT
<1>4. /\ rows' \in Seq(Row) /\ Len(rows') = Len(rows) + 1 /\ Len(rows) \in Nat
      /\ DOMAIN rows' = DOMAIN rows \cup {i} /\ i \notin DOMAIN rows
      /\ \A j \in DOMAIN rows : rows'[j] = rows[j]
      /\ rows'[i] = new
  BY <1>1, <1>3, ReserveFacts DEF IInv, TypeOK
<1>5. /\ work'[w].at = "reserved" /\ work'[w].row = i
      /\ \A v \in Threads : v # w => work'[v] = work[v]
  BY <1>2 DEF IInv, TypeOK
<1>6. TypeOK'
  <2>1. work' \in [Threads -> [at : Places, count : Nat, row : DOMAIN rows' \cup {None}]]
    <3>1. work \in [Threads -> [at : Places, count : Nat, row : DOMAIN rows \cup {None}]]
      BY DEF IInv, TypeOK
    <3>2. work \in [Threads -> [at : Places, count : Nat, row : DOMAIN rows' \cup {None}]]
      BY <1>4, <3>1
    <3>3. "reserved" \in Places /\ i \in DOMAIN rows'
      BY <1>4 DEF Places
    <3> QED
      BY <1>2, <3>2, <3>3
  <2>2. Len(rows') <= MaxTx
    BY <1>2, <1>4, MaxTxAssumption
  <2> QED
    BY <1>2, <1>4, <2>1, <2>2 DEF IInv, TypeOK
<1>7. i # None
  BY <1>4, ThreadsAssumption
<1>8. ASSUME NEW v \in Threads PROVE OwnRow(v)'
  <2>1. v # w /\ Sending(v) => work[v].row \in DOMAIN rows
    BY DEF IInv, TypeOK, Sending
  <2> QED
    BY <1>4, <1>5, <1>7, <2>1 DEF IInv, OwnRow, Sending, Owning
<1>9. ASSUME NEW v \in Threads, v # w, Sending(v)
      PROVE  work[v].row \in DOMAIN rows /\ rows[work[v].row].nonce # n
  <2>1. work[v].row \in DOMAIN rows
    BY <1>9 DEF IInv, TypeOK, Sending
  <2>2. Blocks(work[v].row)
    BY <1>9 DEF IInv, OwnRow, Blocks, IN_FLIGHT
  <2> QED
    BY <1>1, <2>1, <2>2 DEF Taken
<1>10. LiveNoncesDiffer'
  <2> SUFFICES ASSUME NEW u \in Threads, NEW v \in Threads, u # v, Sending(u)', Sending(v)'
               PROVE  rows'[work'[u].row].nonce # rows'[work'[v].row].nonce
    BY DEF LiveNoncesDiffer
  <2>1. CASE u # w /\ v # w
    BY <1>4, <1>5, <1>9, <2>1 DEF IInv, LiveNoncesDiffer, Sending
  <2>2. CASE u = w
    BY <1>4, <1>5, <1>9, <2>2 DEF Sending
  <2>3. CASE v = w
    BY <1>4, <1>5, <1>9, <2>3 DEF Sending
  <2> QED
    BY <2>1, <2>2, <2>3
<1>11. EveryTxOnRecord'
  BY <1>2, <1>4 DEF IInv, TypeOK, EveryTxOnRecord
<1> QED
  BY <1>6, <1>8, <1>10, <1>11 DEF IInv

\* A live thread's row is that thread's alone.
LEMMA RowsDiffer ==
  ASSUME IInv, NEW v \in Threads, NEW w \in Threads, v # w, Sending(w)
  PROVE  work[v].row # work[w].row
BY DEF IInv, LiveNoncesDiffer, Sending

\* A thread changes the status of its own row and waits, or is idle again.
LEMMA OwnMarkInv ==
  ASSUME IInv, NEW w \in Threads, Sending(w),
         NEW st \in IN_FLIGHT \cup MINED \cup {"released", "dropped"}, Mark(work[w].row, st),
         \/ work' = [work EXCEPT ![w] = Idle]
         \/ st = "sent" /\ work[w].at = "known" /\ Go(w, "wait"),
         UNCHANGED node
  PROVE  IInv'
<1> DEFINE i == work[w].row
<1>1. i \in DOMAIN rows
  BY DEF IInv, TypeOK, Sending
<1>2. /\ rows' \in Seq(Row) /\ Len(rows') = Len(rows) /\ DOMAIN rows' = DOMAIN rows
      /\ \A j \in DOMAIN rows : /\ rows'[j].nonce = rows[j].nonce /\ rows'[j].old = rows[j].old
                                /\ rows'[j].hash = rows[j].hash
                                /\ rows'[j].status = IF j = i THEN st ELSE rows[j].status
  <2>1. rows \in Seq(Row) /\ rows' = Marked(rows, i, st)
    BY DEF Mark, Marked, IInv, TypeOK
  <2> HIDE DEF i
  <2> QED
    BY <1>1, <2>1, MarkFacts
<1>3. \A v \in Threads : v # w => work'[v] = work[v] /\ work[v].row # i
  BY RowsDiffer DEF IInv, TypeOK, Go
<1>4. \/ work'[w] = Idle
      \/ st = "sent" /\ work[w].at = "known" /\ work'[w] = [work[w] EXCEPT !.at = "wait"]
  BY DEF IInv, TypeOK, Go
<1>5. TypeOK'
  <2>1. work' \in [Threads -> [at : Places, count : Nat, row : DOMAIN rows \cup {None}]]
    <3>1. Idle \in [at : Places, count : Nat, row : DOMAIN rows \cup {None}]
      BY DEF Idle, Places
    <3>2. work \in [Threads -> [at : Places, count : Nat, row : DOMAIN rows \cup {None}]]
      BY DEF IInv, TypeOK
    <3>3. CASE work' = [work EXCEPT ![w] = Idle]
      BY <3>1, <3>2, <3>3
    <3>4. CASE Go(w, "wait")
      BY <3>2, <3>4 DEF Go, Places
    <3> QED
      BY <3>3, <3>4
  <2> QED
    BY <1>2, <2>1 DEF IInv, TypeOK, node
<1>6. ASSUME NEW v \in Threads PROVE OwnRow(v)'
  <2>1. Sending(v) => work[v].row \in DOMAIN rows
    BY DEF IInv, TypeOK, Sending
  <2>2. CASE v # w
    BY <1>2, <1>3, <2>1, <2>2 DEF IInv, OwnRow, Sending, Owning
  <2>3. CASE v = w /\ work'[w] = Idle
    BY <2>3 DEF OwnRow, Sending, Owning, Idle
  <2>4. CASE v = w /\ st = "sent" /\ work[w].at = "known" /\ work'[w] = [work[w] EXCEPT !.at = "wait"]
    <3>1. work[w] \in [at : Places, count : Nat, row : DOMAIN rows \cup {None}]
      BY DEF IInv, TypeOK
    <3>2. work'[w].at = "wait" /\ work'[w].row = i
      BY <2>4, <3>1
    <3> QED
      BY <1>1, <1>2, <2>4, <3>2 DEF IInv, OwnRow, Sending, Owning
  <2> QED
    BY <1>4, <2>2, <2>3, <2>4
<1>7. \A v \in Threads : Sending(v)' => Sending(v) /\ work'[v].row = work[v].row /\ work[v].row \in DOMAIN rows
  BY <1>3, <1>4 DEF IInv, TypeOK, Sending, Idle
<1>8. LiveNoncesDiffer'
  BY <1>2, <1>7 DEF IInv, LiveNoncesDiffer
<1>9. EveryTxOnRecord'
  BY <1>2 DEF IInv, TypeOK, EveryTxOnRecord, node
<1> QED
  BY <1>5, <1>6, <1>8, <1>9 DEF IInv

LEMMA SignedInv == ASSUME IInv, NEW w \in Threads, signed(w) PROVE IInv'
<1> DEFINE i == work[w].row
<1>1. Sending(w) /\ i \in DOMAIN rows /\ UNCHANGED node /\ work' = [work EXCEPT ![w].at = "signed"]
  BY DEF IInv, TypeOK, OwnRow, Sending, Owning, signed, At, Go
<1>2. /\ rows' \in Seq(Row) /\ Len(rows') = Len(rows) /\ DOMAIN rows' = DOMAIN rows
      /\ \A j \in DOMAIN rows : /\ rows'[j].nonce = rows[j].nonce /\ rows'[j].old = rows[j].old
                                /\ rows'[j].status = rows[j].status
                                /\ (rows[j].hash \/ j = i) => rows'[j].hash
  <2>1. rows \in Seq(Row) /\ rows' = Hashed(rows, i)
    BY DEF Hashed, signed, IInv, TypeOK
  <2> HIDE DEF i
  <2> QED
    BY <1>1, <2>1, HashFacts
<1>3. \A v \in Threads : /\ work'[v].row = work[v].row
                         /\ work'[v].at = IF v = w THEN "signed" ELSE work[v].at
                         /\ Sending(v) => work[v].row \in DOMAIN rows
  BY <1>1 DEF IInv, TypeOK, Sending
<1>4. TypeOK'
  <2>1. rows' \in Seq(Row) /\ Len(rows') <= MaxTx
    BY <1>2 DEF IInv, TypeOK
  <2>2. work' \in [Threads -> [at : Places, count : Nat, row : DOMAIN rows' \cup {None}]]
    <3>1. work \in [Threads -> [at : Places, count : Nat, row : DOMAIN rows' \cup {None}]]
      BY <1>2 DEF IInv, TypeOK
    <3> QED
      BY <1>1, <3>1 DEF Places
  <2>3. pool' \cup mined' \cup displaced' \subseteq DOMAIN rows' /\ seen' \in Nat
    BY <1>1, <1>2 DEF IInv, TypeOK, node
  <2> QED
    BY <2>1, <2>2, <2>3 DEF TypeOK
<1>5. ASSUME NEW v \in Threads PROVE OwnRow(v)'
  BY <1>1, <1>2, <1>3 DEF IInv, OwnRow, Sending, Owning
<1>6. LiveNoncesDiffer'
  BY <1>2, <1>3 DEF IInv, LiveNoncesDiffer, Sending
<1>7. EveryTxOnRecord'
  BY <1>1, <1>2 DEF IInv, TypeOK, EveryTxOnRecord, node
<1> QED
  BY <1>4, <1>5, <1>6, <1>7 DEF IInv

\* Only a transaction whose hash is on record reaches the node.
LEMMA BroadcastInv == ASSUME IInv, NEW w \in Threads, broadcast(w) PROVE IInv'
<1> DEFINE i == work[w].row
<1>1. PICK place \in {"known", "check"} : work' = [work EXCEPT ![w].at = place]
  BY DEF broadcast, Go
<1>2. Sending(w) /\ i \in DOMAIN rows /\ rows[i].hash /\ UNCHANGED rows
  BY DEF IInv, TypeOK, OwnRow, Sending, Owning, broadcast, At
<1>3. /\ pool' \cup mined' \subseteq pool \cup mined \cup {i}
      /\ displaced' \subseteq displaced \cup pool /\ seen' = seen
  BY DEF broadcast, Takes, Rivals, node
<1>4. \A v \in Threads : /\ work'[v].row = work[v].row
                         /\ work'[v].at = IF v = w THEN place ELSE work[v].at
  BY <1>1 DEF IInv, TypeOK
<1>5. TypeOK'
  BY <1>1, <1>2, <1>3 DEF IInv, TypeOK, Places
<1>6. ASSUME NEW v \in Threads PROVE OwnRow(v)'
  BY <1>2, <1>4 DEF IInv, OwnRow, Sending, Owning, broadcast, At
<1>7. LiveNoncesDiffer'
  BY <1>2, <1>4 DEF IInv, LiveNoncesDiffer, Sending
<1>8. EveryTxOnRecord'
  BY <1>2, <1>3 DEF IInv, EveryTxOnRecord
<1> QED
  BY <1>5, <1>6, <1>7, <1>8 DEF IInv

LEMMA KnownInv ==
  ASSUME IInv, NEW w \in Threads, At(w, "check"), Go(w, "known"), UNCHANGED <<rows, node>>
  PROVE  IInv'
<1>1. \A v \in Threads : /\ work'[v].row = work[v].row
                         /\ work'[v].at = IF v = w THEN "known" ELSE work[v].at
  BY DEF IInv, TypeOK, Go
<1>2. TypeOK'
  BY DEF IInv, TypeOK, Places, Go, node
<1>3. ASSUME NEW v \in Threads PROVE OwnRow(v)'
  BY <1>1 DEF IInv, OwnRow, Sending, Owning, At
<1>4. LiveNoncesDiffer' /\ EveryTxOnRecord'
  BY <1>1 DEF IInv, LiveNoncesDiffer, EveryTxOnRecord, Sending, node
<1> QED
  BY <1>2, <1>3, <1>4 DEF IInv

LEMMA CrashInv == ASSUME IInv, NEW w \in Threads, crash(w) PROVE IInv'
<1> DEFINE none == [Idle EXCEPT !.at = "dead"]
<1>1. work' = [work EXCEPT ![w] = none] /\ UNCHANGED <<rows, pool, mined, displaced, seen>>
  BY DEF crash, node
<1>2. \A v \in Threads : work'[v] = IF v = w THEN none ELSE work[v]
  BY <1>1 DEF IInv, TypeOK
<1>3. TypeOK'
  BY <1>1 DEF IInv, TypeOK, Places, Idle
<1>4. (\A v \in Threads : OwnRow(v))' /\ LiveNoncesDiffer' /\ EveryTxOnRecord'
  BY <1>1, <1>2 DEF IInv, OwnRow, LiveNoncesDiffer, EveryTxOnRecord, Sending, Owning, Idle
<1> QED
  BY <1>3, <1>4 DEF IInv

\* The reconciler touches no row of a live thread: those are not pending.
LEMMA ReconcileInv == ASSUME IInv, NEW i \in DOMAIN rows, reconcile(i) PROVE IInv'
<1>1. PICK st \in MINED \cup {"dropped"} : Mark(i, st)
  BY DEF reconcile
<1>2. rows[i].status = "pending_confirmation" /\ UNCHANGED <<work, pool, mined, displaced, seen>>
  BY DEF reconcile, node
<1>3. /\ rows' \in Seq(Row) /\ Len(rows') = Len(rows) /\ DOMAIN rows' = DOMAIN rows
      /\ \A j \in DOMAIN rows : /\ rows'[j].nonce = rows[j].nonce /\ rows'[j].old = rows[j].old
                                /\ rows'[j].hash = rows[j].hash
                                /\ rows'[j].status = IF j = i THEN st ELSE rows[j].status
  <2>1. rows \in Seq(Row) /\ rows' = Marked(rows, i, st)
    BY <1>1 DEF Mark, Marked, IInv, TypeOK
  <2> QED
    BY <2>1, MarkFacts
<1>4. \A v \in Threads : Sending(v) => work[v].row \in DOMAIN rows /\ work[v].row # i
  BY <1>2 DEF IInv, TypeOK, OwnRow, Sending
<1>5. TypeOK'
  BY <1>2, <1>3 DEF IInv, TypeOK
<1>6. ASSUME NEW v \in Threads PROVE OwnRow(v)'
  BY <1>2, <1>3, <1>4 DEF IInv, OwnRow, Sending, Owning
<1>7. LiveNoncesDiffer' /\ EveryTxOnRecord'
  BY <1>2, <1>3, <1>4 DEF IInv, TypeOK, LiveNoncesDiffer, EveryTxOnRecord, Sending
<1> QED
  BY <1>5, <1>6, <1>7 DEF IInv

\* A row grows stale only when no live thread holds it.
LEMMA AgeInv == ASSUME IInv, age PROVE IInv'
<1>1. PICK i \in DOMAIN rows :
        (\A w \in Threads : work[w].row # i) /\ rows' = [rows EXCEPT ![i].old = TRUE]
  BY DEF age
<1>2. UNCHANGED <<work, pool, mined, displaced>> /\ seen' \in 0 .. MaxTx
  BY DEF age
<1>3. /\ rows' \in Seq(Row) /\ Len(rows') = Len(rows) /\ DOMAIN rows' = DOMAIN rows
      /\ \A j \in DOMAIN rows : /\ rows'[j].nonce = rows[j].nonce /\ rows'[j].hash = rows[j].hash
                                /\ rows'[j].status = rows[j].status
                                /\ j # i => rows'[j].old = rows[j].old
  <2>1. rows \in Seq(Row) /\ rows' = Aged(rows, i)
    BY <1>1 DEF Aged, IInv, TypeOK
  <2> QED
    BY <2>1, AgeFacts
<1>4. \A v \in Threads : Sending(v) => work[v].row \in DOMAIN rows /\ work[v].row # i
  BY <1>1 DEF IInv, TypeOK, Sending
<1>5. TypeOK'
  BY <1>2, <1>3 DEF IInv, TypeOK
<1>6. ASSUME NEW v \in Threads PROVE OwnRow(v)'
  BY <1>2, <1>3, <1>4 DEF IInv, OwnRow, Sending, Owning
<1>7. LiveNoncesDiffer' /\ EveryTxOnRecord'
  BY <1>2, <1>3, <1>4 DEF IInv, TypeOK, LiveNoncesDiffer, EveryTxOnRecord, Sending
<1> QED
  BY <1>5, <1>6, <1>7 DEF IInv

LEMMA MineInv == ASSUME IInv, mine PROVE IInv'
<1>1. /\ UNCHANGED <<rows, work>> /\ seen' = seen /\ displaced' = displaced
      /\ pool' \cup mined' \subseteq pool \cup mined
  BY DEF mine
<1> QED
  BY <1>1, NodeSteps

\* Where a thread owns a row, by the place it is at.
LEMMA Owns == ASSUME IInv, NEW w \in Threads, work[w].at \in Owning PROVE Sending(w)
BY DEF IInv, OwnRow

LEMMA NextInv == IInv /\ [Next]_vars => IInv'
<1> SUFFICES ASSUME IInv, [Next]_vars PROVE IInv'
  OBVIOUS
<1>1. ASSUME NEW w \in Threads, Send(w) PROVE IInv'
  <2>1. CASE enter(w)
    BY <2>1, EnterInv
  <2>2. CASE _reserve(w)
    BY <2>2, ReserveInv
  <2>3. CASE signed(w)
    BY <2>3, SignedInv
  <2>4. CASE broadcast(w)
    BY <2>4, BroadcastInv
  <2>5. CASE tx_known(w)
    <3>1. Sending(w)
      BY <2>5, Owns DEF tx_known, At, Owning
    <3> QED
      BY <2>5, <3>1, KnownInv, OwnMarkInv DEF tx_known, node
  <2>6. CASE sent(w)
    <3>1. Sending(w)
      BY <2>6, Owns DEF sent, At, Owning
    <3> QED
      BY <2>6, <3>1, OwnMarkInv DEF sent, At, IN_FLIGHT
  <2>7. CASE bodyFails(w)
    <3>1. Sending(w)
      BY <2>7, Owns DEF bodyFails, At, Owning
    <3> QED
      BY <2>7, <3>1, OwnMarkInv DEF bodyFails
  <2>8. CASE receipt(w)
    <3>1. Sending(w)
      BY <2>8, Owns DEF receipt, At, Owning
    <3> QED
      BY <2>8, <3>1, OwnMarkInv DEF receipt, IN_FLIGHT
  <2> QED
    BY <1>1, <2>1, <2>2, <2>3, <2>4, <2>5, <2>6, <2>7, <2>8 DEF Send
<1>2. ASSUME NEW w \in Threads, crash(w) PROVE IInv'
  BY <1>2, CrashInv
<1>3. ASSUME NEW i \in DOMAIN rows, reconcile(i) PROVE IInv'
  BY <1>3, ReconcileInv
<1>4. CASE mine
  BY <1>4, MineInv
<1>5. CASE age
  BY <1>5, AgeInv
<1>6. CASE UNCHANGED vars
  BY <1>6, NodeSteps DEF vars
<1> QED
  BY <1>1, <1>2, <1>3, <1>4, <1>5, <1>6 DEF Next

LEMMA SpecInv == Spec => []IInv
BY InitInv, NextInv, PTL DEF Spec

-----------------------------------------------------------------------------
(* The theorems *)

\* The table, the threads and the chain stay within their types.
THEOREM TypeCorrect == Spec => []TypeOK
<1>1. IInv => TypeOK
  BY DEF IInv
<1> QED
  BY <1>1, SpecInv, PTL

\* Two live threads never sign with one nonce: any number of threads and
\* processes, any lag of the nodes, any deaths.
THEOREM NoncesDiffer == Spec => []LiveNoncesDiffer
<1>1. IInv => LiveNoncesDiffer
  BY DEF IInv
<1> QED
  BY <1>1, SpecInv, PTL

\* The hash of every transaction at a node was on record before it got there.
THEOREM TxOnRecord == Spec => []EveryTxOnRecord
<1>1. IInv => EveryTxOnRecord
  BY DEF IInv
<1> QED
  BY <1>1, SpecInv, PTL

\* The nonce of a mined transaction is never handed out again: its row
\* blocks whatever its age.
THEOREM SpentNotReused == Spec => SpentNonceNotReused
<1> DEFINE Fresh == \A i \in DOMAIN rows' \ DOMAIN rows :
                      \A j \in DOMAIN rows : rows[j].status \in MINED => rows'[i].nonce # rows[j].nonce
<1>1. IInv /\ [Next]_vars => [Fresh]_vars
  <2> SUFFICES ASSUME IInv, Next PROVE Fresh
    BY DEF vars
  <2>1. ASSUME NEW w \in Threads, _reserve(w) PROVE Fresh
    <3>1. PICK n \in Nonces :
            /\ n \notin Taken
            /\ rows' = Append(rows, [nonce |-> n, status |-> "reserved", hash |-> FALSE, old |-> FALSE])
      BY <2>1 DEF _reserve
    <3>2. \A i \in DOMAIN rows' \ DOMAIN rows : rows'[i].nonce = n
      BY <3>1 DEF IInv, TypeOK
    <3>3. \A j \in DOMAIN rows : rows[j].status \in MINED => rows[j].nonce # n
      BY <3>1 DEF Taken, Blocks
    <3> QED
      BY <3>2, <3>3
  <2>2. CASE \A w \in Threads : ~ _reserve(w)
    <3>1. DOMAIN rows' = DOMAIN rows
      BY <2>2 DEF Next, Send, enter, signed, broadcast, tx_known, sent, bodyFails, receipt, crash,
                  reconcile, mine, age, Mark, vars
    <3> QED
      BY <3>1
  <2> QED
    BY <2>1, <2>2
<1> QED
  BY <1>1, SpecInv, PTL DEF Spec, SpentNonceNotReused

-----------------------------------------------------------------------------
(* Nothing is displaced before the stale window                             *)

\* No two rows that hold a nonce hold the same one.
BlockingDiffer ==
  \A i, j \in DOMAIN rows : i # j /\ Blocks(i) /\ Blocks(j) => rows[i].nonce # rows[j].nonce

\* A transaction the node holds has a row that holds its nonce; before the
\* broadcast the node holds nothing of a thread's.
NodeOnTable ==
  /\ pool \cap mined = {}
  /\ \A i \in pool : rows[i].status \in IN_FLIGHT
  /\ \A w \in Threads : work[w].at \in {"reserved", "signed"} => work[w].row \notin pool \cup mined

Fresh == \A i \in DOMAIN rows : ~ rows[i].old

\* The strengthening: of what is true until a row outlives the stale window.
FreshInv == Fresh => BlockingDiffer /\ NodeOnTable /\ displaced = {}

LEMMA FreshInit == Init => FreshInv
BY DEF Init, FreshInv, Fresh, BlockingDiffer, NodeOnTable, Idle

\* A step that leaves the table and the node alone and sends no thread to
\* where it had no transaction yet.
LEMMA FreshQuiet ==
  ASSUME IInv, FreshInv, UNCHANGED <<rows, pool, mined, displaced>>,
         \A w \in Threads : work'[w].at \in {"reserved", "signed"} => work'[w] = work[w]
  PROVE  FreshInv'
<1>1. \A i : Blocks(i)' <=> Blocks(i)
  BY DEF Blocks
<1>2. Fresh' <=> Fresh
  BY DEF Fresh
<1>3. Fresh => BlockingDiffer'
  BY <1>1 DEF FreshInv, BlockingDiffer
<1>4. Fresh => NodeOnTable'
  BY DEF FreshInv, NodeOnTable
<1> QED
  BY <1>2, <1>3, <1>4 DEF FreshInv

\* A step that changes the status of a row that held its nonce; if the row
\* gives the nonce up, the node does not hold the transaction.
LEMMA FreshMark ==
  ASSUME IInv, FreshInv, NEW i \in DOMAIN rows,
         NEW st \in IN_FLIGHT \cup MINED \cup {"released", "dropped"}, Mark(i, st),
         Fresh => rows[i].status \in IN_FLIGHT /\ (st \in IN_FLIGHT \/ i \notin pool),
         UNCHANGED node,
         \A w \in Threads : work'[w].at \in {"reserved", "signed"} => work'[w] = work[w]
  PROVE  FreshInv'
<1>1. /\ DOMAIN rows' = DOMAIN rows
      /\ \A j \in DOMAIN rows : /\ rows'[j].nonce = rows[j].nonce /\ rows'[j].old = rows[j].old
                                /\ rows'[j].status = IF j = i THEN st ELSE rows[j].status
  <2>1. rows \in Seq(Row) /\ rows' = Marked(rows, i, st)
    BY DEF Mark, Marked, IInv, TypeOK
  <2> QED
    BY <2>1, MarkFacts
<1>2. SUFFICES ASSUME Fresh' PROVE (BlockingDiffer /\ NodeOnTable /\ displaced = {})'
  BY DEF FreshInv
<1>3. Fresh
  BY <1>1, <1>2 DEF Fresh
<1>4. \A j \in DOMAIN rows : Blocks(j)' => Blocks(j)
  BY <1>1, <1>3 DEF Blocks, Fresh
<1>5. BlockingDiffer'
  BY <1>1, <1>3, <1>4 DEF FreshInv, BlockingDiffer
<1>6. NodeOnTable'
  BY <1>1, <1>3 DEF FreshInv, NodeOnTable, node, IInv, TypeOK
<1>7. displaced' = {}
  BY <1>3 DEF FreshInv, node
<1> QED
  BY <1>5, <1>6, <1>7

\* A live thread gives its own row another status.
LEMMA FreshOwnMark ==
  ASSUME IInv, FreshInv, NEW w \in Threads, Sending(w),
         NEW st \in IN_FLIGHT \cup MINED \cup {"released", "dropped"}, Mark(work[w].row, st),
         st \notin IN_FLIGHT => work[w].row \notin pool \/ ~ Fresh,
         work' = [work EXCEPT ![w] = Idle] \/ Go(w, "wait"),
         UNCHANGED node
  PROVE  FreshInv'
<1>1. work[w].row \in DOMAIN rows /\ rows[work[w].row].status \in IN_FLIGHT
  BY DEF IInv, TypeOK, OwnRow, Sending, IN_FLIGHT
<1>2. \A v \in Threads : work'[v].at \in {"reserved", "signed"} => work'[v] = work[v]
  BY DEF IInv, TypeOK, Go, Idle
<1> QED
  BY <1>1, <1>2, FreshMark

LEMMA FreshReserve == ASSUME IInv, FreshInv, NEW w \in Threads, _reserve(w) PROVE FreshInv'
<1>1. PICK n \in Nonces :
        /\ n \notin Taken
        /\ rows' = Append(rows, [nonce |-> n, status |-> "reserved", hash |-> FALSE, old |-> FALSE])
  BY DEF _reserve
<1> DEFINE new == [nonce |-> n, status |-> "reserved", hash |-> FALSE, old |-> FALSE]
           i == Len(rows) + 1
<1>2. /\ UNCHANGED <<pool, mined, displaced>>
      /\ work' = [work EXCEPT ![w].at = "reserved", ![w].row = i]
  BY DEF _reserve, node
<1>3. new \in Row
  BY MaxTxAssumption DEF Nonces, Row, IN_FLIGHT
<1>4. /\ DOMAIN rows' = DOMAIN rows \cup {i} /\ i \notin DOMAIN rows
      /\ \A j \in DOMAIN rows : rows'[j] = rows[j]
      /\ rows'[i] = new
  BY <1>1, <1>3, ReserveFacts DEF IInv, TypeOK
<1>5. SUFFICES ASSUME Fresh' PROVE (BlockingDiffer /\ NodeOnTable /\ displaced = {})'
  BY DEF FreshInv
<1>6. Fresh
  BY <1>4, <1>5 DEF Fresh
<1>7. \A j \in DOMAIN rows : Blocks(j)' => Blocks(j) /\ rows[j].nonce # n
  BY <1>1, <1>4 DEF Blocks, Taken
<1>8. BlockingDiffer'
  BY <1>4, <1>6, <1>7 DEF FreshInv, BlockingDiffer
<1>9. NodeOnTable'
  <2>1. pool \cup mined \subseteq DOMAIN rows
    BY DEF IInv, TypeOK
  <2>2. work'[w].row = i /\ \A v \in Threads : v # w => work'[v] = work[v]
    BY <1>2 DEF IInv, TypeOK
  <2> QED
    BY <1>2, <1>4, <1>6, <2>1, <2>2 DEF FreshInv, NodeOnTable
<1> QED
  BY <1>2, <1>6, <1>8, <1>9 DEF FreshInv

\* What the node takes has no rival: both rows hold their nonces.
LEMMA FreshBroadcast == ASSUME IInv, FreshInv, NEW w \in Threads, broadcast(w) PROVE FreshInv'
<1> DEFINE i == work[w].row
<1>1. Sending(w) /\ work[w].at = "signed" /\ i \in DOMAIN rows /\ UNCHANGED rows
  BY DEF IInv, TypeOK, OwnRow, Sending, Owning, broadcast, At
<1>2. \A v \in Threads : work'[v].at \in {"reserved", "signed"} => v # w /\ work'[v] = work[v]
  BY DEF broadcast, Go, IInv, TypeOK
<1>3. CASE UNCHANGED node
  BY <1>1, <1>2, <1>3, FreshQuiet DEF node
<1>4. CASE Takes(i)
  <2>1. SUFFICES ASSUME Fresh' PROVE (BlockingDiffer /\ NodeOnTable /\ displaced = {})'
    BY DEF FreshInv
  <2>2. Fresh /\ BlockingDiffer /\ NodeOnTable /\ displaced = {}
    BY <1>1, <2>1 DEF Fresh, FreshInv
  <2>3. i \notin pool \cup mined /\ rows[i].status \in IN_FLIGHT /\ Blocks(i)
    BY <1>1, <2>2 DEF NodeOnTable, IInv, OwnRow, Blocks, Fresh, IN_FLIGHT
  <2>4. Rivals(i) = {}
    <3>1. ASSUME NEW j \in pool PROVE rows[j].nonce # rows[i].nonce
      <4>1. j \in DOMAIN rows /\ Blocks(j)
        BY <2>2 DEF NodeOnTable, Blocks, Fresh, IInv, TypeOK
      <4> QED
        BY <1>1, <2>2, <2>3, <4>1 DEF BlockingDiffer
    <3> QED
      BY <3>1 DEF Rivals
  <2>5. pool' = pool \cup {i} /\ mined' = mined /\ displaced' = {}
    BY <1>4, <2>2, <2>4 DEF Takes
  <2>6. BlockingDiffer'
    BY <1>1, <2>2 DEF BlockingDiffer, Blocks
  <2>7. ASSUME NEW v \in Threads, work'[v].at \in {"reserved", "signed"}
        PROVE  work'[v].row \notin pool' \cup mined'
    <3>1. v # w /\ work'[v] = work[v] /\ work[v].row # i
      BY <1>1, <1>2, <2>7, RowsDiffer
    <3> QED
      BY <2>2, <2>5, <2>7, <3>1 DEF NodeOnTable
  <2>8. NodeOnTable'
    BY <1>1, <2>2, <2>3, <2>5, <2>7 DEF NodeOnTable
  <2> QED
    BY <2>5, <2>6, <2>8
<1> QED
  BY <1>3, <1>4 DEF broadcast

LEMMA FreshMine == ASSUME IInv, FreshInv, mine PROVE FreshInv'
<1>1. PICK i \in pool : mined' = mined \cup {i} /\ pool' = pool \ {i}
  BY DEF mine
<1>2. UNCHANGED <<rows, work, displaced>>
  BY DEF mine
<1>3. Fresh' <=> Fresh
  BY <1>2 DEF Fresh
<1>4. Fresh => BlockingDiffer'
  BY <1>2 DEF FreshInv, BlockingDiffer, Blocks
<1>5. Fresh => NodeOnTable'
  BY <1>1, <1>2 DEF FreshInv, NodeOnTable
<1> QED
  BY <1>2, <1>3, <1>4, <1>5 DEF FreshInv

\* Only a thread whose transaction the node does not have gives its nonce up.
LEMMA FreshSend ==
  ASSUME ~ Forgetful, IInv, FreshInv, NEW w \in Threads, Send(w) PROVE FreshInv'
<1>1. CASE enter(w)
  <2>1. PICK p, n : work' = [work EXCEPT ![w] = [at |-> "locked", count |-> n, row |-> None]]
    BY <1>1 DEF enter
  <2>2. \A v \in Threads : work'[v].at \in {"reserved", "signed"} => work'[v] = work[v]
    BY <2>1 DEF IInv, TypeOK
  <2> QED
    BY <1>1, <2>2, FreshQuiet DEF enter, node
<1>2. CASE _reserve(w)
  BY <1>2, FreshReserve
<1>3. CASE signed(w)
  <2> DEFINE i == work[w].row
  <2>1. /\ Sending(w) /\ work[w].at = "reserved" /\ i \in DOMAIN rows
        /\ UNCHANGED <<pool, mined, displaced>>
    BY <1>3 DEF IInv, TypeOK, OwnRow, Sending, Owning, signed, At, node
  <2>2. /\ DOMAIN rows' = DOMAIN rows
        /\ \A j \in DOMAIN rows : /\ rows'[j].nonce = rows[j].nonce /\ rows'[j].old = rows[j].old
                                  /\ rows'[j].status = rows[j].status
    <3>1. rows \in Seq(Row) /\ rows' = Hashed(rows, i)
      BY <1>3 DEF Hashed, signed, IInv, TypeOK
    <3> HIDE DEF i
    <3> QED
      BY <2>1, <3>1, HashFacts
  <2>3. \A v \in Threads : /\ work'[v].row = work[v].row
                           /\ v # w => work'[v].at = work[v].at
    BY <1>3 DEF signed, Go, IInv, TypeOK
  <2>4. Fresh' => Fresh
    BY <2>2 DEF Fresh
  <2>5. Fresh => BlockingDiffer'
    BY <2>2 DEF FreshInv, BlockingDiffer, Blocks
  <2>6. Fresh => NodeOnTable'
    BY <2>1, <2>2, <2>3 DEF FreshInv, NodeOnTable, IInv, TypeOK
  <2> QED
    BY <2>1, <2>4, <2>5, <2>6 DEF FreshInv
<1>4. CASE broadcast(w)
  BY <1>4, FreshBroadcast
<1>5. CASE tx_known(w)
  <2>1. Sending(w)
    BY <1>5, Owns DEF tx_known, At, Owning
  <2>2. CASE Go(w, "known") /\ UNCHANGED rows
    <3>1. \A v \in Threads : work'[v].at \in {"reserved", "signed"} => work'[v] = work[v]
      BY <2>2 DEF Go, IInv, TypeOK
    <3> QED
      BY <1>5, <2>2, <3>1, FreshQuiet DEF tx_known, node
  <2>3. CASE /\ ~ Holds(work[w].row)
             /\ Mark(work[w].row, "released") /\ work' = [work EXCEPT ![w] = Idle]
    BY <1>5, <2>1, <2>3, FreshOwnMark DEF tx_known, Holds
  <2> QED
    BY <1>5, <2>2, <2>3 DEF tx_known
<1>6. CASE sent(w)
  <2>1. Sending(w)
    BY <1>6, Owns DEF sent, At, Owning
  <2> QED
    BY <1>6, <2>1, FreshOwnMark DEF sent, IN_FLIGHT
<1>7. CASE bodyFails(w)
  <2>1. Sending(w)
    BY <1>7, Owns DEF bodyFails, At, Owning
  <2>2. Fresh => work[w].row \notin pool
    BY <1>7 DEF bodyFails, At, FreshInv, NodeOnTable
  <2> QED
    BY <1>7, <2>1, <2>2, FreshOwnMark DEF bodyFails
<1>8. CASE receipt(w)
  <2>1. Sending(w)
    BY <1>8, Owns DEF receipt, At, Owning
  <2>2. PICK st \in MINED \cup {"pending_confirmation"} :
          Mark(work[w].row, st) /\ (st \in MINED => work[w].row \in mined)
    BY <1>8 DEF receipt, MINED
  <2>3. st \notin IN_FLIGHT => work[w].row \notin pool \/ ~ Fresh
    BY <2>2 DEF FreshInv, NodeOnTable, IN_FLIGHT
  <2>4. st \in IN_FLIGHT \cup MINED \cup {"released", "dropped"}
    BY DEF IN_FLIGHT
  <2> QED
    BY <1>8, <2>1, <2>2, <2>3, <2>4, FreshOwnMark DEF receipt
<1> QED
  BY <1>1, <1>2, <1>3, <1>4, <1>5, <1>6, <1>7, <1>8 DEF Send

LEMMA FreshNext == ~ Forgetful /\ IInv /\ FreshInv /\ [Next]_vars => FreshInv'
<1> SUFFICES ASSUME ~ Forgetful, IInv, FreshInv, [Next]_vars PROVE FreshInv'
  OBVIOUS
<1>1. ASSUME NEW w \in Threads, Send(w) PROVE FreshInv'
  BY <1>1, FreshSend
<1>2. ASSUME NEW w \in Threads, crash(w) PROVE FreshInv'
  <2>1. \A v \in Threads : work'[v].at \in {"reserved", "signed"} => work'[v] = work[v]
    BY <1>2 DEF crash, Idle, IInv, TypeOK
  <2> QED
    BY <1>2, <2>1, FreshQuiet DEF crash, node
<1>3. ASSUME NEW i \in DOMAIN rows, reconcile(i) PROVE FreshInv'
  <2>1. PICK st \in MINED \cup {"dropped"} :
          Mark(i, st) /\ (st \in MINED => i \in mined) /\ (st = "dropped" => rows[i].old)
    BY <1>3 DEF reconcile, MINED
  <2>2. Fresh => rows[i].status \in IN_FLIGHT /\ (st \in IN_FLIGHT \/ i \notin pool)
    BY <1>3, <2>1 DEF reconcile, FreshInv, NodeOnTable, Fresh, IN_FLIGHT
  <2> QED
    BY <1>3, <2>1, <2>2, FreshMark DEF reconcile
<1>4. CASE mine
  BY <1>4, FreshMine
<1>5. CASE age
  <2>1. PICK i \in DOMAIN rows : rows' = [rows EXCEPT ![i].old = TRUE]
    BY <1>5 DEF age
  <2>2. i \in DOMAIN rows' /\ rows'[i].old
    <3>1. rows \in Seq(Row) /\ rows' = Aged(rows, i)
      BY <2>1 DEF Aged, IInv, TypeOK
    <3> QED
      BY <3>1, AgeFacts
  <2> QED
    BY <2>2 DEF FreshInv, Fresh
<1>6. CASE UNCHANGED vars
  BY <1>6, FreshQuiet DEF vars
<1> QED
  BY <1>1, <1>2, <1>3, <1>4, <1>5, <1>6 DEF Next

\* While no row has outlived the stale window, nothing the node took is
\* pushed out, if a node that has a transaction says so when asked.
THEOREM NoneDisplaced == ASSUME ~ Forgetful PROVE Spec => []NothingDisplaced
<1>1. Init => FreshInv
  BY FreshInit
<1>2. IInv /\ FreshInv /\ [Next]_vars => FreshInv'
  BY FreshNext
<1>3. FreshInv => NothingDisplaced
  BY DEF FreshInv, Fresh, NothingDisplaced
<1> QED
  BY <1>1, <1>2, <1>3, SpecInv, PTL DEF Spec
=============================================================================
