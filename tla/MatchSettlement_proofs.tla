----------------------- MODULE MatchSettlement_proofs -----------------------
(***************************************************************************)
(* For any number of processes, any results and any amounts, and however   *)
(* leases lapse: no USDC is made or lost, the fan is paid or refunded      *)
(* once, the escrow and the book keep their outcome, and a step moves      *)
(* ledger money only under the lease.  When a lease lapses only after a    *)
(* death (MayStall = {}): one process drives the table, its status only    *)
(* goes forward, ledger and chain end alike, a refunded table is never     *)
(* locked and a finished one stays settled.                                *)
(***************************************************************************)
EXTENDS MatchSettlement, Sums, SequenceTheorems

-----------------------------------------------------------------------------
(* The invariant, however leases lapse                                      *)

Programs == {WinSteps, DrawSteps, AbortSteps}

Todos == Suffixes(WinSteps) \cup Suffixes(DrawSteps) \cup Suffixes(AbortSteps)

Jobs == [at : Places, seen : Statuses \cup {None}, res : Results \cup {None}, todo : Todos, ran : BOOLEAN]

\* The job q has the steps of p from the i-th on before it.  A settlement
\* runs the program of its result; a step that uses what an earlier one left
\* comes after the row of that one.
Left(q, p, i) ==
  /\ q.todo = SubSeq(p, i, Len(p))
  /\ p # AbortSteps =>
       /\ q.res \in Results /\ p = SettleSteps(q.res)
       /\ i > 1 => "onchain_resolve" \in journal
       /\ i > 2 => "escrow" \in journal
       /\ p[i] = "play_adjust" => "spectator_settle" \in journal
  /\ p = AbortSteps =>
       /\ i > 1 => "abort:onchain" \in journal
       /\ i > 2 => "abort:escrow" \in journal
       /\ i > 3 => "abort:spectator" \in journal
  /\ q.ran => p[i] \in External

JobOK(q) ==
  /\ q.at = "claim" => q.res \in Results
  /\ q.at = "steps" => \E p \in Programs : \E i \in 1 .. Len(p) : Left(q, p, i)

WorkOK ==
  /\ work \in [Procs -> Jobs]
  /\ \A w \in Procs : JobOK(work[w])

\* The record: a settlement under way has its result, and its attempts count.
RecordOK ==
  /\ status \in Statuses /\ pending \in Results \cup {None} /\ result \in Results \cup {None}
  /\ tries \in 0 .. MaxTries + 1 /\ aborts \in 0 .. MaxTries + 1 /\ pendingTx \in BOOLEAN
  /\ status = "settling" => pending \in Results /\ tries <= MaxTries
  /\ status = "aborting" => aborts <= MaxTries

LeaseOK == leaseOwner \in Procs \cup {None} /\ fresh \in BOOLEAN

ElseOK ==
  /\ skipped \in BOOLEAN
  /\ stats \in 0 .. 2 /\ feesCredited \in 0 .. 2
  /\ chain \in {"absent", "OPEN", "LOCKED"} \cup ONCHAIN_FINAL
  /\ mempool \subseteq {"create", "join", "cancel"} \cup Winners

\* What the rows of the money steps say of the escrow and the book.
RowsOK ==
  /\ journal \subseteq Range(WinSteps) \cup Range(AbortSteps) \cup {"lock:seeds"}
  /\ escrow \in {"open", "locked"} \cup Outcomes
  /\ book \in {"open", "void"} \cup Results
  /\ "lock:seeds" \in journal <=> escrow # "open"
  /\ "escrow" \in journal => escrow \in Outcomes
  /\ "spectator_settle" \in journal <=> book \in Results
  /\ "abort:spectator" \in journal <=> book = "void"

\* The book still holds what the fan may yet get, and pays by one key only.
PotOK ==
  /\ pot \in Nat /\ fan \subseteq {"payout", "refund"}
  /\ book = "open" => fan = {} /\ pot = Bet + (IF escrow = "open" THEN 0 ELSE 2 * Seed)
  /\ book \in Results => "refund" \notin fan /\ ("payout" \notin fan => pot >= FanShare[book])
  /\ book = "void" => "payout" \notin fan /\ ("refund" \notin fan => pot >= Bet)

MoneyOK == RowsOK /\ PotOK /\ bal \in [Wallets -> Nat] /\ MoneyConserved

\* The inductive invariant.
IInv == WorkOK /\ RecordOK /\ LeaseOK /\ ElseOK /\ MoneyOK

-----------------------------------------------------------------------------
(* The programs                                                             *)

SettleNames == {"onchain_resolve", "escrow", "stats", "creator_fee", "creator_fee_registry",
                "lp_profit", "spectator_settle", "play_adjust", "finalize"}

AbortNames == {"abort:onchain", "abort:escrow", "abort:spectator", "abort:play_adjust", "abort:finalize"}

StepNames == SettleNames \cup AbortNames

\* The programs are sequences of step names, of the lengths written out above
\* them.
LEMMA Programmed ==
  /\ Len(WinSteps) = 9 /\ Len(DrawSteps) = 6 /\ Len(AbortSteps) = 5
  /\ \A p \in Programs : p \in Seq(StepNames) /\ Len(p) \in Nat /\ Len(p) > 0
  /\ WinSteps # AbortSteps /\ DrawSteps # AbortSteps /\ WinSteps # DrawSteps
<1>1. Len(WinSteps) = 9 /\ Len(DrawSteps) = 6 /\ Len(AbortSteps) = 5
  BY DEF WinSteps, DrawSteps, AbortSteps
<1>2. WinSteps \in Seq(StepNames) /\ DrawSteps \in Seq(StepNames) /\ AbortSteps \in Seq(StepNames)
  BY DEF WinSteps, DrawSteps, AbortSteps, StepNames, SettleNames, AbortNames
<1>3. WinSteps # AbortSteps /\ DrawSteps # AbortSteps /\ WinSteps # DrawSteps
  BY <1>1
<1>4. \A p \in Programs : p \in Seq(StepNames)
  BY <1>2, Zenon DEF Programs
<1>5. \A p \in Programs : Len(p) \in Nat /\ Len(p) > 0
  BY <1>1 DEF Programs
<1> QED
  BY <1>1, <1>3, <1>4, <1>5

\* The names of the steps are what the programs hold.
LEMMA AbortRange == Range(AbortSteps) = AbortNames /\ Range(WinSteps) = SettleNames
<1>1. DOMAIN AbortSteps = 1 .. 5 /\ DOMAIN WinSteps = 1 .. 9
  BY DEF AbortSteps, WinSteps
<1>2. Range(AbortSteps) = AbortNames
  <2>1. Range(AbortSteps) \subseteq AbortNames
    BY <1>1 DEF Range, AbortSteps, AbortNames
  <2>2. ASSUME NEW s \in AbortNames PROVE \E i \in 1 .. 5 : AbortSteps[i] = s
    <3>1. /\ AbortSteps[1] = "abort:onchain" /\ AbortSteps[2] = "abort:escrow"
          /\ AbortSteps[3] = "abort:spectator" /\ AbortSteps[4] = "abort:play_adjust"
          /\ AbortSteps[5] = "abort:finalize"
      BY DEF AbortSteps
    <3> QED
      BY <3>1 DEF AbortNames
  <2> QED
    BY <1>1, <2>1, <2>2 DEF Range
<1>3. Range(WinSteps) = SettleNames
  <2>1. Range(WinSteps) \subseteq SettleNames
    BY <1>1 DEF Range, WinSteps, SettleNames
  <2>2. ASSUME NEW s \in SettleNames PROVE \E i \in 1 .. 9 : WinSteps[i] = s
    <3>1. /\ WinSteps[1] = "onchain_resolve" /\ WinSteps[2] = "escrow" /\ WinSteps[3] = "stats"
          /\ WinSteps[4] = "creator_fee" /\ WinSteps[5] = "creator_fee_registry"
          /\ WinSteps[6] = "lp_profit" /\ WinSteps[7] = "spectator_settle"
          /\ WinSteps[8] = "play_adjust" /\ WinSteps[9] = "finalize"
      BY DEF WinSteps
    <3> QED
      BY <3>1 DEF SettleNames
  <2> QED
    BY <1>1, <2>1, <2>2 DEF Range
<1> QED
  BY <1>2, <1>3

\* The places of the steps in their programs.
SettlePlace(p, i) ==
  /\ p[i] \in SettleNames \ AbortNames
  /\ p[i] = "onchain_resolve" <=> i = 1
  /\ p[i] = "escrow" <=> i = 2
  /\ p[i] \in {"spectator_settle", "play_adjust", "finalize"} => i > 3
  /\ p[i] \in {"creator_fee", "creator_fee_registry", "lp_profit"} => p = WinSteps
  /\ i < Len(p) /\ p[i + 1] = "play_adjust" => p[i] = "spectator_settle"
  /\ p[i] = "finalize" <=> i = Len(p)

AbortPlace(p, i) ==
  /\ p[i] \in AbortNames \ SettleNames
  /\ i = 1 <=> p[i] = "abort:onchain"
  /\ i = 2 <=> p[i] = "abort:escrow"
  /\ i = 3 <=> p[i] = "abort:spectator"
  /\ i = 4 <=> p[i] = "abort:play_adjust"
  /\ i = 5 <=> p[i] = "abort:finalize"

\* Every step of a program is at the place its lemmas expect.
LEMMA Placed ==
  ASSUME NEW p \in Programs, NEW i \in 1 .. Len(p)
  PROVE  i \in Nat /\ IF p = AbortSteps THEN AbortPlace(p, i) ELSE SettlePlace(p, i)
<1>1. CASE p = WinSteps
  <2>1. i \in 1 .. 9 /\ i \in Nat /\ p # AbortSteps
    BY <1>1, Programmed
  <2> QED
    BY <1>1, <2>1, Programmed, SMTT(60) DEF SettlePlace, WinSteps, SettleNames, AbortNames
<1>2. CASE p = DrawSteps
  <2>1. i \in 1 .. 6 /\ i \in Nat /\ p # AbortSteps
    BY <1>2, Programmed
  <2> QED
    BY <1>2, <2>1, Programmed, SMTT(60) DEF SettlePlace, DrawSteps, SettleNames, AbortNames
<1>3. CASE p = AbortSteps
  <2>1. i \in 1 .. 5 /\ i \in Nat
    BY <1>3, Programmed
  <2> QED
    BY <1>3, <2>1 DEF AbortPlace, AbortSteps, SettleNames, AbortNames
<1> QED
  BY <1>1, <1>2, <1>3 DEF Programs

\* What is left of a program is something a process may have to do.
LEMMA TodoType ==
  /\ \A p \in Programs : \A i \in 1 .. Len(p) + 1 : SubSeq(p, i, Len(p)) \in Todos
  /\ <<>> \in Todos
<1>1. \A p \in Programs : \A i \in 1 .. Len(p) + 1 : SubSeq(p, i, Len(p)) \in Todos
  BY DEF Programs, Todos, Suffixes
<1>2. SubSeq(AbortSteps, 6, 5) = <<>>
  BY SubSeqEmpty
<1>3. AbortSteps \in Programs /\ Len(AbortSteps) = 5 /\ 6 \in 1 .. 5 + 1
  BY Programmed DEF Programs
<1> QED
  BY <1>1, <1>2, <1>3

\* Where a process at its steps is in its program.
LEMMA StepAt ==
  ASSUME WorkOK, NEW w \in Procs, At(w, "steps")
  PROVE  \E p \in Programs : \E i \in 1 .. Len(p) :
           /\ Left(work[w], p, i) /\ Step(w) = p[i] /\ work[w].todo # <<>>
           /\ Len(work[w].todo) = 1 <=> i = Len(p)
           /\ i < Len(p) => Tail(work[w].todo) = SubSeq(p, i + 1, Len(p))
<1>1. PICK p \in Programs : \E i \in 1 .. Len(p) : Left(work[w], p, i)
  BY DEF WorkOK, JobOK, At
<1>2. PICK i \in 1 .. Len(p) : Left(work[w], p, i)
  BY <1>1
<1> DEFINE t == SubSeq(p, i, Len(p))
<1>3. p \in Seq(StepNames) /\ Len(p) \in Nat /\ Len(p) > 0
  BY Programmed
<1>4. work[w].todo = t
  BY <1>2 DEF Left
<1>5. Len(p) \in i .. Len(p)
  BY <1>3
<1>6. Head(t) = p[i] /\ Tail(t) = SubSeq(p, i + 1, Len(p))
  BY <1>3, <1>5, HeadTailOfSubSeq
<1>7. \A j \in i .. Len(p) : p[j] \in StepNames
  BY <1>3
<1>8. t \in Seq(StepNames) /\ Len(t) = Len(p) - i + 1
  BY <1>3, <1>5, <1>7, SubSeqProperties
<1>9. Len(t) > 0
  BY <1>3, <1>8
<1> HIDE DEF t
<1>11. t # <<>>
  BY <1>9
<1>10. Len(t) = 1 <=> i = Len(p)
  BY <1>3, <1>8
<1> QED
  BY <1>2, <1>4, <1>6, <1>11, <1>10 DEF Step, t

-----------------------------------------------------------------------------
(* What a process turns to                                                  *)

\* Rows stay, so a job that fits the journal goes on fitting it.
LEMMA JobKept ==
  ASSUME NEW j, JobOK(j), journal \subseteq journal'
  PROVE  JobOK(j)'
BY DEF JobOK, Left

\* Nobody turns to anything else.
LEMMA WorkKept ==
  ASSUME WorkOK, UNCHANGED work, journal \subseteq journal'
  PROVE  WorkOK'
<1>1. ASSUME NEW w \in Procs PROVE JobOK(work[w])'
  <2>1. PICK j : j = work[w] /\ j = work'[w]
    OBVIOUS
  <2>2. JobOK(j)'
    BY <2>1, JobKept DEF WorkOK
  <2> QED
    BY <2>1, <2>2
<1> QED
  BY <1>1 DEF WorkOK

\* One process turns to the job q.
LEMMA WorkTurn ==
  ASSUME WorkOK, NEW w \in Procs, NEW q \in Jobs, JobOK(q)',
         work' = [work EXCEPT ![w] = q], journal \subseteq journal'
  PROVE  WorkOK'
<1>1. work' \in [Procs -> Jobs] /\ work'[w] = q /\ \A v \in Procs \ {w} : work'[v] = work[v]
  BY DEF WorkOK
<1>2. ASSUME NEW v \in Procs PROVE JobOK(work[v])'
  <2>1. CASE v = w
    BY <1>1, <2>1
  <2>2. CASE v # w
    <3>1. PICK j : j = work[v] /\ j = work'[v]
      BY <1>1, <2>2
    <3>2. JobOK(j)'
      BY <3>1, JobKept DEF WorkOK
    <3> QED
      BY <3>1, <3>2
  <2> QED
    BY <2>1, <2>2
<1> QED
  BY <1>1, <1>2 DEF WorkOK

\* Places where a process needs neither a result nor steps to come.
Plain == Places \ {"claim", "steps"}

\* The jobs a process may turn to are jobs, and what their fields hold.
LEMMA IdleJob == \E q \in Jobs : q = Idle /\ q.at = "idle"
<1>1. Idle \in Jobs /\ Idle.at = "idle"
  BY TodoType DEF Idle, Jobs, Places
<1> QED
  BY <1>1

\* A job with a place and nothing else.
LEMMA RestJob ==
  ASSUME NEW pl \in Places
  PROVE  \E q \in Jobs : q = [Idle EXCEPT !.at = pl] /\ q.at = pl
<1> DEFINE q == [Idle EXCEPT !.at = pl]
<1>1. q \in Jobs /\ q.at = pl
  BY TodoType DEF Idle, Jobs
<1> QED
  BY <1>1

\* A job with a place and a result.
LEMMA ResultJob ==
  ASSUME NEW pl \in Places, NEW r \in Results
  PROVE  \E q \in Jobs : q = [Idle EXCEPT !.at = pl, !.res = r] /\ q.at = pl /\ q.res = r
<1> DEFINE q == [Idle EXCEPT !.at = pl, !.res = r]
<1>1. q \in Jobs /\ q.at = pl /\ q.res = r
  BY TodoType DEF Idle, Jobs
<1> QED
  BY <1>1

\* The same job at another place.
LEMMA PlaceJob ==
  ASSUME NEW j \in Jobs, NEW pl \in Places
  PROVE  \E q \in Jobs : q = [j EXCEPT !.at = pl] /\ q.at = pl /\ q.todo = j.todo
<1> DEFINE q == [j EXCEPT !.at = pl]
<1>1. q \in Jobs /\ q.at = pl /\ q.todo = j.todo
  BY DEF Jobs
<1> QED
  BY <1>1

\* The same job with other steps to come.
LEMMA TodoJob ==
  ASSUME NEW j \in Jobs, NEW t \in Todos
  PROVE  \E q \in Jobs : /\ q = [j EXCEPT !.todo = t, !.ran = FALSE]
                         /\ q.at = j.at /\ q.res = j.res /\ q.todo = t /\ q.ran = FALSE
<1> DEFINE q == [j EXCEPT !.todo = t, !.ran = FALSE]
<1>1. q \in Jobs
  BY DEF Jobs
<1>2. q.at = j.at /\ q.res = j.res /\ q.todo = t /\ q.ran = FALSE
  BY DEF Jobs
<1> QED
  BY <1>1, <1>2

\* A process drops what it had and rests, waits or fails.
LEMMA RestTurn ==
  ASSUME WorkOK, NEW w \in Procs, NEW pl \in Plain, journal \subseteq journal',
         work' = [work EXCEPT ![w] = [Idle EXCEPT !.at = pl]]
  PROVE  WorkOK'
<1>1. PICK q \in Jobs : q = [Idle EXCEPT !.at = pl] /\ q.at = pl
  BY RestJob DEF Plain
<1>3. JobOK(q)'
  BY <1>1 DEF JobOK, Plain
<1> QED
  BY <1>1, <1>3, WorkTurn

\* A process is done.
LEMMA IdleTurn ==
  ASSUME WorkOK, NEW w \in Procs, journal \subseteq journal', work' = [work EXCEPT ![w] = Idle]
  PROVE  WorkOK'
<1>1. PICK q \in Jobs : q = Idle /\ q.at = "idle"
  BY IdleJob
<1>2. JobOK(q)'
  BY <1>1 DEF JobOK
<1> QED
  BY <1>1, <1>2, WorkTurn

\* A process takes up a settlement with the result of the record.
LEMMA ClaimTurn ==
  ASSUME WorkOK, NEW w \in Procs, NEW r \in Results, journal \subseteq journal',
         work' = [work EXCEPT ![w] = [Idle EXCEPT !.at = "claim", !.res = r]]
  PROVE  WorkOK'
<1>1. "claim" \in Places
  BY DEF Places
<1>3. PICK q \in Jobs : q = [Idle EXCEPT !.at = "claim", !.res = r] /\ q.at = "claim" /\ q.res = r
  BY <1>1, ResultJob
<1>2. JobOK(q)'
  BY <1>3 DEF JobOK
<1> QED
  BY <1>2, <1>3, WorkTurn

\* A process goes on to another place.
LEMMA GoTurn ==
  ASSUME WorkOK, NEW w \in Procs, NEW pl \in Plain, journal \subseteq journal', Go(w, pl)
  PROVE  WorkOK'
<1>1. work[w] \in Jobs /\ work \in [Procs -> Jobs]
  BY DEF WorkOK
<1>5. pl \in Places
  BY DEF Plain
<1>2. PICK q \in Jobs : q = [work[w] EXCEPT !.at = pl] /\ q.at = pl
  BY <1>1, <1>5, PlaceJob
<1>3. JobOK(q)'
  BY <1>2 DEF JobOK, Plain
<1>4. work' = [work EXCEPT ![w] = q]
  BY <1>1, <1>2 DEF Go
<1> QED
  BY <1>3, <1>4, WorkTurn

\* A process meets an error.
LEMMA RaiseTurn ==
  ASSUME WorkOK, NEW w \in Procs, journal \subseteq journal', Raise(w)
  PROVE  WorkOK'
<1>1. "leave" \in Plain /\ "failed" \in Plain
  BY DEF Plain, Places
<1>2. CASE Aborting(w)
  BY <1>1, <1>2, RestTurn DEF Raise
<1>3. CASE ~ Aborting(w)
  BY <1>1, <1>3, RestTurn DEF Raise
<1> QED
  BY <1>2, <1>3

\* The rows that later steps of the same program ask for.
Keyed == {"onchain_resolve", "escrow", "spectator_settle",
          "abort:onchain", "abort:escrow", "abort:spectator"}

\* A process goes on to its next step: the row the next one asks for is there.
LEMMA AdvanceTurn ==
  ASSUME WorkOK, NEW w \in Procs, At(w, "steps"), Advance(w), journal \subseteq journal',
         Step(w) \in Keyed => Step(w) \in journal'
  PROVE  WorkOK'
<1>1. PICK p \in Programs : \E i \in 1 .. Len(p) :
           /\ Left(work[w], p, i) /\ Step(w) = p[i] /\ work[w].todo # <<>>
           /\ Len(work[w].todo) = 1 <=> i = Len(p)
           /\ i < Len(p) => Tail(work[w].todo) = SubSeq(p, i + 1, Len(p))
  BY StepAt
<1>2. PICK i \in 1 .. Len(p) :
           /\ Left(work[w], p, i) /\ Step(w) = p[i] /\ work[w].todo # <<>>
           /\ Len(work[w].todo) = 1 <=> i = Len(p)
           /\ i < Len(p) => Tail(work[w].todo) = SubSeq(p, i + 1, Len(p))
  BY <1>1
<1>3. i \in Nat /\ Len(p) \in Nat /\ (IF p = AbortSteps THEN AbortPlace(p, i) ELSE SettlePlace(p, i))
  BY Placed, Programmed
<1>4. CASE i = Len(p)
  <2>1. "leave" \in Plain
    BY DEF Plain, Places
  <2>2. work \in [Procs -> Jobs] /\ Len(work[w].todo) = 1
    BY <1>2, <1>4 DEF WorkOK
  <2>3. work' = [work EXCEPT ![w] = [Idle EXCEPT !.at = "leave"]]
    BY <2>2 DEF Advance
  <2> QED
    BY <2>1, <2>3, RestTurn
<1>5. CASE i # Len(p)
  <2>1. i + 1 \in 1 .. Len(p) /\ i + 1 \in 1 .. Len(p) + 1 /\ i < Len(p)
    BY <1>3, <1>5
  <2>2. work[w] \in Jobs /\ work \in [Procs -> Jobs] /\ work[w].at = "steps"
    BY DEF WorkOK, At
  <2>3. SubSeq(p, i + 1, Len(p)) \in Todos /\ Tail(work[w].todo) = SubSeq(p, i + 1, Len(p))
    BY <1>2, <2>1, TodoType
  <2>7. PICK t \in Todos : t = SubSeq(p, i + 1, Len(p))
    BY <2>3
  <2>4. PICK q \in Jobs :
          /\ q = [work[w] EXCEPT !.todo = t, !.ran = FALSE]
          /\ q.at = work[w].at /\ q.res = work[w].res /\ q.todo = t /\ q.ran = FALSE
    BY <2>2, <2>7, TodoJob
  <2>10. q.at = "steps" /\ q.todo = SubSeq(p, i + 1, Len(p))
    BY <2>2, <2>4, <2>7
  <2>5. work' = [work EXCEPT ![w] = q]
    <3>1. Len(work[w].todo) # 1 /\ w \in DOMAIN work
      BY <1>2, <1>5, <2>2
    <3>2. work' = [work EXCEPT ![w] = [work[w] EXCEPT !.todo = Tail(work[w].todo), !.ran = FALSE]]
      BY <3>1 DEF Advance
    <3>3. Tail(work[w].todo) = t
      BY <2>3, <2>7
    <3> QED
      BY <2>4, <3>2, <3>3
  <2>6. p[i] \in Keyed => p[i] \in journal'
    BY <1>2
  <2>8. ASSUME p = AbortSteps PROVE JobOK(q)'
    <3>1. AbortPlace(p, i) /\ AbortPlace(p, i + 1)
      BY <1>3, <2>1, <2>8, Placed
    <3>2. /\ i > 1 => "abort:onchain" \in journal
          /\ i > 2 => "abort:escrow" \in journal
          /\ i > 3 => "abort:spectator" \in journal
      BY <1>2, <2>8 DEF Left
    <3>3. /\ i + 1 > 1 => "abort:onchain" \in journal'
          /\ i + 1 > 2 => "abort:escrow" \in journal'
          /\ i + 1 > 3 => "abort:spectator" \in journal'
      BY <1>3, <2>6, <3>1, <3>2 DEF AbortPlace, Keyed
    <3>4. Left(q, p, i + 1)'
      BY <2>4, <2>10, <2>8, <3>3 DEF Left
    <3> QED
      BY <2>1, <2>10, <3>4 DEF JobOK
  <2>9. ASSUME p # AbortSteps PROVE JobOK(q)'
    <3>1. SettlePlace(p, i) /\ SettlePlace(p, i + 1)
      BY <1>3, <2>1, <2>9, Placed
    <3>2. /\ work[w].res \in Results /\ p = SettleSteps(work[w].res)
          /\ i > 1 => "onchain_resolve" \in journal
          /\ i > 2 => "escrow" \in journal
      BY <1>2, <2>9 DEF Left
    <3>3. /\ i + 1 > 1 => "onchain_resolve" \in journal'
          /\ i + 1 > 2 => "escrow" \in journal'
          /\ p[i + 1] = "play_adjust" => "spectator_settle" \in journal'
      BY <1>3, <2>1, <2>6, <3>1, <3>2 DEF SettlePlace, Keyed
    <3>4. Left(q, p, i + 1)'
      BY <2>4, <2>10, <2>9, <3>2, <3>3 DEF Left
    <3> QED
      BY <2>1, <2>10, <3>4 DEF JobOK
  <2> QED
    BY <2>4, <2>5, <2>8, <2>9, WorkTurn
<1> QED
  BY <1>4, <1>5

\* The same job after its call.
LEMMA RanJob ==
  ASSUME NEW j \in Jobs
  PROVE  \E q \in Jobs : /\ q = [j EXCEPT !.ran = TRUE]
                         /\ q.at = j.at /\ q.res = j.res /\ q.todo = j.todo /\ q.ran = TRUE
<1> DEFINE q == [j EXCEPT !.ran = TRUE]
<1>1. q \in Jobs
  BY DEF Jobs
<1>2. q.at = j.at /\ q.res = j.res /\ q.todo = j.todo /\ q.ran = TRUE
  BY DEF Jobs
<1> QED
  BY <1>1, <1>2

\* A process has made the call of its step.
LEMMA CalledTurn ==
  ASSUME WorkOK, NEW w \in Procs, At(w, "steps"), Called(w), Step(w) \in External,
         journal \subseteq journal'
  PROVE  WorkOK'
<1>1. work[w] \in Jobs /\ work \in [Procs -> Jobs] /\ work[w].at = "steps" /\ JobOK(work[w])
  BY DEF WorkOK, At
<1>2. PICK p \in Programs : \E i \in 1 .. Len(p) : Left(work[w], p, i) /\ Step(w) = p[i]
  BY StepAt
<1>3. PICK i \in 1 .. Len(p) : Left(work[w], p, i) /\ Step(w) = p[i]
  BY <1>2
<1>4. PICK q \in Jobs :
        /\ q = [work[w] EXCEPT !.ran = TRUE]
        /\ q.at = work[w].at /\ q.res = work[w].res /\ q.todo = work[w].todo /\ q.ran = TRUE
  BY <1>1, RanJob
<1>5. Left(q, p, i)'
  BY <1>3, <1>4 DEF Left
<1>6. JobOK(q)'
  BY <1>1, <1>4, <1>5 DEF JobOK
<1>7. work' = [work EXCEPT ![w] = q]
  BY <1>1, <1>4 DEF Called
<1> QED
  BY <1>6, <1>7, WorkTurn

\* A program begins.
LEMMA BeginTurn ==
  ASSUME WorkOK, NEW w \in Procs, NEW p \in Programs, journal \subseteq journal',
         p # AbortSteps => work[w].res \in Results /\ p = SettleSteps(work[w].res),
         work' = [work EXCEPT ![w].at = "steps", ![w].todo = p]
  PROVE  WorkOK'
<1>1. work[w] \in Jobs /\ work \in [Procs -> Jobs]
  BY DEF WorkOK
<1>2. p \in Seq(StepNames) /\ Len(p) \in Nat /\ Len(p) > 0
  BY Programmed
<1>3. SubSeq(p, 1, Len(p)) = p
  BY <1>2, SubSeqFull
<1>4. 1 \in 1 .. Len(p) /\ 1 \in 1 .. Len(p) + 1
  BY <1>2
<1>5. PICK t \in Todos : t = p
  BY <1>3, <1>4, TodoType
<1> DEFINE g == [[work[w] EXCEPT !.at = "steps"] EXCEPT !.todo = t]
<1>6. g \in Jobs /\ g.at = "steps" /\ g.todo = t /\ g.res = work[w].res
  <2>1. "steps" \in Places
    BY DEF Places
  <2> QED
    BY <1>1, <2>1 DEF Jobs
<1>7. PICK q \in Jobs : q = g /\ q.at = "steps" /\ q.todo = p /\ q.res = work[w].res
  BY <1>5, <1>6
<1>8. p[1] \in External /\ p[1] # "play_adjust"
  BY <1>4, Placed DEF SettlePlace, AbortPlace, External
<1>9. Left(q, p, 1)'
  BY <1>3, <1>7, <1>8 DEF Left
<1>10. JobOK(q)'
  BY <1>4, <1>7, <1>9 DEF JobOK
<1>11. work' = [work EXCEPT ![w] = q]
  BY <1>1, <1>5, <1>7
<1> QED
  BY <1>10, <1>11, WorkTurn

\* The book's step failed: what is left of the program is its end.
LEMMA FinalTurn ==
  ASSUME WorkOK, NEW w \in Procs, At(w, "steps"), Step(w) = "spectator_settle",
         journal \subseteq journal', work' = [work EXCEPT ![w].todo = <<"finalize">>]
  PROVE  WorkOK'
<1>1. work[w] \in Jobs /\ work \in [Procs -> Jobs] /\ work[w].at = "steps" /\ JobOK(work[w])
  BY DEF WorkOK, At
<1>2. PICK p \in Programs : \E i \in 1 .. Len(p) : Left(work[w], p, i) /\ Step(w) = p[i]
  BY StepAt
<1>3. PICK i \in 1 .. Len(p) : Left(work[w], p, i) /\ Step(w) = p[i]
  BY <1>2
<1>4. p # AbortSteps /\ i > 3 /\ i \in Nat
  BY <1>3, Placed DEF AbortPlace, SettlePlace, AbortNames
<1> DEFINE n == Len(p)
<1>5. /\ p \in Seq(StepNames) /\ n \in Nat /\ n > 0 /\ n = Len(p)
      /\ n \in 1 .. Len(p) /\ n \in 1 .. Len(p) + 1 /\ n \in n .. Len(p) /\ n >= i
  BY Programmed
<1>6. p[n] = "finalize"
  BY <1>4, <1>5, Placed DEF SettlePlace
<1>7. SubSeq(p, n, n) = <<p[n]>> \o SubSeq(p, n + 1, n)
  BY <1>5, SubSeqRecursiveFirst
<1>8. SubSeq(p, n + 1, n) = <<>>
  BY <1>5, SubSeqEmpty
<1>17. SubSeq(p, n, Len(p)) \in Todos
  BY <1>5, TodoType
<1> HIDE DEF n
<1>9. SubSeq(p, n, n) = <<"finalize">>
  <2>1. <<"finalize">> \in Seq({"finalize"})
    OBVIOUS
  <2> QED
    BY <1>6, <1>7, <1>8, <2>1, ConcatEmptySeq
<1>10. PICK t \in Todos : t = <<"finalize">> /\ t = SubSeq(p, n, Len(p))
  BY <1>5, <1>9, <1>17
<1> DEFINE g == [work[w] EXCEPT !.todo = t]
<1>11. g \in Jobs /\ g.at = "steps" /\ g.todo = t /\ g.res = work[w].res /\ g.ran = work[w].ran
  BY <1>1 DEF Jobs
<1>12. PICK q \in Jobs : q = g /\ q.at = "steps" /\ q.todo = t /\ q.res = work[w].res /\ q.ran = work[w].ran
  BY <1>11
<1>13. ~ work[w].ran
  BY <1>3 DEF Left, External
<1>18. "onchain_resolve" \in journal /\ "escrow" \in journal
  BY <1>3, <1>4 DEF Left
<1>14. Left(q, p, n)'
  BY <1>3, <1>4, <1>6, <1>10, <1>12, <1>13, <1>18 DEF Left
<1>15. JobOK(q)'
  BY <1>5, <1>12, <1>14 DEF JobOK, n
<1>16. work' = [work EXCEPT ![w] = q]
  BY <1>1, <1>10, <1>12
<1> QED
  BY <1>15, <1>16, WorkTurn

\* A process has seen an orphan and means to seat or refund it.
LEMMA PlanTurn ==
  ASSUME WorkOK, NEW w \in Procs, NEW pl \in Plain, status \in Statuses,
         work' = [work EXCEPT ![w].at = pl, ![w].seen = status], journal \subseteq journal'
  PROVE  WorkOK'
<1>1. work[w] \in Jobs /\ work \in [Procs -> Jobs]
  BY DEF WorkOK
<1> DEFINE g == [[work[w] EXCEPT !.at = pl] EXCEPT !.seen = status]
<1>2. g \in Jobs /\ g.at = pl
  BY <1>1 DEF Jobs, Plain
<1>3. PICK q \in Jobs : q = g /\ q.at = pl
  BY <1>2
<1>4. JobOK(q)'
  BY <1>3 DEF JobOK, Plain
<1>5. work' = [work EXCEPT ![w] = q]
  BY <1>1, <1>3
<1> QED
  BY <1>4, <1>5, WorkTurn

\* A game has ended.
LEMMA ResultTurn ==
  ASSUME WorkOK, NEW w \in Procs, NEW r \in Results, journal \subseteq journal',
         work' = [work EXCEPT ![w].at = "claim", ![w].res = r]
  PROVE  WorkOK'
<1>1. work[w] \in Jobs /\ work \in [Procs -> Jobs] /\ "claim" \in Places
  BY DEF WorkOK, Places
<1> DEFINE g == [[work[w] EXCEPT !.at = "claim"] EXCEPT !.res = r]
<1>2. g \in Jobs /\ g.at = "claim" /\ g.res = r
  BY <1>1 DEF Jobs
<1>3. PICK q \in Jobs : q = g /\ q.at = "claim" /\ q.res = r
  BY <1>2
<1>4. JobOK(q)'
  BY <1>3 DEF JobOK
<1>5. work' = [work EXCEPT ![w] = q]
  BY <1>1, <1>3
<1> QED
  BY <1>4, <1>5, WorkTurn

\* Locking keeps the jobs right.
LEMMA LockWork ==
  ASSUME WorkOK, NEW w \in Procs, Lock(w)
  PROVE  WorkOK'
<1> USE DEF Plain, Places
<1>1. CASE lock(w)
  <2>1. journal \subseteq journal'
    BY <1>1 DEF lock
  <2>2. Go(w, "run") \/ Go(w, "seal") \/ Go(w, "create") \/ Raise(w)
    BY <1>1 DEF lock
  <2> QED
    BY <2>1, <2>2, GoTurn, RaiseTurn
<1>2. CASE lock_escrow_and_seeds(w)
  <2>1. journal \subseteq journal'
    BY <1>2 DEF lock_escrow_and_seeds
  <2>2. Go(w, "mark") \/ Raise(w)
    BY <1>2 DEF lock_escrow_and_seeds
  <2> QED
    BY <2>1, <2>2, GoTurn, RaiseTurn
<1>3. CASE mark(w)
  BY <1>3, GoTurn DEF mark
<1>4. ASSUME NEW tx \in {"create", "join"}, send(w, tx) PROVE WorkOK'
  <2>1. journal \subseteq journal' /\ (Go(w, "creating") \/ Go(w, "joining"))
    BY <1>4 DEF send, Waiting
  <2> QED
    BY <2>1, GoTurn
<1>5. ASSUME NEW tx \in {"create", "join"}, lockFailed(w, tx) PROVE WorkOK'
  BY <1>5, RaiseTurn DEF lockFailed
<1>6. CASE receipt(w, "create", "join") \/ receipt(w, "join", "seal")
  <2>1. journal \subseteq journal' /\ (Go(w, "join") \/ Go(w, "seal"))
    BY <1>6 DEF receipt
  <2> QED
    BY <2>1, GoTurn
<1> QED
  BY <1>1, <1>2, <1>3, <1>4, <1>5, <1>6 DEF Lock

\* So does taking, leaving and losing a table.
LEMMA TakeWork ==
  ASSUME WorkOK, RecordOK, NEW w \in Procs,
         startTable(w) \/ settle_result(w) \/ Recover(w) \/ renew_held(w) \/ crash(w)
           \/ release(w) \/ driverFailed(w)
  PROVE  WorkOK'
<1> USE DEF Plain, Places
<1>1. CASE startTable(w)
  BY <1>1, GoTurn DEF startTable
<1>2. CASE settle_result(w)
  <2>1. PICK r \in Results : r = pending
    BY <1>2 DEF settle_result, RecordOK
  <2> QED
    BY <1>2, <2>1, ClaimTurn DEF settle_result
<1>3. CASE plan_table(w)
  <2>1. PICK pl \in {"seat", "refund"} : work' = [work EXCEPT ![w].at = pl, ![w].seen = status]
    BY <1>3 DEF plan_table
  <2>2. journal \subseteq journal' /\ status \in Statuses
    BY <1>3 DEF plan_table, RecordOK
  <2> QED
    BY <2>1, <2>2, PlanTurn
<1>4. CASE seat(w)
  <2>1. /\ journal \subseteq journal'
        /\ \/ work' = [work EXCEPT ![w] = [Idle EXCEPT !.at = "run"]]
           \/ work' = [work EXCEPT ![w] = Idle]
    BY <1>4 DEF seat
  <2> QED
    BY <2>1, RestTurn, IdleTurn
<1>5. CASE refund(w)
  <2>1. /\ journal \subseteq journal'
        /\ \/ work' = [work EXCEPT ![w] = [Idle EXCEPT !.at = "abort"]]
           \/ work' = [work EXCEPT ![w] = Idle]
    BY <1>5 DEF refund
  <2> QED
    BY <2>1, RestTurn, IdleTurn
<1>6. CASE renew_held(w)
  BY <1>6, WorkKept DEF renew_held
<1>7. CASE crash(w)
  BY <1>7, RestTurn DEF crash
<1>8. CASE release(w)
  BY <1>8, IdleTurn DEF release
<1>9. CASE driverFailed(w)
  BY <1>9, GoTurn DEF driverFailed
<1> QED
  BY <1>1, <1>2, <1>3, <1>4, <1>5, <1>6, <1>7, <1>8, <1>9 DEF Recover

\* So does playing, and claiming the settlement or the refund.
LEMMA ClaimWork ==
  ASSUME WorkOK, RecordOK, NEW w \in Procs,
         run_match(w) \/ play(w) \/ claimSettlement(w) \/ claimAbort(w)
  PROVE  WorkOK'
<1> USE DEF Plain, Places
<1>1. CASE run_match(w)
  <2>1. journal \subseteq journal'
    BY <1>1 DEF run_match
  <2>2. \/ /\ work' = [work EXCEPT ![w] = [Idle EXCEPT !.at = "claim", !.res = pending]]
           /\ status = "settling"
        \/ Go(w, "lock") \/ Go(w, "play") \/ Raise(w)
    BY <1>1 DEF run_match
  <2>3. ASSUME work' = [work EXCEPT ![w] = [Idle EXCEPT !.at = "claim", !.res = pending]], status = "settling"
        PROVE  WorkOK'
    <3>1. PICK r \in Results : r = pending
      BY <2>3 DEF RecordOK
    <3> QED
      BY <2>1, <2>3, <3>1, ClaimTurn
  <2> QED
    BY <2>1, <2>2, <2>3, GoTurn, RaiseTurn
<1>2. CASE play(w)
  <2>1. journal \subseteq journal'
    BY <1>2 DEF play
  <2>2. (\E r \in Results : work' = [work EXCEPT ![w].at = "claim", ![w].res = r]) \/ Raise(w)
    BY <1>2 DEF play
  <2> QED
    BY <2>1, <2>2, ResultTurn, RaiseTurn
<1>3. CASE claimSettlement(w)
  <2>1. journal \subseteq journal'
    BY <1>3 DEF claimSettlement
  <2>2. \/ work' = [work EXCEPT ![w].at = "steps", ![w].todo = SettleSteps(work[w].res)]
        \/ Raise(w)
    BY <1>3 DEF claimSettlement
  <2>3. work[w].res \in Results
    BY <1>3 DEF claimSettlement, At, WorkOK, JobOK
  <2>4. PICK p \in Programs : p = SettleSteps(work[w].res)
    BY DEF SettleSteps, Programs
  <2> QED
    BY <2>1, <2>2, <2>3, <2>4, BeginTurn, RaiseTurn
<1>4. CASE claimAbort(w)
  <2>1. journal \subseteq journal'
    BY <1>4 DEF claimAbort
  <2>2. \/ work' = [work EXCEPT ![w].at = "steps", ![w].todo = AbortSteps]
        \/ Go(w, "leave")
    BY <1>4 DEF claimAbort
  <2>3. AbortSteps \in Programs
    BY DEF Programs
  <2> QED
    BY <2>1, <2>2, <2>3, BeginTurn, GoTurn
<1> QED
  BY <1>1, <1>2, <1>3, <1>4

\* So does a step that commits.
LEMMA CommitWork ==
  ASSUME WorkOK, NEW w \in Procs, NEW s, Commits(w, s)
  PROVE  WorkOK'
BY AdvanceTurn DEF Commits, Due

\* So does a step that is skipped, recorded or fails.
LEMMA StepsWork ==
  ASSUME WorkOK, NEW w \in Procs, skipStep(w) \/ writeRow(w) \/ stepFails(w)
  PROVE  WorkOK'
<1>1. CASE skipStep(w)
  BY <1>1, AdvanceTurn DEF skipStep
<1>2. CASE writeRow(w)
  BY <1>2, AdvanceTurn DEF writeRow
<1>3. CASE stepFails(w)
  <2>1. journal \subseteq journal' /\ At(w, "steps")
    BY <1>3 DEF stepFails
  <2>2. \/ Step(w) = "spectator_settle" /\ work' = [work EXCEPT ![w].todo = <<"finalize">>]
        \/ Step(w) = "play_adjust" /\ Advance(w)
        \/ Raise(w)
    BY <1>3 DEF stepFails
  <2>3. "play_adjust" \notin Keyed
    BY DEF Keyed
  <2> QED
    BY <2>1, <2>2, <2>3, FinalTurn, AdvanceTurn, RaiseTurn
<1> QED
  BY <1>1, <1>2, <1>3

\* So does a transaction of the house.
LEMMA SendWork ==
  ASSUME WorkOK, NEW w \in Procs, NEW tx, At(w, "steps"), Step(w) \in External, journal \subseteq journal',
         sendsHouseTx(w, tx)
  PROVE  WorkOK'
<1>1. Called(w) \/ Raise(w)
  BY DEF sendsHouseTx
<1> QED
  BY <1>1, CalledTurn, RaiseTurn

\* So does every step of a settlement or a refund.
LEMMA SettleWork ==
  ASSUME WorkOK, NEW w \in Procs, Settle(w) \/ Refund(w)
  PROVE  WorkOK'
<1> USE DEF External, Calls, Due
<1>1. CASE resolveChain(w)
  <2>1. PICK tx : sendsHouseTx(w, tx)
    BY <1>1 DEF resolveChain
  <2> QED
    BY <1>1, <2>1, SendWork DEF resolveChain
<1>2. CASE cancelChain(w)
  <2>1. sendsHouseTx(w, "cancel") \/ Called(w)
    BY <1>2 DEF cancelChain
  <2> QED
    BY <1>2, <2>1, SendWork, CalledTurn DEF cancelChain
<1>3. CASE updateStats(w)
  BY <1>3, CalledTurn DEF updateStats
<1>4. CASE creditRegistry(w)
  <2>1. At(w, "steps") /\ Step(w) = "creator_fee_registry" /\ journal \subseteq journal'
        /\ (Advance(w) \/ Called(w))
    BY <1>4 DEF creditRegistry
  <2>2. "creator_fee_registry" \notin Keyed
    BY DEF Keyed
  <2> QED
    BY <2>1, <2>2, CalledTurn, AdvanceTurn
<1>5. CASE payFan(w)
  <2>1. At(w, "steps") /\ Step(w) = "play_adjust" /\ journal \subseteq journal'
        /\ (Advance(w) \/ Called(w))
    BY <1>5 DEF payFan
  <2>2. "play_adjust" \notin Keyed
    BY DEF Keyed
  <2> QED
    BY <2>1, <2>2, CalledTurn, AdvanceTurn
<1>6. CASE refundFan(w)
  BY <1>6, CalledTurn DEF refundFan
<1>7. CASE settleEscrow(w)
  BY <1>7, CommitWork DEF settleEscrow
<1>8. CASE refundEscrow(w)
  BY <1>8, CommitWork DEF refundEscrow
<1>9. CASE creatorFee(w)
  BY <1>9, CommitWork DEF creatorFee
<1>10. CASE lpProfit(w)
  BY <1>10, CommitWork DEF lpProfit
<1>11. CASE settleBook(w)
  BY <1>11, CommitWork DEF settleBook
<1>12. CASE voidBook(w)
  BY <1>12, CommitWork DEF voidBook
<1>13. CASE finalize(w)
  BY <1>13, CommitWork DEF finalize
<1>14. CASE finalizeAbort(w)
  BY <1>14, CommitWork DEF finalizeAbort
<1> QED
  BY <1>1, <1>2, <1>3, <1>4, <1>5, <1>6, <1>7, <1>8, <1>9, <1>10, <1>11, <1>12, <1>13, <1>14
     DEF Settle, Refund

\* The jobs stay right.
LEMMA NextWork ==
  ASSUME WorkOK, RecordOK, Next
  PROVE  WorkOK'
<1>1. ASSUME NEW w \in Procs, Drive(w) PROVE WorkOK'
  BY <1>1, LockWork, TakeWork, ClaimWork, StepsWork, SettleWork DEF Drive
<1>2. ASSUME NEW w \in Procs,
             startTable(w) \/ settle_result(w) \/ Recover(w) \/ renew_held(w) \/ crash(w)
      PROVE  WorkOK'
  BY <1>2, TakeWork
<1>3. CASE lapse \/ release_stale_pair \/ mine \/ refundExpired \/ \E a \in Roaming : otherTable(a)
  <2>1. UNCHANGED <<work, journal>>
    BY <1>3 DEF lapse, release_stale_pair, mine, refundExpired, otherTable
  <2> QED
    BY <2>1, WorkKept
<1> QED
  BY <1>1, <1>2, <1>3 DEF Next

-----------------------------------------------------------------------------
(* The record, the lease, and the rest                                      *)

\* The steps that leave the record alone.
LEMMA RecordKept ==
  ASSUME RecordOK, UNCHANGED record
  PROVE  RecordOK'
BY DEF RecordOK, record

\* The record stays right: a settlement under way has its result.
LEMMA NextRecord ==
  ASSUME WorkOK, RecordOK, Next
  PROVE  RecordOK'
<1> USE AmountsAssumption, ResultsAssumption DEF Statuses
<1>1. ASSUME NEW w \in Procs, Lock(w) PROVE RecordOK'
  <2>1. CASE lock(w) \/ mark(w)
    BY <2>1 DEF lock, mark, RecordOK
  <2>2. ASSUME NEW tx \in {"create", "join"}, lockFailed(w, tx) PROVE RecordOK'
    BY <2>2 DEF lockFailed, RecordOK
  <2>3. CASE lock_escrow_and_seeds(w) \/ (\E tx \in {"create", "join"} : send(w, tx))
             \/ receipt(w, "create", "join") \/ receipt(w, "join", "seal")
    BY <2>3, RecordKept DEF lock_escrow_and_seeds, send, receipt
  <2> QED
    BY <1>1, <2>1, <2>2, <2>3 DEF Lock
<1>2. ASSUME NEW w \in Procs, run_match(w) \/ driverFailed(w) PROVE RecordOK'
  BY <1>2 DEF run_match, driverFailed, RecordOK
<1>3. ASSUME NEW w \in Procs, claimSettlement(w) PROVE RecordOK'
  <2>1. PICK r \in Results : r = work[w].res
    BY <1>3 DEF claimSettlement, At, WorkOK, JobOK
  <2>2. /\ UNCHANGED <<result, aborts, pendingTx>>
        /\ \/ UNCHANGED <<status, pending, tries>>
           \/ /\ status = "settling" /\ pending' = pending /\ tries' = tries + 1
              /\ IF tries' > MaxTries THEN status' = "settle_failed" ELSE status' = status
           \/ status' = "settling" /\ pending' = r /\ tries' = 1
    BY <1>3, <2>1 DEF claimSettlement
  <2> QED
    BY <2>2 DEF RecordOK
<1>4. ASSUME NEW w \in Procs, claimAbort(w) PROVE RecordOK'
  <2>1. /\ UNCHANGED <<pending, result, tries, pendingTx>>
        /\ \/ UNCHANGED <<status, aborts>>
           \/ /\ status = "aborting" /\ aborts' = aborts + 1
              /\ IF aborts' > MaxTries THEN status' = "settle_failed" ELSE status' = status
           \/ status' = "aborting" /\ aborts' = 1
    BY <1>4 DEF claimAbort
  <2> QED
    BY <2>1 DEF RecordOK
<1>5. ASSUME NEW w \in Procs, stepFails(w) PROVE RecordOK'
  BY <1>5 DEF stepFails, RecordOK
<1>6. ASSUME NEW w \in Procs, finalize(w) PROVE RecordOK'
  <2>1. work[w].res \in Results \cup {None}
    BY DEF WorkOK, Jobs
  <2> QED
    BY <1>6, <2>1 DEF finalize, RecordOK
<1>7. ASSUME NEW w \in Procs, finalizeAbort(w) PROVE RecordOK'
  BY <1>7 DEF finalizeAbort, RecordOK
<1>8. CASE release_stale_pair
  BY <1>8 DEF release_stale_pair, RecordOK
<1>9. ASSUME NEW w \in Procs,
             startTable(w) \/ settle_result(w) \/ Recover(w) \/ renew_held(w) \/ crash(w)
               \/ play(w) \/ skipStep(w) \/ writeRow(w) \/ release(w)
      PROVE  RecordOK'
  BY <1>9, RecordKept DEF startTable, settle_result, Recover, plan_table, seat, refund, renew_held,
     crash, play, skipStep, writeRow, release, Rest
<1>10. ASSUME NEW w \in Procs, Settle(w) \/ Refund(w), ~ finalize(w), ~ finalizeAbort(w) PROVE RecordOK'
  <2>1. UNCHANGED record
    BY <1>10 DEF Settle, Refund, resolveChain, settleEscrow, updateStats, creatorFee, creditRegistry,
       lpProfit, settleBook, payFan, cancelChain, refundEscrow, voidBook, refundFan
  <2> QED
    BY <2>1, RecordKept
<1>11. CASE lapse \/ mine \/ refundExpired \/ \E a \in Roaming : otherTable(a)
  BY <1>11, RecordKept DEF lapse, mine, refundExpired, otherTable
<1> QED
  BY <1>1, <1>2, <1>3, <1>4, <1>5, <1>6, <1>7, <1>8, <1>9, <1>10, <1>11 DEF Next, Drive

\* Whoever takes or asks for the lease becomes its owner; only a lapse or a
\* release ends it.
LEMMA LeaseSteps ==
  ASSUME NEW w \in Procs, Drive(w), ~ release(w)
  PROVE  Take(w) \/ AssertHeld(w) \/ UNCHANGED lease
<1>1. CASE Lock(w) \/ run_match(w) \/ play(w) \/ claimSettlement(w) \/ claimAbort(w)
             \/ skipStep(w) \/ writeRow(w) \/ stepFails(w) \/ driverFailed(w)
  BY <1>1 DEF Lock, lock, lock_escrow_and_seeds, mark, send, lockFailed, receipt, run_match, play,
     claimSettlement, claimAbort, skipStep, writeRow, stepFails, driverFailed, lease
<1>2. CASE Settle(w) \/ Refund(w)
  BY <1>2 DEF Settle, Refund, resolveChain, settleEscrow, updateStats, creatorFee, creditRegistry,
     lpProfit, settleBook, payFan, finalize, cancelChain, refundEscrow, voidBook, refundFan,
     finalizeAbort, Calls, Commits
<1> QED
  BY <1>1, <1>2 DEF Drive

\* The lease stays right.
LEMMA NextLease ==
  ASSUME LeaseOK, Next
  PROVE  LeaseOK'
<1>1. ASSUME NEW w \in Procs, Take(w) \/ AssertHeld(w) \/ UNCHANGED lease PROVE LeaseOK'
  BY <1>1 DEF Take, AssertHeld, lease, LeaseOK
<1>2. ASSUME NEW w \in Procs, Drive(w), ~ release(w)
      PROVE  Take(w) \/ AssertHeld(w) \/ UNCHANGED lease
  BY <1>2, LeaseSteps
<1>4. ASSUME NEW w \in Procs,
             startTable(w) \/ settle_result(w) \/ Recover(w) \/ renew_held(w) \/ crash(w)
      PROVE  Take(w) \/ AssertHeld(w) \/ UNCHANGED lease
  BY <1>4 DEF startTable, settle_result, Recover, plan_table, seat, refund, renew_held, crash
<1>5. ASSUME NEW w \in Procs, release(w) PROVE LeaseOK'
  BY <1>5 DEF release, lease, LeaseOK
<1>6. CASE lapse
  BY <1>6 DEF lapse, LeaseOK
<1>7. CASE release_stale_pair \/ mine \/ refundExpired \/ \E a \in Roaming : otherTable(a)
  BY <1>7 DEF release_stale_pair, mine, refundExpired, otherTable, lease, LeaseOK
<1> QED
  BY <1>1, <1>2, <1>4, <1>5, <1>6, <1>7 DEF Next

Others == <<skipped, stats, feesCredited, chain, mempool>>

\* The registry, the chain and the mempool keep their types.
LEMMA NextElse ==
  ASSUME WorkOK, ElseOK, Next
  PROVE  ElseOK'
<1> USE DEF ElseOK, ONCHAIN_FINAL, Winners, registry, onchain
<1>1. ASSUME UNCHANGED Others PROVE ElseOK'
  BY <1>1 DEF Others
<1>2. ASSUME NEW w \in Procs, NEW tx \in {"cancel"} \cup Winners, sendsHouseTx(w, tx),
             UNCHANGED <<skipped, registry>>
      PROVE  ElseOK'
  BY <1>2 DEF sendsHouseTx, After
<1>3. ASSUME NEW w \in Procs, resolveChain(w) PROVE ElseOK'
  <2>1. PICK tx \in {"cancel"} \cup Winners : sendsHouseTx(w, tx)
    <3>1. At(w, "steps") /\ Step(w) = "onchain_resolve"
      BY <1>3 DEF resolveChain, Calls, Due
    <3>2. PICK p \in Programs : \E i \in 1 .. Len(p) : Left(work[w], p, i) /\ Step(w) = p[i]
      BY <3>1, StepAt
    <3>3. work[w].res \in Results
      BY <3>1, <3>2, Placed DEF Left, AbortPlace, AbortNames
    <3> QED
      BY <1>3, <3>3, ResultsAssumption DEF resolveChain
  <2> QED
    BY <1>2, <1>3, <2>1 DEF resolveChain
<1>4. ASSUME NEW w \in Procs, cancelChain(w) PROVE ElseOK'
  BY <1>1, <1>2, <1>4 DEF cancelChain, Others
<1>5. ASSUME NEW w \in Procs, updateStats(w) \/ creditRegistry(w) PROVE ElseOK'
  <2>1. \A n \in 0 .. 2 : Again(n) \in 0 .. 2
    BY DEF Again
  <2>2. /\ UNCHANGED <<skipped, chain, mempool>>
        /\ stats' \in {stats, Again(stats)} /\ feesCredited' \in {feesCredited, Again(feesCredited)}
    BY <1>5 DEF updateStats, creditRegistry
  <2>3. stats' \in 0 .. 2 /\ feesCredited' \in 0 .. 2
    BY <2>1, <2>2
  <2> QED
    BY <2>2, <2>3
<1>6. ASSUME NEW w \in Procs, creatorFee(w) PROVE ElseOK'
  BY <1>6 DEF creatorFee
<1>7. ASSUME NEW w \in Procs, NEW tx \in {"create", "join"}, send(w, tx) PROVE ElseOK'
  BY <1>7 DEF send
<1>8. CASE mine \/ refundExpired
  BY <1>8 DEF mine, refundExpired, Accepts, After
<1>9. ASSUME NEW w \in Procs,
             settleEscrow(w) \/ lpProfit(w) \/ settleBook(w) \/ payFan(w) \/ finalize(w)
               \/ refundEscrow(w) \/ voidBook(w) \/ refundFan(w) \/ finalizeAbort(w)
      PROVE  UNCHANGED Others
  BY <1>9 DEF settleEscrow, lpProfit, settleBook, payFan, finalize, refundEscrow, voidBook, refundFan,
     finalizeAbort, Others
<1>10. ASSUME NEW w \in Procs,
              lock(w) \/ lock_escrow_and_seeds(w) \/ mark(w)
                \/ (\E tx \in {"create", "join"} : lockFailed(w, tx))
                \/ receipt(w, "create", "join") \/ receipt(w, "join", "seal")
                \/ run_match(w) \/ play(w) \/ claimSettlement(w) \/ claimAbort(w)
                \/ skipStep(w) \/ writeRow(w) \/ stepFails(w) \/ driverFailed(w) \/ release(w)
      PROVE  UNCHANGED Others
  BY <1>10 DEF lock, lock_escrow_and_seeds, mark, lockFailed, receipt, run_match, play,
     claimSettlement, claimAbort, skipStep, writeRow, stepFails, driverFailed, release, Rest, Others
<1>11. ASSUME NEW w \in Procs,
              startTable(w) \/ settle_result(w) \/ Recover(w) \/ renew_held(w) \/ crash(w)
       PROVE  UNCHANGED Others
  BY <1>11 DEF startTable, settle_result, Recover, plan_table, seat, refund, renew_held, crash, Others
<1>12. CASE lapse \/ release_stale_pair \/ \E a \in Roaming : otherTable(a)
  BY <1>1, <1>12 DEF lapse, release_stale_pair, otherTable, Others
<1> QED
  BY <1>1, <1>3, <1>4, <1>5, <1>6, <1>7, <1>8, <1>9, <1>10, <1>11, <1>12
     DEF Next, Drive, Lock, Settle, Refund

-----------------------------------------------------------------------------
(* The money                                                                *)

\* What the ledger's escrow holds.
Tied == IF escrow = "locked" THEN 2 * Stake ELSE 0

\* The amounts are natural numbers, and no fee is more than the pot.
LEMMA Amounts ==
  /\ Stake \in Nat /\ Fee \in Nat /\ CreatorCut \in Nat /\ LpShare \in Nat
  /\ Seed \in Nat /\ Bet \in Nat /\ Funds \in Nat
  /\ Fee <= 2 * Stake /\ Roaming \subseteq Winners
  /\ \A r \in Results : FanShare[r] \in Nat /\ FanShare[r] <= 2 * Seed + Bet
BY AmountsAssumption

\* There are finitely many wallets.
LEMMA WalletsFinite == IsFiniteSet(Wallets)
<1>1. \A S, x : IsFiniteSet(S) => IsFiniteSet(S \cup {x})
  BY FS_AddElement
<1>2. Wallets = ((((({} \cup {"white"}) \cup {"black"}) \cup {"treasury"}) \cup {"creator"}) \cup {"lp"})
                  \cup {"elsewhere"}
  BY DEF Wallets, Winners
<1> QED
  BY <1>1, <1>2, FS_EmptySet

\* One wallet, or two, get other balances.
LEMMA OneMoves ==
  ASSUME NEW f \in [Wallets -> Nat], NEW g \in [Wallets -> Nat], NEW a \in Wallets,
         \A y \in Wallets : y # a => g[y] = f[y]
  PROVE  /\ SumFunction(f) \in Nat /\ SumFunction(g) \in Nat
         /\ SumFunction(g) = SumFunction(f) - f[a] + g[a]
<1>1. DOMAIN g = Wallets /\ DOMAIN f = Wallets
  OBVIOUS
<1>2. \A y \in Wallets : f[y] \in Nat /\ g[y] \in Nat /\ (y # a => g[y] = f[y])
  OBVIOUS
<1>3. a \in Wallets
  OBVIOUS
<1>4. /\ SumFunctionOnSet(f, Wallets) \in Nat /\ SumFunctionOnSet(g, Wallets) \in Nat
      /\ SumFunctionOnSet(g, Wallets) = SumFunctionOnSet(f, Wallets) - f[a] + g[a]
  BY ONLY <1>2, <1>3, WalletsFinite, SumChange
<1> QED
  BY <1>1, <1>4 DEF SumFunction

\* Two wallets get other balances.
LEMMA TwoMove ==
  ASSUME NEW f \in [Wallets -> Nat], NEW g \in [Wallets -> Nat], NEW a \in Wallets, NEW b \in Wallets, a # b,
         \A y \in Wallets : y \notin {a, b} => g[y] = f[y]
  PROVE  /\ SumFunction(f) \in Nat /\ SumFunction(g) \in Nat
         /\ SumFunction(g) = SumFunction(f) - f[a] - f[b] + g[a] + g[b]
<1> DEFINE h == [f EXCEPT ![a] = g[a]]
<1>1. f \in [Wallets -> Nat] /\ g \in [Wallets -> Nat] /\ a \in Wallets /\ b \in Wallets
  OBVIOUS
<1>2. h \in [Wallets -> Nat] /\ h[b] = f[b] /\ h[a] = g[a]
  OBVIOUS
<1>3. \A y \in Wallets : y # a => h[y] = f[y]
  OBVIOUS
<1>4. \A y \in Wallets : y # b => g[y] = h[y]
  OBVIOUS
<1> HIDE DEF h
<1>5. SumFunction(f) \in Nat /\ SumFunction(h) \in Nat /\ SumFunction(h) = SumFunction(f) - f[a] + h[a]
  BY ONLY <1>1, <1>2, <1>3, OneMoves
<1>6. SumFunction(g) \in Nat /\ SumFunction(g) = SumFunction(h) - h[b] + g[b]
  BY ONLY <1>1, <1>2, <1>4, OneMoves
<1>7. f[a] \in Nat /\ f[b] \in Nat /\ g[a] \in Nat /\ g[b] \in Nat
  OBVIOUS
<1> QED
  BY <1>2, <1>5, <1>6, <1>7

\* Every term of MoneyConserved is a natural number.
LEMMA MoneyTypes ==
  ASSUME MoneyOK
  PROVE  /\ bal \in [Wallets -> Nat] /\ SumFunction(bal) \in Nat
         /\ Tied \in Nat /\ pot \in Nat /\ FanGot \in Nat
         /\ SumFunction(bal) + Tied + pot + FanGot = 2 * Funds + Bet
<1>1. bal \in [Wallets -> Nat] /\ pot \in Nat /\ MoneyConserved
  BY DEF MoneyOK, PotOK
<1>2. SumFunction(bal) \in Nat
  <2>1. "lp" \in Wallets /\ 0 \in Nat
    BY DEF Wallets
  <2> QED
    BY <1>1, <2>1, OneMoves
<1>3. "payout" \in fan => book \in Results
  BY DEF MoneyOK, PotOK, RowsOK
<1>4. Tied \in Nat /\ FanGot \in Nat
  BY <1>3, Amounts DEF Tied, FanGot
<1>5. SumFunction(bal) + Tied + pot + FanGot = 2 * Funds + Bet
  BY <1>1 DEF MoneyConserved, Tied
<1> QED
  BY <1>1, <1>2, <1>4, <1>5

\* What changes hands and is not lost is still there.
LEMMA StillConserved ==
  ASSUME MoneyOK,
         SumFunction(bal') + Tied' + pot' + FanGot' = SumFunction(bal) + Tied + pot + FanGot
  PROVE  MoneyConserved'
BY MoneyTypes DEF MoneyConserved, Tied

\* No result is one of the other states of an escrow or a book.
LEMMA Apart == {"open", "locked", "void"} \cap Outcomes = {} /\ Results \subseteq Outcomes
BY ResultsAssumption DEF Outcomes, Winners

\* The rows that say something of the money.
Telling == {"lock:seeds", "escrow", "spectator_settle", "abort:spectator"}

\* No money moves, and no row that speaks of it is written.
LEMMA MoneyKept ==
  ASSUME MoneyOK, UNCHANGED <<ledger, bets>>,
         journal' = journal \/ \E s \in StepNames \ Telling : journal' = journal \cup {s}
  PROVE  MoneyOK'
<1>1. \A s \in Telling : s \in journal' <=> s \in journal
  OBVIOUS
<1>2. journal' \subseteq journal \cup StepNames
  OBVIOUS
<1>3. RowsOK'
  BY <1>1, <1>2, AbortRange DEF MoneyOK, RowsOK, ledger, bets, Telling, StepNames
<1>4. PotOK' /\ MoneyConserved' /\ (bal \in [Wallets -> Nat])'
  BY DEF MoneyOK, PotOK, MoneyConserved, FanGot, ledger, bets
<1> QED
  BY <1>3, <1>4 DEF MoneyOK

\* USDC moves between two wallets.
LEMMA PairMoney ==
  ASSUME MoneyOK, NEW a \in Wallets, NEW b \in Wallets, a # b, NEW x \in Nat, x <= bal[a],
         bal' = [bal EXCEPT ![a] = @ - x, ![b] = @ + x], UNCHANGED <<escrow, bets>>,
         journal' = journal \/ \E s \in StepNames \ Telling : journal' = journal \cup {s}
  PROVE  MoneyOK'
<1>1. bal \in [Wallets -> Nat] /\ bal[a] \in Nat /\ bal[b] \in Nat
  BY DEF MoneyOK
<1>2. bal' \in [Wallets -> Nat] /\ bal'[a] = bal[a] - x /\ bal'[b] = bal[b] + x
      /\ \A y \in Wallets : y \notin {a, b} => bal'[y] = bal[y]
  BY <1>1
<1>3. /\ SumFunction(bal) \in Nat /\ SumFunction(bal') \in Nat
      /\ SumFunction(bal') = SumFunction(bal) - bal[a] - bal[b] + bal'[a] + bal'[b]
  <2> DEFINE f == bal
             g == bal'
  <2>1. f \in [Wallets -> Nat] /\ g \in [Wallets -> Nat] /\ \A y \in Wallets : y \notin {a, b} => g[y] = f[y]
    BY <1>1, <1>2
  <2> HIDE DEF f, g
  <2>2. /\ SumFunction(f) \in Nat /\ SumFunction(g) \in Nat
        /\ SumFunction(g) = SumFunction(f) - f[a] - f[b] + g[a] + g[b]
    BY <2>1, TwoMove
  <2> QED
    BY <2>2 DEF f, g
<1>4. SumFunction(bal') = SumFunction(bal)
  BY <1>1, <1>2, <1>3
<1>5. \A s \in Telling : s \in journal' <=> s \in journal
  OBVIOUS
<1>6. RowsOK'
  BY <1>5, AbortRange DEF MoneyOK, RowsOK, bets, Telling, StepNames
<1>7. PotOK' /\ MoneyConserved'
  BY <1>4 DEF MoneyOK, PotOK, MoneyConserved, FanGot, bets
<1> QED
  BY <1>2, <1>6, <1>7 DEF MoneyOK

\* Both stakes and both seeds are locked.
LEMMA LockMoney ==
  ASSUME MoneyOK, NEW w \in Procs, lock_escrow_and_seeds(w)
  PROVE  MoneyOK'
<1>1. CASE UNCHANGED <<escrow, bal, pot, journal>>
  BY <1>1, MoneyKept DEF lock_escrow_and_seeds, ledger, bets
<1>2. CASE ~ UNCHANGED <<escrow, bal, pot, journal>>
  <2>1. /\ escrow = "open" /\ \A a \in Winners : bal[a] >= Stake + Seed
        /\ escrow' = "locked"
        /\ bal' = [a \in Wallets |-> IF a \in Winners THEN bal[a] - Stake - Seed ELSE bal[a]]
        /\ pot' = pot + 2 * Seed
        /\ journal' = journal \cup {"lock:seeds"}
        /\ UNCHANGED <<book, fan>>
    BY <1>2 DEF lock_escrow_and_seeds
  <2>2. bal \in [Wallets -> Nat] /\ {"white", "black"} \subseteq Wallets
    BY DEF MoneyOK, Wallets, Winners
  <2>3. bal["white"] \in Nat /\ bal["black"] \in Nat /\ bal["white"] >= Stake + Seed /\ bal["black"] >= Stake + Seed
    BY <2>1, <2>2 DEF Winners
  <2>4. bal' \in [Wallets -> Nat]
    BY <2>1, <2>2, Amounts
  <2>5. bal'["white"] = bal["white"] - Stake - Seed /\ bal'["black"] = bal["black"] - Stake - Seed
        /\ \A y \in Wallets : y \notin {"white", "black"} => bal'[y] = bal[y]
    BY <2>1, <2>2 DEF Winners
  <2>6. /\ SumFunction(bal) \in Nat /\ SumFunction(bal') \in Nat
        /\ SumFunction(bal') = SumFunction(bal) - bal["white"] - bal["black"] + bal'["white"] + bal'["black"]
    BY <2>2, <2>4, <2>5, TwoMove
  <2>7. SumFunction(bal') = SumFunction(bal) - 2 * Stake - 2 * Seed
    BY <2>3, <2>5, <2>6, Amounts
  <2>8. Tied = 0 /\ Tied' = 2 * Stake /\ FanGot' = FanGot /\ FanGot \in Nat /\ pot \in Nat
    BY <2>1, MoneyTypes DEF Tied, FanGot
  <2>9. SumFunction(bal') + Tied' + pot' + FanGot' = SumFunction(bal) + Tied + pot + FanGot
    BY <2>1, <2>6, <2>7, <2>8, Amounts
  <2>10. MoneyConserved'
    BY <2>9, StillConserved
  <2>11. RowsOK'
    BY <2>1, Apart DEF MoneyOK, RowsOK
  <2>12. PotOK'
    BY <2>1, Amounts DEF MoneyOK, PotOK, RowsOK
  <2> QED
    BY <2>4, <2>10, <2>11, <2>12 DEF MoneyOK
<1> QED
  BY <1>1, <1>2

\* The escrow pays, whichever of its two steps asks.
LEMMA EscrowMoney ==
  ASSUME MoneyOK, NEW r \in Outcomes, Settles(r), UNCHANGED bets,
         NEW s \in {"escrow", "abort:escrow"}, journal' = journal \cup {s}
  PROVE  MoneyOK'
<1>1. bal \in [Wallets -> Nat] /\ {"white", "black", "treasury"} \subseteq Wallets /\ Outcomes \subseteq Winners \cup {"draw"}
  BY ResultsAssumption DEF MoneyOK, Wallets, Winners, Outcomes
<1>2. bal["white"] \in Nat /\ bal["black"] \in Nat /\ bal["treasury"] \in Nat
  BY <1>1
<1>3. s \in StepNames
  BY DEF StepNames, SettleNames, AbortNames
<1>4. escrow # "open" /\ escrow' \in Outcomes
  BY <1>1 DEF Settles, MoneyOK, RowsOK, Winners, ledger, Kind
<1>5. RowsOK'
  BY <1>3, <1>4, Apart, AbortRange DEF MoneyOK, RowsOK, bets, StepNames
<1>6. PotOK'
  BY <1>4, <1>1 DEF MoneyOK, PotOK, bets, Winners
<1>7. CASE escrow # "locked"
  <2>1. UNCHANGED ledger
    BY <1>7 DEF Settles
  <2>2. MoneyConserved' /\ (bal \in [Wallets -> Nat])'
    BY <2>1 DEF MoneyOK, MoneyConserved, FanGot, bets, ledger
  <2> QED
    BY <1>5, <1>6, <2>2 DEF MoneyOK
<1>8. CASE escrow = "locked"
  <2>1. escrow' = r /\ Tied = 2 * Stake /\ Tied' = 0 /\ FanGot' = FanGot /\ pot' = pot
    BY <1>1, <1>8 DEF Settles, Tied, FanGot, bets, Winners
  <2>2. bal' \in [Wallets -> Nat] /\ SumFunction(bal) \in Nat /\ SumFunction(bal') = SumFunction(bal) + 2 * Stake
    <3>1. CASE r = "draw"
      <4>1. bal' = [bal EXCEPT !["white"] = @ + Stake, !["black"] = @ + Stake]
        BY <1>8, <3>1 DEF Settles
      <4>2. /\ bal' \in [Wallets -> Nat]
            /\ bal'["white"] = bal["white"] + Stake /\ bal'["black"] = bal["black"] + Stake
            /\ \A y \in Wallets : y \notin {"white", "black"} => bal'[y] = bal[y]
        BY <1>1, <1>2, <4>1, Amounts
      <4>3. /\ SumFunction(bal) \in Nat /\ SumFunction(bal') \in Nat
            /\ SumFunction(bal') = SumFunction(bal) - bal["white"] - bal["black"] + bal'["white"] + bal'["black"]
        BY <1>1, <4>2, TwoMove
      <4> QED
        BY <1>2, <4>2, <4>3, Amounts
    <3>2. CASE r # "draw"
      <4>1. bal' = [bal EXCEPT ![r] = @ + (2 * Stake - Fee), !["treasury"] = @ + Fee]
        BY <1>8, <3>2 DEF Settles
      <4>2. r \in Wallets /\ r # "treasury" /\ bal[r] \in Nat /\ 2 * Stake - Fee \in Nat
        BY <1>1, <3>2, Amounts DEF Winners
      <4>3. /\ bal' \in [Wallets -> Nat]
            /\ bal'[r] = bal[r] + (2 * Stake - Fee) /\ bal'["treasury"] = bal["treasury"] + Fee
            /\ \A y \in Wallets : y \notin {r, "treasury"} => bal'[y] = bal[y]
        BY <1>1, <1>2, <4>1, <4>2, Amounts
      <4>4. /\ SumFunction(bal) \in Nat /\ SumFunction(bal') \in Nat
            /\ SumFunction(bal') = SumFunction(bal) - bal[r] - bal["treasury"] + bal'[r] + bal'["treasury"]
        BY <1>1, <4>2, <4>3, TwoMove
      <4> QED
        BY <1>2, <4>2, <4>3, <4>4, Amounts
    <3> QED
      BY <3>1, <3>2
  <2>3. SumFunction(bal') + Tied' + pot' + FanGot' = SumFunction(bal) + Tied + pot + FanGot
    BY <2>1, <2>2, MoneyTypes, Amounts
  <2> QED
    BY <1>5, <1>6, <2>2, <2>3, StillConserved DEF MoneyOK
<1> QED
  BY <1>7, <1>8

\* What a step finds in the journal and in its result.
LEMMA StepFinds ==
  ASSUME WorkOK, NEW w \in Procs, At(w, "steps")
  PROVE  /\ Step(w) \in SettleNames => work[w].res \in Results
         /\ Step(w) \in {"creator_fee", "lp_profit"} => work[w].res \in Winners
         /\ Step(w) \in {"spectator_settle", "finalize"} => "escrow" \in journal
         /\ Step(w) = "play_adjust" => "spectator_settle" \in journal
         /\ Step(w) = "abort:play_adjust" => "abort:spectator" \in journal
<1>1. PICK p \in Programs : \E i \in 1 .. Len(p) : Left(work[w], p, i) /\ Step(w) = p[i]
  BY StepAt
<1>2. PICK i \in 1 .. Len(p) : Left(work[w], p, i) /\ Step(w) = p[i]
  BY <1>1
<1>3. CASE p = AbortSteps
  BY <1>2, <1>3, Placed DEF Left, AbortPlace, AbortNames, SettleNames
<1>4. CASE p # AbortSteps
  <2>1. SettlePlace(p, i) /\ i \in Nat
    BY <1>4, Placed
  <2>2. work[w].res \in Results /\ p = SettleSteps(work[w].res)
    BY <1>2, <1>4 DEF Left
  <2>3. p = WinSteps => work[w].res \in Winners
    BY <2>2, ResultsAssumption, Programmed DEF SettleSteps
  <2> QED
    BY <1>2, <1>4, <2>1, <2>2, <2>3 DEF Left, SettlePlace, AbortNames, SettleNames
<1> QED
  BY <1>3, <1>4

\* The book is settled: its row says so, and what the fan is owed stays in it.
LEMMA SettleBookMoney ==
  ASSUME WorkOK, MoneyOK, NEW w \in Procs, settleBook(w)
  PROVE  MoneyOK'
<1>1. PICK r \in Results : r = work[w].res
  BY StepFinds DEF settleBook, Commits, Due, SettleNames
<1>2. "escrow" \in journal /\ "spectator_settle" \notin journal
  BY StepFinds DEF settleBook, Commits, Due
<1>3. book = "open"
  BY <1>1, <1>2 DEF settleBook, MoneyOK, RowsOK
<1>4. /\ book' = r /\ pot' = FanShare[r]
      /\ bal' = [bal EXCEPT !["creator"] = @ + (pot - FanShare[r])]
      /\ UNCHANGED <<escrow, fan>> /\ journal' = journal \cup {"spectator_settle"}
  BY <1>1, <1>2, <1>3, Apart DEF settleBook, Commits
<1>5. escrow # "open" /\ fan = {} /\ pot = Bet + 2 * Seed /\ FanShare[r] \in Nat /\ pot - FanShare[r] \in Nat
  BY <1>2, <1>3, Apart, Amounts DEF MoneyOK, RowsOK, PotOK
<1>6. bal \in [Wallets -> Nat] /\ "creator" \in Wallets /\ bal["creator"] \in Nat
  BY DEF MoneyOK, Wallets
<1>7. /\ bal' \in [Wallets -> Nat] /\ bal'["creator"] = bal["creator"] + (pot - FanShare[r])
      /\ \A y \in Wallets : y # "creator" => bal'[y] = bal[y]
  BY <1>4, <1>5, <1>6
<1>8. /\ SumFunction(bal) \in Nat /\ SumFunction(bal') \in Nat
      /\ SumFunction(bal') = SumFunction(bal) - bal["creator"] + bal'["creator"]
  BY <1>6, <1>7, OneMoves
<1>9. FanGot = 0 /\ FanGot' = 0 /\ Tied' = Tied /\ Tied \in Nat /\ pot \in Nat
  BY <1>4, <1>5, MoneyTypes DEF FanGot, Tied
<1>10. SumFunction(bal') + Tied' + pot' + FanGot' = SumFunction(bal) + Tied + pot + FanGot
  BY <1>4, <1>5, <1>6, <1>7, <1>8, <1>9
<1>11. RowsOK'
  BY <1>3, <1>4, Apart, AbortRange DEF MoneyOK, RowsOK, SettleNames
<1>12. PotOK'
  BY <1>4, <1>5, Apart DEF PotOK
<1> QED
  BY <1>7, <1>10, <1>11, <1>12, StillConserved DEF MoneyOK

\* The book is voided: the seeds that were locked go back.
LEMMA VoidBookMoney ==
  ASSUME WorkOK, MoneyOK, NEW w \in Procs, voidBook(w)
  PROVE  MoneyOK'
<1>1. "abort:spectator" \notin journal /\ journal' = journal \cup {"abort:spectator"}
      /\ UNCHANGED <<escrow, fan>> /\ book' = "void"
  BY DEF voidBook, Commits, Due
<1>2. book = "open" /\ fan = {}
  BY <1>1 DEF voidBook, MoneyOK, RowsOK, PotOK
<1>3. PICK back \in Nat :
        /\ back = (IF "lock:seeds" \in journal THEN Seed ELSE 0)
        /\ pot' = pot - 2 * back
        /\ bal' = [bal EXCEPT !["white"] = @ + back, !["black"] = @ + back]
  BY Amounts DEF voidBook
<1>4. pot = Bet + 2 * back /\ pot' = Bet
  BY <1>2, <1>3, Amounts DEF MoneyOK, RowsOK, PotOK
<1>5. bal \in [Wallets -> Nat] /\ "white" \in Wallets /\ "black" \in Wallets
      /\ bal["white"] \in Nat /\ bal["black"] \in Nat
  BY DEF MoneyOK, Wallets, Winners
<1>6. /\ bal' \in [Wallets -> Nat] /\ bal'["white"] = bal["white"] + back /\ bal'["black"] = bal["black"] + back
      /\ \A y \in Wallets : y \notin {"white", "black"} => bal'[y] = bal[y]
  BY <1>3, <1>5
<1>7. /\ SumFunction(bal) \in Nat /\ SumFunction(bal') \in Nat
      /\ SumFunction(bal') = SumFunction(bal) - bal["white"] - bal["black"] + bal'["white"] + bal'["black"]
  BY <1>5, <1>6, TwoMove
<1>8. FanGot = 0 /\ FanGot' = 0 /\ Tied' = Tied /\ Tied \in Nat
  BY <1>1, <1>2, MoneyTypes DEF FanGot, Tied
<1>9. SumFunction(bal') + Tied' + pot' + FanGot' = SumFunction(bal) + Tied + pot + FanGot
  BY <1>4, <1>5, <1>6, <1>7, <1>8, Amounts
<1>10. RowsOK'
  BY <1>1, <1>2, Apart, AbortRange DEF MoneyOK, RowsOK, AbortNames
<1>11. PotOK'
  BY <1>1, <1>2, <1>4, Apart, Amounts DEF PotOK
<1> QED
  BY <1>6, <1>9, <1>10, <1>11, StillConserved DEF MoneyOK

\* The fan is paid what the book's row says.
LEMMA PayFanMoney ==
  ASSUME WorkOK, MoneyOK, NEW w \in Procs, payFan(w)
  PROVE  MoneyOK'
<1>1. book \in Results /\ UNCHANGED <<journal, ledger, book>>
  BY StepFinds DEF payFan, Calls, Due, MoneyOK, RowsOK
<1>2. FanShare[book] \in Nat
  BY <1>1, Amounts
<1>3. CASE UNCHANGED <<fan, pot>>
  BY <1>1, <1>3, MoneyKept DEF bets
<1>4. CASE ~ UNCHANGED <<fan, pot>>
  <2>1. fan' = fan \cup {"payout"} /\ pot' = IF "payout" \in fan THEN pot ELSE pot - FanShare[book]
    BY <1>4 DEF payFan, AppliesOnce
  <2>2. "payout" \notin fan
    BY <1>4, <2>1
  <2>3. "refund" \notin fan /\ pot \in Nat /\ pot >= FanShare[book] /\ fan \subseteq {"payout", "refund"}
    BY <1>1, <2>2 DEF MoneyOK, PotOK
  <2>4. pot' = pot - FanShare[book] /\ pot' \in Nat
    BY <1>2, <2>1, <2>2, <2>3
  <2>5. FanGot = 0 /\ FanGot' = FanShare[book] /\ Tied' = Tied /\ Tied \in Nat
    BY <1>1, <1>2, <2>1, <2>2, <2>3, MoneyTypes DEF FanGot, Tied, ledger
  <2>6. SumFunction(bal') + Tied' + pot' + FanGot' = SumFunction(bal) + Tied + pot + FanGot
    <3>1. bal' = bal /\ SumFunction(bal) \in Nat
      BY <1>1, MoneyTypes DEF ledger
    <3> QED
      BY <1>2, <2>3, <2>4, <2>5, <3>1
  <2>7. RowsOK' /\ (bal \in [Wallets -> Nat])'
    BY <1>1 DEF MoneyOK, RowsOK, ledger
  <2>8. PotOK'
    BY <1>1, <2>1, <2>3, <2>4, Apart DEF PotOK
  <2> QED
    BY <2>6, <2>7, <2>8, StillConserved DEF MoneyOK
<1> QED
  BY <1>3, <1>4

\* The fan gets the ticket back.
LEMMA RefundFanMoney ==
  ASSUME WorkOK, MoneyOK, NEW w \in Procs, refundFan(w)
  PROVE  MoneyOK'
<1>1. book = "void" /\ UNCHANGED <<journal, ledger, book>>
  BY StepFinds DEF refundFan, Calls, Due, MoneyOK, RowsOK
<1>2. fan' = fan \cup {"refund"} /\ pot' = IF "refund" \in fan THEN pot ELSE pot - Bet
  BY DEF refundFan, AppliesOnce
<1>3. CASE "refund" \in fan
  <2>1. UNCHANGED <<fan, pot>>
    BY <1>2, <1>3
  <2> QED
    BY <1>1, <2>1, MoneyKept DEF bets
<1>4. CASE "refund" \notin fan
  <2>1. "payout" \notin fan /\ pot \in Nat /\ pot >= Bet /\ fan \subseteq {"payout", "refund"}
    BY <1>1, <1>4, Apart DEF MoneyOK, PotOK
  <2>2. pot' = pot - Bet /\ pot' \in Nat
    BY <1>2, <1>4, <2>1, Amounts
  <2>3. FanGot = 0 /\ FanGot' = Bet /\ Tied' = Tied /\ Tied \in Nat
    BY <1>1, <1>2, <1>4, <2>1, MoneyTypes, Amounts DEF FanGot, Tied, ledger
  <2>4. SumFunction(bal') + Tied' + pot' + FanGot' = SumFunction(bal) + Tied + pot + FanGot
    <3>1. bal' = bal /\ SumFunction(bal) \in Nat
      BY <1>1, MoneyTypes DEF ledger
    <3> QED
      BY <2>1, <2>2, <2>3, <3>1, Amounts
  <2>5. RowsOK' /\ (bal \in [Wallets -> Nat])'
    BY <1>1 DEF MoneyOK, RowsOK, ledger
  <2>6. PotOK'
    BY <1>1, <1>2, <2>1, <2>2, Apart DEF PotOK
  <2> QED
    BY <2>4, <2>5, <2>6, StillConserved DEF MoneyOK
<1> QED
  BY <1>3, <1>4

\* A share of the winner's payout goes to the creator or to the LPs.
LEMMA ShareMoney ==
  ASSUME WorkOK, MoneyOK, NEW w \in Procs, creatorFee(w) \/ lpProfit(w)
  PROVE  MoneyOK'
<1>1. PICK s \in {"creator_fee", "lp_profit"} :
        At(w, "steps") /\ Step(w) = s /\ journal' = journal \cup {s}
  BY DEF creatorFee, lpProfit, Commits, Due
<1>2. PICK a \in Winners : a = work[w].res
  BY <1>1, StepFinds
<1>3. s \in StepNames \ Telling /\ a \in Wallets /\ {"creator", "lp"} \subseteq Wallets \ {a}
  BY DEF StepNames, SettleNames, Telling, Wallets, Winners
<1>4. \/ UNCHANGED <<ledger, bets>>
      \/ \E b \in {"creator", "lp"}, x \in Nat :
           /\ x <= bal[a] /\ bal' = [bal EXCEPT ![a] = @ - x, ![b] = @ + x]
           /\ UNCHANGED <<escrow, bets>>
  <2>1. CASE creatorFee(w)
    BY <1>2, <2>1, Amounts DEF creatorFee, ledger, MoneyOK
  <2>2. CASE lpProfit(w)
    BY <1>2, <2>2, Amounts DEF lpProfit, ledger, MoneyOK
  <2> QED
    BY <2>1, <2>2
<1>5. CASE UNCHANGED <<ledger, bets>>
  BY <1>1, <1>3, <1>5, MoneyKept
<1>6. ASSUME NEW b \in {"creator", "lp"}, NEW x \in Nat,
             x <= bal[a], bal' = [bal EXCEPT ![a] = @ - x, ![b] = @ + x], UNCHANGED <<escrow, bets>>
      PROVE  MoneyOK'
  <2>1. b \in Wallets /\ a # b
    BY <1>3
  <2> QED
    BY <1>1, <1>3, <1>6, <2>1, PairMoney
<1> QED
  BY <1>4, <1>5, <1>6

\* A row is written after a call: it says nothing of the money.
LEMMA RowMoney ==
  ASSUME WorkOK, MoneyOK, NEW w \in Procs, writeRow(w)
  PROVE  MoneyOK'
<1>1. At(w, "steps") /\ work[w].ran /\ journal' = journal \cup {Step(w)} /\ UNCHANGED <<ledger, bets>>
  BY DEF writeRow, Rest
<1>2. PICK p \in Programs : \E i \in 1 .. Len(p) : Left(work[w], p, i) /\ Step(w) = p[i]
  BY <1>1, StepAt
<1>3. Step(w) \in External
  BY <1>1, <1>2 DEF Left
<1>4. Step(w) \in StepNames \ Telling
  BY <1>3 DEF External, StepNames, SettleNames, AbortNames, Telling
<1> QED
  BY <1>1, <1>4, MoneyKept

\* An agent plays at another table.
LEMMA ElsewhereMoney ==
  ASSUME MoneyOK, NEW a \in Roaming, otherTable(a)
  PROVE  MoneyOK'
<1>1. a \in Wallets /\ "elsewhere" \in Wallets /\ a # "elsewhere"
  BY Amounts DEF Wallets, Winners
<1>2. bal \in [Wallets -> Nat]
  BY DEF MoneyOK
<1>3. PICK x \in Nat : x = bal[a]
  BY <1>1, <1>2
<1>4. bal' = [bal EXCEPT ![a] = @ - x, !["elsewhere"] = @ + x]
  <2>1. bal["elsewhere"] = 0 /\ bal' = [bal EXCEPT ![a] = 0, !["elsewhere"] = x]
    BY <1>3 DEF otherTable
  <2>2. bal[a] - x = 0 /\ bal["elsewhere"] + x = x
    BY <1>3, <2>1
  <2> QED
    BY <1>1, <1>2, <2>1, <2>2
<1>5. UNCHANGED <<journal, escrow, bets>> /\ x <= bal[a]
  BY <1>3 DEF otherTable
<1> QED
  BY <1>1, <1>3, <1>4, <1>5, PairMoney

\* Every step of a settlement or a refund keeps the money right.
LEMMA StepMoney ==
  ASSUME WorkOK, MoneyOK, NEW w \in Procs, Settle(w) \/ Refund(w)
  PROVE  MoneyOK'
<1>1. CASE settleEscrow(w)
  <2>1. At(w, "steps") /\ Step(w) = "escrow" /\ journal' = journal \cup {"escrow"} /\ UNCHANGED bets
    BY <1>1 DEF settleEscrow, Commits, Due
  <2>2. PICK r \in Outcomes : r = work[w].res
    BY <2>1, StepFinds DEF SettleNames, Outcomes
  <2>3. Settles(r)
    BY <1>1, <2>2 DEF settleEscrow
  <2> QED
    BY <2>1, <2>3, EscrowMoney
<1>2. CASE refundEscrow(w)
  <2>1. journal' = journal \cup {"abort:escrow"} /\ UNCHANGED bets
    BY <1>2 DEF refundEscrow, Commits
  <2>2. CASE UNCHANGED ledger
    <3>1. "abort:escrow" \in StepNames \ Telling
      BY DEF StepNames, AbortNames, Telling
    <3> QED
      BY <2>1, <2>2, <3>1, MoneyKept
  <2>3. CASE Settles("draw")
    BY <2>1, <2>3, EscrowMoney DEF Outcomes
  <2> QED
    BY <1>2, <2>2, <2>3 DEF refundEscrow
<1>3. CASE creatorFee(w) \/ lpProfit(w)
  BY <1>3, ShareMoney
<1>4. CASE settleBook(w)
  BY <1>4, SettleBookMoney
<1>5. CASE voidBook(w)
  BY <1>5, VoidBookMoney
<1>6. CASE payFan(w)
  BY <1>6, PayFanMoney
<1>7. CASE refundFan(w)
  BY <1>7, RefundFanMoney
<1>8. CASE finalize(w) \/ finalizeAbort(w)
  <2>1. PICK s \in {"finalize", "abort:finalize"} : journal' = journal \cup {s}
    BY <1>8 DEF finalize, finalizeAbort, Commits
  <2>2. UNCHANGED <<ledger, bets>>
    BY <1>8 DEF finalize, finalizeAbort
  <2>3. s \in StepNames \ Telling
    BY DEF StepNames, SettleNames, AbortNames, Telling
  <2> QED
    BY <2>1, <2>2, <2>3, MoneyKept
<1>9. CASE resolveChain(w) \/ updateStats(w) \/ creditRegistry(w) \/ cancelChain(w)
  <2>1. UNCHANGED <<journal, ledger, bets>>
    BY <1>9 DEF resolveChain, updateStats, creditRegistry, cancelChain, Calls
  <2> QED
    BY <2>1, MoneyKept
<1> QED
  BY <1>1, <1>2, <1>3, <1>4, <1>5, <1>6, <1>7, <1>8, <1>9 DEF Settle, Refund

\* The money stays right.
LEMMA NextMoney ==
  ASSUME WorkOK, MoneyOK, Next
  PROVE  MoneyOK'
<1>1. ASSUME UNCHANGED <<journal, ledger, bets>> PROVE MoneyOK'
  BY <1>1, MoneyKept
<1>2. ASSUME NEW w \in Procs, Lock(w) PROVE MoneyOK'
  <2>1. CASE lock_escrow_and_seeds(w)
    BY <2>1, LockMoney
  <2>2. CASE ~ lock_escrow_and_seeds(w)
    BY <1>1, <1>2, <2>2 DEF Lock, lock, mark, send, lockFailed, receipt
  <2> QED
    BY <2>1, <2>2
<1>3. ASSUME NEW w \in Procs, Drive(w) PROVE MoneyOK'
  <2>1. CASE run_match(w) \/ play(w) \/ claimSettlement(w) \/ claimAbort(w) \/ skipStep(w)
               \/ stepFails(w) \/ driverFailed(w) \/ release(w)
    BY <1>1, <2>1 DEF run_match, play, claimSettlement, claimAbort, skipStep, stepFails, driverFailed,
       release, Rest
  <2> QED
    BY <1>2, <1>3, <2>1, RowMoney, StepMoney DEF Drive
<1>4. ASSUME NEW w \in Procs,
             startTable(w) \/ settle_result(w) \/ Recover(w) \/ renew_held(w) \/ crash(w)
      PROVE  MoneyOK'
  BY <1>1, <1>4 DEF startTable, settle_result, Recover, plan_table, seat, refund, renew_held, crash
<1>5. CASE lapse \/ release_stale_pair \/ mine \/ refundExpired
  BY <1>1, <1>5 DEF lapse, release_stale_pair, mine, refundExpired
<1>6. CASE \E a \in Roaming : otherTable(a)
  BY <1>6, ElsewhereMoney
<1> QED
  BY <1>3, <1>4, <1>5, <1>6 DEF Next

-----------------------------------------------------------------------------
(* The invariant holds                                                      *)

\* The money is right at the start.
LEMMA InitMoney == Init => MoneyOK
<1> SUFFICES ASSUME Init PROVE MoneyOK
  OBVIOUS
<1> DEFINE zero == [a \in Wallets |-> 0]
<1>1. bal = [a \in Wallets |-> IF a \in Winners THEN Funds ELSE 0]
  BY DEF Init
<1>2. bal \in [Wallets -> Nat] /\ zero \in [Wallets -> Nat] /\ "white" \in Wallets /\ "black" \in Wallets
  BY <1>1, Amounts DEF Wallets, Winners
<1>3. /\ bal["white"] = Funds /\ bal["black"] = Funds /\ zero["white"] = 0 /\ zero["black"] = 0
      /\ \A y \in Wallets : y \notin {"white", "black"} => bal[y] = zero[y]
  BY <1>1, <1>2 DEF Winners
<1>4. SumFunction(zero) = 0
  <2>1. DOMAIN zero = Wallets /\ \A y \in Wallets : zero[y] = 0
    OBVIOUS
  <2> HIDE DEF zero
  <2> QED
    BY <2>1, WalletsFinite, SumZero DEF SumFunction
<1>5. /\ SumFunction(zero) \in Nat /\ SumFunction(bal) \in Nat
      /\ SumFunction(bal) = SumFunction(zero) - zero["white"] - zero["black"] + bal["white"] + bal["black"]
  <2> HIDE DEF zero
  <2> QED
    BY <1>2, <1>3, TwoMove
<1>6. SumFunction(bal) = 2 * Funds
  BY <1>3, <1>4, <1>5, Amounts
<1>7. MoneyConserved
  BY <1>6, Amounts DEF Init, MoneyConserved, FanGot
<1>8. RowsOK
  BY Apart DEF Init, RowsOK
<1>9. PotOK
  BY Apart, Amounts DEF Init, PotOK
<1> QED
  BY <1>2, <1>7, <1>8, <1>9 DEF MoneyOK

\* The invariant holds at the start.
LEMMA InitInvariant == Init => IInv
<1> SUFFICES ASSUME Init PROVE IInv
  OBVIOUS
<1>1. WorkOK
  <2>1. PICK q \in Jobs : q = Idle /\ q.at = "idle"
    BY IdleJob
  <2>2. JobOK(q)
    BY <2>1 DEF JobOK
  <2> QED
    BY <2>1, <2>2 DEF Init, WorkOK
<1>2. RecordOK /\ LeaseOK
  <2>1. 0 \in 0 .. MaxTries + 1
    BY AmountsAssumption
  <2> QED
    BY <2>1, ResultsAssumption DEF Init, RecordOK, LeaseOK, Statuses, Winners
<1>3. ElseOK
  <2>1. 0 \in 0 .. 2
    OBVIOUS
  <2> QED
    BY <2>1 DEF Init, ElseOK
<1> QED
  BY <1>1, <1>2, <1>3, InitMoney DEF IInv

\* Every step keeps the invariant.
LEMMA NextInvariant == IInv /\ [Next]_vars => IInv'
<1> SUFFICES ASSUME IInv, [Next]_vars PROVE IInv'
  OBVIOUS
<1> USE DEF IInv
<1>1. CASE Next
  BY <1>1, NextWork, NextRecord, NextLease, NextElse, NextMoney
<1>2. CASE UNCHANGED vars
  <2>1. UNCHANGED <<record, lease, journal, skipped, ledger, bets, registry, onchain, work>>
    BY <1>2 DEF vars
  <2>2. WorkOK' /\ RecordOK' /\ MoneyOK'
    BY <2>1, WorkKept, RecordKept, MoneyKept
  <2>3. LeaseOK' /\ ElseOK'
    BY <2>1 DEF lease, registry, onchain, LeaseOK, ElseOK
  <2> QED
    BY <2>2, <2>3
<1> QED
  BY <1>1, <1>2

\* IInv holds in every reachable state, however leases lapse.
THEOREM Invariant == Spec => []IInv
BY InitInvariant, NextInvariant, PTL DEF Spec

\* Type correctness: in every reachable state every variable has its type; a
\* process's steps are always a rest of one of the three programs.
THEOREM TypeCorrect == Spec => []TypeOK
<1>1. IInv => TypeOK
  <2> SUFFICES ASSUME IInv PROVE TypeOK
    OBVIOUS
  <2>1. /\ status \in Statuses /\ {pending, result} \subseteq Results \cup {None}
        /\ tries \in 0 .. MaxTries + 1 /\ aborts \in 0 .. MaxTries + 1 /\ pendingTx \in BOOLEAN
    BY DEF IInv, RecordOK
  <2>2. leaseOwner \in Procs \cup {None} /\ fresh \in BOOLEAN
    BY DEF IInv, LeaseOK
  <2>3. /\ journal \subseteq Range(WinSteps) \cup Range(AbortSteps) \cup {"lock:seeds"}
        /\ escrow \in {"open", "locked"} \cup Outcomes
        /\ bal \in [Wallets -> Nat]
        /\ book \in {"open", "void"} \cup Results /\ pot \in Nat /\ fan \subseteq {"payout", "refund"}
    BY DEF IInv, MoneyOK, RowsOK, PotOK
  <2>4. /\ skipped \in BOOLEAN
        /\ stats \in 0 .. 2 /\ feesCredited \in 0 .. 2
        /\ chain \in {"absent", "OPEN", "LOCKED"} \cup ONCHAIN_FINAL
        /\ mempool \subseteq {"create", "join", "cancel"} \cup Winners
    BY DEF IInv, ElseOK
  <2>5. \A w \in Procs :
          /\ work[w].at \in Places /\ work[w].seen \in Statuses \cup {None}
          /\ work[w].res \in Results \cup {None} /\ work[w].ran \in BOOLEAN
          /\ work[w].todo \in Suffixes(WinSteps) \cup Suffixes(DrawSteps) \cup Suffixes(AbortSteps)
    BY DEF IInv, WorkOK, Jobs, Todos
  <2> QED
    BY <2>1, <2>2, <2>3, <2>4, <2>5 DEF TypeOK
<1> QED
  BY <1>1, Invariant, PTL

\* MoneyConserved: whatever dies, lapses, retries or fails, the wallets, the
\* escrow, the book and the fan hold together what was brought.
THEOREM Conserved == Spec => []MoneyConserved
<1>1. IInv => MoneyConserved
  BY DEF IInv, MoneyOK
<1> QED
  BY <1>1, Invariant, PTL

\* FanPaidOnce: one ticket is paid out or refunded, never both.
THEOREM PaidOnce == Spec => []FanPaidOnce
<1>1. IInv => FanPaidOnce
  <2> SUFFICES ASSUME IInv PROVE FanPaidOnce
    OBVIOUS
  <2>1. /\ fan \subseteq {"payout", "refund"} /\ book \in {"open", "void"} \cup Results
        /\ "payout" \in fan => book \in Results
        /\ "refund" \in fan => book = "void"
    BY DEF IInv, MoneyOK, RowsOK, PotOK
  <2>2. fan = {} \/ fan = {"payout"} \/ fan = {"refund"}
    BY <2>1, Apart
  <2>3. Cardinality({}) = 0 /\ Cardinality({"payout"}) = 1 /\ Cardinality({"refund"}) = 1
    BY FS_EmptySet, FS_Singleton
  <2>4. Cardinality(fan) <= 1
    BY <2>2, <2>3
  <2> QED
    BY <2>1, <2>4 DEF FanPaidOnce
<1> QED
  BY <1>1, Invariant, PTL

-----------------------------------------------------------------------------
(* What a step may not do                                                   *)

\* The steps that change the ledger or the book.
Moving(w) ==
  \/ settleEscrow(w) \/ refundEscrow(w) \/ creatorFee(w) \/ lpProfit(w)
  \/ settleBook(w) \/ voidBook(w)

\* Nothing else changes the escrow, the book, or a balance under a driver.
LEMMA Movers ==
  ASSUME [Next]_vars
  PROVE  \/ UNCHANGED <<ledger, book>>
         \/ UNCHANGED <<escrow, book, work>>
         \/ \E w \in Procs : lock_escrow_and_seeds(w) \/ Moving(w)
<1>1. ASSUME NEW w \in Procs, Lock(w), ~ lock_escrow_and_seeds(w) PROVE UNCHANGED <<ledger, book>>
  BY <1>1 DEF Lock, lock, mark, send, lockFailed, receipt, bets
<1>2. ASSUME NEW w \in Procs, Settle(w) \/ Refund(w), ~ Moving(w) PROVE UNCHANGED <<ledger, book>>
  BY <1>2 DEF Settle, Refund, Moving, resolveChain, updateStats, creditRegistry, payFan, finalize,
     cancelChain, refundFan, finalizeAbort, bets
<1>3. ASSUME NEW w \in Procs,
             run_match(w) \/ play(w) \/ claimSettlement(w) \/ claimAbort(w) \/ skipStep(w)
               \/ writeRow(w) \/ stepFails(w) \/ driverFailed(w) \/ release(w)
      PROVE  UNCHANGED <<ledger, book>>
  BY <1>3 DEF run_match, play, claimSettlement, claimAbort, skipStep, writeRow, stepFails,
     driverFailed, release, Rest, bets
<1>4. ASSUME NEW w \in Procs,
             startTable(w) \/ settle_result(w) \/ Recover(w) \/ renew_held(w) \/ crash(w)
      PROVE  UNCHANGED <<ledger, book>>
  BY <1>4 DEF startTable, settle_result, Recover, plan_table, seat, refund, renew_held, crash, bets
<1>5. CASE lapse \/ release_stale_pair \/ mine \/ refundExpired
  BY <1>5 DEF lapse, release_stale_pair, mine, refundExpired, bets
<1>6. CASE \E a \in Roaming : otherTable(a)
  BY <1>6 DEF otherTable, bets
<1>7. CASE UNCHANGED vars
  BY <1>7 DEF vars, bets
<1> QED
  BY <1>1, <1>2, <1>3, <1>4, <1>5, <1>6, <1>7 DEF Next, Drive

\* OneOutcome: the escrow and the book keep the outcome they reach, whichever
\* processes settle or refund the table afterwards.
THEOREM OutcomesStay == Spec => OneOutcome
<1> DEFINE Kept == /\ escrow \in Outcomes => escrow' = escrow
                   /\ book # "open" => book' = book
<1>1. ASSUME IInv, [Next]_vars PROVE Kept
  <2>1. ASSUME NEW w \in Procs, lock_escrow_and_seeds(w) PROVE Kept
    BY <2>1, Apart DEF lock_escrow_and_seeds
  <2>2. ASSUME NEW w \in Procs, Moving(w) PROVE Kept
    <3>1. CASE settleEscrow(w) \/ refundEscrow(w)
      BY <3>1, Apart DEF settleEscrow, refundEscrow, Settles, ledger, bets
    <3>2. CASE creatorFee(w) \/ lpProfit(w)
      BY <3>2 DEF creatorFee, lpProfit, bets
    <3>3. CASE settleBook(w) \/ voidBook(w)
      BY <3>3 DEF settleBook, voidBook
    <3> QED
      BY <2>2, <3>1, <3>2, <3>3 DEF Moving
  <2> QED
    BY <1>1, <2>1, <2>2, Movers DEF ledger
<1> QED
  BY <1>1, Invariant, PTL DEF Spec, OneOutcome

\* LedgerUnderLease: a settlement or refund step moves ledger money only when
\* no other process holds an unexpired lease.
THEOREM UnderLease == Spec => LedgerUnderLease
<1> DEFINE Leased ==
      \A w \in Procs : At(w, "steps") /\ work'[w] # work[w] /\ ledger' # ledger => Free(w)
<1>1. ASSUME IInv, [Next]_vars PROVE Leased
  <2>1. ASSUME NEW w \in Procs, lock_escrow_and_seeds(w) PROVE Leased
    <3>1. ~ At(w, "steps")
      BY <2>1 DEF lock_escrow_and_seeds, At
    <3>2. \A v \in Procs \ {w} : work'[v] = work[v]
      BY <1>1, <2>1 DEF lock_escrow_and_seeds, Go, Raise, IInv, WorkOK
    <3> QED
      BY <3>1, <3>2
  <2>2. ASSUME NEW w \in Procs, Moving(w) PROVE Leased
    <3>1. \E s \in StepNames : Commits(w, s)
      BY <2>2 DEF Moving, settleEscrow, refundEscrow, creatorFee, lpProfit, settleBook, voidBook,
         StepNames, SettleNames, AbortNames
    <3>2. Free(w)
      BY <3>1 DEF Commits, AssertHeld
    <3>3. \A v \in Procs \ {w} : work'[v] = work[v]
      BY <1>1, <3>1 DEF Commits, Advance, IInv, WorkOK
    <3> QED
      BY <3>2, <3>3
  <2> QED
    BY <1>1, <2>1, <2>2, Movers
<1> QED
  BY <1>1, Invariant, PTL DEF Spec, LedgerUnderLease

-----------------------------------------------------------------------------
(* The invariant when leases lapse only after a death                       *)

\* A process that works the table has its lease.
Held == \A w \in Procs : Working(w) => leaseOwner = w /\ fresh = TRUE

\* What a process chose to drive.
Planned == \A w \in Procs : At(w, "seat") => work[w].seen \in {"settling", "locked", "playing"}

\* Only at its steps has a process made a call whose row is to come.
RanOK == \A w \in Procs : work[w].ran => At(w, "steps")

\* No second stake can reach the contract any more.
Closed == chain \in ONCHAIN_FINAL \/ (chain \in {"absent", "OPEN"} /\ "join" \notin mempool)

Locking == {"lock", "create", "creating", "join", "joining", "seal", "mark"}

\* What a driver finds, as nobody else moves the table: the status its place
\* asks for, and on the chain what its call has left there.
Fits(q) ==
  /\ q.at \in Locking => status \in {"open", "partial_lock"}
  /\ q.at = "run" => status \in {"open", "partial_lock", "locked", "playing", "settling"}
  /\ q.at = "play" => status = "playing"
  /\ q.at = "claim" =>
       status = "playing" \/ (status \in {"settling", "settle_failed"} /\ q.res = pending)
  /\ q.at = "steps" =>
       /\ IF Head(q.todo) \in AbortNames THEN status = "aborting"
                                         ELSE status = "settling" /\ q.res = pending
       /\ q.ran /\ Head(q.todo) = "onchain_resolve" => chain \in ONCHAIN_FINAL
       /\ q.ran /\ Head(q.todo) = "abort:onchain" => Closed
  /\ q.at = "failed" => status \notin {"cancelled", "settled"}

\* The result the table is settled with, and the tables being refunded.
Chosen == IF status = "settled" THEN result ELSE pending
Undone ==
  /\ status \in {"aborting", "cancelled", "settle_failed"}
  /\ pending = None /\ result = None

RecordFits ==
  /\ result # None => status = "settled"
  /\ status = "settled" => result # None /\ pending = None
  /\ pending # None => status \in {"settling", "settle_failed"}

\* Money goes only where the chosen result or the refund sends it.
LedgerFits ==
  /\ escrow \in Outcomes => \/ Chosen # None /\ escrow = Chosen
                            \/ Undone /\ escrow = "draw"
  /\ "abort:escrow" \in journal => Undone /\ escrow \in {"open", "draw"}

\* So do the transactions of the house, those still in the mempool included.
ChainFits ==
  /\ chain = "absent" => "join" \notin mempool
  /\ \A t \in Winners : chain = t \/ t \in mempool => Chosen # None /\ Chosen = t
  /\ chain = "CANCELLED" \/ "cancel" \in mempool =>
       Undone \/ (Chosen # None /\ Chosen = "draw")
  /\ "onchain_resolve" \in journal => chain \in ONCHAIN_FINAL
  /\ "abort:onchain" \in journal => Undone /\ Closed

EndsFit ==
  /\ status = "settled" => escrow = result /\ chain \in ONCHAIN_FINAL
  /\ status = "cancelled" => escrow \in {"open", "draw"} /\ Closed

TableFits == RecordFits /\ LedgerFits /\ ChainFits /\ EndsFit

DriversFit == \A w \in Procs : Working(w) => Fits(work[w])

OneInv == Held /\ Planned /\ RanOK /\ DriversFit /\ TableFits

-----------------------------------------------------------------------------
(* Who has the lease                                                        *)

\* Only the process that takes the step turns to something else.
LEMMA OthersWait ==
  ASSUME WorkOK, NEW w \in Procs,
         startTable(w) \/ settle_result(w) \/ Recover(w) \/ Drive(w) \/ crash(w)
  PROVE  \A v \in Procs \ {w} : work'[v] = work[v]
<1>1. work \in [Procs -> Jobs]
  BY DEF WorkOK
<1>2. \E q : work' = [work EXCEPT ![w] = q]
  <2>1. CASE Lock(w)
    BY <2>1 DEF Lock, lock, lock_escrow_and_seeds, mark, send, receipt, lockFailed, Go, Raise
  <2>2. CASE run_match(w) \/ play(w) \/ claimSettlement(w) \/ claimAbort(w) \/ skipStep(w)
               \/ writeRow(w) \/ stepFails(w) \/ driverFailed(w) \/ release(w)
    BY <1>1, <2>2 DEF run_match, play, claimSettlement, claimAbort, skipStep, writeRow, stepFails,
       driverFailed, release, Go, Raise, Advance
  <2>3. CASE Settle(w) \/ Refund(w)
    <3>1. Advance(w) \/ Called(w) \/ Raise(w)
      BY <2>3 DEF Settle, Refund, resolveChain, sendsHouseTx, settleEscrow, updateStats, creatorFee,
         creditRegistry, lpProfit, settleBook, payFan, finalize, cancelChain, refundEscrow, voidBook,
         refundFan, finalizeAbort, Commits
    <3> QED
      BY <1>1, <3>1 DEF Advance, Called, Raise
  <2>4. CASE startTable(w) \/ settle_result(w) \/ Recover(w) \/ crash(w)
    BY <1>1, <2>4 DEF startTable, settle_result, Recover, plan_table, seat, refund, crash, Go
  <2> QED
    BY <2>1, <2>2, <2>3, <2>4 DEF Drive
<1> QED
  BY <1>1, <1>2

\* Whoever drives has taken the table.
LEMMA DriverWorks ==
  ASSUME NEW w \in Procs, Drive(w)
  PROVE  Working(w)
<1>1. CASE Lock(w)
  BY <1>1 DEF Lock, lock, lock_escrow_and_seeds, mark, send, receipt, lockFailed, Waiting, Working, At
<1>2. CASE run_match(w) \/ play(w) \/ claimSettlement(w) \/ claimAbort(w) \/ skipStep(w)
             \/ writeRow(w) \/ stepFails(w) \/ driverFailed(w) \/ release(w)
  BY <1>2 DEF run_match, play, claimSettlement, claimAbort, skipStep, writeRow, stepFails,
     driverFailed, release, Working, At
<1>3. CASE Settle(w) \/ Refund(w)
  <2>1. At(w, "steps")
    BY <1>3 DEF Settle, Refund, resolveChain, settleEscrow, updateStats, creatorFee,
       creditRegistry, lpProfit, settleBook, payFan, finalize, cancelChain, refundEscrow, voidBook,
       refundFan, finalizeAbort, Commits, Calls, Due
  <2> QED
    BY <2>1 DEF Working, At
<1> QED
  BY <1>1, <1>2, <1>3 DEF Drive

Alone(w) == \A v \in Procs \ {w} : ~ Working(v)

\* A process that has the lease, or could take it, is alone at the table.
LEMMA HolderAlone ==
  ASSUME Held, NEW w \in Procs, Working(w) \/ Free(w)
  PROVE  Alone(w)
BY ProcsAssumption DEF Held, Free, Alone

\* The process that takes the step has the lease afterwards, if it works the
\* table at all, and the others wait.
LEMMA TurnHeld ==
  ASSUME NEW w \in Procs, Alone(w), \A v \in Procs \ {w} : work'[v] = work[v],
         Working(w)' => leaseOwner' = w /\ fresh' = TRUE
  PROVE  Held'
BY DEF Alone, Held, Working, At

\* A driver keeps its lease until it leaves.
LEMMA DriveHeld ==
  ASSUME WorkOK, Held, NEW w \in Procs, Drive(w)
  PROVE  Held'
<1>1. Working(w) /\ Alone(w) /\ leaseOwner = w /\ fresh = TRUE
  BY DriverWorks, HolderAlone DEF Held
<1>2. \A v \in Procs \ {w} : work'[v] = work[v]
  BY OthersWait
<1>3. CASE release(w)
  <2>1. ~ Working(w)'
    BY <1>3 DEF release, WorkOK, Idle, Working, At
  <2> QED
    BY <1>1, <1>2, <2>1, TurnHeld
<1>4. CASE ~ release(w)
  <2>1. Take(w) \/ AssertHeld(w) \/ UNCHANGED lease
    BY <1>4, LeaseSteps
  <2>2. leaseOwner' = w /\ fresh' = TRUE
    BY <1>1, <2>1 DEF Take, AssertHeld, lease
  <2> QED
    BY <1>1, <1>2, <2>2, TurnHeld
<1> QED
  BY <1>3, <1>4

\* Held stays true: with MayStall = {} only the lease of a dead process lapses.
LEMMA NextHeld ==
  ASSUME MayStall = {}, WorkOK, Held, Next
  PROVE  Held'
<1>1. ASSUME NEW w \in Procs, Drive(w) PROVE Held'
  BY <1>1, DriveHeld
<1>2. ASSUME NEW w \in Procs, startTable(w) \/ settle_result(w) \/ seat(w) \/ refund(w) PROVE Held'
  <2>1. \A v \in Procs \ {w} : work'[v] = work[v]
    BY <1>2, OthersWait DEF Recover
  <2>2. CASE Free(w) /\ Take(w)
    BY <2>1, <2>2, HolderAlone, TurnHeld DEF Take
  <2>3. CASE work' = [work EXCEPT ![w] = Idle] /\ UNCHANGED lease
    <3>1. ~ Working(w)'
      BY <2>3 DEF WorkOK, Idle, Working, At
    <3> QED
      BY <2>1, <2>3, <3>1 DEF Held, Working, At, lease
  <2> QED
    BY <1>2, <2>2, <2>3 DEF startTable, settle_result, seat, refund
<1>3. ASSUME NEW w \in Procs, plan_table(w) \/ crash(w) PROVE Held'
  <2>1. \A v \in Procs \ {w} : work'[v] = work[v]
    BY <1>3, OthersWait DEF Recover
  <2>2. work \in [Procs -> Jobs]
    BY DEF WorkOK
  <2>3. ~ Working(w)'
    BY <1>3, <2>2 DEF plan_table, crash, Idle, Working, At, Jobs
  <2>4. UNCHANGED lease
    BY <1>3 DEF plan_table, crash
  <2> QED
    BY <2>1, <2>3, <2>4 DEF Held, Working, At, lease
<1>4. ASSUME NEW w \in Procs, renew_held(w) PROVE Held'
  <2>1. Alone(w) /\ UNCHANGED work /\ Take(w)
    BY <1>4, HolderAlone DEF renew_held
  <2> QED
    BY <2>1, TurnHeld DEF Take
<1>5. CASE lapse
  BY <1>5 DEF lapse, Held, Working, At
<1>6. CASE release_stale_pair \/ mine \/ refundExpired \/ \E a \in Roaming : otherTable(a)
  BY <1>6 DEF release_stale_pair, mine, refundExpired, otherTable, Held, Working, At, lease
<1> QED
  BY <1>1, <1>2, <1>3, <1>4, <1>5, <1>6 DEF Next, Recover

-----------------------------------------------------------------------------
(* What a driver turns to                                                   *)

\* What a process has at its next place.
LEMMA GoFields ==
  ASSUME WorkOK, NEW w \in Procs, NEW pl, Go(w, pl)
  PROVE  work'[w].at = pl /\ work'[w].res = work[w].res
BY DEF WorkOK, Jobs, Go

\* Where an error takes a process.
LEMMA RaiseFields ==
  ASSUME WorkOK, NEW w \in Procs, Raise(w)
  PROVE  work'[w].at = IF Aborting(w) THEN "leave" ELSE "failed"
BY DEF WorkOK, Idle, Raise

\* An error leaves a settled or cancelled table only to a refund's driver.
LEMMA RaiseFits ==
  ASSUME WorkOK, NEW w \in Procs, Raise(w), Aborting(w) \/ status' \notin {"cancelled", "settled"}
  PROVE  Fits(work[w])'
<1>1. work'[w].at = "leave" \/ (work'[w].at = "failed" /\ status' \notin {"cancelled", "settled"})
  BY RaiseFields
<1> QED
  BY <1>1 DEF Fits, Locking

\* A call that did what its step is for leaves the driver fitting.
LEMMA CalledFits ==
  ASSUME WorkOK, NEW w \in Procs, At(w, "steps"), Fits(work[w]), Called(w), UNCHANGED <<status, pending>>,
         Step(w) = "onchain_resolve" => chain' \in ONCHAIN_FINAL,
         Step(w) = "abort:onchain" => Closed'
  PROVE  Fits(work[w])'
<1>1. /\ work'[w].at = "steps" /\ work'[w].res = work[w].res /\ work'[w].todo = work[w].todo
      /\ work[w].at = "steps"
  BY DEF WorkOK, Jobs, Called, At
<1>2. Head(work'[w].todo) = Step(w)
  BY <1>1 DEF Step
<1> QED
  BY <1>1, <1>2 DEF Fits, Locking, Step

\* The family of a step and the next one.
LEMMA AdvanceFields ==
  ASSUME WorkOK, NEW w \in Procs, At(w, "steps"), Advance(w)
  PROVE  \/ work'[w].at = "leave"
         \/ /\ work'[w].at = "steps" /\ work'[w].res = work[w].res /\ work'[w].ran = FALSE
            /\ Head(work'[w].todo) \in AbortNames <=> Step(w) \in AbortNames
<1>1. PICK p \in Programs : \E i \in 1 .. Len(p) :
           /\ Left(work[w], p, i) /\ Step(w) = p[i] /\ work[w].todo # <<>>
           /\ Len(work[w].todo) = 1 <=> i = Len(p)
           /\ i < Len(p) => Tail(work[w].todo) = SubSeq(p, i + 1, Len(p))
  BY StepAt
<1>2. PICK i \in 1 .. Len(p) :
           /\ Left(work[w], p, i) /\ Step(w) = p[i] /\ work[w].todo # <<>>
           /\ Len(work[w].todo) = 1 <=> i = Len(p)
           /\ i < Len(p) => Tail(work[w].todo) = SubSeq(p, i + 1, Len(p))
  BY <1>1
<1>3. work \in [Procs -> Jobs] /\ work[w].at = "steps" /\ work[w] \in Jobs
  BY DEF WorkOK, At
<1>4. CASE i = Len(p)
  BY <1>2, <1>3, <1>4 DEF Advance, Idle
<1>5. CASE i # Len(p)
  <2>1. work'[w] = [work[w] EXCEPT !.todo = Tail(work[w].todo), !.ran = FALSE]
    BY <1>2, <1>3, <1>5 DEF Advance
  <2>2. /\ work'[w].at = "steps" /\ work'[w].res = work[w].res /\ work'[w].ran = FALSE
        /\ work'[w].todo = Tail(work[w].todo)
    BY <1>3, <2>1 DEF Jobs
  <2>3. i \in Nat /\ Len(p) \in Nat /\ p \in Seq(StepNames)
    BY Programmed
  <2>4. i + 1 \in 1 .. Len(p) /\ i < Len(p) /\ Len(p) \in i + 1 .. Len(p)
    BY <1>5, <2>3
  <2>5. Head(SubSeq(p, i + 1, Len(p))) = p[i + 1]
    BY <2>3, <2>4, HeadTailOfSubSeq
  <2>6. Head(work'[w].todo) = p[i + 1]
    BY <1>2, <2>2, <2>4, <2>5
  <2>7. p[i + 1] \in AbortNames <=> p[i] \in AbortNames
    <3>1. CASE p = AbortSteps
      <4>1. AbortPlace(p, i) /\ AbortPlace(p, i + 1)
        BY <2>4, <3>1, Placed
      <4> QED
        BY <4>1 DEF AbortPlace
    <3>2. CASE p # AbortSteps
      <4>1. SettlePlace(p, i) /\ SettlePlace(p, i + 1)
        BY <2>4, <3>2, Placed
      <4> QED
        BY <4>1 DEF SettlePlace
    <3> QED
      BY <3>1, <3>2
  <2> QED
    BY <1>2, <2>2, <2>6, <2>7
<1> QED
  BY <1>4, <1>5

\* So does the way to the next step.
LEMMA AdvanceFits ==
  ASSUME WorkOK, NEW w \in Procs, At(w, "steps"), Fits(work[w]), Advance(w), UNCHANGED <<status, pending>>
  PROVE  Fits(work[w])'
BY AdvanceFields DEF Fits, Locking, At, Step

\* The last step leaves the table.
LEMMA LastLeaves ==
  ASSUME WorkOK, NEW w \in Procs, At(w, "steps"), Advance(w), Step(w) \in {"finalize", "abort:finalize"}
  PROVE  work'[w].at = "leave"
<1>1. PICK p \in Programs : \E i \in 1 .. Len(p) :
           Step(w) = p[i] /\ (Len(work[w].todo) = 1 <=> i = Len(p))
  BY StepAt
<1>2. PICK i \in 1 .. Len(p) : Step(w) = p[i] /\ (Len(work[w].todo) = 1 <=> i = Len(p))
  BY <1>1
<1>3. i = Len(p)
  <2>1. CASE p = AbortSteps
    BY <1>2, <2>1, Placed, Programmed DEF AbortPlace, AbortNames
  <2>2. CASE p # AbortSteps
    BY <1>2, <2>2, Placed DEF SettlePlace, SettleNames, AbortNames
  <2> QED
    BY <2>1, <2>2
<1>4. work \in [Procs -> Jobs]
  BY DEF WorkOK
<1> QED
  BY <1>2, <1>3, <1>4 DEF Advance, Idle

\* Idle, at any place.
LEMMA RestFields ==
  /\ Idle.at = "idle"
  /\ \A pl, r : [Idle EXCEPT !.at = pl].at = pl /\ [Idle EXCEPT !.at = pl, !.res = r].at = pl
BY DEF Idle

\* Idle has made no call.
LEMMA RestRan ==
  /\ ~ Idle.ran
  /\ \A pl, r : ~ [Idle EXCEPT !.at = pl].ran /\ ~ [Idle EXCEPT !.at = pl, !.res = r].ran
BY DEF Idle

\* A process turns from one place to another without the mark of a call.
LEMMA NextRan ==
  ASSUME WorkOK, RanOK, Next
  PROVE  RanOK'
<1>0. work \in [Procs -> Jobs]
  BY DEF WorkOK
<1>1. ASSUME NEW w \in Procs,
             startTable(w) \/ settle_result(w) \/ Recover(w) \/ Drive(w) \/ crash(w),
             work'[w].ran => work'[w].at = "steps"
      PROVE  RanOK'
  BY <1>1, OthersWait DEF RanOK, At
<1>2. ASSUME NEW w \in Procs, \E pl : Go(w, pl) /\ ~ At(w, "steps") PROVE ~ work'[w].ran
  BY <1>0, <1>2 DEF Go, RanOK, Jobs
<1>3. ASSUME NEW w \in Procs, Raise(w) PROVE ~ work'[w].ran
  BY <1>0, <1>3 DEF Raise, Idle
<1>4. ASSUME NEW w \in Procs, Lock(w) PROVE ~ work'[w].ran
  <2>1. ~ At(w, "steps")
    BY <1>4 DEF Lock, lock, lock_escrow_and_seeds, mark, send, receipt, lockFailed, Waiting, At
  <2>2. (\E pl : Go(w, pl)) \/ Raise(w)
    BY <1>4 DEF Lock, lock, lock_escrow_and_seeds, mark, send, receipt, lockFailed
  <2> QED
    BY <1>2, <1>3, <2>1, <2>2
<1>5. ASSUME NEW w \in Procs, run_match(w) \/ play(w) \/ claimSettlement(w) \/ claimAbort(w)
             \/ driverFailed(w) \/ release(w)
      PROVE  work'[w].ran => work'[w].at = "steps"
  <2>1. ~ At(w, "steps")
    BY <1>5 DEF run_match, play, claimSettlement, claimAbort, driverFailed, release, At
  <2>2. ~ work[w].ran
    BY <2>1 DEF RanOK
  <2>3. \/ (\E pl : Go(w, pl)) \/ Raise(w)
        \/ work' = [work EXCEPT ![w] = Idle]
        \/ work' = [work EXCEPT ![w] = [Idle EXCEPT !.at = "claim", !.res = pending]]
        \/ \E r \in Results : work' = [work EXCEPT ![w].at = "claim", ![w].res = r]
        \/ \E t : work' = [work EXCEPT ![w].at = "steps", ![w].todo = t]
    BY <1>5 DEF run_match, play, claimSettlement, claimAbort, driverFailed, release
  <2>4. ASSUME NEW r, \/ work' = [work EXCEPT ![w].at = "claim", ![w].res = r]
                      \/ work' = [work EXCEPT ![w].at = "steps", ![w].todo = r]
        PROVE  ~ work'[w].ran
    BY <1>0, <2>2, <2>4 DEF Jobs
  <2>5. ASSUME \/ work' = [work EXCEPT ![w] = Idle]
               \/ work' = [work EXCEPT ![w] = [Idle EXCEPT !.at = "claim", !.res = pending]]
        PROVE  ~ work'[w].ran
    BY <1>0, <2>5, RestRan
  <2> QED
    BY <1>2, <1>3, <2>1, <2>3, <2>4, <2>5
<1>6. ASSUME NEW w \in Procs, skipStep(w) \/ writeRow(w) \/ stepFails(w) \/ Settle(w) \/ Refund(w)
      PROVE  work'[w].ran => work'[w].at = "steps"
  <2>1. At(w, "steps")
    BY <1>6 DEF skipStep, writeRow, stepFails, Settle, Refund, resolveChain, settleEscrow, updateStats,
       creatorFee, creditRegistry, lpProfit, settleBook, payFan, finalize, cancelChain, refundEscrow,
       voidBook, refundFan, finalizeAbort, Commits, Calls, Due
  <2>2. \/ Advance(w) \/ Called(w) \/ Raise(w)
        \/ work' = [work EXCEPT ![w].todo = <<"finalize">>]
    BY <1>6 DEF skipStep, writeRow, stepFails, Settle, Refund, resolveChain, sendsHouseTx, settleEscrow,
       updateStats, creatorFee, creditRegistry, lpProfit, settleBook, payFan, finalize, cancelChain,
       refundEscrow, voidBook, refundFan, finalizeAbort, Commits
  <2>3. ASSUME Advance(w) PROVE ~ work'[w].ran
    BY <1>0, <2>3 DEF Advance, Idle, Jobs
  <2>4. ASSUME Called(w) \/ work' = [work EXCEPT ![w].todo = <<"finalize">>] PROVE work'[w].at = "steps"
    BY <1>0, <2>1, <2>4 DEF Called, At, Jobs
  <2> QED
    BY <1>3, <2>2, <2>3, <2>4
<1>7. ASSUME NEW w \in Procs, startTable(w) \/ settle_result(w) \/ Recover(w) \/ crash(w)
      PROVE  ~ work'[w].ran
  <2>1. ~ At(w, "steps") \/ crash(w)
    BY <1>7 DEF startTable, settle_result, Recover, plan_table, seat, refund, At
  <2>2. ~ work[w].ran \/ crash(w)
    BY <2>1 DEF RanOK
  <2>3. \/ ~ work[w].ran /\ \E pl, s : \/ Go(w, pl)
                                       \/ work' = [work EXCEPT ![w].at = pl, ![w].seen = s]
        \/ work' = [work EXCEPT ![w] = Idle]
        \/ \E pl, r : \/ work' = [work EXCEPT ![w] = [Idle EXCEPT !.at = pl]]
                      \/ work' = [work EXCEPT ![w] = [Idle EXCEPT !.at = pl, !.res = r]]
    BY <1>7, <2>2 DEF startTable, settle_result, Recover, plan_table, seat, refund, crash
  <2>4. ASSUME NEW pl, NEW s, ~ work[w].ran,
               Go(w, pl) \/ work' = [work EXCEPT ![w].at = pl, ![w].seen = s]
        PROVE  ~ work'[w].ran
    BY <1>0, <2>4 DEF Go, Jobs
  <2>5. ASSUME NEW pl, NEW r,
               \/ work' = [work EXCEPT ![w] = Idle]
               \/ work' = [work EXCEPT ![w] = [Idle EXCEPT !.at = pl]]
               \/ work' = [work EXCEPT ![w] = [Idle EXCEPT !.at = pl, !.res = r]]
        PROVE  ~ work'[w].ran
    BY <1>0, <2>5, RestRan
  <2> QED
    BY <2>3, <2>4, <2>5
<1>8. ASSUME NEW w \in Procs, renew_held(w) PROVE UNCHANGED work
  BY <1>8 DEF renew_held
<1>9. CASE lapse \/ release_stale_pair \/ mine \/ refundExpired \/ \E a \in Roaming : otherTable(a)
  BY <1>9 DEF lapse, release_stale_pair, mine, refundExpired, otherTable, RanOK, At
<1>10. UNCHANGED work => RanOK'
  BY DEF RanOK, At
<1> QED
  BY <1>1, <1>4, <1>5, <1>6, <1>7, <1>8, <1>9, <1>10 DEF Next, Drive

-----------------------------------------------------------------------------
(* What becomes of the table                                                *)

\* Before a settlement or a refund is claimed.
Early == {"open", "partial_lock", "locked", "playing", "lock_failed", "error"}

\* Before a claim no result is chosen and neither rail has paid or refunded.
LEMMA EarlyFacts ==
  ASSUME TableFits, status \in Early
  PROVE  /\ pending = None /\ result = None /\ Chosen = None /\ ~ Undone
         /\ escrow \notin Outcomes /\ chain \notin Winners \cup {"CANCELLED"}
         /\ mempool \cap (Winners \cup {"cancel"}) = {}
         /\ journal \cap {"abort:escrow", "abort:onchain"} = {}
BY DEF TableFits, Early, RecordFits, LedgerFits, ChainFits, Chosen, Undone

\* The rows that say something of the two rails.
Marking == {"onchain_resolve", "abort:onchain", "abort:escrow"}

\* The record and the rails stay, and no row that speaks of them is written.
LEMMA TableKept ==
  ASSUME TableFits, UNCHANGED <<status, pending, result, escrow, chain, mempool>>,
         \A s \in Marking : s \in journal' => s \in journal
  PROVE  TableFits'
BY DEF Marking, TableFits, RecordFits, LedgerFits, ChainFits, EndsFit, Chosen, Undone, Closed

\* The record changes and the rails do not.
LEMMA StatusMoves ==
  ASSUME TableFits, UNCHANGED <<journal, escrow, chain, mempool>>, RecordFits', EndsFit',
         Chosen # None => Chosen' = Chosen, Undone => Undone'
  PROVE  TableFits'
<1>1. LedgerFits'
  BY DEF TableFits, LedgerFits
<1>2. ChainFits'
  BY DEF TableFits, ChainFits, Closed
<1> QED
  BY <1>1, <1>2 DEF TableFits

\* Any change of status before a claim.
LEMMA EarlyMoves ==
  ASSUME TableFits, status \in Early, status' \in Early,
         UNCHANGED <<pending, result, journal, escrow, chain, mempool>>
  PROVE  TableFits'
<1>1. pending = None /\ result = None /\ Chosen = None /\ ~ Undone
  BY EarlyFacts
<1>2. RecordFits' /\ EndsFit'
  BY <1>1 DEF Early, RecordFits, EndsFit
<1> QED
  BY <1>1, <1>2, StatusMoves

-----------------------------------------------------------------------------
(* A driver's step                                                          *)

\* Locking the stakes.
LEMMA LockGoes ==
  ASSUME WorkOK, TableFits, NEW w \in Procs, Fits(work[w]), Lock(w)
  PROVE  TableFits' /\ Fits(work[w])'
<1> USE DEF Fits, Locking, Early
<1>1. status \in {"open", "partial_lock"}
  BY DEF Lock, lock, lock_escrow_and_seeds, mark, send, receipt, lockFailed, Waiting, At
<1>2. CASE lock(w)
  <2>1. status' \in {"locked", "lock_failed", status} /\ UNCHANGED <<pending, result, journal, escrow, chain, mempool>>
    BY <1>2, <1>1 DEF lock, ledger, onchain
  <2>2. \/ Go(w, "run") /\ status' = "locked"
        \/ (Go(w, "seal") \/ Go(w, "create")) /\ status' = status
        \/ Raise(w)
    BY <1>1, <1>2 DEF lock
  <2>3. Fits(work[w])'
    <3>1. ASSUME NEW pl, Go(w, pl), \/ pl = "run" /\ status' = "locked"
                                    \/ pl \in {"seal", "create"} /\ status' = status
          PROVE  Fits(work[w])'
      BY <1>1, <3>1, GoFields
    <3>2. CASE Raise(w)
      BY <1>1, <2>1, <3>2, RaiseFits
    <3> QED
      BY <2>2, <3>1, <3>2
  <2> QED
    BY <1>1, <2>1, <2>3, EarlyMoves
<1>3. CASE lock_escrow_and_seeds(w)
  <2>1. UNCHANGED <<status, pending, result, chain, mempool>> /\ (Go(w, "mark") \/ Raise(w))
    BY <1>3 DEF lock_escrow_and_seeds, record, onchain
  <2>2. Fits(work[w])'
    <3>1. CASE Go(w, "mark")
      BY <1>1, <2>1, <3>1, GoFields
    <3>2. CASE Raise(w)
      BY <1>1, <2>1, <3>2, RaiseFits
    <3> QED
      BY <2>1, <3>1, <3>2
  <2>3. \/ UNCHANGED <<escrow, journal>>
        \/ escrow' = "locked" /\ journal' = journal \cup {"lock:seeds"}
    BY <1>3 DEF lock_escrow_and_seeds
  <2>4. \A s \in Marking : s \in journal' => s \in journal
    BY <2>3 DEF Marking
  <2>5. TableFits'
    <3>1. CASE UNCHANGED <<escrow, journal>>
      BY <2>1, <2>4, <3>1, TableKept
    <3>2. CASE escrow' = "locked"
      <4>1. escrow' \notin Outcomes /\ "abort:escrow" \notin journal'
        BY <1>1, <2>4, <3>2, EarlyFacts, Apart DEF Marking
      <4>2. RecordFits' /\ LedgerFits' /\ EndsFit'
        BY <1>1, <2>1, <4>1 DEF TableFits, RecordFits, LedgerFits, EndsFit
      <4>3. ChainFits'
        BY <2>1, <2>4 DEF TableFits, ChainFits, Chosen, Undone, Closed, Marking
      <4> QED
        BY <4>2, <4>3 DEF TableFits
    <3> QED
      BY <2>3, <3>1, <3>2
  <2> QED
    BY <2>2, <2>5
<1>4. CASE mark(w)
  <2>1. status' \in {"locked", "partial_lock"} /\ UNCHANGED <<pending, result, journal, escrow, chain, mempool>>
    BY <1>1, <1>4 DEF mark, ledger, onchain
  <2>2. Fits(work[w])'
    BY <1>4, <2>1, GoFields DEF mark
  <2> QED
    BY <1>1, <2>1, <2>2, EarlyMoves
<1>5. ASSUME NEW tx \in {"create", "join"}, send(w, tx) PROVE TableFits' /\ Fits(work[w])'
  <2>1. /\ UNCHANGED <<status, pending, result, journal, escrow, chain>> /\ mempool' = mempool \cup {tx}
        /\ tx = "join" => chain = "OPEN"
    BY <1>5 DEF send, record, ledger, Accepts, Winners
  <2>2. PICK pl \in {"creating", "joining"} : Go(w, pl)
    BY <1>5 DEF send, Waiting
  <2>3. Fits(work[w])'
    BY <1>1, <2>1, <2>2, GoFields
  <2>4. RecordFits' /\ LedgerFits' /\ EndsFit'
    BY <1>1, <2>1 DEF TableFits, RecordFits, LedgerFits, EndsFit, Chosen, Undone
  <2>5. ChainFits'
    BY <1>1, <2>1, EarlyFacts DEF TableFits, ChainFits, Chosen, Undone, Winners
  <2> QED
    BY <2>3, <2>4, <2>5 DEF TableFits
<1>6. ASSUME NEW tx \in {"create", "join"}, lockFailed(w, tx) PROVE TableFits' /\ Fits(work[w])'
  <2>1. status' = "lock_failed" /\ UNCHANGED <<pending, result, journal, escrow, chain, mempool>> /\ Raise(w)
    BY <1>6 DEF lockFailed, ledger, onchain
  <2>2. Fits(work[w])'
    BY <2>1, RaiseFits
  <2> QED
    BY <1>1, <2>1, <2>2, EarlyMoves
<1>7. CASE receipt(w, "create", "join") \/ receipt(w, "join", "seal")
  <2>1. PICK pl \in {"join", "seal"} : Go(w, pl)
    BY <1>7 DEF receipt
  <2>2. UNCHANGED <<status, pending, result, journal, escrow, chain, mempool>>
    BY <1>7 DEF receipt, record, ledger, onchain
  <2>3. Fits(work[w])'
    BY <1>1, <2>1, <2>2, GoFields
  <2> QED
    BY <2>2, <2>3, TableKept
<1> QED
  BY <1>2, <1>3, <1>4, <1>5, <1>6, <1>7 DEF Lock

\* Playing, claiming, failing and leaving.
LEMMA ClaimGoes ==
  ASSUME WorkOK, RecordOK, RanOK, TableFits, NEW w \in Procs, Fits(work[w]),
         run_match(w) \/ play(w) \/ claimSettlement(w) \/ claimAbort(w) \/ driverFailed(w) \/ release(w)
  PROVE  TableFits' /\ Fits(work[w])'
<1> USE DEF Early
<1>0. work \in [Procs -> Jobs] /\ work[w] \in Jobs
  BY DEF WorkOK
<1>1. CASE run_match(w)
  <2>1. status \in {"open", "partial_lock", "locked", "playing", "settling"}
        /\ UNCHANGED <<pending, result, journal, escrow, chain, mempool>>
    BY <1>1 DEF run_match, Fits, At, ledger, onchain
  <2>2. CASE status = "settling"
    <3>1. work'[w].at = "claim" /\ work'[w].res = pending /\ status' = status
      BY <1>0, <1>1, <2>2 DEF run_match, Idle
    <3> QED
      BY <2>1, <2>2, <3>1, TableKept DEF Fits, Locking
  <2>3. CASE status # "settling"
    <3>1. \/ status \in {"open", "partial_lock"} /\ status' = status /\ Go(w, "lock")
          \/ status' = "playing" /\ Go(w, "play")
      BY <1>1, <2>1, <2>3 DEF run_match
    <3>2. status \in Early /\ status' \in Early
      BY <2>1, <2>3, <3>1
    <3>3. Fits(work[w])'
      BY <3>1, GoFields DEF Fits, Locking
    <3> QED
      BY <2>1, <3>2, <3>3, EarlyMoves
  <2> QED
    BY <2>2, <2>3
<1>2. CASE play(w)
  <2>1. status = "playing" /\ UNCHANGED <<status, pending, result, journal, escrow, chain, mempool>>
    BY <1>2 DEF play, Fits, At, record, ledger, onchain
  <2>2. (\E r \in Results : work' = [work EXCEPT ![w].at = "claim", ![w].res = r]) \/ Raise(w)
    BY <1>2 DEF play
  <2>3. ASSUME NEW r \in Results, work' = [work EXCEPT ![w].at = "claim", ![w].res = r] PROVE Fits(work[w])'
    <3>1. work'[w].at = "claim"
      BY <1>0, <2>3 DEF Jobs
    <3> QED
      BY <2>1, <3>1 DEF Fits, Locking
  <2> QED
    BY <2>1, <2>2, <2>3, TableKept, RaiseFits
<1>3. CASE claimSettlement(w)
  <2>1. PICK r \in Results : r = work[w].res
    BY <1>3 DEF claimSettlement, At, WorkOK, JobOK
  <2>2. /\ status = "playing" \/ (status \in {"settling", "settle_failed"} /\ r = pending)
        /\ UNCHANGED <<result, journal, escrow, chain, mempool>>
    BY <1>3, <2>1 DEF claimSettlement, Fits, At, ledger, onchain
  <2>3. r # None
    BY <2>1, ResultsAssumption
  <2>4. \/ Raise(w) /\ UNCHANGED <<status, pending>>
        \/ Raise(w) /\ status = "settling" /\ pending = r /\ status' = "settle_failed" /\ pending' = pending
        \/ /\ work' = [work EXCEPT ![w].at = "steps", ![w].todo = SettleSteps(r)]
           /\ status' = "settling" /\ pending' = r
           /\ status \notin {"settled"} /\ pending \in {None, r}
    BY <1>3, <2>1 DEF claimSettlement
  <2>5. CASE Raise(w) /\ UNCHANGED <<status, pending>>
    BY <2>2, <2>5, TableKept, RaiseFits
  <2>6. CASE Raise(w) /\ status = "settling" /\ pending = r /\ status' = "settle_failed" /\ pending' = pending
    <3>1. RecordFits' /\ EndsFit' /\ Chosen' = Chosen /\ ~ Undone
      BY <2>2, <2>3, <2>6 DEF TableFits, RecordFits, EndsFit, Chosen, Undone
    <3> QED
      BY <2>2, <2>6, <3>1, StatusMoves, RaiseFits
  <2>7. CASE /\ work' = [work EXCEPT ![w].at = "steps", ![w].todo = SettleSteps(r)]
             /\ status' = "settling" /\ pending' = r
             /\ status \notin {"settled"} /\ pending \in {None, r}
    <3>1. RecordFits' /\ EndsFit' /\ (Chosen # None => Chosen' = Chosen) /\ ~ Undone
      BY <2>2, <2>3, <2>7 DEF TableFits, RecordFits, EndsFit, Chosen, Undone
    <3>2. TableFits'
      BY <2>2, <3>1, StatusMoves
    <3>3. work'[w].at = "steps" /\ work'[w].todo = SettleSteps(r) /\ work'[w].res = r
      BY <1>0, <2>1, <2>7 DEF Jobs
    <3>4. Head(SettleSteps(r)) = "onchain_resolve"
      BY DEF SettleSteps, WinSteps, DrawSteps
    <3>5. ~ work'[w].ran
      <4>1. ~ work[w].ran
        BY <1>3 DEF claimSettlement, RanOK, At
      <4> QED
        BY <1>0, <2>7, <4>1 DEF Jobs
    <3> QED
      BY <2>7, <3>2, <3>3, <3>4, <3>5 DEF Fits, Locking, AbortNames
  <2> QED
    BY <2>4, <2>5, <2>6, <2>7
<1>4. CASE claimAbort(w)
  <2>1. UNCHANGED <<pending, result, journal, escrow, chain, mempool>>
    BY <1>4 DEF claimAbort, ledger, onchain
  <2>2. \/ Go(w, "leave") /\ UNCHANGED status
        \/ /\ pending = None /\ result = None /\ status = "aborting"
           /\ Go(w, "leave") /\ status' = "settle_failed"
        \/ /\ pending = None /\ result = None /\ status \in ABORTABLE_STATUSES /\ status' = "aborting"
           /\ work' = [work EXCEPT ![w].at = "steps", ![w].todo = AbortSteps]
    BY <1>4 DEF claimAbort
  <2>3. Fits(work[w])'
    <3>1. CASE Go(w, "leave")
      BY <3>1, GoFields DEF Fits, Locking
    <3>2. CASE /\ status' = "aborting"
               /\ work' = [work EXCEPT ![w].at = "steps", ![w].todo = AbortSteps]
      <4>1. work'[w].at = "steps" /\ work'[w].todo = AbortSteps /\ work'[w].ran = work[w].ran
        BY <1>0, <3>2 DEF Jobs
      <4>2. ~ work[w].ran
        BY <1>4 DEF claimAbort, RanOK, At
      <4>3. Head(AbortSteps) \in AbortNames
        BY DEF AbortSteps, AbortNames
      <4> QED
        BY <3>2, <4>1, <4>2, <4>3 DEF Fits, Locking
    <3> QED
      BY <2>2, <3>1, <3>2
  <2>4. TableFits'
    <3>1. CASE UNCHANGED status
      BY <2>1, <3>1, TableKept
    <3>2. CASE /\ pending = None /\ result = None /\ status \in ABORTABLE_STATUSES
               /\ status' \in {"aborting", "settle_failed"}
      <4>1. RecordFits' /\ EndsFit' /\ Chosen = None /\ Undone'
        BY <2>1, <3>2 DEF RecordFits, EndsFit, Chosen, Undone, ABORTABLE_STATUSES
      <4> QED
        BY <2>1, <4>1, StatusMoves
    <3> QED
      BY <2>2, <3>1, <3>2 DEF ABORTABLE_STATUSES
  <2> QED
    BY <2>3, <2>4
<1>5. CASE driverFailed(w)
  <2>1. status \notin {"cancelled", "settled"} /\ UNCHANGED <<pending, result, journal, escrow, chain, mempool>>
    BY <1>5 DEF driverFailed, Fits, At, ledger, onchain
  <2>2. Fits(work[w])'
    BY <1>5, GoFields DEF driverFailed, Fits, Locking
  <2>3. status' = status \/ (status \in Early /\ status' \in Early)
    BY <1>5, <2>1 DEF driverFailed, RecordOK, Statuses
  <2> QED
    BY <2>1, <2>2, <2>3, TableKept, EarlyMoves
<1>6. CASE release(w)
  <2>1. work'[w].at = "idle"
    BY <1>0, <1>6 DEF release, Idle
  <2>2. UNCHANGED <<status, pending, result, journal, escrow, chain, mempool>>
    BY <1>6 DEF release, record, ledger, onchain
  <2> QED
    BY <2>1, <2>2, TableKept DEF Fits, Locking
<1> QED
  BY <1>1, <1>2, <1>3, <1>4, <1>5, <1>6

\* What a step finds on the record.
LEMMA StepState ==
  ASSUME WorkOK, TableFits, NEW w \in Procs, At(w, "steps"), Fits(work[w])
  PROVE  /\ Step(w) \in AbortNames => status = "aborting" /\ Undone /\ Aborting(w)
         /\ Step(w) \in SettleNames =>
              /\ status = "settling" /\ work[w].res \in Results
              /\ pending = work[w].res /\ Chosen = work[w].res /\ Chosen # None /\ ~ Undone
         /\ work[w].ran =>
              /\ Step(w) = "onchain_resolve" => chain \in ONCHAIN_FINAL
              /\ Step(w) = "abort:onchain" => Closed
<1>1. PICK p \in Programs : \E i \in 1 .. Len(p) : Step(w) = p[i] /\ work[w].todo # <<>>
  BY StepAt
<1>2. PICK i \in 1 .. Len(p) : Step(w) = p[i] /\ work[w].todo # <<>>
  BY <1>1
<1>3. Step(w) \in AbortNames <=> Step(w) \notin SettleNames
  BY <1>2, Placed DEF SettlePlace, AbortPlace
<1>4. /\ Step(w) \in AbortNames => status = "aborting"
      /\ Step(w) \notin AbortNames => status = "settling" /\ work[w].res = pending
      /\ work[w].ran =>
           /\ Step(w) = "onchain_resolve" => chain \in ONCHAIN_FINAL
           /\ Step(w) = "abort:onchain" => Closed
  BY DEF Fits, At, Step
<1>5. Step(w) \in AbortNames => Undone /\ Aborting(w)
  BY <1>2, <1>4, AbortRange DEF TableFits, RecordFits, Undone, Aborting
<1>6. Step(w) \in SettleNames => Chosen = work[w].res /\ Chosen # None /\ ~ Undone /\ work[w].res \in Results
  BY <1>3, <1>4, StepFinds, ResultsAssumption DEF Chosen, Undone
<1> QED
  BY <1>3, <1>4, <1>5, <1>6

\* A transaction of the house for the chosen result, or for the refund.
LEMMA SendTable ==
  ASSUME TableFits, NEW w \in Procs, NEW t \in Winners \cup {"cancel"}, sendsHouseTx(w, t),
         UNCHANGED <<status, pending, result, escrow, journal>>,
         t \in Winners => Chosen # None /\ Chosen = t,
         t = "cancel" => Undone \/ (Chosen # None /\ Chosen = "draw")
  PROVE  TableFits' /\ (Raise(w) \/ (Called(w) /\ chain' \in ONCHAIN_FINAL))
<1> USE DEF ONCHAIN_FINAL, Winners
<1>1. /\ \/ UNCHANGED <<chain, mempool>>
         \/ chain' \in ONCHAIN_FINAL /\ chain' = After(t) /\ mempool' = mempool /\ chain \notin ONCHAIN_FINAL
         \/ chain' = chain /\ mempool' = mempool \cup {t} /\ chain \notin ONCHAIN_FINAL
      /\ Raise(w) \/ (Called(w) /\ chain' \in ONCHAIN_FINAL)
  BY DEF sendsHouseTx, Accepts, After, onchain
<1>2. CASE UNCHANGED <<chain, mempool>>
  BY <1>1, <1>2, TableKept
<1>3. CASE chain' \in ONCHAIN_FINAL /\ chain' = After(t) /\ mempool' = mempool /\ chain \notin ONCHAIN_FINAL
  <2>1. RecordFits' /\ LedgerFits' /\ EndsFit'
    BY <1>3 DEF TableFits, RecordFits, LedgerFits, EndsFit, Chosen, Undone, Closed
  <2>2. ChainFits'
    BY <1>3 DEF TableFits, ChainFits, Chosen, Undone, Closed, After
  <2> QED
    BY <1>1, <2>1, <2>2 DEF TableFits
<1>4. CASE chain' = chain /\ mempool' = mempool \cup {t} /\ chain \notin ONCHAIN_FINAL
  <2>1. RecordFits' /\ LedgerFits' /\ EndsFit'
    BY <1>4 DEF TableFits, RecordFits, LedgerFits, EndsFit, Chosen, Undone, Closed
  <2>2. ChainFits'
    BY <1>4 DEF TableFits, ChainFits, Chosen, Undone, Closed
  <2> QED
    BY <1>1, <2>1, <2>2 DEF TableFits
<1> QED
  BY <1>1, <1>2, <1>3, <1>4

\* A step that is skipped, recorded or fails.
LEMMA StepsGo ==
  ASSUME WorkOK, TableFits, NEW w \in Procs, Fits(work[w]), skipStep(w) \/ writeRow(w) \/ stepFails(w)
  PROVE  TableFits' /\ Fits(work[w])'
<1>0. At(w, "steps")
  BY DEF skipStep, writeRow, stepFails
<1>1. CASE skipStep(w)
  <2>1. Advance(w) /\ UNCHANGED <<status, pending, result, escrow, chain, mempool, journal>>
    BY <1>1 DEF skipStep, Rest, record, ledger, onchain
  <2> QED
    BY <1>0, <2>1, AdvanceFits, TableKept
<1>2. CASE writeRow(w)
  <2>1. /\ Advance(w) /\ UNCHANGED <<status, pending, result, escrow, chain, mempool>>
        /\ journal' = journal \cup {Step(w)} /\ work[w].ran
    BY <1>2 DEF writeRow, Rest, record, ledger, onchain
  <2>2. Step(w) # "abort:escrow"
    <3>1. PICK p \in Programs : \E i \in 1 .. Len(p) : Left(work[w], p, i) /\ Step(w) = p[i]
      BY <1>0, StepAt
    <3> QED
      BY <2>1, <3>1 DEF Left, External
  <2>3. /\ Step(w) = "onchain_resolve" => chain \in ONCHAIN_FINAL
        /\ Step(w) = "abort:onchain" => Undone /\ Closed
    BY <1>0, <2>1, StepState DEF AbortNames
  <2>4. RecordFits' /\ LedgerFits' /\ EndsFit'
    BY <2>1, <2>2 DEF TableFits, RecordFits, LedgerFits, EndsFit, Chosen, Undone, Closed
  <2>5. ChainFits'
    BY <2>1, <2>3 DEF TableFits, ChainFits, Chosen, Undone, Closed
  <2> QED
    BY <1>0, <2>1, <2>4, <2>5, AdvanceFits DEF TableFits
<1>3. CASE stepFails(w)
  <2>1. /\ UNCHANGED <<pending, result, escrow, chain, mempool, journal>>
        /\ status' = IF Step(w) = "onchain_resolve" THEN "settle_failed" ELSE status
    BY <1>3 DEF stepFails, ledger, onchain
  <2>2. \/ Step(w) = "spectator_settle" /\ work' = [work EXCEPT ![w].todo = <<"finalize">>]
        \/ Step(w) = "play_adjust" /\ Advance(w)
        \/ Raise(w)
    BY <1>3 DEF stepFails
  <2>3. Step(w) \in AbortNames \/ status = "settling"
    BY <1>0 DEF Fits, At, Step
  <2>4. Fits(work[w])'
    <3>1. CASE Step(w) = "spectator_settle" /\ work' = [work EXCEPT ![w].todo = <<"finalize">>]
      <4>1. work \in [Procs -> Jobs] /\ work[w] \in Jobs /\ work[w].at = "steps"
        BY <1>0 DEF WorkOK, At
      <4>2. work'[w].at = "steps" /\ work'[w].res = work[w].res /\ work'[w].todo = <<"finalize">>
        BY <3>1, <4>1 DEF Jobs
      <4>3. status' = "settling" /\ pending' = pending /\ pending = work[w].res
        BY <1>0, <2>1, <3>1, StepState DEF SettleNames
      <4>4. Head(<<"finalize">>) = "finalize"
        OBVIOUS
      <4> QED
        BY <4>2, <4>3, <4>4 DEF Fits, Locking, AbortNames
    <3>2. CASE Step(w) = "play_adjust" /\ Advance(w)
      BY <1>0, <2>1, <3>2, AdvanceFits
    <3>3. CASE Raise(w)
      BY <1>0, <2>1, <2>3, <3>3, RaiseFits, StepState
    <3> QED
      BY <2>2, <3>1, <3>2, <3>3
  <2>5. TableFits'
    <3>1. CASE Step(w) # "onchain_resolve"
      BY <2>1, <3>1, TableKept
    <3>2. CASE Step(w) = "onchain_resolve"
      <4>1. status = "settling" /\ status' = "settle_failed" /\ ~ Undone
        BY <1>0, <2>1, <3>2, StepState DEF SettleNames
      <4>2. RecordFits' /\ EndsFit' /\ Chosen' = Chosen
        BY <2>1, <4>1 DEF TableFits, RecordFits, EndsFit, Chosen
      <4> QED
        BY <2>1, <4>1, <4>2, StatusMoves
    <3> QED
      BY <3>1, <3>2
  <2> QED
    BY <2>4, <2>5
<1> QED
  BY <1>1, <1>2, <1>3

\* The steps that touch neither the record nor the rails.
LEMMA AsideGoes ==
  ASSUME WorkOK, TableFits, NEW w \in Procs, Fits(work[w]),
         updateStats(w) \/ creatorFee(w) \/ creditRegistry(w) \/ lpProfit(w) \/ settleBook(w)
           \/ payFan(w) \/ voidBook(w) \/ refundFan(w)
  PROVE  TableFits' /\ Fits(work[w])'
<1>1. /\ At(w, "steps") /\ Step(w) \notin Marking
      /\ journal' \subseteq journal \cup {Step(w)}
      /\ Advance(w) \/ Called(w)
      /\ UNCHANGED <<status, pending, result, escrow, chain, mempool>>
  BY DEF updateStats, creatorFee, creditRegistry, lpProfit, settleBook, payFan, voidBook, refundFan,
     Commits, Calls, Due, Marking, record, ledger, onchain
<1>2. TableFits'
  BY <1>1, TableKept
<1>3. Fits(work[w])'
  BY <1>1, AdvanceFits, CalledFits DEF Marking
<1> QED
  BY <1>2, <1>3

\* The steps on the chain.
LEMMA RailGoes ==
  ASSUME WorkOK, TableFits, NEW w \in Procs, Fits(work[w]), resolveChain(w) \/ cancelChain(w)
  PROVE  TableFits' /\ Fits(work[w])'
<1>1. At(w, "steps") /\ UNCHANGED <<status, pending, result, escrow, journal>>
  BY DEF resolveChain, cancelChain, Calls, Due, record, ledger
<1>2. ASSUME TableFits' /\ (Raise(w) \/ (Called(w) /\ chain' \in ONCHAIN_FINAL)) PROVE Fits(work[w])'
  <2>1. CASE Raise(w)
    <3>1. Step(w) \in AbortNames \/ status = "settling"
      BY <1>1 DEF Fits, At, Step
    <3> QED
      BY <1>1, <2>1, <3>1, RaiseFits, StepState
  <2>2. CASE Called(w) /\ chain' \in ONCHAIN_FINAL
    BY <1>1, <2>2, CalledFits DEF Closed
  <2> QED
    BY <1>2, <2>1, <2>2
<1>3. CASE resolveChain(w)
  <2>1. Step(w) = "onchain_resolve"
    BY <1>3 DEF resolveChain, Calls, Due
  <2>2. Chosen = work[w].res /\ Chosen # None /\ work[w].res \in Results
    BY <1>1, <2>1, StepState DEF SettleNames
  <2>3. PICK t : t = (IF work[w].res = "draw" THEN "cancel" ELSE work[w].res) /\ sendsHouseTx(w, t)
    BY <1>3 DEF resolveChain
  <2>4. /\ t \in Winners \cup {"cancel"}
        /\ t \in Winners => Chosen = t
        /\ t = "cancel" => Chosen = "draw"
    BY <2>2, <2>3, ResultsAssumption DEF Winners
  <2> QED
    BY <1>1, <1>2, <2>2, <2>3, <2>4, SendTable
<1>4. CASE cancelChain(w)
  <2>1. Step(w) = "abort:onchain"
    BY <1>4 DEF cancelChain, Calls, Due
  <2>2. Undone
    BY <1>1, <2>1, StepState DEF AbortNames
  <2>3. CASE chain = "absent" /\ Called(w) /\ UNCHANGED onchain
    <3>1. UNCHANGED <<chain, mempool>> /\ Closed'
      BY <2>3 DEF onchain, TableFits, ChainFits, Closed
    <3> QED
      BY <1>1, <2>1, <2>3, <3>1, TableKept, CalledFits
  <2>4. CASE sendsHouseTx(w, "cancel")
    <3>1. "cancel" \in Winners \cup {"cancel"} /\ "cancel" \notin Winners
      BY DEF Winners
    <3> QED
      BY <1>1, <1>2, <2>2, <2>4, <3>1, SendTable
  <2> QED
    BY <1>4, <2>3, <2>4 DEF cancelChain
<1> QED
  BY <1>3, <1>4

\* The steps on the ledger's escrow.
LEMMA EscrowGoes ==
  ASSUME WorkOK, MoneyOK, TableFits, NEW w \in Procs, Fits(work[w]), settleEscrow(w) \/ refundEscrow(w)
  PROVE  TableFits' /\ Fits(work[w])'
<1>1. At(w, "steps") /\ Advance(w) /\ UNCHANGED <<status, pending, result, chain, mempool>>
  BY DEF settleEscrow, refundEscrow, Commits, Due, record, onchain
<1>2. Fits(work[w])'
  BY <1>1, AdvanceFits
<1>3. CASE settleEscrow(w)
  <2>1. Step(w) = "escrow" /\ journal' = journal \cup {"escrow"}
    BY <1>3 DEF settleEscrow, Commits, Due
  <2>2. Chosen = work[w].res /\ Chosen # None /\ ~ Undone /\ work[w].res \in Results
    BY <1>1, <2>1, StepState DEF SettleNames
  <2>3. escrow' = work[w].res \/ escrow' = escrow
    BY <1>3 DEF settleEscrow, Settles, ledger
  <2>4. RecordFits' /\ EndsFit'
    BY <1>1, <2>1, <2>2, StepState DEF TableFits, RecordFits, EndsFit, SettleNames
  <2>5. LedgerFits'
    BY <1>1, <2>1, <2>2, <2>3 DEF TableFits, LedgerFits, Chosen, Undone
  <2>6. ChainFits'
    BY <1>1, <2>1 DEF TableFits, ChainFits, Chosen, Undone, Closed
  <2> QED
    BY <1>2, <2>4, <2>5, <2>6 DEF TableFits
<1>4. CASE refundEscrow(w)
  <2>1. Step(w) = "abort:escrow" /\ journal' = journal \cup {"abort:escrow"}
    BY <1>4 DEF refundEscrow, Commits, Due
  <2>2. Undone /\ status = "aborting"
    BY <1>1, <2>1, StepState DEF AbortNames
  <2>3. escrow \in Outcomes => escrow = "draw"
    BY <2>2 DEF TableFits, LedgerFits, Undone, Chosen
  <2>4. escrow' \in {"open", "draw"}
    BY <1>4, <2>3 DEF refundEscrow, Settles, ledger, MoneyOK, RowsOK
  <2>5. RecordFits' /\ EndsFit'
    BY <1>1, <2>2 DEF TableFits, RecordFits, EndsFit
  <2>6. LedgerFits'
    BY <1>1, <2>2, <2>4, Apart DEF LedgerFits, Undone
  <2>7. ChainFits'
    BY <1>1, <2>1 DEF TableFits, ChainFits, Chosen, Undone, Closed
  <2> QED
    BY <1>2, <2>5, <2>6, <2>7 DEF TableFits
<1> QED
  BY <1>3, <1>4

\* The last step: what the rows say makes the two rails end alike.
LEMMA EndGoes ==
  ASSUME WorkOK, MoneyOK, TableFits, NEW w \in Procs, Fits(work[w]), finalize(w) \/ finalizeAbort(w)
  PROVE  TableFits' /\ Fits(work[w])'
<1>1. At(w, "steps") /\ Advance(w) /\ UNCHANGED <<escrow, chain, mempool>>
  BY DEF finalize, finalizeAbort, Commits, Due, ledger, onchain
<1>2. Step(w) \in {"finalize", "abort:finalize"} /\ journal' = journal \cup {Step(w)}
  BY DEF finalize, finalizeAbort, Commits, Due
<1>3. Fits(work[w])'
  BY <1>1, <1>2, LastLeaves DEF Fits, Locking
<1>4. CASE finalize(w)
  <2>1. Step(w) = "finalize" /\ status' = "settled" /\ result' = work[w].res /\ pending' = None
    BY <1>4 DEF finalize, Commits, Due
  <2>2. Chosen = work[w].res /\ Chosen # None /\ ~ Undone
    BY <1>1, <2>1, StepState DEF SettleNames
  <2>3. escrow = Chosen
    BY <1>1, <2>1, <2>2, StepFinds DEF TableFits, LedgerFits, MoneyOK, RowsOK
  <2>4. "onchain_resolve" \in journal
    <3>1. PICK p \in Programs : \E i \in 1 .. Len(p) : Left(work[w], p, i) /\ Step(w) = p[i]
      BY <1>1, StepAt
    <3>2. PICK i \in 1 .. Len(p) : Left(work[w], p, i) /\ Step(w) = p[i]
      BY <3>1
    <3> QED
      BY <2>1, <3>2, Placed DEF AbortPlace, SettlePlace, AbortNames, Left
  <2>5. RecordFits' /\ EndsFit' /\ Chosen' = Chosen
    BY <1>1, <2>1, <2>2, <2>3, <2>4 DEF TableFits, RecordFits, ChainFits, EndsFit, Chosen
  <2>6. LedgerFits'
    BY <1>1, <1>2, <2>2, <2>5 DEF TableFits, LedgerFits
  <2>7. ChainFits'
    BY <1>1, <1>2, <2>2, <2>5 DEF TableFits, ChainFits, Closed
  <2> QED
    BY <1>3, <2>5, <2>6, <2>7 DEF TableFits
<1>5. CASE finalizeAbort(w)
  <2>1. Step(w) = "abort:finalize" /\ status' = "cancelled" /\ UNCHANGED <<pending, result>>
    BY <1>5 DEF finalizeAbort, Commits, Due
  <2>2. status = "aborting" /\ Undone
    BY <1>1, <2>1, StepState DEF AbortNames
  <2>3. "abort:escrow" \in journal /\ "abort:onchain" \in journal
    <3>1. PICK p \in Programs : \E i \in 1 .. Len(p) : Left(work[w], p, i) /\ Step(w) = p[i]
      BY <1>1, StepAt
    <3>2. PICK i \in 1 .. Len(p) : Left(work[w], p, i) /\ Step(w) = p[i]
      BY <3>1
    <3> QED
      BY <2>1, <3>2, Placed DEF AbortPlace, SettlePlace, AbortNames, SettleNames, Left
  <2>4. RecordFits' /\ EndsFit' /\ Chosen = None /\ Undone'
    BY <1>1, <2>1, <2>2, <2>3 DEF TableFits, RecordFits, LedgerFits, ChainFits, EndsFit, Chosen, Undone, Closed
  <2>5. LedgerFits'
    BY <1>1, <1>2, <2>4 DEF TableFits, LedgerFits
  <2>6. ChainFits'
    BY <1>1, <1>2, <2>4 DEF TableFits, ChainFits, Closed
  <2> QED
    BY <1>3, <2>4, <2>5, <2>6 DEF TableFits
<1> QED
  BY <1>4, <1>5

\* Every step of a driver keeps the table and the driver fitting.
LEMMA DriveGoes ==
  ASSUME WorkOK, RecordOK, RanOK, MoneyOK, TableFits, NEW w \in Procs, Fits(work[w]), Drive(w)
  PROVE  TableFits' /\ Fits(work[w])'
<1>1. CASE Lock(w)
  BY <1>1, LockGoes
<1>2. CASE run_match(w) \/ play(w) \/ claimSettlement(w) \/ claimAbort(w) \/ driverFailed(w) \/ release(w)
  BY <1>2, ClaimGoes
<1>3. CASE skipStep(w) \/ writeRow(w) \/ stepFails(w)
  BY <1>3, StepsGo
<1>4. CASE Settle(w) \/ Refund(w)
  BY <1>4, AsideGoes, RailGoes, EscrowGoes, EndGoes DEF Settle, Refund
<1> QED
  BY <1>1, <1>2, <1>3, <1>4 DEF Drive

-----------------------------------------------------------------------------
(* The other steps                                                          *)

\* The chain moves by itself.
LEMMA ChainMoves ==
  ASSUME ElseOK, TableFits, mine \/ refundExpired
  PROVE  /\ TableFits' /\ UNCHANGED <<status, pending, work>>
         /\ chain \in ONCHAIN_FINAL => chain' \in ONCHAIN_FINAL
         /\ Closed => Closed'
<1> USE DEF ONCHAIN_FINAL, Winners
<1>1. UNCHANGED <<status, pending, result, escrow, journal, work>>
  BY DEF mine, refundExpired, record, ledger
<1>2. \/ chain' = chain /\ mempool' \subseteq mempool
      \/ /\ chain = "absent" /\ chain' = "OPEN" /\ mempool' \subseteq mempool
      \/ /\ chain = "OPEN" /\ chain' = "LOCKED" /\ "join" \in mempool /\ mempool' \subseteq mempool
      \/ /\ chain \in {"OPEN", "LOCKED"} /\ chain' = "CANCELLED" /\ "cancel" \in mempool
         /\ mempool' \subseteq mempool
      \/ /\ chain = "LOCKED" /\ chain' \in Winners /\ chain' \in mempool /\ mempool' \subseteq mempool
      \/ /\ chain \in {"OPEN", "LOCKED"} /\ chain' = "REFUNDED" /\ mempool' = mempool
  <2>1. CASE refundExpired
    BY <2>1 DEF refundExpired
  <2>2. CASE mine
    <3>1. PICK tx \in mempool : /\ mempool' = mempool \ {tx}
                                /\ chain' = IF Accepts(chain, tx) THEN After(tx) ELSE chain
      BY <2>2 DEF mine
    <3>2. CASE ~ Accepts(chain, tx)
      BY <3>1, <3>2
    <3>3. CASE Accepts(chain, tx)
      <4>1. tx \in {"create", "join", "cancel"} \cup Winners /\ mempool' \subseteq mempool /\ chain' = After(tx)
        BY <3>1, <3>3 DEF ElseOK
      <4>2. CASE tx = "create"
        BY <3>3, <4>1, <4>2 DEF Accepts, After
      <4>3. CASE tx = "join"
        BY <3>3, <4>1, <4>3 DEF Accepts, After
      <4>4. CASE tx = "cancel"
        BY <3>3, <4>1, <4>4 DEF Accepts, After
      <4>5. CASE tx \in Winners
        BY <3>3, <4>1, <4>5 DEF Accepts, After
      <4> QED
        BY <4>1, <4>2, <4>3, <4>4, <4>5
    <3> QED
      BY <3>2, <3>1, <3>3
  <2> QED
    BY <2>1, <2>2
<1>3. chain \in ONCHAIN_FINAL => chain' \in ONCHAIN_FINAL
  BY <1>2
<1>4. Closed => Closed'
  BY <1>2 DEF Closed
<1>5. RecordFits' /\ LedgerFits'
  BY <1>1 DEF TableFits, RecordFits, LedgerFits, Chosen, Undone
<1>6. EndsFit'
  BY <1>1, <1>3, <1>4 DEF TableFits, EndsFit
<1>7. ChainFits'
  BY <1>1, <1>2, <1>3, <1>4 DEF TableFits, ChainFits, Chosen, Undone
<1> QED
  BY <1>1, <1>3, <1>4, <1>5, <1>6, <1>7 DEF TableFits

\* A driver's job goes on fitting when only the chain moves.
LEMMA FitsKept ==
  ASSUME NEW q, Fits(q), UNCHANGED <<status, pending>>,
         chain \in ONCHAIN_FINAL => chain' \in ONCHAIN_FINAL, Closed => Closed'
  PROVE  Fits(q)'
BY DEF Fits

\* The drivers go on fitting when only the chain moves.
LEMMA DriversKept ==
  ASSUME DriversFit, UNCHANGED <<status, pending>>,
         chain \in ONCHAIN_FINAL => chain' \in ONCHAIN_FINAL, Closed => Closed',
         \A v \in Procs : Working(v)' => work'[v] = work[v]
  PROVE  DriversFit'
<1>1. ASSUME NEW v \in Procs, Working(v)' PROVE Fits(work[v])'
  <2>1. PICK q : q = work[v] /\ q = work'[v]
    BY <1>1
  <2>2. Working(v)
    BY <1>1, <2>1 DEF Working, At
  <2>3. Fits(q)'
    BY <2>1, <2>2, FitsKept DEF DriversFit
  <2> QED
    BY <2>1, <2>3
<1> QED
  BY <1>1 DEF DriversFit

\* The table and its drivers stay fitting.
LEMMA NextTable ==
  ASSUME IInv, OneInv, Next
  PROVE  TableFits' /\ DriversFit'
<1> USE DEF IInv, OneInv
<1>1. ASSUME NEW w \in Procs, Drive(w) PROVE TableFits' /\ DriversFit'
  <2>1. Working(w) /\ Alone(w)
    BY <1>1, DriverWorks, HolderAlone
  <2>2. TableFits' /\ Fits(work[w])'
    BY <1>1, <2>1, DriveGoes DEF DriversFit
  <2>3. \A v \in Procs \ {w} : work'[v] = work[v]
    BY <1>1, OthersWait
  <2> QED
    BY <2>1, <2>2, <2>3 DEF DriversFit, Alone, Working, At
<1>2. ASSUME NEW w \in Procs, startTable(w) \/ settle_result(w) \/ Recover(w) \/ crash(w)
      PROVE  TableFits' /\ DriversFit'
  <2>1. \A v \in Procs \ {w} : work'[v] = work[v]
    BY <1>2, OthersWait
  <2>2. UNCHANGED <<status, pending, result, escrow, chain, mempool, journal>>
    BY <1>2 DEF startTable, settle_result, Recover, plan_table, seat, refund, crash, record, ledger, onchain
  <2>3. Closed => Closed'
    BY <2>2 DEF Closed
  <2>4. TableFits'
    BY <2>2, TableKept
  <2>5. work \in [Procs -> Jobs]
    BY DEF WorkOK
  <2>6. Working(w)' => Fits(work[w])'
    <3>1. CASE startTable(w)
      <4>1. work'[w].at = "lock" /\ status' = "open"
        BY <1>2, <2>2, <2>5, <3>1, GoFields DEF startTable
      <4> QED
        BY <4>1 DEF Fits, Locking
    <3>2. CASE settle_result(w)
      <4>1. work'[w].at = "claim" /\ work'[w].res = pending /\ status = "settle_failed"
        BY <2>5, <3>2 DEF settle_result, Idle
      <4> QED
        BY <2>2, <4>1 DEF Fits, Locking
    <3>3. CASE seat(w)
      <4>1. \/ work'[w].at = "idle"
            \/ work'[w].at = "run" /\ status \in {"settling", "locked", "playing"}
        BY <2>5, <3>3 DEF seat, Planned, Idle
      <4> QED
        BY <2>2, <4>1 DEF Fits, Locking, Working, At
    <3>4. CASE refund(w)
      <4>1. work'[w].at \in {"idle", "abort"}
        BY <2>5, <3>4 DEF refund, Idle
      <4> QED
        BY <4>1 DEF Fits, Locking
    <3>5. CASE plan_table(w) \/ crash(w)
      <4>1. work'[w].at \in {"seat", "refund", "dead"}
        BY <2>5, <3>5 DEF plan_table, crash, Idle, Jobs
      <4> QED
        BY <4>1 DEF Working, At
    <3> QED
      BY <1>2, <3>1, <3>2, <3>3, <3>4, <3>5 DEF Recover
  <2>7. ASSUME NEW v \in Procs \ {w}, Working(v)' PROVE Fits(work[v])'
    <3>1. PICK q : q = work[v] /\ q = work'[v]
      BY <2>1
    <3>2. Working(v)
      BY <2>7, <3>1 DEF Working, At
    <3>3. Fits(q)'
      BY <2>2, <2>3, <3>1, <3>2, FitsKept DEF DriversFit
    <3> QED
      BY <3>1, <3>3
  <2> QED
    BY <2>4, <2>6, <2>7 DEF DriversFit
<1>3. ASSUME UNCHANGED <<status, pending, result, escrow, chain, mempool, journal, work>>
      PROVE  TableFits' /\ DriversFit'
  <2>1. Closed => Closed'
    BY <1>3 DEF Closed
  <2> QED
    BY <1>3, <2>1, TableKept, DriversKept
<1>4. ASSUME NEW w \in Procs, renew_held(w) PROVE TableFits' /\ DriversFit'
  BY <1>3, <1>4 DEF renew_held, record, ledger, onchain
<1>5. CASE lapse \/ \E a \in Roaming : otherTable(a)
  BY <1>3, <1>5 DEF lapse, otherTable, record, ledger, onchain
<1>6. CASE mine \/ refundExpired
  BY <1>6, ChainMoves, DriversKept
<1>7. ~ release_stale_pair
  BY DEF release_stale_pair, TableFits, RecordFits
<1> QED
  BY <1>1, <1>2, <1>4, <1>5, <1>6, <1>7 DEF Next

\* A driver turns to no plan.
LEMMA DriveTurns ==
  ASSUME WorkOK, NEW w \in Procs, Drive(w)
  PROVE  work'[w].at # "seat"
<1>0. work \in [Procs -> Jobs] /\ work[w].at # "seat"
  BY DriverWorks DEF WorkOK, Working, At
<1>1. \/ \E pl : Go(w, pl) /\ pl # "seat"
      \/ Raise(w) \/ Advance(w) \/ Called(w)
      \/ work' = [work EXCEPT ![w] = Idle]
      \/ work' = [work EXCEPT ![w] = [Idle EXCEPT !.at = "claim", !.res = pending]]
      \/ \E r \in Results : work' = [work EXCEPT ![w].at = "claim", ![w].res = r]
      \/ \E t : work' = [work EXCEPT ![w].at = "steps", ![w].todo = t]
      \/ work' = [work EXCEPT ![w].todo = <<"finalize">>]
  <2>1. CASE Lock(w)
    BY <2>1 DEF Lock, lock, lock_escrow_and_seeds, mark, send, receipt, lockFailed, Waiting
  <2>2. CASE run_match(w) \/ play(w) \/ claimSettlement(w) \/ claimAbort(w) \/ driverFailed(w) \/ release(w)
    BY <2>2 DEF run_match, play, claimSettlement, claimAbort, driverFailed, release
  <2>3. CASE skipStep(w) \/ writeRow(w) \/ stepFails(w) \/ Settle(w) \/ Refund(w)
    BY <2>3 DEF skipStep, writeRow, stepFails, Settle, Refund, resolveChain, sendsHouseTx, settleEscrow,
       updateStats, creatorFee, creditRegistry, lpProfit, settleBook, payFan, finalize, cancelChain,
       refundEscrow, voidBook, refundFan, finalizeAbort, Commits
  <2> QED
    BY <2>1, <2>2, <2>3 DEF Drive
<1>2. ASSUME \/ \E pl : Go(w, pl) /\ pl # "seat"
             \/ \E r \in Results : work' = [work EXCEPT ![w].at = "claim", ![w].res = r]
             \/ \E t : work' = [work EXCEPT ![w].at = "steps", ![w].todo = t]
      PROVE  work'[w].at # "seat"
  BY <1>0, <1>2 DEF Go, Jobs
<1>3. ASSUME Called(w) \/ work' = [work EXCEPT ![w].todo = <<"finalize">>] PROVE work'[w].at # "seat"
  BY <1>0, <1>3 DEF Called, Jobs
<1>4. ASSUME Raise(w) \/ Advance(w) PROVE work'[w].at # "seat"
  BY <1>0, <1>4 DEF Raise, Advance, Idle, Jobs
<1>5. ASSUME \/ work' = [work EXCEPT ![w] = Idle]
             \/ work' = [work EXCEPT ![w] = [Idle EXCEPT !.at = "claim", !.res = pending]]
      PROVE  work'[w].at # "seat"
  <2>1. CASE work' = [work EXCEPT ![w] = Idle]
    BY <1>0, <2>1, RestFields
  <2>2. CASE work' = [work EXCEPT ![w] = [Idle EXCEPT !.at = "claim", !.res = pending]]
    <3> DEFINE q == [Idle EXCEPT !.at = "claim", !.res = pending]
    <3>1. q.at = "claim"
      BY RestFields
    <3>2. work' = [work EXCEPT ![w] = q]
      BY <2>2
    <3> HIDE DEF q
    <3> QED
      BY <1>0, <3>1, <3>2
  <2> QED
    BY <1>5, <2>1, <2>2
<1> QED
  BY <1>1, <1>2, <1>3, <1>4, <1>5

\* A process still drives only what it chose to.
LEMMA NextPlanned ==
  ASSUME WorkOK, Planned, Next
  PROVE  Planned'
<1>0. work \in [Procs -> Jobs]
  BY DEF WorkOK
<1>1. ASSUME NEW w \in Procs,
             startTable(w) \/ settle_result(w) \/ Recover(w) \/ Drive(w) \/ crash(w),
             work'[w].at = "seat" => work'[w].seen \in {"settling", "locked", "playing"}
      PROVE  Planned'
  BY <1>1, OthersWait DEF Planned, At
<1>2. ASSUME NEW w \in Procs, plan_table(w)
      PROVE  work'[w].at = "seat" => work'[w].seen \in {"settling", "locked", "playing"}
  <2>1. PICK pl \in {"seat", "refund"} :
          /\ pl = "seat" => status \in {"settling", "locked", "playing"}
          /\ work' = [work EXCEPT ![w].at = pl, ![w].seen = status]
    BY <1>2 DEF plan_table
  <2>2. work'[w].at = pl /\ work'[w].seen = status
    BY <1>0, <2>1 DEF Jobs
  <2> QED
    BY <2>1, <2>2
<1>3. ASSUME NEW w \in Procs, startTable(w) \/ settle_result(w) \/ seat(w) \/ refund(w) \/ crash(w)
      PROVE  work'[w].at # "seat"
  <2>1. CASE startTable(w)
    BY <2>1, GoFields DEF startTable
  <2>2. \/ startTable(w)
        \/ work' = [work EXCEPT ![w] = Idle]
        \/ work' = [work EXCEPT ![w] = [Idle EXCEPT !.at = "claim", !.res = pending]]
        \/ \E pl \in {"run", "abort", "dead"} : work' = [work EXCEPT ![w] = [Idle EXCEPT !.at = pl]]
    BY <1>3 DEF settle_result, seat, refund, crash
  <2>3. CASE work' = [work EXCEPT ![w] = Idle]
    BY <1>0, <2>3, RestFields
  <2>4. CASE work' = [work EXCEPT ![w] = [Idle EXCEPT !.at = "claim", !.res = pending]]
    BY <1>0, <2>4, RestFields
  <2>5. ASSUME NEW pl \in {"run", "abort", "dead"}, work' = [work EXCEPT ![w] = [Idle EXCEPT !.at = pl]]
        PROVE  work'[w].at # "seat"
    BY <1>0, <2>5, RestFields
  <2> QED
    BY <2>1, <2>2, <2>3, <2>4, <2>5
<1>4. ASSUME NEW w \in Procs, Drive(w) PROVE work'[w].at # "seat"
  BY <1>4, DriveTurns
<1>5. ASSUME NEW w \in Procs, renew_held(w) PROVE Planned'
  BY <1>5 DEF renew_held, Planned, At
<1>6. CASE lapse \/ release_stale_pair \/ mine \/ refundExpired \/ \E a \in Roaming : otherTable(a)
  BY <1>6 DEF lapse, release_stale_pair, mine, refundExpired, otherTable, Planned, At
<1> QED
  BY <1>1, <1>2, <1>3, <1>4, <1>5, <1>6 DEF Next, Recover

\* Every step keeps the second invariant.
LEMMA NextOne ==
  ASSUME MayStall = {}, IInv, OneInv, [Next]_vars
  PROVE  OneInv'
<1>1. CASE Next
  BY <1>1, NextHeld, NextPlanned, NextRan, NextTable DEF OneInv, IInv
<1>2. CASE UNCHANGED vars
  BY <1>2 DEF vars, record, lease, ledger, onchain, OneInv, Held, Planned, RanOK, DriversFit, Fits,
     Working, At, TableFits, RecordFits, LedgerFits, ChainFits, EndsFit, Chosen, Undone, Closed
<1> QED
  BY <1>1, <1>2

\* The second invariant holds at the start.
LEMMA InitOne == Init => OneInv
<1> SUFFICES ASSUME Init PROVE OneInv
  OBVIOUS
<1>1. \A w \in Procs : work[w].at = "idle" /\ ~ work[w].ran
  BY DEF Init, Idle
<1>2. Held /\ Planned /\ RanOK /\ DriversFit
  BY <1>1 DEF Held, Planned, RanOK, DriversFit, Working, At
<1>3. TableFits
  BY Apart DEF Init, TableFits, RecordFits, LedgerFits, ChainFits, EndsFit, ONCHAIN_FINAL, Winners
<1> QED
  BY <1>2, <1>3 DEF OneInv

\* The invariant of the tables whose leases lapse only after a death.
THEOREM OneDriverInvariant ==
  ASSUME MayStall = {}
  PROVE  Spec => [](IInv /\ OneInv)
<1>1. Init => IInv /\ OneInv
  BY InitInvariant, InitOne
<1>2. IInv /\ OneInv /\ [Next]_vars => (IInv /\ OneInv)'
  BY NextInvariant, NextOne
<1> QED
  BY <1>1, <1>2, PTL DEF Spec

\* Consistent: when leases lapse only after a death, one process at a time
\* drives the table, and the ledger and the chain end alike.
THEOREM EndsAlike ==
  ASSUME MayStall = {}
  PROVE  Spec => []Consistent
<1>1. IInv /\ OneInv => OneDriver
  <2> SUFFICES ASSUME OneInv PROVE OneDriver
    OBVIOUS
  <2>1. Held
    BY DEF OneInv
  <2> QED
    BY <2>1 DEF Held, OneDriver
<1>2. IInv /\ OneInv => RailsAgree
  <2> SUFFICES ASSUME IInv, OneInv PROVE RailsAgree
    OBVIOUS
  <2>1. RecordFits /\ LedgerFits /\ ChainFits /\ EndsFit /\ ElseOK /\ RecordOK
    BY DEF OneInv, TableFits, IInv
  <2>2. status = "settled" =>
          /\ escrow = result /\ result \in Results /\ Chosen = result
          /\ chain \in ONCHAIN_FINAL /\ ~ Undone
    BY <2>1 DEF RecordFits, EndsFit, RecordOK, Chosen, Undone
  <2>3. status = "settled" => chain \in {"REFUNDED", IF result = "draw" THEN "CANCELLED" ELSE result}
    BY <2>1, <2>2, ResultsAssumption DEF ChainFits, ONCHAIN_FINAL, Winners
  <2>4. status = "cancelled" =>
          /\ escrow \in {"open", "draw"} /\ Closed
          /\ \A t \in Winners : chain # t
    <3>1. status = "cancelled" => Chosen = None
      BY <2>1 DEF RecordFits, Chosen
    <3> QED
      BY <2>1, <3>1 DEF EndsFit, ChainFits
  <2>5. status = "cancelled" => chain \in {"absent", "OPEN", "CANCELLED", "REFUNDED"}
    BY <2>4 DEF Closed, ONCHAIN_FINAL
  <2> QED
    BY <2>2, <2>3, <2>4, <2>5 DEF RailsAgree
<1>3. Spec => []TypeOK
  BY TypeCorrect
<1> QED
  BY <1>1, <1>2, <1>3, OneDriverInvariant, PTL DEF Consistent

\* A settlement or a refund that has begun only goes forward.
Forward ==
  /\ status = "settled" => status' = "settled"
  /\ status = "cancelled" => status' = "cancelled"
  /\ status = "aborting" => status' \in {"aborting", "cancelled", "settle_failed"}
  /\ status = "settling" => status' \in {"settling", "settled", "settle_failed"}

\* No process but the one that drives the table writes its status, and that
\* one is at the work its status allows.
LEMMA ForwardStep ==
  ASSUME IInv, OneInv, [Next]_vars
  PROVE  Forward
<1> USE DEF Forward
<1>1. ASSUME NEW w \in Procs, Drive(w) PROVE Forward
  <2>1. Fits(work[w])
    BY <1>1, DriverWorks DEF OneInv, DriversFit
  <2>2. CASE Lock(w)
    <3>1. status \in {"open", "partial_lock"}
      BY <2>1, <2>2 DEF Lock, lock, lock_escrow_and_seeds, mark, send, receipt, lockFailed, Waiting, At,
         Fits, Locking
    <3> QED
      BY <3>1
  <2>3. CASE run_match(w) \/ claimSettlement(w) \/ claimAbort(w) \/ driverFailed(w)
    <3>1. CASE run_match(w)
      BY <3>1 DEF run_match
    <3>2. CASE claimSettlement(w)
      BY <2>1, <3>2 DEF claimSettlement, Fits, At
    <3>3. CASE claimAbort(w)
      BY <3>3 DEF claimAbort, ABORTABLE_STATUSES
    <3>4. CASE driverFailed(w)
      BY <2>1, <3>4 DEF driverFailed, Fits, At
    <3> QED
      BY <2>3, <3>1, <3>2, <3>3, <3>4
  <2>4. CASE stepFails(w)
    <3>1. status' = status \/ (Step(w) = "onchain_resolve" /\ status' = "settle_failed")
      BY <2>4 DEF stepFails
    <3>2. Step(w) = "onchain_resolve" => status = "settling"
      BY <2>1, <2>4 DEF stepFails, Fits, At, Step, AbortNames
    <3> QED
      BY <3>1, <3>2
  <2>5. CASE finalize(w) \/ finalizeAbort(w)
    <3>1. CASE finalize(w)
      BY <2>1, <3>1 DEF finalize, Commits, Due, Fits, At, Step, AbortNames
    <3>2. CASE finalizeAbort(w)
      BY <2>1, <3>2 DEF finalizeAbort, Commits, Due, Fits, At, Step, AbortNames
    <3> QED
      BY <2>5, <3>1, <3>2
  <2>6. CASE play(w) \/ skipStep(w) \/ writeRow(w) \/ release(w)
    BY <2>6 DEF play, skipStep, writeRow, release, Rest, record
  <2>7. CASE (Settle(w) \/ Refund(w)) /\ ~ finalize(w) /\ ~ finalizeAbort(w)
    <3>1. UNCHANGED record
      BY <2>7 DEF Settle, Refund, resolveChain, settleEscrow, updateStats, creatorFee, creditRegistry,
         lpProfit, settleBook, payFan, cancelChain, refundEscrow, voidBook, refundFan
    <3> QED
      BY <3>1 DEF record
  <2> QED
    BY <1>1, <2>2, <2>3, <2>4, <2>5, <2>6, <2>7 DEF Drive
<1>2. ASSUME NEW w \in Procs,
             startTable(w) \/ settle_result(w) \/ Recover(w) \/ renew_held(w) \/ crash(w)
      PROVE  Forward
  BY <1>2 DEF startTable, settle_result, Recover, plan_table, seat, refund, renew_held, crash, record
<1>3. CASE lapse \/ mine \/ refundExpired \/ \E a \in Roaming : otherTable(a)
  BY <1>3 DEF lapse, mine, refundExpired, otherTable, record
<1>4. CASE release_stale_pair
  BY <1>4 DEF release_stale_pair
<1>5. CASE UNCHANGED vars
  BY <1>5 DEF vars, record
<1> QED
  BY <1>1, <1>2, <1>3, <1>4, <1>5 DEF Next

\* ForwardOnly: when leases lapse only after a death, a settlement or a
\* refund that has begun only goes forward.
THEOREM GoesForward ==
  ASSUME MayStall = {}
  PROVE  Spec => ForwardOnly
<1>1. IInv /\ OneInv /\ [Next]_vars => Forward
  BY ForwardStep
<1> QED
  BY <1>1, OneDriverInvariant, PTL DEF Spec, ForwardOnly, Forward

\* RefundedNeverLocked: when leases lapse only after a death, a table whose
\* refund has passed the ledger is never locked (lock_escrow_and_seeds asks
\* neither the lease nor the status; only the lease keeps the two apart).
THEOREM RefundNeverLocks ==
  ASSUME MayStall = {}
  PROVE  Spec => []RefundedNeverLocked
<1>1. IInv /\ OneInv => RefundedNeverLocked
  BY DEF OneInv, TableFits, LedgerFits, RefundedNeverLocked
<1> QED
  BY <1>1, OneDriverInvariant, PTL

\* Only finalize writes the row of finalize.
LEMMA RowOfFinalize ==
  ASSUME IInv, [Next]_vars
  PROVE  "finalize" \in journal' => "finalize" \in journal \/ status' = "settled"
<1>1. ASSUME NEW w \in Procs, writeRow(w)
      PROVE  "finalize" \in journal' => "finalize" \in journal
  <2>1. At(w, "steps") /\ work[w].ran /\ journal' = journal \cup {Step(w)}
    BY <1>1 DEF writeRow
  <2>2. PICK p \in Programs : \E i \in 1 .. Len(p) : Left(work[w], p, i) /\ Step(w) = p[i]
    BY <2>1, StepAt DEF IInv
  <2>3. Step(w) \in External
    BY <2>1, <2>2 DEF Left
  <2> QED
    BY <2>1, <2>3 DEF External
<1>2. ASSUME NEW w \in Procs, Settle(w) \/ Refund(w)
      PROVE  "finalize" \in journal' => "finalize" \in journal \/ status' = "settled"
  <2>1. CASE finalize(w)
    BY <2>1 DEF finalize
  <2>2. CASE resolveChain(w) \/ updateStats(w) \/ creditRegistry(w) \/ payFan(w) \/ cancelChain(w)
             \/ refundFan(w)
    BY <2>2 DEF resolveChain, updateStats, creditRegistry, payFan, cancelChain, refundFan, Calls
  <2>3. CASE settleEscrow(w) \/ creatorFee(w) \/ lpProfit(w) \/ settleBook(w) \/ refundEscrow(w)
             \/ voidBook(w) \/ finalizeAbort(w)
    BY <2>3 DEF settleEscrow, creatorFee, lpProfit, settleBook, refundEscrow, voidBook, finalizeAbort,
       Commits
  <2> QED
    BY <1>2, <2>1, <2>2, <2>3 DEF Settle, Refund
<1>3. ASSUME NEW w \in Procs, Lock(w)
      PROVE  "finalize" \in journal' => "finalize" \in journal
  BY <1>3 DEF Lock, lock, lock_escrow_and_seeds, mark, send, receipt, lockFailed
<1>4. ASSUME NEW w \in Procs,
             \/ startTable(w) \/ settle_result(w) \/ Recover(w) \/ renew_held(w) \/ crash(w)
             \/ run_match(w) \/ play(w) \/ claimSettlement(w) \/ claimAbort(w)
             \/ skipStep(w) \/ stepFails(w) \/ driverFailed(w) \/ release(w)
      PROVE  journal' = journal
  BY <1>4 DEF startTable, settle_result, Recover, plan_table, seat, refund, renew_held, crash,
     run_match, play, claimSettlement, claimAbort, skipStep, stepFails, driverFailed, release
<1>5. CASE lapse \/ release_stale_pair \/ mine \/ refundExpired \/ \E a \in Roaming : otherTable(a)
  BY <1>5 DEF lapse, release_stale_pair, mine, refundExpired, otherTable
<1>6. CASE UNCHANGED vars
  BY <1>6 DEF vars
<1> QED
  BY <1>1, <1>2, <1>3, <1>4, <1>5, <1>6 DEF Next, Drive

\* FinishedStaysSettled: when leases lapse only after a death, a table whose
\* settlement has written its last row is settled from then on (tables.py:
\* "A settlement that has started (or finished) can only move forward").
THEOREM FinishedStays ==
  ASSUME MayStall = {}
  PROVE  Spec => []FinishedStaysSettled
<1>1. Init => FinishedStaysSettled
  BY DEF Init, FinishedStaysSettled
<1>2. IInv /\ OneInv /\ FinishedStaysSettled /\ [Next]_vars => FinishedStaysSettled'
  BY ForwardStep, RowOfFinalize DEF Forward, FinishedStaysSettled
<1> QED
  BY <1>1, <1>2, OneDriverInvariant, PTL DEF Spec
=============================================================================
