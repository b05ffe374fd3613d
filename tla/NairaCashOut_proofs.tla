------------------------ MODULE NairaCashOut_proofs ------------------------
(***************************************************************************)
(* For any number of workers, orders at Paycrest and attempts, and under   *)
(* every combination of faults: the types, that the out wallet never pays  *)
(* out more than it holds, and, while nobody else's USDC is in it or while *)
(* the workers are undisturbed, that the player is paid once and an ended  *)
(* order says where the money is.                                          *)
(***************************************************************************)
EXTENDS NairaCashOut, FiniteSetTheorems, TLAPS

PaycrestStatus == {"none", "open", "expired", "pending", "settled", "refunding", "refunded"}

PaycrestRow == [status : PaycrestStatus, ref : Nat, transfer : {"none", "queued", "done", "failed"}]

OrderRow == [status : Statuses, n : 0 .. MaxSubmits + 2, ref : Nat, pc : Orders \cup {0},
             echo : PaycrestStatus]

Places == {"idle", "start", "mark", "emit", "take", "create", "send", "fund", "unsent", "unknown", "retry",
           "noUsdc", "review", "refused", "giveUp", "apply", "echo", "home", "bring", "homeMark"}

Jobs == [at : Places, b : Bridges, n : 0 .. MaxSubmits + 2, ref : Nat, k : Orders \cup {0}, s : PaycrestStatus]

Typed ==
  /\ scene \in Scenes /\ dead \subseteq MayDie /\ BridgeType
  /\ order \in OrderRow
  /\ paycrest \in [Orders -> PaycrestRow]
  /\ heard \subseteq Orders \X {"pending", "settled", "refunding", "refunded", "expired"}
  /\ work \in [Workers -> Jobs]

\* Paycrest only works on an order whose transfer it has.
PaidFor == \A k \in Orders :
  paycrest[k].status \in {"pending", "settled", "refunding", "refunded"} => paycrest[k].transfer = "done"

\* A row is "minted" only once its USDC is there.
MintedThere == \A b \in Bridges : bridges[b].row = "minted" => bridges[b].usdc = "there"

\* What a worker carries from the step before is still so.
JobOK(w) ==
  /\ work[w].at = "send" => work[w].k \in Orders
  /\ work[w].at = "apply" /\ work[w].s = "settled" => Paid # {}

\* Only one worker ever opens the bridge out, on a confirmed order.
Starting ==
  /\ \A w \in Workers : work[w].at = "start" =>
       /\ order.status = "confirmed" /\ bridges["out"].row = "none"
       /\ \A v \in Workers \ {w} : work[v].at \notin {"start", "mark"}
  /\ order.status \in {"none", "failed"} => bridges["out"].row = "none"
  /\ order.status = "none" => \A w \in Workers : work[w].at \notin {"start", "mark"}

\* Where the order is, and what that says of the money and of the attempts.
OrderOK ==
  /\ order.status \in {"none", "confirmed", "bridging_out", "failed"} => order.n = 0
  /\ order.status = "completed" => Paid # {}
  /\ order.status = "refunded" => bridges["refund"].usdc = "there"

\* The inductive invariant.
IInv ==
  /\ Typed /\ PaidFor /\ MintedThere
  /\ Base >= 0
  /\ \A w \in Workers : JobOK(w)
  /\ Starting /\ OrderOK

-----------------------------------------------------------------------------
(* What the out wallet holds                                                *)

\* The orders whose unit is with Paycrest, or paid out by it.
Held == {k \in Orders : paycrest[k].transfer = "done" /\ paycrest[k].status # "refunded"}

OutThere == IF bridges["out"].usdc = "there" THEN 1 ELSE 0
GoneHome == IF bridges["refund"].usdc = "source" THEN 0 ELSE 1

LEMMA OrdersFinite == IsFiniteSet(Orders) /\ \A S \in SUBSET Orders : IsFiniteSet(S) /\ Cardinality(S) \in Nat
<1>1. IsFiniteSet(Orders)
  BY FS_Interval, BoundsAssumption DEF Orders
<1>2. \A S \in SUBSET Orders : IsFiniteSet(S) /\ Cardinality(S) \in Nat
  BY <1>1, FS_Subset, FS_CardinalityType
<1> QED
  BY <1>1, <1>2

\* A refund undoes a transfer, so only what is held counts.
BaseIsSum == scene.stray \in 0 .. 1 /\ Base = scene.stray + OutThere - GoneHome - Cardinality(Held)

SceneOK == scene \in Scenes

LEMMA BaseIs == SceneOK => BaseIsSum
<1> SUFFICES ASSUME SceneOK PROVE BaseIsSum
  OBVIOUS
<1>0. scene.stray \in 0 .. 1
  BY ScenesAssumption DEF SceneOK
<1> DEFINE Back == {k \in Funded : paycrest[k].status = "refunded"}
<1>1. Funded \in SUBSET Orders /\ Back \in SUBSET Orders /\ Held \in SUBSET Orders
  BY DEF Funded, Held
<1>2. Funded \cap Back = Back /\ Funded \ Back = Held
  BY DEF Funded, Held
<1>3. Cardinality(Held) = Cardinality(Funded) - Cardinality(Back)
  BY <1>1, <1>2, OrdersFinite, FS_Difference
<1>4. Cardinality(Held) \in Nat /\ Cardinality(Funded) \in Nat /\ Cardinality(Back) \in Nat
  BY <1>1, OrdersFinite
<1> HIDE DEF Back
<1>5. Base = scene.stray + OutThere - GoneHome - Cardinality(Funded) + Cardinality(Back)
  BY DEF Base, OutThere, GoneHome, Back
<1> QED
  BY <1>0, <1>3, <1>4, <1>5 DEF OutThere, GoneHome, BaseIsSum

LEMMA BaseIsNext == SceneOK' => BaseIsSum'
BY BaseIs, PTL

LEMMA HeldFinite == IsFiniteSet(Held) /\ Cardinality(Held) \in Nat
BY OrdersFinite DEF Held

LEMMA HeldFiniteNext == IsFiniteSet(Held') /\ Cardinality(Held') \in Nat
BY OrdersFinite DEF Held

\* A step that commits no unit, or one of those there, leaves no debt.
LEMMA WalletCovered ==
  ASSUME IInv, UNCHANGED <<scene, bridges>>, NEW k,
         Held' \subseteq Held \/ (Base > 0 /\ Held' \subseteq Held \cup {k})
  PROVE  Base' >= 0
<1>1. SceneOK /\ SceneOK'
  BY DEF IInv, Typed, SceneOK
<1>2. BaseIsSum /\ BaseIsSum'
  BY <1>1, BaseIs, BaseIsNext
<1>3. OutThere' = OutThere /\ GoneHome' = GoneHome /\ OutThere \in 0 .. 1 /\ GoneHome \in 0 .. 1
  BY DEF OutThere, GoneHome
<1>4. /\ Held' \subseteq Held => Cardinality(Held') <= Cardinality(Held)
      /\ Held' \subseteq Held \cup {k} => Cardinality(Held') <= Cardinality(Held) + 1
  <2>1. IsFiniteSet(Held \cup {k}) /\ Cardinality(Held \cup {k}) <= Cardinality(Held) + 1
    <3>1. /\ IsFiniteSet(Held \cup {k})
          /\ Cardinality(Held \cup {k}) = IF k \in Held THEN Cardinality(Held) ELSE Cardinality(Held) + 1
      BY HeldFinite, FS_AddElement
    <3>2. Cardinality(Held) \in Nat
      BY HeldFinite
    <3> QED
      BY <3>1, <3>2
  <2>2. Cardinality(Held') \in Nat /\ Cardinality(Held \cup {k}) \in Nat
    BY <2>1, HeldFiniteNext, FS_CardinalityType
  <2>3. Held' \subseteq Held => Cardinality(Held') <= Cardinality(Held)
    BY HeldFinite, FS_Subset
  <2>4. Held' \subseteq Held \cup {k} => Cardinality(Held') <= Cardinality(Held \cup {k})
    BY <2>1, FS_Subset
  <2> QED
    BY <2>1, <2>2, <2>3, <2>4, HeldFinite
<1>5. Base >= 0
  BY DEF IInv
<1> QED
  BY <1>2, <1>3, <1>4, <1>5, HeldFinite, HeldFiniteNext DEF BaseIsSum

\* So does a bridge, which takes USDC home only when there is some.
LEMMA WalletOverBridges ==
  ASSUME IInv, UNCHANGED <<scene, paycrest>>,
         \/ OutThere' >= OutThere /\ GoneHome' = GoneHome
         \/ OutThere' = OutThere /\ GoneHome' = GoneHome + 1 /\ Base > 0
  PROVE  Base' >= 0
<1>1. SceneOK /\ SceneOK'
  BY DEF IInv, Typed, SceneOK
<1>2. BaseIsSum /\ BaseIsSum'
  BY <1>1, BaseIs, BaseIsNext
<1>3. OutThere \in 0 .. 1 /\ GoneHome \in 0 .. 1 /\ OutThere' \in 0 .. 1 /\ GoneHome' \in 0 .. 1
  BY DEF OutThere, GoneHome
<1>4. Held' = Held
  BY DEF Held
<1>5. Base >= 0
  BY DEF IInv
<1> QED
  BY <1>2, <1>3, <1>4, <1>5, HeldFinite DEF BaseIsSum

-----------------------------------------------------------------------------
(* What a step may do to the world, to the order and to its worker          *)

WorldKept ==
  /\ scene' = scene
  /\ paycrest' \in [Orders -> PaycrestRow] /\ BridgeType'
  /\ PaidFor' /\ MintedThere' /\ Base' >= 0
  /\ Paid \subseteq Paid'
  /\ bridges["refund"].usdc = "there" => bridges'["refund"].usdc = "there"

OutRowKept == bridges'["out"].row = "none" <=> bridges["out"].row = "none"

OrderTurn ==
  /\ order' \in OrderRow /\ OrderOK'
  /\ \A s \in {"none", "confirmed", "failed"} : order'.status = s <=> order.status = s

JobTurn(w) == \E q \in Jobs :
  /\ work' = [work EXCEPT ![w] = q]
  /\ q.at \notin {"start", "mark"}
  /\ q.at = "send" => q.k \in Orders
  /\ q.at = "apply" /\ q.s = "settled" => Paid' # {}

LEMMA Turn ==
  ASSUME IInv, WorldKept, OutRowKept, OrderTurn, NEW w \in Workers, JobTurn(w), UNCHANGED dead,
         heard' \subseteq Orders \X {"pending", "settled", "refunding", "refunded", "expired"}
  PROVE  IInv'
<1>1. PICK q \in Jobs :
        /\ work' = [work EXCEPT ![w] = q] /\ q.at \notin {"start", "mark"}
        /\ q.at = "send" => q.k \in Orders
        /\ q.at = "apply" /\ q.s = "settled" => Paid' # {}
  BY DEF JobTurn
<1>2. work' \in [Workers -> Jobs] /\ work'[w] = q /\ \A v \in Workers \ {w} : work'[v] = work[v]
  BY <1>1 DEF IInv, Typed
<1>3. Typed'
  BY <1>2 DEF IInv, Typed, WorldKept, OrderTurn
<1>4. \A v \in Workers : JobOK(v)'
  BY <1>1, <1>2 DEF IInv, JobOK, WorldKept
<1>5. Starting'
  BY <1>1, <1>2 DEF IInv, Starting, OrderTurn, OutRowKept
<1> QED
  BY <1>3, <1>4, <1>5 DEF IInv, WorldKept, OrderTurn

LEMMA WorldSame == ASSUME IInv, UNCHANGED <<scene, bridges, paycrest>> PROVE WorldKept /\ OutRowKept
BY DEF IInv, Typed, WorldKept, OutRowKept, BridgeType, PaidFor, MintedThere, Base, Funded, Paid

LEMMA IdleJob == Idle \in Jobs /\ Idle.at = "idle"
BY BoundsAssumption DEF Idle, Jobs, Places, Bridges, PaycrestStatus

LEMMA RestTurn == ASSUME IInv, NEW w \in Workers, Rest(w) PROVE JobTurn(w)
BY IdleJob DEF Rest, Job, JobTurn

LEMMA GoTurn ==
  ASSUME IInv, NEW w \in Workers, NEW to \in Places \ {"start", "mark", "send", "apply"}, Go(w, to)
  PROVE  JobTurn(w)
<1> DEFINE q == [work[w] EXCEPT !.at = to]
<1>1. work[w] \in Jobs
  BY DEF IInv, Typed
<1>2. q \in Jobs /\ q.at = to
  BY <1>1 DEF Jobs
<1>3. work' = [work EXCEPT ![w] = q]
  BY DEF Go, IInv, Typed
<1> QED
  BY <1>2, <1>3 DEF JobTurn

LEMMA OrderSame == ASSUME IInv, WorldKept, UNCHANGED order PROVE OrderTurn
BY DEF IInv, Typed, OrderOK, OrderTurn, WorldKept

LEMMA MovesTurn ==
  ASSUME IInv, WorldKept, NEW from, from \cap {"none", "confirmed", "failed"} = {},
         NEW row \in OrderRow, Moves(from, row),
         row.status \notin {"none", "confirmed", "failed", "bridging_out", "completed"},
         row.status = "refunded" => bridges'["refund"].usdc = "there"
  PROVE  OrderTurn
<1>1. CASE order.status \in from
  BY <1>1 DEF Moves, OrderTurn, OrderOK
<1>2. CASE order.status \notin from
  BY <1>2, OrderSame DEF Moves
<1> QED
  BY <1>1, <1>2

\* Only the status changes.
LEMMA StatusRow == ASSUME IInv, NEW s \in Statuses
                   PROVE  [order EXCEPT !.status = s] \in OrderRow /\ [order EXCEPT !.status = s].status = s
BY DEF IInv, Typed, OrderRow

-----------------------------------------------------------------------------
(* Each action keeps the invariant                                          *)

LEMMA InitInv == Init => IInv
<1> SUFFICES ASSUME Init PROVE IInv
  OBVIOUS
<1>1. order \in OrderRow
  BY BoundsAssumption DEF Init, OrderRow, Statuses, TERMINAL, PaycrestStatus
<1>2. paycrest \in [Orders -> PaycrestRow]
  BY DEF Init, PaycrestRow, PaycrestStatus
<1>3. BridgeType
  BY DEF Init, BridgeInit, BridgeType
<1>4. Typed
  BY <1>1, <1>2, <1>3, IdleJob DEF Init, Typed
<1>5. PaidFor /\ MintedThere
  BY DEF Init, BridgeInit, PaidFor, MintedThere
<1>6. Base >= 0
  <2>1. Held = {} /\ OutThere = 0 /\ GoneHome = 0
    BY DEF Init, BridgeInit, Held, OutThere, GoneHome, Bridges
  <2>2. BaseIsSum
    BY BaseIs DEF Init, SceneOK
  <2> QED
    BY <2>1, <2>2, FS_EmptySet DEF BaseIsSum
<1>7. \A w \in Workers : JobOK(w)
  BY DEF Init, JobOK, Idle
<1>8. Starting
  BY DEF Init, BridgeInit, Starting, Idle, Bridges
<1>9. OrderOK
  BY DEF Init, OrderOK
<1> QED
  BY <1>4, <1>5, <1>6, <1>7, <1>8, <1>9 DEF IInv

\* The world moves; the order and the workers wait.
LEMMA WorldInv == ASSUME IInv, WorldKept, OutRowKept, UNCHANGED <<order, heard, work, dead>> PROVE IInv'
<1>1. Typed'
  BY DEF IInv, Typed, WorldKept
<1>2. \A w \in Workers : JobOK(w)'
  BY DEF IInv, JobOK, WorldKept
<1>3. Starting' /\ OrderOK'
  BY DEF IInv, Starting, OrderOK, WorldKept, OutRowKept
<1> QED
  BY <1>1, <1>2, <1>3 DEF IInv, WorldKept

\* One order at Paycrest changes, from a status that is not settled, or to
\* that same status.
LEMMA PaycrestRowSet ==
  ASSUME IInv, NEW k \in Orders, NEW r \in PaycrestRow, paycrest' = [paycrest EXCEPT ![k] = r],
         UNCHANGED <<scene, bridges>>,
         paycrest[k].status = "settled" => r.status = "settled",
         r.status \in {"pending", "settled", "refunding", "refunded"} => r.transfer = "done",
         \/ Base > 0
         \/ r.transfer = "done" /\ r.status # "refunded"
              => paycrest[k].transfer = "done" /\ paycrest[k].status # "refunded"
  PROVE  WorldKept /\ OutRowKept
<1>1. /\ paycrest' \in [Orders -> PaycrestRow] /\ paycrest'[k] = r
      /\ \A j \in Orders : j # k => paycrest'[j] = paycrest[j]
  BY DEF IInv, Typed
<1>2. PaidFor' /\ Paid \subseteq Paid'
  BY <1>1 DEF IInv, PaidFor, Paid
<1>3. Held' \subseteq Held \/ (Base > 0 /\ Held' \subseteq Held \cup {k})
  BY <1>1 DEF Held
<1>4. Base' >= 0
  BY <1>3, WalletCovered
<1>5. BridgeType' /\ MintedThere'
  BY DEF IInv, Typed, BridgeType, MintedThere
<1> QED
  BY <1>1, <1>2, <1>4, <1>5 DEF WorldKept, OutRowKept

LEMMA TransferLandsInv == ASSUME IInv, NEW k \in Orders, transferLands(k) PROVE IInv'
<1>1. paycrest[k] \in PaycrestRow /\ paycrest[k].transfer = "queued" /\ paycrest[k].status # "settled"
  BY DEF transferLands, IInv, Typed, PaidFor
<1>2. CASE Base = 0
  <2> DEFINE r == [paycrest[k] EXCEPT !.transfer = "failed"]
  <2>1. paycrest' = [paycrest EXCEPT ![k] = r]
    BY <1>2 DEF transferLands, IInv, Typed
  <2>2. r \in PaycrestRow /\ r.transfer = "failed" /\ r.status = paycrest[k].status
    BY <1>1 DEF PaycrestRow
  <2>3. r.status \notin {"pending", "settled", "refunding", "refunded"}
    BY <1>1, <2>2 DEF IInv, PaidFor
  <2> HIDE DEF r
  <2>4. WorldKept /\ OutRowKept
    BY <1>1, <2>1, <2>2, <2>3, PaycrestRowSet DEF transferLands
  <2> QED
    BY <2>4, WorldInv DEF transferLands
<1>3. CASE Base # 0
  <2> DEFINE st == IF paycrest[k].status = "open" THEN "pending" ELSE "refunding"
             r == [[paycrest[k] EXCEPT !.transfer = "done"] EXCEPT !.status = st]
  <2>1. paycrest' = [paycrest EXCEPT ![k] = r]
    BY <1>3 DEF transferLands, IInv, Typed
  <2>2. r \in PaycrestRow /\ r.transfer = "done" /\ r.status = st
    BY <1>1 DEF PaycrestRow, PaycrestStatus
  <2> HIDE DEF r
  <2>3. Base > 0
    <3>1. SceneOK
      BY DEF IInv, Typed, SceneOK
    <3>2. Base \in Int
      BY <3>1, BaseIs, HeldFinite DEF BaseIsSum, OutThere, GoneHome
    <3> QED
      BY <1>3, <3>2 DEF IInv
  <2>4. WorldKept /\ OutRowKept
    BY <1>1, <2>1, <2>2, <2>3, PaycrestRowSet DEF transferLands
  <2> QED
    BY <2>4, WorldInv DEF transferLands
<1> QED
  BY <1>2, <1>3

LEMMA DecidesInv == ASSUME IInv, NEW k \in Orders, decides(k) PROVE IInv'
<1>1. paycrest[k] \in PaycrestRow
  BY DEF IInv, Typed
<1>2. PICK s \in {"settled", "refunding", "refunded", "expired"} :
        /\ paycrest' = [paycrest EXCEPT ![k].status = s]
        /\ paycrest[k].status \in {"pending", "refunding", "open"}
        /\ s # "expired" => paycrest[k].status \in {"pending", "refunding"}
  BY DEF decides
<1> DEFINE r == [paycrest[k] EXCEPT !.status = s]
<1>3. paycrest' = [paycrest EXCEPT ![k] = r]
  BY <1>2 DEF IInv, Typed
<1>4. r \in PaycrestRow /\ r.status = s /\ r.transfer = paycrest[k].transfer
  BY <1>1 DEF PaycrestRow, PaycrestStatus
<1>5. s # "expired" => paycrest[k].transfer = "done"
  BY <1>2 DEF IInv, PaidFor
<1> HIDE DEF r
<1>6. r.transfer = "done" /\ r.status # "refunded" => paycrest[k].transfer = "done" /\ paycrest[k].status # "refunded"
  BY <1>2, <1>4
<1>7. WorldKept /\ OutRowKept
  BY <1>2, <1>3, <1>4, <1>5, <1>6, PaycrestRowSet DEF decides
<1> QED
  BY <1>7, WorldInv DEF decides

\* One bridge changes; only place says where the money is.
LEMMA BridgeRowSet ==
  ASSUME IInv, NEW b \in Bridges,
         NEW row \in {"none", "open", "minted", "failed"}, NEW usdc \in {"source", "burned", "there"},
         bridges' = [bridges EXCEPT ![b] = [row |-> row, usdc |-> usdc]], UNCHANGED <<scene, paycrest>>,
         row = "minted" => usdc = "there",
         bridges[b].usdc = "there" => usdc = "there",
         bridges[b].usdc # "source" => usdc # "source",
         b = "refund" /\ bridges[b].usdc = "source" /\ usdc # "source" => Base > 0
  PROVE  WorldKept /\ (b = "refund" \/ (row = "none" <=> bridges[b].row = "none") => OutRowKept)
<1>1. "out" \in Bridges /\ "refund" \in Bridges /\ "out" # "refund"
  BY DEF Bridges
<1>2. /\ BridgeType' /\ bridges'[b].row = row /\ bridges'[b].usdc = usdc
      /\ \A c \in Bridges : c # b => bridges'[c] = bridges[c]
  BY DEF IInv, Typed, BridgeType
<1>3. MintedThere'
  BY <1>2 DEF IInv, MintedThere
<1>4. \/ OutThere' >= OutThere /\ GoneHome' = GoneHome
      \/ OutThere' = OutThere /\ GoneHome' = GoneHome + 1 /\ Base > 0
  BY <1>1, <1>2 DEF OutThere, GoneHome, Bridges
<1>5. Base' >= 0
  BY <1>4, WalletOverBridges
<1>6. paycrest' \in [Orders -> PaycrestRow] /\ PaidFor' /\ Paid \subseteq Paid'
  BY DEF IInv, Typed, PaidFor, Paid
<1>7. bridges["refund"].usdc = "there" => bridges'["refund"].usdc = "there"
  BY <1>1, <1>2
<1>8. b = "refund" \/ (row = "none" <=> bridges[b].row = "none") => OutRowKept
  BY <1>1, <1>2 DEF OutRowKept
<1> QED
  BY <1>2, <1>3, <1>5, <1>6, <1>7, <1>8 DEF WorldKept

LEMMA BridgeIs ==
  ASSUME IInv, NEW b \in Bridges
  PROVE  /\ bridges[b].row \in {"none", "open", "minted", "failed"} /\ bridges[b].usdc \in {"source", "burned", "there"}
         /\ bridges[b].row = "minted" => bridges[b].usdc = "there"
         /\ \A x : /\ [bridges EXCEPT ![b].row = x] = [bridges EXCEPT ![b] = [row |-> x, usdc |-> bridges[b].usdc]]
                   /\ [bridges EXCEPT ![b].usdc = x] = [bridges EXCEPT ![b] = [row |-> bridges[b].row, usdc |-> x]]
BY DEF IInv, Typed, BridgeType, MintedThere

LEMMA MovesInv == ASSUME IInv, NEW b \in Bridges, moves(b) PROVE IInv'
<1>1. CASE burns(b)
  <2>1. bridges' = [bridges EXCEPT ![b] = [row |-> bridges[b].row, usdc |-> "burned"]]
    BY <1>1, BridgeIs DEF burns
  <2>2. WorldKept /\ OutRowKept
    BY <1>1, <2>1, BridgeIs, BridgeRowSet DEF moves, burns, arrives
  <2> QED
    BY <2>2, WorldInv DEF moves
<1>2. CASE arrives(b)
  <2>1. bridges' = [bridges EXCEPT ![b] = [row |-> bridges[b].row, usdc |-> "there"]]
    BY <1>2, BridgeIs DEF arrives
  <2>2. WorldKept /\ OutRowKept
    BY <1>2, <2>1, BridgeIs, BridgeRowSet DEF moves, arrives
  <2> QED
    BY <2>2, WorldInv DEF moves
<1> QED
  BY <1>1, <1>2 DEF moves

LEMMA PlaceInv == ASSUME IInv, NEW w \in Workers, place(w) PROVE IInv'
<1> DEFINE row == [order EXCEPT !.status = "confirmed"]  q == [work[w] EXCEPT !.at = "start"]
<1>1. order \in OrderRow /\ order.status = "none" /\ work[w] \in Jobs
  BY DEF place, IInv, Typed
<1>2. row \in OrderRow /\ row.status = "confirmed" /\ row.n = order.n
  BY <1>1 DEF OrderRow, Statuses
<1>3. q \in Jobs /\ q.at = "start"
  BY <1>1 DEF Jobs, Places
<1>4. work' = [work EXCEPT ![w] = q] /\ order' = row
  BY DEF place, Go, IInv, Typed
<1> HIDE DEF row, q
<1>5. work' \in [Workers -> Jobs] /\ work'[w] = q /\ \A v \in Workers \ {w} : work'[v] = work[v]
  BY <1>3, <1>4 DEF IInv, Typed
<1>6. WorldKept /\ OutRowKept
  BY WorldSame DEF place
<1>7. Typed'
  BY <1>2, <1>4, <1>5 DEF place, IInv, Typed, BridgeType
<1>8. Starting'
  BY <1>1, <1>2, <1>3, <1>4, <1>5, <1>6 DEF IInv, Starting, OutRowKept
<1>9. OrderOK'
  BY <1>1, <1>2, <1>4 DEF IInv, OrderOK
<1>10. \A v \in Workers : JobOK(v)'
  BY <1>3, <1>5, <1>6 DEF IInv, JobOK, WorldKept
<1> QED
  BY <1>6, <1>7, <1>8, <1>9, <1>10 DEF IInv, WorldKept

LEMMA StartOutInv == ASSUME IInv, NEW w \in Workers, startOut(w) PROVE IInv'
<1>1. /\ work[w] \in Jobs /\ work[w].at = "start" /\ order \in OrderRow
      /\ order.status = "confirmed" /\ order.n = 0 /\ bridges["out"].row = "none"
      /\ \A v \in Workers \ {w} : work[v].at \notin {"start", "mark"}
  BY DEF startOut, At, IInv, Typed, Starting, OrderOK
<1>2. "out" \in Bridges
  BY DEF Bridges
<1>3. CASE opens("out") /\ Go(w, "mark") /\ UNCHANGED order
  <2> DEFINE q == [work[w] EXCEPT !.at = "mark"]
  <2>1. q \in Jobs /\ q.at = "mark"
    BY <1>1 DEF Jobs, Places
  <2>2. work' = [work EXCEPT ![w] = q]
    BY <1>3 DEF Go, IInv, Typed
  <2> HIDE DEF q
  <2>3. work' \in [Workers -> Jobs] /\ work'[w] = q /\ \A v \in Workers \ {w} : work'[v] = work[v]
    BY <2>1, <2>2 DEF IInv, Typed
  <2>4. bridges' = [bridges EXCEPT !["out"] = [row |-> "open", usdc |-> bridges["out"].usdc]]
    BY <1>2, <1>3, BridgeIs DEF opens
  <2>5. WorldKept
    BY <1>2, <2>4, BridgeIs, BridgeRowSet DEF startOut
  <2>6. Typed'
    BY <1>3, <2>3, <2>5 DEF startOut, IInv, Typed, WorldKept
  <2>7. Starting'
    BY <1>1, <1>3, <2>1, <2>3 DEF Starting
  <2>8. OrderOK' /\ \A v \in Workers : JobOK(v)'
    BY <1>3, <2>1, <2>3, <2>5 DEF IInv, OrderOK, JobOK, WorldKept
  <2> QED
    BY <2>5, <2>6, <2>7, <2>8 DEF IInv, WorldKept
<1>4. CASE Moves({"confirmed"}, [order EXCEPT !.status = "failed"]) /\ Rest(w) /\ UNCHANGED bridges
  <2> DEFINE row == [order EXCEPT !.status = "failed"]
  <2>1. order' = row /\ work' = [work EXCEPT ![w] = Idle]
    BY <1>1, <1>4 DEF Moves, Rest, Job
  <2>2. row \in OrderRow /\ row.status = "failed" /\ row.n = 0
    BY <1>1 DEF OrderRow, Statuses, TERMINAL
  <2> HIDE DEF row
  <2>3. work' \in [Workers -> Jobs] /\ work'[w] = Idle /\ \A v \in Workers \ {w} : work'[v] = work[v]
    BY <2>1, IdleJob DEF IInv, Typed
  <2>4. WorldKept /\ OutRowKept
    BY <1>4, WorldSame DEF startOut
  <2>5. Typed'
    BY <2>1, <2>2, <2>3, <2>4 DEF startOut, IInv, Typed, WorldKept
  <2>6. Starting'
    BY <1>1, <2>1, <2>2, <2>3, <2>4, IdleJob DEF Starting, OutRowKept
  <2>7. OrderOK' /\ \A v \in Workers : JobOK(v)'
    BY <2>1, <2>2, <2>3, <2>4, IdleJob DEF IInv, OrderOK, JobOK, WorldKept
  <2> QED
    BY <2>4, <2>5, <2>6, <2>7 DEF IInv, WorldKept
<1> QED
  BY <1>3, <1>4 DEF startOut

LEMMA MarkOutInv == ASSUME IInv, NEW w \in Workers, markOut(w) PROVE IInv'
<1> DEFINE row == [order EXCEPT !.status = "bridging_out"]
<1>1. WorldKept /\ OutRowKept
  BY WorldSame DEF markOut
<1>2. CASE order.status # "confirmed"
  <2>1. UNCHANGED order
    BY <1>2 DEF markOut, Moves
  <2> QED
    BY <1>1, <2>1, OrderSame, RestTurn, Turn DEF markOut, IInv, Typed
<1>3. CASE order.status = "confirmed"
  <2>1. order' = row /\ work' = [work EXCEPT ![w] = Idle] /\ work[w].at = "mark"
    BY <1>3 DEF markOut, Moves, Rest, Job, At
  <2>2. row \in OrderRow /\ row.status = "bridging_out" /\ row.n = 0
    BY <1>3 DEF IInv, Typed, OrderOK, OrderRow, Statuses
  <2> HIDE DEF row
  <2>3. work' \in [Workers -> Jobs] /\ work'[w] = Idle /\ \A v \in Workers \ {w} : work'[v] = work[v]
    BY <2>1, IdleJob DEF IInv, Typed
  <2>4. Typed'
    BY <1>1, <2>1, <2>2, <2>3 DEF markOut, IInv, Typed, WorldKept
  <2>5. Starting'
    BY <2>1, <2>2, <2>3, IdleJob DEF IInv, Starting
  <2>6. OrderOK' /\ \A v \in Workers : JobOK(v)'
    BY <1>1, <2>1, <2>2, <2>3, IdleJob DEF IInv, OrderOK, JobOK, WorldKept
  <2> QED
    BY <1>1, <2>4, <2>5, <2>6 DEF IInv, WorldKept
<1> QED
  BY <1>2, <1>3

\* A worker that turns to a job of its own making.
LEMMA JobIs ==
  ASSUME NEW w \in Workers, NEW q \in Jobs, Job(w, q), q.at \notin {"start", "mark", "send", "apply"}
  PROVE  JobTurn(w)
BY DEF Job, JobTurn

LEMMA FinishesInv == ASSUME IInv, NEW w \in Workers, NEW b \in Bridges, finishes(w, b) PROVE IInv'
<1>1. JobTurn(w)
  <2> DEFINE q == [[Idle EXCEPT !.at = "emit"] EXCEPT !.b = b]
  <2>1. q \in Jobs /\ q.at = "emit"
    BY IdleJob DEF Jobs, Places
  <2>2. Job(w, q)
    BY DEF finishes
  <2> QED
    BY <2>1, <2>2, JobIs
<1>2. WorldKept /\ OutRowKept
  <2>1. CASE ends(b)
    <3>1. PICK row \in {"minted", "failed"} :
            /\ bridges' = [bridges EXCEPT ![b] = [row |-> row, usdc |-> bridges[b].usdc]]
            /\ row = "minted" => bridges[b].usdc = "there"
      BY <2>1, BridgeIs DEF ends
    <3>2. bridges[b].row = "open"
      BY <2>1 DEF ends
    <3> QED
      BY <3>1, <3>2, BridgeIs, BridgeRowSet DEF finishes
  <2>2. CASE UNCHANGED bridges
    BY <2>2, WorldSame DEF finishes
  <2> QED
    BY <2>1, <2>2 DEF finishes
<1> QED
  BY <1>1, <1>2, OrderSame, Turn DEF finishes, IInv, Typed

LEMMA OnOutFinishedInv == ASSUME IInv, NEW w \in Workers, onOutFinished(w) PROVE IInv'
<1>1. WorldKept /\ OutRowKept
  BY WorldSame DEF onOutFinished
<1>2. CASE bridges["out"].row = "minted" /\ order.status = "bridging_out"
  <2> DEFINE row == [order EXCEPT !.status = "on_base"]  q == [[Idle EXCEPT !.at = "take"] EXCEPT !.n = order.n + 1]
  <2>1. order' = row /\ Job(w, q)
    BY <1>2 DEF onOutFinished
  <2>2. row \in OrderRow /\ row.status = "on_base"
    BY StatusRow DEF Statuses
  <2>3. q \in Jobs /\ q.at = "take"
    <3>1. order.n = 0 /\ order.n + 1 \in 0 .. MaxSubmits + 2
      BY <1>2, BoundsAssumption DEF IInv, OrderOK
    <3> QED
      BY <3>1, IdleJob DEF Jobs, Places
  <2> HIDE DEF row, q
  <2>4. OrderTurn
    BY <1>2, <2>1, <2>2 DEF OrderTurn, OrderOK
  <2>5. JobTurn(w)
    BY <2>1, <2>3, JobIs
  <2> QED
    BY <1>1, <2>4, <2>5, Turn DEF onOutFinished, IInv, Typed
<1>3. CASE ~ (bridges["out"].row = "minted" /\ order.status = "bridging_out")
  <2>1. OrderTurn
    BY <1>1, <1>3, StatusRow, MovesTurn DEF onOutFinished, Statuses
  <2> QED
    BY <1>1, <1>3, <2>1, RestTurn, Turn DEF onOutFinished, IInv, Typed
<1> QED
  BY <1>2, <1>3

LEMMA OnRefundFinishedInv == ASSUME IInv, NEW w \in Workers, onRefundFinished(w) PROVE IInv'
<1>1. WorldKept /\ OutRowKept
  BY WorldSame DEF onRefundFinished
<1>2. PICK to \in {"refunded", "needs_review"} :
        /\ Moves({"refund_bridging"}, [order EXCEPT !.status = to])
        /\ to = "refunded" => bridges["refund"].row = "minted"
  BY DEF onRefundFinished
<1>3. to = "refunded" => bridges'["refund"].usdc = "there"
  BY <1>2 DEF onRefundFinished, IInv, MintedThere, Bridges
<1>4. [order EXCEPT !.status = to] \in OrderRow /\ [order EXCEPT !.status = to].status = to
  BY StatusRow DEF Statuses, TERMINAL
<1>5. OrderTurn
  BY <1>1, <1>2, <1>3, <1>4, MovesTurn
<1> QED
  BY <1>1, <1>5, RestTurn, Turn DEF onRefundFinished, IInv, Typed

LEMMA SubmitsInv == ASSUME IInv, NEW w \in Workers, submits(w) PROVE IInv'
<1> DEFINE q == [[Idle EXCEPT !.at = "take"] EXCEPT !.n = order.n + 1]
<1>1. order.n + 1 \in 0 .. MaxSubmits + 2
  BY BoundsAssumption DEF submits, IInv, Typed, OrderRow
<1>2. q \in Jobs /\ q.at = "take" /\ Job(w, q)
  BY <1>1, IdleJob DEF submits, Jobs, Places
<1> HIDE DEF q
<1>3. JobTurn(w)
  BY <1>2, JobIs
<1> QED
  BY <1>3, WorldSame, OrderSame, Turn DEF submits, IInv, Typed

LEMMA TakeInv == ASSUME IInv, NEW w \in Workers, take(w) PROVE IInv'
<1>1. WorldKept /\ OutRowKept
  BY WorldSame DEF take
<1>2. JobTurn(w)
  <2>1. CASE order.status = "on_base"
    <3> DEFINE q == [[work[w] EXCEPT !.at = "create"] EXCEPT !.ref = 2 * work[w].n]
    <3>1. work[w] \in Jobs /\ 2 * work[w].n \in Nat
      BY BoundsAssumption DEF IInv, Typed, Jobs
    <3>2. q \in Jobs /\ q.at = "create"
      BY <3>1 DEF Jobs, Places
    <3>3. Job(w, q)
      BY <2>1 DEF take
    <3> QED
      BY <3>2, <3>3, JobIs
  <2>2. CASE order.status # "on_base"
    BY <2>2, RestTurn DEF take
  <2> QED
    BY <2>1, <2>2
<1>3. OrderTurn
  BY <1>1, StatusRow, MovesTurn DEF take, Statuses
<1> QED
  BY <1>1, <1>2, <1>3, Turn DEF take, IInv, Typed

LEMMA CreateInv == ASSUME IInv, NEW w \in Workers, create(w) PROVE IInv'
<1>1. work[w] \in Jobs /\ work[w].at = "create"
  BY DEF IInv, Typed, create, At
<1>2. CASE UNCHANGED paycrest /\ \E answer \in {"unknown", "retry", "refused", "noUsdc"} : Go(w, answer)
  <2>1. JobTurn(w)
    BY <1>2, GoTurn DEF Places
  <2>2. WorldKept /\ OutRowKept
    BY <1>2, WorldSame DEF create
  <2> QED
    BY <2>1, <2>2, OrderSame, Turn DEF create, IInv, Typed
<1>3. CASE \E k \in Orders :
        /\ Making(k) /\ paycrest' = [paycrest EXCEPT ![k] = [status |-> "open", ref |-> work[w].ref, transfer |-> "none"]]
        /\ \/ Job(w, [work[w] EXCEPT !.at = "send", !.k = k, !.s = "open"])
           \/ Job(w, [work[w] EXCEPT !.ref = work[w].ref + 1])
           \/ Go(w, "review") \/ Go(w, "unknown")
  <2>1. PICK k \in Orders :
        /\ Making(k) /\ paycrest' = [paycrest EXCEPT ![k] = [status |-> "open", ref |-> work[w].ref, transfer |-> "none"]]
        /\ \/ Job(w, [work[w] EXCEPT !.at = "send", !.k = k, !.s = "open"])
           \/ Job(w, [work[w] EXCEPT !.ref = work[w].ref + 1])
           \/ Go(w, "review") \/ Go(w, "unknown")
    BY <1>3
  <2>2. WorldKept /\ OutRowKept
    <3> DEFINE r == [status |-> "open", ref |-> work[w].ref, transfer |-> "none"]
    <3>1. r \in PaycrestRow
      BY <1>1 DEF Jobs, PaycrestRow, PaycrestStatus
    <3>2. paycrest[k].status = "none"
      BY <2>1 DEF Making, Made
    <3> QED
      BY <2>1, <3>1, <3>2, PaycrestRowSet DEF create
  <2>3. JobTurn(w)
    <3>1. CASE Job(w, [work[w] EXCEPT !.at = "send", !.k = k, !.s = "open"])
      <4> DEFINE q == [[[work[w] EXCEPT !.at = "send"] EXCEPT !.k = k] EXCEPT !.s = "open"]
      <4>1. q \in Jobs /\ q.at = "send" /\ q.k = k
        BY <1>1 DEF Jobs, Places, PaycrestStatus
      <4> QED
        BY <3>1, <4>1 DEF Job, JobTurn
    <3>2. CASE Job(w, [work[w] EXCEPT !.ref = work[w].ref + 1])
      <4> DEFINE q == [work[w] EXCEPT !.ref = work[w].ref + 1]
      <4>1. q \in Jobs /\ q.at = "create"
        BY <1>1 DEF Jobs
      <4> QED
        BY <3>2, <4>1, JobIs
    <3>3. CASE Go(w, "review") \/ Go(w, "unknown")
      BY <3>3, GoTurn DEF Places
    <3> QED
      BY <2>1, <3>1, <3>2, <3>3
  <2> QED
    BY <2>2, <2>3, OrderSame, Turn DEF create, IInv, Typed
<1> QED
  BY <1>2, <1>3 DEF create

LEMMA AnsweredInv == ASSUME IInv, NEW w \in Workers, answered(w) PROVE IInv'
<1> DEFINE row == Answered(work[w].at, work[w].n, work[w].ref)
<1>1. WorldKept /\ OutRowKept
  BY WorldSame DEF answered
<1>2. work[w] \in Jobs /\ order \in OrderRow
  BY DEF IInv, Typed
<1>3. row \in OrderRow /\ row.status \in {"submit_unknown", "on_base", "needs_review", "refunded_on_base"}
  BY <1>2 DEF Answered, OrderRow, Jobs, Statuses
<1>4. Moves({"submitting"}, row)
  BY DEF answered
<1> HIDE DEF row
<1>5. OrderTurn
  BY <1>1, <1>3, <1>4, MovesTurn
<1>6. JobTurn(w)
  <2>1. Go(w, "home") \/ Go(w, "giveUp") \/ Rest(w)
    BY DEF answered
  <2> QED
    BY <2>1, GoTurn, RestTurn DEF Places
<1> QED
  BY <1>1, <1>5, <1>6, Turn DEF answered, IInv, Typed

LEMMA GiveUpInv == ASSUME IInv, NEW w \in Workers, giveUp(w) PROVE IInv'
<1>1. WorldKept /\ OutRowKept
  BY WorldSame DEF giveUp
<1>2. OrderTurn
  BY <1>1, StatusRow, MovesTurn DEF giveUp, Statuses
<1> QED
  BY <1>1, <1>2, RestTurn, Turn DEF giveUp, IInv, Typed

\* Circle takes a transfer, or has it already.
LEMMA SentKeeps == ASSUME IInv, NEW k \in Orders, Sent(k), UNCHANGED <<scene, bridges>> PROVE WorldKept /\ OutRowKept
<1>1. CASE UNCHANGED paycrest
  BY <1>1, WorldSame
<1>2. CASE paycrest[k].transfer = "none" /\ paycrest' = [paycrest EXCEPT ![k].transfer = "queued"]
  <2> DEFINE r == [paycrest[k] EXCEPT !.transfer = "queued"]
  <2>1. paycrest' = [paycrest EXCEPT ![k] = r]
    BY <1>2 DEF IInv, Typed
  <2>2. r \in PaycrestRow /\ r.transfer = "queued" /\ r.status = paycrest[k].status
    BY DEF IInv, Typed, PaycrestRow
  <2>3. r.status \notin {"pending", "settled", "refunding", "refunded"}
    BY <1>2, <2>2 DEF IInv, PaidFor
  <2> HIDE DEF r
  <2> QED
    BY <2>1, <2>2, <2>3, PaycrestRowSet
<1> QED
  BY <1>1, <1>2 DEF Sent

LEMMA SendInv == ASSUME IInv, NEW w \in Workers, send(w) PROVE IInv'
<1>1. work[w].k \in Orders
  BY DEF send, At, IInv, JobOK
<1>2. WorldKept /\ OutRowKept
  <2>1. CASE UNCHANGED paycrest
    BY <2>1, WorldSame DEF send
  <2>2. CASE Sent(work[w].k)
    BY <1>1, <2>2, SentKeeps DEF send
  <2> QED
    BY <2>1, <2>2 DEF send
<1>3. JobTurn(w)
  <2>1. Go(w, "fund") \/ Go(w, "unsent")
    BY DEF send
  <2> QED
    BY <2>1, GoTurn DEF Places
<1> QED
  BY <1>2, <1>3, OrderSame, Turn DEF send, IInv, Typed

LEMMA UnsentInv == ASSUME IInv, NEW w \in Workers, unsent(w) PROVE IInv'
<1>1. WorldKept /\ OutRowKept
  BY WorldSame DEF unsent
<1>2. OrderTurn
  BY <1>1, StatusRow, MovesTurn DEF unsent, Statuses
<1> QED
  BY <1>1, <1>2, RestTurn, Turn DEF unsent, IInv, Typed

LEMMA FundInv == ASSUME IInv, NEW w \in Workers, fund(w) PROVE IInv'
<1> DEFINE row == [[[order EXCEPT !.status = "awaiting_settlement"] EXCEPT !.pc = work[w].k] EXCEPT !.echo = work[w].s]
<1>1. WorldKept /\ OutRowKept
  BY WorldSame DEF fund
<1>2. work[w] \in Jobs /\ order \in OrderRow
  BY DEF IInv, Typed
<1>3. row \in OrderRow /\ row.status = "awaiting_settlement"
  BY <1>2 DEF OrderRow, Jobs, Statuses
<1>4. Moves({"submitting", "submit_unknown"}, row)
  BY DEF fund, Moves
<1> HIDE DEF row
<1>5. OrderTurn
  BY <1>1, <1>3, <1>4, MovesTurn
<1> QED
  BY <1>1, <1>5, RestTurn, Turn DEF fund, IInv, Typed

LEMMA ResolveInv == ASSUME IInv, NEW w \in Workers, resolve(w) PROVE IInv'
<1>1. WorldKept /\ OutRowKept
  BY WorldSame DEF resolve
<1>2. CASE \E k \in Made : Job(w, [Idle EXCEPT !.at = "send", !.k = k, !.s = paycrest[k].status]) /\ UNCHANGED order
  <2>1. PICK k \in Made : Job(w, [Idle EXCEPT !.at = "send", !.k = k, !.s = paycrest[k].status])
    BY <1>2
  <2> DEFINE q == [[[Idle EXCEPT !.at = "send"] EXCEPT !.k = k] EXCEPT !.s = paycrest[k].status]
  <2>2. k \in Orders /\ paycrest[k].status \in PaycrestStatus
    BY DEF Made, IInv, Typed, PaycrestRow
  <2>3. q \in Jobs /\ q.at = "send" /\ q.k = k
    BY <2>2, IdleJob DEF Jobs, Places
  <2>4. JobTurn(w)
    BY <2>1, <2>2, <2>3 DEF Job, JobTurn
  <2> QED
    BY <1>1, <1>2, <2>4, OrderSame, Turn DEF resolve, IInv, Typed
<1>3. CASE order' = [order EXCEPT !.status = "on_base"] /\ UNCHANGED work
  <2>1. Moves({"submit_unknown"}, [order EXCEPT !.status = "on_base"])
    BY <1>3 DEF resolve, Moves
  <2>2. OrderTurn
    BY <1>1, <2>1, StatusRow, MovesTurn DEF Statuses
  <2>3. JobTurn(w)
    <3>1. work[w] \in Jobs /\ work[w].at = "idle" /\ work' = [work EXCEPT ![w] = work[w]]
      BY <1>3 DEF resolve, Begins, At, IInv, Typed
    <3> QED
      BY <3>1 DEF JobTurn
  <2> QED
    BY <1>1, <2>2, <2>3, Turn DEF resolve, IInv, Typed
<1> QED
  BY <1>2, <1>3 DEF resolve

\* A worker that heard "settled" from Paycrest will apply it.
LEMMA ApplyJob ==
  ASSUME IInv, WorldKept, NEW w \in Workers, NEW s \in PaycrestStatus, s = "settled" => Paid # {},
         Job(w, [Idle EXCEPT !.at = "apply", !.s = s])
  PROVE  JobTurn(w)
<1> DEFINE q == [[Idle EXCEPT !.at = "apply"] EXCEPT !.s = s]
<1>1. q \in Jobs /\ q.at = "apply" /\ q.s = s
  BY IdleJob DEF Jobs, Places
<1>2. s = "settled" => Paid' # {}
  BY DEF WorldKept
<1> QED
  BY <1>1, <1>2 DEF Job, JobTurn

LEMMA PollInv == ASSUME IInv, NEW w \in Workers, poll(w) PROVE IInv'
<1>1. WorldKept /\ OutRowKept
  BY WorldSame DEF poll
<1>2. order.pc \in Orders
  BY DEF poll, IInv, Typed, OrderRow
<1>3. paycrest[order.pc].status \in PaycrestStatus /\ (paycrest[order.pc].status = "settled" => Paid # {})
  BY <1>2 DEF IInv, Typed, PaycrestRow, Paid
<1>4. JobTurn(w)
  BY <1>1, <1>3, ApplyJob DEF poll
<1> QED
  BY <1>1, <1>4, OrderSame, Turn DEF poll, IInv, Typed

LEMMA HearInv == ASSUME IInv, NEW w \in Workers, hear(w) PROVE IInv'
<1>1. WorldKept /\ OutRowKept
  BY WorldSame DEF hear
<1>0. PICK k \in Made : \E s \in Said(k) :
        /\ heard' = heard \cup {<<k, s>>}
        /\ order' = IF order.pc = 0 THEN [order EXCEPT !.pc = k] ELSE order
        /\ Job(w, [Idle EXCEPT !.at = "apply", !.s = s])
  BY DEF hear
<1>2. PICK s \in Said(k) :
        /\ heard' = heard \cup {<<k, s>>}
        /\ order' = IF order.pc = 0 THEN [order EXCEPT !.pc = k] ELSE order
        /\ Job(w, [Idle EXCEPT !.at = "apply", !.s = s])
  BY <1>0
<1>3. k \in Orders /\ paycrest[k].status \in PaycrestStatus
  BY DEF Made, IInv, Typed, PaycrestRow
<1>4. s \in {"pending", "settled", "refunding", "refunded", "expired"} /\ (s = "settled" => paycrest[k].status = "settled")
  BY <1>3 DEF Said, PaycrestStatus
<1>5. JobTurn(w)
  BY <1>1, <1>2, <1>3, <1>4, ApplyJob DEF Paid, PaycrestStatus
<1>6. OrderTurn
  <2>1. order' \in OrderRow /\ order'.status = order.status /\ order'.n = order.n
    BY <1>2, <1>3 DEF IInv, Typed, OrderRow
  <2> QED
    BY <1>1, <2>1 DEF IInv, OrderOK, OrderTurn, WorldKept
<1>7. heard' \subseteq Orders \X {"pending", "settled", "refunding", "refunded", "expired"}
  BY <1>2, <1>3, <1>4 DEF IInv, Typed
<1> QED
  BY <1>1, <1>5, <1>6, <1>7, Turn DEF hear

LEMMA NoLoop == \A s \in Statuses : s \notin TRANSITIONS[s]
BY DEF TRANSITIONS, Statuses, TERMINAL

\* What Paycrest says never moves an order that has not started or has ended.
LEMMA ImpliedTo ==
  ASSUME IInv, NEW s \in PaycrestStatus, May(Implied(s))
  PROVE  /\ order.status \notin {"none", "confirmed", "failed"}
         /\ Implied(s) \in {"processing", "completed", "refunding", "refunded_on_base", "needs_review"}
         /\ Implied(s) = "completed" => s = "settled"
         /\ Implied(s) = "refunded_on_base" => s = "refunded"
<1>1. order.status \in Statuses
  BY DEF IInv, Typed, OrderRow
<1>2. \/ Implied(s) \in {"processing", "refunding", "needs_review"}
      \/ Implied(s) = "refunded_on_base" /\ s = "refunded"
      \/ Implied(s) = "completed" /\ s = "settled"
      \/ Implied(s) = order.status
  BY DEF Implied
<1>3. order.status \notin TRANSITIONS[order.status]
  BY <1>1, NoLoop
<1>4. Implied(s) # order.status
  BY <1>3 DEF May
<1>5. order.status \notin {"none", "confirmed", "failed"}
  <2>1. TRANSITIONS["none"] = {} /\ TRANSITIONS["failed"] = {} /\ TRANSITIONS["confirmed"] = {"bridging_out", "failed"}
    BY DEF TRANSITIONS, Statuses, TERMINAL
  <2> QED
    BY <1>2, <1>4, <2>1 DEF May
<1> QED
  BY <1>2, <1>4, <1>5

LEMMA ApplyInv == ASSUME IInv, NEW w \in Workers, apply(w) PROVE IInv'
<1> DEFINE to == Implied(work[w].s)
<1>1. WorldKept /\ OutRowKept
  BY WorldSame DEF apply
<1>2. work[w] \in Jobs /\ (work[w].s = "settled" => Paid # {})
  BY DEF IInv, Typed, JobOK, apply, At
<1>3. JobTurn(w)
  <2>1. PICK b \in Bridges : Job(w, [work[w] EXCEPT !.at = "echo", !.b = b])
    BY DEF apply, Bridges
  <2> DEFINE q == [[work[w] EXCEPT !.at = "echo"] EXCEPT !.b = b]
  <2>2. q \in Jobs /\ q.at = "echo"
    BY <1>2 DEF Jobs, Places
  <2> QED
    BY <2>1, <2>2, JobIs
<1>4. OrderTurn
  <2>1. CASE May(to)
    <3>1. /\ order.status \notin {"none", "confirmed", "failed"}
          /\ to \in {"processing", "completed", "refunding", "refunded_on_base", "needs_review"}
          /\ to = "completed" => work[w].s = "settled"
      BY <1>2, <2>1, ImpliedTo DEF Jobs
    <3>2. order' = [order EXCEPT !.status = to]
      BY <2>1 DEF apply
    <3> HIDE DEF to
    <3>3. order' \in OrderRow /\ order'.status = to
      BY <3>1, <3>2, StatusRow DEF Statuses, TERMINAL
    <3>4. to = "completed" => Paid' # {}
      BY <1>1, <1>2, <3>1 DEF WorldKept
    <3> QED
      BY <3>1, <3>3, <3>4 DEF OrderTurn, OrderOK
  <2>2. CASE ~ May(to)
    BY <1>1, <2>2, OrderSame DEF apply
  <2> QED
    BY <2>1, <2>2
<1> QED
  BY <1>1, <1>3, <1>4, Turn DEF apply, IInv, Typed

LEMMA EchoInv == ASSUME IInv, NEW w \in Workers, echo(w) PROVE IInv'
<1>1. WorldKept /\ OutRowKept
  BY WorldSame DEF echo
<1>2. OrderTurn
  <2>1. order' \in OrderRow /\ order'.status = order.status /\ order'.n = order.n
    BY DEF echo, IInv, Typed, OrderRow, Jobs
  <2> QED
    BY <1>1, <2>1 DEF IInv, OrderOK, OrderTurn, WorldKept
<1>3. JobTurn(w)
  BY GoTurn, RestTurn DEF echo, Places
<1> QED
  BY <1>1, <1>2, <1>3, Turn DEF echo, IInv, Typed

LEMMA ReturnsInv == ASSUME IInv, NEW w \in Workers, returns(w) PROVE IInv'
BY WorldSame, OrderSame, GoTurn, Turn DEF returns, Places, IInv, Typed

LEMMA HomeInv == ASSUME IInv, NEW w \in Workers, home(w) PROVE IInv'
<1>1. JobTurn(w)
  BY GoTurn, RestTurn DEF home, Places
<1> QED
  BY <1>1, WorldSame, OrderSame, Turn DEF home, IInv, Typed

LEMMA BringInv == ASSUME IInv, NEW w \in Workers, bring(w) PROVE IInv'
<1>1. "refund" \in Bridges
  BY DEF Bridges
<1>2. WorldKept /\ OutRowKept
  <2>1. CASE opens("refund")
    <3>1. bridges' = [bridges EXCEPT !["refund"] = [row |-> "open", usdc |-> bridges["refund"].usdc]]
      BY <1>1, <2>1, BridgeIs DEF opens
    <3> QED
      BY <1>1, <3>1, BridgeIs, BridgeRowSet DEF bring
  <2>2. CASE UNCHANGED bridges
    BY <2>2, WorldSame DEF bring
  <2> QED
    BY <2>1, <2>2 DEF bring
<1>3. JobTurn(w)
  BY GoTurn DEF bring, Places
<1> QED
  BY <1>2, <1>3, OrderSame, Turn DEF bring, IInv, Typed

LEMMA HomeMarkInv == ASSUME IInv, NEW w \in Workers, homeMark(w) PROVE IInv'
<1>1. WorldKept /\ OutRowKept
  BY WorldSame DEF homeMark
<1>2. OrderTurn
  BY <1>1, StatusRow, MovesTurn DEF homeMark, Statuses
<1> QED
  BY <1>1, <1>2, RestTurn, Turn DEF homeMark, IInv, Typed

LEMMA CrashInv == ASSUME IInv, NEW w \in Workers, crash(w) PROVE IInv'
<1>1. WorldKept /\ OutRowKept
  BY WorldSame DEF crash
<1>2. Typed'
  BY <1>1 DEF crash, IInv, Typed, WorldKept
<1>3. \A v \in Workers : JobOK(v)'
  BY <1>1 DEF crash, IInv, JobOK, WorldKept
<1>4. Starting' /\ OrderOK'
  BY <1>1 DEF crash, IInv, Starting, OrderOK, WorldKept, OutRowKept
<1> QED
  BY <1>1, <1>2, <1>3, <1>4 DEF IInv, WorldKept

LEMMA StepInv == ASSUME IInv, NEW w \in Workers, step(w) PROVE IInv'
BY StartOutInv, MarkOutInv, OnOutFinishedInv, OnRefundFinishedInv, TakeInv, CreateInv, AnsweredInv, GiveUpInv,
   SendInv, UnsentInv, FundInv, ApplyInv, EchoInv, HomeInv, BringInv, HomeMarkInv DEF step

LEMMA NextInv == IInv /\ [Next]_vars => IInv'
<1> SUFFICES ASSUME IInv, [Next]_vars PROVE IInv'
  OBVIOUS
<1>1. CASE UNCHANGED vars
  <2>1. UNCHANGED <<scene, order, bridges, paycrest, heard, work, dead>>
    BY <1>1 DEF vars
  <2> QED
    BY <2>1, WorldSame, WorldInv
<1>2. CASE world
  BY <1>2, TransferLandsInv, DecidesInv, MovesInv DEF world
<1>3. ASSUME NEW w \in Workers, place(w) \/ step(w) \/ hear(w) \/ crash(w) PROVE IInv'
  BY <1>3, PlaceInv, StepInv, HearInv, CrashInv
<1>4. ASSUME NEW w \in Workers, begin(w) PROVE IInv'
  BY <1>4, FinishesInv, SubmitsInv, ResolveInv, PollInv, ReturnsInv DEF begin
<1> QED
  BY <1>1, <1>2, <1>3, <1>4 DEF Next

LEMMA SpecInv == Spec => []IInv
BY InitInv, NextInv, PTL DEF Spec

-----------------------------------------------------------------------------
(* The theorems                                                             *)

\* Types; with them, the out wallet never owes USDC (Base >= 0): what goes to
\* Paycrest or back home has come from the bridge out or is somebody else's.
THEOREM TypeCorrect == Spec => []TypeOK
<1>1. IInv => TypeOK
  BY DEF IInv, Typed, TypeOK, OrderRow, PaycrestRow, PaycrestStatus
<1> QED
  BY <1>1, SpecInv, PTL

\* The out wallet pays at most what it is given: the bank payments and the
\* refund of an order together take its own unit and the strays.
PaidWithinMeans ==
  Cardinality(Paid) + (IF bridges["refund"].usdc = "source" THEN 0 ELSE 1) <= 1 + scene.stray

LEMMA Means == IInv => PaidWithinMeans
<1> SUFFICES ASSUME IInv PROVE PaidWithinMeans
  OBVIOUS
<1>1. BaseIsSum /\ Base >= 0
  BY BaseIs DEF IInv, Typed, SceneOK
<1>2. Paid \subseteq Held
  BY DEF IInv, PaidFor, Paid, Held
<1>3. Cardinality(Paid) <= Cardinality(Held) /\ Cardinality(Paid) \in Nat
  BY <1>2, HeldFinite, FS_Subset, FS_CardinalityType
<1> QED
  BY <1>1, <1>3, HeldFinite DEF BaseIsSum, PaidWithinMeans, OutThere, GoneHome

THEOREM PaidFromTheWallet == Spec => []PaidWithinMeans
BY Means, SpecInv, PTL

-----------------------------------------------------------------------------
(* Next to somebody else's USDC                                             *)
(*                                                                          *)
(* With a stray unit in the wallet the sum no longer tells a second         *)
(* transfer from the first.  What does is the order: while workers take     *)
(* turns, none dies and no answer is lost, it says whether a transfer was   *)
(* ever given, and it is never again before its payment once it is past it. *)

Undisturbed == ~ (scene.stalls \/ scene.dies \/ scene.lossy)

\* No transfer to Paycrest was given yet.
Before == {"none", "confirmed", "bridging_out", "on_base", "submitting", "submit_unknown"}
Unpaid == \A k \in Orders : paycrest[k].transfer = "none"

\* Whatever was sent is in the wallet again.
Homeward == {"refunded_on_base", "refund_bridging", "refunded"}
Returned == \A k \in Orders : paycrest[k].transfer \in {"none", "failed"} \/ paycrest[k].status = "refunded"

OneTransfer == \A j, k \in Orders : paycrest[j].transfer # "none" /\ paycrest[k].transfer # "none" => j = k

InTurn == dead = {} /\ \A v, w \in Workers : work[v].at # "idle" /\ work[w].at # "idle" => v = w

\* What the worker under way knows of the order and of the money.
Knows(w) ==
  /\ work[w].at = "create" => order.status = "submitting"
  /\ work[w].at \in {"send", "fund"} => order.status \in {"submitting", "submit_unknown"}
  /\ work[w].at = "apply" /\ work[w].s = "refunded" => \E k \in Orders : paycrest[k].status = "refunded"
  /\ work[w].at \in {"bring", "homeMark"} => Returned /\ order.status \notin Before

RefundOK ==
  /\ bridges["refund"].row # "none" => Returned /\ order.status \notin Before
  /\ bridges["refund"].usdc # "source" => bridges["refund"].row # "none"

\* The order knows of the only transfer.
OrderKnows ==
  /\ OneTransfer
  /\ order.status \in Before /\ (\A w \in Workers : work[w].at # "fund") => Unpaid
  /\ order.status \in Homeward => Returned

CalmInv == Undisturbed => InTurn /\ OrderKnows /\ RefundOK /\ \A w \in Workers : Knows(w)

\* Only the worker w is under way.
Alone(w) == dead = {} /\ \A v \in Workers \ {w} : work[v].at = "idle"

LEMMA ActsAlone ==
  ASSUME CalmInv, Undisturbed, NEW w \in Workers, Begins(w) \/ work[w].at # "idle"
  PROVE  Alone(w) /\ Knows(w) /\ OrderKnows /\ RefundOK
BY DEF CalmInv, InTurn, Alone, Begins, At, Undisturbed

\* No transfer is given, none that failed goes through, and what came back
\* stays.
Gentle == \A k \in Orders :
  /\ paycrest'[k].transfer # "none" => paycrest[k].transfer # "none"
  /\ paycrest[k].status = "refunded" => paycrest'[k].status = "refunded"
  /\ paycrest[k].transfer \in {"none", "failed"} => paycrest'[k].transfer \in {"none", "failed"}

LEMMA GentleKeeps ==
  ASSUME Gentle
  PROVE  /\ Unpaid => Unpaid'
         /\ Returned => Returned'
         /\ OneTransfer => OneTransfer'
         /\ (\E k \in Orders : paycrest[k].status = "refunded") => \E k \in Orders : paycrest'[k].status = "refunded"
BY DEF Gentle, Unpaid, Returned, OneTransfer

LEMMA Untouched == ASSUME UNCHANGED paycrest PROVE Gentle
BY DEF Gentle

\* A step of w that gives no transfer to Paycrest.
QuietStep(w) ==
  /\ UNCHANGED <<scene, dead>> /\ Gentle /\ \A v \in Workers \ {w} : work'[v] = work[v]
  /\ order'.status \in Before => order.status \in Before /\ work[w].at # "fund"
  /\ order'.status \in Homeward => Returned
  /\ bridges["refund"].row # "none" => bridges'["refund"].row # "none"
  /\ bridges'["refund"].row # "none" =>
       bridges["refund"].row # "none" \/ (Returned /\ order'.status \notin Before)
  /\ bridges'["refund"].usdc = bridges["refund"].usdc
  /\ work'[w].at # "fund"
  /\ work'[w].at = "create" => order'.status = "submitting"
  /\ work'[w].at = "send" => order'.status \in {"submitting", "submit_unknown"}
  /\ work'[w].at = "apply" /\ work'[w].s = "refunded" => \E k \in Orders : paycrest[k].status = "refunded"
  /\ work'[w].at \in {"bring", "homeMark"} => Returned /\ order'.status \notin Before

LEMMA Quietly ==
  ASSUME CalmInv, Undisturbed, NEW w \in Workers, Alone(w), QuietStep(w)
  PROVE  CalmInv'
<1>1. OrderKnows /\ RefundOK /\ \A v \in Workers \ {w} : work'[v].at = "idle"
  BY DEF CalmInv, Alone, QuietStep
<1>2. InTurn'
  BY <1>1 DEF Alone, QuietStep, InTurn
<1>3. /\ Unpaid => Unpaid'
      /\ Returned => Returned'
      /\ OneTransfer => OneTransfer'
      /\ (\E k \in Orders : paycrest[k].status = "refunded") => \E k \in Orders : paycrest'[k].status = "refunded"
  BY GentleKeeps DEF QuietStep
<1>4. OrderKnows'
  <2>1. order'.status \in Before => Unpaid
    BY <1>1 DEF OrderKnows, Alone, QuietStep
  <2> QED
    BY <1>1, <1>3, <2>1 DEF OrderKnows, QuietStep
<1>5. RefundOK'
  <2>1. bridges'["refund"].row # "none" => Returned /\ order'.status \notin Before
    BY <1>1 DEF RefundOK, QuietStep
  <2>2. bridges'["refund"].usdc # "source" => bridges'["refund"].row # "none"
    BY <1>1 DEF RefundOK, QuietStep
  <2> QED
    BY <1>3, <2>1, <2>2 DEF RefundOK
<1>6. \A v \in Workers : Knows(v)'
  <2>1. Knows(w)'
    BY <1>3 DEF Knows, QuietStep
  <2>2. \A v \in Workers \ {w} : Knows(v)'
    BY <1>1 DEF Knows
  <2> QED
    BY <2>1, <2>2
<1> QED
  BY <1>2, <1>4, <1>5, <1>6 DEF CalmInv

\* What becomes of the job of w, and of the order.
LEMMA TurnsTo ==
  ASSUME IInv, NEW w \in Workers, NEW q, Job(w, q)
  PROVE  work'[w] = q /\ \A v \in Workers \ {w} : work'[v] = work[v]
BY DEF Job, IInv, Typed

LEMMA Rests ==
  ASSUME IInv, NEW w \in Workers, Rest(w)
  PROVE  work'[w].at = "idle" /\ \A v \in Workers \ {w} : work'[v] = work[v]
BY TurnsTo, IdleJob DEF Rest

LEMMA GoesTo ==
  ASSUME IInv, NEW w \in Workers, NEW there, Go(w, there)
  PROVE  /\ work'[w].at = there /\ work'[w].s = work[w].s /\ work'[w].k = work[w].k
         /\ \A v \in Workers \ {w} : work'[v] = work[v]
BY DEF Go, IInv, Typed, Jobs

LEMMA MovesTo ==
  ASSUME IInv, NEW from, NEW s \in Statuses, Moves(from, [order EXCEPT !.status = s])
  PROVE  \/ order.status \in from /\ order'.status = s
         \/ order.status \notin from /\ order' = order
BY StatusRow DEF Moves

LEMMA StartCalm ==
  ASSUME IInv, CalmInv, Undisturbed, NEW w \in Workers, place(w) \/ startOut(w) \/ markOut(w)
  PROVE  CalmInv'
<1>1. Alone(w) /\ Knows(w) /\ OrderKnows /\ work[w].at # "fund"
  BY ActsAlone DEF place, startOut, markOut, Begins, At
<1>2. /\ work'[w].at \in {"idle", "start", "mark"} /\ \A v \in Workers \ {w} : work'[v] = work[v]
      /\ UNCHANGED <<scene, dead, paycrest>>
  BY GoesTo, Rests DEF place, startOut, markOut
<1>3. bridges'["refund"] = bridges["refund"]
  BY DEF place, startOut, markOut, opens, IInv, Typed, BridgeType, Bridges
<1>4. \/ order' = order
      \/ order.status \in {"none", "confirmed"} /\ order'.status \in {"confirmed", "failed", "bridging_out"}
  BY MovesTo, StatusRow DEF place, startOut, markOut, Statuses, TERMINAL
<1>5. QuietStep(w)
  BY <1>1, <1>2, <1>3, <1>4, Untouched DEF QuietStep, Before, Homeward, OrderKnows
<1> QED
  BY <1>1, <1>5, Quietly


LEMMA FinishesCalm ==
  ASSUME IInv, CalmInv, Undisturbed, NEW w \in Workers, NEW b \in Bridges, finishes(w, b)
  PROVE  CalmInv'
<1>1. Alone(w) /\ OrderKnows /\ work[w].at # "fund"
  BY ActsAlone DEF finishes, Begins, At
<1>2. /\ work'[w].at = "emit" /\ \A v \in Workers \ {w} : work'[v] = work[v]
      /\ UNCHANGED <<scene, dead, paycrest, order>>
  <2> DEFINE q == [[Idle EXCEPT !.at = "emit"] EXCEPT !.b = b]
  <2>1. q.at = "emit" /\ Job(w, q)
    BY DEF finishes, Idle
  <2> QED
    BY <2>1, TurnsTo DEF finishes
<1>3. /\ bridges["refund"].row # "none" <=> bridges'["refund"].row # "none"
      /\ bridges'["refund"].usdc = bridges["refund"].usdc
  BY DEF finishes, ends, IInv, Typed, BridgeType, Bridges
<1>4. QuietStep(w)
  BY <1>1, <1>2, <1>3, Untouched DEF QuietStep, OrderKnows
<1> QED
  BY <1>1, <1>4, Quietly


LEMMA OnFinishedCalm ==
  ASSUME IInv, CalmInv, Undisturbed, NEW w \in Workers, onOutFinished(w) \/ onRefundFinished(w)
  PROVE  CalmInv'
<1>1. Alone(w) /\ OrderKnows /\ work[w].at = "emit"
  BY ActsAlone DEF onOutFinished, onRefundFinished, At
<1>2. UNCHANGED <<scene, dead, paycrest, bridges>>
  BY DEF onOutFinished, onRefundFinished
<1>3. /\ work'[w].at \in {"idle", "take"} /\ \A v \in Workers \ {w} : work'[v] = work[v]
  <2> DEFINE q == [[Idle EXCEPT !.at = "take"] EXCEPT !.n = order.n + 1]
  <2>1. q.at = "take"
    BY DEF Idle
  <2>2. Job(w, q) \/ Rest(w)
    BY DEF onOutFinished, onRefundFinished
  <2> HIDE DEF q
  <2> QED
    BY <2>1, <2>2, TurnsTo, Rests
<1>4. \/ order' = order
      \/ order.status = "bridging_out" /\ order'.status \in {"on_base", "needs_review"}
      \/ order.status = "refund_bridging" /\ order'.status \in {"refunded", "needs_review"}
  <2>1. CASE onOutFinished(w)
    BY <2>1, MovesTo, StatusRow DEF onOutFinished, Statuses
  <2>2. CASE onRefundFinished(w)
    BY <2>2, MovesTo DEF onRefundFinished, Statuses, TERMINAL
  <2> QED
    BY <2>1, <2>2
<1>5. QuietStep(w)
  BY <1>1, <1>2, <1>3, <1>4, Untouched DEF QuietStep, Before, Homeward, OrderKnows
<1> QED
  BY <1>1, <1>5, Quietly


LEMMA TakeCalm ==
  ASSUME IInv, CalmInv, Undisturbed, NEW w \in Workers, submits(w) \/ take(w) \/ giveUp(w) \/ unsent(w)
  PROVE  CalmInv'
<1>1. Alone(w) /\ OrderKnows /\ work[w].at # "fund"
  BY ActsAlone DEF submits, take, giveUp, unsent, Begins, At
<1>2. UNCHANGED <<scene, dead, paycrest, bridges>>
  BY DEF submits, take, giveUp, unsent
<1>3. /\ \/ work'[w].at \in {"idle", "take"} /\ order' = order
         \/ work'[w].at = "create" /\ order.status = "on_base" /\ order'.status = "submitting"
         \/ work'[w].at = "idle" /\ order.status \in {"submitting", "submit_unknown"} /\ order'.status = "on_base"
         \/ work'[w].at = "idle" /\ order.status = "on_base" /\ order'.status = "needs_review"
      /\ \A v \in Workers \ {w} : work'[v] = work[v]
  <2>1. CASE submits(w)
    <3> DEFINE q == [[Idle EXCEPT !.at = "take"] EXCEPT !.n = order.n + 1]
    <3>1. q.at = "take" /\ Job(w, q)
      BY <2>1 DEF submits, Idle
    <3> HIDE DEF q
    <3> QED
      BY <2>1, <3>1, TurnsTo DEF submits
  <2>2. CASE take(w)
    <3>1. CASE order.status = "on_base"
      <4> DEFINE q == [[work[w] EXCEPT !.at = "create"] EXCEPT !.ref = 2 * work[w].n]
      <4>1. q.at = "create" /\ Job(w, q)
        BY <2>2, <3>1 DEF take, IInv, Typed, Jobs
      <4> HIDE DEF q
      <4>2. order'.status = "submitting"
        BY <2>2, <3>1, MovesTo DEF take, Statuses
      <4> QED
        BY <3>1, <4>1, <4>2, TurnsTo
    <3>2. CASE order.status # "on_base"
      BY <2>2, <3>2, MovesTo, Rests DEF take, Statuses
    <3> QED
      BY <3>1, <3>2
  <2>3. CASE giveUp(w) \/ unsent(w)
    BY <2>3, MovesTo, Rests DEF giveUp, unsent, Statuses
  <2> QED
    BY <2>1, <2>2, <2>3
<1>4. QuietStep(w)
  BY <1>1, <1>2, <1>3, Untouched DEF QuietStep, Before, Homeward, OrderKnows
<1> QED
  BY <1>1, <1>4, Quietly


LEMMA AnsweredCalm ==
  ASSUME IInv, CalmInv, Undisturbed, NEW w \in Workers, answered(w)
  PROVE  CalmInv'
<1>1. /\ Alone(w) /\ OrderKnows
      /\ work[w].at \in {"unknown", "retry", "noUsdc", "review", "refused"} /\ work[w] \in Jobs
  BY ActsAlone DEF answered, IInv, Typed
<1>2. UNCHANGED <<scene, dead, paycrest, bridges>>
  BY DEF answered
<1>3. work'[w].at \in {"idle", "home", "giveUp"} /\ \A v \in Workers \ {w} : work'[v] = work[v]
  BY GoesTo, Rests DEF answered
<1>4. \/ order' = order
      \/ order.status = "submitting" /\ order'.status \in {"submit_unknown", "on_base", "needs_review", "refunded_on_base"}
  BY <1>1 DEF answered, Answered, Moves, IInv, Typed, OrderRow
<1>5. order.status = "submitting" => Returned
  BY <1>1 DEF OrderKnows, Alone, Before, Unpaid, Returned
<1>6. QuietStep(w)
  BY <1>1, <1>2, <1>3, <1>4, <1>5, Untouched DEF QuietStep, Before, Homeward, OrderKnows
<1> QED
  BY <1>1, <1>6, Quietly


LEMMA FundCalm ==
  ASSUME IInv, CalmInv, Undisturbed, NEW w \in Workers, fund(w)
  PROVE  CalmInv'
<1>1. /\ Alone(w) /\ Knows(w) /\ OrderKnows /\ work[w].at = "fund"
      /\ work[w].k \in Orders \cup {0} /\ work[w].s \in PaycrestStatus /\ order \in OrderRow
  BY ActsAlone DEF fund, At, IInv, Typed, Jobs
<1>2. UNCHANGED <<scene, dead, paycrest, bridges>>
  BY DEF fund
<1>3. work'[w].at = "idle" /\ \A v \in Workers \ {w} : work'[v] = work[v]
  BY Rests DEF fund
<1>4. order'.status = "awaiting_settlement"
  BY <1>1 DEF fund, Moves, Knows, OrderRow
<1>5. QuietStep(w)
  BY <1>1, <1>2, <1>3, <1>4, Untouched DEF QuietStep, Before, Homeward
<1> QED
  BY <1>1, <1>5, Quietly


LEMMA ResolveCalm ==
  ASSUME IInv, CalmInv, Undisturbed, NEW w \in Workers, resolve(w)
  PROVE  CalmInv'
<1>1. Alone(w) /\ OrderKnows /\ work[w].at = "idle" /\ order.status = "submit_unknown" /\ order \in OrderRow
  BY ActsAlone DEF resolve, Begins, At, IInv, Typed
<1>2. UNCHANGED <<scene, dead, paycrest, bridges>>
  BY DEF resolve
<1>3. /\ \/ work'[w].at = "send" /\ order' = order
         \/ work'[w].at = "idle" /\ order'.status = "on_base"
      /\ \A v \in Workers \ {w} : work'[v] = work[v]
  <2>1. CASE \E k \in Made : Job(w, [Idle EXCEPT !.at = "send", !.k = k, !.s = paycrest[k].status]) /\ UNCHANGED order
    <3>1. PICK k \in Made : Job(w, [Idle EXCEPT !.at = "send", !.k = k, !.s = paycrest[k].status])
      BY <2>1
    <3> DEFINE q == [[[Idle EXCEPT !.at = "send"] EXCEPT !.k = k] EXCEPT !.s = paycrest[k].status]
    <3>2. q.at = "send" /\ Job(w, q)
      BY <3>1 DEF Idle
    <3> HIDE DEF q
    <3> QED
      BY <2>1, <3>2, TurnsTo
  <2>2. CASE order' = [order EXCEPT !.status = "on_base"] /\ UNCHANGED work
    BY <1>1, <2>2 DEF OrderRow
  <2> QED
    BY <2>1, <2>2 DEF resolve
<1>4. QuietStep(w)
  BY <1>1, <1>2, <1>3, Untouched DEF QuietStep, Before, Homeward
<1> QED
  BY <1>1, <1>4, Quietly


LEMMA HearsCalm ==
  ASSUME IInv, CalmInv, Undisturbed, NEW w \in Workers, poll(w) \/ hear(w)
  PROVE  CalmInv'
<1>1. Alone(w) /\ OrderKnows /\ work[w].at = "idle" /\ order \in OrderRow
  BY ActsAlone DEF poll, hear, Begins, At, IInv, Typed
<1>2. UNCHANGED <<scene, dead, paycrest, bridges>> /\ order'.status = order.status
  BY <1>1 DEF poll, hear, OrderRow
<1>3. \E s : /\ Job(w, [Idle EXCEPT !.at = "apply", !.s = s])
             /\ s = "refunded" => \E k \in Orders : paycrest[k].status = "refunded"
  <2>1. CASE poll(w)
    <3>1. order.pc \in Orders
      BY <1>1, <2>1 DEF poll, OrderRow
    <3> QED
      BY <2>1, <3>1 DEF poll
  <2>2. CASE hear(w)
    <3>1. PICK k \in Made : \E s \in Said(k) : Job(w, [Idle EXCEPT !.at = "apply", !.s = s])
      BY <2>2 DEF hear
    <3>2. PICK s \in Said(k) : Job(w, [Idle EXCEPT !.at = "apply", !.s = s])
      BY <3>1
    <3>3. s = "refunded" => paycrest[k].status = "refunded"
      BY DEF Said
    <3> QED
      BY <3>2, <3>3 DEF Made
  <2> QED
    BY <2>1, <2>2
<1>4. PICK s : /\ Job(w, [Idle EXCEPT !.at = "apply", !.s = s])
               /\ s = "refunded" => \E k \in Orders : paycrest[k].status = "refunded"
  BY <1>3
<1> DEFINE q == [[Idle EXCEPT !.at = "apply"] EXCEPT !.s = s]
<1>5. q.at = "apply" /\ q.s = s /\ Job(w, q)
  BY <1>4 DEF Idle
<1> HIDE DEF q
<1>6. work'[w] = q /\ \A v \in Workers \ {w} : work'[v] = work[v]
  BY <1>5, TurnsTo
<1>7. QuietStep(w)
  BY <1>1, <1>2, <1>4, <1>5, <1>6, Untouched DEF QuietStep, OrderKnows
<1> QED
  BY <1>1, <1>7, Quietly


LEMMA ApplyCalm ==
  ASSUME IInv, CalmInv, Undisturbed, NEW w \in Workers, apply(w)
  PROVE  CalmInv'
<1>1. /\ Alone(w) /\ Knows(w) /\ OrderKnows /\ work[w].at = "apply" /\ order \in OrderRow
      /\ work[w] \in Jobs /\ work[w].s \in PaycrestStatus
  BY ActsAlone DEF apply, At, IInv, Typed, Jobs
<1>2. UNCHANGED <<scene, dead, paycrest, bridges>>
  BY DEF apply
<1>3. work'[w].at = "echo" /\ \A v \in Workers \ {w} : work'[v] = work[v]
  <2>1. PICK b \in Bridges : Job(w, [work[w] EXCEPT !.at = "echo", !.b = b])
    BY DEF apply, Bridges
  <2> DEFINE q == [[work[w] EXCEPT !.at = "echo"] EXCEPT !.b = b]
  <2>2. q.at = "echo" /\ Job(w, q)
    BY <1>1, <2>1 DEF Jobs
  <2> HIDE DEF q
  <2> QED
    BY <2>2, TurnsTo
<1>4. \/ order' = order
      \/ order'.status \in {"processing", "completed", "refunding", "needs_review"}
      \/ order'.status = "refunded_on_base" /\ work[w].s = "refunded"
  <2> DEFINE to == Implied(work[w].s)
  <2>1. CASE May(to)
    <3>1. /\ to \in {"processing", "completed", "refunding", "refunded_on_base", "needs_review"}
          /\ to = "refunded_on_base" => work[w].s = "refunded"
      BY <1>1, <2>1, ImpliedTo
    <3>2. order' = [order EXCEPT !.status = to]
      BY <2>1 DEF apply
    <3> HIDE DEF to
    <3> QED
      BY <1>1, <3>1, <3>2 DEF OrderRow
  <2>2. CASE ~ May(to)
    BY <2>2 DEF apply
  <2> QED
    BY <2>1, <2>2
<1>5. work[w].s = "refunded" => Returned
  <2> SUFFICES ASSUME work[w].s = "refunded" PROVE Returned
    OBVIOUS
  <2>1. PICK k \in Orders : paycrest[k].status = "refunded"
    BY <1>1 DEF Knows
  <2>2. paycrest[k].transfer = "done"
    BY <2>1 DEF IInv, PaidFor
  <2> QED
    BY <1>1, <2>1, <2>2 DEF OrderKnows, OneTransfer, Returned
<1>6. QuietStep(w)
  BY <1>1, <1>2, <1>3, <1>4, <1>5, Untouched DEF QuietStep, Before, Homeward, OrderKnows
<1> QED
  BY <1>1, <1>6, Quietly


LEMMA HomeCalm ==
  ASSUME IInv, CalmInv, Undisturbed, NEW w \in Workers, echo(w) \/ returns(w) \/ home(w)
  PROVE  CalmInv'
<1>1. /\ Alone(w) /\ OrderKnows /\ work[w].at # "fund" /\ order \in OrderRow
  BY ActsAlone DEF echo, returns, home, Begins, At, IInv, Typed
<1>2. UNCHANGED <<scene, dead, paycrest, bridges>> /\ order'.status = order.status
  BY <1>1 DEF echo, returns, home, OrderRow
<1>3. /\ work'[w].at \in {"idle", "home"} \/ (work'[w].at = "bring" /\ order.status = "refunded_on_base")
      /\ \A v \in Workers \ {w} : work'[v] = work[v]
  BY GoesTo, Rests DEF echo, returns, home, Owed
<1>4. QuietStep(w)
  BY <1>1, <1>2, <1>3, Untouched DEF QuietStep, Before, Homeward, OrderKnows
<1> QED
  BY <1>1, <1>4, Quietly


LEMMA BringCalm ==
  ASSUME IInv, CalmInv, Undisturbed, NEW w \in Workers, bring(w) \/ homeMark(w)
  PROVE  CalmInv'
<1>1. /\ Alone(w) /\ OrderKnows /\ Returned /\ order.status \notin Before /\ work[w].at # "fund"
  BY ActsAlone DEF bring, homeMark, At, Knows
<1>2. UNCHANGED <<scene, dead, paycrest>>
  BY DEF bring, homeMark
<1>3. \/ order' = order
      \/ order'.status = "refund_bridging"
  BY MovesTo DEF bring, homeMark, Statuses
<1>4. work'[w].at \in {"idle", "homeMark"} /\ \A v \in Workers \ {w} : work'[v] = work[v]
  BY GoesTo, Rests DEF bring, homeMark
<1>5. /\ bridges["refund"].row # "none" => bridges'["refund"].row # "none"
      /\ bridges'["refund"].usdc = bridges["refund"].usdc
  BY DEF bring, homeMark, opens, IInv, Typed, BridgeType, Bridges
<1>6. QuietStep(w)
  BY <1>1, <1>2, <1>3, <1>4, <1>5, Untouched DEF QuietStep, Before, Homeward
<1> QED
  BY <1>1, <1>6, Quietly


LEMMA CreateCalm ==
  ASSUME IInv, CalmInv, Undisturbed, NEW w \in Workers, create(w)
  PROVE  CalmInv'
<1>1. Alone(w) /\ Knows(w) /\ OrderKnows /\ work[w].at = "create" /\ order.status = "submitting"
  BY ActsAlone DEF create, At, Knows
<1>2. UNCHANGED <<scene, dead, order, bridges>>
  BY DEF create
<1>3. \/ UNCHANGED paycrest
      \/ \E k \in Orders : \E ref :
           /\ paycrest[k].status = "none"
           /\ paycrest' = [paycrest EXCEPT ![k] = [status |-> "open", ref |-> ref, transfer |-> "none"]]
  BY DEF create, Making, Made
<1>4. Gentle
  BY <1>3 DEF Gentle, IInv, Typed
<1>5. /\ work'[w].at \in {"send", "create", "review", "unknown", "retry", "refused", "noUsdc"}
      /\ \A v \in Workers \ {w} : work'[v] = work[v]
  <2>1. work[w] \in Jobs
    BY DEF IInv, Typed
  <2>2. \/ \E k \in Orders : Job(w, [work[w] EXCEPT !.at = "send", !.k = k, !.s = "open"])
        \/ Job(w, [work[w] EXCEPT !.ref = work[w].ref + 1])
        \/ \E to \in {"review", "unknown", "retry", "refused", "noUsdc"} : Go(w, to)
    BY DEF create
  <2>3. CASE \E k \in Orders : Job(w, [work[w] EXCEPT !.at = "send", !.k = k, !.s = "open"])
    <3>1. PICK k \in Orders : Job(w, [work[w] EXCEPT !.at = "send", !.k = k, !.s = "open"])
      BY <2>3
    <3> DEFINE q == [[[work[w] EXCEPT !.at = "send"] EXCEPT !.k = k] EXCEPT !.s = "open"]
    <3>2. q.at = "send" /\ Job(w, q)
      BY <2>1, <3>1 DEF Jobs
    <3> HIDE DEF q
    <3> QED
      BY <3>2, TurnsTo
  <2>4. CASE Job(w, [work[w] EXCEPT !.ref = work[w].ref + 1])
    <3> DEFINE q == [work[w] EXCEPT !.ref = work[w].ref + 1]
    <3>1. q.at = "create" /\ Job(w, q)
      BY <1>1, <2>1, <2>4 DEF Jobs
    <3> HIDE DEF q
    <3> QED
      BY <3>1, TurnsTo
  <2>5. CASE \E to \in {"review", "unknown", "retry", "refused", "noUsdc"} : Go(w, to)
    BY <2>5, GoesTo
  <2> QED
    BY <2>2, <2>3, <2>4, <2>5
<1>6. QuietStep(w)
  BY <1>1, <1>2, <1>4, <1>5 DEF QuietStep, Before, Homeward
<1> QED
  BY <1>1, <1>6, Quietly

\* The only step that gives a transfer: there was none before.
LEMMA SendCalm ==
  ASSUME IInv, CalmInv, Undisturbed, NEW w \in Workers, send(w)
  PROVE  CalmInv'
<1>1. /\ Alone(w) /\ OrderKnows /\ RefundOK /\ work[w].at = "send" /\ work[w].k \in Orders
      /\ order.status \in {"submitting", "submit_unknown"} /\ order.status \in Before \ Homeward /\ Unpaid
  BY ActsAlone DEF send, At, Knows, IInv, JobOK, OrderKnows, Alone, Before, Homeward
<1>2. UNCHANGED <<scene, dead, order, bridges>>
  BY DEF send
<1>3. CASE UNCHANGED paycrest /\ Go(w, "unsent")
  <2>1. QuietStep(w)
    BY <1>1, <1>2, <1>3, GoesTo, Untouched DEF QuietStep
  <2> QED
    BY <1>1, <2>1, Quietly
<1>4. CASE Sent(work[w].k) /\ Go(w, "fund")
  <2>1. work'[w].at = "fund" /\ \A v \in Workers \ {w} : work'[v] = work[v]
    BY <1>4, GoesTo
  <2>2. PICK k \in Orders : \A j \in Orders : j # k => paycrest'[j].transfer = "none"
    BY <1>1, <1>4 DEF Sent, Unpaid, IInv, Typed
  <2>3. InTurn'
    BY <1>1, <1>2, <2>1 DEF Alone, InTurn
  <2>4. OrderKnows'
    BY <1>1, <1>2, <2>1, <2>2 DEF OrderKnows, OneTransfer
  <2>5. RefundOK'
    BY <1>1, <1>2 DEF RefundOK
  <2>6. \A v \in Workers : Knows(v)'
    BY <1>1, <1>2, <2>1 DEF Alone, Knows
  <2> QED
    BY <2>3, <2>4, <2>5, <2>6 DEF CalmInv
<1> QED
  BY <1>3, <1>4 DEF send, Undisturbed

\* Paycrest and the chains give no transfer either.
LEMMA WorldCalm ==
  ASSUME IInv, CalmInv, Undisturbed, world
  PROVE  CalmInv'
<1>1. InTurn /\ OrderKnows /\ RefundOK /\ \A w \in Workers : Knows(w)
  BY DEF CalmInv
<1>2. UNCHANGED <<scene, dead, order, work>>
  BY DEF world, transferLands, decides, moves
<1>3. \/ Gentle /\ UNCHANGED bridges
      \/ UNCHANGED paycrest /\ \E b \in Bridges : burns(b) \/ arrives(b)
  <2>1. CASE \E k \in Orders : transferLands(k) \/ decides(k)
    <3>1. PICK k \in Orders : transferLands(k) \/ decides(k)
      BY <2>1
    <3>2. /\ paycrest[k].transfer = "queued" \/ paycrest'[k].transfer = paycrest[k].transfer
          /\ paycrest[k].transfer # "none" \/ paycrest'[k].transfer = "none"
          /\ paycrest[k].status # "refunded"
      <4>1. CASE transferLands(k)
        <5>1. paycrest[k].transfer = "queued"
          BY <4>1 DEF transferLands
        <5> QED
          BY <5>1 DEF IInv, PaidFor
      <4>2. CASE decides(k)
        <5>1. \E s : paycrest' = [paycrest EXCEPT ![k].status = s]
          BY <4>2 DEF decides
        <5>2. paycrest'[k].transfer = paycrest[k].transfer
          BY <5>1 DEF IInv, Typed, PaycrestRow
        <5> QED
          BY <4>2, <5>2 DEF decides
      <4> QED
        BY <3>1, <4>1, <4>2
    <3>3. \A j \in Orders : j # k => paycrest'[j] = paycrest[j]
      <4>1. CASE transferLands(k)
        BY <4>1 DEF transferLands, IInv, Typed
      <4>2. CASE decides(k)
        <5>1. \E s : paycrest' = [paycrest EXCEPT ![k].status = s]
          BY <4>2 DEF decides
        <5> QED
          BY <5>1 DEF IInv, Typed
      <4> QED
        BY <3>1, <4>1, <4>2
    <3>4. Gentle
      <4> SUFFICES ASSUME NEW j \in Orders
                   PROVE  /\ paycrest'[j].transfer # "none" => paycrest[j].transfer # "none"
                          /\ paycrest[j].status = "refunded" => paycrest'[j].status = "refunded"
                          /\ paycrest[j].transfer \in {"none", "failed"} => paycrest'[j].transfer \in {"none", "failed"}
        BY DEF Gentle
      <4>1. CASE j = k
        BY <3>2, <4>1
      <4>2. CASE j # k
        BY <3>3, <4>2
      <4> QED
        BY <4>1, <4>2
    <3> QED
      BY <3>1, <3>4 DEF transferLands, decides
  <2>2. CASE \E b \in Bridges : moves(b)
    BY <2>2 DEF moves
  <2> QED
    BY <2>1, <2>2 DEF world
<1>4. Gentle
  BY <1>3, Untouched
<1>5. /\ bridges'["refund"].row = bridges["refund"].row
      /\ bridges["refund"].usdc = "source" /\ bridges'["refund"].usdc # "source" => bridges["refund"].row # "none"
  BY <1>3 DEF burns, arrives, IInv, Typed, BridgeType, Bridges
<1>6. OrderKnows'
  BY <1>1, <1>2, <1>4, GentleKeeps DEF OrderKnows
<1>7. RefundOK'
  BY <1>1, <1>2, <1>4, <1>5, GentleKeeps DEF RefundOK
<1>8. \A w \in Workers : Knows(w)'
  BY <1>1, <1>2, <1>4, GentleKeeps DEF Knows
<1> QED
  BY <1>1, <1>2, <1>6, <1>7, <1>8 DEF CalmInv, InTurn

LEMMA InitCalm == Init => CalmInv
BY DEF Init, BridgeInit, CalmInv, InTurn, OrderKnows, OneTransfer, Unpaid, RefundOK, Knows, Idle, Before, Homeward, Bridges

LEMMA NextCalm == IInv /\ CalmInv /\ [Next]_vars => CalmInv'
<1> SUFFICES ASSUME IInv, CalmInv, [Next]_vars PROVE CalmInv'
  OBVIOUS
<1>1. scene' = scene
  <2>1. ASSUME NEW w \in Workers, step(w) PROVE scene' = scene
    BY <2>1 DEF step, startOut, markOut, onOutFinished, onRefundFinished, take, create, answered, giveUp, send,
       unsent, fund, apply, echo, home, bring, homeMark
  <2>2. ASSUME NEW w \in Workers, begin(w) PROVE scene' = scene
    BY <2>2 DEF begin, finishes, submits, resolve, poll, returns
  <2>3. ASSUME NEW w \in Workers, place(w) \/ hear(w) \/ crash(w) PROVE scene' = scene
    BY <2>3 DEF place, hear, crash
  <2>4. CASE world
    BY <2>4 DEF world, transferLands, decides, moves
  <2>5. CASE UNCHANGED vars
    BY <2>5 DEF vars
  <2> QED
    BY <2>1, <2>2, <2>3, <2>4, <2>5 DEF Next
<1> SUFFICES ASSUME Undisturbed PROVE CalmInv'
  BY <1>1 DEF CalmInv, Undisturbed
<1>2. CASE UNCHANGED vars
  BY <1>2 DEF vars, CalmInv, InTurn, OrderKnows, OneTransfer, Unpaid, Returned, RefundOK, Knows
<1>3. CASE world
  BY <1>3, WorldCalm
<1>4. ASSUME NEW w \in Workers, place(w) \/ step(w) PROVE CalmInv'
  BY <1>4, StartCalm, OnFinishedCalm, TakeCalm, CreateCalm, AnsweredCalm, SendCalm, FundCalm, ApplyCalm, HomeCalm,
     BringCalm DEF step
<1>5. ASSUME NEW w \in Workers, begin(w) \/ hear(w) PROVE CalmInv'
  BY <1>5, FinishesCalm, TakeCalm, ResolveCalm, HearsCalm, HomeCalm DEF begin
<1>6. ASSUME NEW w \in Workers PROVE ~ crash(w)
  BY DEF crash, Undisturbed
<1> QED
  BY <1>2, <1>3, <1>4, <1>5, <1>6 DEF Next

LEMMA SpecCalm == Spec => [](IInv /\ CalmInv)
<1>1. Init => IInv /\ CalmInv
  BY InitInv, InitCalm
<1>2. (IInv /\ CalmInv) /\ [Next]_vars => (IInv /\ CalmInv)'
  BY NextInv, NextCalm
<1> QED
  BY <1>1, <1>2, PTL DEF Spec

\* In turn at most one order at Paycrest is paid, and none once USDC goes home.
LEMMA PaidInTurn == IInv /\ CalmInv /\ Undisturbed => Cardinality(Paid) + GoneHome <= 1
<1> SUFFICES ASSUME IInv, CalmInv, Undisturbed PROVE Cardinality(Paid) + GoneHome <= 1
  OBVIOUS
<1>1. Paid \in SUBSET Orders /\ \A k \in Paid : paycrest[k].transfer = "done"
  BY DEF Paid, IInv, PaidFor
<1>2. Paid = {} \/ \E k \in Orders : Paid = {k}
  BY <1>1 DEF CalmInv, OrderKnows, OneTransfer
<1>3. Cardinality(Paid) \in {0, 1} /\ (Paid = {} => Cardinality(Paid) = 0)
  BY <1>2, FS_EmptySet, FS_Singleton
<1>4. GoneHome \in {0, 1}
  BY DEF GoneHome
<1>5. GoneHome = 1 => Paid = {}
  <2>1. GoneHome = 1 => Returned
    BY DEF GoneHome, CalmInv, RefundOK
  <2>2. Returned => Paid = {}
    BY <1>1 DEF Returned, Paid
  <2> QED
    BY <2>1, <2>2
<1> QED
  BY <1>3, <1>4, <1>5

\* A player is paid at the bank or has the USDC back, never both or twice,
\* and an order that says it has ended has: completed was paid, refunded is
\* home, failed never left.  So it is under every fault while the out wallet
\* holds nobody else's USDC, and next to somebody else's while no worker
\* stalls or dies and no answer is lost.
THEOREM MoneyFollowsOrder == Spec => [](scene.stray = 0 \/ Undisturbed => MoneyInOnePlace)
<1>1. IInv /\ CalmInv => (scene.stray = 0 \/ Undisturbed => MoneyInOnePlace)
  <2> SUFFICES ASSUME IInv, CalmInv, scene.stray = 0 \/ Undisturbed PROVE MoneyInOnePlace
    OBVIOUS
  <2>1. TypeOK
    BY DEF IInv, Typed, TypeOK, OrderRow, PaycrestRow, PaycrestStatus
  <2>2. PaidOnce
    BY Means, PaidInTurn DEF PaidWithinMeans, PaidOnce, GoneHome
  <2>3. EndsHonest
    <3>1. order.status = "refunded" => Paid = {}
      <4> SUFFICES ASSUME order.status = "refunded" PROVE Paid = {}
        OBVIOUS
      <4>1. Paid \in SUBSET Orders
        BY DEF Paid
      <4>2. IsFiniteSet(Paid) /\ Cardinality(Paid) \in Nat
        BY <4>1, OrdersFinite
      <4>3. Cardinality(Paid) + 1 <= 1
        BY <2>2 DEF PaidOnce, IInv, OrderOK
      <4> QED
        BY <4>2, <4>3, FS_EmptySet
    <3> QED
      BY <3>1 DEF IInv, OrderOK, Starting, EndsHonest
  <2> QED
    BY <2>1, <2>2, <2>3 DEF MoneyInOnePlace
<1> QED
  BY <1>1, SpecCalm, PTL
=============================================================================
