---------------------------- MODULE NairaCashOut ----------------------------
(***************************************************************************)
(* One naira cash-out (backend/services/paycrest: offramp, events,         *)
(* reconcile, store): the player's USDC is bridged to the "out" wallet on  *)
(* Base and sent to Paycrest, which pays the bank or gives it back; then a *)
(* second bridge brings it home.  The bridges are BridgePromise, which     *)
(* CctpBridge implements.                                                  *)
(*                                                                         *)
(* Workers are threads of the API processes: the confirmed withdraw link,  *)
(* the reconciler of each process, webhooks.  One action is one database   *)
(* transaction or one call to Circle or Paycrest.  The order is one unit   *)
(* of USDC; quotes, the caps and the messages to the player are left out.  *)
(***************************************************************************)
EXTENDS Integers, FiniteSets

CONSTANTS
  Workers, MayDie,
  Scenes,       \* which faults there are
  MaxOrders,    \* bound on the orders made at Paycrest
  MaxSubmits    \* attempts of a submit before the order is given up; bounds
                \* those whose answer is lost

ASSUME WorkersAssumption == MayDie \subseteq Workers
ASSUME BoundsAssumption == {MaxOrders, MaxSubmits} \subseteq Nat \ {0}

\* stalls: workers interleave and may be held up between two steps; when it
\* is false a worker begins only while no live worker is under way.  dies:
\* workers die between two steps.  lossy: the answer of a transfer Circle
\* carries out may be lost.  hooks: Paycrest's webhooks come, once each, late
\* and in any order.  stray: units in the out wallet that are not this
\* order's (another order's, or a stranger's).
ASSUME ScenesAssumption ==
  Scenes \subseteq [stalls: BOOLEAN, dies: BOOLEAN, lossy: BOOLEAN, hooks: BOOLEAN, stray: 0 .. 1]

Bridges == {"out", "refund"}

VARIABLES
  scene,
  order,        \* the row of paycrest_orders
  bridges,      \* the two rows of bridge_transfers, and where their USDC is
  paycrest,     \* the orders at Paycrest, and the transfer that funds each
  heard,        \* paycrest_webhook_events
  work, dead    \* what each worker does; those that died

INSTANCE BridgePromise WITH Transfers <- Bridges

vars == <<scene, order, bridges, paycrest, heard, work, dead>>

Orders == 1 .. MaxOrders
Made == {k \in Orders : paycrest[k].status # "none"}

Idle == [at |-> "idle", b |-> "out", n |-> 0, ref |-> 0, k |-> 0, s |-> "none"]
Job(w, job) == work' = [work EXCEPT ![w] = job]
Rest(w) == Job(w, Idle)
Go(w, place) == work' = [work EXCEPT ![w].at = place]
At(w, place) == w \notin dead /\ work[w].at = place

\* A worker takes up something new; one is enough when none dies or stalls.
Begins(w) ==
  /\ At(w, "idle") /\ (scene.stalls \/ \A x \in Workers \ dead : work[x].at = "idle")
  /\ scene.stalls \/ scene.dies \/ w \notin MayDie

Init ==
  /\ scene \in Scenes /\ BridgeInit
  /\ order = [status |-> "none", n |-> 0, ref |-> 0, pc |-> 0, echo |-> "none"]
  /\ paycrest = [k \in Orders |-> [status |-> "none", ref |-> 0, transfer |-> "none"]]
  /\ heard = {} /\ work = [w \in Workers |-> Idle] /\ dead = {}

-----------------------------------------------------------------------------
(* The out wallet and Paycrest *)

Funded == {k \in Orders : paycrest[k].transfer = "done"}

\* What the out wallet holds.
Base ==
  scene.stray + (IF bridges["out"].usdc = "there" THEN 1 ELSE 0) - (IF bridges["refund"].usdc = "source" THEN 0 ELSE 1)
    - Cardinality(Funded) + Cardinality({k \in Funded : paycrest[k].status = "refunded"})

\* A transfer to the receive address of an order lands, or bounces.
transferLands(k) ==
  /\ paycrest[k].transfer = "queued"
  /\ paycrest' = IF Base = 0 THEN [paycrest EXCEPT ![k].transfer = "failed"]
                 ELSE [paycrest EXCEPT ![k].transfer = "done",
                                       ![k].status = IF @ = "open" THEN "pending" ELSE "refunding"]
  /\ UNCHANGED <<scene, order, bridges, heard, work, dead>>

\* Paycrest pays the bank or gives up; an order nobody funds expires.
decides(k) ==
  /\ \/ paycrest[k].status = "pending" /\ \E s \in {"settled", "refunding"} : paycrest' = [paycrest EXCEPT ![k].status = s]
     \/ paycrest[k].status = "refunding" /\ paycrest' = [paycrest EXCEPT ![k].status = "refunded"]
     \/ /\ paycrest[k].status = "open" /\ paycrest[k].transfer \in {"none", "failed"}
        /\ paycrest' = [paycrest EXCEPT ![k].status = "expired"]
  /\ UNCHANGED <<scene, order, bridges, heard, work, dead>>

\* The statuses Paycrest has sent for an order.
Said(k) ==
  LET s == paycrest[k].status IN
  CASE s \in {"none", "open"} -> {}
    [] s \in {"pending", "expired"} -> {s}
    [] s = "refunded" -> {"pending", "refunding", "refunded"}
    [] OTHER -> {"pending", s}

-----------------------------------------------------------------------------
(* The order's state machine *)

TERMINAL == {"completed", "refunded", "failed"}
Statuses == {"none", "confirmed", "bridging_out", "on_base", "submitting", "submit_unknown", "awaiting_settlement",
             "processing", "refunding", "refunded_on_base", "refund_bridging", "needs_review"} \cup TERMINAL

TRANSITIONS == [s \in Statuses |->
  CASE s = "confirmed" -> {"bridging_out", "failed"}
    [] s = "bridging_out" -> {"on_base", "needs_review", "failed"}
    [] s = "on_base" -> {"submitting", "needs_review"}
    [] s = "submitting" -> {"awaiting_settlement", "submit_unknown", "failed", "on_base", "refunded_on_base",
                            "needs_review"}
    [] s = "submit_unknown" -> {"awaiting_settlement", "failed", "on_base", "needs_review"}
    [] s = "awaiting_settlement" -> {"processing", "completed", "refunding", "refunded_on_base", "needs_review"}
    [] s = "processing" -> {"refunding", "refunded", "refunded_on_base", "completed", "needs_review"}
    [] s = "refunding" -> {"refunded", "refunded_on_base", "completed", "needs_review"}
    [] s = "refunded_on_base" -> {"refund_bridging", "needs_review"}
    [] s = "refund_bridging" -> {"refunded", "needs_review"}
    [] s = "needs_review" -> {"completed", "refunded", "failed", "on_base", "refunded_on_base"}
    [] OTHER -> {}]

\* transition with expected statuses.
Moves(from, row) == order' = IF order.status \in from THEN row ELSE order

\* Mutant of May: the state machine is not asked.
MayAlways(to) == order.status # "none"

\* transition without.
May(to) == to \in TRANSITIONS[order.status]

-----------------------------------------------------------------------------
(* The cash-out starts *)

\* _perform_locked up to the order's row.
place(w) ==
  /\ Begins(w) /\ order.status = "none"
  /\ order' = [order EXCEPT !.status = "confirmed"] /\ Go(w, "start")
  /\ UNCHANGED <<scene, bridges, paycrest, heard, dead>>

\* cctp.start records the transfer, or fails and the order with it.
startOut(w) ==
  /\ At(w, "start")
  /\ \/ opens("out") /\ Go(w, "mark") /\ UNCHANGED order
     \/ Moves({"confirmed"}, [order EXCEPT !.status = "failed"]) /\ Rest(w) /\ UNCHANGED bridges
  /\ UNCHANGED <<scene, paycrest, heard, dead>>

markOut(w) ==
  /\ At(w, "mark") /\ Moves({"confirmed"}, [order EXCEPT !.status = "bridging_out"]) /\ Rest(w)
  /\ UNCHANGED <<scene, bridges, paycrest, heard, dead>>

\* The USDC of a bridge moves.
moves(b) ==
  /\ (burns(b) /\ (b = "refund" => Base > 0)) \/ arrives(b)
  /\ UNCHANGED <<scene, order, paycrest, heard, work, dead>>

\* The worker that ends a bridge tells the order; so does one whose last try
\* fails while another worker's step went through (_fail_or_retry).
finishes(w, b) ==
  /\ Begins(w) /\ Job(w, [Idle EXCEPT !.at = "emit", !.b = b])
  /\ ends(b) \/ (scene.stalls /\ bridges[b].row = "open" /\ UNCHANGED bridges)
  /\ UNCHANGED <<scene, order, paycrest, heard, dead>>

\* on_bridge_finished
onOutFinished(w) ==
  /\ At(w, "emit") /\ work[w].b = "out"
  /\ IF bridges["out"].row = "minted" /\ order.status = "bridging_out"
     THEN /\ order' = [order EXCEPT !.status = "on_base"]
          /\ Job(w, [Idle EXCEPT !.at = "take", !.n = order.n + 1])
     ELSE Moves({"bridging_out"}, [order EXCEPT !.status = "needs_review"]) /\ Rest(w)
  /\ UNCHANGED <<scene, bridges, paycrest, heard, dead>>

\* Mutant of onRefundFinished: a transfer given up counts as home.
RefundedWhenEnded(w) ==
  /\ At(w, "emit") /\ work[w].b = "refund"
  /\ Moves({"refund_bridging"}, [order EXCEPT !.status = "refunded"]) /\ Rest(w)
  /\ UNCHANGED <<scene, bridges, paycrest, heard, dead>>

onRefundFinished(w) ==
  /\ At(w, "emit") /\ work[w].b = "refund"
  /\ LET to == IF bridges["refund"].row = "minted" THEN "refunded" ELSE "needs_review" IN
     Moves({"refund_bridging"}, [order EXCEPT !.status = to])
  /\ Rest(w)
  /\ UNCHANGED <<scene, bridges, paycrest, heard, dead>>

-----------------------------------------------------------------------------
(* submit: the order at Paycrest *)

\* The order is read, then claimed.
submits(w) ==
  /\ Begins(w) /\ order.status = "on_base" /\ order.n < MaxSubmits + 2 \* bound
  /\ Job(w, [Idle EXCEPT !.at = "take", !.n = order.n + 1])
  /\ UNCHANGED <<scene, order, bridges, paycrest, heard, dead>>

take(w) ==
  /\ At(w, "take") /\ Moves({"on_base"}, [order EXCEPT !.status = "submitting"])
  /\ IF order.status = "on_base" THEN Job(w, [work[w] EXCEPT !.at = "create", !.ref = 2 * work[w].n]) ELSE Rest(w)
  /\ UNCHANGED <<scene, bridges, paycrest, heard, dead>>

Making(k) == k \notin Made /\ \A j \in Orders : j < k => j \in Made

\* create_order: made, perhaps made, refused for now, or refused.  When the
\* fees come on top, a smaller order is made under another reference and the
\* first one is left alone.
create(w) ==
  LET n == work[w].n  ref == work[w].ref
      made(k) == paycrest' = [paycrest EXCEPT ![k] = [status |-> "open", ref |-> ref, transfer |-> "none"]] IN
  /\ At(w, "create")
  /\ \/ Base > 0 /\ \E k \in Orders : Making(k) /\ made(k) /\
          \/ Job(w, [work[w] EXCEPT !.at = "send", !.k = k, !.s = "open"])
          \/ ref = 2 * n /\ Job(w, [work[w] EXCEPT !.ref = ref + 1])
          \/ ref # 2 * n /\ Go(w, "review")
          \/ n < MaxSubmits /\ Go(w, "unknown")
     \/ /\ Base > 0 /\ UNCHANGED paycrest
        /\ \E answer \in {"unknown", "retry", "refused"} : (answer = "unknown" => n < MaxSubmits) /\ Go(w, answer)
     \/ Base = 0 /\ Go(w, "noUsdc") /\ UNCHANGED paycrest
  /\ UNCHANGED <<scene, order, bridges, heard, dead>>

\* What each answer does to the order; a refused order is given up.
Answered(answer, n, ref) ==
  CASE answer = "unknown" -> [order EXCEPT !.status = "submit_unknown", !.n = n, !.ref = ref]
    [] answer = "noUsdc" \/ (answer = "retry" /\ n < MaxSubmits) -> [order EXCEPT !.status = "on_base", !.n = n]
    [] answer = "review" -> [order EXCEPT !.status = "needs_review"]
    [] OTHER -> [order EXCEPT !.status = "refunded_on_base", !.n = n]

answered(w) ==
  /\ work[w].at \in {"unknown", "retry", "noUsdc", "review", "refused"} /\ w \notin dead
  /\ LET row == Answered(work[w].at, work[w].n, work[w].ref) IN
     /\ Moves({"submitting"}, row)
     /\ CASE row.status = "refunded_on_base" -> Go(w, "home")
          [] work[w].at = "noUsdc" /\ work[w].n >= MaxSubmits -> Go(w, "giveUp")
          [] OTHER -> Rest(w)
  /\ UNCHANGED <<scene, bridges, paycrest, heard, dead>>

\* The USDC was not seen on Base too many times.
giveUp(w) ==
  /\ At(w, "giveUp") /\ Moves({"on_base"}, [order EXCEPT !.status = "needs_review"]) /\ Rest(w)
  /\ UNCHANGED <<scene, bridges, paycrest, heard, dead>>

\* The transfer is keyed by the order at Paycrest; an error sends the order
\* back for a fresh one.
Sent(k) == paycrest' = IF paycrest[k].transfer = "none" THEN [paycrest EXCEPT ![k].transfer = "queued"] ELSE paycrest

send(w) ==
  /\ At(w, "send")
  /\ \/ Sent(work[w].k) /\ Go(w, "fund")
     \/ (UNCHANGED paycrest \/ (scene.lossy /\ Sent(work[w].k))) /\ Go(w, "unsent")
  /\ UNCHANGED <<scene, order, bridges, heard, dead>>

unsent(w) ==
  /\ At(w, "unsent") /\ Moves({"submitting", "submit_unknown"}, [order EXCEPT !.status = "on_base"]) /\ Rest(w)
  /\ UNCHANGED <<scene, bridges, paycrest, heard, dead>>

\* Mutant of fund: our reference is recorded as Paycrest's id.
FundByReference(w) ==
  /\ At(w, "fund")
  /\ Moves({"submitting", "submit_unknown"},
           [order EXCEPT !.status = "awaiting_settlement", !.pc = 2 + paycrest[work[w].k].ref, !.echo = work[w].s])
  /\ Rest(w)
  /\ UNCHANGED <<scene, bridges, paycrest, heard, dead>>

fund(w) ==
  /\ At(w, "fund")
  /\ Moves({"submitting", "submit_unknown"},
           [order EXCEPT !.status = "awaiting_settlement", !.pc = work[w].k, !.echo = work[w].s])
  /\ Rest(w)
  /\ UNCHANGED <<scene, bridges, paycrest, heard, dead>>

\* An ambiguous submit is looked up by its reference, and given up unless found.
resolve(w) ==
  /\ Begins(w) /\ order.status = "submit_unknown"
  /\ LET found == {k \in Made : paycrest[k].ref = order.ref} IN
     \/ \E k \in found : Job(w, [Idle EXCEPT !.at = "send", !.k = k, !.s = paycrest[k].status]) /\ UNCHANGED order
     \/ found = {} /\ order' = [order EXCEPT !.status = "on_base"] /\ UNCHANGED work
  /\ UNCHANGED <<scene, bridges, paycrest, heard, dead>>

-----------------------------------------------------------------------------
(* What Paycrest says *)

\* The poller asks for the order it funded, and skips a status it has echoed.
poll(w) ==
  /\ Begins(w) /\ order.status \in {"awaiting_settlement", "processing", "refunding"} /\ order.pc # 0
  /\ paycrest[order.pc].status # order.echo
  /\ Job(w, [Idle EXCEPT !.at = "apply", !.s = paycrest[order.pc].status])
  /\ UNCHANGED <<scene, order, bridges, paycrest, heard, dead>>

\* _handle: a delivery counts once.  Every order made at Paycrest carries the
\* reference of ours, so _find falls back on it.
hear(w) ==
  /\ scene.hooks /\ Begins(w)
  /\ \E k \in Made : \E s \in Said(k) :
       /\ <<k, s>> \notin heard /\ heard' = heard \cup {<<k, s>>}
       /\ order' = IF order.pc = 0 THEN [order EXCEPT !.pc = k] ELSE order
       /\ Job(w, [Idle EXCEPT !.at = "apply", !.s = s])
  /\ UNCHANGED <<scene, bridges, paycrest, dead>>

\* Where _offramp moves the order on a status of Paycrest's.
Implied(s) == CASE s = "pending" -> "processing" [] s = "settled" -> "completed" [] s = "refunding" -> "refunding"
                [] s = "refunded" -> "refunded_on_base" [] s = "expired" -> "needs_review" [] OTHER -> order.status

apply(w) ==
  LET to == Implied(work[w].s) IN
  /\ At(w, "apply")
  /\ order' = IF May(to) THEN [order EXCEPT !.status = to] ELSE order
  /\ Job(w, [work[w] EXCEPT !.at = "echo", !.b = IF May(to) /\ to = "refunded_on_base" THEN "refund" ELSE "out"])
  /\ UNCHANGED <<scene, bridges, paycrest, heard, dead>>

\* The status is echoed on the order, and a refund is followed up.
echo(w) ==
  /\ At(w, "echo") /\ order' = [order EXCEPT !.echo = work[w].s]
  /\ IF work[w].b = "refund" THEN Go(w, "home") ELSE Rest(w)
  /\ UNCHANGED <<scene, bridges, paycrest, heard, dead>>

-----------------------------------------------------------------------------
(* refund_home *)

\* Mutant of Owed: the refund goes home whatever the order.
OwedWhatever == order.status # "none"

Owed == order.status = "refunded_on_base"

returns(w) ==
  /\ Begins(w) /\ Owed /\ Base > 0 /\ Go(w, "bring")
  /\ UNCHANGED <<scene, order, bridges, paycrest, heard, dead>>

home(w) ==
  /\ At(w, "home") /\ IF Owed /\ Base > 0 THEN Go(w, "bring") ELSE Rest(w)
  /\ UNCHANGED <<scene, order, bridges, paycrest, heard, dead>>

\* cctp.start gives the transfer it has already.
bring(w) ==
  /\ At(w, "bring") /\ Go(w, "homeMark")
  /\ opens("refund") \/ (bridges["refund"].row # "none" /\ UNCHANGED bridges)
  /\ UNCHANGED <<scene, order, paycrest, heard, dead>>

homeMark(w) ==
  /\ At(w, "homeMark") /\ Moves({"refunded_on_base"}, [order EXCEPT !.status = "refund_bridging"]) /\ Rest(w)
  /\ UNCHANGED <<scene, bridges, paycrest, heard, dead>>

-----------------------------------------------------------------------------

crash(w) ==
  /\ scene.dies /\ w \in MayDie \ dead /\ dead' = dead \cup {w}
  /\ UNCHANGED <<scene, order, bridges, paycrest, heard, work>>

step(w) ==
  \/ startOut(w) \/ markOut(w) \/ onOutFinished(w) \/ onRefundFinished(w)
  \/ take(w) \/ create(w) \/ answered(w) \/ giveUp(w) \/ send(w) \/ unsent(w) \/ fund(w)
  \/ apply(w) \/ echo(w) \/ home(w) \/ bring(w) \/ homeMark(w)

\* What a pass of the reconciler begins.
begin(w) == (\E b \in Bridges : finishes(w, b)) \/ submits(w) \/ resolve(w) \/ poll(w) \/ returns(w)

\* Paycrest and the chains.
world == (\E k \in Orders : transferLands(k) \/ decides(k)) \/ (\E b \in Bridges : moves(b))

Next == world \/ \E w \in Workers : place(w) \/ step(w) \/ begin(w) \/ hear(w) \/ crash(w)

Spec == Init /\ [][Next]_vars

\* Paycrest and the chains go on, a live worker ends what it began, and the
\* process that survives makes passes for ever.
Fairness ==
  /\ WF_vars(world)
  /\ \A w \in Workers : WF_vars(step(w))
  /\ \A w \in Workers \ MayDie : SF_vars(begin(w))

FairSpec == Spec /\ Fairness

-----------------------------------------------------------------------------
(* Properties *)

TypeOK ==
  /\ scene \in Scenes /\ dead \subseteq MayDie /\ BridgeType
  /\ order.status \in Statuses /\ order.n \in 0 .. MaxSubmits + 2 /\ order.pc \in Orders \cup {0}
  /\ \A k \in Orders : /\ paycrest[k].status \in {"none", "open", "expired", "pending", "settled", "refunding", "refunded"}
                       /\ paycrest[k].transfer \in {"none", "queued", "done", "failed"}
  /\ heard \subseteq Orders \X {"pending", "settled", "refunding", "refunded", "expired"}
  /\ Base >= 0

Paid == {k \in Orders : paycrest[k].status = "settled"}

\* The player is paid at the bank or has the USDC back, not both.
PaidOnce == Cardinality(Paid) + (IF bridges["refund"].usdc = "source" THEN 0 ELSE 1) <= 1

\* An ended order says where the money is.
EndsHonest ==
  /\ order.status = "completed" => Paid # {}
  /\ order.status = "refunded" => bridges["refund"].usdc = "there" /\ Paid = {}
  /\ order.status = "failed" => bridges["out"].row = "none"

\* The money is in one place, and the order says where.
MoneyInOnePlace == TypeOK /\ PaidOnce /\ EndsHonest

\* Without a crash, a lost answer or a stall, a confirmed cash-out ends or is
\* put before a human.
CashOutEnds ==
  ~(scene.stalls \/ scene.dies \/ scene.lossy) /\ order.status = "confirmed"
    ~> order.status \in TERMINAL \cup {"needs_review"}

\* reconcile.py: the reconciler polls Paycrest for what a webhook or a crash
\* missed, so what Paycrest decides reaches an order that waits on it.
VerdictHeard ==
  order.status \in {"awaiting_settlement", "processing", "refunding"}
    ~> order.status \in {"refunded_on_base", "refund_bridging", "needs_review"} \cup TERMINAL
=============================================================================
