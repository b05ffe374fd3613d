-------------------------- MODULE ApprovedBets_proofs --------------------------
(***************************************************************************)
(* For any workers, approvals, amounts and caps, whatever races, dies, is *)
(* late, fails on the chain or is answered wrongly: the types of           *)
(* ApprovedBets hold, a settled or void book balances, the overlay is what *)
(* its keys say, the day's count stands for the withdrawals accepted, the  *)
(* House pays out one pull once, and an approval that one worker applies   *)
(* is charged once.                                                        *)
(***************************************************************************)
EXTENDS ApprovedBets, Sums

-----------------------------------------------------------------------------
(* What holds whatever races *)

\* Where a worker carries an approval it has claimed; on which of the rails.
DemoPlaces == {"hold", "book", "unhold", "pull", "release"}
PoolPlaces == {"pool", "deposit", "refund"}
Taken == {"enter"} \cup DemoPlaces \cup PoolPlaces

Jobs == [at : Places, bet : Bets \cup {None}]

JobOK(q) ==
  /\ q.at \in Taken \cup {"claim"} => q.bet \in Bets
  /\ q.at \in DemoPlaces => OnDemo(q.bet)
  /\ q.at \in PoolPlaces => ~ OnDemo(q.bet)

WorkOK == work \in [Workers -> Jobs] /\ \A w \in Workers : JobOK(work[w])

RestOK ==
  /\ approval \in [Bets -> {"pending", "approved", "denied", "applied"}]
  /\ wallet \in Nat /\ adjust \in Int
  /\ transit \in [Bets \cup {"cash"} -> Nat] /\ landed \in [Bets \cup {"cash"} -> Nat]
  /\ failed \in [Bets \cup {"cash"} -> Nat] /\ unheard \in [Bets \cup {"cash"} -> Nat]
  /\ claims \in [Bets -> Nat] /\ deposits \in [Bets -> Nat] /\ refunded \in [Bets -> Nat]
  /\ lock \in Workers \cup {None} /\ dead \subseteq MayCrash
  /\ tickets \in [Bets -> Nat] /\ book \in {"open", "full", "closed", "settled", "void"}
  /\ rail \in {"demo", "pool"}

PayoutsOK ==
  /\ (payouts = None) = Unsettled
  /\ payouts # None =>
       payouts \in [bettors : [Bets -> Nat], agents : Nat, creators : Nat, fee : Nat, dust : Nat]

\* No tickets come from the pool once the ledger's book has ended.
RailOK ==
  /\ payouts # None => rail = "demo"
  /\ \A b \in Bets : OnDemo(b) => deposits[b] = 0

\* The cap counts every withdrawal that is on its way to its transfer.
CashHeld == [w \in Workers |-> IF work[w].at = "cash" THEN Cash ELSE 0]
CapHeld == capUsed \in 0 .. DailyCap /\ SumFunctionOnSet(CashHeld, Workers) <= capUsed

\* ... and every one that Circle accepted.
Heard(k) == SentFor(k) - unheard[k]
CapCovers == Cash * Heard("cash") + SumFunctionOnSet(CashHeld, Workers) <= capUsed

\* A pull accepted for the pool is with the worker that goes on to deposit or
\* refund it, until it is one of the two.
Backing(b) == [w \in Workers |-> IF work[w].at \in {"deposit", "refund"} /\ work[w].bet = b THEN 1 ELSE 0]
PoolCovers ==
  \A b \in Bets : ~ OnDemo(b) =>
    tickets[b] + deposits[b] + refunded[b] + SumFunctionOnSet(Backing(b), Workers) <= Heard(b)

\* What a payout pays is written down before.
PaidOK == <<"payout", None>> \in keys => payouts # None

\* Two workers have an approval in hand only if both won its claim.
Carries(w, b) == work[w].bet = b /\ work[w].at \in Taken
Hands ==
  \A w \in Workers, b \in Bets : Carries(w, b) =>
    claims[b] >= 1 /\ \A v \in Workers \ {w} : Carries(v, b) => claims[b] >= 2

\* An approval that one worker claims is touched by none before, at each of
\* its places by what led there, and is charged when the worker is gone.
View(b) == <<Applied("hold", b), Returned(b), SentFor(b), unheard[b], tickets[b], deposits[b]>>
Stage(p, b) ==
  /\ p \in {"enter", "hold", "pool"} => View(b) = <<0, 0, 0, 0, 0, 0>>
  /\ p \in {"book", "unhold"} => View(b) = <<1, 0, 0, 0, 0, 0>>
  /\ p = "pull" => View(b) = <<1, 0, 0, 0, 1, 0>>
  /\ p = "release" => View(b) = <<1, 0, 1, 0, 1, 0>>
  /\ p \in {"deposit", "refund"} => tickets[b] = 0 /\ deposits[b] = 0
Over(b) ==
  /\ tickets[b] + deposits[b] <= 1
  /\ OnDemo(b) => Applied("hold", b) - Returned(b) + SentFor(b) = tickets[b] + unheard[b]
Course(b) ==
  /\ claims[b] = 0 => View(b) = <<0, 0, 0, 0, 0, 0>>
  /\ claims[b] = 1 =>
       /\ \A w \in Workers : Carries(w, b) => Stage(work[w].at, b)
       /\ (\A w \in Workers : ~ Carries(w, b)) => Over(b)

\* The inductive invariant: the types, the book, the cap, the pool, the
\* overlay, and the course of each approval.
Core == WorkOK /\ RestOK /\ PayoutsOK /\ RailOK /\ CapHeld /\ BookBalances
IInv ==
  /\ Core /\ CapCovers /\ PoolCovers /\ PaidOK /\ OverlayAddsUp
  /\ Hands /\ \A b \in Bets : Course(b)

-----------------------------------------------------------------------------
(* What a step does to the worker that takes it *)

\* The constants, as the proofs use them.
LEMMA Constants ==
  /\ Amount \in [Bets -> Nat \ {0}] /\ Side \in [Bets -> {"a", "b", "draw", "lp"}]
  /\ IsFiniteSet(Bets) /\ IsFiniteSet(Workers)
  /\ {Chips, Cash, DailyCap, Seed, DrawSeed, PotCap, DrawCap, FlatFee, FlatMax, FeeBps, CreatorBps}
       \subseteq Nat
  /\ None \notin Workers /\ "cash" \notin Bets /\ MayCrash \subseteq Workers
BY BetsAssumption, WorkersAssumption

\* One worker's turn: it goes from one place to another, or is idle again.
Roads == {<<"claim", "enter">>, <<"hold", "book">>, <<"book", "pull">>, <<"book", "unhold">>,
          <<"pull", "release">>, <<"pool", "deposit">>, <<"deposit", "refund">>}

Turns(q, r) ==
  \/ r = Idle
  \/ q.at = "idle" /\ r.at = "claim" /\ r.bet \in Bets
  \/ q.at = "idle" /\ r.at = "cash"
  \/ q.at = "cash" /\ r.at = "sent"
  \/ <<q.at, r.at>> \in Roads /\ r.bet = q.bet
  \/ q.at = "enter" /\ r.at = (IF OnDemo(q.bet) THEN "hold" ELSE "pool") /\ r.bet = q.bet

\* Any action of a worker but its death.
Act(w) == Apply(w) \/ startCash(w) \/ sendCash(w) \/ endCash(w)

\* A worker acts alone.
LEMMA GoTurns ==
  ASSUME WorkOK, NEW w \in Workers, NEW p \in Places, Go(w, p)
  PROVE  /\ work' \in [Workers -> Jobs]
         /\ work'[w].at = p /\ work'[w].bet = work[w].bet
         /\ \A v \in Workers \ {w} : work'[v] = work[v]
<1>1. work \in [Workers -> Jobs] /\ work[w] \in Jobs
  BY DEF WorkOK
<1>2. work'[w] = [work[w] EXCEPT !.at = p] /\ [work[w] EXCEPT !.at = p] \in Jobs
  BY <1>1 DEF Go, Jobs
<1> QED
  BY <1>1, <1>2 DEF Go, Jobs

\* ... and the same of one that is done.
LEMMA IdleTurns ==
  ASSUME WorkOK, NEW w \in Workers, work' = [work EXCEPT ![w] = Idle]
  PROVE  /\ work' \in [Workers -> Jobs] /\ work'[w] = Idle
         /\ \A v \in Workers \ {w} : work'[v] = work[v]
BY DEF WorkOK, Jobs, Idle, Places

\* What an action does to the work, in its terms.
LEMMA ActTurns ==
  ASSUME WorkOK, NEW w \in Workers, Act(w)
  PROVE  /\ w \notin dead /\ rail' = rail
         /\ work' \in [Workers -> Jobs] /\ Turns(work[w], work'[w])
         /\ \A v \in Workers \ {w} : work'[v] = work[v]
<1> DEFINE Turned == /\ work' \in [Workers -> Jobs] /\ Turns(work[w], work'[w])
                     /\ \A v \in Workers \ {w} : work'[v] = work[v]
<1>0. work[w] \in Jobs /\ work \in [Workers -> Jobs]
  BY DEF WorkOK
<1>1. ASSUME work' = [work EXCEPT ![w] = Idle] PROVE Turned
  BY <1>1, IdleTurns DEF Turns
<1>2. ASSUME NEW p \in Places, Go(w, p), <<work[w].at, p>> \in Roads PROVE Turned
  <2>1. work'[w].at = p /\ work'[w].bet = work[w].bet
    BY <1>2, GoTurns
  <2>2. Turns(work[w], work'[w])
    BY <1>2, <2>1 DEF Turns
  <2> QED
    BY <1>2, <2>2, GoTurns
<1>3. ASSUME NEW b \in Bets, readApproval(w, b) PROVE Turned /\ w \notin dead /\ rail' = rail
  <2>1. work' = [work EXCEPT ![w] = [at |-> "claim", bet |-> b]] /\ work[w].at = "idle"
    BY <1>3 DEF readApproval, At
  <2>2. [at |-> "claim", bet |-> b] \in Jobs
    BY DEF Jobs, Places
  <2>3. work' \in [Workers -> Jobs] /\ work'[w] = [at |-> "claim", bet |-> b]
        /\ \A v \in Workers \ {w} : work'[v] = work[v]
    BY <1>0, <2>1, <2>2
  <2>4. Turns(work[w], work'[w])
    BY <2>1, <2>3 DEF Turns
  <2> QED
    BY <1>3, <2>3, <2>4 DEF readApproval, At
<1>4. CASE claim_apply(w)
  <2>1. CASE work' = [work EXCEPT ![w] = Idle]
    BY <1>1, <1>4, <2>1 DEF claim_apply, At
  <2>2. CASE Go(w, "enter")
    BY <1>2, <1>4, <2>2 DEF claim_apply, At, Places, Roads
  <2> QED
    BY <1>4, <2>1, <2>2 DEF claim_apply
<1>5. CASE enter(w)
  <2>1. CASE work' = [work EXCEPT ![w] = Idle]
    BY <1>1, <1>5, <2>1 DEF enter, At
  <2>2. CASE Go(w, IF OnDemo(work[w].bet) THEN "hold" ELSE "pool")
    <3> DEFINE p == IF OnDemo(work[w].bet) THEN "hold" ELSE "pool"
    <3>1. p \in Places
      BY DEF Places
    <3> HIDE DEF p
    <3>2. /\ work'[w].at = p /\ work'[w].bet = work[w].bet
          /\ work' \in [Workers -> Jobs] /\ \A v \in Workers \ {w} : work'[v] = work[v]
      <4>1. Go(w, p)
        BY <2>2 DEF p
      <4> QED
        BY <3>1, <4>1, GoTurns
    <3>3. Turns(work[w], work'[w])
      BY <1>5, <3>2 DEF Turns, enter, At, p
    <3> QED
      BY <1>5, <3>2, <3>3 DEF enter, At
  <2> QED
    BY <1>5, <2>1, <2>2 DEF enter
<1>6. CASE hold(w)
  BY <1>6, <1>1, <1>2 DEF hold, Leave, At, Places, Roads
<1>7. CASE bookTicket(w) \/ bookRefused(w)
  BY <1>7, <1>2 DEF bookTicket, bookRefused, At, Places, Roads
<1>8. CASE unhold(w) \/ releaseHold(w) \/ refundFloat(w) \/ endCash(w)
  BY <1>8, <1>1 DEF unhold, releaseHold, refundFloat, endCash, Leave, At
<1>9. CASE pull(w)
  BY <1>9, <1>1, <1>2 DEF pull, Leave, At, Places, Roads
<1>10. CASE pullForPool(w)
  BY <1>10, <1>1, <1>2 DEF pullForPool, Leave, At, Places, Roads
<1>11. CASE deposit(w)
  BY <1>11, <1>1, <1>2 DEF deposit, Leave, At, Places, Roads
<1>12. CASE startCash(w)
  <2>1. Go(w, "cash") /\ work[w].at = "idle"
    BY <1>12 DEF startCash, At
  <2>2. Turned
    BY <2>1, GoTurns DEF Turns, Places
  <2> QED
    BY <1>12, <2>2 DEF startCash, At
<1>13. CASE sendCash(w)
  <2>1. Go(w, "sent") /\ work[w].at = "cash"
    BY <1>13 DEF sendCash, At
  <2>2. Turned
    BY <2>1, GoTurns DEF Turns, Places
  <2> QED
    BY <1>13, <2>2 DEF sendCash, At
<1> QED
  BY <1>3, <1>4, <1>5, <1>6, <1>7, <1>8, <1>9, <1>10, <1>11, <1>12, <1>13 DEF Act, Apply

\* Everything else leaves the workers where they are.
LEMMA OthersTurn ==
  ASSUME Next, \A w \in Workers : ~ Act(w)
  PROVE  UNCHANGED <<work, rail>>
BY DEF Next, Act, resolve_approval, crash, closeBook, settle, void, payFan, land, mineDeposit, lapse

\* A turn keeps a job in order.
LEMMA TurnOK ==
  ASSUME NEW q \in Jobs, NEW r \in Jobs, JobOK(q), Turns(q, r)
  PROVE  JobOK(r)
BY DEF JobOK, Turns, Roads, Idle, Taken, DemoPlaces, PoolPlaces, Jobs, Places

\* Every job stays in order, and the rail is chosen once.
LEMMA WorkNext ==
  ASSUME WorkOK, Next
  PROVE  WorkOK' /\ rail' = rail
<1>1. ASSUME NEW w \in Workers, Act(w) PROVE WorkOK' /\ rail' = rail
  <2>1. /\ rail' = rail /\ work' \in [Workers -> Jobs] /\ Turns(work[w], work'[w])
        /\ \A v \in Workers \ {w} : work'[v] = work[v]
    BY <1>1, ActTurns
  <2>2. ASSUME NEW v \in Workers PROVE JobOK(work[v])'
    <3>1. work[v] \in Jobs /\ JobOK(work[v])
      BY DEF WorkOK
    <3>2. JobOK(work'[v])
      <4>1. CASE v = w
        <5>1. work'[w] \in Jobs
          BY <2>1
        <5> QED
          BY <2>1, <3>1, <4>1, <5>1, TurnOK
      <4> QED
        BY <2>1, <3>1, <4>1
    <3> QED
      BY <2>1, <3>2 DEF JobOK, OnDemo
  <2> QED
    BY <2>1, <2>2 DEF WorkOK
<1>2. ASSUME UNCHANGED <<work, rail>> PROVE WorkOK' /\ rail' = rail
  BY <1>2 DEF WorkOK, JobOK, OnDemo
<1> QED
  BY <1>1, <1>2, OthersTurn

\* A worker that carries an approval knows what is due.
LEMMA DueNat ==
  ASSUME WorkOK, NEW w \in Workers, work[w].at \in Taken \cup {"claim"}
  PROVE  work[w].bet \in Bets /\ Due(w) \in Nat \ {0}
BY Constants DEF WorkOK, JobOK, Due

\* What a transfer moves is a number.
LEMMA AmountNat ==
  ASSUME NEW k \in Bets \cup {"cash"}
  PROVE  AmountOf(k) \in Nat
BY Constants DEF AmountOf

-----------------------------------------------------------------------------
(* Types *)

\* The types of everything but the jobs, over an action of a worker ...
LEMMA RestAct ==
  ASSUME WorkOK, RestOK, NEW w \in Workers, Act(w)
  PROVE  RestOK'
<1>0. "cash" \notin Bets
  BY Constants
<1> USE DEF RestOK, At, asked, balance, external, circle, market, OnDemo
<1>1. ASSUME NEW b \in Bets, readApproval(w, b) PROVE RestOK'
  BY <1>1 DEF readApproval
<1>2. CASE claim_apply(w)
  <2>1. work[w].bet \in Bets
    BY <1>2, DueNat DEF claim_apply
  <2> QED
    BY <1>2, <2>1 DEF claim_apply
<1>3. CASE enter(w)
  BY <1>3 DEF enter
<1>4. CASE hold(w) \/ unhold(w) \/ releaseHold(w)
  <2>1. Due(w) \in Nat
    BY <1>4, DueNat DEF hold, unhold, releaseHold, Taken, DemoPlaces
  <2>2. adjust' \in Int
    BY <1>4, <2>1 DEF hold, unhold, releaseHold, apply_once
  <2>3. lock' \in Workers \cup {None}
    BY <1>4 DEF hold, unhold, releaseHold, Leave
  <2> QED
    BY <1>4, <2>2, <2>3 DEF hold, unhold, releaseHold
<1>5. CASE bookTicket(w)
  <2>1. work[w].bet \in Bets
    BY <1>5, DueNat DEF bookTicket, Taken, DemoPlaces
  <2>2. tickets' \in [Bets -> Nat]
    BY <1>5, <2>1 DEF bookTicket
  <2>3. book' \in {"open", "full", "closed", "settled", "void"}
    BY <1>5 DEF bookTicket, StatusAfter
  <2> QED
    BY <1>5, <2>2, <2>3 DEF bookTicket
<1>6. CASE bookRefused(w)
  BY <1>6 DEF bookRefused
<1>7. ASSUME NEW k \in Bets \cup {"cash"}, Accepted(k) \/ Refused(k)
      PROVE  /\ transit' \in [Bets \cup {"cash"} -> Nat] /\ landed' = landed /\ failed' = failed
             /\ unheard' \in [Bets \cup {"cash"} -> Nat]
  BY <1>7 DEF Accepted, Refused, Sent
<1>8. CASE pull(w) \/ pullForPool(w)
  <2>1. work[w].bet \in Bets
    BY <1>8, DueNat DEF pull, pullForPool, Taken, DemoPlaces, PoolPlaces
  <2>2. /\ transit' \in [Bets \cup {"cash"} -> Nat] /\ landed' = landed /\ failed' = failed
        /\ unheard' \in [Bets \cup {"cash"} -> Nat]
    BY <1>7, <1>8, <2>1 DEF pull, pullForPool
  <2> QED
    BY <1>8, <2>2 DEF pull, pullForPool, Leave
<1>9. CASE deposit(w)
  <2>1. work[w].bet \in Bets
    BY <1>9, DueNat DEF deposit, Taken, PoolPlaces
  <2>2. tickets' \in [Bets -> Nat] /\ deposits' \in [Bets -> Nat]
    BY <1>9, <2>1 DEF deposit, Deposited, Unconfirmed
  <2> QED
    BY <1>9, <2>2 DEF deposit, Leave
<1>10. CASE refundFloat(w)
  <2>1. Due(w) \in Nat /\ work[w].bet \in Bets
    BY <1>10, DueNat DEF refundFloat, Taken, PoolPlaces
  <2>2. wallet' \in Nat /\ refunded' \in [Bets -> Nat]
    BY <1>10, <2>1 DEF refundFloat
  <2> QED
    BY <1>10, <2>2 DEF refundFloat, Leave
<1>11. CASE startCash(w)
  BY <1>11 DEF startCash
<1>12. CASE sendCash(w)
  <2>1. /\ transit' \in [Bets \cup {"cash"} -> Nat] /\ landed' = landed /\ failed' = failed
        /\ unheard' \in [Bets \cup {"cash"} -> Nat]
    BY <1>7, <1>12 DEF sendCash
  <2> QED
    BY <1>12, <2>1 DEF sendCash
<1>13. CASE endCash(w)
  BY <1>13 DEF endCash, Leave
<1> QED
  BY <1>1, <1>2, <1>3, <1>4, <1>5, <1>6, <1>8, <1>9, <1>10, <1>11, <1>12, <1>13 DEF Act, Apply

\* ... and over every step.
LEMMA RestNext ==
  ASSUME WorkOK, RestOK, PayoutsOK, Next
  PROVE  RestOK'
<1> USE DEF RestOK, asked, balance, external, circle, market
<1>1. ASSUME NEW w \in Workers, Act(w) PROVE RestOK'
  BY <1>1, RestAct
<1>2. ASSUME NEW w \in Workers, crash(w) PROVE RestOK'
  BY <1>2 DEF crash
<1>3. ASSUME NEW b \in Bets, resolve_approval(b) PROVE RestOK'
  BY <1>3 DEF resolve_approval
<1>4. CASE closeBook \/ settle \/ void \/ lapse
  BY <1>4 DEF closeBook, settle, void, lapse
<1>5. CASE payFan
  <2>1. payouts.bettors \in [Bets -> Nat]
    BY <1>5 DEF payFan, PayoutsOK, Unsettled
  <2>2. SumFunctionOnSet(payouts.bettors, Bets) \in Nat
    BY <2>1, Constants, SumNat
  <2> QED
    BY <1>5, <2>2 DEF payFan, apply_once
<1>6. CASE land
  <2>1. PICK k \in Bets \cup {"cash"} :
          /\ transit[k] > 0 /\ transit' = [transit EXCEPT ![k] = @ - 1]
          /\ \/ /\ wallet >= AmountOf(k) /\ wallet' = wallet - AmountOf(k)
                /\ landed' = [landed EXCEPT ![k] = @ + 1] /\ UNCHANGED failed
             \/ failed' = [failed EXCEPT ![k] = @ + 1] /\ UNCHANGED <<wallet, landed>>
    BY <1>6 DEF land
  <2>2. AmountOf(k) \in Nat
    BY AmountNat
  <2>3. /\ transit' \in [Bets \cup {"cash"} -> Nat] /\ wallet' \in Nat
        /\ landed' \in [Bets \cup {"cash"} -> Nat] /\ failed' \in [Bets \cup {"cash"} -> Nat]
    BY <2>1, <2>2
  <2> QED
    BY <1>6, <2>3 DEF land
<1>7. CASE mineDeposit
  <2>1. PICK b \in Bets :
          /\ deposits[b] > 0 /\ deposits' = [deposits EXCEPT ![b] = @ - 1]
          /\ Deposited(b) \/ UNCHANGED tickets
    BY <1>7 DEF mineDeposit
  <2>2. deposits' \in [Bets -> Nat] /\ tickets' \in [Bets -> Nat]
    BY <2>1 DEF Deposited
  <2> QED
    BY <1>7, <2>2 DEF mineDeposit
<1> QED
  BY <1>1, <1>2, <1>3, <1>4, <1>5, <1>6, <1>7 DEF Next, Act

-----------------------------------------------------------------------------
(* The book *)

\* The stakes on some bets, as a sum of naturals.
StakeOf == [b \in Bets |-> tickets[b] * Amount[b]]

\* The stakes on any bets add up to a number.
LEMMA StakeTerms ==
  ASSUME RestOK, NEW S \in SUBSET Bets
  PROVE  /\ IsFiniteSet(S) /\ \A b \in Bets : StakeOf[b] \in Nat
         /\ StakeOn(S) = SumFunctionOnSet(StakeOf, S) /\ StakeOn(S) \in Nat
<1>1. IsFiniteSet(S)
  BY Constants, FS_Subset
<1>2. \A b \in Bets : StakeOf[b] \in Nat
  BY Constants DEF RestOK, StakeOf
<1>3. StakeOn(S) = SumFunctionOnSet(StakeOf, S)
  BY DEF StakeOn, StakeOf
<1> QED
  BY <1>1, <1>2, <1>3, SumNat

\* The markets of the book.
LEMMA Markets ==
  /\ SideBets \in SUBSET Bets /\ Fans \in SUBSET Bets
  /\ \A s \in {"a", "b", "draw", "lp"} : On(s) \in SUBSET Bets
  /\ SideBets \cap On("draw") = {} /\ Fans = SideBets \cup On("draw")
BY DEF SideBets, Fans, On

\* The fans' stakes are those of the two markets.
LEMMA FansStake ==
  ASSUME RestOK
  PROVE  StakeOn(Fans) = StakeOn(SideBets) + StakeOn(On("draw"))
<1> DEFINE A == SideBets
           D == On("draw")
<1>1. A \in SUBSET Bets /\ D \in SUBSET Bets /\ A \cap D = {} /\ Fans = A \cup D
  BY Markets
<1> HIDE DEF A, D
<1>2. IsFiniteSet(A) /\ IsFiniteSet(D) /\ \A b \in A \cup D : StakeOf[b] \in Nat
  BY <1>1, StakeTerms
<1>3. SumFunctionOnSet(StakeOf, A \cup D) = SumFunctionOnSet(StakeOf, A) + SumFunctionOnSet(StakeOf, D)
  BY <1>1, <1>2, SumUnion
<1>4. StakeOn(A \cup D) = SumFunctionOnSet(StakeOf, A \cup D)
  BY <1>1, StakeTerms
<1>5. StakeOn(A) = SumFunctionOnSet(StakeOf, A) /\ StakeOn(D) = SumFunctionOnSet(StakeOf, D)
  BY <1>1, StakeTerms
<1> QED
  BY <1>1, <1>3, <1>4, <1>5 DEF A, D

\* A refund pays each stake back.
LEMMA RefundPays ==
  ASSUME RestOK, NEW S \in SUBSET Bets
  PROVE  /\ StakesBack(S) \in [Bets -> Nat]
         /\ SumFunctionOnSet(StakesBack(S), Bets) = StakeOn(S)
<1> DEFINE back == StakesBack(S)
<1>1. \A b \in Bets : StakeOf[b] \in Nat
  BY StakeTerms
<1>2. back = [b \in Bets |-> IF b \in S THEN StakeOf[b] ELSE 0]
  BY DEF StakesBack, StakeOf
<1>3. /\ \A b \in S : back[b] \in Nat /\ back[b] = StakeOf[b]
      /\ \A b \in Bets \ S : back[b] = 0
  BY <1>1, <1>2
<1>4. back \in [Bets -> Nat]
  BY <1>1, <1>2
<1>5. IsFiniteSet(S) /\ IsFiniteSet(Bets)
  BY StakeTerms, Constants
<1> HIDE DEF back
<1>6. SumFunctionOnSet(back, Bets) = SumFunctionOnSet(back, S)
  BY <1>3, <1>5, SumSupport
<1>7. SumFunctionOnSet(back, S) = SumFunctionOnSet(StakeOf, S)
  BY <1>1, <1>3, <1>5, SumEqual
<1> QED
  BY <1>4, <1>6, <1>7, StakeTerms DEF back

\* The fee, the creators' pool and what is left are whole units.
LEMMA CutsNat ==
  ASSUME NEW pot \in Nat
  PROVE  /\ Fee(pot) \in Nat /\ CreatorPool(pot) \in Nat /\ CreatorPool(pot) <= pot
         /\ Distributable(pot) \in Nat /\ Distributable(pot) <= pot - CreatorPool(pot)
<1>1. \A n \in Nat, d \in Nat \ {0} : HalfEven(n, d) \in Nat
  BY Quotient DEF HalfEven
<1>2. FlatFee \in Nat /\ FlatMax \in Nat /\ FeeBps \in Nat /\ CreatorBps \in Nat
  BY Constants
<1>3. pot * FeeBps \in Nat /\ pot * CreatorBps \in Nat
  BY <1>2
<1>4. Fee(pot) \in Nat
  BY <1>1, <1>2, <1>3 DEF Fee
<1>5. (pot * CreatorBps) \div 10000 \in Nat
  BY <1>3, Quotient
<1>6. CreatorPool(pot) \in Nat /\ CreatorPool(pot) <= pot
  BY <1>5 DEF CreatorPool
<1> QED
  BY <1>4, <1>6 DEF Distributable

\* What the end of a book writes down, and what it adds up to.
PayoutRecord == [bettors : [Bets -> Nat], agents : Nat, creators : Nat, fee : Nat, dust : Nat]

PaidOut(p) == SumFunctionOnSet(p.bettors, Bets) + p.agents + p.creators + p.fee + p.dust

\* One bettor's shares, each rounded down, times the winning stakes.
LEMMA ShareFloor ==
  ASSUME NEW t \in Nat, NEW a \in Nat, NEW d \in Nat, NEW w \in Nat \ {0}
  PROVE  /\ t * ((a * d) \div w) \in Nat
         /\ (t * ((a * d) \div w)) * w <= (t * a) * d
<1> DEFINE q == (a * d) \div w
<1>1. a * d \in Nat
  OBVIOUS
<1>2. q \in Nat /\ q * w <= a * d
  BY <1>1, Quotient
<1> HIDE DEF q
<1>3. q * w \in Nat /\ t * q \in Nat
  BY <1>2
<1>4. (q * w) * t <= (a * d) * t
  BY <1>1, <1>2, <1>3, MulMonotone
<1>5. (t * q) * w = (q * w) * t /\ (t * a) * d = (a * d) * t
  BY <1>2
<1> QED
  BY <1>3, <1>4, <1>5 DEF q

\* The shares of all winners, rounded down, fit in what is left to share.
LEMMA SharesFit ==
  ASSUME RestOK, NEW S \in SUBSET Bets, StakeOn(S) \in Nat \ {0}, NEW dist \in Nat
  PROVE  SumFunctionOnSet(
           [b \in Bets |-> IF b \in S THEN tickets[b] * ((Amount[b] * dist) \div StakeOn(S)) ELSE 0], S)
         <= dist
<1> DEFINE win == StakeOn(S)
           share == [b \in Bets |-> IF b \in S THEN tickets[b] * ((Amount[b] * dist) \div win) ELSE 0]
           scaled == [b \in Bets |-> share[b] * win]
           fair == [b \in Bets |-> StakeOf[b] * dist]
<1>1. IsFiniteSet(S) /\ (\A b \in Bets : StakeOf[b] \in Nat) /\ win = SumFunctionOnSet(StakeOf, S)
  BY StakeTerms
<1>2. ASSUME NEW b \in S
      PROVE  /\ share[b] \in Nat /\ scaled[b] = share[b] * win /\ fair[b] = StakeOf[b] * dist
             /\ scaled[b] \in Nat /\ fair[b] \in Nat /\ scaled[b] <= fair[b]
  <2>1. tickets[b] \in Nat /\ Amount[b] \in Nat /\ win \in Nat \ {0} /\ b \in Bets
    BY Constants DEF RestOK
  <2>2. StakeOf[b] = tickets[b] * Amount[b]
    BY <2>1 DEF StakeOf
  <2>3. share[b] = tickets[b] * ((Amount[b] * dist) \div win)
    BY <1>2, <2>1
  <2> HIDE DEF win, share
  <2>4. share[b] \in Nat /\ share[b] * win <= StakeOf[b] * dist
    <3>1. /\ tickets[b] * ((Amount[b] * dist) \div win) \in Nat
          /\ (tickets[b] * ((Amount[b] * dist) \div win)) * win <= (tickets[b] * Amount[b]) * dist
      BY <2>1, ShareFloor
    <3> QED
      BY <2>2, <2>3, <3>1
  <2>5. share[b] * win \in Nat /\ StakeOf[b] * dist \in Nat
    BY <1>1, <2>1, <2>4
  <2> QED
    BY <2>1, <2>4, <2>5
<1>3. win \in Nat \ {0}
  OBVIOUS
<1> HIDE DEF win, share, scaled, fair
<1>4. SumFunctionOnSet(scaled, S) = SumFunctionOnSet(share, S) * win
  BY <1>1, <1>2, <1>3, SumScaled
<1>5. SumFunctionOnSet(fair, S) = win * dist
  BY <1>1, <1>2, SumScaled
<1>6. SumFunctionOnSet(scaled, S) <= SumFunctionOnSet(fair, S)
  BY <1>1, <1>2, SumMonotone
<1>7. SumFunctionOnSet(share, S) \in Nat
  BY <1>1, <1>2, SumNat
<1>8. SumFunctionOnSet(share, S) * win <= dist * win
  BY <1>3, <1>4, <1>5, <1>6
<1>9. SumFunctionOnSet(share, S) <= dist
  BY <1>3, <1>7, <1>8, MulCancel
<1> QED
  BY <1>9 DEF share, win

\* A split pays the pot, to the unit, and the house makes up nothing.
LEMMA SplitPays ==
  ASSUME RestOK, NEW pot \in Nat, NEW S \in SUBSET Bets, StakeOn(S) # 0, NEW agents \in Nat
  PROVE  _split(pot, S, agents) \in PayoutRecord /\ PaidOut(_split(pot, S, agents)) = pot + agents
<1> DEFINE dist == Distributable(pot)
           win == StakeOn(S)
           share == [b \in Bets |-> IF b \in S THEN tickets[b] * ((Amount[b] * dist) \div win) ELSE 0]
           paid == SumFunctionOnSet(share, S)
           creators == CreatorPool(pot)
<1>1. dist \in Nat /\ creators \in Nat /\ dist <= pot - creators
  BY CutsNat
<1>2. win \in Nat \ {0} /\ IsFiniteSet(S) /\ IsFiniteSet(Bets)
  BY StakeTerms, Constants
<1>3. _split(pot, S, agents) = Owes(share, agents, creators, pot - creators - dist, dist - paid)
  BY DEF _split
<1> HIDE DEF dist, win, creators
<1>4. ASSUME NEW b \in Bets PROVE tickets[b] * ((Amount[b] * dist) \div win) \in Nat
  <2>1. tickets[b] \in Nat /\ Amount[b] \in Nat
    BY Constants DEF RestOK
  <2>2. Amount[b] * dist \in Nat
    BY <1>1, <2>1
  <2>3. (Amount[b] * dist) \div win \in Nat
    BY <1>2, <2>2, Quotient
  <2> QED
    BY <2>1, <2>3
<1>5. /\ share \in [Bets -> Nat]
      /\ \A b \in S : share[b] \in Nat
      /\ \A b \in Bets \ S : share[b] = 0
  BY <1>4
<1> HIDE DEF share
<1>6. SumFunctionOnSet(share, Bets) = paid /\ paid \in Nat
  BY <1>2, <1>5, SumSupport, SumNat
<1>7. paid <= dist
  BY <1>1, <1>2, SharesFit DEF share, win
<1> HIDE DEF paid
<1>8. pot - creators - dist \in Nat /\ dist - paid \in Nat
  BY <1>1, <1>6, <1>7
<1>9. Owes(share, agents, creators, pot - creators - dist, dist - paid) \in PayoutRecord
  BY <1>1, <1>5, <1>8 DEF Owes, PayoutRecord
<1>10. PaidOut(Owes(share, agents, creators, pot - creators - dist, dist - paid))
         = paid + agents + creators + (pot - creators - dist) + (dist - paid)
  BY <1>6 DEF PaidOut, Owes
<1> QED
  BY <1>1, <1>3, <1>6, <1>8, <1>9, <1>10

\* A refund of S, and of the agents' seeds, pays that.
LEMMA OwesBack ==
  ASSUME RestOK, NEW S \in SUBSET Bets, NEW agents \in Nat
  PROVE  /\ Owes(StakesBack(S), agents, 0, 0, 0) \in PayoutRecord
         /\ PaidOut(Owes(StakesBack(S), agents, 0, 0, 0)) = StakeOn(S) + agents
<1>1. StakesBack(S) \in [Bets -> Nat] /\ SumFunctionOnSet(StakesBack(S), Bets) = StakeOn(S)
  BY RefundPays
<1>2. StakeOn(S) \in Nat
  BY StakeTerms
<1> QED
  BY <1>1, <1>2 DEF Owes, PayoutRecord, PaidOut

\* Whatever the result, a settlement pays what came in.
LEMMA SettlePays ==
  ASSUME RestOK, NEW result \in {"a", "b", "draw"}
  PROVE  /\ _settle_book(result) \in PayoutRecord
         /\ PaidOut(_settle_book(result)) = StakeOn(Fans) + 2 * Seed + 2 * DrawSeed
<1> DEFINE sides == StakeOn(SideBets)
           draws == StakeOn(On("draw"))
<1>1. /\ sides \in Nat /\ draws \in Nat /\ StakeOn(Fans) = sides + draws
      /\ Seed \in Nat /\ DrawSeed \in Nat
      /\ SideBets \in SUBSET Bets /\ Fans \in SUBSET Bets /\ On(result) \in SUBSET Bets /\ On("draw") \in SUBSET Bets
  BY Markets, StakeTerms, FansStake, Constants
<1>2. CASE result = "draw" /\ draws = 0
  <2>1. _settle_book(result) = Owes(StakesBack(Fans), 2 * Seed + 2 * DrawSeed, 0, 0, 0)
    BY <1>2 DEF _settle_book
  <2> QED
    BY <1>1, <2>1, OwesBack
<1>3. CASE result = "draw" /\ draws # 0
  <2> DEFINE pot == StakeOn(Fans) + 2 * Seed + 2 * DrawSeed
  <2>1. _settle_book(result) = _split(pot, On("draw"), 0)
    BY <1>3 DEF _settle_book
  <2>2. pot \in Nat
    BY <1>1
  <2> HIDE DEF pot
  <2>3. PaidOut(_split(pot, On("draw"), 0)) = pot + 0 /\ _split(pot, On("draw"), 0) \in PayoutRecord
    BY <1>1, <1>3, <2>2, SplitPays
  <2> QED
    BY <2>1, <2>2, <2>3 DEF pot
<1>4. CASE result # "draw" /\ StakeOn(On(result)) = 0
  <2>1. _settle_book(result) = Owes(StakesBack(SideBets), 2 * Seed + (draws + 2 * DrawSeed), 0, 0, 0)
    BY <1>4 DEF _settle_book
  <2> DEFINE agents == 2 * Seed + (draws + 2 * DrawSeed)
  <2>2. agents \in Nat
    BY <1>1
  <2> HIDE DEF agents
  <2>3. /\ Owes(StakesBack(SideBets), agents, 0, 0, 0) \in PayoutRecord
        /\ PaidOut(Owes(StakesBack(SideBets), agents, 0, 0, 0)) = sides + agents
    BY <1>1, <2>2, OwesBack
  <2> QED
    BY <1>1, <2>1, <2>3 DEF agents
<1>5. CASE result # "draw" /\ StakeOn(On(result)) # 0
  <2> DEFINE pot == sides + 2 * Seed
             agents == draws + 2 * DrawSeed
  <2>1. _settle_book(result) = _split(pot, On(result), agents)
    BY <1>5 DEF _settle_book
  <2>2. pot \in Nat /\ agents \in Nat
    BY <1>1
  <2> HIDE DEF pot, agents
  <2>3. PaidOut(_split(pot, On(result), agents)) = pot + agents /\ _split(pot, On(result), agents) \in PayoutRecord
    BY <1>1, <1>5, <2>2, SplitPays
  <2> QED
    BY <1>1, <2>1, <2>3 DEF pot, agents
<1> QED
  BY <1>2, <1>3, <1>4, <1>5

\* A book that has ended takes no more tickets: the ledger's asks whether it
\* is open, and only on the other rail does the pool credit any.
LEMMA TicketsStay ==
  ASSUME WorkOK, RestOK, PayoutsOK, RailOK, payouts # None, Next
  PROVE  \A b \in Fans : tickets'[b] = tickets[b]
<1>0. book \in {"settled", "void"} /\ rail = "demo" /\ \A b \in Bets : deposits[b] = 0
  BY DEF PayoutsOK, RestOK, RailOK, Unsettled, OnDemo
<1>1. ASSUME NEW w \in Workers, bookTicket(w) PROVE \A b \in Fans : tickets'[b] = tickets[b]
  <2>1. CASE UNCHANGED tickets
    BY <2>1
  <2>2. CASE Side[work[w].bet] = "lp" /\ tickets' = [tickets EXCEPT ![work[w].bet] = @ + 1]
    <3>1. work[w].bet \notin Fans
      BY <2>2 DEF Fans, SideBets, On
    <3> QED
      BY <2>2, <3>1, Markets DEF RestOK
  <2> QED
    BY <1>0, <1>1, <2>1, <2>2 DEF bookTicket, BookOpen
<1>2. ASSUME NEW w \in Workers, deposit(w) PROVE FALSE
  BY <1>0, <1>2 DEF deposit, At, WorkOK, JobOK, PoolPlaces, OnDemo
<1>3. ~ mineDeposit
  BY <1>0 DEF mineDeposit
<1>4. ASSUME UNCHANGED tickets PROVE \A b \in Fans : tickets'[b] = tickets[b]
  BY <1>4
<1>5. ASSUME NEW w \in Workers, Apply(w) \/ startCash(w) \/ sendCash(w) \/ endCash(w) \/ crash(w),
             ~ bookTicket(w), ~ deposit(w)
      PROVE  UNCHANGED tickets
  BY <1>5 DEF Apply, readApproval, claim_apply, enter, hold, bookRefused, unhold, pull, releaseHold,
              pullForPool, refundFloat, startCash, sendCash, endCash, crash, market
<1>6. ASSUME closeBook \/ settle \/ void \/ payFan \/ land \/ lapse \/ \E b \in Bets : resolve_approval(b)
      PROVE  UNCHANGED tickets
  BY <1>6 DEF closeBook, settle, void, payFan, land, lapse, resolve_approval, market
<1> QED
  BY <1>1, <1>2, <1>3, <1>4, <1>5, <1>6 DEF Next

\* Stakes move only with their tickets.
LEMMA StakesSame ==
  ASSUME NEW S \in SUBSET Bets, RestOK, RestOK', \A b \in S : tickets'[b] = tickets[b]
  PROVE  StakeOn(S)' = StakeOn(S)
<1>1. \A b \in S : StakeOf[b] \in Nat /\ StakeOf'[b] = StakeOf[b]
  BY StakeTerms DEF StakeOf
<1>2. IsFiniteSet(S) /\ StakeOn(S) = SumFunctionOnSet(StakeOf, S)
  BY StakeTerms
<1>3. StakeOn(S)' = SumFunctionOnSet(StakeOf', S)
  BY DEF StakeOn, StakeOf
<1>4. SumFunctionOnSet(StakeOf', S) = SumFunctionOnSet(StakeOf, S)
  BY <1>1, <1>2, SumEqual
<1> QED
  BY <1>2, <1>3, <1>4

\* An end of the book is its last step.
LEMMA EndsOnce ==
  ASSUME PayoutsOK, RestOK, Next
  PROVE  \/ payouts # None /\ UNCHANGED <<payouts, book>>
         \/ payouts = None /\ payouts' = None /\ Unsettled'
         \/ payouts = None /\ (settle \/ void)
<1>1. payouts # None <=> book \in {"settled", "void"}
  BY DEF PayoutsOK, RestOK, Unsettled
<1>2. CASE settle \/ void
  BY <1>2 DEF settle, void, PayoutsOK
<1>3. ASSUME closeBook PROVE payouts = None /\ payouts' = None /\ Unsettled'
  BY <1>1, <1>3 DEF closeBook, Unsettled
<1>4. ASSUME NEW w \in Workers, bookTicket(w) PROVE \/ payouts # None /\ UNCHANGED <<payouts, book>>
                                                    \/ payouts = None /\ payouts' = None /\ Unsettled'
  <2>1. payouts' = payouts
    BY <1>4 DEF bookTicket
  <2>2. book' = book \/ (book = "open" /\ book' = "full")
    BY <1>4 DEF bookTicket, BookOpen, StatusAfter
  <2> QED
    BY <1>1, <2>1, <2>2 DEF Unsettled, RestOK
<1>5. ASSUME NEW w \in Workers, Apply(w) \/ startCash(w) \/ sendCash(w) \/ endCash(w) \/ crash(w),
             ~ bookTicket(w)
      PROVE  UNCHANGED <<payouts, book>>
  BY <1>5 DEF Apply, readApproval, claim_apply, enter, hold, bookRefused, unhold, pull, releaseHold,
              pullForPool, deposit, refundFloat, startCash, sendCash, endCash, crash, market
<1>6. ASSUME payFan \/ land \/ mineDeposit \/ lapse \/ \E b \in Bets : resolve_approval(b)
      PROVE  UNCHANGED <<payouts, book>>
  BY <1>6 DEF payFan, land, mineDeposit, lapse, resolve_approval, market
<1>7. ASSUME UNCHANGED <<payouts, book>> PROVE \/ payouts # None /\ UNCHANGED <<payouts, book>>
                                               \/ payouts = None /\ payouts' = None /\ Unsettled'
  BY <1>7 DEF PayoutsOK, Unsettled
<1> QED
  BY <1>2, <1>3, <1>4, <1>5, <1>6, <1>7 DEF Next

\* No payout record is None.
LEMMA NoneApart == None \notin PayoutRecord
BY WorkersAssumption DEF PayoutRecord

\* What the end of a book owes.
LEMMA EndPays ==
  ASSUME RestOK, settle \/ void
  PROVE  /\ payouts' \in PayoutRecord
         /\ PaidOut(payouts') = StakeOn(Fans) + (IF book' = "void" THEN 0 ELSE 2 * Seed + 2 * DrawSeed)
<1>1. Fans \in SUBSET Bets /\ Seed \in Nat /\ DrawSeed \in Nat /\ StakeOn(Fans) \in Nat
  BY Markets, StakeTerms, Constants
<1>2. CASE settle
  <2>1. PICK r \in {"a", "b", "draw"} : payouts' = _settle_book(r)
    BY <1>2 DEF settle
  <2> QED
    BY <1>1, <1>2, <2>1, SettlePays DEF settle
<1>3. CASE void
  <2>1. payouts' = Owes(StakesBack(Fans), 0, 0, 0, 0) /\ book' = "void"
    BY <1>3 DEF void
  <2> QED
    BY <1>1, <2>1, OwesBack
<1> QED
  BY <1>2, <1>3

\* A book balances when it ends, and nothing moves it afterwards.
LEMMA BookNext ==
  ASSUME WorkOK, RestOK, RestOK', PayoutsOK, RailOK, BookBalances, Next
  PROVE  PayoutsOK' /\ BookBalances' /\ (payouts' # None => rail = "demo")
<1>1. CASE payouts # None /\ UNCHANGED <<payouts, book>>
  <2>1. StakeOn(Fans)' = StakeOn(Fans)
    BY <1>1, TicketsStay, Markets, StakesSame
  <2>2. BookBalances'
    BY <1>1, <2>1 DEF BookBalances
  <2> QED
    BY <1>1, <2>2 DEF PayoutsOK, RailOK, Unsettled
<1>2. CASE payouts = None /\ payouts' = None /\ Unsettled'
  BY <1>2 DEF PayoutsOK, BookBalances
<1>3. CASE payouts = None /\ (settle \/ void)
  <2>1. payouts' \in PayoutRecord
        /\ PaidOut(payouts') = StakeOn(Fans) + (IF book' = "void" THEN 0 ELSE 2 * Seed + 2 * DrawSeed)
    BY <1>3, EndPays
  <2>2. tickets' = tickets /\ book' \in {"settled", "void"} /\ rail = "demo"
    BY <1>3 DEF settle, void
  <2>3. StakeOn(Fans)' = StakeOn(Fans)
    BY <2>2, Markets, StakesSame
  <2>4. BookBalances'
    <3>1. payouts'.fee \in Nat /\ payouts'.dust \in Nat
      BY <2>1 DEF PayoutRecord
    <3>2. payouts'.fee >= 0 /\ payouts'.dust >= 0
      BY <3>1
    <3> QED
      BY <2>1, <2>3, <3>2 DEF BookBalances, PaidOut
  <2>5. (payouts' = None) = FALSE /\ Unsettled' = FALSE
    BY <2>1, <2>2, NoneApart DEF Unsettled
  <2>6. PayoutsOK'
    BY <2>1, <2>5 DEF PayoutsOK, PayoutRecord
  <2> QED
    BY <2>2, <2>4, <2>6
<1> QED
  BY <1>1, <1>2, <1>3, EndsOnce

\* On the ledger's rail nobody deposits to the pool.
LEMMA RailNext ==
  ASSUME WorkOK, RestOK, PayoutsOK, RailOK, BookBalances, RestOK', Next
  PROVE  RailOK'
<1>1. payouts' # None => rail' = "demo"
  BY BookNext, WorkNext
<1>2. ASSUME NEW b \in Bets, OnDemo(b)' PROVE deposits'[b] = 0
  <2>1. OnDemo(b) /\ deposits[b] = 0
    BY <1>2, WorkNext DEF RailOK, OnDemo
  <2>2. ASSUME NEW w \in Workers, deposit(w) PROVE deposits'[b] = 0
    <3>1. ~ OnDemo(work[w].bet)
      BY <2>2 DEF deposit, At, WorkOK, JobOK, PoolPlaces
    <3> QED
      BY <2>1, <2>2, <3>1 DEF deposit, Unconfirmed, RestOK
  <2>3. ASSUME mineDeposit PROVE deposits'[b] = 0
    BY <2>1, <2>3 DEF mineDeposit, RestOK
  <2>4. ASSUME NEW w \in Workers, Apply(w) \/ startCash(w) \/ sendCash(w) \/ endCash(w) \/ crash(w), ~ deposit(w)
        PROVE  UNCHANGED deposits
    BY <2>4 DEF Apply, readApproval, claim_apply, enter, hold, bookTicket, bookRefused, unhold, pull,
                      releaseHold, pullForPool, refundFloat, startCash, sendCash, endCash, crash, external
  <2>5. ASSUME closeBook \/ settle \/ void \/ payFan \/ land \/ lapse \/ \E c \in Bets : resolve_approval(c)
        PROVE  UNCHANGED deposits
    BY <2>5 DEF closeBook, settle, void, payFan, land, lapse, resolve_approval, external
  <2> QED
    BY <2>1, <2>2, <2>3, <2>4, <2>5 DEF Next
<1> QED
  BY <1>1, <1>2 DEF RailOK

-----------------------------------------------------------------------------
(* The day's cap *)

\* Which action a worker can take is decided by where it is.
LEMMA Whose ==
  ASSUME NEW w \in Workers, Act(w)
  PROVE  /\ work[w].at = "idle" => startCash(w) \/ \E b \in Bets : readApproval(w, b)
         /\ work[w].at = "claim" => claim_apply(w)
         /\ work[w].at = "enter" => enter(w)
         /\ work[w].at = "hold" => hold(w)
         /\ work[w].at = "book" => bookTicket(w) \/ bookRefused(w)
         /\ work[w].at = "unhold" => unhold(w)
         /\ work[w].at = "pull" => pull(w)
         /\ work[w].at = "release" => releaseHold(w)
         /\ work[w].at = "pool" => pullForPool(w)
         /\ work[w].at = "deposit" => deposit(w)
         /\ work[w].at = "refund" => refundFloat(w)
         /\ work[w].at = "cash" => sendCash(w)
         /\ work[w].at = "sent" => endCash(w)
BY DEF Act, Apply, At, readApproval, claim_apply, enter, hold, bookTicket, bookRefused, unhold, pull,
       releaseHold, pullForPool, deposit, refundFloat, startCash, sendCash, endCash

\* What only withdrawals and their transfers move.
LEMMA CashAct ==
  ASSUME WorkOK, NEW w \in Workers, Act(w)
  PROVE  \/ startCash(w) /\ work'[w].at = "cash"
         \/ sendCash(w) /\ work'[w].at = "sent"
         \/ work[w].at # "cash" /\ work'[w].at # "cash" /\ UNCHANGED capUsed
<1>1. Turns(work[w], work'[w]) /\ work[w] \in Jobs /\ work \in [Workers -> Jobs]
  BY ActTurns DEF WorkOK
<1>2. CASE startCash(w)
  BY <1>2, GoTurns DEF startCash, Places
<1>3. CASE sendCash(w)
  BY <1>3, GoTurns DEF sendCash, Places
<1>4. CASE ~ startCash(w) /\ ~ sendCash(w)
  <2>1. work[w].at # "cash"
    BY <1>4, Whose
  <2>2. UNCHANGED capUsed
    BY <1>4 DEF Act, Apply, readApproval, claim_apply, enter, hold, bookTicket, bookRefused, unhold, pull,
                releaseHold, pullForPool, deposit, refundFloat, endCash
  <2>3. CASE \E b \in Bets : readApproval(w, b)
    <3>1. PICK b \in Bets : work' = [work EXCEPT ![w] = [at |-> "claim", bet |-> b]]
      BY <2>3 DEF readApproval
    <3>2. work'[w].at = "claim"
      BY <1>1, <3>1
    <3> QED
      BY <2>1, <2>2, <3>2
  <2>4. CASE ~ \E b \in Bets : readApproval(w, b)
    <3>1. work[w].at # "idle"
      BY <1>4, <2>4, Whose
    <3>2. work'[w].at # "cash"
      BY <1>1, <3>1 DEF Turns, Roads, Idle
    <3> QED
      BY <2>1, <2>2, <3>2
  <2> QED
    BY <2>3, <2>4
<1> QED
  BY <1>2, <1>3, <1>4

\* The surroundings do not count against the cap.
LEMMA CashElse ==
  ASSUME Next, \A w \in Workers : ~ Act(w)
  PROVE  UNCHANGED <<work, capUsed>> /\ (~ land => UNCHANGED circle)
BY DEF Next, Act, resolve_approval, crash, closeBook, settle, void, payFan, land, mineDeposit, lapse,
       external

\* A worker on its way to the transfer has its amount on the cap.
LEMMA HeldTurns ==
  ASSUME WorkOK, NEW w \in Workers, Act(w)
  PROVE  /\ \A v \in Workers : CashHeld[v] \in {0, Cash} /\ CashHeld'[v] \in {0, Cash}
         /\ SumFunctionOnSet(CashHeld, Workers) \in Nat /\ SumFunctionOnSet(CashHeld', Workers) \in Nat
         /\ CashHeld[w] <= SumFunctionOnSet(CashHeld, Workers)
         /\ SumFunctionOnSet(CashHeld', Workers) = SumFunctionOnSet(CashHeld, Workers) - CashHeld[w] + CashHeld'[w]
<1>1. \A v \in Workers \ {w} : work'[v] = work[v]
  BY ActTurns
<1>2. \A v \in Workers : CashHeld[v] \in {0, Cash} /\ CashHeld'[v] \in {0, Cash} /\ (v # w => CashHeld'[v] = CashHeld[v])
  BY <1>1 DEF CashHeld
<1>3. Cash \in Nat /\ IsFiniteSet(Workers)
  BY Constants
<1>4. \A v \in Workers : CashHeld[v] \in Nat /\ CashHeld'[v] \in Nat /\ (v # w => CashHeld'[v] = CashHeld[v])
  BY <1>2, <1>3
<1> QED
  BY <1>2, <1>3, <1>4, SumChange

\* The cap still counts every withdrawal before its transfer.
LEMMA CapNext ==
  ASSUME WorkOK, RestOK, CapHeld, Next
  PROVE  CapHeld'
<1>0. Cash \in Nat /\ DailyCap \in Nat /\ capUsed \in Nat
  BY Constants DEF CapHeld
<1>1. ASSUME NEW w \in Workers, Act(w) PROVE CapHeld'
  <2> DEFINE held == SumFunctionOnSet(CashHeld, Workers)
             held2 == SumFunctionOnSet(CashHeld', Workers)
  <2>1. /\ held \in Nat /\ held2 \in Nat /\ CashHeld[w] <= held
        /\ held2 = held - CashHeld[w] + CashHeld'[w]
    BY <1>1, HeldTurns
  <2>2. held <= capUsed /\ capUsed <= DailyCap
    BY DEF CapHeld
  <2>3. CapHeld' <=> capUsed' \in 0 .. DailyCap /\ held2 <= capUsed'
    BY DEF CapHeld
  <2> HIDE DEF held, held2
  <2>4. CASE startCash(w) /\ work'[w].at = "cash"
    <3>1. CashHeld[w] = 0 /\ CashHeld'[w] = Cash
      BY <2>4 DEF CashHeld, startCash, At
    <3>2. capUsed' = capUsed + Cash /\ capUsed' <= DailyCap
      BY <2>4 DEF startCash, reserve_daily_withdraw
    <3> QED
      BY <1>0, <2>1, <2>2, <2>3, <3>1, <3>2
  <2>5. CASE sendCash(w) /\ work'[w].at = "sent"
    <3>1. CashHeld[w] = Cash /\ CashHeld'[w] = 0
      BY <2>5 DEF CashHeld, sendCash, At
    <3>2. capUsed' = capUsed \/ capUsed' = capUsed - Cash
      BY <2>5 DEF sendCash
    <3> QED
      BY <1>0, <2>1, <2>2, <2>3, <3>1, <3>2
  <2>6. CASE work[w].at # "cash" /\ work'[w].at # "cash" /\ UNCHANGED capUsed
    <3>1. CashHeld[w] = 0 /\ CashHeld'[w] = 0 /\ capUsed' = capUsed
      BY <2>6 DEF CashHeld
    <3> QED
      BY <1>0, <2>1, <2>2, <2>3, <3>1
  <2> QED
    BY <1>1, <2>4, <2>5, <2>6, CashAct
<1>2. ASSUME UNCHANGED <<work, capUsed>> PROVE CapHeld'
  BY <1>2 DEF CapHeld, CashHeld
<1> QED
  BY <1>1, <1>2, CashElse

-----------------------------------------------------------------------------
(* What Circle took *)

\* What was sent, heard of or not, is a number.
LEMMA SentNat ==
  ASSUME RestOK, NEW k \in Bets \cup {"cash"}
  PROVE  SentFor(k) \in Nat /\ unheard[k] \in Nat
BY DEF RestOK, SentFor

\* An accepted transfer is one more, and heard of.
LEMMA AcceptedCounts ==
  ASSUME RestOK, NEW k \in Bets \cup {"cash"}, Accepted(k)
  PROVE  /\ UNCHANGED unheard /\ SentFor(k)' = SentFor(k) + 1
         /\ \A m \in Bets \cup {"cash"} : m # k => SentFor(m)' = SentFor(m)
<1>1. transit'[k] = transit[k] + 1 /\ \A m \in Bets \cup {"cash"} : m # k => transit'[m] = transit[m]
  BY DEF RestOK, Accepted, Sent
<1>2. landed' = landed /\ failed' = failed /\ unheard' = unheard
  BY DEF Accepted, Sent
<1>3. transit[k] \in Nat /\ landed[k] \in Nat /\ failed[k] \in Nat
  BY DEF RestOK
<1> QED
  BY <1>1, <1>2, <1>3 DEF SentFor

\* A refused one is one more unheard of, or none.
LEMMA RefusedCounts ==
  ASSUME RestOK, NEW k \in Bets \cup {"cash"}, Refused(k)
  PROVE  /\ \/ SentFor(k)' = SentFor(k) + 1 /\ unheard'[k] = unheard[k] + 1
            \/ SentFor(k)' = SentFor(k) /\ unheard'[k] = unheard[k]
         /\ \A m \in Bets \cup {"cash"} : m # k => SentFor(m)' = SentFor(m) /\ unheard'[m] = unheard[m]
<1>1. CASE Sent(k) /\ unheard' = [unheard EXCEPT ![k] = @ + 1]
  <2>1. transit'[k] = transit[k] + 1 /\ \A m \in Bets \cup {"cash"} : m # k => transit'[m] = transit[m]
    BY <1>1 DEF RestOK, Sent
  <2>2. unheard'[k] = unheard[k] + 1 /\ \A m \in Bets \cup {"cash"} : m # k => unheard'[m] = unheard[m]
    BY <1>1 DEF RestOK
  <2>3. landed' = landed /\ failed' = failed /\ transit[k] \in Nat /\ landed[k] \in Nat /\ failed[k] \in Nat
    BY <1>1 DEF Sent, RestOK
  <2> QED
    BY <2>1, <2>2, <2>3 DEF SentFor
<1>2. CASE UNCHANGED circle
  BY <1>2 DEF circle, SentFor
<1> QED
  BY <1>1, <1>2 DEF Refused

\* Circle's own steps carry out or fail what was sent.
LEMMA LandCounts ==
  ASSUME RestOK, land
  PROVE  UNCHANGED unheard /\ \A k \in Bets \cup {"cash"} : SentFor(k)' = SentFor(k)
<1>1. PICK k \in Bets \cup {"cash"} :
        /\ transit[k] > 0 /\ transit' = [transit EXCEPT ![k] = @ - 1] /\ UNCHANGED unheard
        /\ \/ landed' = [landed EXCEPT ![k] = @ + 1] /\ UNCHANGED failed
           \/ failed' = [failed EXCEPT ![k] = @ + 1] /\ UNCHANGED landed
  BY DEF land
<1>2. ASSUME NEW m \in Bets \cup {"cash"} PROVE SentFor(m)' = SentFor(m)
  <2>1. transit[m] \in Nat /\ landed[m] \in Nat /\ failed[m] \in Nat
    BY DEF RestOK
  <2>2. CASE m = k
    BY <1>1, <2>1, <2>2 DEF RestOK, SentFor
  <2>3. CASE m # k
    BY <1>1, <2>1, <2>3 DEF RestOK, SentFor
  <2> QED
    BY <2>2, <2>3
<1> QED
  BY <1>1, <1>2

\* Only pulls and withdrawals send anything.
LEMMA CircleAct ==
  ASSUME NEW w \in Workers, Act(w), ~ pull(w), ~ pullForPool(w), ~ sendCash(w)
  PROVE  UNCHANGED unheard /\ \A k \in Bets \cup {"cash"} : SentFor(k)' = SentFor(k)
<1>1. UNCHANGED circle
  BY DEF Act, Apply, readApproval, claim_apply, enter, hold, bookTicket, bookRefused, unhold,
         releaseHold, deposit, refundFloat, startCash, endCash, external
<1> QED
  BY <1>1 DEF circle, SentFor

\* What the surroundings leave alone.
LEMMA CircleElse ==
  ASSUME RestOK, Next, \A w \in Workers : ~ Act(w)
  PROVE  UNCHANGED unheard /\ \A k \in Bets \cup {"cash"} : SentFor(k)' = SentFor(k)
<1>1. CASE land
  BY <1>1, LandCounts
<1>2. CASE ~ land
  BY <1>2, CashElse DEF circle, SentFor
<1> QED
  BY <1>1, <1>2

\* A pull is accepted and its worker goes on, or is refused and it leaves.
LEMMA PullTurns ==
  ASSUME WorkOK, NEW w \in Workers, pull(w) \/ pullForPool(w)
  PROVE  /\ work[w].bet \in Bets /\ Act(w)
         /\ \/ /\ Accepted(work[w].bet) /\ work'[w].bet = work[w].bet
               /\ work'[w].at = (IF pull(w) THEN "release" ELSE "deposit")
            \/ Refused(work[w].bet) /\ work'[w] = Idle
<1>1. work[w].bet \in Bets
  BY DueNat DEF pull, pullForPool, At, Taken, DemoPlaces, PoolPlaces
<1>2. CASE pull(w)
  <2>1. ASSUME Go(w, "release") PROVE work'[w].at = "release" /\ work'[w].bet = work[w].bet
    BY <2>1, GoTurns DEF Places
  <2> QED
    BY <1>1, <1>2, <2>1, IdleTurns DEF pull, Leave, Act, Apply
<1>3. CASE pullForPool(w) /\ ~ pull(w)
  <2>1. ASSUME Go(w, "deposit") PROVE work'[w].at = "deposit" /\ work'[w].bet = work[w].bet
    BY <2>1, GoTurns DEF Places
  <2> QED
    BY <1>1, <1>3, <2>1, IdleTurns DEF pullForPool, Leave, Act, Apply
<1> QED
  BY <1>2, <1>3

\* Only withdrawals are sent as such.
LEMMA CashSent ==
  ASSUME WorkOK, RestOK, NEW w \in Workers, Act(w), ~ sendCash(w)
  PROVE  Heard("cash")' = Heard("cash")
<1>1. CASE pull(w) \/ pullForPool(w)
  <2>1. PICK c \in Bets : c # "cash" /\ (Accepted(c) \/ Refused(c))
    BY <1>1, PullTurns, Constants
  <2> QED
    BY <2>1, AcceptedCounts, RefusedCounts DEF Heard
<1>2. CASE ~ pull(w) /\ ~ pullForPool(w)
  BY <1>2, CircleAct DEF Heard
<1> QED
  BY <1>1, <1>2

\* The day's count still stands for what was accepted.
LEMMA CoversNext ==
  ASSUME WorkOK, RestOK, CapHeld, CapCovers, Next
  PROVE  CapCovers'
<1> DEFINE held == SumFunctionOnSet(CashHeld, Workers)
           held2 == SumFunctionOnSet(CashHeld', Workers)
           t == Heard("cash")
           t2 == Heard("cash")'
<1>0. Cash \in Nat /\ capUsed \in Nat /\ t \in Int /\ Cash * t \in Int /\ Cash * (t + 1) = Cash * t + Cash
  <2>1. SentFor("cash") \in Nat /\ unheard["cash"] \in Nat
    BY SentNat
  <2>2. t \in Int /\ Cash \in Nat /\ capUsed \in Nat
    BY <2>1, Constants DEF Heard, CapHeld
  <2> HIDE DEF t
  <2> QED
    BY <2>2
<1>1. Cash * t + held <= capUsed /\ (CapCovers' <=> Cash * t2 + held2 <= capUsed')
  BY DEF CapCovers
<1>2. ASSUME NEW w \in Workers, Act(w) PROVE CapCovers'
  <2>1. /\ held \in Nat /\ held2 \in Nat /\ CashHeld[w] <= held
        /\ held2 = held - CashHeld[w] + CashHeld'[w]
    BY <1>2, HeldTurns
  <2>2. CASE startCash(w) /\ work'[w].at = "cash"
    <3>1. CashHeld[w] = 0 /\ CashHeld'[w] = Cash
      BY <2>2 DEF CashHeld, startCash, At
    <3>2. capUsed' = capUsed + Cash /\ t2 = t
      BY <1>2, <2>2, CashSent DEF startCash, reserve_daily_withdraw, sendCash, At
    <3> HIDE DEF held, held2, t, t2
    <3> QED
      BY <1>0, <1>1, <2>1, <3>1, <3>2
  <2>3. CASE sendCash(w) /\ work'[w].at = "sent"
    <3>1. CashHeld[w] = Cash /\ CashHeld'[w] = 0
      BY <2>3 DEF CashHeld, sendCash, At
    <3>2. \/ Accepted("cash") /\ capUsed' = capUsed
          \/ Refused("cash") /\ capUsed' = capUsed - Cash
      BY <2>3 DEF sendCash
    <3>3. SentFor("cash") \in Nat /\ unheard["cash"] \in Nat
      BY SentNat
    <3>4. \/ t2 = t + 1 /\ capUsed' = capUsed
          \/ t2 = t /\ capUsed' = capUsed - Cash
      BY <3>2, <3>3, AcceptedCounts, RefusedCounts DEF Heard
    <3> HIDE DEF held, held2, t, t2
    <3> QED
      BY <1>0, <1>1, <2>1, <3>1, <3>4
  <2>4. CASE work[w].at # "cash" /\ work'[w].at # "cash" /\ UNCHANGED capUsed
    <3>1. CashHeld[w] = 0 /\ CashHeld'[w] = 0 /\ capUsed' = capUsed
      BY <2>4 DEF CashHeld
    <3>2. t2 = t
      BY <1>2, <2>4, CashSent DEF sendCash, At
    <3> HIDE DEF held, held2, t, t2
    <3> QED
      BY <1>0, <1>1, <2>1, <3>1, <3>2
  <2> QED
    BY <1>2, <2>2, <2>3, <2>4, CashAct
<1>3. ASSUME \A w \in Workers : ~ Act(w) PROVE CapCovers'
  BY <1>3, CashElse, CircleElse DEF CapCovers, CashHeld, Heard
<1> QED
  BY <1>2, <1>3

-----------------------------------------------------------------------------
(* The pool's money *)

\* A worker's pull for b moves in b's count what Circle accepted of it.
LEMMA HeardAct ==
  ASSUME WorkOK, RestOK, NEW w \in Workers, Act(w), NEW b \in Bets
  PROVE  \/ Heard(b)' = Heard(b) /\ ~ (work[w].at = "pool" /\ work'[w].at = "deposit" /\ work[w].bet = b)
         \/ Heard(b)' = Heard(b) + 1 /\ work[w].bet = b /\ (pull(w) \/ (pullForPool(w) /\ work'[w].at = "deposit"))
<1>0. SentFor(b) \in Nat /\ unheard[b] \in Nat /\ b # "cash"
  BY SentNat, Constants
<1>1. CASE pull(w) \/ pullForPool(w)
  <2>1. PICK c \in Bets :
          /\ c = work[w].bet
          /\ \/ Accepted(c) /\ work'[w].at = (IF pull(w) THEN "release" ELSE "deposit")
             \/ Refused(c) /\ work'[w] = Idle
    BY <1>1, PullTurns
  <2>2. CASE Accepted(c) /\ work'[w].at = (IF pull(w) THEN "release" ELSE "deposit")
    <3>1. UNCHANGED unheard /\ SentFor(c)' = SentFor(c) + 1 /\ (b # c => SentFor(b)' = SentFor(b))
      BY <2>2, AcceptedCounts
    <3>2. CASE c = b
      BY <1>0, <1>1, <2>1, <2>2, <3>1, <3>2 DEF Heard
    <3>3. CASE c # b
      BY <2>1, <3>1, <3>3 DEF Heard
    <3> QED
      BY <3>2, <3>3
  <2>3. CASE Refused(c) /\ work'[w] = Idle
    BY <1>0, <2>3, RefusedCounts DEF Heard, Idle
  <2> QED
    BY <2>1, <2>2, <2>3
<1>2. CASE sendCash(w)
  BY <1>0, <1>2, AcceptedCounts, RefusedCounts DEF Heard, sendCash, At
<1>3. CASE ~ pull(w) /\ ~ pullForPool(w) /\ ~ sendCash(w)
  BY <1>3, CircleAct, Whose DEF Heard
<1> QED
  BY <1>1, <1>2, <1>3

\* The pool's counts of b move only when a worker books, deposits or refunds it.
LEMMA PoolAct ==
  ASSUME RestOK, WorkOK, NEW w \in Workers, Act(w), NEW b \in Bets, ~ OnDemo(b),
         work[w].at \in {"deposit", "refund"} => work[w].bet # b
  PROVE  tickets'[b] = tickets[b] /\ deposits'[b] = deposits[b] /\ refunded'[b] = refunded[b]
<1>1. CASE bookTicket(w)
  <2>1. work[w].bet # b
    BY <1>1 DEF bookTicket, At, WorkOK, JobOK, DemoPlaces
  <2> QED
    BY <1>1, <2>1 DEF bookTicket, RestOK, external
<1>2. CASE deposit(w) \/ refundFloat(w)
  <2>1. work[w].bet # b
    BY <1>2 DEF deposit, refundFloat, At
  <2> QED
    BY <1>2, <2>1 DEF deposit, refundFloat, Deposited, Unconfirmed, RestOK, market
<1>3. CASE ~ bookTicket(w) /\ ~ deposit(w) /\ ~ refundFloat(w)
  BY <1>3 DEF Act, Apply, readApproval, claim_apply, enter, hold, bookRefused, unhold, pull,
              releaseHold, pullForPool, startCash, sendCash, endCash, external, market
<1> QED
  BY <1>1, <1>2, <1>3

\* The surroundings may mine or drop a deposit.
LEMMA PoolElse ==
  ASSUME RestOK, Next, \A w \in Workers : ~ Act(w), NEW b \in Bets
  PROVE  /\ tickets'[b] \in Nat /\ deposits'[b] \in Nat /\ refunded'[b] = refunded[b]
         /\ \/ tickets'[b] = tickets[b] /\ deposits'[b] = deposits[b]
            \/ /\ deposits[b] > 0 /\ tickets'[b] + deposits'[b] <= tickets[b] + deposits[b]
<1>1. CASE mineDeposit
  <2>1. PICK c \in Bets :
          /\ deposits[c] > 0 /\ deposits' = [deposits EXCEPT ![c] = @ - 1] /\ refunded' = refunded
          /\ tickets' = [tickets EXCEPT ![c] = @ + 1] \/ UNCHANGED tickets
    BY <1>1 DEF mineDeposit, Deposited
  <2>2. tickets[b] \in Nat /\ deposits[b] \in Nat
    BY DEF RestOK
  <2>3. CASE c = b
    BY <2>1, <2>2, <2>3 DEF RestOK
  <2>4. CASE c # b
    BY <2>1, <2>2, <2>4 DEF RestOK
  <2> QED
    BY <2>3, <2>4
<1>2. CASE ~ mineDeposit
  BY <1>2 DEF RestOK, Next, Act, resolve_approval, crash, closeBook, settle, void, payFan, land, lapse,
              external, market
<1> QED
  BY <1>1, <1>2

\* The worker that acts takes its own place in the count of a pull.
LEMMA BackingTurns ==
  ASSUME WorkOK, NEW w \in Workers, Act(w), NEW b \in Bets
  PROVE  /\ Backing(b)[w] \in {0, 1} /\ Backing(b)'[w] \in {0, 1}
         /\ SumFunctionOnSet(Backing(b), Workers) \in Nat /\ SumFunctionOnSet(Backing(b)', Workers) \in Nat
         /\ SumFunctionOnSet(Backing(b)', Workers)
              = SumFunctionOnSet(Backing(b), Workers) - Backing(b)[w] + Backing(b)'[w]
<1>1. \A v \in Workers \ {w} : work'[v] = work[v]
  BY ActTurns
<1>2. \A v \in Workers : /\ Backing(b)[v] \in {0, 1} /\ Backing(b)'[v] \in {0, 1}
                         /\ (v # w => Backing(b)'[v] = Backing(b)[v])
  BY <1>1 DEF Backing
<1>3. \A v \in Workers : /\ Backing(b)[v] \in Nat /\ Backing(b)'[v] \in Nat
                         /\ (v # w => Backing(b)'[v] = Backing(b)[v])
  BY <1>2
<1> QED
  BY <1>2, <1>3, Constants, SumChange

\* Each accepted pull still backs one deposit or one refund.
LEMMA PoolNext ==
  ASSUME WorkOK, RestOK, PoolCovers, Next
  PROVE  PoolCovers'
<1> SUFFICES ASSUME NEW b \in Bets, ~ OnDemo(b)
    PROVE (tickets[b] + deposits[b] + refunded[b] + SumFunctionOnSet(Backing(b), Workers) <= Heard(b))'
  BY WorkNext DEF PoolCovers, OnDemo
<1> DEFINE sum == SumFunctionOnSet(Backing(b), Workers)
           sum2 == SumFunctionOnSet(Backing(b)', Workers)
           h == Heard(b)
           h2 == Heard(b)'
<1>0. /\ tickets[b] \in Nat /\ deposits[b] \in Nat /\ refunded[b] \in Nat /\ h \in Int
      /\ tickets[b] + deposits[b] + refunded[b] + sum <= h
  BY SentNat DEF PoolCovers, Heard, RestOK
<1>1. ASSUME NEW w \in Workers, Act(w)
      PROVE  tickets'[b] + deposits'[b] + refunded'[b] + sum2 <= h2
  <2> DEFINE x == Backing(b)[w]
             y == Backing(b)'[w]
  <2>1. x \in {0, 1} /\ y \in {0, 1} /\ sum \in Nat /\ sum2 = sum - x + y
    BY <1>1, BackingTurns
  <2>2. /\ x = IF work[w].at \in {"deposit", "refund"} /\ work[w].bet = b THEN 1 ELSE 0
        /\ y = IF work'[w].at \in {"deposit", "refund"} /\ work'[w].bet = b THEN 1 ELSE 0
    BY DEF Backing
  <2>3. Turns(work[w], work'[w])
    BY <1>1, ActTurns
  <2>4. CASE x = 1
    <3>1. work[w].at \in {"deposit", "refund"} /\ work[w].bet = b /\ (deposit(w) \/ refundFloat(w))
      BY <1>1, <2>2, <2>4, Whose
    <3>2. h2 = h
      BY <1>1, <3>1, HeardAct DEF pull, pullForPool, At
    <3>3. CASE deposit(w)
      <4>1. work[w].bet = b /\ refunded' = refunded
        BY <3>1, <3>3 DEF deposit
      <4>2. \/ tickets'[b] = tickets[b] + 1 /\ deposits'[b] = deposits[b] /\ work'[w] = Idle
            \/ tickets'[b] = tickets[b] /\ deposits'[b] = deposits[b]
            \/ tickets'[b] = tickets[b] /\ deposits'[b] = deposits[b] + 1 /\ work'[w] = Idle
        BY <3>3, <4>1, IdleTurns DEF deposit, Deposited, Unconfirmed, Leave, RestOK
      <4>3. work'[w] = Idle => y = 0
        BY <2>2 DEF Idle
      <4> HIDE DEF sum, sum2, h, h2, x, y
      <4> QED
        BY <1>0, <2>1, <2>4, <3>2, <4>1, <4>2, <4>3
    <3>4. CASE refundFloat(w)
      <4>1. work'[w] = Idle /\ UNCHANGED <<tickets, deposits>>
        BY <3>4, IdleTurns DEF refundFloat, Leave, market
      <4>2. refunded'[b] = refunded[b] + 1 \/ refunded'[b] = refunded[b]
        BY <3>1, <3>4 DEF refundFloat, RestOK
      <4>3. y = 0
        BY <2>2, <4>1 DEF Idle
      <4> HIDE DEF sum, sum2, h, h2, x, y
      <4> QED
        BY <1>0, <2>1, <2>4, <3>2, <4>1, <4>2, <4>3
    <3> QED
      BY <3>1, <3>3, <3>4
  <2>5. CASE x = 0
    <3>1. tickets'[b] = tickets[b] /\ deposits'[b] = deposits[b] /\ refunded'[b] = refunded[b]
      BY <1>1, <2>2, <2>5, PoolAct
    <3>2. \/ h2 = h + 1
          \/ h2 = h /\ y = 0
      <4>1. y = 1 => work[w].at = "pool" /\ work'[w].at = "deposit" /\ work[w].bet = b
        BY <2>2, <2>3, <2>5 DEF Turns, Roads, Idle
      <4> QED
        BY <1>1, <2>1, <4>1, HeardAct
    <3> HIDE DEF sum, sum2, h, h2, x, y
    <3> QED
      BY <1>0, <2>1, <2>5, <3>1, <3>2
  <2> QED
    BY <2>1, <2>4, <2>5
<1>2. ASSUME \A w \in Workers : ~ Act(w)
      PROVE  tickets'[b] + deposits'[b] + refunded'[b] + sum2 <= h2
  <2>1. h2 = h
    BY <1>2, CircleElse DEF Heard
  <2>2. sum2 = sum
    BY <1>2, CashElse DEF Backing
  <2>3. /\ refunded'[b] = refunded[b] /\ tickets'[b] + deposits'[b] <= tickets[b] + deposits[b]
        /\ tickets'[b] \in Nat /\ deposits'[b] \in Nat
    BY <1>0, <1>2, PoolElse
  <2>4. sum \in Nat
    BY Constants, SumNat DEF Backing
  <2> HIDE DEF sum, sum2, h, h2
  <2> QED
    BY <1>0, <2>1, <2>2, <2>3, <2>4
<1> QED
  BY <1>1, <1>2

-----------------------------------------------------------------------------
(* The overlay *)

\* Only three steps of a worker apply a key, each that of its approval.
LEMMA ActKeys ==
  ASSUME WorkOK, NEW w \in Workers, Act(w)
  PROVE  \/ UNCHANGED <<keys, adjust>> /\ ~ unhold(w) /\ ~ releaseHold(w) /\ work'[w].at # "book"
         \/ hold(w) /\ apply_once(<<"hold", work[w].bet>>, - Due(w)) /\ work'[w].at = "book"
         \/ unhold(w) /\ apply_once(<<"hold-unbooked", work[w].bet>>, Due(w)) /\ work'[w] = Idle
         \/ releaseHold(w) /\ apply_once(<<"hold-pulled", work[w].bet>>, Due(w)) /\ work'[w] = Idle
<1>0. Turns(work[w], work'[w])
  BY ActTurns
<1>1. CASE hold(w)
  <2>1. ASSUME Go(w, "book") PROVE work'[w].at = "book"
    BY <2>1, GoTurns DEF Places
  <2>2. ASSUME Leave(w) PROVE work'[w].at # "book"
    BY <2>2, IdleTurns DEF Leave, Idle
  <2>3. ~ unhold(w) /\ ~ releaseHold(w)
    BY <1>1 DEF hold, unhold, releaseHold, At
  <2> QED
    BY <1>1, <2>1, <2>2, <2>3 DEF hold
<1>2. CASE unhold(w)
  BY <1>2, IdleTurns DEF unhold, Leave
<1>3. CASE releaseHold(w)
  BY <1>3, IdleTurns DEF releaseHold, Leave
<1>4. CASE ~ hold(w) /\ ~ unhold(w) /\ ~ releaseHold(w)
  <2>1. UNCHANGED <<keys, adjust>>
    BY <1>4 DEF Act, Apply, readApproval, claim_apply, enter, bookTicket, bookRefused, pull,
                pullForPool, deposit, refundFloat, startCash, sendCash, endCash, balance
  <2>2. work[w].at # "hold"
    BY <1>4, Whose
  <2>3. work'[w].at # "book"
    BY <1>0, <2>2 DEF Turns, Roads, Idle
  <2> QED
    BY <1>4, <2>1, <2>3
<1> QED
  BY <1>1, <1>2, <1>3, <1>4

\* The surroundings apply the payout's key only.
LEMMA ElseKeys ==
  ASSUME Next, \A w \in Workers : ~ Act(w)
  PROVE  payFan \/ UNCHANGED <<keys, adjust>>
BY DEF Next, Act, resolve_approval, crash, closeBook, settle, void, land, mineDeposit, lapse, balance

\* One key more.
LEMMA KeyOne ==
  ASSUME NEW y, NEW c, keys' = keys \cup {<<y, c>>}, NEW x, NEW b
  PROVE  Applied(x, b)' = IF x = y /\ b = c THEN 1 ELSE Applied(x, b)
BY DEF Applied

\* A key is applied or not.
LEMMA AppliedBit == \A x, b : Applied(x, b) \in {0, 1}
BY DEF Applied

\* The sums of the overlay, as functions of the approvals.
HoldOf == [b \in Bets |-> Amount[b] * Applied("hold", b)]
BackOf == [b \in Bets |-> Amount[b] * Returned(b)]

\* They are sums of numbers.
LEMMA OverlayTerms ==
  /\ OnHold = SumFunctionOnSet(HoldOf, Bets) /\ GivenBack = SumFunctionOnSet(BackOf, Bets)
  /\ \A b \in Bets : /\ HoldOf[b] = Amount[b] * Applied("hold", b) /\ BackOf[b] = Amount[b] * Returned(b)
                     /\ HoldOf[b] \in Nat /\ BackOf[b] \in Nat
<1>1. ASSUME NEW b \in Bets PROVE Amount[b] * Applied("hold", b) \in Nat /\ Amount[b] * Returned(b) \in Nat
  <2>1. Amount[b] \in Nat /\ Applied("hold", b) \in Nat /\ Returned(b) \in Nat
    BY AppliedBit, Constants DEF Returned
  <2> QED
    BY <2>1
<1> QED
  BY <1>1 DEF OnHold, GivenBack, HoldOf, BackOf

\* A new key of an approval moves one sum by its amount.
LEMMA SumsMove ==
  ASSUME NEW b \in Bets, NEW y \in {"hold", "hold-unbooked", "hold-pulled"},
         <<y, b>> \notin keys, keys' = keys \cup {<<y, b>>}
  PROVE  /\ OnHold \in Nat /\ OnHold' = OnHold + (IF y = "hold" THEN Amount[b] ELSE 0)
         /\ GivenBack \in Nat /\ GivenBack' = GivenBack + (IF y = "hold" THEN 0 ELSE Amount[b])
<1>1. Applied(y, b) = 0 /\ \A x, c : Applied(x, c)' = IF x = y /\ c = b THEN 1 ELSE Applied(x, c)
  BY KeyOne DEF Applied
<1>2. Amount[b] \in Nat /\ IsFiniteSet(Bets)
  BY Constants
<1>3. \A c \in Bets : c # b => HoldOf'[c] = HoldOf[c] /\ BackOf'[c] = BackOf[c]
  BY <1>1 DEF HoldOf, BackOf, Returned
<1>4. /\ HoldOf'[b] = HoldOf[b] + (IF y = "hold" THEN Amount[b] ELSE 0)
      /\ BackOf'[b] = BackOf[b] + (IF y = "hold" THEN 0 ELSE Amount[b])
  <2>1. /\ HoldOf[b] = Amount[b] * Applied("hold", b) /\ HoldOf'[b] = Amount[b] * Applied("hold", b)'
        /\ BackOf[b] = Amount[b] * Returned(b) /\ BackOf'[b] = Amount[b] * Returned(b)'
    BY DEF HoldOf, BackOf
  <2>2. /\ Applied("hold", b)' = Applied("hold", b) + (IF y = "hold" THEN 1 ELSE 0)
        /\ Returned(b)' = Returned(b) + (IF y = "hold" THEN 0 ELSE 1)
        /\ Applied("hold", b) \in Nat /\ Returned(b) \in Nat
    BY <1>1, AppliedBit DEF Returned
  <2>3. \A n \in Nat : Amount[b] * (n + 1) = Amount[b] * n + Amount[b] /\ n + 0 = n /\ Amount[b] * n \in Nat
    BY <1>2
  <2>4. CASE y = "hold"
    BY <1>2, <2>1, <2>2, <2>3, <2>4
  <2>5. CASE y # "hold"
    BY <1>2, <2>1, <2>2, <2>3, <2>5
  <2> QED
    BY <2>4, <2>5
<1>5. \A c \in Bets : HoldOf[c] \in Nat /\ BackOf[c] \in Nat
  BY OverlayTerms
<1>6. \A c \in Bets : HoldOf'[c] \in Nat /\ BackOf'[c] \in Nat
  BY <1>2, <1>3, <1>4, <1>5
<1>7. /\ SumFunctionOnSet(HoldOf, Bets) \in Nat
      /\ SumFunctionOnSet(HoldOf', Bets) = SumFunctionOnSet(HoldOf, Bets) - HoldOf[b] + HoldOf'[b]
  BY <1>2, <1>3, <1>5, <1>6, SumChange
<1>8. /\ SumFunctionOnSet(BackOf, Bets) \in Nat
      /\ SumFunctionOnSet(BackOf', Bets) = SumFunctionOnSet(BackOf, Bets) - BackOf[b] + BackOf'[b]
  BY <1>2, <1>3, <1>5, <1>6, SumChange
<1>9. OnHold' = SumFunctionOnSet(HoldOf', Bets) /\ GivenBack' = SumFunctionOnSet(BackOf', Bets)
  BY DEF OnHold, GivenBack, HoldOf, BackOf
<1> QED
  BY <1>2, <1>4, <1>5, <1>7, <1>8, <1>9, OverlayTerms

\* What was paid is a number ...
LEMMA GotNat ==
  ASSUME PayoutsOK, PaidOK
  PROVE  Got \in Nat
<1>1. CASE <<"payout", None>> \in keys
  <2>1. payouts.bettors \in [Bets -> Nat]
    BY <1>1 DEF PaidOK, PayoutsOK
  <2> QED
    BY <1>1, <2>1, Constants, SumNat DEF Got
<1>2. CASE <<"payout", None>> \notin keys
  BY <1>2 DEF Got
<1> QED
  BY <1>1, <1>2

\* ... and only its key changes it.
LEMMA GotSame ==
  ASSUME RestOK, PayoutsOK, PaidOK, Next, <<"payout", None>> \in keys' <=> <<"payout", None>> \in keys
  PROVE  Got' = Got /\ PaidOK'
<1>1. CASE <<"payout", None>> \in keys
  <2>1. payouts' = payouts /\ payouts # None
    BY <1>1, EndsOnce DEF PaidOK
  <2> QED
    BY <1>1, <2>1 DEF Got, PaidOK
<1>2. CASE <<"payout", None>> \notin keys
  BY <1>2 DEF Got, PaidOK
<1> QED
  BY <1>1, <1>2

\* The overlay still adds up.
LEMMA OverlayNext ==
  ASSUME WorkOK, RestOK, PayoutsOK, PaidOK, OverlayAddsUp, Next
  PROVE  OverlayAddsUp' /\ PaidOK'
<1>0. adjust + OnHold = Got + GivenBack /\ adjust \in Int /\ Got \in Nat
  BY GotNat DEF OverlayAddsUp, RestOK
<1>1. ASSUME UNCHANGED <<keys, adjust>> PROVE OverlayAddsUp' /\ PaidOK'
  <2>1. Got' = Got /\ PaidOK'
    BY <1>1, GotSame
  <2>2. OnHold' = OnHold /\ GivenBack' = GivenBack
    BY <1>1 DEF OnHold, GivenBack, Returned, Applied
  <2> QED
    BY <1>0, <1>1, <2>1, <2>2 DEF OverlayAddsUp
<1>2. ASSUME NEW b \in Bets, NEW y \in {"hold", "hold-unbooked", "hold-pulled"},
             apply_once(<<y, b>>, IF y = "hold" THEN - Amount[b] ELSE Amount[b])
      PROVE  OverlayAddsUp' /\ PaidOK'
  <2>1. CASE <<y, b>> \in keys
    <3>1. keys' = keys /\ adjust' = adjust
      BY <1>2, <2>1 DEF apply_once
    <3> QED
      BY <1>1, <3>1
  <2>2. CASE <<y, b>> \notin keys
    <3>1. keys' = keys \cup {<<y, b>>} /\ adjust' = adjust + (IF y = "hold" THEN - Amount[b] ELSE Amount[b])
      BY <1>2, <2>2 DEF apply_once
    <3>2. Got' = Got /\ PaidOK'
      BY <3>1, GotSame
    <3>3. /\ OnHold \in Nat /\ OnHold' = OnHold + (IF y = "hold" THEN Amount[b] ELSE 0)
          /\ GivenBack \in Nat /\ GivenBack' = GivenBack + (IF y = "hold" THEN 0 ELSE Amount[b])
      BY <2>2, <3>1, SumsMove
    <3>4. Amount[b] \in Nat
      BY Constants
    <3>5. adjust' + OnHold' = Got' + GivenBack'
      <4>1. CASE y = "hold"
        <5>1. adjust' = adjust - Amount[b] /\ OnHold' = OnHold + Amount[b] /\ GivenBack' = GivenBack
          BY <1>0, <3>1, <3>3, <3>4, <4>1
        <5>2. Got' = Got /\ GivenBack \in Nat /\ OnHold \in Nat
          BY <3>2, <3>3
        <5> QED
          BY <1>0, <3>4, <5>1, <5>2
      <4>2. CASE y # "hold"
        BY <1>0, <3>1, <3>2, <3>3, <3>4, <4>2
      <4> QED
        BY <4>1, <4>2
    <3> QED
      BY <3>2, <3>5 DEF OverlayAddsUp
  <2> QED
    BY <2>1, <2>2
<1>3. ASSUME NEW w \in Workers, Act(w) PROVE OverlayAddsUp' /\ PaidOK'
  <2>1. CASE UNCHANGED <<keys, adjust>>
    BY <1>1, <2>1
  <2>2. CASE hold(w) \/ unhold(w) \/ releaseHold(w)
    <3>1. PICK b \in Bets : b = work[w].bet /\ Due(w) = Amount[b]
      BY <2>2, DueNat DEF hold, unhold, releaseHold, At, Taken, DemoPlaces, Due
    <3>2. \/ UNCHANGED <<keys, adjust>>
          \/ apply_once(<<"hold", b>>, - Amount[b])
          \/ apply_once(<<"hold-unbooked", b>>, Amount[b])
          \/ apply_once(<<"hold-pulled", b>>, Amount[b])
      BY <1>3, <3>1, ActKeys
    <3> QED
      BY <1>1, <1>2, <3>2
  <2> QED
    BY <1>3, <2>1, <2>2, ActKeys
<1>4. CASE payFan
  <2> DEFINE paid == SumFunctionOnSet(payouts.bettors, Bets)
  <2>1. /\ apply_once(<<"payout", None>>, paid) /\ payouts' = payouts /\ payouts # None
    BY <1>4 DEF payFan, market, PayoutsOK, Unsettled
  <2>2. CASE <<"payout", None>> \in keys
    <3>1. keys' = keys /\ adjust' = adjust
      BY <2>1, <2>2 DEF apply_once
    <3> QED
      BY <1>1, <3>1
  <2>3. CASE <<"payout", None>> \notin keys
    <3>1. keys' = keys \cup {<<"payout", None>>} /\ adjust' = adjust + paid
      BY <2>1, <2>3 DEF apply_once
    <3>2. Got = 0 /\ Got' = paid
      BY <2>1, <2>3, <3>1 DEF Got
    <3>3. \A x, b : x # "payout" => Applied(x, b)' = Applied(x, b)
      BY <3>1, KeyOne
    <3>4. OnHold' = OnHold /\ GivenBack' = GivenBack
      BY <3>3 DEF OnHold, GivenBack, Returned
    <3>5. paid \in Nat
      <4>1. payouts.bettors \in [Bets -> Nat]
        BY <2>1 DEF PayoutsOK
      <4> QED
        BY <4>1, Constants, SumNat
    <3>6. OnHold \in Nat /\ GivenBack \in Nat
      BY OverlayTerms, Constants, SumNat
    <3> HIDE DEF paid
    <3>7. adjust' + OnHold' = Got' + GivenBack'
      BY <1>0, <3>1, <3>2, <3>4, <3>5, <3>6
    <3> QED
      BY <2>1, <3>7 DEF OverlayAddsUp, PaidOK
  <2> QED
    BY <2>2, <2>3
<1> QED
  BY <1>1, <1>3, <1>4, ElseKeys

-----------------------------------------------------------------------------
(* The course of an approval *)

\* Only a claim counts, and its worker has the approval in hand from then on.
LEMMA ClaimAct ==
  ASSUME WorkOK, RestOK, NEW w \in Workers, Act(w), NEW b \in Bets
  PROVE  /\ claims[b] \in Nat
         /\ \/ claims'[b] = claims[b] /\ ~ (work[w].at = "claim" /\ work'[w].at = "enter" /\ work[w].bet = b)
            \/ /\ claims'[b] = claims[b] + 1 /\ work[w].at = "claim" /\ work[w].bet = b
               /\ work'[w].at = "enter" /\ work'[w].bet = b
<1>0. claims[b] \in Nat /\ claims \in [Bets -> Nat]
  BY DEF RestOK
<1>1. CASE claim_apply(w)
  <2>1. work[w].at = "claim" /\ work[w].bet \in Bets
    BY <1>1, DueNat DEF claim_apply, At
  <2>2. CASE claims' = [claims EXCEPT ![work[w].bet] = @ + 1] /\ Go(w, "enter")
    <3>1. work'[w].at = "enter" /\ work'[w].bet = work[w].bet
      BY <2>2, GoTurns DEF Places
    <3> QED
      BY <1>0, <2>1, <2>2, <3>1
  <2>3. CASE claims' = claims /\ work' = [work EXCEPT ![w] = Idle]
    BY <1>0, <2>3, IdleTurns DEF Idle
  <2> QED
    BY <1>1, <2>2, <2>3 DEF claim_apply
<1>2. CASE ~ claim_apply(w)
  <2>1. claims' = claims
    BY <1>2 DEF Act, Apply, readApproval, enter, hold, bookTicket, bookRefused, unhold, pull,
                releaseHold, pullForPool, deposit, refundFloat, startCash, sendCash, endCash, asked
  <2>2. work[w].at # "claim"
    BY <1>2, Whose
  <2> QED
    BY <1>0, <2>1, <2>2
<1> QED
  BY <1>1, <1>2

\* Who has an approval in hand after a worker's turn: the same workers, but for
\* the one that acts, which may just have claimed it, and may be done with it.
LEMMA CarriesAct ==
  ASSUME WorkOK, RestOK, NEW w \in Workers, Act(w), NEW b \in Bets
  PROVE  /\ \A v \in Workers \ {w} : Carries(v, b)' <=> Carries(v, b)
         /\ Carries(w, b)' => Carries(w, b) \/ claims'[b] = claims[b] + 1
<1>1. Turns(work[w], work'[w]) /\ \A v \in Workers \ {w} : work'[v] = work[v]
  BY ActTurns
<1>2. ASSUME Carries(w, b)', ~ Carries(w, b) PROVE claims'[b] = claims[b] + 1
  <2>1. work'[w].bet = b /\ work'[w].at \in Taken /\ ~ (work[w].bet = b /\ work[w].at \in Taken)
    BY <1>2 DEF Carries
  <2>2. work[w].at = "claim" /\ work'[w].at = "enter" /\ work[w].bet = b
    BY <1>1, <2>1 DEF Turns, Roads, Idle, Taken, DemoPlaces, PoolPlaces
  <2> QED
    BY <2>2, ClaimAct
<1> QED
  BY <1>1, <1>2 DEF Carries

\* Each approval in hand has its claim.
LEMMA HandsNext ==
  ASSUME WorkOK, RestOK, Hands, Next
  PROVE  Hands'
<1>1. ASSUME NEW w \in Workers, Act(w) PROVE Hands'
  <2>1. ASSUME NEW v \in Workers, NEW b \in Bets, Carries(v, b)'
        PROVE  (claims[b] >= 1 /\ \A u \in Workers \ {v} : Carries(u, b) => claims[b] >= 2)'
    <3>1. /\ claims[b] \in Nat /\ claims'[b] \in {claims[b], claims[b] + 1}
      BY <1>1, ClaimAct
    <3>2. /\ \A u \in Workers \ {w} : Carries(u, b)' <=> Carries(u, b)
          /\ Carries(w, b)' => Carries(w, b) \/ claims'[b] = claims[b] + 1
      BY <1>1, CarriesAct
    <3>3. \A u \in Workers : Carries(u, b) =>
            claims[b] >= 1 /\ \A x \in Workers \ {u} : Carries(x, b) => claims[b] >= 2
      BY DEF Hands
    <3>4. claims'[b] >= 1
      BY <2>1, <3>1, <3>2, <3>3
    <3>5. ASSUME NEW u \in Workers \ {v}, Carries(u, b)' PROVE claims'[b] >= 2
      <4>1. CASE Carries(u, b) /\ Carries(v, b)
        BY <3>1, <3>3, <4>1
      <4>2. CASE ~ (Carries(u, b) /\ Carries(v, b))
        <5>1. claims'[b] = claims[b] + 1 /\ (Carries(u, b) \/ Carries(v, b))
          BY <2>1, <3>2, <3>5, <4>2
        <5> QED
          BY <3>1, <3>3, <5>1
      <4> QED
        BY <4>1, <4>2
    <3> QED
      BY <3>4, <3>5
  <2> QED
    BY <2>1 DEF Hands
<1>2. ASSUME \A w \in Workers : ~ Act(w) PROVE Hands'
  <2>1. claims' = claims
    BY <1>2 DEF Next, Act, resolve_approval, crash, closeBook, settle, void, payFan, land, mineDeposit,
                lapse, asked
  <2> QED
    BY <1>2, <2>1, CashElse DEF Hands, Carries
<1> QED
  BY <1>1, <1>2

\* A worker leaves alone what shows of an approval it does not have in hand.
LEMMA ViewAct ==
  ASSUME WorkOK, RestOK, NEW w \in Workers, Act(w), NEW b \in Bets, ~ Carries(w, b)
  PROVE  View(b)' = View(b)
<1>0. b # "cash"
  BY Constants
<1>1. Applied("hold", b)' = Applied("hold", b) /\ Returned(b)' = Returned(b)
  <2>1. CASE UNCHANGED keys
    BY <2>1 DEF Returned, Applied
  <2>2. ASSUME NEW y \in {"hold", "hold-unbooked", "hold-pulled"}, work[w].at \in Taken,
               keys' = keys \cup {<<y, work[w].bet>>}
        PROVE  Applied("hold", b)' = Applied("hold", b) /\ Returned(b)' = Returned(b)
    <3>1. work[w].bet # b
      BY <2>2 DEF Carries
    <3> QED
      BY <2>2, <3>1 DEF Returned, Applied
  <2> QED
    BY <2>1, <2>2, ActKeys DEF apply_once, hold, unhold, releaseHold, At, Taken, DemoPlaces
<1>2. SentFor(b)' = SentFor(b) /\ unheard'[b] = unheard[b]
  <2>1. CASE pull(w) \/ pullForPool(w)
    <3>1. work[w].at \in Taken
      BY <2>1 DEF pull, pullForPool, At, Taken, DemoPlaces, PoolPlaces
    <3>2. PICK c \in Bets : c # b /\ (Accepted(c) \/ Refused(c))
      BY <2>1, <3>1, PullTurns DEF Carries
    <3> QED
      BY <3>2, AcceptedCounts, RefusedCounts
  <2>2. CASE sendCash(w)
    BY <1>0, <2>2, AcceptedCounts, RefusedCounts DEF sendCash
  <2>3. CASE ~ pull(w) /\ ~ pullForPool(w) /\ ~ sendCash(w)
    BY <2>3, CircleAct
  <2> QED
    BY <2>1, <2>2, <2>3
<1>3. tickets'[b] = tickets[b] /\ deposits'[b] = deposits[b]
  <2>1. CASE bookTicket(w) \/ deposit(w)
    <3>1. work[w].bet # b
      BY <2>1 DEF bookTicket, deposit, At, Taken, DemoPlaces, PoolPlaces, Carries
    <3> QED
      BY <2>1, <3>1 DEF bookTicket, deposit, Deposited, Unconfirmed, RestOK, external
  <2>2. CASE ~ bookTicket(w) /\ ~ deposit(w)
    BY <2>2 DEF Act, Apply, readApproval, claim_apply, enter, hold, bookRefused, unhold, pull,
                releaseHold, pullForPool, refundFloat, startCash, sendCash, endCash, external, market
  <2> QED
    BY <2>1, <2>2
<1> QED
  BY <1>1, <1>2, <1>3 DEF View

\* The surroundings leave it alone, too, while no deposit is unconfirmed.
LEMMA ViewElse ==
  ASSUME RestOK, Next, \A w \in Workers : ~ Act(w), NEW b \in Bets
  PROVE  /\ deposits[b] = 0 => View(b)' = View(b)
         /\ tickets'[b] + deposits'[b] <= tickets[b] + deposits[b]
<1>1. Applied("hold", b)' = Applied("hold", b) /\ Returned(b)' = Returned(b)
  <2>1. CASE UNCHANGED keys
    BY <2>1 DEF Returned, Applied
  <2>2. CASE payFan
    BY <2>2 DEF payFan, apply_once, Returned, Applied
  <2> QED
    BY <2>1, <2>2, ElseKeys
<1>2. SentFor(b)' = SentFor(b) /\ unheard'[b] = unheard[b]
  BY CircleElse
<1>3. tickets[b] \in Nat /\ deposits[b] \in Nat
  BY DEF RestOK
<1> QED
  BY <1>1, <1>2, <1>3, PoolElse DEF View

\* What a view shows.
LEMMA ViewShows ==
  ASSUME NEW b \in Bets, NEW h, NEW r, NEW n, NEW u, NEW t, NEW d
  PROVE  /\ View(b) = <<h, r, n, u, t, d>> <=>
              /\ Applied("hold", b) = h /\ Returned(b) = r /\ SentFor(b) = n
              /\ unheard[b] = u /\ tickets[b] = t /\ deposits[b] = d
         /\ View(b)' = <<h, r, n, u, t, d>> <=>
              /\ Applied("hold", b)' = h /\ Returned(b)' = r /\ SentFor(b)' = n
              /\ unheard'[b] = u /\ tickets'[b] = t /\ deposits'[b] = d
BY DEF View

\* The keys of an approval, over a step that applies one of them.
LEMMA KeysAct ==
  ASSUME NEW b \in Bets, NEW y \in {"hold", "hold-unbooked", "hold-pulled"}, keys' = keys \cup {<<y, b>>}
  PROVE  /\ y = "hold" => Applied("hold", b)' = 1 /\ Returned(b)' = Returned(b)
         /\ y # "hold" => /\ Applied("hold", b)' = Applied("hold", b)
                          /\ (Returned(b) = 0 => Returned(b)' = 1)
<1>1. \A x : Applied(x, b)' = IF x = y THEN 1 ELSE Applied(x, b)
  BY DEF Applied
<1> QED
  BY <1>1, AppliedBit DEF Returned

\* One step of the approval's only worker leads to the next place's view, or
\* ends the spend.
LEMMA StageAct ==
  ASSUME WorkOK, RestOK, NEW w \in Workers, Act(w), NEW b \in Bets,
         Carries(w, b), Stage(work[w].at, b)
  PROVE  \/ Carries(w, b)' /\ Stage(work[w].at, b)'
         \/ work'[w] = Idle /\ Over(b)'
<1>0. /\ work[w].bet = b /\ work[w].at \in Taken /\ OnDemo(b)' = OnDemo(b)
      /\ work[w].at \in DemoPlaces => OnDemo(b)
      /\ work[w].at \in PoolPlaces => ~ OnDemo(b)
  BY ActTurns DEF Carries, WorkOK, OnDemo, JobOK
<1>1. /\ work[w].at \in {"enter", "hold", "pool"} => View(b) = <<0, 0, 0, 0, 0, 0>>
      /\ work[w].at \in {"book", "unhold"} => View(b) = <<1, 0, 0, 0, 0, 0>>
      /\ work[w].at = "pull" => View(b) = <<1, 0, 0, 0, 1, 0>>
      /\ work[w].at = "release" => View(b) = <<1, 0, 1, 0, 1, 0>>
      /\ work[w].at \in {"deposit", "refund"} => tickets[b] = 0 /\ deposits[b] = 0
  BY DEF Stage
<1>2. ASSUME NEW q \in Taken, q \in Places, Go(w, q),
             /\ q \in {"enter", "hold", "pool"} => View(b)' = <<0, 0, 0, 0, 0, 0>>
             /\ q \in {"book", "unhold"} => View(b)' = <<1, 0, 0, 0, 0, 0>>
             /\ q = "pull" => View(b)' = <<1, 0, 0, 0, 1, 0>>
             /\ q = "release" => View(b)' = <<1, 0, 1, 0, 1, 0>>
             /\ q \in {"deposit", "refund"} => tickets'[b] = 0 /\ deposits'[b] = 0
      PROVE  Carries(w, b)' /\ Stage(work[w].at, b)'
  <2>1. work'[w].at = q /\ work'[w].bet = b
    BY <1>0, <1>2, GoTurns
  <2> QED
    BY <1>2, <2>1 DEF Carries, Stage
<1>3. ASSUME work' = [work EXCEPT ![w] = Idle], tickets'[b] + deposits'[b] <= 1,
             OnDemo(b) => Applied("hold", b)' - Returned(b)' + SentFor(b)' = tickets'[b] + unheard'[b]
      PROVE  work'[w] = Idle /\ Over(b)'
  BY <1>0, <1>3, IdleTurns DEF Over
<1>4. ASSUME UNCHANGED <<keys, circle>> PROVE
             /\ Applied("hold", b)' = Applied("hold", b) /\ Returned(b)' = Returned(b)
             /\ SentFor(b)' = SentFor(b) /\ unheard'[b] = unheard[b]
  BY <1>4 DEF Applied, Returned, SentFor, circle
<1>5. CASE enter(w)
  <2>1. View(b) = <<0, 0, 0, 0, 0, 0>>
    BY <1>1, <1>5 DEF enter, At
  <2>2. View(b)' = <<0, 0, 0, 0, 0, 0>>
    BY <1>4, <1>5, <2>1, ViewShows DEF enter, balance, external, market
  <2>3. CASE work' = [work EXCEPT ![w] = Idle]
    BY <1>3, <2>2, <2>3, ViewShows
  <2>4. ASSUME NEW q \in {"hold", "pool"}, Go(w, q) PROVE Carries(w, b)' /\ Stage(work[w].at, b)'
    BY <1>2, <2>2, <2>4 DEF Taken, DemoPlaces, PoolPlaces, Places
  <2> QED
    BY <1>5, <2>3, <2>4 DEF enter
<1>6. CASE hold(w)
  <2>1. View(b) = <<0, 0, 0, 0, 0, 0>> /\ UNCHANGED <<circle, tickets, deposits>>
    BY <1>1, <1>6 DEF hold, At, external, market
  <2>2. SentFor(b)' = 0 /\ unheard'[b] = 0 /\ tickets'[b] = 0 /\ deposits'[b] = 0
    <3>1. SentFor(b) = 0 /\ unheard[b] = 0 /\ tickets[b] = 0 /\ deposits[b] = 0
      BY <2>1, ViewShows
    <3>2. SentFor(b)' = SentFor(b)
      BY <2>1 DEF circle, SentFor
    <3> QED
      BY <2>1, <3>1, <3>2 DEF circle
  <2>3. CASE apply_once(<<"hold", b>>, - Due(w)) /\ Go(w, "book")
    <3>1. Applied("hold", b)' = 1 /\ Returned(b)' = 0
      BY <2>1, <2>3, KeysAct, ViewShows DEF apply_once
    <3>2. View(b)' = <<1, 0, 0, 0, 0, 0>>
      BY <2>2, <3>1, ViewShows
    <3> QED
      BY <1>2, <2>3, <3>2 DEF Taken, DemoPlaces, Places
  <2>4. CASE Leave(w) /\ UNCHANGED keys
    <3>1. Applied("hold", b)' = 0 /\ Returned(b)' = 0
      BY <1>4, <2>1, <2>4, ViewShows
    <3> QED
      BY <1>3, <2>2, <2>4, <3>1 DEF Leave
  <2> QED
    BY <1>0, <1>6, <2>3, <2>4 DEF hold
<1>7. CASE bookTicket(w) \/ bookRefused(w)
  <2>1. View(b) = <<1, 0, 0, 0, 0, 0>> /\ UNCHANGED <<keys, circle, deposits>>
    BY <1>1, <1>7 DEF bookTicket, bookRefused, At, balance, external
  <2>2. /\ Applied("hold", b)' = 1 /\ Returned(b)' = 0 /\ SentFor(b)' = 0 /\ unheard'[b] = 0
        /\ deposits'[b] = 0 /\ tickets[b] = 0
    BY <1>4, <2>1, ViewShows
  <2>3. CASE tickets' = [tickets EXCEPT ![b] = @ + 1] /\ Go(w, "pull")
    <3>1. View(b)' = <<1, 0, 0, 0, 1, 0>>
      BY <2>2, <2>3, ViewShows DEF RestOK
    <3> QED
      BY <1>2, <2>3, <3>1 DEF Taken, DemoPlaces, Places
  <2>4. CASE tickets' = tickets /\ Go(w, "unhold")
    <3>1. View(b)' = <<1, 0, 0, 0, 0, 0>>
      BY <2>2, <2>4, ViewShows
    <3> QED
      BY <1>2, <2>4, <3>1 DEF Taken, DemoPlaces, Places
  <2> QED
    BY <1>0, <1>7, <2>3, <2>4 DEF bookTicket, bookRefused, market
<1>8. CASE unhold(w) \/ releaseHold(w)
  <2>1. /\ View(b) = <<1, 0, 0, 0, 0, 0>> \/ View(b) = <<1, 0, 1, 0, 1, 0>>
        /\ UNCHANGED <<circle, tickets, deposits>> /\ work' = [work EXCEPT ![w] = Idle]
    BY <1>1, <1>8 DEF unhold, releaseHold, Leave, At, external, market
  <2>2. SentFor(b)' = SentFor(b) /\ unheard'[b] = unheard[b]
    BY <2>1 DEF circle, SentFor
  <2>3. Applied("hold", b)' = Applied("hold", b) /\ (Returned(b) = 0 => Returned(b)' = 1)
    BY <1>0, <1>8, KeysAct DEF unhold, releaseHold, apply_once
  <2>4. /\ Applied("hold", b) = 1 /\ Returned(b) = 0 /\ unheard[b] = 0 /\ deposits[b] = 0
        /\ SentFor(b) \in {0, 1} /\ tickets[b] = SentFor(b)
    BY <2>1, ViewShows
  <2> QED
    BY <1>3, <2>1, <2>2, <2>3, <2>4
<1>9. CASE pull(w)
  <2>1. /\ View(b) = <<1, 0, 0, 0, 1, 0>> /\ UNCHANGED <<keys, tickets, deposits>>
        /\ \/ Accepted(b) /\ Go(w, "release")
           \/ Refused(b) /\ work' = [work EXCEPT ![w] = Idle]
    BY <1>0, <1>1, <1>9 DEF pull, Leave, At, balance, market
  <2>2. /\ Applied("hold", b)' = 1 /\ Returned(b)' = 0 /\ tickets'[b] = 1 /\ deposits'[b] = 0
        /\ SentFor(b) = 0 /\ unheard[b] = 0
    BY <2>1, ViewShows DEF Applied, Returned
  <2>3. CASE Accepted(b) /\ Go(w, "release")
    <3>1. SentFor(b)' = 1 /\ unheard'[b] = 0
      BY <2>2, <2>3, AcceptedCounts
    <3>2. View(b)' = <<1, 0, 1, 0, 1, 0>>
      BY <2>2, <3>1, ViewShows
    <3> QED
      BY <1>2, <2>3, <3>2 DEF Taken, DemoPlaces, Places
  <2>4. CASE Refused(b) /\ work' = [work EXCEPT ![w] = Idle]
    <3>1. SentFor(b)' = unheard'[b] /\ unheard'[b] \in {0, 1}
      BY <2>2, <2>4, RefusedCounts
    <3> QED
      BY <1>3, <2>2, <2>4, <3>1
  <2> QED
    BY <2>1, <2>3, <2>4
<1>10. CASE pullForPool(w)
  <2>1. /\ View(b) = <<0, 0, 0, 0, 0, 0>> /\ UNCHANGED <<tickets, deposits>> /\ ~ OnDemo(b)
        /\ Go(w, "deposit") \/ work' = [work EXCEPT ![w] = Idle]
    BY <1>0, <1>1, <1>10 DEF pullForPool, Leave, At, market, PoolPlaces
  <2>2. tickets'[b] = 0 /\ deposits'[b] = 0
    BY <2>1, ViewShows
  <2>3. CASE Go(w, "deposit")
    BY <1>2, <2>2, <2>3 DEF Taken, PoolPlaces, Places
  <2> QED
    BY <1>3, <2>1, <2>2, <2>3
<1>11. CASE deposit(w)
  <2>1. tickets[b] = 0 /\ deposits[b] = 0 /\ ~ OnDemo(b)
    BY <1>0, <1>1, <1>11 DEF deposit, At, PoolPlaces
  <2>2. \/ tickets'[b] = 1 /\ deposits'[b] = 0 /\ work' = [work EXCEPT ![w] = Idle]
        \/ tickets'[b] = 0 /\ deposits'[b] = 0 /\ Go(w, "refund")
        \/ tickets'[b] = 0 /\ deposits'[b] = 1 /\ work' = [work EXCEPT ![w] = Idle]
    BY <1>0, <1>11, <2>1 DEF deposit, Deposited, Unconfirmed, Leave, RestOK
  <2>3. CASE tickets'[b] = 0 /\ deposits'[b] = 0 /\ Go(w, "refund")
    BY <1>2, <2>3 DEF Taken, PoolPlaces, Places
  <2> QED
    BY <1>3, <2>1, <2>2, <2>3
<1>12. CASE refundFloat(w)
  BY <1>0, <1>1, <1>3, <1>12 DEF refundFloat, Leave, At, PoolPlaces, market
<1> QED
  BY <1>0, <1>5, <1>6, <1>7, <1>8, <1>9, <1>10, <1>11, <1>12, Whose DEF Taken, DemoPlaces, PoolPlaces

\* Each approval's course goes on.
LEMMA CourseNext ==
  ASSUME WorkOK, RestOK, RailOK, Hands, NEW b \in Bets, Course(b), Next
  PROVE  Course(b)'
<1>0. /\ claims[b] \in Nat /\ deposits[b] \in Nat /\ OnDemo(b)' = OnDemo(b)
      /\ OnDemo(b) => deposits[b] = 0
  BY WorkNext DEF RestOK, RailOK, OnDemo
<1>1. ASSUME View(b)' = View(b)
      PROVE  /\ \A x : Stage(x, b) => Stage(x, b)'
             /\ Over(b) => Over(b)'
  <2>1. tickets'[b] = tickets[b] /\ deposits'[b] = deposits[b] /\ unheard'[b] = unheard[b]
        /\ Applied("hold", b)' = Applied("hold", b) /\ Returned(b)' = Returned(b) /\ SentFor(b)' = SentFor(b)
    BY <1>1 DEF View
  <2> QED
    BY <1>0, <1>1, <2>1 DEF Stage, Over
<1>2. ASSUME NEW w \in Workers, Act(w), ~ Carries(w, b) PROVE Course(b)'
  <2>1. View(b)' = View(b)
    BY <1>2, ViewAct
  <2>2. /\ \A v \in Workers \ {w} : Carries(v, b)' <=> Carries(v, b)
        /\ Carries(w, b)' => claims'[b] = claims[b] + 1
        /\ \A v \in Workers \ {w} : work'[v] = work[v]
    BY <1>2, CarriesAct, ActTurns
  <2>3. CASE claims'[b] = claims[b]
    <3>1. \A v \in Workers : Carries(v, b)' <=> Carries(v, b)
      BY <1>0, <1>2, <2>2, <2>3
    <3>2. \A v \in Workers : Carries(v, b)' => work'[v] = work[v]
      BY <1>2, <2>2, <3>1
    <3>3. ASSUME claims[b] = 1, NEW v \in Workers, Carries(v, b)' PROVE Stage(work[v].at, b)'
      <4>1. PICK x : x = work[v].at /\ x = work'[v].at
        BY <3>2, <3>3
      <4>2. Stage(x, b)
        BY <3>1, <3>3, <4>1 DEF Course
      <4> QED
        BY <1>1, <2>1, <4>1, <4>2 DEF Stage
    <3> QED
      BY <1>1, <2>1, <2>3, <3>1, <3>3 DEF Course
  <2>4. CASE /\ claims'[b] = claims[b] + 1 /\ work[w].at = "claim" /\ work[w].bet = b
             /\ work'[w].at = "enter" /\ work'[w].bet = b
    <3>1. CASE claims[b] = 0
      <4>1. View(b)' = <<0, 0, 0, 0, 0, 0>>
        BY <2>1, <3>1 DEF Course
      <4>2. \A v \in Workers \ {w} : ~ Carries(v, b)'
        BY <2>2, <3>1 DEF Hands
      <4>3. Carries(w, b)' /\ Stage(work[w].at, b)'
        BY <2>4, <4>1 DEF Carries, Taken, Stage
      <4> QED
        BY <2>4, <3>1, <4>2, <4>3 DEF Course
    <3>2. CASE claims[b] # 0
      BY <1>0, <2>4, <3>2 DEF Course
    <3> QED
      BY <3>1, <3>2
  <2> QED
    BY <1>2, <2>3, <2>4, ClaimAct
<1>3. ASSUME NEW w \in Workers, Act(w), Carries(w, b) PROVE Course(b)'
  <2>1. claims'[b] = claims[b]
    BY <1>3, ClaimAct DEF Carries, Taken, DemoPlaces, PoolPlaces
  <2>2. claims[b] >= 1
    BY <1>3 DEF Hands
  <2>3. CASE claims[b] = 1
    <3>1. \A v \in Workers \ {w} : ~ Carries(v, b)
      BY <1>3, <2>3 DEF Hands
    <3>2. \A v \in Workers \ {w} : ~ Carries(v, b)'
      BY <1>3, <3>1, CarriesAct
    <3>3. Stage(work[w].at, b)
      BY <1>3, <2>3 DEF Course
    <3>4. CASE Carries(w, b)' /\ Stage(work[w].at, b)'
      BY <2>1, <2>3, <3>2, <3>4 DEF Course
    <3>5. CASE work'[w] = Idle /\ Over(b)'
      <4>1. ~ Carries(w, b)'
        BY <3>5 DEF Carries, Idle, Taken, DemoPlaces, PoolPlaces
      <4> QED
        BY <2>1, <2>3, <3>2, <3>5, <4>1 DEF Course
    <3> QED
      BY <1>3, <3>3, <3>4, <3>5, StageAct
  <2>4. CASE claims[b] # 1
    BY <1>0, <2>1, <2>2, <2>4 DEF Course
  <2> QED
    BY <2>3, <2>4
<1>4. ASSUME \A w \in Workers : ~ Act(w) PROVE Course(b)'
  <2>1. claims' = claims
    BY <1>4 DEF Next, Act, resolve_approval, crash, closeBook, settle, void, payFan, land, mineDeposit,
                lapse, asked
  <2>2. work' = work /\ (deposits[b] = 0 => View(b)' = View(b))
        /\ tickets'[b] + deposits'[b] <= tickets[b] + deposits[b]
    BY <1>4, CashElse, ViewElse
  <2>3. CASE deposits[b] = 0
    BY <1>1, <2>1, <2>2, <2>3 DEF Course, Carries, Stage
  <2>4. CASE deposits[b] # 0
    <3>1. View(b) # <<0, 0, 0, 0, 0, 0>> /\ ~ OnDemo(b)
      BY <1>0, <2>4, ViewShows
    <3>2. \A x \in Taken : ~ Stage(x, b)
      BY <2>4, ViewShows DEF Stage, Taken, DemoPlaces, PoolPlaces
    <3>3. claims[b] = 1 => Over(b) /\ \A w \in Workers : ~ Carries(w, b)
      BY <3>2 DEF Course, Carries
    <3>4. tickets[b] \in Nat /\ tickets'[b] \in Nat /\ deposits'[b] \in Nat
      BY <1>4, PoolElse DEF RestOK
    <3>5. Over(b) => Over(b)'
      BY <1>0, <2>2, <3>1, <3>4 DEF Over
    <3> QED
      BY <2>1, <2>2, <3>1, <3>3, <3>5 DEF Course, Carries
  <2> QED
    BY <2>3, <2>4
<1> QED
  BY <1>2, <1>3, <1>4

-----------------------------------------------------------------------------
(* The invariant *)

\* The invariant holds at first.
LEMMA InitInvariant == Init => IInv
<1> SUFFICES ASSUME Init PROVE IInv
  OBVIOUS
<1>1. WorkOK
  BY DEF Init, WorkOK, Jobs, JobOK, Idle, Places, Taken, DemoPlaces, PoolPlaces
<1>2. RestOK
  BY BetsAssumption, WorkersAssumption DEF Init, RestOK
<1>3. PayoutsOK /\ RailOK /\ BookBalances /\ PaidOK
  BY DEF Init, PayoutsOK, RailOK, BookBalances, Unsettled, PaidOK
<1>4. SumFunctionOnSet(CashHeld, Workers) = 0
  <2>1. \A w \in Workers : CashHeld[w] = 0
    BY DEF Init, CashHeld, Idle
  <2> QED
    BY <2>1, Constants, SumZero
<1>5. \A k \in Bets \cup {"cash"} : SentFor(k) = 0 /\ Heard(k) = 0
  BY DEF Init, SentFor, Heard
<1>6. CapHeld /\ CapCovers
  BY <1>4, <1>5, Constants DEF Init, CapHeld, CapCovers
<1>7. PoolCovers
  <2> SUFFICES ASSUME NEW b \in Bets
      PROVE tickets[b] + deposits[b] + refunded[b] + SumFunctionOnSet(Backing(b), Workers) <= Heard(b)
    BY DEF PoolCovers
  <2>1. \A w \in Workers : Backing(b)[w] = 0
    BY DEF Init, Backing, Idle
  <2>2. SumFunctionOnSet(Backing(b), Workers) = 0
    BY <2>1, Constants, SumZero
  <2> QED
    BY <1>5, <2>2 DEF Init
<1>8. OverlayAddsUp
  <2>1. \A b \in Bets : HoldOf[b] = 0 /\ BackOf[b] = 0
    <3>1. ASSUME NEW b \in Bets PROVE Amount[b] * Applied("hold", b) = 0 /\ Amount[b] * Returned(b) = 0
      BY Constants DEF Init, Applied, Returned
    <3> QED
      BY <3>1 DEF HoldOf, BackOf
  <2>2. OnHold = 0 /\ GivenBack = 0
    BY <2>1, OverlayTerms, Constants, SumZero
  <2> QED
    BY <2>2 DEF Init, OverlayAddsUp, Got
<1>9. Hands
  BY DEF Init, Hands, Carries, Idle, Taken, DemoPlaces, PoolPlaces
<1>10. ASSUME NEW b \in Bets PROVE Course(b)
  BY <1>5 DEF Init, Course, View, Applied, Returned
<1> QED
  BY <1>1, <1>2, <1>3, <1>6, <1>7, <1>8, <1>9, <1>10 DEF IInv, Core

\* Every step keeps it.
LEMMA NextInvariant == IInv /\ [Next]_vars => IInv'
<1> SUFFICES ASSUME IInv, [Next]_vars PROVE IInv'
  OBVIOUS
<1> USE DEF IInv, Core
<1>1. CASE Next
  <2>1. WorkOK' /\ RestOK' /\ CapHeld'
    BY <1>1, WorkNext, RestNext, CapNext
  <2>2. PayoutsOK' /\ BookBalances' /\ RailOK'
    BY <1>1, <2>1, BookNext, RailNext
  <2>3. CapCovers' /\ PoolCovers' /\ OverlayAddsUp' /\ PaidOK' /\ Hands'
    BY <1>1, CoversNext, PoolNext, OverlayNext, HandsNext
  <2>4. \A b \in Bets : Course(b)'
    BY <1>1, CourseNext
  <2> QED
    BY <2>1, <2>2, <2>3, <2>4
<1>2. CASE UNCHANGED vars
  <2>1. Core'
    BY <1>2 DEF vars, asked, balance, external, circle, market, WorkOK, JobOK, OnDemo, RestOK, PayoutsOK,
                RailOK, Unsettled, CapHeld, CashHeld, BookBalances, StakeOn, Fans, SideBets, On
  <2>2. CapCovers' /\ PoolCovers'
    BY <1>2 DEF vars, external, circle, market, CapCovers, PoolCovers, Backing, CashHeld, Heard, SentFor, OnDemo
  <2>3. PaidOK' /\ OverlayAddsUp'
    BY <1>2 DEF vars, balance, market, PaidOK, OverlayAddsUp, OnHold, Got, GivenBack, Returned, Applied
  <2>4. UNCHANGED <<claims, work, tickets, deposits, keys, rail>> /\ UNCHANGED circle
    BY <1>2 DEF vars, asked, balance, external, market
  <2>5. Hands'
    BY <2>4 DEF Hands, Carries
  <2>6. ASSUME NEW b \in Bets PROVE Course(b)'
    <3>1. View(b)' = View(b) /\ Applied("hold", b)' = Applied("hold", b) /\ Returned(b)' = Returned(b)
          /\ SentFor(b)' = SentFor(b) /\ unheard' = unheard
      BY <2>4 DEF View, Returned, Applied, circle, SentFor
    <3> QED
      BY <2>4, <3>1 DEF Course, Carries, Stage, Over, OnDemo
  <2> QED
    BY <2>1, <2>2, <2>3, <2>5, <2>6
<1> QED
  BY <1>1, <1>2

\* IInv holds in every reachable state, whatever races, dies, fails or is lost.
THEOREM Invariant == Spec => []IInv
BY InitInvariant, NextInvariant, PTL DEF Spec

\* Type correctness, for any workers, approvals, amounts and caps.
THEOREM TypeCorrect == Spec => []TypeOK
<1>1. IInv => TypeOK
  BY DEF IInv, Core, WorkOK, Jobs, RestOK, PayoutsOK, CapHeld, TypeOK
<1> QED
  BY <1>1, Invariant, PTL

\* BookBalances: a settled book pays out what came in, to the unit, and a void
\* one every stake, though bets race its end and approvals race each other.
THEOREM Balances == Spec => []BookBalances
<1>1. IInv => BookBalances
  BY DEF IInv, Core
<1> QED
  BY <1>1, Invariant, PTL

\* OverlayAddsUp: each hold, release and payout moves the overlay once,
\* whoever repeats a step of play_adjust.
THEOREM Overlay == Spec => []OverlayAddsUp
<1>1. IInv => OverlayAddsUp
  BY DEF IInv
<1> QED
  BY <1>1, Invariant, PTL

\* CapCounts: the day's count stands for every withdrawal that Circle accepted
\* until the day is over, whatever races, dies or fails on the chain.
THEOREM CapStands == Spec => []CapCounts
<1>1. IInv => CapCounts
  <2> SUFFICES ASSUME IInv PROVE CapCounts
    OBVIOUS
  <2>1. /\ capUsed \in 0 .. DailyCap /\ DailyCap \in Nat /\ Cash \in Nat
        /\ SentFor("cash") - unheard["cash"] \in Int
    BY Constants, SentNat DEF IInv, Core, CapHeld
  <2>2. \A w \in Workers : CashHeld[w] \in Nat
    BY <2>1 DEF CashHeld
  <2>3. SumFunctionOnSet(CashHeld, Workers) \in Nat
    BY <2>2, Constants, SumNat
  <2>4. Cash * (SentFor("cash") - unheard["cash"]) + SumFunctionOnSet(CashHeld, Workers) <= capUsed
    BY DEF IInv, CapCovers, Heard
  <2>5. Cash * (SentFor("cash") - unheard["cash"]) \in Int
    BY <2>1
  <2> QED
    BY <2>1, <2>3, <2>4, <2>5 DEF CapCounts
<1> QED
  BY <1>1, Invariant, PTL

\* PoolBackedByPulls: for each pull that Circle accepted the House makes a
\* deposit or a refund, never both, whoever else has the same approval.
THEOREM PoolBacked == Spec => []PoolBackedByPulls
<1>1. IInv => PoolBackedByPulls
  <2> SUFFICES ASSUME IInv, NEW b \in Bets, ~ OnDemo(b)
      PROVE tickets[b] + deposits[b] + refunded[b] <= SentFor(b) - unheard[b]
    BY DEF PoolBackedByPulls
  <2>1. \A w \in Workers : Backing(b)[w] \in Nat
    BY DEF Backing
  <2>2. SumFunctionOnSet(Backing(b), Workers) \in Nat
    BY <2>1, Constants, SumNat
  <2>3. SentFor(b) \in Nat /\ unheard[b] \in Nat
    BY SentNat DEF IInv, Core
  <2>4. tickets[b] \in Nat /\ deposits[b] \in Nat /\ refunded[b] \in Nat
    BY DEF IInv, Core, RestOK
  <2>5. tickets[b] + deposits[b] + refunded[b] + SumFunctionOnSet(Backing(b), Workers)
          <= SentFor(b) - unheard[b]
    BY DEF IInv, PoolCovers, Heard
  <2> QED
    BY <2>2, <2>3, <2>4, <2>5
<1> QED
  BY <1>1, Invariant, PTL

\* What the course of an approval says of its cost.
LEMMA CourseCharges ==
  ASSUME IInv, NEW b \in Bets, claims[b] <= 1
  PROVE  /\ tickets[b] + deposits[b] <= claims[b]
         /\ OnDemo(b) => Cost(b) >= Amount[b] * (tickets[b] - failed[b])
         /\ OnDemo(b) /\ ~ Working(b) => Cost(b) = Amount[b] * (tickets[b] + unheard[b] - failed[b])
<1> DEFINE a == Amount[b]
           h == Applied("hold", b)
           r == Returned(b)
           n == SentFor(b)
           u == unheard[b]
           t == tickets[b]
           d == deposits[b]
           f == failed[b]
<1>1. /\ a \in Nat /\ n \in Nat /\ u \in Nat /\ t \in Nat /\ d \in Nat /\ f \in Nat
      /\ transit[b] \in Nat /\ landed[b] \in Nat
      /\ h \in Nat /\ r \in Nat /\ claims[b] \in {0, 1}
  BY Constants, SentNat, AppliedBit DEF IInv, Core, RestOK, Returned
<1>2. Cost(b) = a * (h - r + n - f)
  <2>1. h - r + transit[b] + landed[b] = h - r + n - f
    BY <1>1 DEF SentFor
  <2> QED
    BY <2>1 DEF Cost
<1>3. /\ t + d <= claims[b]
      /\ OnDemo(b) => h - r + n >= t
      /\ OnDemo(b) /\ ~ Working(b) => h - r + n = t + u
  <2>1. CASE claims[b] = 0
    <3>1. h = 0 /\ r = 0 /\ n = 0 /\ u = 0 /\ t = 0 /\ d = 0
      BY <2>1, ViewShows DEF IInv, Course
    <3> QED
      BY <2>1, <3>1
  <2>2. CASE claims[b] = 1 /\ \A w \in Workers : ~ Carries(w, b)
    <3>1. t + d <= 1 /\ (OnDemo(b) => h - r + n = t + u)
      BY <2>2 DEF IInv, Course, Over
    <3> QED
      BY <1>1, <2>2, <3>1
  <2>3. ASSUME claims[b] = 1, NEW w \in Workers, Carries(w, b)
        PROVE  t + d <= 1 /\ (OnDemo(b) => h - r + n >= t) /\ Working(b)
    <3>1. Stage(work[w].at, b) /\ work[w].at \in Taken /\ work[w].bet = b /\ JobOK(work[w])
      BY <2>3 DEF IInv, Core, Course, Carries, WorkOK
    <3>2. CASE work[w].at \in {"deposit", "refund"}
      BY <3>1, <3>2 DEF Stage, JobOK, PoolPlaces, Working
    <3>3. CASE work[w].at \notin {"deposit", "refund"}
      <4>1. \/ h = 0 /\ r = 0 /\ n = 0 /\ u = 0 /\ t = 0 /\ d = 0
            \/ h = 1 /\ r = 0 /\ n = 0 /\ u = 0 /\ t = 0 /\ d = 0
            \/ h = 1 /\ r = 0 /\ n = 0 /\ u = 0 /\ t = 1 /\ d = 0
            \/ h = 1 /\ r = 0 /\ n = 1 /\ u = 0 /\ t = 1 /\ d = 0
        BY <3>1, <3>3, ViewShows DEF Stage, Taken, DemoPlaces, PoolPlaces
      <4> QED
        BY <3>1, <4>1 DEF Working
    <3> QED
      BY <3>2, <3>3
  <2> QED
    BY <1>1, <2>1, <2>2, <2>3
<1> HIDE DEF a, h, r, n, u, t, d, f
<1>4. \A x, y \in Int : x >= y => a * x >= a * y
  BY <1>1
<1>5. OnDemo(b) => a * (h - r + n - f) >= a * (t - f)
  <2>1. OnDemo(b) => h - r + n - f >= t - f /\ h - r + n - f \in Int /\ t - f \in Int
    BY <1>1, <1>3
  <2> QED
    BY <1>4, <2>1
<1>6. OnDemo(b) /\ ~ Working(b) => h - r + n - f = t + u - f
  BY <1>1, <1>3
<1> QED
  BY <1>2, <1>3, <1>5, <1>6 DEF a, t, d, u, f

\* TicketsCharged: an approval that one worker applies is paid for once,
\* whatever is refused, lapses, dies or comes late -- but for what Circle says
\* wrongly, which is counted.
THEOREM ChargedOnce == Spec => []TicketsCharged
<1>1. IInv => TicketsCharged
  BY CourseCharges DEF TicketsCharged
<1> QED
  BY <1>1, Invariant, PTL

\* AddsUp: the types, the overlay, the pulls behind the pool's tickets and the
\* day's count, together.
THEOREM AllAddUp == Spec => []AddsUp
BY TypeCorrect, Overlay, PoolBacked, CapStands, PTL DEF AddsUp
=============================================================================
