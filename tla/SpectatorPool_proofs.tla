------------------------ MODULE SpectatorPool_proofs ------------------------
(***************************************************************************)
(* The spectators' pot for any accounts, books, bets, fee schedules and    *)
(* times: the type invariant, the running totals, solvency across books,   *)
(* that what is left of a settled book covers every claim not made yet,    *)
(* that the terms of a book never change, that money always has a way      *)
(* out, and that nobody bets on a known result.                            *)
(***************************************************************************)
EXTENDS SpectatorPool, Sums

-----------------------------------------------------------------------------
(* Arithmetic *)

\* A part rate / d of x, with k * rate at most d, is at most a k-th of x.
LEMMA PartOf ==
  ASSUME NEW x \in Nat, NEW rate \in Nat, NEW k \in Nat, NEW d \in Nat \ {0}, k * rate <= d
  PROVE  (x * rate) \div d \in Nat /\ k * ((x * rate) \div d) <= x
<1> DEFINE p == x * rate
           q == p \div d
<1>1. p \in Nat /\ k * p = (k * rate) * x /\ k * rate \in Nat
  BY SMT
<1>2. q \in Nat /\ q * d <= p
  <2> HIDE DEF p
  <2> QED BY <1>1, Quotient
<1>3. (k * rate) * x <= d * x
  BY <1>1, MulMonotone
<1>4. (k * q) * d <= x * d
  <2> HIDE DEF p, q
  <2>1. (k * q) * d = (q * d) * k /\ q * d \in Nat /\ d * x = x * d /\ x * d \in Nat
        /\ p * k = k * p
    BY <1>1, <1>2, SMT
  <2>2. (q * d) * k <= p * k
    BY <1>1, <1>2, <2>1, MulMonotone
  <2> QED BY <1>1, <1>2, <1>3, <2>1, <2>2
<1>5. k * q \in Nat
  <2> HIDE DEF p, q
  <2> QED BY <1>2, SMT
<1>6. k * q <= x
  <2> HIDE DEF p, q
  <2> QED BY <1>4, <1>5, MulCancel
<1> QED BY <1>2, <1>6

-----------------------------------------------------------------------------
(* Sums over the three sides, the four tickets, the accounts *)

\* What an account bet on the three sides.
LEMMA SumOverSides ==
  ASSUME NEW f \in [Sides -> Nat]
  PROVE  SumFunction(f) = f[0] + f[1] + f[2]
<1>1. DOMAIN f = {0, 1, 2} /\ IsFiniteSet({0, 1, 2})
  <2>1. IsFiniteSet({0}) /\ IsFiniteSet({0} \cup {1})
    BY FS_Singleton, FS_AddElement
  <2>2. IsFiniteSet(({0} \cup {1}) \cup {2})
    BY <2>1, FS_AddElement
  <2>3. DOMAIN f = {0, 1, 2} /\ ({0} \cup {1}) \cup {2} = {0, 1, 2}
    BY DEF Sides
  <2> QED BY <2>2, <2>3
<1>2. SumFunctionOnSet(f, {0, 1, 2}) = f[0] + SumFunctionOnSet(f, {0, 1, 2} \ {0})
  BY <1>1, SumRemove
<1>3. {0, 1, 2} \ {0} = {1, 2} /\ {1, 2} \ {1} = {2} /\ {2} \ {2} = {}
      /\ IsFiniteSet({1, 2}) /\ IsFiniteSet({2})
  BY <1>1, FS_Subset
<1>4. SumFunctionOnSet(f, {1, 2}) = f[1] + SumFunctionOnSet(f, {1, 2} \ {1})
  BY <1>1, <1>3, SumRemove
<1>5. SumFunctionOnSet(f, {2}) = f[2] + SumFunctionOnSet(f, {2} \ {2})
  BY <1>1, <1>3, SumRemove
<1>6. SumFunctionOnSet(f, {}) = 0
  BY SumEmpty
<1>7. f[0] \in Nat /\ f[1] \in Nat /\ f[2] \in Nat
  BY DEF Sides
<1>8. SumFunctionOnSet(f, {0, 1, 2}) = f[0] + (f[1] + (f[2] + 0))
  BY <1>2, <1>3, <1>4, <1>5, <1>6
<1>9. SumFunction(f) = SumFunctionOnSet(f, {0, 1, 2})
  BY <1>1 DEF SumFunction
<1> QED BY <1>7, <1>8, <1>9

\* A book takes four seeds.
LEMMA TicketsFinite == IsFiniteSet(Tickets)
<1>1. IsFiniteSet({"A"}) /\ IsFiniteSet({"A"} \cup {"B"})
  BY FS_Singleton, FS_AddElement
<1>2. IsFiniteSet(({"A"} \cup {"B"}) \cup {"drawA"})
  BY <1>1, FS_AddElement
<1>3. IsFiniteSet((({"A"} \cup {"B"}) \cup {"drawA"}) \cup {"drawB"})
  BY <1>2, FS_AddElement
<1>4. Tickets = (({"A"} \cup {"B"}) \cup {"drawA"}) \cup {"drawB"}
  BY DEF Tickets
<1> QED BY <1>3, <1>4

\* The seeds of the tickets in P.
LEMMA SumOverTickets ==
  ASSUME NEW f \in [Tickets -> Nat], NEW P \in SUBSET Tickets
  PROVE  SumFunctionOnSet(f, P) = (IF "A" \in P THEN f["A"] ELSE 0)
           + (IF "B" \in P THEN f["B"] ELSE 0) + (IF "drawA" \in P THEN f["drawA"] ELSE 0)
           + (IF "drawB" \in P THEN f["drawB"] ELSE 0)
<1> DEFINE take(Q, t) == IF t \in Q THEN f[t] ELSE 0
           sum(Q) == SumFunctionOnSet(f, Q)
<1>1. IsFiniteSet(Tickets)
  BY TicketsFinite
<1>2. ASSUME NEW Q \in SUBSET Tickets, NEW t \in Tickets
      PROVE  sum(Q) = take(Q, t) + sum(Q \ {t})
  <2>1. IsFiniteSet(Q) /\ \A x \in Q : f[x] \in Nat
    BY <1>1, FS_Subset
  <2>2. CASE t \in Q
    BY <2>1, <2>2, SumRemove
  <2>3. CASE t \notin Q
    <3>1. Q \ {t} = Q
      BY <2>3
    <3>2. sum(Q) \in Nat
      BY <2>1, SumNat
    <3> HIDE DEF sum
    <3> QED BY <2>3, <3>1, <3>2
  <2> QED BY <2>2, <2>3
<1> DEFINE P1 == P \ {"A"}
           P2 == P1 \ {"B"}
           P3 == P2 \ {"drawA"}
           P4 == P3 \ {"drawB"}
<1>3. P4 = {} /\ P1 \in SUBSET Tickets /\ P2 \in SUBSET Tickets /\ P3 \in SUBSET Tickets
  BY DEF Tickets
<1>4. /\ take(P1, "B") = take(P, "B") /\ take(P2, "drawA") = take(P, "drawA")
      /\ take(P3, "drawB") = take(P, "drawB")
  OBVIOUS
<1>5. sum({}) = 0
  BY SumEmpty
<1>6. \A t \in Tickets : take(P, t) \in Nat
  OBVIOUS
<1> HIDE DEF take, sum, P1, P2, P3, P4
<1>7. /\ sum(P) = take(P, "A") + sum(P1)   /\ sum(P1) = take(P1, "B") + sum(P2)
      /\ sum(P2) = take(P2, "drawA") + sum(P3) /\ sum(P3) = take(P3, "drawB") + sum(P4)
  BY <1>2, <1>3 DEF P1, P2, P3, P4, Tickets
<1>8. sum(P) = take(P, "A") + take(P, "B") + take(P, "drawA") + take(P, "drawB")
  BY <1>3, <1>4, <1>5, <1>6, <1>7 DEF Tickets
<1> QED BY <1>8 DEF take, sum

-----------------------------------------------------------------------------
(* What the claims of a book add up to *)

\* The side totals of a book are the sums of its tickets.
TicketsMatch(total, bet, seeded) ==
  \A s \in Sides :
    total[s] = SumFunction([u \in Addr |-> bet[u][s]])
               + SumFunctionOnSet(seeded, {t \in Tickets : SideOf(t) = s})

\* The refunds of a book, bets and seeds, are at most its pot.
LEMMA RefundsCovered ==
  ASSUME NEW b \in Book, NEW bet \in [Addr -> [Sides -> Nat]], NEW seeded \in [Tickets -> Nat],
         TicketsMatch(b.total, bet, seeded),
         NEW refund, \A u \in Addr : refund[u] = SumFunction(bet[u])
           + SumFunctionOnSet(seeded, {t \in Tickets : PayerOf(b, t) = u})
  PROVE  SumFunctionOnSet(refund, Addr) <= _pot(b) /\ \A u \in Addr : refund[u] \in Nat
<1> USE AccountsAssumption
<1> DEFINE on(s) == [u \in Addr |-> bet[u][s]]
           of(payer, v) == [u \in Addr |-> IF u = payer THEN v ELSE 0]
           sum(f) == SumFunctionOnSet(f, Addr)
           f0 == on(0)
           f1 == on(1)
           f2 == on(2)
           s1 == of(b.agentWalletA, seeded["A"])
           s2 == of(b.agentWalletB, seeded["B"])
           s3 == of(b.agentWalletA, seeded["drawA"])
           s4 == of(b.agentWalletB, seeded["drawB"])
           h1 == [u \in Addr |-> f0[u] + f1[u]]
           h2 == [u \in Addr |-> h1[u] + f2[u]]
           h3 == [u \in Addr |-> h2[u] + s1[u]]
           h4 == [u \in Addr |-> h3[u] + s2[u]]
           h5 == [u \in Addr |-> h4[u] + s3[u]]
           h6 == [u \in Addr |-> h5[u] + s4[u]]
<1>1. /\ seeded["A"] \in Nat /\ seeded["B"] \in Nat
      /\ seeded["drawA"] \in Nat /\ seeded["drawB"] \in Nat
  BY DEF Tickets
<1>2. /\ \A u \in Addr : f0[u] \in Nat /\ f1[u] \in Nat /\ f2[u] \in Nat
      /\ \A u \in Addr : s1[u] \in Nat /\ s2[u] \in Nat /\ s3[u] \in Nat /\ s4[u] \in Nat
  BY <1>1 DEF Sides
<1>3. /\ sum(s1) <= seeded["A"] /\ sum(s2) <= seeded["B"]
      /\ sum(s3) <= seeded["drawA"] /\ sum(s4) <= seeded["drawB"]
  <2>1. ASSUME NEW p, NEW v \in Nat PROVE sum(of(p, v)) <= v
    <3>1. IsFiniteSet(Addr)
      OBVIOUS
    <3>2. sum(of(p, v)) = IF p \in Addr THEN v ELSE 0
      BY <3>1, SumSingle
    <3> HIDE DEF sum, of
    <3> QED BY <3>2
  <2> QED BY <1>1, <2>1
<1>4. \A u \in Addr : refund[u] = h6[u]
  <2> TAKE u \in Addr
  <2> DEFINE P == {t \in Tickets : PayerOf(b, t) = u}
  <2>1. /\ ("A" \in P) = (u = b.agentWalletA)
        /\ ("B" \in P) = (u = b.agentWalletB)
        /\ ("drawA" \in P) = (u = b.agentWalletA)
        /\ ("drawB" \in P) = (u = b.agentWalletB)
        /\ P \in SUBSET Tickets
    BY DEF Tickets, PayerOf
  <2>2. SumFunction(bet[u]) = f0[u] + f1[u] + f2[u]
    BY SumOverSides
  <2> HIDE DEF P
  <2>3. SumFunctionOnSet(seeded, P) = s1[u] + s2[u] + s3[u] + s4[u]
    BY <2>1, SumOverTickets
  <2>4. refund[u] = SumFunction(bet[u]) + SumFunctionOnSet(seeded, P)
    BY DEF P
  <2> QED BY <1>2, <2>2, <2>3, <2>4
<1> HIDE DEF f0, f1, f2, s1, s2, s3, s4
<1>5. \A u \in Addr : /\ h1[u] \in Nat /\ h2[u] \in Nat /\ h3[u] \in Nat
                     /\ h4[u] \in Nat /\ h5[u] \in Nat /\ h6[u] \in Nat
  BY <1>2
<1>6. /\ \A u \in Addr : h1[u] = f0[u] + f1[u] /\ h2[u] = h1[u] + f2[u] /\ h3[u] = h2[u] + s1[u]
      /\ \A u \in Addr : h4[u] = h3[u] + s2[u] /\ h5[u] = h4[u] + s3[u] /\ h6[u] = h5[u] + s4[u]
  OBVIOUS
<1> HIDE DEF h1, h2, h3, h4, h5, h6
<1>7. /\ sum(h1) = sum(f0) + sum(f1) /\ sum(h2) = sum(h1) + sum(f2)
      /\ sum(h3) = sum(h2) + sum(s1) /\ sum(h4) = sum(h3) + sum(s2)
      /\ sum(h5) = sum(h4) + sum(s3) /\ sum(h6) = sum(h5) + sum(s4)
  BY <1>2, <1>5, <1>6, SumOfSums
<1>8. /\ sum(f0) \in Nat /\ sum(f1) \in Nat /\ sum(f2) \in Nat
      /\ sum(s1) \in Nat /\ sum(s2) \in Nat /\ sum(s3) \in Nat /\ sum(s4) \in Nat
  BY <1>2, SumNat
<1>9. sum(refund) = sum(h6)
  BY <1>4, <1>5, SumEqual
<1>10. /\ b.total[0] = sum(f0) + seeded["A"] /\ b.total[1] = sum(f1) + seeded["B"]
       /\ b.total[2] = sum(f2) + seeded["drawA"] + seeded["drawB"]
  <2> DEFINE T(s) == {t \in Tickets : SideOf(t) = s}
  <2>1. /\ T(0) \in SUBSET Tickets /\ T(1) \in SUBSET Tickets /\ T(2) \in SUBSET Tickets
        /\ "A" \in T(0) /\ "A" \notin T(1) /\ "A" \notin T(2)
        /\ "B" \notin T(0) /\ "B" \in T(1) /\ "B" \notin T(2)
        /\ "drawA" \notin T(0) /\ "drawA" \notin T(1) /\ "drawA" \in T(2)
        /\ "drawB" \notin T(0) /\ "drawB" \notin T(1) /\ "drawB" \in T(2)
    BY DEF Tickets, SideOf
  <2>2. \A s \in Sides : b.total[s] = SumFunction(on(s)) + SumFunctionOnSet(seeded, T(s))
    BY DEF TicketsMatch
  <2>3. SumFunction(f0) = sum(f0) /\ SumFunction(f1) = sum(f1) /\ SumFunction(f2) = sum(f2)
    BY DEF SumFunction, f0, f1, f2
  <2> HIDE DEF T, sum, on
  <2>4. /\ SumFunctionOnSet(seeded, T(0)) = seeded["A"]
        /\ SumFunctionOnSet(seeded, T(1)) = seeded["B"]
        /\ SumFunctionOnSet(seeded, T(2)) = seeded["drawA"] + seeded["drawB"]
    BY <1>1, <2>1, SumOverTickets
  <2>5. /\ b.total[0] = SumFunction(f0) + SumFunctionOnSet(seeded, T(0))
        /\ b.total[1] = SumFunction(f1) + SumFunctionOnSet(seeded, T(1))
        /\ b.total[2] = SumFunction(f2) + SumFunctionOnSet(seeded, T(2))
    BY <2>2 DEF f0, f1, f2, Sides
  <2> QED BY <1>1, <1>8, <2>3, <2>4, <2>5
<1> HIDE DEF sum
<1>11. sum(refund) <= _pot(b)
  BY <1>1, <1>3, <1>7, <1>8, <1>9, <1>10 DEF _pot
<1> QED BY <1>4, <1>5, <1>11 DEF sum

\* The shares of the winners, rounded down, never exceed what they share.
LEMMA SharesCovered ==
  ASSUME NEW w \in [Addr -> Nat], NEW W \in Nat \ {0}, NEW D \in Nat,
         SumFunctionOnSet(w, Addr) = W,
         NEW share, \A u \in Addr : share[u] = (w[u] * D) \div W
  PROVE  SumFunctionOnSet(share, Addr) <= D /\ \A u \in Addr : share[u] \in Nat
<1> USE AccountsAssumption
<1> DEFINE part == [u \in Addr |-> w[u] * D]
           whole == [u \in Addr |-> share[u] * W]
           sum(f) == SumFunctionOnSet(f, Addr)
<1>1. ASSUME NEW u \in Addr
      PROVE  /\ w[u] \in Nat /\ w[u] * D \in Nat /\ share[u] \in Nat
             /\ share[u] * W \in Nat /\ share[u] * W <= w[u] * D
  <2> DEFINE p == w[u] * D
  <2>1. p \in Nat
    BY SMT
  <2> HIDE DEF p
  <2>2. share[u] = p \div W
    BY DEF p
  <2>3. share[u] \in Nat /\ share[u] * W <= p
    BY <2>1, <2>2, Quotient
  <2> QED BY <2>1, <2>3, SMT DEF p
<1>2. sum(part) = W * D
  BY <1>1, SumScaled
<1>3. sum(whole) = sum(share) * W
  BY <1>1, SumScaled
<1>4. sum(whole) <= sum(part)
  BY <1>1, SumMonotone
<1>5. sum(share) \in Nat
  BY <1>1, SumNat
<1> HIDE DEF sum, part, whole
<1>6. sum(share) * W <= D * W
  <2>1. W * D = D * W
    BY SMT
  <2> QED BY <1>2, <1>3, <1>4, <2>1
<1>7. sum(share) <= D
  BY <1>5, <1>6, MulCancel
<1> QED BY <1>1, <1>7 DEF sum

-----------------------------------------------------------------------------
(* The invariant, book by book *)

\* A book that was never opened is blank.
Unopened == \A m \in MatchIds : books[m].status = "None" => books[m] = NoBook

\* There always is a schedule for the next book.
Scheduled == schedules # << >>

\* What a user may claim is an amount.
LEMMA ClaimType ==
  ASSUME TypeOK, NEW m \in MatchIds, NEW u \in Addr
  PROVE  claimable(m, u) \in Nat
<1> DEFINE b == books[m]
           side == IF b.winnerSide = DRAW_SIDE THEN 2 ELSE b.winnerSide
<1>1. b \in Book /\ fan[m] \in [Addr -> [Sides -> Nat]] /\ seeds[m] \in [Tickets -> Nat]
  BY DEF TypeOK
<1>2. SumFunction(fan[m][u]) \in Nat
  <2>1. /\ fan[m][u] \in [Sides -> Nat]
        /\ fan[m][u][0] \in Nat /\ fan[m][u][1] \in Nat /\ fan[m][u][2] \in Nat
    BY <1>1 DEF Sides
  <2>2. SumFunction(fan[m][u]) = fan[m][u][0] + fan[m][u][1] + fan[m][u][2]
    BY <2>1, SumOverSides
  <2> QED BY <2>1, <2>2
<1>3. seedOf(m, u) \in Nat
  <2> DEFINE T == {t \in Tickets : PayerOf(b, t) = u}
  <2>1. IsFiniteSet(T) /\ \A t \in T : seeds[m][t] \in Nat
    BY <1>1, TicketsFinite, FS_Subset
  <2>2. seedOf(m, u) = SumFunctionOnSet(seeds[m], T)
    BY DEF seedOf
  <2> HIDE DEF T
  <2> QED BY <2>1, <2>2, SumNat
<1>4. ASSUME b.winnerSide # -1, b.fanWin > 0
      PROVE  (fan[m][u][side] * b.distributable) \div b.fanWin \in Nat
  <2>1. side \in Sides /\ b.distributable \in Nat /\ b.fanWin \in Nat \ {0}
    BY <1>1, <1>4 DEF Book, Sides, DRAW_SIDE
  <2>2. fan[m][u][side] \in Nat
    BY <1>1, <2>1
  <2> DEFINE p == fan[m][u][side] * b.distributable
  <2> HIDE DEF b, side
  <2>3. p \in Nat
    BY <2>1, <2>2, SMT
  <2> HIDE DEF p
  <2>4. p \div b.fanWin \in Nat
    BY <2>1, <2>3, Quotient
  <2> QED BY <2>4 DEF p
<1>5. claimable(m, u) \in {0, (fan[m][u][side] * b.distributable) \div b.fanWin,
                           SumFunction(fan[m][u]) + seedOf(m, u)}
      /\ \/ /\ claimable(m, u) = (fan[m][u][side] * b.distributable) \div b.fanWin
            /\ b.winnerSide # -1 /\ b.fanWin > 0
         \/ claimable(m, u) \in {0, SumFunction(fan[m][u]) + seedOf(m, u)}
  BY DEF claimable
<1> HIDE DEF b, side
<1> QED BY <1>2, <1>3, <1>4, <1>5

\* The inductive invariant.
IInv == TypeOK /\ Unopened /\ Scheduled /\ Solvent /\ ClaimsCovered

\* The claims on a book not made yet.
ClaimsOf(m) == SumFunction([u \in Addr |-> claimable(m, u)])

\* The blank record is a book.
LEMMA NoBookType == NoBook \in Book
BY DEF NoBook, Book, BookStatus, Sides

\* TicketsAccounted, as a statement on each book.
LEMMA TicketsByBook ==
  TicketsAccounted <=> \A m \in MatchIds : TicketsMatch(books[m].total, fan[m], seeds[m])
BY DEF TicketsAccounted, TicketsMatch

\* ... and in the next state.
LEMMA TicketsByBookNext ==
  TicketsAccounted' <=> \A m \in MatchIds : TicketsMatch(books'[m].total, fan'[m], seeds'[m])
BY DEF TicketsAccounted, TicketsMatch

\* What a user may claim from a book depends on that book's state alone.
LEMMA ClaimsStay ==
  ASSUME NEW m \in MatchIds, books'[m] = books[m], fan'[m] = fan[m],
         seeds'[m] = seeds[m], claimed'[m] = claimed[m]
  PROVE  ClaimsOf(m)' = ClaimsOf(m)
<1>1. ASSUME NEW u \in Addr PROVE claimable(m, u)' = claimable(m, u)
  <2>1. seedOf(m, u)' = seedOf(m, u)
    <3>1. {t \in Tickets : PayerOf(books'[m], t) = u} = {t \in Tickets : PayerOf(books[m], t) = u}
      OBVIOUS
    <3> QED BY <3>1 DEF seedOf
  <2> QED BY <2>1 DEF claimable, Settled
<1>2. [u \in Addr |-> claimable(m, u)'] = [u \in Addr |-> claimable(m, u)]
  BY <1>1
<1> QED BY <1>2 DEF ClaimsOf

\* What the contract owes to the claimants of all its books follows the one
\* book that changes.
LEMMA DebtMoves ==
  ASSUME TypeOK, NEW m \in MatchIds, NEW r \in Book, books' = [books EXCEPT ![m] = r],
         NEW debt, debt = SumFunction([k \in MatchIds |-> BookDebt(books[k])]),
         NEW next, next = SumFunction([k \in MatchIds |-> BookDebt(books'[k])])
  PROVE  /\ debt \in Nat /\ next \in Nat /\ BookDebt(books[m]) \in Nat /\ BookDebt(r) \in Nat
         /\ BookDebt(books[m]) <= debt
         /\ next = debt - BookDebt(books[m]) + BookDebt(r)
<1> USE AccountsAssumption
<1> DEFINE f == [k \in MatchIds |-> BookDebt(books[k])]
           g == [k \in MatchIds |-> BookDebt(books'[k])]
<1>1. ASSUME NEW b \in Book PROVE BookDebt(b) \in Nat
  BY DEF BookDebt, Live, _pot, Book, Sides
<1>2. books \in [MatchIds -> Book] /\ books' \in [MatchIds -> Book] /\ books'[m] = r
      /\ \A k \in MatchIds : k # m => books'[k] = books[k]
  BY DEF TypeOK
<1>3. /\ \A k \in MatchIds : f[k] \in Nat /\ g[k] \in Nat /\ (k # m => g[k] = f[k])
      /\ f[m] = BookDebt(books[m]) /\ g[m] = BookDebt(r)
  BY <1>1, <1>2
<1>4. debt = SumFunctionOnSet(f, MatchIds) /\ next = SumFunctionOnSet(g, MatchIds)
  BY DEF SumFunction
<1> HIDE DEF f, g
<1> QED BY <1>3, <1>4, SumChange

\* Solvency follows a step that changes one book and moves as much money.
LEMMA SolventFollows ==
  ASSUME IInv, TypeOK', NEW m \in MatchIds, NEW r \in Book, books' = [books EXCEPT ![m] = r],
         wallet'[Pool] + BookDebt(books[m]) + protocolFees + totalOwed
           = wallet[Pool] + BookDebt(r) + protocolFees' + totalOwed'
  PROVE  Solvent'
<1> DEFINE debt == SumFunction([k \in MatchIds |-> BookDebt(books[k])])
           next == SumFunction([k \in MatchIds |-> BookDebt(books'[k])])
<1>1. /\ debt \in Nat /\ next \in Nat /\ BookDebt(books[m]) \in Nat /\ BookDebt(r) \in Nat
      /\ next = debt - BookDebt(books[m]) + BookDebt(r)
  BY DebtMoves DEF IInv
<1>2. wallet[Pool] = debt + protocolFees + totalOwed
  BY DEF IInv, Solvent
<1>3. /\ wallet[Pool] \in Nat /\ protocolFees \in Nat /\ totalOwed \in Nat
      /\ wallet'[Pool] \in Nat /\ protocolFees' \in Nat /\ totalOwed' \in Nat
  BY DEF IInv, TypeOK
<1> HIDE DEF debt, next
<1>4. wallet'[Pool] = next + protocolFees' + totalOwed'
  BY <1>1, <1>2, <1>3
<1> QED BY <1>4 DEF Solvent, next

\* A step that changes one book keeps the invariant, when that book's tickets
\* still match, its claims are still covered, and the balance follows.
LEMMA OneBookMoves ==
  ASSUME IInv, TypeOK', CreditsAccounted', UNCHANGED schedules,
         NEW m \in MatchIds, NEW r \in Book, books' = [books EXCEPT ![m] = r],
         \A k \in MatchIds : k # m =>
           fan'[k] = fan[k] /\ seeds'[k] = seeds[k] /\ claimed'[k] = claimed[k],
         r.status # "None",
         TicketsMatch(r.total, fan'[m], seeds'[m]),
         Settled(r) => ClaimsOf(m)' <= r.remaining,
         r.status = "Resolved" /\ r.fanWin > 0 => 100 * r.distributable >= 73 * _pot(r),
         wallet'[Pool] + BookDebt(books[m]) + protocolFees + totalOwed
           = wallet[Pool] + BookDebt(r) + protocolFees' + totalOwed'
  PROVE  IInv'
<1> USE AccountsAssumption
<1>1. /\ books'[m] = r
      /\ \A k \in MatchIds : k # m => books'[k] = books[k]
  BY DEF IInv, TypeOK
<1>2. Unopened' /\ Scheduled'
  BY <1>1 DEF IInv, Unopened, Scheduled
<1>3. TicketsAccounted'
  BY <1>1, TicketsByBook, TicketsByBookNext DEF IInv, ClaimsCovered, MoneyAccounted
<1>4. EveryClaimCovered'
  <2>1. ASSUME NEW k \in MatchIds, Settled(books'[k]) PROVE ClaimsOf(k)' <= books'[k].remaining
    <3>1. CASE k = m
      BY <1>1, <2>1, <3>1
    <3>2. CASE k # m
      <4>1. ClaimsOf(k)' = ClaimsOf(k)
        BY <1>1, <3>2, ClaimsStay
      <4>2. ClaimsOf(k) <= books[k].remaining
        BY <1>1, <2>1, <3>2 DEF IInv, ClaimsCovered, EveryClaimCovered, ClaimsOf
      <4> QED BY <1>1, <3>2, <4>1, <4>2
    <3> QED BY <3>1, <3>2
  <2> QED BY <2>1 DEF EveryClaimCovered, ClaimsOf
<1>5. TakeBounded'
  BY <1>1 DEF IInv, ClaimsCovered, TakeBounded
<1>6. Solvent'
  BY SolventFollows
<1> QED BY <1>2, <1>3, <1>4, <1>5, <1>6 DEF IInv, ClaimsCovered, MoneyAccounted

\* A step that changes no book keeps what the invariant says of the books.
LEMMA BooksStay ==
  ASSUME IInv, UNCHANGED <<books, bets, claimed>>
  PROVE  /\ Unopened' /\ TicketsAccounted' /\ EveryClaimCovered' /\ TakeBounded'
         /\ SumFunction([k \in MatchIds |-> BookDebt(books'[k])])
              = SumFunction([k \in MatchIds |-> BookDebt(books[k])])
<1> USE DEF bets
<1>1. Unopened' /\ TakeBounded'
  BY DEF IInv, Unopened, ClaimsCovered, TakeBounded
<1>2. TicketsAccounted'
  BY TicketsByBook, TicketsByBookNext DEF IInv, ClaimsCovered, MoneyAccounted
<1>3. ASSUME NEW k \in MatchIds, Settled(books'[k]) PROVE ClaimsOf(k)' <= books'[k].remaining
  <2>1. ClaimsOf(k)' = ClaimsOf(k)
    BY ClaimsStay
  <2> QED BY <1>3, <2>1 DEF IInv, ClaimsCovered, EveryClaimCovered, ClaimsOf
<1>4. EveryClaimCovered'
  BY <1>3 DEF EveryClaimCovered, ClaimsOf
<1>5. [k \in MatchIds |-> BookDebt(books'[k])] = [k \in MatchIds |-> BookDebt(books[k])]
  OBVIOUS
<1> QED BY <1>1, <1>2, <1>4, <1>5

\* A step that moves no money and no book keeps the invariant.
LEMMA MoneyStays ==
  ASSUME IInv, TypeOK', Scheduled',
         UNCHANGED <<books, bets, claimed, protocolFees, owed, totalOwed, wallet>>
  PROVE  IInv'
<1>1. /\ Unopened' /\ TicketsAccounted' /\ EveryClaimCovered' /\ TakeBounded'
      /\ SumFunction([k \in MatchIds |-> BookDebt(books'[k])])
           = SumFunction([k \in MatchIds |-> BookDebt(books[k])])
  BY BooksStay
<1>2. Solvent'
  BY <1>1 DEF IInv, Solvent
<1>3. CreditsAccounted'
  BY DEF IInv, ClaimsCovered, MoneyAccounted, CreditsAccounted
<1> QED BY <1>1, <1>2, <1>3 DEF IInv, ClaimsCovered, MoneyAccounted

-----------------------------------------------------------------------------
(* Money in and out *)

\* Tokens paid in add to the contract's balance.
LEMMA PaidIn ==
  ASSUME TypeOK, NEW a \in Addr, NEW x \in Nat, Transfer(a, Pool, x)
  PROVE  wallet' \in [Addr \cup {Pool} -> Nat] /\ wallet'[Pool] = wallet[Pool] + x
<1>1. wallet[a] >= x /\ wallet' = [wallet EXCEPT ![a] = @ - x, ![Pool] = @ + x]
  BY DEF Transfer, CanTransfer
<1>2. a # Pool /\ wallet \in [Addr \cup {Pool} -> Nat]
  BY AccountsAssumption DEF TypeOK
<1> QED BY <1>1, <1>2

\* Tokens paid out come from it, and there are enough of them.
LEMMA PaidOut ==
  ASSUME TypeOK, NEW a \in Addr, NEW x \in Nat, Transfer(Pool, a, x)
  PROVE  /\ wallet' \in [Addr \cup {Pool} -> Nat]
         /\ x <= wallet[Pool] /\ wallet'[Pool] = wallet[Pool] - x
BY AccountsAssumption DEF Transfer, CanTransfer, TypeOK

\* A bet raises the total of its side and nothing else.
LEMMA TicketBet ==
  ASSUME NEW total \in [Sides -> Nat], NEW bet \in [Addr -> [Sides -> Nat]],
         NEW seeded \in [Tickets -> Nat], NEW u \in Addr, NEW side \in Sides, NEW x \in Nat,
         TicketsMatch(total, bet, seeded)
  PROVE  TicketsMatch([total EXCEPT ![side] = @ + x], [bet EXCEPT ![u][side] = @ + x], seeded)
<1> USE AccountsAssumption
<1> DEFINE total2 == [total EXCEPT ![side] = @ + x]
           bet2 == [bet EXCEPT ![u][side] = @ + x]
<1> SUFFICES ASSUME NEW s \in Sides
             PROVE  total2[s] = SumFunction([v \in Addr |-> bet2[v][s]])
                      + SumFunctionOnSet(seeded, {t \in Tickets : SideOf(t) = s})
  BY DEF TicketsMatch
<1> DEFINE f == [v \in Addr |-> bet[v][s]]
           g == [v \in Addr |-> bet2[v][s]]
           old == SumFunctionOnSet(seeded, {t \in Tickets : SideOf(t) = s})
<1>1. total[s] = SumFunctionOnSet(f, Addr) + old
  BY DEF TicketsMatch, SumFunction
<1>2. \A v \in Addr : f[v] \in Nat /\ g[v] = f[v] + (IF v = u /\ s = side THEN x ELSE 0)
  OBVIOUS
<1>3. total2[s] = total[s] + (IF s = side THEN x ELSE 0) /\ total[s] \in Nat
  OBVIOUS
<1>4. SumFunction(g) = SumFunctionOnSet(g, Addr)
  BY DEF SumFunction
<1> HIDE DEF f, g, total2, bet2
<1>5. /\ SumFunctionOnSet(g, Addr) = SumFunctionOnSet(f, Addr) - f[u] + g[u]
      /\ SumFunctionOnSet(f, Addr) \in Nat
  <2>1. \A v \in Addr : f[v] \in Nat /\ g[v] \in Nat /\ (v # u => g[v] = f[v])
    BY <1>2
  <2> QED BY <2>1, SumChange
<1>6. old \in Nat
  <2>1. IsFiniteSet({t \in Tickets : SideOf(t) = s})
    BY TicketsFinite, FS_Subset
  <2> QED BY <2>1, SumNat
<1> HIDE DEF old
<1>7. f[u] \in Nat /\ g[u] = f[u] + (IF s = side THEN x ELSE 0)
  BY <1>2
<1>8. total2[s] = SumFunction(g) + old
  BY <1>1, <1>3, <1>4, <1>5, <1>6, <1>7
<1> QED BY <1>8 DEF g, old

\* The first seed of a ticket raises the total of the side it counts for.
LEMMA TicketSeeded ==
  ASSUME NEW total \in [Sides -> Nat], NEW bet \in [Addr -> [Sides -> Nat]],
         NEW seeded \in [Tickets -> Nat], NEW t \in Tickets, NEW x \in Nat,
         seeded[t] = 0, TicketsMatch(total, bet, seeded)
  PROVE  TicketsMatch([total EXCEPT ![SideOf(t)] = @ + x], bet, [seeded EXCEPT ![t] = x])
<1> USE AccountsAssumption
<1> DEFINE total2 == [total EXCEPT ![SideOf(t)] = @ + x]
           seeded2 == [seeded EXCEPT ![t] = x]
<1> SUFFICES ASSUME NEW s \in Sides
             PROVE  total2[s] = SumFunction([v \in Addr |-> bet[v][s]])
                      + SumFunctionOnSet(seeded2, {k \in Tickets : SideOf(k) = s})
  BY DEF TicketsMatch
<1> DEFINE f == [v \in Addr |-> bet[v][s]]
           T == {k \in Tickets : SideOf(k) = s}
<1>1. total[s] = SumFunction(f) + SumFunctionOnSet(seeded, T)
  BY DEF TicketsMatch
<1>2. SumFunction(f) \in Nat
  <2>1. \A v \in Addr : f[v] \in Nat
    OBVIOUS
  <2>2. SumFunction(f) = SumFunctionOnSet(f, Addr)
    BY DEF SumFunction
  <2> HIDE DEF f
  <2> QED BY <2>1, <2>2, SumNat
<1>3. IsFiniteSet(T) /\ T \in SUBSET Tickets
  BY TicketsFinite, FS_Subset
<1>4. total2[s] = total[s] + (IF s = SideOf(t) THEN x ELSE 0) /\ total[s] \in Nat
  OBVIOUS
<1>5. \A k \in Tickets : seeded[k] \in Nat /\ seeded2[k] = IF k = t THEN x ELSE seeded[k]
  OBVIOUS
<1>6. t \in T <=> s = SideOf(t)
  OBVIOUS
<1> HIDE DEF f, T, total2, seeded2
<1>7. CASE s = SideOf(t)
  <2>1. /\ SumFunctionOnSet(seeded2, T) = SumFunctionOnSet(seeded, T) - seeded[t] + seeded2[t]
        /\ SumFunctionOnSet(seeded, T) \in Nat
    <3>1. \A k \in T : seeded[k] \in Nat /\ seeded2[k] \in Nat /\ (k # t => seeded2[k] = seeded[k])
      BY <1>3, <1>5
    <3>2. t \in T
      BY <1>6, <1>7
    <3> QED BY <1>3, <3>1, <3>2, SumChange
  <2>2. seeded2[t] = x
    BY <1>5
  <2>3. total2[s] = SumFunction(f) + SumFunctionOnSet(seeded2, T)
    BY <1>1, <1>2, <1>4, <1>7, <2>1, <2>2
  <2> QED BY <2>3 DEF f, T
<1>8. CASE s # SideOf(t)
  <2>1. \A k \in T : seeded[k] \in Nat /\ seeded2[k] = seeded[k]
    BY <1>3, <1>5, <1>6, <1>8
  <2>2. SumFunctionOnSet(seeded2, T) = SumFunctionOnSet(seeded, T)
    BY <1>3, <2>1, SumEqual
  <2>3. total2[s] = SumFunction(f) + SumFunctionOnSet(seeded2, T)
    BY <1>1, <1>4, <1>8, <2>2
  <2> QED BY <2>3 DEF f, T
<1> QED BY <1>7, <1>8

-----------------------------------------------------------------------------
(* Every action keeps the invariant. *)

\* A book that is open for bets is live, and its record is a book.
LEMMA BookFacts ==
  ASSUME IInv, NEW m \in MatchIds
  PROVE  /\ books[m] \in Book /\ fan[m] \in [Addr -> [Sides -> Nat]]
         /\ seeds[m] \in [Tickets -> Nat] /\ claimed[m] \subseteq Addr
         /\ books[m].total \in [Sides -> Nat] /\ _pot(books[m]) \in Nat
         /\ books[m].remaining \in Nat /\ books[m].closeAt \in Nat
         /\ TicketsMatch(books[m].total, fan[m], seeds[m])
         /\ CreditsAccounted
<1>1. books[m] \in Book /\ fan[m] \in [Addr -> [Sides -> Nat]]
      /\ seeds[m] \in [Tickets -> Nat] /\ claimed[m] \subseteq Addr
  BY DEF IInv, TypeOK
<1>2. books[m].total \in [Sides -> Nat] /\ books[m].remaining \in Nat /\ books[m].closeAt \in Nat
  BY <1>1 DEF Book
<1>3. _pot(books[m]) \in Nat
  BY <1>2 DEF _pot, Sides
<1>4. TicketsMatch(books[m].total, fan[m], seeds[m]) /\ CreditsAccounted
  BY TicketsByBook DEF IInv, ClaimsCovered, MoneyAccounted
<1> QED BY <1>1, <1>2, <1>3, <1>4

\* The constructor establishes the invariant.
LEMMA InitInvariant == Init => IInv
<1> SUFFICES ASSUME Init PROVE IInv
  OBVIOUS
<1> USE AccountsAssumption, ParametersAssumption DEF Init
<1>1. TypeOK
  <2>1. books \in [MatchIds -> Book] /\ \A m \in MatchIds : books[m].status = "None"
    BY NoBookType DEF NoBook
  <2>2. /\ fan \in [MatchIds -> [Addr -> [Sides -> Nat]]]
        /\ seeds \in [MatchIds -> [Tickets -> Nat]]
        /\ claimed \in [MatchIds -> SUBSET Addr]
    OBVIOUS
  <2>3. schedules \in Seq(FeeSchedule) /\ \A i \in DOMAIN schedules : ValidSchedule(schedules[i])
    OBVIOUS
  <2>4. wallet \in [Addr \cup {Pool} -> Nat] /\ owed \in [Addr -> Nat]
    OBVIOUS
  <2> QED BY <2>1, <2>2, <2>3, <2>4 DEF TypeOK
<1>2. Unopened /\ Scheduled /\ TakeBounded
  BY DEF Unopened, Scheduled, TakeBounded, NoBook
<1>3. Solvent
  <2> DEFINE f == [m \in MatchIds |-> BookDebt(books[m])]
  <2>1. \A m \in MatchIds : f[m] = 0
    BY DEF BookDebt, Live, NoBook
  <2>2. SumFunction(f) = SumFunctionOnSet(f, MatchIds)
    BY DEF SumFunction
  <2> HIDE DEF f
  <2>3. SumFunction(f) = 0
    BY <2>1, <2>2, SumZero
  <2> QED BY <2>3 DEF Solvent, f
<1>4. EveryClaimCovered
  BY DEF EveryClaimCovered, Settled, NoBook
<1>5. CreditsAccounted
  <2>1. owed = [a \in Addr |-> 0] /\ SumFunction(owed) = SumFunctionOnSet(owed, Addr)
    BY DEF SumFunction
  <2>2. SumFunctionOnSet(owed, Addr) = 0
    BY <2>1, SumZero
  <2> QED BY <2>1, <2>2 DEF CreditsAccounted
<1>6. TicketsAccounted
  <2> SUFFICES ASSUME NEW m \in MatchIds, NEW s \in Sides
               PROVE  books[m].total[s] = SumFunction([u \in Addr |-> fan[m][u][s]])
                        + SumFunctionOnSet(seeds[m], {t \in Tickets : SideOf(t) = s})
    BY DEF TicketsAccounted
  <2> DEFINE f == [u \in Addr |-> fan[m][u][s]]
             T == {t \in Tickets : SideOf(t) = s}
  <2>1. /\ \A u \in Addr : f[u] = 0
        /\ \A t \in T : seeds[m][t] = 0
        /\ IsFiniteSet(T)
    BY TicketsFinite, FS_Subset
  <2>2. SumFunction(f) = SumFunctionOnSet(f, Addr)
    BY DEF SumFunction
  <2>3. books[m].total[s] = 0
    BY DEF NoBook
  <2> HIDE DEF f, T
  <2>4. SumFunctionOnSet(f, Addr) = 0 /\ SumFunctionOnSet(seeds[m], T) = 0
    BY <2>1, SumZero
  <2> QED BY <2>2, <2>3, <2>4 DEF f, T
<1> QED BY <1>1, <1>2, <1>3, <1>4, <1>5, <1>6 DEF IInv, ClaimsCovered, MoneyAccounted

\* A new book starts blank: no ticket of the match was ever sold.
LEMMA OpenInvariant ==
  ASSUME IInv, NEW c \in Addr, NEW in \in BookInputs, openBook(c, in)
  PROVE  IInv'
<1> DEFINE m == in.matchId
           r == [NoBook EXCEPT
                  !.status = "Open", !.agentWalletA = in.agentWalletA, !.agentWalletB = in.agentWalletB,
                  !.creatorA = in.creatorA, !.creatorB = in.creatorB, !.potCap = in.potCap,
                  !.winnerSide = -1, !.closeAt = in.closeAt, !.feeScheduleId = Len(schedules)]
<1>1. in \in BookInput /\ m \in MatchIds
  BY InputsAssumption DEF BookInput
<1>2. /\ books[m] = NoBook /\ books' = [books EXCEPT ![m] = r]
      /\ UNCHANGED <<bets, claimed, protocolFees, owed, totalOwed, admin, wallet, world>>
  BY <1>1 DEF openBook, IInv, Unopened
<1>3. schedules \in Seq(FeeSchedule) /\ Len(schedules) \in DOMAIN schedules
  BY DEF IInv, TypeOK, Scheduled
<1>4. r \in Book
  <2>1. /\ in.agentWalletA \in Addr \cup {Zero} /\ in.agentWalletB \in Addr \cup {Zero}
        /\ in.creatorA \in Addr \cup {Zero} /\ in.creatorB \in Addr \cup {Zero}
        /\ in.potCap \in Nat /\ in.closeAt \in Nat
    BY <1>1 DEF BookInput
  <2>2. Len(schedules) \in Nat
    BY <1>3
  <2> QED BY <2>1, <2>2 DEF NoBook, Book, BookStatus, Sides, DRAW_SIDE
<1>5. /\ r.status = "Open" /\ r.feeScheduleId = Len(schedules) /\ r.total = books[m].total
      /\ BookDebt(r) = 0 /\ BookDebt(books[m]) = 0
  BY <1>2 DEF NoBook, BookDebt, Live, _pot, Sides
<1> HIDE DEF m, r
<1>6. TypeOK'
  BY <1>1, <1>2, <1>3, <1>4, <1>5 DEF IInv, TypeOK, bets, admin, world
<1>7. CreditsAccounted' /\ TicketsMatch(r.total, fan'[m], seeds'[m])
  BY <1>1, <1>2, <1>5, BookFacts DEF CreditsAccounted, bets
<1>8. ~ Settled(r) /\ r.status # "Resolved" /\ r.status # "None"
  BY <1>5 DEF Settled
<1> QED BY <1>1, <1>2, <1>4, <1>5, <1>6, <1>7, <1>8, OneBookMoves DEF bets, admin

\* A closed book takes no bet and owes its pot as before.
LEMMA CloseInvariant ==
  ASSUME IInv, NEW c \in Addr, NEW m \in MatchIds, close(c, m)
  PROVE  IInv'
<1> DEFINE r == [books[m] EXCEPT !.status = "Closed"]
<1>1. /\ books[m].status = "Open" /\ books' = [books EXCEPT ![m] = r]
      /\ UNCHANGED <<bets, claimed, protocolFees, owed, totalOwed, admin, wallet, world>>
  BY DEF close
<1>2. /\ r \in Book /\ r.status = "Closed" /\ r.feeScheduleId = books[m].feeScheduleId
      /\ r.total = books[m].total /\ BookDebt(r) = BookDebt(books[m])
  <2>1. books[m] \in Book
    BY BookFacts
  <2>2. r \in Book /\ r.status = "Closed" /\ r.feeScheduleId = books[m].feeScheduleId /\ r.total = books[m].total
    BY <2>1, SMTT(30) DEF Book, BookStatus
  <2> HIDE DEF r
  <2> QED BY <1>1, <2>2 DEF BookDebt, Live, _pot
<1> HIDE DEF r
<1>3. TypeOK'
  BY <1>1, <1>2 DEF IInv, TypeOK, bets, admin, world
<1>4. CreditsAccounted' /\ TicketsMatch(r.total, fan'[m], seeds'[m])
  BY <1>1, <1>2, BookFacts DEF CreditsAccounted, bets
<1>5. ~ Settled(r) /\ r.status # "Resolved" /\ r.status # "None"
  BY <1>2 DEF Settled
<1>6. wallet'[Pool] + BookDebt(books[m]) + protocolFees + totalOwed
        = wallet[Pool] + BookDebt(r) + protocolFees' + totalOwed'
  BY <1>1, <1>2
<1> QED BY <1>1, <1>2, <1>3, <1>4, <1>5, <1>6, OneBookMoves DEF bets, admin

\* A refund sets the whole pot aside, and every bet and seed is covered by it.
LEMMA RefundInvariant ==
  ASSUME IInv, NEW m \in MatchIds, NEW asCancel \in BOOLEAN, Live(books[m]),
         _markRefund(m, asCancel), UNCHANGED <<bets, claimed, admin, wallet, world>>
  PROVE  IInv'
<1> USE AccountsAssumption
<1> DEFINE b == books[m]
           r == [b EXCEPT !.winnerSide = -1, !.distributable = 0, !.fanWin = 0,
                          !.status = IF asCancel THEN "Cancelled" ELSE "Resolved",
                          !.settledAt = now, !.remaining = _pot(b)]
<1>1. books' = [books EXCEPT ![m] = r] /\ UNCHANGED <<protocolFees, owed, totalOwed>>
  BY DEF _markRefund
<1>2. b \in Book /\ now \in Nat /\ _pot(b) \in Nat /\ b.total \in [Sides -> Nat]
  BY BookFacts DEF IInv, TypeOK
<1>3. r \in Book
  <2> HIDE DEF b
  <2> QED BY <1>2 DEF Book, BookStatus, DRAW_SIDE
<1>4. /\ r.status \in {"Cancelled", "Resolved"} /\ r.feeScheduleId = b.feeScheduleId
      /\ r.total = b.total /\ r.fanWin = 0 /\ r.remaining = _pot(b) /\ r.winnerSide = -1
      /\ r.agentWalletA = b.agentWalletA /\ r.agentWalletB = b.agentWalletB
  BY <1>2 DEF Book
<1>5. BookDebt(r) = _pot(b) /\ BookDebt(b) = _pot(b) /\ b.status # "None"
  BY <1>4 DEF BookDebt, Live
<1>6. books'[m] = r
  BY <1>1 DEF IInv, TypeOK
<1>7. ClaimsOf(m)' <= r.remaining
  <2> DEFINE refund == [u \in Addr |-> SumFunction(fan[m][u])
               + SumFunctionOnSet(seeds[m], {t \in Tickets : PayerOf(r, t) = u})]
             claim1 == [u \in Addr |-> claimable(m, u)']
  <2>1. TicketsMatch(r.total, fan[m], seeds[m]) /\ fan[m] \in [Addr -> [Sides -> Nat]]
        /\ seeds[m] \in [Tickets -> Nat]
    BY <1>4, BookFacts
  <2>2. \A u \in Addr : refund[u] = SumFunction(fan[m][u])
          + SumFunctionOnSet(seeds[m], {t \in Tickets : PayerOf(r, t) = u})
    OBVIOUS
  <2>3. \A u \in Addr : claim1[u] = 0 \/ claim1[u] = refund[u]
    <3> TAKE u \in Addr
    <3>1. seedOf(m, u)' = SumFunctionOnSet(seeds[m], {t \in Tickets : PayerOf(r, t) = u})
      BY <1>6 DEF seedOf, bets
    <3>2. claimable(m, u)' = 0 \/ claimable(m, u)' = SumFunction(fan[m][u]) + seedOf(m, u)'
      BY <1>4, <1>6 DEF claimable, bets
    <3> QED BY <3>1, <3>2
  <2> HIDE DEF refund, r, claim1
  <2>4. SumFunctionOnSet(refund, Addr) <= _pot(r) /\ \A u \in Addr : refund[u] \in Nat
    BY <1>3, <2>1, <2>2, RefundsCovered
  <2>5. \A u \in Addr : claim1[u] \in Nat /\ refund[u] \in Nat /\ claim1[u] <= refund[u]
    BY <2>3, <2>4
  <2>6. SumFunctionOnSet(claim1, Addr) <= SumFunctionOnSet(refund, Addr)
    BY <2>5, SumMonotone
  <2>7. SumFunctionOnSet(claim1, Addr) \in Nat /\ SumFunctionOnSet(refund, Addr) \in Nat
    BY <2>5, SumNat
  <2>8. ClaimsOf(m)' = SumFunctionOnSet(claim1, Addr)
    BY DEF ClaimsOf, SumFunction, claim1
  <2>9. _pot(r) = r.remaining /\ r.remaining \in Nat
    BY <1>2, <1>4 DEF _pot
  <2> QED BY <2>4, <2>6, <2>7, <2>8, <2>9
<1> HIDE DEF r
<1>8. TypeOK'
  BY <1>1, <1>3, <1>4, <1>5 DEF IInv, TypeOK, bets, admin, world
<1>9. CreditsAccounted' /\ TicketsMatch(r.total, fan'[m], seeds'[m])
  BY <1>1, <1>4, BookFacts DEF CreditsAccounted, bets
<1>10. wallet'[Pool] + BookDebt(books[m]) + protocolFees + totalOwed
         = wallet[Pool] + BookDebt(r) + protocolFees' + totalOwed'
  BY <1>1, <1>5
<1>11. r.status # "None" /\ ~ (r.fanWin > 0)
  BY <1>4
<1> QED BY <1>1, <1>3, <1>7, <1>8, <1>9, <1>10, <1>11, OneBookMoves DEF bets, admin

\* cancel and refundExpired are refunds of a live book.
LEMMA CancelInvariant ==
  ASSUME IInv, NEW m \in MatchIds, refundExpired(m) \/ \E c \in Addr : cancel(c, m)
  PROVE  IInv'
BY RefundInvariant DEF refundExpired, cancel

\* The platform takes at most a quarter of a pot, whatever the schedule.
LEMMA FeeBound ==
  ASSUME NEW s \in FeeSchedule, ValidSchedule(s), NEW pot \in Nat
  PROVE  _platformFee(s, pot) \in Nat /\ 4 * _platformFee(s, pot) <= pot
<1> DEFINE flat == IF s.flatFee > pot \div 4 THEN pot \div 4 ELSE s.flatFee
           mid == (pot * s.feeBps) \div BPS_DENOM
           top == (pot * s.premiumFeeBps) \div BPS_DENOM
<1>1. /\ s.flatFee \in Nat /\ s.feeBps \in Nat /\ s.premiumFeeBps \in Nat
      /\ BPS_DENOM \in Nat \ {0}
      /\ 4 * s.feeBps <= BPS_DENOM /\ 4 * s.premiumFeeBps <= BPS_DENOM
  BY ParametersAssumption DEF FeeSchedule, ValidSchedule
<1>2. flat \in Nat /\ 4 * flat <= pot
  BY <1>1
<1>3. mid \in Nat /\ 4 * mid <= pot
  BY <1>1, PartOf
<1>4. top \in Nat /\ 4 * top <= pot
  BY <1>1, PartOf
<1>5. _platformFee(s, pot) \in {flat, mid, top}
  BY DEF _platformFee
<1> HIDE DEF flat, mid, top
<1> QED BY <1>2, <1>3, <1>4, <1>5

\* The creators' shares add up to the creator pool: what is not credited to
\* an account goes to the protocol.
LEMMA CreatorsCredited ==
  ASSUME IInv, NEW b \in Book, NEW fee \in Nat, NEW cp \in Nat, NEW w,
         _accrueCreators(b, fee, cp, w)
  PROVE  /\ owed' \in [Addr -> Nat] /\ totalOwed' \in Nat /\ protocolFees' \in Nat
         /\ CreditsAccounted'
         /\ protocolFees' + totalOwed' = protocolFees + totalOwed + fee + cp
<1> USE AccountsAssumption
<1> DEFINE winner == IF w = 1 THEN b.creatorB ELSE b.creatorA
           loser  == IF w = 1 THEN b.creatorA ELSE b.creatorB
           winShare == IF w = DRAW_SIDE THEN cp \div 2 ELSE (cp * WINNER_CREATOR_PCT) \div 100
           rest == cp - winShare
           toWinner == [a \in Addr |-> IF a = winner THEN winShare ELSE 0]
           toLoser == [a \in Addr |-> IF a = loser THEN rest ELSE 0]
           due == [a \in Addr |-> toWinner[a] + toLoser[a]]
           kept == (IF Zero = winner THEN winShare ELSE 0) + (IF Zero = loser THEN rest ELSE 0)
           sum(f) == SumFunctionOnSet(f, Addr)
<1>1. winShare \in Nat /\ winShare <= cp
  <2>1. cp \div 2 \in Nat /\ cp \div 2 <= cp
    OBVIOUS
  <2>2. (cp * WINNER_CREATOR_PCT) \div 100 \in Nat /\ (cp * WINNER_CREATOR_PCT) \div 100 <= cp
    <3> DEFINE part == (cp * WINNER_CREATOR_PCT) \div 100
    <3>1. WINNER_CREATOR_PCT \in Nat /\ 1 * WINNER_CREATOR_PCT <= 100
      BY ParametersAssumption
    <3>2. part \in Nat /\ 1 * part <= cp
      BY <3>1, PartOf
    <3> HIDE DEF part
    <3>3. part <= cp
      BY <3>2
    <3> QED BY <3>2, <3>3 DEF part
  <2> QED BY <2>1, <2>2
<1>2. winner \in Addr \cup {Zero} /\ loser \in Addr \cup {Zero}
  BY DEF Book
<1>3. /\ owed' = [a \in Addr |-> owed[a] + ((IF a = winner THEN winShare ELSE 0)
                                           + (IF a = loser THEN rest ELSE 0))]
      /\ protocolFees' = protocolFees + fee + kept
      /\ totalOwed' = totalOwed + cp - kept
  BY DEF _accrueCreators
<1> HIDE DEF winShare, winner, loser
<1>4. rest \in Nat /\ winShare + rest = cp
  BY <1>1
<1> HIDE DEF rest
<1>5. \A a \in Addr : toWinner[a] \in Nat /\ toLoser[a] \in Nat /\ due[a] = toWinner[a] + toLoser[a]
  BY <1>1, <1>4
<1>6. \A a \in Addr : owed[a] \in Nat /\ due[a] \in Nat /\ owed'[a] = owed[a] + due[a]
  <2> TAKE a \in Addr
  <2>1. owed[a] \in Nat
    BY DEF IInv, TypeOK
  <2>2. owed'[a] = owed[a] + (toWinner[a] + toLoser[a])
    BY <1>3
  <2> HIDE DEF toWinner, toLoser, due
  <2> QED BY <1>5, <2>1, <2>2
<1>7. /\ sum(toWinner) = (IF winner \in Addr THEN winShare ELSE 0)
      /\ sum(toLoser) = (IF loser \in Addr THEN rest ELSE 0)
  BY <1>1, <1>4, SumSingle
<1> HIDE DEF toWinner, toLoser, due
<1>8. sum(due) = sum(toWinner) + sum(toLoser)
  BY <1>5, SumOfSums
<1>9. sum(owed') = sum(owed) + sum(due)
  BY <1>6, SumOfSums
<1>10. SumFunction(owed) = sum(owed) /\ SumFunction(owed') = sum(owed')
  BY <1>3 DEF SumFunction, IInv, TypeOK
<1>11. /\ totalOwed = SumFunction(owed) /\ totalOwed \in Nat /\ protocolFees \in Nat
  BY DEF IInv, TypeOK, ClaimsCovered, MoneyAccounted, CreditsAccounted
<1> HIDE DEF sum
<1>12. kept + sum(due) = cp /\ kept \in Nat /\ sum(due) \in Nat
  BY <1>1, <1>2, <1>4, <1>7, <1>8
<1> HIDE DEF kept
<1>13. totalOwed' = SumFunction(owed')
  <2>1. totalOwed' = totalOwed + sum(due)
    BY <1>3, <1>11, <1>12
  <2>2. sum(owed') = totalOwed + sum(due)
    BY <1>9, <1>10, <1>11
  <2> QED BY <1>10, <2>1, <2>2
<1>14. owed' \in [Addr -> Nat]
  BY <1>3, <1>6
<1>15. /\ totalOwed' \in Nat /\ protocolFees' \in Nat
       /\ protocolFees' + totalOwed' = protocolFees + totalOwed + fee + cp
  BY <1>3, <1>11, <1>12
<1> QED BY <1>13, <1>14, <1>15 DEF CreditsAccounted

\* The fans' part of the winning side is the sum of their tickets on it.
LEMMA FanWinIsSum ==
  ASSUME IInv, NEW m \in MatchIds, NEW w \in {DRAW_SIDE, 0, 1}
  PROVE  LET side == IF w = DRAW_SIDE THEN 2 ELSE w
         IN  /\ FanWin(m, w) \in Nat
             /\ SumFunctionOnSet([u \in Addr |-> fan[m][u][side]], Addr) = FanWin(m, w)
<1> USE AccountsAssumption
<1> DEFINE side == IF w = DRAW_SIDE THEN 2 ELSE w
           f == [u \in Addr |-> fan[m][u][side]]
           T == {t \in Tickets : SideOf(t) = side}
<1>1. side \in Sides
  BY DEF Sides
<1>2. /\ fan[m] \in [Addr -> [Sides -> Nat]] /\ seeds[m] \in [Tickets -> Nat]
      /\ TicketsMatch(books[m].total, fan[m], seeds[m])
  BY BookFacts
<1>3. books[m].total[side] = SumFunction(f) + SumFunctionOnSet(seeds[m], T)
  BY <1>1, <1>2 DEF TicketsMatch
<1>4. SumFunction(f) = SumFunctionOnSet(f, Addr) /\ \A u \in Addr : f[u] \in Nat
  BY <1>1, <1>2 DEF SumFunction
<1>5. T \in SUBSET Tickets
  OBVIOUS
<1>6. /\ ("A" \in T) = (side = 0) /\ ("B" \in T) = (side = 1)
      /\ ("drawA" \in T) = (side = 2) /\ ("drawB" \in T) = (side = 2)
  BY DEF Tickets, SideOf, DRAW_SIDE
<1> HIDE DEF f, T
<1>7. SumFunctionOnSet(f, Addr) \in Nat
  BY <1>4, SumNat
<1>8. SumFunctionOnSet(seeds[m], T) = (IF side = 0 THEN seeds[m]["A"] ELSE 0)
        + (IF side = 1 THEN seeds[m]["B"] ELSE 0)
        + (IF side = 2 THEN seeds[m]["drawA"] ELSE 0) + (IF side = 2 THEN seeds[m]["drawB"] ELSE 0)
  BY <1>2, <1>5, <1>6, SumOverTickets
<1>9. /\ seeds[m]["A"] \in Nat /\ seeds[m]["B"] \in Nat
      /\ seeds[m]["drawA"] \in Nat /\ seeds[m]["drawB"] \in Nat
  BY <1>2 DEF Tickets
<1>10. FanWin(m, w) = SumFunctionOnSet(f, Addr)
  <2>1. CASE w = 0
    BY <1>3, <1>4, <1>7, <1>8, <1>9, <2>1 DEF FanWin, DRAW_SIDE
  <2>2. CASE w = 1
    BY <1>3, <1>4, <1>7, <1>8, <1>9, <2>2 DEF FanWin, DRAW_SIDE
  <2>3. CASE w = DRAW_SIDE
    BY <1>3, <1>4, <1>7, <1>8, <1>9, <2>3 DEF FanWin, DRAW_SIDE
  <2> QED BY <2>1, <2>2, <2>3
<1> QED BY <1>7, <1>10 DEF f

\* A resolved book pays the platform, the creators and the winners exactly its
\* pot, and the winners' shares are covered.
LEMMA ResolveInvariant ==
  ASSUME IInv, NEW c \in Addr, NEW m \in MatchIds, NEW w \in {DRAW_SIDE, -1, 0, 1}, resolve(c, m, w)
  PROVE  IInv'
<1> USE AccountsAssumption
<1>1. /\ Live(books[m]) /\ _resolve(m, w)
      /\ UNCHANGED <<bets, claimed, admin, wallet, world>>
  BY DEF resolve
<1>2. CASE w = -1 \/ _pot(books[m]) = 0 \/ FanWin(m, w) = 0
  BY <1>1, <1>2, RefundInvariant DEF _resolve
<1>3. CASE ~ (w = -1 \/ _pot(books[m]) = 0 \/ FanWin(m, w) = 0)
  <2> DEFINE b == books[m]
             pot == _pot(b)
             cp == (pot * CREATOR_BPS) \div BPS_DENOM
             fee == _platformFee(schedules[b.feeScheduleId], pot)
             platformFee == IF fee + cp > pot THEN pot - cp ELSE fee
             paid == pot - platformFee - cp
             fw == FanWin(m, w)
             r == [b EXCEPT !.winnerSide = w, !.distributable = paid, !.fanWin = fw,
                            !.status = "Resolved", !.settledAt = now, !.remaining = paid]
             side == IF w = DRAW_SIDE THEN 2 ELSE w
  <2>1. w \in {DRAW_SIDE, 0, 1} /\ w # -1 /\ side \in Sides
    BY <1>3 DEF Sides
  <2>2. /\ books' = [books EXCEPT ![m] = r]
        /\ _accrueCreators(b, platformFee, cp, w)
    BY <1>1, <1>3 DEF _resolve, FeeOf
  <2>3. /\ b \in Book /\ pot \in Nat /\ now \in Nat
        /\ schedules[b.feeScheduleId] \in FeeSchedule /\ ValidSchedule(schedules[b.feeScheduleId])
    <3>1. b.feeScheduleId \in DOMAIN schedules
      BY <1>1 DEF IInv, TypeOK, Live
    <3>2. now \in Nat /\ schedules \in Seq(FeeSchedule) /\ \A i \in DOMAIN schedules : ValidSchedule(schedules[i])
      BY DEF IInv, TypeOK
    <3>3. schedules[b.feeScheduleId] \in FeeSchedule
      BY <3>1, <3>2
    <3>4. b \in Book /\ pot \in Nat
      BY BookFacts
    <3> QED BY <3>1, <3>2, <3>3, <3>4
  <2>4. fee \in Nat /\ 4 * fee <= pot
    BY <2>3, FeeBound
  <2>5. cp \in Nat /\ 50 * cp <= pot
    BY <2>3, PartOf, ParametersAssumption
  <2>6. /\ fw \in Nat \ {0}
        /\ SumFunctionOnSet([u \in Addr |-> fan[m][u][side]], Addr) = fw
    BY <1>3, <2>1, FanWinIsSum
  <2> HIDE DEF b, pot, cp, fee, fw
  <2>7. /\ platformFee = fee /\ paid \in Nat /\ platformFee + cp + paid = pot
        /\ 100 * paid >= 73 * pot
    BY <2>3, <2>4, <2>5
  <2> HIDE DEF platformFee, paid
  <2>8. r \in Book
    <3>1. b \in Book /\ w \in {DRAW_SIDE, -1, 0, 1} /\ paid \in Nat /\ fw \in Nat /\ now \in Nat
      BY <2>1, <2>3, <2>6, <2>7
    <3>2. "Resolved" \in BookStatus
      BY DEF BookStatus
    <3> QED BY <3>1, <3>2, SMTT(30), ZenonT(60) DEF Book
  <2>9. /\ r.status = "Resolved" /\ r.feeScheduleId = b.feeScheduleId /\ r.total = b.total
        /\ r.fanWin = fw /\ r.remaining = paid /\ r.distributable = paid /\ r.winnerSide = w
    BY <2>3 DEF Book
  <2>10. _pot(r) = pot /\ BookDebt(r) = paid /\ BookDebt(b) = pot /\ b.status # "None"
    BY <1>1, <2>9 DEF b, pot, BookDebt, Live, _pot
  <2>11. books'[m] = r
    BY <2>2 DEF IInv, TypeOK
  <2>12. ClaimsOf(m)' <= r.remaining
    <3> DEFINE weight == [u \in Addr |-> fan[m][u][side]]
               share == [u \in Addr |-> (weight[u] * paid) \div fw]
               claim1 == [u \in Addr |-> claimable(m, u)']
    <3>1. weight \in [Addr -> Nat]
      BY <2>1, BookFacts
    <3>2. \A u \in Addr : share[u] = (weight[u] * paid) \div fw
      OBVIOUS
    <3>3. \A u \in Addr : claim1[u] = 0 \/ claim1[u] = share[u]
      BY <1>1, <2>1, <2>6, <2>9, <2>11 DEF claimable, bets, Settled
    <3>4. SumFunctionOnSet(weight, Addr) = fw
      BY <2>6
    <3> HIDE DEF weight, share, claim1, r
    <3>5. SumFunctionOnSet(share, Addr) <= paid /\ \A u \in Addr : share[u] \in Nat
      BY <2>6, <2>7, <3>1, <3>2, <3>4, SharesCovered
    <3>6. \A u \in Addr : claim1[u] \in Nat /\ share[u] \in Nat /\ claim1[u] <= share[u]
      BY <3>3, <3>5
    <3>7. SumFunctionOnSet(claim1, Addr) <= SumFunctionOnSet(share, Addr)
      BY <3>6, SumMonotone
    <3>8. SumFunctionOnSet(claim1, Addr) \in Nat /\ SumFunctionOnSet(share, Addr) \in Nat
      BY <3>6, SumNat
    <3>9. ClaimsOf(m)' = SumFunctionOnSet(claim1, Addr)
      BY DEF ClaimsOf, SumFunction, claim1
    <3> QED BY <2>7, <2>9, <3>5, <3>7, <3>8, <3>9
  <2> HIDE DEF r
  <2>13. /\ owed' \in [Addr -> Nat] /\ totalOwed' \in Nat /\ protocolFees' \in Nat
         /\ CreditsAccounted'
         /\ protocolFees' + totalOwed' = protocolFees + totalOwed + platformFee + cp
    BY <2>2, <2>3, <2>4, <2>5, <2>7, CreatorsCredited
  <2>14. TypeOK'
    BY <1>1, <2>2, <2>8, <2>9, <2>10, <2>13 DEF IInv, TypeOK, bets, admin, world, b
  <2>15. TicketsMatch(r.total, fan'[m], seeds'[m])
    BY <1>1, <2>9, BookFacts DEF bets, b
  <2>16. wallet'[Pool] + BookDebt(b) + protocolFees + totalOwed
           = wallet[Pool] + BookDebt(r) + protocolFees' + totalOwed'
    <3>1. /\ wallet[Pool] \in Nat /\ protocolFees \in Nat /\ totalOwed \in Nat
          /\ wallet'[Pool] = wallet[Pool]
      BY <1>1 DEF IInv, TypeOK
    <3>2. protocolFees' \in Nat /\ totalOwed' \in Nat
      BY <2>13
    <3>3. fee + cp + paid = pot /\ protocolFees' + totalOwed' = protocolFees + totalOwed + fee + cp
      BY <2>7, <2>13
    <3>4. /\ pot \in Nat /\ fee \in Nat /\ cp \in Nat /\ paid \in Nat
      BY <2>3, <2>4, <2>5, <2>7
    <3>5. wallet'[Pool] + pot + protocolFees + totalOwed
            = wallet[Pool] + paid + protocolFees' + totalOwed'
      <4> DEFINE held == wallet[Pool]
                 fees == protocolFees
                 credits == totalOwed
                 newFees == protocolFees'
                 newCredits == totalOwed'
      <4>1. /\ held \in Nat /\ fees \in Nat /\ credits \in Nat
            /\ newFees \in Nat /\ newCredits \in Nat
            /\ fee + cp + paid = pot /\ newFees + newCredits = fees + credits + fee + cp
        BY <3>1, <3>2, <3>3
      <4>2. held + pot + fees + credits = held + paid + newFees + newCredits
        <5> HIDE DEF held, fees, credits, newFees, newCredits
        <5> QED BY ONLY <3>4, <4>1
      <4> QED BY <3>1, <4>2
    <3> QED BY <2>10, <3>1, <3>5
  <2>17. 100 * r.distributable >= 73 * _pot(r)
    BY <2>7, <2>9, <2>10
  <2>18. r.status # "None" /\ UNCHANGED schedules
    BY <1>1, <2>9 DEF admin
  <2>19. \A k \in MatchIds : fan'[k] = fan[k] /\ seeds'[k] = seeds[k] /\ claimed'[k] = claimed[k]
    BY <1>1 DEF bets
  <2> QED BY <2>2, <2>8, <2>12, <2>13, <2>14, <2>15, <2>16, <2>17, <2>18, <2>19, OneBookMoves DEF b
<1> QED BY <1>2, <1>3

\* A seed of an open book adds as much to its pot as to the balance.
LEMMA SeedInvariant ==
  ASSUME IInv, NEW c \in Addr, NEW m \in MatchIds, NEW t \in Tickets, NEW x \in Amounts,
         seed(c, m, t, x)
  PROVE  IInv'
<1> DEFINE b == books[m]
           r == [b EXCEPT !.total[SideOf(t)] = @ + x]
<1>1. /\ b.status = "Open" /\ seeds[m][t] = 0 /\ Transfer(c, Pool, x)
      /\ seeds' = [seeds EXCEPT ![m][t] = x]
      /\ books' = [books EXCEPT ![m] = r]
      /\ UNCHANGED <<fan, claimed, protocolFees, owed, totalOwed, admin, world>>
  BY DEF seed, Betting
<1>2. x \in Nat /\ SideOf(t) \in Sides
  BY InputsAssumption DEF SideOf, Sides
<1>3. /\ b \in Book /\ b.total \in [Sides -> Nat] /\ fan[m] \in [Addr -> [Sides -> Nat]]
      /\ seeds[m] \in [Tickets -> Nat] /\ TicketsMatch(b.total, fan[m], seeds[m])
      /\ CreditsAccounted
  BY BookFacts
<1>4. /\ r \in Book /\ r.status = "Open" /\ r.feeScheduleId = b.feeScheduleId
      /\ r.total = [b.total EXCEPT ![SideOf(t)] = @ + x]
  <2>1. b \in Book /\ b.status = "Open" /\ [b.total EXCEPT ![SideOf(t)] = @ + x] \in [Sides -> Nat]
    BY <1>1, <1>2, <1>3
  <2> HIDE DEF b
  <2> QED BY <2>1, SMTT(30) DEF Book
<1>5. _pot(r) = _pot(b) + x
  <2>1. b.total[0] \in Nat /\ b.total[1] \in Nat /\ b.total[2] \in Nat
    BY <1>3 DEF Sides
  <2>2. SideOf(t) \in {0, 1, 2}
    BY <1>2 DEF Sides
  <2> HIDE DEF b, r
  <2> QED BY <1>2, <1>3, <1>4, <2>1, <2>2 DEF _pot, Sides
<1>6. BookDebt(r) = BookDebt(b) + x /\ BookDebt(b) = _pot(b) /\ ~ Settled(r)
  BY <1>1, <1>4, <1>5 DEF BookDebt, Live, Settled
<1>7. wallet' \in [Addr \cup {Pool} -> Nat] /\ wallet'[Pool] = wallet[Pool] + x
  BY <1>1, <1>2, PaidIn DEF IInv
<1> HIDE DEF r
<1>8. TypeOK'
  BY <1>1, <1>2, <1>4, <1>7 DEF IInv, TypeOK, admin, world, b
<1>9. TicketsMatch(r.total, fan'[m], seeds'[m])
  <2>1. seeds'[m] = [seeds[m] EXCEPT ![t] = x] /\ fan'[m] = fan[m]
    BY <1>1 DEF IInv, TypeOK
  <2> HIDE DEF b
  <2>2. TicketsMatch([b.total EXCEPT ![SideOf(t)] = @ + x], fan[m], [seeds[m] EXCEPT ![t] = x])
    BY <1>1, <1>2, <1>3, TicketSeeded
  <2> QED BY <1>4, <2>1, <2>2
<1>10. CreditsAccounted'
  BY <1>1, <1>3 DEF CreditsAccounted
<1>11. wallet'[Pool] + BookDebt(b) + protocolFees + totalOwed
         = wallet[Pool] + BookDebt(r) + protocolFees' + totalOwed'
  <2>1. wallet[Pool] \in Nat /\ protocolFees \in Nat /\ totalOwed \in Nat /\ _pot(b) \in Nat
    BY BookFacts DEF IInv, TypeOK
  <2> HIDE DEF b
  <2> QED BY <1>1, <1>2, <1>6, <1>7, <2>1
<1>12. \A k \in MatchIds : k # m => fan'[k] = fan[k] /\ seeds'[k] = seeds[k] /\ claimed'[k] = claimed[k]
  BY <1>1 DEF IInv, TypeOK
<1>13. r.status # "None" /\ r.status # "Resolved" /\ UNCHANGED schedules
  BY <1>1, <1>4 DEF admin
<1> QED BY <1>1, <1>4, <1>6, <1>8, <1>9, <1>10, <1>11, <1>12, <1>13, OneBookMoves

\* A bet adds as much to the pot of its book as to the balance, whoever pays.
LEMMA DepositInvariant ==
  ASSUME IInv, NEW c \in Addr, NEW u \in Addr, NEW m \in MatchIds, NEW x \in Amounts,
         NEW s \in Sides, _creditDeposit(m, u, x, s), Transfer(c, Pool, x),
         UNCHANGED <<seeds, claimed, protocolFees, owed, totalOwed, admin, world>>
  PROVE  IInv'
<1> DEFINE b == books[m]
           r == [b EXCEPT !.total[s] = @ + x]
<1>1. /\ b.status = "Open"
      /\ fan' = [fan EXCEPT ![m][u][s] = @ + x]
      /\ books' = [books EXCEPT ![m] = r]
  BY DEF _creditDeposit, Betting
<1>2. x \in Nat
  BY InputsAssumption
<1>3. /\ b \in Book /\ b.total \in [Sides -> Nat] /\ fan[m] \in [Addr -> [Sides -> Nat]]
      /\ seeds[m] \in [Tickets -> Nat] /\ TicketsMatch(b.total, fan[m], seeds[m])
      /\ CreditsAccounted
  BY BookFacts
<1>4. /\ r \in Book /\ r.status = "Open" /\ r.feeScheduleId = b.feeScheduleId
      /\ r.total = [b.total EXCEPT ![s] = @ + x]
  <2>1. b \in Book /\ b.status = "Open" /\ [b.total EXCEPT ![s] = @ + x] \in [Sides -> Nat]
    BY <1>1, <1>2, <1>3
  <2> HIDE DEF b
  <2> QED BY <2>1, SMTT(30) DEF Book
<1>5. _pot(r) = _pot(b) + x
  <2>1. b.total[0] \in Nat /\ b.total[1] \in Nat /\ b.total[2] \in Nat
    BY <1>3 DEF Sides
  <2>2. s \in {0, 1, 2}
    BY DEF Sides
  <2> HIDE DEF b, r
  <2> QED BY <1>2, <1>3, <1>4, <2>1, <2>2 DEF _pot, Sides
<1>6. BookDebt(r) = BookDebt(b) + x /\ BookDebt(b) = _pot(b) /\ ~ Settled(r)
  BY <1>1, <1>4, <1>5 DEF BookDebt, Live, Settled
<1>7. wallet' \in [Addr \cup {Pool} -> Nat] /\ wallet'[Pool] = wallet[Pool] + x
  BY <1>2, PaidIn DEF IInv
<1> HIDE DEF r
<1>8. fan'[m] = [fan[m] EXCEPT ![u][s] = @ + x] /\ \A k \in MatchIds : k # m => fan'[k] = fan[k]
  BY <1>1 DEF IInv, TypeOK
<1>9. TypeOK'
  <2>1. fan' \in [MatchIds -> [Addr -> [Sides -> Nat]]]
    BY <1>1, <1>2 DEF IInv, TypeOK
  <2> QED BY <1>1, <1>4, <1>7, <2>1 DEF IInv, TypeOK, admin, world, b
<1>10. TicketsMatch(r.total, fan'[m], seeds'[m])
  <2> HIDE DEF b
  <2>1. TicketsMatch([b.total EXCEPT ![s] = @ + x], [fan[m] EXCEPT ![u][s] = @ + x], seeds[m])
    BY <1>2, <1>3, TicketBet
  <2> QED BY <1>4, <1>8, <2>1
<1>11. CreditsAccounted'
  BY <1>3 DEF CreditsAccounted
<1>12. wallet'[Pool] + BookDebt(b) + protocolFees + totalOwed
         = wallet[Pool] + BookDebt(r) + protocolFees' + totalOwed'
  <2>1. wallet[Pool] \in Nat /\ protocolFees \in Nat /\ totalOwed \in Nat /\ _pot(b) \in Nat
    BY BookFacts DEF IInv, TypeOK
  <2> HIDE DEF b
  <2> QED BY <1>2, <1>6, <1>7, <2>1
<1>13. r.status # "None" /\ r.status # "Resolved" /\ UNCHANGED schedules
  BY <1>4 DEF admin
<1> QED BY <1>1, <1>4, <1>6, <1>8, <1>9, <1>10, <1>11, <1>12, <1>13, OneBookMoves

\* A claim leaves the book with what the other claims need.
LEMMA ClaimInvariant ==
  ASSUME IInv, NEW c \in Addr, NEW m \in MatchIds, claim(c, m)
  PROVE  IInv'
<1> USE AccountsAssumption
<1> DEFINE b == books[m]
           x == claimable(m, c)
           r == [b EXCEPT !.remaining = @ - x]
           f == [u \in Addr |-> claimable(m, u)]
           g == [u \in Addr |-> claimable(m, u)']
<1>1. /\ x # 0 /\ x <= b.remaining /\ Transfer(Pool, c, x)
      /\ claimed' = [claimed EXCEPT ![m] = @ \cup {c}]
      /\ books' = [books EXCEPT ![m] = r]
      /\ UNCHANGED <<bets, protocolFees, owed, totalOwed, admin, world>>
  BY DEF claim
<1>2. /\ b \in Book /\ b.remaining \in Nat /\ CreditsAccounted
      /\ TicketsMatch(b.total, fan[m], seeds[m])
  BY BookFacts
<1>3. Settled(b)
  BY <1>1 DEF claimable
<1>4. \A u \in Addr : claimable(m, u) \in Nat
  BY ClaimType DEF IInv
<1>5. x \in Nat /\ b.remaining - x \in Nat
  BY <1>1, <1>2, <1>4
<1> HIDE DEF x
<1>6. /\ r \in Book /\ r.status = b.status /\ r.feeScheduleId = b.feeScheduleId
      /\ r.total = b.total /\ r.remaining = b.remaining - x /\ r.fanWin = b.fanWin
      /\ r.distributable = b.distributable /\ r.winnerSide = b.winnerSide /\ r.swept = b.swept
      /\ r.agentWalletA = b.agentWalletA /\ r.agentWalletB = b.agentWalletB
  <2> HIDE DEF b
  <2> QED BY <1>2, <1>5 DEF Book
<1>7. /\ b.status \in {"Resolved", "Cancelled"}
      /\ BookDebt(b) = b.remaining /\ BookDebt(r) = b.remaining - x
  BY <1>3, <1>6 DEF Settled, BookDebt, Live
<1>8. books'[m] = r /\ claimed'[m] = claimed[m] \cup {c}
  BY <1>1 DEF IInv, TypeOK
<1>9. ClaimsOf(m)' <= r.remaining
  <2>1. ASSUME NEW u \in Addr PROVE claimable(m, u)' = IF u = c THEN 0 ELSE claimable(m, u)
    <3>1. seedOf(m, u)' = seedOf(m, u)
      <4>1. {t \in Tickets : PayerOf(r, t) = u} = {t \in Tickets : PayerOf(b, t) = u}
        BY <1>6 DEF PayerOf
      <4> QED BY <1>1, <1>8, <4>1 DEF seedOf, bets
    <3> HIDE DEF r
    <3>2. CASE u = c
      BY <1>8, <3>2 DEF claimable
    <3>3. CASE u # c
      <4>1. (u \in claimed'[m] <=> u \in claimed[m]) /\ fan' = fan
        BY <1>1, <1>8, <3>3 DEF bets
      <4> QED BY <1>6, <1>8, <3>1, <3>3, <4>1 DEF claimable, Settled
    <3> QED BY <3>2, <3>3
  <2>2. \A u \in Addr : f[u] \in Nat /\ g[u] \in Nat /\ (u # c => g[u] = f[u])
    BY <1>4, <2>1
  <2>3. g[c] = 0 /\ f[c] = x
    BY <2>1 DEF x
  <2>4. /\ ClaimsOf(m) = SumFunctionOnSet(f, Addr) /\ ClaimsOf(m)' = SumFunctionOnSet(g, Addr)
    BY DEF ClaimsOf, SumFunction
  <2>5. ClaimsOf(m) <= b.remaining
    BY <1>3 DEF IInv, ClaimsCovered, EveryClaimCovered, ClaimsOf
  <2> HIDE DEF f, g
  <2>6. /\ SumFunctionOnSet(g, Addr) = SumFunctionOnSet(f, Addr) - f[c] + g[c]
        /\ SumFunctionOnSet(f, Addr) \in Nat
    BY <2>2, SumChange
  <2> QED BY <1>2, <1>5, <1>6, <2>3, <2>4, <2>5, <2>6
<1>10. /\ wallet' \in [Addr \cup {Pool} -> Nat]
       /\ x <= wallet[Pool] /\ wallet'[Pool] = wallet[Pool] - x
  BY <1>1, <1>5, PaidOut DEF IInv
<1> HIDE DEF r
<1>11. TypeOK'
  <2>1. claimed' \in [MatchIds -> SUBSET Addr]
    BY <1>1 DEF IInv, TypeOK
  <2> QED BY <1>1, <1>6, <1>10, <2>1 DEF IInv, TypeOK, bets, admin, world, b
<1>12. CreditsAccounted' /\ TicketsMatch(r.total, fan'[m], seeds'[m])
  BY <1>1, <1>2, <1>6 DEF CreditsAccounted, bets
<1>13. r.status = "Resolved" /\ r.fanWin > 0 => 100 * r.distributable >= 73 * _pot(r)
  BY <1>6 DEF IInv, ClaimsCovered, TakeBounded, _pot
<1>14. wallet'[Pool] + BookDebt(b) + protocolFees + totalOwed
         = wallet[Pool] + BookDebt(r) + protocolFees' + totalOwed'
  <2>1. wallet[Pool] \in Nat /\ protocolFees \in Nat /\ totalOwed \in Nat
    BY DEF IInv, TypeOK
  <2> HIDE DEF b
  <2> QED BY <1>1, <1>2, <1>5, <1>7, <1>10, <2>1
<1>15. /\ \A k \in MatchIds : k # m => fan'[k] = fan[k] /\ seeds'[k] = seeds[k] /\ claimed'[k] = claimed[k]
       /\ UNCHANGED schedules /\ r.status # "None"
  BY <1>1, <1>6, <1>7 DEF IInv, TypeOK, bets, admin
<1> QED BY <1>1, <1>6, <1>9, <1>11, <1>12, <1>13, <1>14, <1>15, OneBookMoves

\* What nobody claimed moves from the book to the protocol's fees.
LEMMA SweepInvariant ==
  ASSUME IInv, NEW m \in MatchIds, sweep(m)
  PROVE  IInv'
<1> USE AccountsAssumption
<1> DEFINE b == books[m]
           r == [b EXCEPT !.remaining = 0, !.swept = TRUE]
<1>1. /\ Settled(b) /\ protocolFees' = protocolFees + b.remaining
      /\ UNCHANGED <<bets, claimed, owed, totalOwed, admin, wallet, world>>
  BY DEF sweep
<1>2. books' = [books EXCEPT ![m] = r]
  BY DEF sweep, IInv, TypeOK
<1>3. /\ b \in Book /\ b.remaining \in Nat /\ CreditsAccounted
      /\ TicketsMatch(b.total, fan[m], seeds[m])
  BY BookFacts
<1>4. /\ r \in Book /\ r.status = b.status /\ r.feeScheduleId = b.feeScheduleId
      /\ r.total = b.total /\ r.remaining = 0 /\ r.fanWin = b.fanWin
      /\ r.distributable = b.distributable /\ r.swept = TRUE
  <2> HIDE DEF b
  <2> QED BY <1>3 DEF Book
<1>5. /\ b.status \in {"Resolved", "Cancelled"}
      /\ BookDebt(b) = b.remaining /\ BookDebt(r) = 0
  BY <1>1, <1>4 DEF Settled, BookDebt, Live
<1>6. books'[m] = r
  BY <1>2 DEF IInv, TypeOK
<1> HIDE DEF r
<1>7. ClaimsOf(m)' <= r.remaining
  <2> DEFINE g == [u \in Addr |-> claimable(m, u)']
  <2>1. \A u \in Addr : g[u] = 0
    BY <1>4, <1>6 DEF claimable
  <2>2. ClaimsOf(m)' = SumFunctionOnSet(g, Addr)
    BY DEF ClaimsOf, SumFunction
  <2> HIDE DEF g
  <2>3. SumFunctionOnSet(g, Addr) = 0
    BY <2>1, SumZero
  <2> QED BY <1>4, <2>2, <2>3
<1>8. TypeOK'
  <2>1. protocolFees' \in Nat
    BY <1>1, <1>3 DEF IInv, TypeOK
  <2>2. r.status # "None" /\ b.status # "None"
    BY <1>4, <1>5
  <2>3. books' \in [MatchIds -> Book]
    BY <1>2, <1>4 DEF IInv, TypeOK
  <2>4. TypeOK
    BY DEF IInv
  <2>5. \A k \in MatchIds : books'[k].status # "None" => books'[k].feeScheduleId \in DOMAIN schedules
    BY <1>2, <1>4, <2>2, <2>4 DEF TypeOK, b
  <2> QED BY <1>1, <2>1, <2>3, <2>4, <2>5 DEF TypeOK, bets, admin, world
<1>9. CreditsAccounted' /\ TicketsMatch(r.total, fan'[m], seeds'[m])
  BY <1>1, <1>3, <1>4 DEF CreditsAccounted, bets
<1>10. r.status = "Resolved" /\ r.fanWin > 0 => 100 * r.distributable >= 73 * _pot(r)
  BY <1>4 DEF IInv, ClaimsCovered, TakeBounded, _pot
<1>11. wallet'[Pool] + BookDebt(b) + protocolFees + totalOwed
         = wallet[Pool] + BookDebt(r) + protocolFees' + totalOwed'
  <2>1. wallet[Pool] \in Nat /\ protocolFees \in Nat /\ totalOwed \in Nat
    BY DEF IInv, TypeOK
  <2> HIDE DEF b
  <2> QED BY <1>1, <1>3, <1>5, <2>1
<1>12. UNCHANGED schedules /\ r.status # "None"
  BY <1>1, <1>4, <1>5 DEF admin
<1> QED BY <1>1, <1>2, <1>4, <1>7, <1>8, <1>9, <1>10, <1>11, <1>12, OneBookMoves DEF bets

-----------------------------------------------------------------------------
(* Creditors, the owner and the surroundings *)

\* Solvency follows a step that leaves the books alone and moves as much money
\* as the credits it settles.
LEMMA CreditsMove ==
  ASSUME IInv, TypeOK', CreditsAccounted', UNCHANGED <<books, bets, claimed, schedules>>,
         NEW x \in Nat, wallet'[Pool] = wallet[Pool] - x,
         \/ protocolFees' = protocolFees - x /\ totalOwed' = totalOwed
         \/ totalOwed' = totalOwed - x /\ protocolFees' = protocolFees
  PROVE  IInv'
<1> DEFINE debt == SumFunction([k \in MatchIds |-> BookDebt(books[k])])
           next == SumFunction([k \in MatchIds |-> BookDebt(books'[k])])
<1>1. /\ Unopened' /\ TicketsAccounted' /\ EveryClaimCovered' /\ TakeBounded' /\ next = debt
  BY BooksStay
<1>2. debt \in Nat
  <2> DEFINE f == [k \in MatchIds |-> BookDebt(books[k])]
  <2>1. ASSUME NEW b \in Book PROVE BookDebt(b) \in Nat
    BY DEF BookDebt, Live, _pot, Book, Sides
  <2>2. \A k \in MatchIds : f[k] \in Nat
    BY <2>1 DEF IInv, TypeOK
  <2>3. debt = SumFunctionOnSet(f, MatchIds)
    BY DEF SumFunction
  <2> HIDE DEF f
  <2> QED BY <2>2, <2>3, SumNat, AccountsAssumption
<1>3. /\ wallet[Pool] = debt + protocolFees + totalOwed
      /\ wallet[Pool] \in Nat /\ protocolFees \in Nat /\ totalOwed \in Nat
  BY DEF IInv, Solvent, TypeOK
<1>4. wallet'[Pool] = debt + protocolFees' + totalOwed'
  <2> HIDE DEF debt
  <2> QED BY <1>2, <1>3
<1>5. Solvent'
  BY <1>1, <1>4 DEF Solvent
<1> QED BY <1>1, <1>5 DEF IInv, Scheduled, ClaimsCovered, MoneyAccounted

\* A creator takes its credit, and the total of the credits falls by as much.
LEMMA WithdrawInvariant ==
  ASSUME IInv, NEW c \in Addr, withdraw(c)
  PROVE  IInv'
<1> USE AccountsAssumption
<1>1. /\ totalOwed >= owed[c] /\ owed' = [owed EXCEPT ![c] = 0]
      /\ totalOwed' = totalOwed - owed[c] /\ Transfer(Pool, c, owed[c])
      /\ UNCHANGED <<books, bets, claimed, protocolFees, admin, world>>
  BY DEF withdraw
<1>2. owed \in [Addr -> Nat] /\ owed[c] \in Nat /\ totalOwed \in Nat
  BY DEF IInv, TypeOK
<1>3. wallet' \in [Addr \cup {Pool} -> Nat] /\ wallet'[Pool] = wallet[Pool] - owed[c]
  BY <1>1, <1>2, PaidOut DEF IInv
<1>4. owed' \in [Addr -> Nat] /\ totalOwed' \in Nat
  BY <1>1, <1>2
<1>5. TypeOK'
  BY <1>1, <1>3, <1>4 DEF IInv, TypeOK, bets, admin, world
<1>6. CreditsAccounted'
  <2>1. owed'[c] = 0 /\ \A a \in Addr : owed[a] \in Nat /\ owed'[a] \in Nat
                                         /\ (a # c => owed'[a] = owed[a])
    BY <1>1, <1>2
  <2>2. /\ SumFunctionOnSet(owed, Addr) \in Nat
        /\ SumFunctionOnSet(owed', Addr) = SumFunctionOnSet(owed, Addr) - owed[c] + 0
    BY <2>1, SumChange
  <2>3. totalOwed = SumFunctionOnSet(owed, Addr)
    BY <1>2 DEF IInv, ClaimsCovered, MoneyAccounted, CreditsAccounted, SumFunction
  <2>4. SumFunctionOnSet(owed', Addr) = totalOwed'
    BY <1>1, <1>2, <2>2, <2>3
  <2> QED BY <1>4, <2>4 DEF CreditsAccounted, SumFunction
<1> QED BY <1>1, <1>2, <1>3, <1>5, <1>6, CreditsMove DEF admin

\* The treasury takes the fees, and nothing else.
LEMMA WithdrawFeesInvariant ==
  ASSUME IInv, withdrawFees
  PROVE  IInv'
<1> USE AccountsAssumption
<1>1. /\ protocolFees' = 0 /\ Transfer(Pool, feeRecipient, protocolFees)
      /\ UNCHANGED <<books, bets, claimed, owed, totalOwed, admin, world>>
  BY DEF withdrawFees
<1>2. protocolFees \in Nat /\ feeRecipient \in Addr
  BY DEF IInv, TypeOK
<1>3. wallet' \in [Addr \cup {Pool} -> Nat] /\ wallet'[Pool] = wallet[Pool] - protocolFees
  BY <1>1, <1>2, PaidOut DEF IInv
<1>4. TypeOK'
  BY <1>1, <1>3 DEF IInv, TypeOK, bets, admin, world
<1>5. CreditsAccounted'
  BY <1>1 DEF IInv, ClaimsCovered, MoneyAccounted, CreditsAccounted
<1>6. protocolFees' = protocolFees - protocolFees
  BY <1>1, <1>2
<1> QED BY <1>1, <1>2, <1>3, <1>4, <1>5, <1>6, CreditsMove DEF admin

\* What the owner sets decides nothing about the books already open: a new fee
\* schedule is appended, and the earlier ones keep their place.
LEMMA OwnerInvariant ==
  ASSUME IInv,
         \/ \E k \in Resolvers : setResolver(k)
         \/ \E t \in Treasuries : setFeeRecipient(t)
         \/ \E s \in ScheduleInputs : setSpectatorFeeTiers(s)
         \/ pause \/ unpause
  PROVE  IInv'
<1>1. UNCHANGED <<books, bets, claimed, protocolFees, owed, totalOwed, wallet, world>>
  BY DEF setResolver, setFeeRecipient, setSpectatorFeeTiers, pause, unpause, money
<1>2. CASE \E s \in ScheduleInputs : setSpectatorFeeTiers(s)
  <2>1. PICK s \in ScheduleInputs : setSpectatorFeeTiers(s)
    BY <1>2
  <2>2. /\ s \in FeeSchedule /\ ValidSchedule(s) /\ schedules' = Append(schedules, s)
        /\ UNCHANGED <<resolver, feeRecipient, paused>>
    BY <2>1, InputsAssumption DEF setSpectatorFeeTiers
  <2>3. schedules \in Seq(FeeSchedule) /\ \A i \in DOMAIN schedules : ValidSchedule(schedules[i])
    BY DEF IInv, TypeOK
  <2>4. /\ schedules' \in Seq(FeeSchedule) /\ schedules' # << >>
        /\ DOMAIN schedules \subseteq DOMAIN schedules'
        /\ \A i \in DOMAIN schedules' : i \in DOMAIN schedules \/ i = Len(schedules) + 1
        /\ \A i \in DOMAIN schedules : schedules'[i] = schedules[i]
        /\ schedules'[Len(schedules) + 1] = s
    BY <2>2, <2>3
  <2>5. \A i \in DOMAIN schedules' : ValidSchedule(schedules'[i])
    BY <2>2, <2>3, <2>4
  <2>6. \A k \in MatchIds : books'[k].status # "None" => books'[k].feeScheduleId \in DOMAIN schedules'
    BY <1>1, <2>4 DEF IInv, TypeOK
  <2>7. TypeOK'
    BY <1>1, <2>2, <2>4, <2>5, <2>6 DEF IInv, TypeOK, bets, world
  <2> QED BY <1>1, <2>4, <2>7, MoneyStays DEF Scheduled
<1>3. CASE UNCHANGED schedules
  <2>1. resolver' \in Resolvers /\ feeRecipient' \in Treasuries /\ paused' \in BOOLEAN
    BY DEF IInv, TypeOK, setResolver, setFeeRecipient, setSpectatorFeeTiers, pause, unpause
  <2>2. TypeOK'
    BY <1>1, <1>3, <2>1 DEF IInv, TypeOK, bets, world
  <2> QED BY <1>1, <1>3, <2>2, MoneyStays DEF IInv, Scheduled
<1> QED BY <1>2, <1>3 DEF setResolver, setFeeRecipient, setSpectatorFeeTiers, pause, unpause

\* Neither the issuer's blacklist nor the clock moves money.
LEMMA WorldInvariant ==
  ASSUME IInv, (\E a \in Blockable : blacklist(a)) \/ tick
  PROVE  IInv'
<1>1. /\ UNCHANGED <<books, bets, claimed, protocolFees, owed, totalOwed, admin, wallet>>
      /\ blocked' \subseteq Addr /\ now' \in Nat
  <2>1. CASE \E a \in Blockable : blacklist(a)
    BY <2>1, AccountsAssumption DEF IInv, TypeOK, blacklist
  <2>2. CASE tick
    BY <2>2 DEF IInv, TypeOK, tick
  <2> QED BY <2>1, <2>2
<1>2. TypeOK'
  BY <1>1 DEF IInv, TypeOK, bets, admin
<1> QED BY <1>1, <1>2, MoneyStays DEF IInv, Scheduled, admin

-----------------------------------------------------------------------------
(* The theorems *)

\* Every step keeps the invariant.
LEMMA NextInvariant == IInv /\ [Next]_vars => IInv'
<1> SUFFICES ASSUME IInv, [Next]_vars PROVE IInv'
  OBVIOUS
<1>1. CASE BookNext
  BY <1>1, OpenInvariant, CloseInvariant, ResolveInvariant, CancelInvariant DEF BookNext
<1>2. CASE MoneyNext
  <2> USE <1>2 DEF MoneyNext
  <2>1. CASE \E c \in Addr, m \in MatchIds, t \in Tickets, x \in Amounts : seed(c, m, t, x)
    BY <2>1, SeedInvariant
  <2>2. CASE \E c \in Fans, m \in MatchIds, x \in Amounts, s \in Sides : deposit(c, m, x, s)
    BY <2>2, InputsAssumption, DepositInvariant DEF deposit
  <2>3. CASE \E c \in Addr, u \in Fans, m \in MatchIds, x \in Amounts, s \in Sides :
               depositFor(c, m, u, x, s)
    BY <2>3, InputsAssumption, DepositInvariant DEF depositFor
  <2> QED BY <2>1, <2>2, <2>3, ClaimInvariant, WithdrawInvariant, WithdrawFeesInvariant
<1>3. CASE OwnerNext
  BY <1>3, SweepInvariant, OwnerInvariant DEF OwnerNext
<1>4. CASE (\E a \in Blockable : blacklist(a)) \/ tick
  BY <1>4, WorldInvariant
<1>5. CASE UNCHANGED vars
  <2>1. TypeOK' /\ Scheduled'
    BY <1>5 DEF vars, bets, admin, world, IInv, TypeOK, Scheduled
  <2> QED BY <1>5, <2>1, MoneyStays DEF vars
<1> QED BY <1>1, <1>2, <1>3, <1>4, <1>5 DEF Next

\* What BookTermsFixed asks of a step, besides what a settlement charges.
TermsKept ==
  \A m \in MatchIds : books[m].status # "None" =>
    /\ \A f \in {"agentWalletA", "agentWalletB", "creatorA", "creatorB", "potCap", "closeAt"} :
          books'[m][f] = books[m][f]
    /\ schedules'[books'[m].feeScheduleId] = schedules[books[m].feeScheduleId]
    /\ Settled(books[m]) =>
         /\ books'[m].remaining <= books[m].remaining
         /\ [books'[m] EXCEPT !.remaining = 0, !.swept = FALSE]
              = [books[m] EXCEPT !.remaining = 0, !.swept = FALSE]

\* A book that changed in nothing but its progress.
SameTerms(b, r) ==
  /\ r.agentWalletA = b.agentWalletA /\ r.agentWalletB = b.agentWalletB
  /\ r.creatorA = b.creatorA /\ r.creatorB = b.creatorB
  /\ r.potCap = b.potCap /\ r.closeAt = b.closeAt /\ r.feeScheduleId = b.feeScheduleId

\* The terms are kept by a step that leaves the books alone and at most
\* appends to the schedules ...
LEMMA BooksKept ==
  ASSUME TypeOK, UNCHANGED books, \A i \in DOMAIN schedules : schedules'[i] = schedules[i]
  PROVE  TermsKept
<1>1. \A m \in MatchIds : books[m].status # "None" => books[m].feeScheduleId \in DOMAIN schedules
  BY DEF TypeOK
<1>2. \A m \in MatchIds : books[m].remaining \in Nat
  BY DEF TypeOK, Book
<1> QED BY <1>1, <1>2 DEF TermsKept

\* ... and by one that gives one book a new record with the same terms.
LEMMA BookKept ==
  ASSUME TypeOK, UNCHANGED schedules, NEW m \in MatchIds, NEW r,
         books' = [books EXCEPT ![m] = r],
         books[m].status # "None" => SameTerms(books[m], r),
         Settled(books[m]) =>
           /\ r.remaining <= books[m].remaining
           /\ [r EXCEPT !.remaining = 0, !.swept = FALSE]
                = [books[m] EXCEPT !.remaining = 0, !.swept = FALSE]
  PROVE  TermsKept
<1> SUFFICES ASSUME NEW k \in MatchIds, books[k].status # "None"
             PROVE  /\ \A f \in {"agentWalletA", "agentWalletB", "creatorA", "creatorB",
                                 "potCap", "closeAt"} : books'[k][f] = books[k][f]
                    /\ schedules'[books'[k].feeScheduleId] = schedules[books[k].feeScheduleId]
                    /\ Settled(books[k]) =>
                         /\ books'[k].remaining <= books[k].remaining
                         /\ [books'[k] EXCEPT !.remaining = 0, !.swept = FALSE]
                              = [books[k] EXCEPT !.remaining = 0, !.swept = FALSE]
  BY DEF TermsKept
<1>1. CASE k = m
  <2>1. books'[k] = r /\ SameTerms(books[k], r)
    BY <1>1 DEF TypeOK
  <2>2. \A f \in {"agentWalletA", "agentWalletB", "creatorA", "creatorB", "potCap", "closeAt"} :
          books'[k][f] = books[k][f]
    BY <2>1 DEF SameTerms
  <2>3. schedules'[books'[k].feeScheduleId] = schedules[books[k].feeScheduleId]
    BY <2>1 DEF SameTerms
  <2> QED BY <1>1, <2>1, <2>2, <2>3
<1>2. CASE k # m
  <2>1. books'[k] = books[k] /\ books[k].remaining \in Nat
    BY <1>2 DEF TypeOK, Book
  <2>2. \A f \in {"agentWalletA", "agentWalletB", "creatorA", "creatorB", "potCap", "closeAt"} :
          books'[k][f] = books[k][f]
    BY <2>1
  <2>3. schedules'[books'[k].feeScheduleId] = schedules[books[k].feeScheduleId]
    BY <2>1
  <2>4. books'[k].remaining <= books[k].remaining
    BY <2>1
  <2>5. [books'[k] EXCEPT !.remaining = 0, !.swept = FALSE]
          = [books[k] EXCEPT !.remaining = 0, !.swept = FALSE]
    BY <2>1
  <2> QED BY <2>2, <2>3, <2>4, <2>5
<1> QED BY <1>1, <1>2

\* Every step keeps the terms of every book.
LEMMA TermsStep == IInv /\ [Next]_vars => TermsKept
<1> SUFFICES ASSUME IInv, [Next]_vars PROVE TermsKept
  OBVIOUS
<1>1. TypeOK /\ \A m \in MatchIds : books[m] \in Book
  BY DEF IInv, TypeOK
<1>2. ASSUME UNCHANGED books, UNCHANGED schedules PROVE TermsKept
  BY <1>1, <1>2, BooksKept
<1>3. ASSUME NEW c \in Addr, NEW in \in BookInputs, openBook(c, in) PROVE TermsKept
  <2> DEFINE k == in.matchId
  <2>1. k \in MatchIds
    BY InputsAssumption DEF BookInput
  <2>2. /\ books[k].status = "None" /\ UNCHANGED schedules
        /\ \E r : books' = [books EXCEPT ![k] = r]
    BY <1>3 DEF openBook, admin
  <2>3. PICK r : books' = [books EXCEPT ![k] = r]
    BY <2>2
  <2> HIDE DEF k
  <2>4. ~ Settled(books[k])
    BY <2>2 DEF Settled
  <2> QED BY <1>1, <2>1, <2>2, <2>3, <2>4, BookKept
<1>4. ASSUME NEW c \in Addr, NEW m \in MatchIds, close(c, m) PROVE TermsKept
  <2> DEFINE b == books[m]
             r == [b EXCEPT !.status = "Closed"]
  <2>1. b.status = "Open" /\ books' = [books EXCEPT ![m] = r] /\ UNCHANGED schedules
    BY <1>4 DEF close, admin
  <2>2. SameTerms(b, r) /\ ~ Settled(b)
    BY <1>1, <2>1 DEF SameTerms, Settled, Book
  <2> HIDE DEF r
  <2> QED BY <1>1, <2>1, <2>2, BookKept
<1>5. ASSUME NEW m \in MatchIds, NEW asCancel \in BOOLEAN, Live(books[m]), _markRefund(m, asCancel),
             UNCHANGED schedules
      PROVE  TermsKept
  <2> DEFINE b == books[m]
             r == [b EXCEPT !.winnerSide = -1, !.distributable = 0, !.fanWin = 0,
                            !.status = IF asCancel THEN "Cancelled" ELSE "Resolved",
                            !.settledAt = now, !.remaining = _pot(b)]
  <2>1. books' = [books EXCEPT ![m] = r] /\ ~ Settled(b)
    BY <1>5 DEF _markRefund, Live, Settled
  <2>2. SameTerms(b, r)
    BY <1>1 DEF SameTerms, Book
  <2> HIDE DEF r
  <2> QED BY <1>1, <1>5, <2>1, <2>2, BookKept
<1>6. ASSUME NEW c \in Addr, NEW m \in MatchIds, NEW w \in {DRAW_SIDE, -1, 0, 1}, resolve(c, m, w)
      PROVE  TermsKept
  <2>1. Live(books[m]) /\ _resolve(m, w) /\ UNCHANGED schedules
    BY <1>6 DEF resolve, admin
  <2>2. CASE _markRefund(m, FALSE)
    BY <1>5, <2>1, <2>2
  <2>3. CASE ~ _markRefund(m, FALSE)
    <3> DEFINE b == books[m]
    <3>1. \E p \in Int : books' = [books EXCEPT ![m] = [b EXCEPT
               !.winnerSide = w, !.distributable = p, !.fanWin = FanWin(m, w),
               !.status = "Resolved", !.settledAt = now, !.remaining = p]]
      <4> DEFINE pot == _pot(b)
                 cp == (pot * CREATOR_BPS) \div BPS_DENOM
                 fee == _platformFee(schedules[b.feeScheduleId], pot)
                 p == pot - (IF fee + cp > pot THEN pot - cp ELSE fee) - cp
      <4>1. books' = [books EXCEPT ![m] = [b EXCEPT
               !.winnerSide = w, !.distributable = p, !.fanWin = FanWin(m, w),
               !.status = "Resolved", !.settledAt = now, !.remaining = p]]
        BY <2>1, <2>3 DEF _resolve, FeeOf
      <4>2. pot \in Nat /\ schedules[b.feeScheduleId] \in FeeSchedule
            /\ ValidSchedule(schedules[b.feeScheduleId])
        <5>1. b.feeScheduleId \in DOMAIN schedules
          BY <2>1 DEF IInv, TypeOK, Live
        <5> QED BY <5>1, BookFacts DEF IInv, TypeOK
      <4>3. fee \in Nat /\ cp \in Nat
        BY <4>2, FeeBound, PartOf, ParametersAssumption
      <4> HIDE DEF pot, cp, fee
      <4>4. p \in Int
        BY <4>2, <4>3
      <4> HIDE DEF p
      <4> QED BY <4>1, <4>4
    <3>2. PICK p \in Int : books' = [books EXCEPT ![m] = [b EXCEPT
               !.winnerSide = w, !.distributable = p, !.fanWin = FanWin(m, w),
               !.status = "Resolved", !.settledAt = now, !.remaining = p]]
      BY <3>1
    <3> DEFINE r == [b EXCEPT
               !.winnerSide = w, !.distributable = p, !.fanWin = FanWin(m, w),
               !.status = "Resolved", !.settledAt = now, !.remaining = p]
    <3>3. SameTerms(b, r) /\ ~ Settled(b)
      BY <1>1, <2>1 DEF SameTerms, Book, Live, Settled
    <3>4. books' = [books EXCEPT ![m] = r]
      BY <3>2
    <3> HIDE DEF r
    <3> QED BY <1>1, <2>1, <3>3, <3>4, BookKept
  <2> QED BY <2>2, <2>3
<1>7. ASSUME NEW m \in MatchIds, NEW s \in Sides, NEW x \in Amounts, Betting(books[m]),
             books' = [books EXCEPT ![m].total[s] = @ + x], UNCHANGED schedules
      PROVE  TermsKept
  <2> DEFINE b == books[m]
             r == [b EXCEPT !.total[s] = @ + x]
  <2>1. books' = [books EXCEPT ![m] = r] /\ ~ Settled(b)
    BY <1>7 DEF Betting, Settled
  <2>2. SameTerms(b, r)
    BY <1>1 DEF SameTerms, Book
  <2> HIDE DEF r
  <2> QED BY <1>1, <1>7, <2>1, <2>2, BookKept
<1>8. ASSUME NEW c \in Addr, NEW m \in MatchIds, claim(c, m) PROVE TermsKept
  <2> DEFINE b == books[m]
             amt == claimable(m, c)
             r == [b EXCEPT !.remaining = @ - amt]
  <2>1. books' = [books EXCEPT ![m] = r] /\ UNCHANGED schedules /\ amt \in Nat
    BY <1>1, <1>8, ClaimType DEF claim, admin
  <2> HIDE DEF amt
  <2>2. b \in Book /\ b.remaining \in Nat
    BY <1>1 DEF Book
  <2>3. SameTerms(b, r) /\ r.remaining <= b.remaining
        /\ [r EXCEPT !.remaining = 0, !.swept = FALSE] = [b EXCEPT !.remaining = 0, !.swept = FALSE]
    <3> HIDE DEF b
    <3>1. SameTerms(b, r)
      BY <2>1, <2>2 DEF SameTerms, Book
    <3>2. r.remaining <= b.remaining
      BY <2>1, <2>2 DEF Book
    <3>3. [r EXCEPT !.remaining = 0, !.swept = FALSE] = [b EXCEPT !.remaining = 0, !.swept = FALSE]
      BY <2>1, <2>2 DEF Book
    <3> QED BY <3>1, <3>2, <3>3
  <2> HIDE DEF r
  <2> QED BY <1>1, <2>1, <2>3, BookKept
<1>9. ASSUME NEW m \in MatchIds, sweep(m) PROVE TermsKept
  <2> DEFINE b == books[m]
             r == [b EXCEPT !.remaining = 0, !.swept = TRUE]
  <2>1. books' = [books EXCEPT ![m] = r] /\ UNCHANGED schedules
    BY <1>1, <1>9 DEF sweep, admin, TypeOK
  <2>2. b \in Book /\ b.remaining \in Nat
    BY <1>1 DEF Book
  <2>3. SameTerms(b, r) /\ r.remaining <= b.remaining
        /\ [r EXCEPT !.remaining = 0, !.swept = FALSE] = [b EXCEPT !.remaining = 0, !.swept = FALSE]
    <3> HIDE DEF b
    <3>1. SameTerms(b, r)
      BY <2>2 DEF SameTerms, Book
    <3>2. r.remaining <= b.remaining
      BY <2>2 DEF Book
    <3>3. [r EXCEPT !.remaining = 0, !.swept = FALSE] = [b EXCEPT !.remaining = 0, !.swept = FALSE]
      BY <2>2 DEF Book
    <3> QED BY <3>1, <3>2, <3>3
  <2> HIDE DEF r
  <2> QED BY <1>1, <2>1, <2>3, BookKept
<1>10. ASSUME NEW s \in ScheduleInputs, setSpectatorFeeTiers(s) PROVE TermsKept
  <2>1. schedules' = Append(schedules, s) /\ UNCHANGED books /\ schedules \in Seq(FeeSchedule)
    BY <1>1, <1>10 DEF setSpectatorFeeTiers, money, TypeOK
  <2>2. \A i \in DOMAIN schedules : schedules'[i] = schedules[i]
    BY <2>1
  <2> QED BY <1>1, <2>1, <2>2, BooksKept
<1>11. CASE BookNext
  <2>1. ASSUME NEW c \in Addr, NEW m \in MatchIds, cancel(c, m) PROVE TermsKept
    BY <2>1, <1>5 DEF cancel, admin
  <2>2. ASSUME NEW m \in MatchIds, refundExpired(m) PROVE TermsKept
    BY <2>2, <1>5 DEF refundExpired, admin
  <2> QED BY <1>3, <1>4, <1>6, <1>11, <2>1, <2>2 DEF BookNext
<1>12. CASE MoneyNext
  <2>1. ASSUME NEW c \in Addr, NEW m \in MatchIds, NEW t \in Tickets, NEW x \in Amounts,
               seed(c, m, t, x)
        PROVE  TermsKept
    <3>1. SideOf(t) \in Sides
      BY DEF SideOf, Sides
    <3> QED BY <1>7, <2>1, <3>1 DEF seed, admin
  <2>2. ASSUME NEW u, NEW m \in MatchIds, NEW x \in Amounts, NEW s \in Sides,
               _creditDeposit(m, u, x, s), UNCHANGED schedules
        PROVE  TermsKept
    BY <1>7, <2>2 DEF _creditDeposit
  <2>3. ASSUME NEW c \in Fans, NEW m \in MatchIds, NEW x \in Amounts, NEW s \in Sides,
               deposit(c, m, x, s)
        PROVE  TermsKept
    BY <2>2, <2>3 DEF deposit, admin
  <2>4. ASSUME NEW c \in Addr, NEW u \in Fans, NEW m \in MatchIds, NEW x \in Amounts, NEW s \in Sides,
               depositFor(c, m, u, x, s)
        PROVE  TermsKept
    BY <2>2, <2>4 DEF depositFor, admin
  <2>5. ASSUME NEW c \in Addr, withdraw(c) PROVE TermsKept
    BY <1>2, <2>5 DEF withdraw, admin
  <2>6. ASSUME withdrawFees PROVE TermsKept
    BY <1>2, <2>6 DEF withdrawFees, admin
  <2> QED BY <1>8, <1>12, <2>1, <2>3, <2>4, <2>5, <2>6 DEF MoneyNext
<1>13. CASE OwnerNext
  <2>1. ASSUME (\E k \in Resolvers : setResolver(k)) \/ (\E t \in Treasuries : setFeeRecipient(t))
               \/ pause \/ unpause
        PROVE  TermsKept
    BY <1>2, <2>1 DEF setResolver, setFeeRecipient, pause, unpause, money
  <2> QED BY <1>9, <1>10, <1>13, <2>1 DEF OwnerNext
<1>14. CASE (\E a \in Blockable : blacklist(a)) \/ tick
  BY <1>2, <1>14 DEF blacklist, tick, admin
<1>15. CASE UNCHANGED vars
  BY <1>2, <1>15 DEF vars, admin
<1> QED BY <1>11, <1>12, <1>13, <1>14, <1>15 DEF Next

\* A step that gives one book a new record charges nobody, unless it resolves
\* that book.
LEMMA NobodyCharged ==
  ASSUME TypeOK, NEW m \in MatchIds, NEW r, books' = [books EXCEPT ![m] = r],
         Live(books[m]) => r.status # "Resolved"
  PROVE  \A k \in MatchIds : ChargedByTerms(k)
<1> SUFFICES ASSUME NEW k \in MatchIds, Live(books[k]) PROVE books'[k].status # "Resolved"
  BY DEF ChargedByTerms
<1>1. books'[k] = IF k = m THEN r ELSE books[k]
  BY DEF TypeOK
<1> QED BY <1>1 DEF Live

\* A step that leaves the books alone charges nobody either.
LEMMA BooksAlone ==
  ASSUME UNCHANGED books
  PROVE  \A k \in MatchIds : ChargedByTerms(k)
BY DEF ChargedByTerms, Live

\* The resolver's call credits the protocol and the creators with the fee of
\* the book's own schedule and the creators' part, or turns it into a refund.
LEMMA ResolveCharges ==
  ASSUME IInv, NEW c \in Addr, NEW m \in MatchIds, NEW w \in {DRAW_SIDE, -1, 0, 1}, resolve(c, m, w)
  PROVE  \A k \in MatchIds : ChargedByTerms(k)
<1> USE AccountsAssumption
<1>1. Live(books[m]) /\ _resolve(m, w) /\ TypeOK
  BY DEF resolve, IInv
<1>2. ASSUME NEW k \in MatchIds, k # m PROVE ChargedByTerms(k)
  <2>1. books'[k] = books[k]
    BY <1>1, <1>2 DEF _resolve, _markRefund, TypeOK
  <2> QED BY <2>1 DEF ChargedByTerms, Live
<1>3. CASE w = -1 \/ _pot(books[m]) = 0 \/ FanWin(m, w) = 0
  <2>1. _markRefund(m, FALSE)
    BY <1>1, <1>3 DEF _resolve
  <2>2. books'[m].fanWin = 0 /\ UNCHANGED <<protocolFees, totalOwed>>
    BY <1>1, <2>1 DEF _markRefund, TypeOK, Book
  <2>3. protocolFees \in Nat /\ totalOwed \in Nat
    BY <1>1 DEF TypeOK
  <2>4. ChargedByTerms(m)
    BY <2>2, <2>3 DEF ChargedByTerms
  <2> QED BY <1>2, <2>4
<1>4. CASE ~ (w = -1 \/ _pot(books[m]) = 0 \/ FanWin(m, w) = 0)
  <2> DEFINE b == books[m]
             pot == _pot(b)
             cp == (pot * CREATOR_BPS) \div BPS_DENOM
             fee == _platformFee(schedules[b.feeScheduleId], pot)
             platformFee == IF fee + cp > pot THEN pot - cp ELSE fee
             paid == pot - platformFee - cp
             fw == FanWin(m, w)
             r == [b EXCEPT !.winnerSide = w, !.distributable = paid, !.fanWin = fw,
                            !.status = "Resolved", !.settledAt = now, !.remaining = paid]
  <2>1. books' = [books EXCEPT ![m] = r] /\ _accrueCreators(b, platformFee, cp, w)
    BY <1>1, <1>4 DEF _resolve, FeeOf
  <2>2. b \in Book /\ pot \in Nat
    BY BookFacts
  <2>3. schedules[b.feeScheduleId] \in FeeSchedule /\ ValidSchedule(schedules[b.feeScheduleId])
    <3>1. b.feeScheduleId \in DOMAIN schedules
      BY <1>1 DEF TypeOK, Live
    <3> QED BY <1>1, <3>1 DEF TypeOK
  <2>4. books'[m].fanWin = fw /\ fw # 0
    BY <1>1, <1>4, <2>1, <2>2 DEF TypeOK, Book
  <2>5. ChargedByTerms(m) <=>
          (books'[m].status = "Resolved" =>
             protocolFees' + totalOwed' - (protocolFees + totalOwed) = fee + cp)
    BY <1>1, <2>4 DEF ChargedByTerms
  <2>6. fee \in Nat /\ 4 * fee <= pot
    BY <2>2, <2>3, FeeBound
  <2>7. cp \in Nat /\ 50 * cp <= pot
    BY <2>2, PartOf, ParametersAssumption
  <2> HIDE DEF b, pot, cp, fee, fw, r
  <2>8. platformFee = fee
    BY <2>2, <2>6, <2>7
  <2> HIDE DEF platformFee
  <2>9. /\ totalOwed' \in Nat /\ protocolFees' \in Nat
        /\ protocolFees' + totalOwed' = protocolFees + totalOwed + fee + cp
    BY <2>1, <2>2, <2>6, <2>7, <2>8, CreatorsCredited
  <2>10. protocolFees \in Nat /\ totalOwed \in Nat
    BY <1>1 DEF TypeOK
  <2>11. protocolFees' + totalOwed' - (protocolFees + totalOwed) = fee + cp
    <3> DEFINE fees == protocolFees
               credits == totalOwed
               newFees == protocolFees'
               newCredits == totalOwed'
    <3>1. /\ fees \in Nat /\ credits \in Nat /\ newFees \in Nat /\ newCredits \in Nat
          /\ fee \in Nat /\ cp \in Nat /\ newFees + newCredits = fees + credits + fee + cp
      BY <2>6, <2>7, <2>9, <2>10
    <3>2. newFees + newCredits - (fees + credits) = fee + cp
      <4> HIDE DEF fees, credits, newFees, newCredits
      <4> QED BY ONLY <3>1
    <3> QED BY <3>2
  <2> QED BY <1>2, <2>5, <2>11
<1> QED BY <1>3, <1>4

\* Only a resolve charges anything, and it charges by the book's own terms.
LEMMA ChargedStep == IInv /\ [Next]_vars => \A k \in MatchIds : ChargedByTerms(k)
<1> DEFINE Charged == \A k \in MatchIds : ChargedByTerms(k)
<1> SUFFICES ASSUME IInv, [Next]_vars PROVE Charged
  OBVIOUS
<1> HIDE DEF Charged
<1>1. TypeOK /\ \A m \in MatchIds : books[m] \in Book
  BY DEF IInv, TypeOK
<1>2. ASSUME UNCHANGED books PROVE Charged
  BY <1>2, BooksAlone DEF Charged
<1>3. ASSUME NEW m \in MatchIds, NEW r, books' = [books EXCEPT ![m] = r],
             Live(books[m]) => r.status # "Resolved"
      PROVE  Charged
  BY <1>1, <1>3, NobodyCharged DEF Charged
<1>4. CASE BookNext
  <2>1. ASSUME NEW c \in Addr, NEW in \in BookInputs, openBook(c, in) PROVE Charged
    <3> DEFINE k == in.matchId
    <3>1. k \in MatchIds
      BY InputsAssumption DEF BookInput
    <3>2. books[k].status = "None" /\ \E r : books' = [books EXCEPT ![k] = r]
      BY <2>1 DEF openBook
    <3> HIDE DEF k
    <3> QED BY <1>3, <3>1, <3>2 DEF Live
  <2>2. ASSUME NEW c \in Addr, NEW m \in MatchIds, close(c, m) PROVE Charged
    <3> DEFINE r == [books[m] EXCEPT !.status = "Closed"]
    <3>1. books' = [books EXCEPT ![m] = r] /\ r.status # "Resolved"
      BY <1>1, <2>2 DEF close, Book
    <3> HIDE DEF r
    <3> QED BY <1>3, <3>1
  <2>3. ASSUME NEW m \in MatchIds, _markRefund(m, TRUE) PROVE Charged
    <3> DEFINE r == [books[m] EXCEPT
                 !.winnerSide = -1, !.distributable = 0, !.fanWin = 0, !.status = "Cancelled",
                 !.settledAt = now, !.remaining = _pot(books[m])]
    <3>1. books' = [books EXCEPT ![m] = r] /\ r.status # "Resolved"
      BY <1>1, <2>3 DEF _markRefund, Book
    <3> HIDE DEF r
    <3> QED BY <1>3, <3>1
  <2>4. ASSUME NEW c \in Addr, NEW m \in MatchIds, cancel(c, m) PROVE Charged
    BY <2>3, <2>4 DEF cancel
  <2>5. ASSUME NEW m \in MatchIds, refundExpired(m) PROVE Charged
    BY <2>3, <2>5 DEF refundExpired
  <2>6. ASSUME NEW c \in Addr, NEW m \in MatchIds, NEW w \in {DRAW_SIDE, -1, 0, 1}, resolve(c, m, w)
        PROVE  Charged
    BY <2>6, ResolveCharges DEF Charged
  <2> QED BY <1>4, <2>1, <2>2, <2>4, <2>5, <2>6 DEF BookNext
<1>5. CASE MoneyNext
  <2>1. ASSUME NEW m \in MatchIds, NEW s, NEW x, Betting(books[m]),
               books' = [books EXCEPT ![m].total[s] = @ + x]
        PROVE  Charged
    <3> DEFINE r == [books[m] EXCEPT !.total[s] = @ + x]
    <3>1. books' = [books EXCEPT ![m] = r] /\ r.status # "Resolved"
      BY <1>1, <2>1 DEF Betting, Book
    <3> HIDE DEF r
    <3> QED BY <1>3, <3>1
  <2>2. ASSUME NEW c \in Addr, NEW m \in MatchIds, NEW t \in Tickets, NEW x \in Amounts,
               seed(c, m, t, x)
        PROVE  Charged
    BY <2>1, <2>2 DEF seed
  <2>3. ASSUME NEW c \in Fans, NEW m \in MatchIds, NEW x \in Amounts, NEW s \in Sides,
               deposit(c, m, x, s)
        PROVE  Charged
    BY <2>1, <2>3 DEF deposit, _creditDeposit
  <2>4. ASSUME NEW c \in Addr, NEW u \in Fans, NEW m \in MatchIds, NEW x \in Amounts, NEW s \in Sides,
               depositFor(c, m, u, x, s)
        PROVE  Charged
    BY <2>1, <2>4 DEF depositFor, _creditDeposit
  <2>5. ASSUME NEW c \in Addr, NEW m \in MatchIds, claim(c, m) PROVE Charged
    <3> DEFINE amt == claimable(m, c)
               r == [books[m] EXCEPT !.remaining = @ - amt]
    <3>1. books' = [books EXCEPT ![m] = r] /\ (Live(books[m]) => r.status # "Resolved")
      BY <1>1, <2>5 DEF claim, Live, Book
    <3> HIDE DEF r
    <3> QED BY <1>3, <3>1
  <2>6. ASSUME (\E c \in Addr : withdraw(c)) \/ withdrawFees PROVE Charged
    BY <1>2, <2>6 DEF withdraw, withdrawFees
  <2> QED BY <1>5, <2>2, <2>3, <2>4, <2>5, <2>6 DEF MoneyNext
<1>6. CASE OwnerNext
  <2>1. ASSUME NEW m \in MatchIds, sweep(m) PROVE Charged
    <3> DEFINE r == [books[m] EXCEPT !.remaining = 0, !.swept = TRUE]
    <3>1. books' = [books EXCEPT ![m] = r] /\ ~ Live(books[m])
      BY <1>1, <2>1 DEF sweep, Settled, Live, TypeOK
    <3> HIDE DEF r
    <3> QED BY <1>3, <3>1
  <2> QED BY <1>2, <1>6, <2>1
       DEF OwnerNext, setResolver, setFeeRecipient, setSpectatorFeeTiers, pause, unpause, money
<1>7. CASE (\E a \in Blockable : blacklist(a)) \/ tick \/ UNCHANGED vars
  BY <1>2, <1>7 DEF blacklist, tick, vars
<1> QED BY <1>4, <1>5, <1>6, <1>7 DEF Next

\* Everything the contract stores keeps its type, and every schedule its caps.
THEOREM TypeCorrect == Spec => []TypeOK
<1>1. IInv => TypeOK
  BY DEF IInv
<1> QED BY <1>1, InitInvariant, NextInvariant, PTL DEF Spec

\* For any number of books that share the balance, it is exactly what the
\* contract owes: live pots, unclaimed rest, fees and credits.
THEOREM Solvency == Spec => []Solvent
<1>1. IInv => Solvent
  BY DEF IInv
<1> QED BY <1>1, InitInvariant, NextInvariant, PTL DEF Spec

\* The side totals are the sums of the tickets and totalOwed that of the
\* credits, after any sequence of calls.
THEOREM TotalsAreSums == Spec => []MoneyAccounted
<1>1. IInv => MoneyAccounted
  BY DEF IInv, ClaimsCovered
<1> QED BY <1>1, InitInvariant, NextInvariant, PTL DEF Spec

\* However many fans a book has and in whatever order they claim, what is left
\* of it covers every claim not made yet, and fees and creators took at most
\* 27% of a resolved pot.
THEOREM ClaimsStayCovered == Spec => []ClaimsCovered
<1>1. IInv => ClaimsCovered
  BY DEF IInv
<1> QED BY <1>1, InitInvariant, NextInvariant, PTL DEF Spec

\* The agents, creators, cap, deadline and fee schedule of an open book are
\* fixed whatever the owner pushes later, its settlement charges by that
\* schedule, and a settled book only pays out.
THEOREM TermsStay == Spec => BookTermsFixed
<1> DEFINE Terms == TermsKept /\ \A m \in MatchIds : ChargedByTerms(m)
<1>1. IInv /\ [Next]_vars => [Terms]_vars
  BY TermsStep, ChargedStep
<1>2. [Terms]_vars => [BookTerms]_vars
  BY DEF TermsKept, BookTerms
<1> HIDE DEF Terms
<1> QED BY <1>1, <1>2, InitInvariant, NextInvariant, PTL DEF Spec, BookTermsFixed
-----------------------------------------------------------------------------
(* The ways out, by the guards of the calls.  OneWayOut and                *)
(* NoBetOnKnownResult speak of ENABLED, which has no rules here; Guarded   *)
(* shows that each of these calls is a guard and one assignment to every   *)
(* variable, so the guard is when it can be made.                          *)

MayRefund(m) == Live(books[m]) /\ now >= books[m].closeAt + refundGrace

MayResolve(caller, m, winnerSide) ==
  /\ caller = resolver /\ Live(books[m])
  /\ books[m].status = "Open" => now >= books[m].closeAt
  /\ now < books[m].closeAt + refundGrace
  /\ winnerSide \in {DRAW_SIDE, -1, 0, 1}

MayClaim(caller, m) ==
  /\ claimable(m, caller) # 0 /\ claimable(m, caller) <= books[m].remaining
  /\ CanTransfer(Pool, caller, claimable(m, caller))

MayWithdraw(a) ==
  owed[a] # 0 /\ totalOwed >= owed[a] /\ CanTransfer(Pool, a, owed[a])

MayCollect == protocolFees # 0 /\ CanTransfer(Pool, feeRecipient, protocolFees)

\* One value for every variable these calls can change.
Becomes(bs, cl, pf, od, total, w) ==
  /\ books' = bs /\ claimed' = cl /\ protocolFees' = pf /\ owed' = od /\ totalOwed' = total /\ wallet' = w
  /\ UNCHANGED <<bets, admin, world>>

Paid(to, amt) == [wallet EXCEPT ![Pool] = @ - amt, ![to] = @ + amt]

AsRefund(m, asCancel) ==
  [books EXCEPT ![m] = [@ EXCEPT
     !.winnerSide = -1, !.distributable = 0, !.fanWin = 0,
     !.status = IF asCancel THEN "Cancelled" ELSE "Resolved",
     !.settledAt = now, !.remaining = _pot(books[m])]]

\* Each call is its guard and one assignment to every variable.  (That a
\* resolve can always be made is shown with the outcome -1, the refund.)
LEMMA Guarded ==
  ASSUME NEW m \in MatchIds, NEW c \in Addr, NEW w \in {DRAW_SIDE, -1, 0, 1}
  PROVE  /\ refundExpired(m) <=> MayRefund(m) /\
              Becomes(AsRefund(m, TRUE), claimed, protocolFees, owed, totalOwed, wallet)
         /\ resolve(c, m, w) => MayResolve(c, m, w)
         /\ resolve(c, m, -1) <=> MayResolve(c, m, -1) /\
              Becomes(AsRefund(m, FALSE), claimed, protocolFees, owed, totalOwed, wallet)
         /\ claim(c, m) <=> MayClaim(c, m) /\
              Becomes([books EXCEPT ![m].remaining = @ - claimable(m, c)],
                      [claimed EXCEPT ![m] = @ \cup {c}], protocolFees, owed, totalOwed,
                      Paid(c, claimable(m, c)))
         /\ withdraw(c) <=> MayWithdraw(c) /\
              Becomes(books, claimed, protocolFees, [owed EXCEPT ![c] = 0], totalOwed - owed[c],
                      Paid(c, owed[c]))
         /\ withdrawFees <=> MayCollect /\
              Becomes(books, claimed, 0, owed, totalOwed, Paid(feeRecipient, protocolFees))
<1>1. refundExpired(m) <=> MayRefund(m) /\
        Becomes(AsRefund(m, TRUE), claimed, protocolFees, owed, totalOwed, wallet)
  BY DEF refundExpired, _markRefund, MayRefund, Becomes, AsRefund
<1>2. resolve(c, m, w) => MayResolve(c, m, w)
  BY DEF resolve, MayResolve
<1>3. resolve(c, m, -1) <=> MayResolve(c, m, -1) /\
        Becomes(AsRefund(m, FALSE), claimed, protocolFees, owed, totalOwed, wallet)
  BY DEF resolve, _resolve, _markRefund, MayResolve, Becomes, AsRefund
<1>4. claim(c, m) <=> MayClaim(c, m) /\
        Becomes([books EXCEPT ![m].remaining = @ - claimable(m, c)],
                [claimed EXCEPT ![m] = @ \cup {c}], protocolFees, owed, totalOwed,
                Paid(c, claimable(m, c)))
  BY DEF claim, Transfer, MayClaim, Becomes, Paid
<1>5. withdraw(c) <=> MayWithdraw(c) /\
        Becomes(books, claimed, protocolFees, [owed EXCEPT ![c] = 0], totalOwed - owed[c], Paid(c, owed[c]))
  BY DEF withdraw, Transfer, MayWithdraw, Becomes, Paid
<1>6. withdrawFees <=> MayCollect /\
        Becomes(books, claimed, 0, owed, totalOwed, Paid(feeRecipient, protocolFees))
  BY DEF withdrawFees, Transfer, MayCollect, Becomes, Paid
<1> QED BY <1>1, <1>2, <1>3, <1>4, <1>5, <1>6

\* OneWayOut with the guards in the place of ENABLED, and for every winner,
\* creator and fee: nothing but the token's blacklist keeps the money inside.
WaysOut ==
  /\ \A m \in MatchIds : Live(books[m]) /\ now >= books[m].closeAt =>
       (MayRefund(m) <=> ~ \E c \in Addr : MayResolve(c, m, -1))
  /\ \A a \in Addr \ blocked :
       /\ \A m \in MatchIds : claimable(m, a) # 0 => MayClaim(a, m)
       /\ owed[a] # 0 => MayWithdraw(a)
  /\ protocolFees # 0 /\ feeRecipient \notin blocked => MayCollect

\* Every book by itself is covered by the balance, next to fees and credits.
LEMMA BalanceCovers ==
  ASSUME IInv, NEW m \in MatchIds
  PROVE  /\ wallet[Pool] \in Nat /\ protocolFees \in Nat /\ totalOwed \in Nat
         /\ BookDebt(books[m]) + protocolFees + totalOwed <= wallet[Pool]
         /\ BookDebt(books[m]) \in Nat
<1> DEFINE f == [k \in MatchIds |-> BookDebt(books[k])]
<1>1. ASSUME NEW b \in Book PROVE BookDebt(b) \in Nat
  BY DEF BookDebt, Live, _pot, Book, Sides
<1>2. (\A k \in MatchIds : f[k] \in Nat) /\ f[m] = BookDebt(books[m])
  BY <1>1 DEF IInv, TypeOK
<1>3. wallet[Pool] = SumFunctionOnSet(f, MatchIds) + protocolFees + totalOwed
  BY DEF IInv, Solvent, SumFunction
<1>4. wallet[Pool] \in Nat /\ protocolFees \in Nat /\ totalOwed \in Nat
  BY DEF IInv, TypeOK
<1> HIDE DEF f
<1>5. f[m] <= SumFunctionOnSet(f, MatchIds) /\ SumFunctionOnSet(f, MatchIds) \in Nat
  BY <1>2, AccountsAssumption, SumCovers, SumNat
<1> QED BY <1>2, <1>3, <1>4, <1>5

\* So whoever has a claim can make it.
LEMMA ClaimComesOut ==
  ASSUME IInv, NEW a \in Addr \ blocked, NEW m \in MatchIds, claimable(m, a) # 0
  PROVE  MayClaim(a, m)
<1> DEFINE f == [u \in Addr |-> claimable(m, u)]
<1>1. (\A u \in Addr : f[u] \in Nat) /\ f[a] = claimable(m, a)
  BY ClaimType DEF IInv
<1>2. Settled(books[m]) /\ BookDebt(books[m]) = books[m].remaining
  BY DEF claimable, Settled, BookDebt, Live
<1>3. SumFunctionOnSet(f, Addr) <= books[m].remaining
  BY <1>2 DEF IInv, ClaimsCovered, EveryClaimCovered, SumFunction
<1> HIDE DEF f
<1>4. f[a] <= SumFunctionOnSet(f, Addr) /\ SumFunctionOnSet(f, Addr) \in Nat
  BY <1>1, AccountsAssumption, SumCovers, SumNat
<1>5. books[m].remaining \in Nat /\ books[m].remaining <= wallet[Pool] /\ wallet[Pool] \in Nat
  BY <1>2, BalanceCovers
<1>6. claimable(m, a) <= books[m].remaining /\ claimable(m, a) <= wallet[Pool]
  BY <1>1, <1>3, <1>4, <1>5
<1>7. {Pool, a} \cap blocked = {}
  BY AccountsAssumption DEF IInv, TypeOK
<1> QED BY <1>1, <1>5, <1>6, <1>7 DEF MayClaim, CanTransfer

\* The same for the creators' credits and the fees.
LEMMA CreditsComeOut ==
  ASSUME IInv
  PROVE  /\ \A a \in Addr \ blocked : owed[a] # 0 => MayWithdraw(a)
         /\ protocolFees # 0 /\ feeRecipient \notin blocked => MayCollect
<1> DEFINE debt == SumFunction([k \in MatchIds |-> BookDebt(books[k])])
<1>1. wallet[Pool] = debt + protocolFees + totalOwed
  BY DEF IInv, Solvent
<1>2. debt \in Nat
  <2> DEFINE f == [k \in MatchIds |-> BookDebt(books[k])]
  <2>1. \A k \in MatchIds : f[k] \in Nat
    BY BalanceCovers
  <2>2. debt = SumFunctionOnSet(f, MatchIds)
    BY DEF SumFunction
  <2> HIDE DEF f, debt
  <2> QED BY <2>1, <2>2, AccountsAssumption, SumNat
<1> HIDE DEF debt
<1>3. /\ wallet[Pool] \in Nat /\ protocolFees \in Nat /\ totalOwed \in Nat /\ Pool \notin blocked
      /\ \A a \in Addr : owed[a] \in Nat
  BY AccountsAssumption DEF IInv, TypeOK
<1>4. totalOwed = SumFunctionOnSet(owed, Addr)
  BY DEF IInv, ClaimsCovered, MoneyAccounted, CreditsAccounted, TypeOK, SumFunction
<1>5. \A a \in Addr : owed[a] <= totalOwed
  BY <1>3, <1>4, AccountsAssumption, SumCovers
<1>6. ASSUME NEW a \in Addr \ blocked, owed[a] # 0 PROVE MayWithdraw(a)
  BY <1>1, <1>2, <1>3, <1>5, <1>6 DEF MayWithdraw, CanTransfer
<1>7. ASSUME protocolFees # 0, feeRecipient \notin blocked PROVE MayCollect
  BY <1>1, <1>2, <1>3, <1>7 DEF MayCollect, CanTransfer
<1> QED BY <1>6, <1>7

\* A book past its betting window can be resolved or refunded and not both;
\* a winner's claim, a bettor's refund, a creator's credit and the fees can
\* be taken whenever the token lets the receiver have them, in whatever order
\* the others took theirs.
THEOREM MoneyHasAWayOut == Spec => []WaysOut
<1>1. ASSUME IInv, NEW m \in MatchIds, Live(books[m]), now >= books[m].closeAt
      PROVE  MayRefund(m) <=> ~ \E c \in Addr : MayResolve(c, m, -1)
  <2>0. TypeOK
    BY <1>1 DEF IInv
  <2>1. now \in Nat /\ books[m].closeAt + refundGrace \in Nat /\ resolver \in Addr
    <3>1. refundGrace \in Nat
      BY ParametersAssumption
    <3>2. books[m].closeAt \in Nat
      BY <2>0 DEF TypeOK, Book
    <3>3. now \in Nat /\ resolver \in Addr
      BY <2>0, AccountsAssumption DEF TypeOK
    <3> QED BY <3>1, <3>2, <3>3
  <2>2. now < books[m].closeAt + refundGrace => MayResolve(resolver, m, -1)
    BY <1>1 DEF MayResolve
  <2> QED BY <1>1, <2>1, <2>2 DEF MayRefund, MayResolve
<1>2. IInv => WaysOut
  BY <1>1, ClaimComesOut, CreditsComeOut DEF WaysOut
<1> QED BY <1>2, InitInvariant, NextInvariant, PTL DEF Spec

\* From the moment the resolver may settle a book, for whatever outcome, no
\* ticket of it changes.
TicketsFrozen ==
  \A m \in MatchIds : (\E c \in Addr, w \in {DRAW_SIDE, 0, 1} : MayResolve(c, m, w)) =>
    fan'[m] = fan[m] /\ seeds'[m] = seeds[m]

\* A bet or a seed touches only a book that is still betting.
LEMMA OnlyWhileBetting ==
  ASSUME TypeOK, NEW m \in MatchIds, Betting(books[m]),
         \A k \in MatchIds : k # m => fan'[k] = fan[k] /\ seeds'[k] = seeds[k]
  PROVE  TicketsFrozen
<1>1. now \in Nat /\ books[m].closeAt \in Nat
  BY DEF TypeOK, Book
<1>2. \A c, w : ~ MayResolve(c, m, w)
  BY <1>1 DEF MayResolve, Betting
<1> QED BY <1>2 DEF TicketsFrozen

\* No other call touches a ticket.
LEMMA FrozenStep == IInv /\ [Next]_vars => TicketsFrozen
<1> SUFFICES ASSUME IInv, [Next]_vars PROVE TicketsFrozen
  OBVIOUS
<1>1. fan \in [MatchIds -> [Addr -> [Sides -> Nat]]] /\ seeds \in [MatchIds -> [Tickets -> Nat]] /\ TypeOK
  BY DEF IInv, TypeOK
<1>2. UNCHANGED bets => TicketsFrozen
  BY DEF bets, TicketsFrozen
<1>3. ASSUME NEW c \in Addr, NEW m \in MatchIds, NEW t \in Tickets, NEW x \in Amounts, seed(c, m, t, x)
      PROVE  TicketsFrozen
  <2>1. Betting(books[m]) /\ fan' = fan /\ seeds' = [seeds EXCEPT ![m][t] = x]
    BY <1>3 DEF seed
  <2> QED BY <1>1, <2>1, OnlyWhileBetting
<1>4. ASSUME NEW u \in Addr, NEW m \in MatchIds, NEW x \in Amounts, NEW s \in Sides,
             _creditDeposit(m, u, x, s), UNCHANGED seeds
      PROVE  TicketsFrozen
  <2>1. Betting(books[m]) /\ fan' = [fan EXCEPT ![m][u][s] = @ + x]
    BY <1>4 DEF _creditDeposit
  <2> QED BY <1>1, <1>4, <2>1, OnlyWhileBetting
<1>5. CASE BookNext
  BY <1>2, <1>5 DEF BookNext, openBook, close, resolve, cancel, refundExpired
<1>6. CASE MoneyNext
  <2>1. ASSUME NEW c \in Fans, NEW m \in MatchIds, NEW x \in Amounts, NEW s \in Sides, deposit(c, m, x, s)
        PROVE  TicketsFrozen
    BY <1>4, <2>1, InputsAssumption DEF deposit
  <2>2. ASSUME NEW c \in Addr, NEW u \in Fans, NEW m \in MatchIds, NEW x \in Amounts, NEW s \in Sides,
               depositFor(c, m, u, x, s)
        PROVE  TicketsFrozen
    BY <1>4, <2>2, InputsAssumption DEF depositFor
  <2>3. ASSUME (\E c \in Addr, m \in MatchIds : claim(c, m)) \/ (\E c \in Addr : withdraw(c)) \/ withdrawFees
        PROVE  TicketsFrozen
    BY <1>2, <2>3 DEF claim, withdraw, withdrawFees
  <2> QED BY <1>3, <1>6, <2>1, <2>2, <2>3 DEF MoneyNext
<1>7. CASE OwnerNext
  BY <1>2, <1>7 DEF OwnerNext, sweep, setResolver, setFeeRecipient, setSpectatorFeeTiers, pause, unpause, money
<1>8. CASE (\E a \in Blockable : blacklist(a)) \/ tick \/ UNCHANGED vars
  BY <1>2, <1>8 DEF blacklist, tick, vars
<1> QED BY <1>5, <1>6, <1>7, <1>8 DEF Next

\* Nobody bets on a known result: while the resolver may settle a book by its
\* outcome, no step adds, changes or removes a bet or a seed of it.
THEOREM NoLateBet == Spec => [][TicketsFrozen]_vars
<1>1. IInv /\ [Next]_vars => [TicketsFrozen]_vars
  BY FrozenStep
<1> QED BY <1>1, InitInvariant, NextInvariant, PTL DEF Spec
=============================================================================
