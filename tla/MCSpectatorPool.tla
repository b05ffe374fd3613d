--------------------------- MODULE MCSpectatorPool ---------------------------
(* Small instances of SpectatorPool.  Money is in US cents. *)
EXTENDS SpectatorPool, TLC

CONSTANTS agentA, agentB, fanX, fanY, keyA, keyB, m1, m2

BookOf(m, ca, cb, cap, closing) ==
  [matchId |-> m, agentA |-> agentA, agentB |-> agentB,
   agentWalletA |-> agentA, agentWalletB |-> agentB,
   creatorA |-> ca, creatorB |-> cb, potCap |-> cap, closeAt |-> closing]

\* Two books side by side, the second one with a single creator of both sides.
TwoBooks == {BookOf(m1, fanX, Zero, 600, 1), BookOf(m2, fanY, fanY, 600, 1)}
\* Besides a book with room for three bets, whose side B has no creator: the
\* same agent twice, no wallet, no cap, a closing
\* time in the past once a second has passed, and one beyond the longest window.
OddBooks == {BookOf(m1, fanX, Zero, 1100, 1),
             [BookOf(m1, fanX, Zero, 1100, 1) EXCEPT !.agentB = agentA],
             [BookOf(m1, fanX, Zero, 1100, 1) EXCEPT !.agentWalletB = Zero],
             BookOf(m1, fanX, Zero, 0, 1), BookOf(m1, fanX, Zero, 1100, 6)}

\* $1 flat below $10, 7% up to $1000, 10% above; at pots under $4 the quarter
\* of the pot is less than the flat fee.
DefaultSchedule ==
  [flatFee |-> 100, feeBps |-> 700, premiumFeeBps |-> 1000, tierFlatMax |-> 1000, tierBpsMax |-> 100000]
DearSchedule   == [DefaultSchedule EXCEPT !.feeBps = 1000, !.tierFlatMax = 0]
GreedySchedule == [DefaultSchedule EXCEPT !.flatFee = 101]
NewSchedules == {DearSchedule, GreedySchedule}

\* What pool_book explores: two fans and two amounts under an owner who does
\* nothing, where the issuer blacklists nobody before the settlement; or
\* everything the owner does over one fan and one amount, where nobody seeds the
\* draw.  Both agents seed one amount, and only agentA the draw.
OwnerIdle ==
  /\ admin = <<<<InitialSchedule>>, keyA, keyA, FALSE>>
  /\ blocked = {} \/ Settled(books[m1])
OneAmount ==
  /\ blocked = {} /\ seeds[m1]["drawA"] = 0
  /\ \A s \in Sides : fan[m1][fanY][s] = 0 /\ fan[m1][fanX][s] \in {0, 500, 1000}
OneContest ==
  /\ \A t \in Tickets : seeds[m1][t] \in {0, 500}
  /\ seeds[m1]["drawB"] = 0
  /\ OwnerIdle \/ OneAmount
=============================================================================
