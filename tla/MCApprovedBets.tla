--------------------------- MODULE MCApprovedBets ---------------------------
(* Small instances of ApprovedBets.  Amounts are integers, as in the books. *)
EXTENDS ApprovedBets, TLC

CONSTANTS w1, w2, b1, b2, b3, b4

\* Bets on the game that do not divide evenly, one on the draw, and an LP deposit.
MixedSides == [b \in Bets |-> CASE b = b3 -> "draw" [] b = b4 -> "lp" [] OTHER -> "a"]
MixedAmounts == [b \in Bets |-> CASE b = b1 -> 500 [] b = b2 -> 333 [] b = b3 -> 201 [] b = b4 -> 400]

\* What the run explores: two workers and the withdrawals contend for one bet
\* while its book is open; or, with nothing withdrawn, two workers contend for
\* that bet or the deposit until the book is paid out, or the bets on the game
\* come one at a time and no worker dies, for the book.
Answered == {b \in Bets : approval[b] # "pending"}
NoCash == capUsed = 0 /\ SentFor("cash") = 0
OneAtATime == dead = {} /\ \A v, w \in Workers : v # w => Idle \in {work[v], work[w]}
OneContest ==
  \/ Answered \subseteq {b1} /\ (payouts = None \/ NoCash)
  \/ rail = "demo" /\ NoCash /\ (Answered \subseteq {b4} \/ (b4 \notin Answered /\ OneAtATime))

\* The workers run the same code.
AnyWorker == Permutations(Workers)
=============================================================================
