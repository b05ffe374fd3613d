---------------------------- MODULE EscrowPromise ----------------------------
(***************************************************************************)
(* What a match escrow promises its players, with nothing said of how:     *)
(* a match takes one stake, then two, and is settled once, either by       *)
(* paying the pot less an agreed fee to one of its two players or by       *)
(* giving every stake back.  Money changes hands in no other way.          *)
(***************************************************************************)
EXTENDS Naturals

CONSTANTS Addr, MatchIds, Zero

VARIABLES
  stage,    \* "none", "open" (one stake), "locked" (two), "settled"
  terms,    \* the players, the stake and the fee each match was made with
  purse,    \* what each account owns outside live matches
  feePot    \* fees earned and not yet collected

vars == <<stage, terms, purse, feePot>>

NoTerms == [player1 |-> Zero, player2 |-> Zero, stake |-> 0, fee |-> 0]

Init ==
  /\ stage = [m \in MatchIds |-> "none"]
  /\ terms = [m \in MatchIds |-> NoTerms]
  /\ purse \in [Addr -> Nat]
  /\ feePot = 0

\* At least three quarters of any pot go back to the players.
FairFee(t) == 4 * t.fee <= 2 * t.stake

Agree(m) ==
  /\ stage[m] = "none"
  /\ stage' = [stage EXCEPT ![m] = "open"]
  /\ \E a, b \in Addr :
       /\ a # b
       /\ terms'[m].player1 = a /\ terms'[m].player2 = b
       /\ FairFee(terms'[m])
       /\ purse[a] >= terms'[m].stake
       /\ purse' = [purse EXCEPT ![a] = @ - terms'[m].stake]
  /\ \A k \in MatchIds \ {m} : terms'[k] = terms[k]
  /\ UNCHANGED feePot

Meet(m) ==
  LET t == terms[m] IN
  /\ stage[m] = "open"
  /\ purse[t.player2] >= t.stake
  /\ stage' = [stage EXCEPT ![m] = "locked"]
  /\ purse' = [purse EXCEPT ![t.player2] = @ - t.stake]
  /\ UNCHANGED <<terms, feePot>>

Award(m, w) ==
  LET t == terms[m] IN
  /\ stage[m] = "locked"
  /\ w \in {t.player1, t.player2}
  /\ stage' = [stage EXCEPT ![m] = "settled"]
  /\ purse' = [purse EXCEPT ![w] = @ + (2 * t.stake - t.fee)]
  /\ feePot' = feePot + t.fee
  /\ UNCHANGED terms

GiveBack(m) ==
  LET t == terms[m] IN
  /\ stage[m] \in {"open", "locked"}
  /\ stage' = [stage EXCEPT ![m] = "settled"]
  /\ purse' = [a \in Addr |->
       IF a = t.player1 \/ (stage[m] = "locked" /\ a = t.player2)
       THEN purse[a] + t.stake ELSE purse[a]]
  /\ UNCHANGED <<terms, feePot>>

CollectFees(a) ==
  /\ feePot > 0
  /\ purse' = [purse EXCEPT ![a] = @ + feePot]
  /\ feePot' = 0
  /\ UNCHANGED <<stage, terms>>

Next ==
  \/ \E m \in MatchIds : Agree(m) \/ Meet(m) \/ GiveBack(m)
  \/ \E m \in MatchIds, w \in Addr : Award(m, w)
  \/ \E a \in Addr : CollectFees(a)

Spec == Init /\ [][Next]_vars
=============================================================================
