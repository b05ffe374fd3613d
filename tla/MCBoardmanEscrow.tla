-------------------------- MODULE MCBoardmanEscrow --------------------------
(* Small instances of BoardmanEscrow.  Money is in US cents. *)
EXTENDS BoardmanEscrow, TLC

CONSTANTS alice, bob, keyA, keyB, safe, m1, m2

\* A $2 stake sits on the flat tier at exactly the 25% limit; at $10.01 the
\* 7% of the mid tier does not divide and rounds down; $600 is premium.
Low == 200
Mid == 1001

PermitOf(k, m, a, b, s, d) ==
  [signer |-> k, matchId |-> m, player1 |-> a, player2 |-> b, stake |-> s, deadline |-> d]

DefaultTiers == [flat |-> 50, bps |-> 700, premium |-> 1000, flatMax |-> 500, bpsMax |-> 50000]

\* Everything goes to the premium tier; the mid and premium rates swapped
\* (refused); a flat fee over the cap (refused).
PremiumTiers == [flat |-> 0, bps |-> 0, premium |-> 1000, flatMax |-> 200, bpsMax |-> 200]
SwappedTiers == [DefaultTiers EXCEPT !.bps = 1000, !.premium = 700]
GreedyTiers  == [DefaultTiers EXCEPT !.flat = 51]
NewTiers == {PremiumTiers, SwappedTiers, GreedyTiers}

\* Two matches between the same two players, each created by another one; a
\* second permit for the first is signed by a key that may be rotated in, and
\* three are refused for their terms.
TwoMatches == {PermitOf(keyA, m1, alice, bob, Low, 0), PermitOf(keyA, m2, bob, alice, Mid, 0)}
RotatedPermits == {PermitOf(keyB, m1, alice, bob, Low, 0), PermitOf(keyB, m1, alice, alice, Low, 0),
                   PermitOf(keyA, m1, alice, Zero, Low, 0), PermitOf(keyA, m1, bob, alice, Low - 1, 0)}
AllPermits == TwoMatches \cup RotatedPermits
=============================================================================
