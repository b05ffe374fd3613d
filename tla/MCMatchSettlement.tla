------------------------- MODULE MCMatchSettlement -------------------------
(* Small instances of MatchSettlement.  Money is in US cents. *)
EXTENDS MatchSettlement

CONSTANTS p1, p2, p3

\* The amounts of a $10 table with a 7% platform fee.  The fan's ticket wins
\* with white, loses with black and is refunded on a draw.
FanOnWhite == [r \in Results |-> CASE r = "white" -> 250 [] r = "black" -> 0 [] r = "draw" -> 100]
=============================================================================
