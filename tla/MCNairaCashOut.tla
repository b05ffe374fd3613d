--------------------------- MODULE MCNairaCashOut ---------------------------
(* Instances of NairaCashOut for TLC. *)
EXTENDS NairaCashOut

Calm == [stalls |-> FALSE, dies |-> FALSE, lossy |-> FALSE, hooks |-> FALSE, stray |-> 0]
Dying == {[Calm EXCEPT !.dies = TRUE]}

\* Webhooks that come late and out of order, next to somebody else's USDC in
\* the out wallet; answers that get lost; workers that stall; workers that die.
EachFault == {[Calm EXCEPT !.hooks = TRUE, !.stray = 1], [Calm EXCEPT !.lossy = TRUE],
              [Calm EXCEPT !.stalls = TRUE]} \cup Dying
=============================================================================
