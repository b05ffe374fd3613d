---------------------------- MODULE MCCctpBridge ----------------------------
(* Instances of CctpBridge for TLC. *)
EXTENDS CctpBridge

CONSTANTS t1, t2

Alone == [started |-> {t1}, stalls |-> FALSE, dies |-> TRUE, lossy |-> FALSE, tries |-> 3]

\* Workers that stall; answers that get lost; two transfers that share the
\* wallet and its allowance.
EachFault == {[Alone EXCEPT !.stalls = TRUE, !.tries = 2], [Alone EXCEPT !.lossy = TRUE],
              [Alone EXCEPT !.dies = FALSE, !.started = {t1, t2}, !.tries = 2]}
=============================================================================
