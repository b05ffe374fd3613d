--------------------------- MODULE MCNonceManager ---------------------------
(* A small instance of NonceManager: one thread in each of two processes. *)
EXTENDS NonceManager

CONSTANTS t1, t2

TwoProcesses == [t \in Threads |-> IF t = t1 THEN "house" ELSE "api"]
=============================================================================
