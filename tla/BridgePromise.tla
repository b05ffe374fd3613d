--------------------------- MODULE BridgePromise ---------------------------
(***************************************************************************)
(* What a CCTP transfer promises the order layer, whatever happens inside: *)
(* its USDC is burned at most once and arrives at most once, the row is    *)
(* "minted" only when the USDC is there, and an ended row never reopens.   *)
(* A row given up promises nothing about where the USDC is: it may still   *)
(* leave or arrive, for a call thought lost can be carried out later.      *)
(*                                                                         *)
(* CctpBridge implements it; NairaCashOut is written over it.              *)
(***************************************************************************)
CONSTANT Transfers

VARIABLE bridges   \* the row of each transfer, and where its USDC is

BridgeType == bridges \in [Transfers -> [row: {"none", "open", "minted", "failed"},
                                         usdc: {"source", "burned", "there"}]]

BridgeInit == bridges = [b \in Transfers |-> [row |-> "none", usdc |-> "source"]]

opens(b) == bridges[b].row = "none" /\ bridges' = [bridges EXCEPT ![b].row = "open"]

burns(b) ==
  /\ bridges[b].row # "none" /\ bridges[b].usdc = "source"
  /\ bridges' = [bridges EXCEPT ![b].usdc = "burned"]

arrives(b) == bridges[b].usdc = "burned" /\ bridges' = [bridges EXCEPT ![b].usdc = "there"]

ends(b) ==
  /\ bridges[b].row = "open"
  /\ \/ bridges[b].usdc = "there" /\ bridges' = [bridges EXCEPT ![b].row = "minted"]
     \/ bridges' = [bridges EXCEPT ![b].row = "failed"]

BridgeNext == \E b \in Transfers : opens(b) \/ burns(b) \/ arrives(b) \/ ends(b)

BridgeSpec == BridgeInit /\ [][BridgeNext]_bridges
=============================================================================
