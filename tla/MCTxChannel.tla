---------------------------- MODULE MCTxChannel -----------------------------
(* A ring of three bytes, so that indices wrap and a call waits for room,  *)
(* and calls of one or two bytes.                                          *)
EXTENDS TxChannel

SmallRing  == 3
SmallWrite == 2
=============================================================================
