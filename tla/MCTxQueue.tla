----------------------------- MODULE MCTxQueue -----------------------------
(* The instance of TxQueue for TLC. *)
EXTENDS TxQueue

CONSTANTS b1, b2, b3, b4, b5, none, w1, w2
=============================================================================
