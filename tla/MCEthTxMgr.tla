----------------------------- MODULE MCEthTxMgr -----------------------------
(* Instances of EthTxMgr for TLC. *)
EXTENDS EthTxMgr

CONSTANTS b1, r1, r2, o1, o2

MCTxOf == [o \in Outpoint |-> b1]
=============================================================================
