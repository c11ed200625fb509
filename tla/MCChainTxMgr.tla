---------------------------- MODULE MCChainTxMgr ----------------------------
(* Instances of ChainTxMgr for TLC. *)
EXTENDS ChainTxMgr

CONSTANTS alice, bob, fees, b1, b2, r1, r2, o1, o2

MCDeposited == [b \in BtcTx |-> 4]
MCTxOf == [o \in Outpoint |-> IF o = o1 THEN b1 ELSE b2]

\* All outpoints are outputs of one deposit.
MCTxOfOne == [o \in Outpoint |-> b1]
=============================================================================
