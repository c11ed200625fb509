-------------------------- MODULE MCBridgeContract --------------------------
(* Instances of BridgeContract for TLC: a deposit below the fee, deposits    *)
(* that reach the supply cap together, and outpoints that share a BTC tx.    *)
EXTENDS BridgeContract, TLC

CONSTANTS alice, fees, stranger, b1, b2, b3, r1, r2, o1, o2, o3

MCDeposited == b1 :> 4 @@ b2 :> 5 @@ b3 :> 1
MCTxOf == o1 :> b1 @@ o2 :> b1 @@ o3 :> b2
=============================================================================
