------------------------------ MODULE MCBtcSide ------------------------------
(* Instances of BtcSide for TLC: the payout of r1 spends a deposit, that of  *)
(* r2 the change of r1.                                                      *)
EXTENDS BtcSide, TLC

CONSTANTS d1, d2, t1, r1, r2

MCInputs == [r \in Request |-> IF r = r1 THEN {d1} ELSE {r1}]
=============================================================================
