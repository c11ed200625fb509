------------------------------- MODULE MCVault -------------------------------
(* Instances of Vault for TLC: amounts that tie, that differ, and that force *)
(* a redeem to take one UTXO or two.                                         *)
EXTENDS Vault, TLC

CONSTANTS u1, u2, u3, i1, i2

MCAmount == u1 :> 3 @@ u2 :> 2 @@ u3 :> 2
MCRequestAmount == i1 :> 2 @@ i2 :> 1
=============================================================================
