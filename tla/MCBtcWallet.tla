----------------------------- MODULE MCBtcWallet -----------------------------
(* An instance of BtcWallet for TLC. *)
EXTENDS BtcWallet

CONSTANTS alice, bridge, evm, apt, tail, r1, r2

\* Coins of which one covers a deposit, and both together a larger one.
MCGenesis == <<Pay(alice, 9), Pay(alice, 5)>>

\* An Ethereum address, and an Aptos address that is longer.
MCLast20 == (evm :> evm) @@ (apt :> tail)

MCRedeemAmount == (r1 :> 2) @@ (r2 :> 3)

\* The second redeem is paid to the bridge itself.
MCRedeemReceiver == (r1 :> alice) @@ (r2 :> bridge)
=============================================================================
