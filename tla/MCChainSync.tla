----------------------------- MODULE MCChainSync -----------------------------
(* Instances of ChainSync for TLC. *)
EXTENDS ChainSync

CONSTANTS t1, t2, o1, b1

\* Hashes are ledger numbers; versions of three digits lose the last of them.
MCHash == {10} \cup Base..(Base + MaxLedger)

MCRequested == [req: MCHash, terms: Terms, validReceiver: BOOLEAN]
MCPrepared == [req: MCHash, prepare: MCHash, terms: Terms, outs: Outpoints, sound: {TRUE}]
MCMinted == [btc: BtcTx, tx: MCHash]

\* A chain without events; one with a request; and one on which a redeem was
\* requested and prepared before.
MCHistories ==
  { << [kind |-> "other"] >>,
    << [kind |-> "request", terms |-> t1] >>,
    << [kind |-> "request", terms |-> t1],
       [kind |-> "other"],
       [kind |-> "prepare", req |-> Base + 1, terms |-> t1, outs |-> o1] >> }
=============================================================================
