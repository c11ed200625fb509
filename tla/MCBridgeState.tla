---------------------------- MODULE MCBridgeState ----------------------------
(* Instances of BridgeState for TLC. *)
EXTENDS BridgeState

CONSTANTS r1, r2, p1, p2, t1, t2, bad, o1, o2, b1, b2, m1, m2

Req(r, t, v) == [req |-> r, terms |-> t, validReceiver |-> v]
Prep(r, p, t, o, s) ==
  [req |-> r, prepare |-> p, terms |-> t, outs |-> o, sound |-> s]

\* r1 is requested with good terms, r2 with an invalid receiver or a bad amount.
MCRequested == {Req(r1, t1, TRUE), Req(r2, t1, FALSE), Req(r2, bad, TRUE)}

\* Matching, conflicting, unsound and hash-sharing prepared events.
MCPrepared == {Prep(r1, p1, t1, o1, TRUE), Prep(r1, p2, t1, o2, TRUE),
               Prep(r1, p2, t2, o1, TRUE), Prep(r2, p1, t1, o1, TRUE),
               Prep(r2, p2, t1, o2, FALSE)}

\* One request and its prepared event, in either order, and a bad request.
MCRequestedPair == {Req(r1, t1, TRUE), Req(r2, bad, TRUE)}
MCPreparedPair == {Prep(r1, p1, t1, o1, TRUE), Prep(r2, p1, t1, o1, TRUE)}

\* Two deposits, each minted by a transaction of its own.
MCMinted == {[btc |-> b1, tx |-> m1], [btc |-> b2, tx |-> m2]}
MCMintedOne == {[btc |-> b1, tx |-> m1]}
=============================================================================
