---------------------------- MODULE BridgePromise ----------------------------
(***************************************************************************)
(* What a tx manager promises, together with the vault and the contract it *)
(* calls, whichever chain it is for: a deposit that was observed is        *)
(* credited by one transaction, a redeem that was asked for is assigned    *)
(* outpoints by one transaction, and no outpoint is assigned twice.        *)
(* ChainTxMgr and EthTxMgr implement it.                                   *)
(***************************************************************************)
EXTENDS Naturals

CONSTANTS
  BtcTx,      \* deposits
  Request,    \* redeem requests
  Outpoint,   \* outputs of deposits
  TxOf,       \* [Outpoint -> BtcTx]
  Receipt     \* transactions on the other chain

VARIABLES
  deposits,   \* the deposits observed
  requested,  \* the redeems asked for
  receipt,    \* the transactions that settled a deposit or a redeem
  assigned    \* the outpoints of a redeem

promise == <<deposits, requested, receipt, assigned>>

Init ==
  /\ deposits = {} /\ requested = {}
  /\ receipt = [x \in BtcTx \cup Request |-> {}]
  /\ assigned = [r \in Request |-> {}]

Observe(b) ==
  /\ deposits' = deposits \cup {b}
  /\ UNCHANGED <<requested, receipt, assigned>>

Ask(r) ==
  /\ requested' = requested \cup {r}
  /\ UNCHANGED <<deposits, receipt, assigned>>

\* Settles x, once and for all.
Settle(x, t) == receipt[x] = {} /\ receipt' = [receipt EXCEPT ![x] = {t}]

Credit(b, t) ==
  /\ b \in deposits
  /\ Settle(b, t)
  /\ UNCHANGED <<deposits, requested, assigned>>

\* The outpoints of observed deposits that no redeem has.
Available ==
  {o \in Outpoint : TxOf[o] \in deposits /\ \A r \in Request : o \notin assigned[r]}

Assign(r, outs, t) ==
  /\ r \in requested
  /\ outs # {} /\ outs \subseteq Available
  /\ Settle(r, t)
  /\ assigned' = [assigned EXCEPT ![r] = outs]
  /\ UNCHANGED <<deposits, requested>>

Next ==
  \/ \E b \in BtcTx : Observe(b)
  \/ \E r \in Request : Ask(r)
  \/ \E b \in BtcTx, t \in Receipt : Credit(b, t)
  \/ \E r \in Request, outs \in SUBSET Outpoint, t \in Receipt : Assign(r, outs, t)

Spec == Init /\ [][Next]_promise
=============================================================================
