\* Two redeems compete for the outputs of one deposit; one fault of any kind.
SPECIFICATION Spec
CHECK_DEADLOCK FALSE
CONSTANTS
  b1 = b1  r1 = r1  r2 = r2  o1 = o1  o2 = o2  NONE = NONE
  BtcTx = {b1}  Request = {r1, r2}  Outpoint = {o1, o2}  TxOf <- MCTxOf
  Timeout = 0  MaxTx = 3  MaxFaults = 1
  Faults = {"rpc", "db", "sign", "late", "drop", "slow", "crash"}
INVARIANTS TypeOK NoncesDistinct RoundsClosed ResultsTruthful
PROPERTIES KeepsPromise
