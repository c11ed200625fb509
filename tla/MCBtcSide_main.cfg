\* Errors and restarts until the chain has height 6, and three more scans at most.
SPECIFICATION FairSpec
CHECK_DEADLOCK FALSE
CONSTANTS
  d1 = d1  d2 = d2  t1 = t1  r1 = r1  r2 = r2  NONE = NONE
  Deposit = {d1}  Transfer = {}  Request = {r1}  Inputs <- MCInputs  Change = {r1}
  OFFSET = 1  RETRO = 3  Observers = {"mint", "utxo"}  Capacity = 1  Start = 2  MaxHeight = 8  MaxLag = 2
  Faults = {"rpc", "db", "crash"}  FaultsUntil = 6
INVARIANTS TypeOK NoBlockMissed OnlyMature RowsTruthful
PROPERTIES DepositReported PayoutRecorded
