\* No faults: deposits and their rescans, redeems that want outpoints of one
\* deposit, the transactions they lead to, and tokens that change hands.
SPECIFICATION FairSpec
CHECK_DEADLOCK FALSE
CONSTANTS
  alice = alice  bob = bob  fees = fees  b1 = b1  b2 = b2  r1 = r1  r2 = r2
  o1 = o1  o2 = o2  NONE = NONE  Source = "aptos_contract"
  Account = {alice, bob, fees}  Registered = {alice, fees}  FeeAccount = fees
  Fee = 1  MaxSupply = 20  Amounts = {3}  Transfers = {7}  TimeoutLedgers = 1
  Hardcoded = alice
  BtcTx = {b1, b2}  Deposited <- MCDeposited  Request = {r1, r2}  Outpoint = {o1, o2}  TxOf <- MCTxOfOne
  PrepareBy = "AptosMgrWorker"  MaxTx = 4  Faults = {}
INVARIANTS SupplyRight OutpointsNotShared
PROPERTIES DepositMinted TrackedSettles
