\* The worker of the server, no faults.
SPECIFICATION FairSpec
CHECK_DEADLOCK FALSE
CONSTANTS
  alice = alice  bob = bob  fees = fees  b1 = b1  b2 = b2  r1 = r1  r2 = r2
  o1 = o1  o2 = o2  NONE = NONE  Source = "aptos_contract"
  Account = {alice, fees}  Registered = {alice, fees}  FeeAccount = fees
  Fee = 1  MaxSupply = 20  Amounts = {3}  Transfers = {}  TimeoutLedgers = 1
  Hardcoded = alice
  BtcTx = {b1}  Deposited <- MCDeposited  Request = {r1}  Outpoint = {o1}  TxOf <- MCTxOf
  PrepareBy = "AptosSyncWorker"  MaxTx = 3  Faults = {}
PROPERTIES RedeemPrepared
