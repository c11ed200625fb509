\* A user redeems part of a deposit.
SPECIFICATION ContractSpec
CHECK_DEADLOCK FALSE
CONSTANTS
  alice = alice  fees = fees  stranger = stranger
  b1 = b1  b2 = b2  b3 = b3  r1 = r1  r2 = r2  o1 = o1  o2 = o2  o3 = o3
  NONE = NONE  Source = "aptos_contract"
  Account = {alice, fees, stranger}  Registered = {alice, fees}  FeeAccount = fees
  Fee = 1  MaxSupply = 9
  BtcTx = {b1, b2, b3}  Deposited <- MCDeposited
  Request = {r1, r2}  Outpoint = {o1, o2, o3}  TxOf <- MCTxOf
  Amounts = {1, 2, 4}  Transfers = {}
INVARIANTS Backed
