\* Deposits and transfers of one user; a redeem to the user and one to the bridge.
SPECIFICATION Spec
CHECK_DEADLOCK FALSE
CONSTANTS
  alice = alice  bridge = bridge  evm = evm  apt = apt  tail = tail  r1 = r1  r2 = r2  NONE = NONE
  User = {alice}  Bridge = bridge  Genesis <- MCGenesis  Account = {evm, apt}
  EvmAddress = {evm, tail}  Last20 <- MCLast20
  DepositAmounts = {3, 7}  TransferAmounts = {4}  UserFees = {1}
  Request = {r1, r2}  RedeemAmount <- MCRedeemAmount  RedeemReceiver <- MCRedeemReceiver
  SafeMargin = 1  BtcTxFee = 1  MaxTx = 5  MaxFaults = 1
INVARIANTS TypeOK Payable PaidOnce FreeRowsUnspent CreditsRight FundsBalance
