\* The Aptos event readers.
SPECIFICATION SyncFairSpec
CHECK_DEADLOCK FALSE
CONSTANTS
  t1 = t1  t2 = t2  o1 = o1  b1 = b1
  ZeroHash = ZeroHash  NULL = NULL  NoRow = NoRow
  Request <- MCHash  PrepareTx <- MCHash  MintTx <- MCHash
  Terms = {t1}  BadTerms = {}  InvalidReceiver = {}  Outpoints = {o1}  BtcTx = {b1}
  RequestedEvents <- MCRequested  PreparedEvents <- MCPrepared
  MintedEvents <- MCMinted  LedgerNumbers <- MCHash
  ChannelSize = 1  Faults = {}  RedeemDoneObserver = FALSE
  Workers = {"chainsync"}
  Base = 98  Histories <- MCHistories  MaxLedger = 3  ForceScan = 98  PageSize = 2
  MaxCrashes = 0
PROPERTIES PreparedReachesAptos
