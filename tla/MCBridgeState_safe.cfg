\* Conflicting events of two redeems and of two deposits, a racing observer,
\* database faults and crashes.
SPECIFICATION Spec
CONSTANTS
  r1 = r1  r2 = r2  p1 = p1  p2 = p2  t1 = t1  t2 = t2  bad = bad
  o1 = o1  o2 = o2  b1 = b1  b2 = b2  m1 = m1  m2 = m2
  ZeroHash = ZeroHash  NULL = NULL  NoRow = NoRow
  PrepareTx = {p1, p2}  Terms = {t1, t2, bad}  BadTerms = {bad}
  Outpoints = {o1, o2}
  Request = {r1, r2}  BtcTx = {b1, b2}  MintTx = {m1, m2}
  RequestedEvents <- MCRequested  PreparedEvents <- MCPrepared
  MintedEvents <- MCMinted  LedgerNumbers = {2}
  ChannelSize = 1  Faults = {"db", "crash"}  RedeemDoneObserver = TRUE
INVARIANTS TypeOK RedeemRowsFaithful PrepareNotShared MintFaithful
PROPERTIES RedeemLifecycle MintNeverReopened
