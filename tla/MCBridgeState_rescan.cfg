\* The Bitcoin monitor reports the same deposit again.
SPECIFICATION Spec
CONSTANTS
  r1 = r1  r2 = r2  p1 = p1  p2 = p2  t1 = t1  t2 = t2  bad = bad
  o1 = o1  o2 = o2  b1 = b1  b2 = b2  m1 = m1  m2 = m2
  ZeroHash = ZeroHash  NULL = NULL  NoRow = NoRow
  PrepareTx = {p1, p2}  Terms = {t1, t2, bad}  BadTerms = {bad}
  Outpoints = {o1, o2}
  Request = {r1}  BtcTx = {b1, b2}  MintTx = {m1, m2}
  RequestedEvents = {}  PreparedEvents = {}
  MintedEvents <- MCMinted  LedgerNumbers = {}
  ChannelSize = 1  Faults = {}  RedeemDoneObserver = FALSE
INVARIANTS EmptyUntilMinted
