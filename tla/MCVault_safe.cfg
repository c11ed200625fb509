\* Requests, releases, database faults and crashes at every step.
SPECIFICATION Spec
CHECK_DEADLOCK FALSE
CONSTANTS
  u1 = u1  u2 = u2  u3 = u3  i1 = i1  i2 = i2
  NONE = NONE  SafeMargin = 1
  UTXO = {u1, u2, u3}  Amount <- MCAmount
  Id = {i1, i2}  RequestAmount <- MCRequestAmount
  TimeoutDelay = 0  MaxTime = 2  Releases = {"expire", "command"}  Faults = {"db", "crash"}
INVARIANTS GrantsDisjoint GrantMinimal
PROPERTIES GrantKept
