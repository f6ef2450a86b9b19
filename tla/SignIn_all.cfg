SPECIFICATION FairSpec
CONSTANTS
  Account = {a1}
  Client = {p1, p2}
  Failure = {f1, f2, f3, f4}
  Threshold = 2
  Window = 2
  MaxSlack = 1
  None = None
INVARIANTS
  GuessesBounded
  UnlockHeeded
PROPERTIES
  LockNotProlonged
  LockEnds
CHECK_DEADLOCK FALSE
