SPECIFICATION AccountsSpec
CONSTANTS
  Account = {c1}
  Client = {p1, p2}
  Password = {w1, w2}
  Link = {l1, l2}
  LinkLife = 2
  Failure = {f1}
  Threshold = 1
  Window = 1
  MaxSlack = 1
  None = None
SYMMETRY Symmetry
INVARIANTS
  UsedLinkIsDead
PROPERTIES
  ChangedByOwnLink
  SignInAsSpecified
CHECK_DEADLOCK FALSE
