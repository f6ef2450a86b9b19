SPECIFICATION FairSpec
CONSTANTS
  Customer = {c1}
  User = {u1}
  Sweep = sweep
  Editor = {}
  Line = {l1}
  StripeId = {s1, s2}
  Attempt = {a1, a2, a3}
  MaxMonth = 2
  Failures = {"lookup", "customer"}
  None = None
  NoRow = NoRow
  NoId = NoId
  Unknown = Unknown
PROPERTY
  SettledMonthIsClosed
  EventuallyBilled
CHECK_DEADLOCK FALSE
