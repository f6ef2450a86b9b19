SPECIFICATION Spec
CONSTANTS
  Gateway = {g1}
  Client = {c1}
  Req = {r1, r2}
  Kinds = {"auth", "csp"}
  Budget <- MCBudget
  MaxBuckets = 1
  Span = 1
  Patience = 1
  MaxTime = 2
  Fingerprint = {f1}
  MaxPosts = 2
  MaxArrivals = 2
  Worker = {t1, t2}
  Redis = Redis
  Never = Never
  None = None
SYMMETRY Symmetry
INVARIANTS
  CspTableBounded
PROPERTIES
  LimiterKeepsQuota
CHECK_DEADLOCK FALSE
