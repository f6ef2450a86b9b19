SPECIFICATION FairSpec
CONSTANTS
  Token = {t1, t2}
  Family = {f1}
  Proc = {p1, p2}
  Lifetime = 2
  MaxTime = 3
  None = None
INVARIANTS
  SpentTokensStayDenied
  RevocationSeenByLaterRefresh
  BurnedFamilyIsDead
PROPERTY
  RequestsFinish
CHECK_DEADLOCK FALSE
