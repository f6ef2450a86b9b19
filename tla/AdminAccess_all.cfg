SPECIFICATION Spec
CONSTANTS
  Admin = {a1, a2}
  Email = {root, other}
  Root = root
  Pair = {k1, k2, k3}
  Proc = {p1, p2}
  Given = {"superadmin", "viewer"}
  AccessLife = 1
  RefreshLife = 1
  MaxTime = 1
  None = None
SYMMETRY Symmetry
INVARIANTS
  SpentRefreshIsDead
  RoleFromLogin
PROPERTIES
  LastSuperadminFallsToStaleClaim
CHECK_DEADLOCK FALSE
