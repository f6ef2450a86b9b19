SPECIFICATION Spec
CONSTANTS
  starter = starter
  gold = gold
  basic = basic
  extra = extra
  Plan = {p1, p2}
  Name = {starter, gold}
  Stack = {basic, extra}
  Defaults <- MCDefaults
  Patches <- MCPatches
  Customer = {c1}
  Admin = {a1, a2}
  Reader = {r1, r2}
  MaxKbs = 2
  MaxOpen = 2
  Unlimited = Unlimited
  Keep = Keep
  None = None
SYMMETRY Symmetry
PROPERTIES
  GateHolds
  AdmittedIsBilled
  EditsAreNamed
CHECK_DEADLOCK FALSE
