SPECIFICATION Spec
CONSTANTS
  Key = {k1, k2}
  Provider = {p1}
  Field = {f1}
  Value = {v1}
  Conn = {c1, c2}
  Worker = {w1, w2}
  None = None
SYMMETRY Symmetry
INVARIANTS
  VerdictIsTrue
  TokensSurvive
  EditsSurvive
CHECK_DEADLOCK FALSE
