SPECIFICATION Spec
CONSTANTS
  SqlKb = {k1}
  ExternalKb = {}
  Group = {g1}
  Gen = {e1, e2, e3}
  Job = {j1}
  Task = {t1, t2}
  Thread = {p1}
  MaxKbs = 1
  MaxDocs = 1
  Failures = {"restart"}
  None = None
SYMMETRY Symmetry
INVARIANTS
  NoDuplicateDocs
  SqlDocHasVector
  NeverOvercounts
  DocCountIsExact
  QuotaStopsIngest
PROPERTY
  JobsNotDropped
CHECK_DEADLOCK FALSE
