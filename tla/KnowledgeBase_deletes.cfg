SPECIFICATION Spec
CONSTANTS
  SqlKb = {k1}
  ExternalKb = {k2}
  Group = {g1}
  Gen = {e1}
  Job = {}
  Task = {t1}
  Thread = {p1, p2}
  MaxKbs = 2
  MaxDocs = 0
  Failures = {"lookup", "upsert", "purge"}
  None = None
SYMMETRY Symmetry
INVARIANTS
  QuietDeleteLeavesNothing
  QuotaStopsIngest
CHECK_DEADLOCK FALSE
