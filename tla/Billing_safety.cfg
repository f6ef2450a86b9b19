SPECIFICATION Spec
CONSTANTS
  Customer = {c1, c2}
  User = {u1}
  Sweep = sweep
  Editor = {c1}
  Line = {l1}
  StripeId = {s1, s2}
  Attempt = {a1, a2}
  MaxMonth = 2
  Failures = {"lookup", "customer", "answer", "item", "invoice", "finalize", "crash"}
  None = None
  NoRow = NoRow
  NoId = NoId
  Unknown = Unknown
SYMMETRY Symmetry
INVARIANTS
  RunHasInvoice
  ChargesStayWithCustomer
  OneStripeCustomer
  RunLinesInvoiced
CHECK_DEADLOCK FALSE
