\* Any request, every fault, rows of other programs.
CONSTANTS
  a = a
  b = b
  slash = slash
  bad = bad
  Sep = Sep
  Byte = {a, b, slash, Sep}
  Unroutable = {slash}
  NotUtf8 = {bad}
  Base = 2
  Width = 2
  Malformed = Malformed
  Tenants <- MCTenants
  Terms <- MCTerms
  Weights = {2}
  ForeignRows <- MCForeign
  ChannelCapacity = 1
  MaxBatch = 2
  MaxImages = 2
  Faults = {"crash", "power", "final flush"}
  TrustNotFound = FALSE
  Absent = Absent
  None = None
SPECIFICATION Spec
INVARIANTS
  ServiceTypeOK
  AnswersHold
  ForeignRowsStay
