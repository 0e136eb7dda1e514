\* No fault but the timeout: a delete that is tried again.
CONSTANTS
  a = a
  b = b
  slash = slash
  bad = bad
  Sep = Sep
  Byte = {a, b, slash, Sep}
  Unroutable = {slash}
  NotUtf8 = {bad}
  Base = 2
  Width = 2
  Malformed = Malformed
  Tenants <- MCFewTenants
  Terms <- MCFewTerms
  Weights = {2}
  ForeignRows <- MCNoForeign
  ChannelCapacity = 1
  MaxBatch = 2
  MaxImages = 2
  Faults = {}
  TrustNotFound = TRUE
  Absent = Absent
  None = None
SPECIFICATION Spec
INVARIANTS
  AnswersHold
