\* Prefix and fuzzy queries, every order of the children.
CONSTANTS
  Terms <- MCTerms
  Weights = {1}
  MaxFreq = 2
  Absent = Absent
  Queries <- MCQueries
  MaxBudget = 2
  None = None
SPECIFICATION SearchSpec
INVARIANTS
  SearchTypeOK
  RowsAreDistances
  AnswerIsTopK
PROPERTIES
  CutoffOnlyRises
  WalksEnd
