\* Inserts, sets and removes of nested and diverging terms: the nodes.
CONSTANTS
  Terms <- MCTerms
  Weights = {0, 1}
  MaxFreq = 2
  Absent = Absent
SPECIFICATION Spec
INVARIANTS
  TypeOK
  CanonicalShape
  MaximaExact
  DescendCovers
