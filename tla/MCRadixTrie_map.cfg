\* The same operations on fewer terms: what the trie holds.
CONSTANTS
  Terms <- MCFewTerms
  Weights = {0, 1}
  MaxFreq = 2
  Absent = Absent
SPECIFICATION Spec
PROPERTIES
  ImplementsMap
