\* Every fault, with one writer per term.
CONSTANTS
  c1 = c1
  c2 = c2
  c3 = c3
  k1 = k1
  k2 = k2
  Clients = {c1, c2}
  Keys = {k1, k2}
  Owns <- MCOneEach
  Weights = {1, 2}
  MaxFreq = 2
  Absent = Absent
  NoOp = NoOp
  ChannelCapacity = 2
  MaxBatch = 2
  FlushIntervals = {0, 1}
  FlushOutcomes = {TRUE, FALSE}
SPECIFICATION Spec
INVARIANTS
  TypeOK
  DrainConverges
PROPERTIES
  RestartKeepsMemory
  ImplementsLog
