\* No failing write, one writer per term: a call waits too long.
CONSTANTS
  c1 = c1
  c2 = c2
  c3 = c3
  k1 = k1
  k2 = k2
  Clients = {c1, c2}
  Keys = {k1, k2}
  Owns <- MCOneEach
  Weights = {1}
  MaxFreq = 1
  Absent = Absent
  NoOp = NoOp
  ChannelCapacity = 1
  MaxBatch = 2
  FlushIntervals = {1}
  FlushOutcomes = {TRUE}
SPECIFICATION Spec
INVARIANTS
  WaitingLosesNothing
