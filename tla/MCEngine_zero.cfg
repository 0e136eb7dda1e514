\* A flush interval of zero milliseconds.
CONSTANTS
  c1 = c1
  c2 = c2
  c3 = c3
  k1 = k1
  k2 = k2
  Clients = {c1, c2}
  Keys = {k1}
  Owns <- MCShared
  Weights = {1}
  MaxFreq = 1
  Absent = Absent
  NoOp = NoOp
  ChannelCapacity = 2
  MaxBatch = 2
  FlushIntervals = {0}
  FlushOutcomes = {TRUE}
SPECIFICATION Spec
PROPERTIES
  BackpressureMeansSaturated
