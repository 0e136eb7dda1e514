\* Three clients on one term and a channel of one: two are parked in line.
CONSTANTS
  c1 = c1
  c2 = c2
  c3 = c3
  k1 = k1
  k2 = k2
  Clients = {c1, c2, c3}
  Keys = {k1}
  Owns <- MCAllShare
  Weights = {1}
  MaxFreq = 1
  Absent = Absent
  NoOp = NoOp
  ChannelCapacity = 1
  MaxBatch = 2
  FlushIntervals = {0, 1}
  FlushOutcomes = {TRUE, FALSE}
SPECIFICATION FairSpec
PROPERTIES
  ShutdownReturns
  SubmitResolves
  QuietQueueDrains
