\* Three threads, two tenants, two shards.
CONSTANTS
  t1 = t1
  t2 = t2
  t3 = t3
  a = a
  b = b
  word = word
  None = None
  Threads = {t1, t2, t3}
  Tenants = {a, b}
  Terms = {word}
  NShards = 2
  ShardOf <- MCShardOf
  Calls <- MCCalls
SPECIFICATION FairSpec
INVARIANTS
  LocksTypeOK
  OneTriePerTenant
  QueriesSeeWrites
  NoCircularWait
PROPERTIES
  StatsListsTenants
  CallsReturn
