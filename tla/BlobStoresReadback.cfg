\* Fresh directories: a put reported successful, then read back.
CONSTANTS
  m1 = m1  m2 = m2  d1 = d1  d2 = d2  d3 = d3  s1 = s1  s2 = s2
  Mounts <- MCMounts
  Data <- MCData
  Shards <- MCShards
  ShardOf <- MCShardOf
  CacheShards = {}
  ServerShards = {}
  QCap = 1
SPECIFICATION Spec
INVARIANT ReadYourWrites
