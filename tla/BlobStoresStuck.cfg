\* A fresh cache directory, and a blob server whose data directory already
\* has its shard directories (created by an operator or an earlier version).
CONSTANTS
  m1 = m1  m2 = m2  d1 = d1  d2 = d2  d3 = d3  s1 = s1  s2 = s2
  Mounts <- MCMounts
  Data <- MCData
  Shards <- MCShards
  ShardOf <- MCShardOf
  CacheShards = {}
  ServerShards = {s1, s2}
  QCap = 2
SPECIFICATION Spec
PROPERTY WritebackDrains
