SPECIFICATION FairSpec
CONSTANTS
  MaxVersion = 2
  TTL = 1
  Jobs = {j1, j2}
  BlockTTL = 2
  Builders = {b1, b2}
INVARIANTS TypeOK OneRefresh
PROPERTIES QueriesSpaced SuppressorIsView BlockIsView CachesCatchUp SnapshotReturns
