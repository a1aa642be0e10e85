SPECIFICATION Spec
CONSTANTS
  k1 = k1
  k2 = k2
  k3 = k3
  NoKey = NoKey
  NoValue = NoValue
  Key = {k1, k2, k3}
  Hash <- MCHash
  Cached = {v1}
  Cacheable = {k1, k2}
  InitialHandles = 2
  InitialCaches = 2
  MaxIndices = 8
  MaxItems = 2
INVARIANTS
  TypeOK
  SpaceForOneMore
  EntriesAreFound
  HandlesPartitioned
  CachesCounted
PROPERTIES
  ImplementsHandleMap
