CONSTANTS
  Accounts = {x, y, z}
  Unnameable = {z}
  Limit = 1
  PoolSize = 2
  MinimumTokens = 2
  MinimumShare = 40
  MaxRevisions = 2
  CacheSize = 1
  MaxCount = 2
  MaxChanges = 2
SPECIFICATION AttrSpec
INVARIANTS AttrTypeOK NamedWereHuman NobodyPassedOver
