SPECIFICATION FairSpec
CONSTANTS
  main = main
  cache = cache
  unknown = unknown
  main_alias = main_alias
  t1 = t1
  t2 = t2
  a1 = a1
  w1 = w1
  w2 = w2
  None = None
  UnknownName = unknown
  Workers = {w1, w2}
  Stores <- MainAndCache
  SqlStores <- OnlyMain
  Pool <- OneEach
  Aliases = {}
  AliasOf <- ToMain
  TxnIds = {t1}
  Authorizations = {a1}
  MaxActive <- LimitOne
  Client <- ClientA
  Serialized = TRUE
  Faults = {"begin", "commit", "commit_ends", "rollback"}
  FetchAt = {"begin_admit", "end_admit", "query_admit"}
INVARIANTS
  EveryLeaseAccounted
  SessionInv
PROPERTIES
  RequestsAreAnswered
