SPECIFICATION Spec
CONSTANTS
  main = main
  cache = cache
  unknown = unknown
  main_alias = main_alias
  t1 = t1
  t2 = t2
  a1 = a1
  w1 = w1
  w2 = w2
  None = None
  UnknownName = unknown
  Workers = {w1}
  Stores <- OnlyMain
  SqlStores <- OnlyMain
  Pool <- TwoMain
  Aliases = {}
  AliasOf <- ToMain
  TxnIds = {t1, t2}
  Authorizations = {a1}
  MaxActive <- LimitOne
  Client <- ClientA
  Serialized = TRUE
  Faults = {}
  FetchAt = {}
INVARIANTS
  MaxActiveTransactionsHolds
