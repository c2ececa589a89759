SPECIFICATION Spec
CONSTANTS
  main = main
  cache = cache
  unknown = unknown
  main_alias = main_alias
  t1 = t1
  t2 = t2
  a1 = a1
  w1 = w1
  w2 = w2
  None = None
  UnknownName = unknown
  Workers = {w1, w2}
  Stores <- OnlyMain
  SqlStores <- OnlyMain
  Pool <- TwoMain
  Aliases = {main_alias}
  AliasOf <- ToMain
  TxnIds = {t1, t2}
  Authorizations = {a1}
  MaxActive <- LimitTwo
  Client <- ClientA
  Serialized = TRUE
  Faults = {"begin", "commit", "commit_ends", "rollback"}
  FetchAt = {}
SYMMETRY Alike
INVARIANTS
  TypeOK
  OneUserPerConnection
  EveryLeaseAccounted
  IdleConnectionsAreClean
  RegistrationsAgree
  EndsOnlyOwnWork
  BegunMeansReady
  
PROPERTIES
  ImplementsConnectionPool
  ImplementsExclusiveSessions
