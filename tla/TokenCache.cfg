SPECIFICATION FairSpec
CONSTANTS
  w1 = w1
  w2 = w2
  w3 = w3
  own = own
  shared = shared
  Outside = Outside
  None = None
  Workers = {w1, w2}
  Authorizations = {own, shared}
  Exclusive = {own}
  Times <- Clock
  Epoch = 0
  Minute = 2
  Ttl = 1
INVARIANTS
  TypeOK
  RulesStayAlive
  ServesCurrentToken
PROPERTIES
  OnlyCirclesHang
