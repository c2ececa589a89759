---------------------- MODULE StoreConnectionManagerProofs ----------------------
(***************************************************************************)
(* The pool invariant of StoreConnectionManager for any stores, pool sizes *)
(* and ids.  The lemmas are about one method each, so that the handlers    *)
(* that call the methods can cite them.                                    *)
(***************************************************************************)
EXTENDS StoreConnectionManager, TLAPS

\* The part of the type invariant the pool methods touch.
PoolTypeOK ==
  /\ queue \in [Stores -> Seq(Connections)]
  /\ borrowed \subseteq Connections

\* A connection is a record of a store that has a pool.
LEMMA ConnectionStore ==
  ASSUME NEW c \in Connections
  PROVE  c.store \in Stores
  BY DEF Connections

\* What a name resolves to is a store, or nothing.
LEMMA RealNameType ==
  ASSUME NEW name
  PROVE  RealName(name) \in Stores \cup {None}
  BY AliasAssumption DEF RealName

\* lease_store_connection_by_name keeps the pool invariant: the head leaves its
\* queue at the moment it becomes borrowed.
LEMMA LeaseKeepsPool ==
  ASSUME NEW name, PoolTypeOK, PoolIntegrity, LeaseStoreConnectionByName(name)
  PROVE  PoolTypeOK' /\ PoolIntegrity'
<1> DEFINE s == RealName(name)
           q == queue[s]
           h == Head(q)
<1>1. s \in Stores /\ q # <<>> /\ q \in Seq(Connections)
  BY RealNameType DEF LeaseStoreConnectionByName, NothingToLease, PoolTypeOK
<1> HIDE DEF s
<1>2. Len(q) \in Nat \ {0} /\ h = q[1] /\ h \in Connections
  BY <1>1
<1>3. /\ Tail(q) \in Seq(Connections)
      /\ Len(Tail(q)) = Len(q) - 1
      /\ \A i \in 1..Len(Tail(q)) : Tail(q)[i] = q[i + 1]
  BY <1>1, <1>2
<1>4. /\ queue' = [queue EXCEPT ![s] = Tail(q)]
      /\ borrowed' = borrowed \cup {h}
  BY DEF LeaseStoreConnectionByName, NextLeased, s
<1>5. PoolTypeOK'
  BY <1>1, <1>2, <1>3, <1>4 DEF PoolTypeOK
<1>6. /\ queue'[s] = Tail(q)
      /\ \A r \in Stores : r # s => queue'[r] = queue[r]
  BY <1>1, <1>4 DEF PoolTypeOK
<1>7. h.store = s
  BY <1>1, <1>2 DEF PoolIntegrity, QueueHoldsOnlyOwn
<1> HIDE DEF q, h
<1>8. QueueHoldsOnlyOwn'
  <2>1. \A i \in 1..Len(queue'[s]) : queue'[s][i].store = s
    BY <1>1, <1>2, <1>3, <1>6 DEF PoolIntegrity, QueueHoldsOnlyOwn, q
  <2>2. QED
    BY <2>1, <1>6 DEF PoolIntegrity, QueueHoldsOnlyOwn
<1>9. QueueHasNoDuplicates'
  <2>1. \A i, j \in 1..Len(queue'[s]) : queue'[s][i] = queue'[s][j] => i = j
    BY <1>1, <1>2, <1>3, <1>6 DEF PoolIntegrity, QueueHasNoDuplicates, q
  <2>2. QED
    BY <2>1, <1>6 DEF PoolIntegrity, QueueHasNoDuplicates
<1>10. QueuedIffNotBorrowed'
  <2> SUFFICES ASSUME NEW c \in Connections
               PROVE  c \notin borrowed' <=>
                        \E i \in 1..Len(queue'[c.store]) : queue'[c.store][i] = c
    BY DEF QueuedIffNotBorrowed
  <2>1. c.store \in Stores
    BY ConnectionStore
  <2>2. c \notin borrowed <=> \E i \in 1..Len(queue[c.store]) : queue[c.store][i] = c
    BY DEF PoolIntegrity, QueuedIffNotBorrowed
  <2>3. CASE c.store # s
    BY <2>1, <2>2, <2>3, <1>4, <1>6, <1>7
  <2>4. CASE c.store = s /\ c = h
    <3>1. \A i \in 1..Len(Tail(q)) : Tail(q)[i] # h
      BY <1>1, <1>2, <1>3 DEF PoolIntegrity, QueueHasNoDuplicates, q
    <3>2. QED
      BY <3>1, <2>4, <1>4, <1>6
  <2>5. CASE c.store = s /\ c # h
    <3>1. (\E i \in 1..Len(q) : q[i] = c) <=> (\E i \in 1..Len(Tail(q)) : Tail(q)[i] = c)
      <4>1. ASSUME NEW i \in 1..Len(q), q[i] = c
            PROVE  \E j \in 1..Len(Tail(q)) : Tail(q)[j] = c
        <5>1. i # 1
          BY <4>1, <1>2, <2>5
        <5>2. i - 1 \in 1..Len(Tail(q)) /\ Tail(q)[i - 1] = c
          BY <4>1, <5>1, <1>2, <1>3
        <5>3. QED
          BY <5>2
      <4>2. ASSUME NEW i \in 1..Len(Tail(q)), Tail(q)[i] = c
            PROVE  \E j \in 1..Len(q) : q[j] = c
        <5>1. i + 1 \in 1..Len(q) /\ q[i + 1] = c
          BY <4>2, <1>2, <1>3
        <5>2. QED
          BY <5>1
      <4>3. QED
        BY <4>1, <4>2
    <3>2. QED
      BY <3>1, <2>2, <2>5, <1>4, <1>6 DEF q
  <2>6. QED
    BY <2>3, <2>4, <2>5
<1>11. QED
  BY <1>5, <1>8, <1>9, <1>10 DEF PoolIntegrity

\* return_leased_store_connection keeps the pool invariant, whoever calls it and
\* however often: borrowed_ is tested and cleared under the same lock.
LEMMA ReturnKeepsPool ==
  ASSUME NEW c \in Connections, PoolTypeOK, PoolIntegrity,
         ReturnLeasedStoreConnection(c)
  PROVE  PoolTypeOK' /\ PoolIntegrity'
<1>1. CASE c \notin borrowed
  BY <1>1 DEF ReturnLeasedStoreConnection, CanReturn, poolVars, PoolTypeOK,
     PoolIntegrity, QueueHoldsOnlyOwn, QueueHasNoDuplicates, QueuedIffNotBorrowed
<1>2. CASE c \in borrowed
  <2> DEFINE s == c.store
             q == queue[s]
  <2>1. s \in Stores /\ q \in Seq(Connections)
    BY ConnectionStore DEF PoolTypeOK
  <2> HIDE DEF s
  <2>2. /\ Len(q) \in Nat
        /\ Append(q, c) \in Seq(Connections)
        /\ Len(Append(q, c)) = Len(q) + 1
        /\ \A i \in 1..Len(q) : Append(q, c)[i] = q[i]
        /\ Append(q, c)[Len(q) + 1] = c
    BY <2>1
  <2>3. /\ queue' = [queue EXCEPT ![s] = Append(q, c)]
        /\ borrowed' = borrowed \ {c}
    BY <1>2 DEF ReturnLeasedStoreConnection, CanReturn, s
  <2>4. PoolTypeOK'
    BY <2>1, <2>2, <2>3 DEF PoolTypeOK
  <2>5. /\ queue'[s] = Append(q, c)
        /\ \A r \in Stores : r # s => queue'[r] = queue[r]
    BY <2>1, <2>3 DEF PoolTypeOK
  <2>6. c.store = s
    BY DEF s
  <2>7. \A i \in 1..Len(q) : q[i] # c
    BY <1>2, <2>6 DEF PoolIntegrity, QueuedIffNotBorrowed
  <2>8. \A i \in 1..Len(q) + 1 : i \in 1..Len(q) \/ i = Len(q) + 1
    BY <2>2
  <2> HIDE DEF q
  <2>9. QueueHoldsOnlyOwn'
    <3>1. \A i \in 1..Len(queue'[s]) : queue'[s][i].store = s
      BY <2>1, <2>2, <2>5, <2>6, <2>8 DEF PoolIntegrity, QueueHoldsOnlyOwn, q
    <3>2. QED
      BY <3>1, <2>5 DEF PoolIntegrity, QueueHoldsOnlyOwn
  <2>10. QueueHasNoDuplicates'
    <3>1. \A i, j \in 1..Len(q) : q[i] = q[j] => i = j
      BY <2>1 DEF PoolIntegrity, QueueHasNoDuplicates, q
    <3>2. \A i, j \in 1..Len(queue'[s]) : queue'[s][i] = queue'[s][j] => i = j
      BY <3>1, <2>2, <2>5, <2>7, <2>8
    <3>3. QED
      BY <3>2, <2>5 DEF PoolIntegrity, QueueHasNoDuplicates
  <2>11. QueuedIffNotBorrowed'
    <3> SUFFICES ASSUME NEW d \in Connections
                 PROVE  d \notin borrowed' <=>
                          \E i \in 1..Len(queue'[d.store]) : queue'[d.store][i] = d
      BY DEF QueuedIffNotBorrowed
    <3>1. d.store \in Stores
      BY ConnectionStore
    <3>2. d \notin borrowed <=> \E i \in 1..Len(queue[d.store]) : queue[d.store][i] = d
      BY DEF PoolIntegrity, QueuedIffNotBorrowed
    <3>3. CASE d.store # s
      BY <3>1, <3>2, <3>3, <2>3, <2>5, <2>6
    <3>4. CASE d = c
      <4>1. Len(q) + 1 \in 1..Len(queue'[s]) /\ queue'[s][Len(q) + 1] = c
        BY <2>2, <2>5
      <4>2. QED
        BY <4>1, <3>4, <2>3, <2>6
    <3>5. CASE d.store = s /\ d # c
      <4>1. (\E i \in 1..Len(q) : q[i] = d) <=>
              (\E i \in 1..Len(Append(q, c)) : Append(q, c)[i] = d)
        BY <2>2, <2>8, <3>5
      <4>2. QED
        BY <4>1, <3>2, <3>5, <2>3, <2>5 DEF q
    <3>6. QED
      BY <3>3, <3>4, <3>5
  <2>12. QED
    BY <2>4, <2>9, <2>10, <2>11 DEF PoolIntegrity
<1>3. QED
  BY <1>1, <1>2

-----------------------------------------------------------------------------
(* The vectors of active transaction ids.                                   *)

\* The type invariant of the vectors together with their bound: the bound is
\* what makes the first occurrence of an id the whole vector.
VectorInv ==
  /\ activeIds \in [Authorizations -> Seq(TxnIds) \cup {None}]
  /\ \A a \in Authorizations : activeIds[a] # None => Len(activeIds[a]) <= 1

\* Erasing an id from a vector of at most one id empties it if the id is there and
\* leaves it alone if not.
LEMMA RemoveFirstShort ==
  ASSUME NEW v \in Seq(TxnIds), Len(v) <= 1, NEW id
  PROVE  RemoveFirst(v, id) = IF \E i \in 1..Len(v) : v[i] = id THEN <<>> ELSE v
<1>1. Len(v) \in Nat
  OBVIOUS
<1>2. CASE ~ \E i \in 1..Len(v) : v[i] = id
  BY <1>2 DEF RemoveFirst
<1>3. CASE \E i \in 1..Len(v) : v[i] = id
  <2> DEFINE I == {i \in 1..Len(v) : v[i] = id}
  <2>1. Len(v) = 1 /\ I = {1}
    <3>1. PICK i \in 1..Len(v) : v[i] = id
      BY <1>3
    <3>2. Len(v) = 1 /\ i = 1
      <4>1. \A n \in Nat : n <= 1 /\ i \in 1..n => n = 1 /\ i = 1
        OBVIOUS
      <4>2. QED
        BY <4>1, <1>1
    <3>3. 1..Len(v) = {1} /\ v[1] = id
      BY <3>1, <3>2
    <3>4. QED
      BY <3>2, <3>3
  <2>2. SelectInSeq(v, LAMBDA u : u = id) = 1
    <3>1. Min(I) = 1
      BY <2>1 DEF Min
    <3>2. QED
      BY <2>1, <3>1 DEF SelectInSeq
  <2>3. RemoveFirst(v, id) = RemoveAt(v, 1)
    BY <1>3, <2>2 DEF RemoveFirst
  <2>4. RemoveAt(v, 1) = <<>>
    <3>1. SubSeq(v, 1, 0) = <<>> /\ SubSeq(v, 2, 1) = <<>>
      OBVIOUS
    <3>2. QED
      BY <2>1, <3>1 DEF RemoveAt
  <2>5. QED
    BY <1>3, <2>3, <2>4
<1>4. QED
  BY <1>2, <1>3

\* register_transaction_id_to_authorization keeps the vectors short.
LEMMA RegisterKeepsVectors ==
  ASSUME NEW a \in Authorizations, NEW id \in TxnIds, VectorInv,
         RegisterTransactionIdToAuthorization(a, id)
  PROVE  VectorInv'
<1>1. <<id>> \in Seq(TxnIds) /\ Len(<<id>>) = 1
  OBVIOUS
<1>2. QED
  BY <1>1 DEF VectorInv, RegisterTransactionIdToAuthorization

\* unregister_transaction_id_by_authorization keeps the vectors short.
LEMMA UnregisterKeepsVectors ==
  ASSUME NEW a \in Authorizations, NEW id \in TxnIds, VectorInv,
         UnregisterTransactionIdByAuthorization(a, id)
  PROVE  VectorInv'
<1>1. <<>> \in Seq(TxnIds) /\ Len(<<>>) = 0
  OBVIOUS
<1>2. ASSUME activeIds[a] # None
      PROVE  RemoveFirst(activeIds[a], id) \in {activeIds[a], <<>>}
  BY <1>2, RemoveFirstShort DEF VectorInv
<1> DEFINE w == IF activeIds[a] = None THEN None ELSE RemoveFirst(activeIds[a], id)
<1>3. w \in Seq(TxnIds) \cup {None} /\ (w # None => Len(w) <= 1)
  <2>1. CASE activeIds[a] = None
    BY <2>1
  <2>2. CASE activeIds[a] # None
    <3>1. w \in {activeIds[a], <<>>}
      BY <1>2, <2>2
    <3>2. activeIds[a] \in Seq(TxnIds) /\ Len(activeIds[a]) <= 1
      BY <2>2 DEF VectorInv
    <3> HIDE DEF w
    <3>3. 0 <= 1
      OBVIOUS
    <3>4. QED
      BY <3>1, <3>2, <3>3, <1>1
  <2>3. QED
    BY <2>1, <2>2
<1>4. activeIds' = [activeIds EXCEPT ![a] = w]
  BY DEF UnregisterTransactionIdByAuthorization
<1>5. QED
  BY <1>3, <1>4 DEF VectorInv

-----------------------------------------------------------------------------
(* The invariant of the manager under its most general caller.              *)

\* The type invariant and the vector bound, part by part.
LEMMA InvParts ==
  ManagerInv <=> /\ PoolTypeOK
                 /\ PoolIntegrity
                 /\ VectorInv
                 /\ transactionOf \in [TxnIds -> Connections \cup {None}]
                 /\ connectionOf \in [TxnIds -> Connections \cup {None}]
<1>1. ASSUME NEW a \in Authorizations
      PROVE  ActiveTransactionCount(a) <= 1 <=>
               (activeIds[a] # None => Len(activeIds[a]) <= 1)
  BY DEF ActiveTransactionCount
<1>2. QED
  BY <1>1 DEF ManagerInv, ManagerTypeOK, AtMostOneCounted, PoolTypeOK, VectorInv

\* The pools init_stores_connections leaves satisfy the pool invariant.
LEMMA InitPool == ManagerInit => PoolTypeOK /\ PoolIntegrity
<1> SUFFICES ASSUME ManagerInit
             PROVE  PoolTypeOK /\ PoolIntegrity
  OBVIOUS
<1> DEFINE q(s) == [i \in 1..Pool[s] |-> [store |-> s, index |-> i - 1]]
<1>1. queue = [s \in Stores |-> q(s)] /\ borrowed = {}
  BY DEF ManagerInit
<1>2. ASSUME NEW s \in Stores
      PROVE  /\ q(s) \in Seq(Connections)
             /\ Len(q(s)) = Pool[s]
             /\ Pool[s] \in Nat
             /\ queue[s] = q(s)
  <2>1. Pool[s] \in Nat
    BY PoolAssumption
  <2>2. ASSUME NEW i \in 1..Pool[s]
        PROVE  [store |-> s, index |-> i - 1] \in Connections
    <3>1. i - 1 \in 0..(Pool[s] - 1)
      BY <2>1
    <3>2. QED
      BY <3>1 DEF Connections
  <2>3. QED
    BY <2>1, <2>2, <1>1
<1>3. PoolTypeOK
  BY <1>1, <1>2 DEF PoolTypeOK
<1>4. QueueHoldsOnlyOwn
  <2> SUFFICES ASSUME NEW s \in Stores, NEW i \in 1..Len(queue[s])
               PROVE  queue[s][i].store = s
    BY DEF QueueHoldsOnlyOwn
  <2>1. i \in 1..Pool[s] /\ queue[s] = q(s)
    BY <1>2
  <2>2. q(s)[i].store = s
    BY <2>1
  <2>3. QED
    BY <2>1, <2>2
<1>5. QueueHasNoDuplicates
  <2> SUFFICES ASSUME NEW s \in Stores,
                      NEW i \in 1..Len(queue[s]), NEW j \in 1..Len(queue[s]),
                      queue[s][i] = queue[s][j]
               PROVE  i = j
    BY DEF QueueHasNoDuplicates
  <2>1. i \in 1..Pool[s] /\ j \in 1..Pool[s]
    BY <1>2
  <2>2. q(s)[i].index = i - 1 /\ q(s)[j].index = j - 1
    BY <2>1
  <2>3. i - 1 = j - 1
    BY <2>2, <1>2
  <2>4. i \in Int /\ j \in Int
    BY <2>1, <1>2
  <2>5. QED
    BY <2>3, <2>4
<1>6. QueuedIffNotBorrowed
  <2> SUFFICES ASSUME NEW c \in Connections
               PROVE  \E i \in 1..Len(queue[c.store]) : queue[c.store][i] = c
    BY <1>1 DEF QueuedIffNotBorrowed
  <2>1. PICK s \in Stores : \E k \in 0..(Pool[s] - 1) : c = [store |-> s, index |-> k]
    BY DEF Connections
  <2>2. PICK k \in 0..(Pool[s] - 1) : c = [store |-> s, index |-> k]
    BY <2>1
  <2>3. k + 1 \in 1..Pool[s] /\ (k + 1) - 1 = k
    <3>1. \A n \in Nat : \A m \in 0..(n - 1) : m + 1 \in 1..n /\ (m + 1) - 1 = m
      OBVIOUS
    <3>2. QED
      BY <3>1, <1>2
  <2>4. q(s)[k + 1] = c /\ c.store = s
    BY <2>2, <2>3
  <2>5. QED
    BY <2>3, <2>4, <1>2
<1>7. QED
  BY <1>3, <1>4, <1>5, <1>6 DEF PoolIntegrity

\* The initial state satisfies the invariant.
LEMMA InitInv == ManagerInit => ManagerInv
<1>1. ManagerInit => VectorInv
  BY DEF ManagerInit, VectorInv
<1>2. ManagerInit => /\ transactionOf \in [TxnIds -> Connections \cup {None}]
                     /\ connectionOf \in [TxnIds -> Connections \cup {None}]
  BY DEF ManagerInit
<1>3. QED
  BY <1>1, <1>2, InitPool, InvParts

\* Every method call keeps the invariant.
LEMMA NextInv == ManagerInv /\ [ManagerNext]_managerVars => ManagerInv'
<1> SUFFICES ASSUME ManagerInv, [ManagerNext]_managerVars
             PROVE  ManagerInv'
  OBVIOUS
<1>1. /\ PoolTypeOK
      /\ PoolIntegrity
      /\ VectorInv
      /\ transactionOf \in [TxnIds -> Connections \cup {None}]
      /\ connectionOf \in [TxnIds -> Connections \cup {None}]
  BY InvParts
<1>StepParts. (/\ PoolTypeOK
       /\ PoolIntegrity
       /\ VectorInv
       /\ transactionOf \in [TxnIds -> Connections \cup {None}]
       /\ connectionOf \in [TxnIds -> Connections \cup {None}])' => ManagerInv'
  BY InvParts, PTL
<1>SameConnections. Connections' = Connections
  BY DEF Connections
<1>2. ASSUME UNCHANGED poolVars
      PROVE  PoolTypeOK' /\ PoolIntegrity'
  BY <1>1, <1>2 DEF poolVars, PoolTypeOK, PoolIntegrity, QueueHoldsOnlyOwn,
     QueueHasNoDuplicates, QueuedIffNotBorrowed
<1>3. ASSUME UNCHANGED activeIds
      PROVE  VectorInv'
  BY <1>1, <1>3 DEF VectorInv
<1> DEFINE Rest == /\ transactionOf' \in [TxnIds -> Connections \cup {None}]
                   /\ connectionOf' \in [TxnIds -> Connections \cup {None}]
<1>4. CASE PoolStep
  <2>1. PoolTypeOK' /\ PoolIntegrity'
    <3>1. ASSUME NEW name \in Stores \cup Aliases, LeaseStoreConnectionByName(name)
          PROVE  PoolTypeOK' /\ PoolIntegrity'
      BY <1>1, <3>1, LeaseKeepsPool
    <3>2. ASSUME NEW c \in Connections, ReturnLeasedStoreConnection(c)
          PROVE  PoolTypeOK' /\ PoolIntegrity'
      BY <1>1, <3>2, ReturnKeepsPool
    <3>3. QED
      BY <1>4, <3>1, <3>2 DEF PoolStep
  <2>2. VectorInv' /\ Rest
    BY <1>1, <1>3, <1>4 DEF PoolStep
  <2>3. QED
    BY <2>1, <2>2, <1>StepParts, <1>SameConnections
<1>5. CASE TransactionStep
  <2>1. PoolTypeOK' /\ PoolIntegrity' /\ VectorInv'
    BY <1>2, <1>3, <1>5 DEF TransactionStep, poolVars
  <2>2. Rest
    BY <1>1, <1>5 DEF TransactionStep, RegisterTransactionToId, UnregisterTransactionById
  <2>3. QED
    BY <2>1, <2>2, <1>StepParts, <1>SameConnections
<1>6. CASE ConnectionStep
  <2>1. PoolTypeOK' /\ PoolIntegrity' /\ VectorInv'
    BY <1>2, <1>3, <1>6 DEF ConnectionStep, poolVars
  <2>2. Rest
    BY <1>1, <1>6 DEF ConnectionStep, RegisterStoreConnectionToId,
       UnregisterStoreConnectionById
  <2>3. QED
    BY <2>1, <2>2, <1>StepParts, <1>SameConnections
<1>7. CASE AuthorizationStep
  <2>1. PoolTypeOK' /\ PoolIntegrity' /\ Rest
    BY <1>1, <1>2, <1>7 DEF AuthorizationStep, poolVars
  <2>2. VectorInv'
    BY <1>1, <1>7, RegisterKeepsVectors, UnregisterKeepsVectors DEF AuthorizationStep
  <2>3. QED
    BY <2>1, <2>2, <1>StepParts, <1>SameConnections
<1>8. CASE UNCHANGED managerVars
  <2>1. PoolTypeOK' /\ PoolIntegrity' /\ VectorInv' /\ Rest
    BY <1>1, <1>2, <1>3, <1>8 DEF managerVars, poolVars
  <2>2. QED
    BY <2>1, <1>StepParts, <1>SameConnections
<1>9. QED
  BY <1>4, <1>5, <1>6, <1>7, <1>8 DEF ManagerNext

\* The manager's invariant holds for ever, for any stores, pools and callers.
THEOREM ManagerInvariance == ManagerSpec => []ManagerInv
<1>1. QED
  BY InitInv, NextInv, PTL DEF ManagerSpec

\* The maps, queues and vectors of the manager hold values of their types.
THEOREM ManagerTypeCorrect == ManagerSpec => []ManagerTypeOK
<1>1. ManagerInv => ManagerTypeOK
  BY DEF ManagerInv
<1>2. QED
  BY <1>1, ManagerInvariance, PTL

\* No interleaving of leases and returns loses a connection, queues it twice or
\* leases it to two callers, for any number of stores and any pool sizes.
THEOREM PoolIsSound == ManagerSpec => []PoolIntegrity
<1>1. ManagerInv => PoolIntegrity
  BY DEF ManagerInv
<1>2. QED
  BY <1>1, ManagerInvariance, PTL

\* The queues and flags of the manager implement the abstract pool: every lease
\* takes an idle connection of the wanted store, every effective return frees
\* one, all the other calls are stutters of the pool.
THEOREM PoolRefinement == ManagerSpec => ImplementsConnectionPool
<1>1. ManagerInit => ConnectionPool!Init
  BY DEF ManagerInit, ConnectionPool!Init
<1>2. ManagerInv /\ [ManagerNext]_managerVars
        => [ConnectionPool!Next]_(Connections \ borrowed)
  <2> SUFFICES ASSUME ManagerInv, [ManagerNext]_managerVars,
                      (Connections \ borrowed)' # Connections \ borrowed
               PROVE  ConnectionPool!Next
    OBVIOUS
  <2>1. PoolTypeOK /\ PoolIntegrity
    BY InvParts
  <2>2. PoolStep
    BY DEF ManagerNext, TransactionStep, ConnectionStep, AuthorizationStep,
       managerVars, Connections
  <2>3. CASE \E name \in Stores \cup Aliases : LeaseStoreConnectionByName(name)
    <3>1. PICK name \in Stores \cup Aliases : LeaseStoreConnectionByName(name)
      BY <2>3
    <3> DEFINE s == RealName(name)
               h == NextLeased(name)
    <3>2. s \in Stores /\ queue[s] # <<>> /\ queue[s] \in Seq(Connections)
      BY <2>1, <3>1, RealNameType
         DEF LeaseStoreConnectionByName, NothingToLease, PoolTypeOK
    <3> HIDE DEF s
    <3>3. h = queue[s][1] /\ 1 \in 1..Len(queue[s]) /\ h \in Connections
      BY <3>2 DEF NextLeased, s
    <3>4. h.store = s /\ h \notin borrowed
      BY <2>1, <3>2, <3>3 DEF PoolIntegrity, QueueHoldsOnlyOwn, QueuedIffNotBorrowed
    <3>5. borrowed' = borrowed \cup {h}
      BY <3>1 DEF LeaseStoreConnectionByName
    <3>6. Connections' = Connections
      BY DEF Connections
    <3> HIDE DEF h
    <3>7. (Connections \ borrowed)' = (Connections \ borrowed) \ {h}
      BY <3>5, <3>6
    <3>8. QED
      BY <3>2, <3>3, <3>4, <3>7 DEF ConnectionPool!Next, ConnectionPool!Lease
  <2>4. CASE \E c \in Connections : ReturnLeasedStoreConnection(c)
    <3>1. PICK c \in Connections : ReturnLeasedStoreConnection(c)
      BY <2>4
    <3>2. Connections' = Connections
      BY DEF Connections
    <3>3. c \in borrowed /\ borrowed' = borrowed \ {c}
      BY <3>1, <3>2 DEF ReturnLeasedStoreConnection, CanReturn, poolVars
    <3>4. (Connections \ borrowed)' = (Connections \ borrowed) \cup {c}
      BY <3>2, <3>3
    <3>5. QED
      BY <3>3, <3>4 DEF ConnectionPool!Next, ConnectionPool!Return
  <2>5. QED
    BY <2>2, <2>3, <2>4 DEF PoolStep
<1>3. QED
  BY <1>1, <1>2, ManagerInvariance, PTL
     DEF ManagerSpec, ImplementsConnectionPool, ConnectionPool!Spec
=============================================================================
