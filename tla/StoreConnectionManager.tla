------------------------ MODULE StoreConnectionManager ------------------------
(***************************************************************************)
(* The static class Store::StoreConnectionManager: the pools of idle store *)
(* connections and the registries that bind a transaction id to its SOCI   *)
(* transaction and to its connection, and an authorization to the vector   *)
(* of its active transaction ids.                                          *)
(*                                                                         *)
(* Every method takes the one static mutex_ for its whole body, so every   *)
(* method is one atomic action here.  Methods that only read are operators *)
(* on the state.  A SOCI transaction object is owned by the session that   *)
(* begun it and is identified with the connection of that session.         *)
(***************************************************************************)
EXTENDS Naturals, Sequences, FiniteSets, SequencesExt

CONSTANTS
  Stores,         \* the names that have a queue: stores with a connection up
  Pool,           \* [Stores -> how many connections of the store came up]
  Aliases,        \* names in the stores_connections_alias section
  AliasOf,        \* [Aliases -> Stores]
  TxnIds,         \* transaction ids, chosen by a client or generated
  Authorizations, \* authorization tokens
  None            \* a null shared_ptr, an absent key

\* One pooled object: Store::StoreConnection with name() and index_.
Connections ==
  UNION {{[store |-> s, index |-> i] : i \in 0..(Pool[s] - 1)} : s \in Stores}

ASSUME PoolAssumption == Pool \in [Stores -> Nat \ {0}]
ASSUME AliasAssumption == AliasOf \in [Aliases -> Stores]
ASSUME NoneAssumption == /\ None \notin Connections
                         /\ None \notin Stores
                         /\ None \notin Seq(TxnIds)

VARIABLES
  queue,          \* map_name_to_queue_store_connection_
  borrowed,       \* the connections whose borrowed_ is true
  transactionOf,  \* map_id_to_store_sql_connection_transaction_
  connectionOf,   \* map_id_to_store_connection_
  activeIds       \* map_authorization_to_vector_active_transaction_id_

poolVars == <<queue, borrowed>>
managerVars == <<queue, borrowed, transactionOf, connectionOf, activeIds>>

ManagerTypeOK ==
  /\ queue \in [Stores -> Seq(Connections)]
  /\ borrowed \subseteq Connections
  /\ transactionOf \in [TxnIds -> Connections \cup {None}]
  /\ connectionOf \in [TxnIds -> Connections \cup {None}]
  /\ activeIds \in [Authorizations -> Seq(TxnIds) \cup {None}]

\* init_stores_connections has run: each queue holds the connections of its
\* store in the order of their index_, nothing is leased or registered.
ManagerInit ==
  /\ queue = [s \in Stores |->
                [i \in 1..Pool[s] |-> [store |-> s, index |-> i - 1]]]
  /\ borrowed = {}
  /\ transactionOf = [id \in TxnIds |-> None]
  /\ connectionOf = [id \in TxnIds |-> None]
  /\ activeIds = [a \in Authorizations |-> None]

-----------------------------------------------------------------------------
(* Names.                                                                   *)

\* A real name shadows an alias; a name that is neither becomes "".
RealName(name) ==
  IF name \in Stores THEN name
  ELSE IF name \in Aliases THEN AliasOf[name] ELSE None

-----------------------------------------------------------------------------
(* The pools.                                                               *)

\* lease_store_connection_by_name returns null.
NothingToLease(name) ==
  RealName(name) = None \/ queue[RealName(name)] = <<>>

\* The connection the next lease of this name hands out.
NextLeased(name) == Head(queue[RealName(name)])

\* Mutant: the connection is flagged but stays in its queue.
LeaseWithoutPop(name) ==
  /\ ~NothingToLease(name)
  /\ borrowed' = borrowed \cup {NextLeased(name)}
  /\ UNCHANGED queue

LeaseStoreConnectionByName(name) ==
  /\ ~NothingToLease(name)
  /\ borrowed' = borrowed \cup {NextLeased(name)}
  /\ queue' = [queue EXCEPT ![RealName(name)] = Tail(@)]

\* Mutant: every connection can be returned at any time.
ReturnAlways(c) == c \in Connections

\* The check that makes a second return of one lease harmless.
CanReturn(c) == c \in borrowed

\* Mutant: the flags of the whole store are cleared.
ReturnWholeStore(c) ==
  IF CanReturn(c)
  THEN /\ borrowed' = {b \in borrowed : b.store # c.store}
       /\ queue' = [queue EXCEPT ![c.store] = Append(@, c)]
  ELSE UNCHANGED poolVars

ReturnLeasedStoreConnection(c) ==
  IF CanReturn(c)
  THEN /\ borrowed' = borrowed \ {c}
       /\ queue' = [queue EXCEPT ![c.store] = Append(@, c)]
  ELSE UNCHANGED poolVars

-----------------------------------------------------------------------------
(* The registries.  An id that is already registered is left alone and the  *)
(* method returns false, which no caller looks at.                          *)

RegisterTransactionToId(id, t) ==
  transactionOf' = [transactionOf EXCEPT ![id] = IF @ = None THEN t ELSE @]

\* Mutant: the id is never erased.
KeepTransaction(id) == transactionOf' = [transactionOf EXCEPT ![id] = @]

UnregisterTransactionById(id) ==
  transactionOf' = [transactionOf EXCEPT ![id] = None]

RegisterStoreConnectionToId(id, c) ==
  connectionOf' = [connectionOf EXCEPT ![id] = IF @ = None THEN c ELSE @]

\* Mutant: the id is never erased.
KeepConnection(id) == connectionOf' = [connectionOf EXCEPT ![id] = @]

UnregisterStoreConnectionById(id) ==
  connectionOf' = [connectionOf EXCEPT ![id] = None]

ActiveTransactionCount(a) ==
  IF activeIds[a] = None THEN 0 ELSE Len(activeIds[a])

\* Mutant: the two arguments, both strings, are swapped in the push.
RegisterKey(a, id) ==
  activeIds' = [activeIds EXCEPT ![a] = IF @ = None THEN <<a>> ELSE @]

\* The id is pushed only when the authorization has no vector yet.
RegisterTransactionIdToAuthorization(a, id) ==
  activeIds' = [activeIds EXCEPT ![a] = IF @ = None THEN <<id>> ELSE @]

\* Mutant: the id stays in the vector.
KeepCounted(a, id) == activeIds' = [activeIds EXCEPT ![a] = @]

\* The id is erased from the vector; the vector stays, empty or not.
UnregisterTransactionIdByAuthorization(a, id) ==
  activeIds' = [activeIds EXCEPT ![a] =
                  IF @ = None THEN None ELSE RemoveFirst(@, id)]

-----------------------------------------------------------------------------
(* The manager under its most general caller: any thread may call any       *)
(* method with any argument at any time, a connection may be returned twice *)
(* or returned by a caller that did not lease it.                           *)

PoolStep ==
  /\ \/ \E name \in Stores \cup Aliases : LeaseStoreConnectionByName(name)
     \/ \E c \in Connections : ReturnLeasedStoreConnection(c)
  /\ UNCHANGED <<transactionOf, connectionOf, activeIds>>

TransactionStep ==
  /\ \E id \in TxnIds :
       \/ \E t \in Connections : RegisterTransactionToId(id, t)
       \/ UnregisterTransactionById(id)
  /\ UNCHANGED <<queue, borrowed, connectionOf, activeIds>>

ConnectionStep ==
  /\ \E id \in TxnIds :
       \/ \E c \in Connections : RegisterStoreConnectionToId(id, c)
       \/ UnregisterStoreConnectionById(id)
  /\ UNCHANGED <<queue, borrowed, transactionOf, activeIds>>

AuthorizationStep ==
  /\ \E a \in Authorizations, id \in TxnIds :
       \/ RegisterTransactionIdToAuthorization(a, id)
       \/ UnregisterTransactionIdByAuthorization(a, id)
  /\ UNCHANGED <<queue, borrowed, transactionOf, connectionOf>>

ManagerNext ==
  PoolStep \/ TransactionStep \/ ConnectionStep \/ AuthorizationStep

ManagerSpec == ManagerInit /\ [][ManagerNext]_managerVars

-----------------------------------------------------------------------------
(* Properties.                                                              *)

QueueHoldsOnlyOwn ==
  \A s \in Stores : \A i \in 1..Len(queue[s]) : queue[s][i].store = s

QueueHasNoDuplicates ==
  \A s \in Stores : \A i, j \in 1..Len(queue[s]) :
    queue[s][i] = queue[s][j] => i = j

QueuedIffNotBorrowed ==
  \A c \in Connections :
    c \notin borrowed <=> \E i \in 1..Len(queue[c.store]) : queue[c.store][i] = c

\* Every connection is either leased or idle exactly once in the queue of its
\* own store, whatever the order of leases and returns: no connection is lost,
\* queued twice by a repeated return_leased_store_connection, or handed to two
\* lessees by lease_store_connection_by_name.
PoolIntegrity ==
  /\ QueueHoldsOnlyOwn
  /\ QueueHasNoDuplicates
  /\ QueuedIffNotBorrowed

\* register_transaction_id_to_authorization never lets the vector of an
\* authorization grow past one id, so the count that
\* active_transaction_count_by_authorization answers is 0 or 1 however many
\* transactions of that authorization are open.
AtMostOneCounted ==
  \A a \in Authorizations : ActiveTransactionCount(a) <= 1

\* The inductive invariant of the manager.
ManagerInv == ManagerTypeOK /\ PoolIntegrity /\ AtMostOneCounted

\* What the pool promises its callers, whatever order it hands out.
ConnectionPool == INSTANCE ConnectionPool WITH idle <- Connections \ borrowed

\* The FIFO queues and borrowed_ flags implement the abstract pool: a lease
\* takes an idle connection of the store, a return frees a leased one.
ImplementsConnectionPool == ConnectionPool!Spec
=============================================================================
