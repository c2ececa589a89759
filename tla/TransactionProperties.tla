------------------------- MODULE TransactionProperties -------------------------
(* What the handlers of TransactionHandlers must and must not do.           *)
EXTENDS TransactionHandlers

Labels ==
  {"idle", "respond",
   "begin_admit", "begin_lookup", "begin_lease", "begin_session",
   "begin_register_transaction", "begin_register_connection",
   "begin_register_authorization",
   "end_lookup", "end_check_active", "end_connection", "end_admit", "end_lock",
   "end_call",
   "end_unregister_transaction", "end_unregister_connection",
   "end_unregister_authorization", "end_return", "end_unlock",
   "query_admit", "query_lease", "query_begin", "query_connection",
   "query_transaction", "query_check_active", "query_lock", "query_execute",
   "query_commit", "query_unlock", "query_rollback", "query_return"}

Codes ==
  {"none", "REFUSED", "NO_CONNECTION", "NOT_SQL", "EXCEPTION", "ALREADY_BEGUN",
   "BEGUN", "INVALID_ID", "NOT_ACTIVE", "COMMITTED", "ROLLED_BACK", "EXECUTED",
   "FAILED"}

LocalTypeOK ==
  /\ pc \in [Workers -> Labels]
  /\ req \in [Workers -> Requests \cup {NoRequest}]
  /\ conn \in [Workers -> Connections \cup {None}]
  /\ txn \in [Workers -> Connections \cup {None}]
  /\ reply \in [Workers -> Codes]
  /\ holder \in [Connections -> Workers \cup {None}]
  /\ open \in [Connections -> BOOLEAN]
  /\ pending \in [Connections -> SUBSET (TxnIds \cup Workers)]
  /\ leaked \subseteq Connections

HandlerTypeOK == LocalTypeOK /\ peer \in [Workers -> Workers \cup {None}]

TypeOK == ManagerTypeOK /\ HandlerTypeOK

-----------------------------------------------------------------------------
(* The mutex of a connection.                                               *)

\* Between the lock and the unlock of a connection's mutex.
EndLocked ==
  {"end_call", "end_unregister_transaction", "end_unregister_connection",
   "end_unregister_authorization", "end_return", "end_unlock"}

QueryLocked == {"query_execute", "query_commit", "query_unlock"}

Locking(w, c) == conn[w] = c /\ pc[w] \in EndLocked \cup QueryLocked

\* The explicit lock() and unlock() of commit and rollback, and the lock_guard
\* of a query, keep to the mutex protocol on every path, the throwing ones
\* included: a mutex is held by exactly the worker that is between its lock and
\* its unlock, so it is never left locked and never unlocked by another.
LockDiscipline ==
  \A w \in Workers, c \in Connections : holder[c] = w <=> Locking(w, c)

\* The worker that w cannot go on without: the one that has its fetch, or the
\* one that holds the mutex it is about to lock.
WaitsFor(w) ==
  IF peer[w] # None THEN peer[w]
  ELSE IF pc[w] \in {"end_lock", "query_lock"} THEN holder[conn[w]] ELSE None

\* w waits in, or for, a circle of workers that wait for each other.
InCircle(w) ==
  \E S \in SUBSET Workers : w \in S /\ \A u \in S : WaitsFor(u) \in S

\* A mutex that a handler has taken is released again, whatever the other
\* workers do and however the session calls end: the one exception is a query
\* that asks this server about a command under its mutex and waits, in a circle,
\* for workers of which one may wait for that mutex.
LocksAreReleased ==
  \A w \in Workers, c \in Connections :
    holder[c] = w ~> holder[c] # w \/ InCircle(w)

\* What the place of a worker in its handler says of its request and of the
\* connection and transaction it has looked up.
BeginLabels ==
  {"begin_admit", "begin_lookup", "begin_lease", "begin_session",
   "begin_register_transaction", "begin_register_connection",
   "begin_register_authorization"}

EndLabels ==
  {"end_lookup", "end_check_active", "end_connection", "end_admit", "end_lock",
   "end_call", "end_unregister_transaction", "end_unregister_connection",
   "end_unregister_authorization", "end_return", "end_unlock"}

IdLabels == BeginLabels \cup EndLabels \cup {"query_connection", "query_transaction"}

ConnectionLabels ==
  {"begin_session", "begin_register_transaction", "begin_register_connection",
   "end_admit", "end_lock", "end_return", "end_unlock", "query_begin",
   "query_check_active", "query_lock", "query_execute", "query_commit", "query_unlock",
   "query_rollback", "query_return"}

TransactionLabels ==
  {"begin_register_transaction", "end_check_active", "end_connection", "end_admit",
   "end_lock", "end_call", "query_check_active", "query_commit", "query_rollback"}

ControlInv ==
  \A w \in Workers :
    /\ pc[w] # "idle" => req[w] \in Requests
    /\ pc[w] \in IdLabels => req[w].id \in TxnIds
    /\ pc[w] = "query_admit" => req[w].op = "query"
    /\ pc[w] \in ConnectionLabels => conn[w] \in Connections
    /\ pc[w] \in TransactionLabels => txn[w] \in Connections

\* The inductive invariant of the handlers under any clients: the manager's own
\* invariant survives every interleaving of the handlers, each worker has looked
\* up what it is about to use, and the mutexes are held as LockDiscipline says.
HandlersInv == ManagerInv /\ HandlerTypeOK /\ ControlInv /\ LockDiscipline

-----------------------------------------------------------------------------
(* Who uses a connection.                                                   *)

\* From the lease to the return or the loss of a leased connection.
Leasing ==
  {"begin_session", "begin_register_transaction", "begin_register_connection",
   "query_begin", "query_check_active", "query_lock", "query_execute",
   "query_commit", "query_unlock", "query_rollback", "query_return"}

\* From the moment commit or rollback unregisters the connection.
Unregistered == {"end_unregister_authorization", "end_return"}

\* Worker w is the one that must register or return c.
Responsible(w, c) ==
  /\ conn[w] = c
  /\ \/ pc[w] \in Leasing /\ (req[w].op = "begin" \/ Local(w))
     \/ pc[w] \in Unregistered

Registered(c) == \E id \in TxnIds : connectionOf[id] = c

\* The connection a worker works on through a registered transaction id.
UsesRegistered(w, c) ==
  /\ c \in {conn[w], txn[w]}
  /\ \/ pc[w] \in {"end_admit", "end_lock", "end_call", "end_unregister_transaction",
                   "end_unregister_connection"}
     \/ pc[w] \in Leasing /\ req[w].op = "query" /\ ~Local(w)

Uses(w, c) == Responsible(w, c) \/ UsesRegistered(w, c)

\* With one request at a time per id no two workers work on one connection,
\* through a lease of their own, a registered id, or a transaction pointer kept
\* from an earlier step.
OneUserPerConnection ==
  \A v, w \in Workers, c \in Connections : Uses(v, c) /\ Uses(w, c) => v = w

\* A leased connection is never forgotten, except by the error paths that drop
\* it: some worker is about to register or return it, or a transaction id leads
\* to it, and only one of these; an idle connection has none of them.
EveryLeaseAccounted ==
  \A c \in Connections :
    /\ c \in borrowed <=> \/ c \in leaked
                          \/ Registered(c)
                          \/ \E w \in Workers : Responsible(w, c)
    /\ c \in leaked => ~Registered(c) /\ \A w \in Workers : ~Uses(w, c)
    /\ Registered(c) => \A w \in Workers : ~Responsible(w, c)
    /\ \A i, j \in TxnIds : connectionOf[i] = c /\ connectionOf[j] = c => i = j

\* A connection goes back to its pool with no transaction open in its session
\* and no uncommitted command: the next lessee starts clean.
IdleConnectionsAreClean ==
  \A c \in Connections \ borrowed : ~open[c] /\ pending[c] = {}

\* Between requests on an id its two registrations agree: they name the same
\* connection or both are absent.
RegistrationsAgree ==
  \A id \in TxnIds :
    (\A w \in Workers : req[w].id # id) => transactionOf[id] = connectionOf[id]

\* A commit or a rollback ends a transaction that holds the commands of its own
\* id, or of its own request, and of nobody else.
EndsOnlyOwnWork ==
  \A w \in Workers :
    pc[w] \in {"end_call", "query_commit"} /\ open[txn[w]] =>
      pending[txn[w]] \subseteq {Tag(w)}

\* When begin answers success the id leads to the session it opened, in both
\* registries, and that session is in a transaction without commands.
BegunMeansReady ==
  \A w \in Workers :
    pc[w] = "respond" /\ reply[w] = "BEGUN" =>
      /\ transactionOf[req[w].id] = conn[w]
      /\ connectionOf[req[w].id] = conn[w]
      /\ open[conn[w]] /\ pending[conn[w]] = {}

\* Id id is in the vector that active_transaction_count_by_authorization counts.
Counted(a, id) ==
  activeIds[a] # None /\ \E i \in DOMAIN activeIds[a] : activeIds[a][i] = id

\* commit or rollback of id is between its first and its last unregistration.
Ending(id) ==
  \E w \in Workers :
    /\ req[w].id = id
    /\ pc[w] \in {"end_unregister_connection", "end_unregister_authorization"}

\* Nobody is charged against max_active_transactions for a transaction that is
\* over, or of another client: an id that is counted is the client's own and leads
\* to its transaction until the request that ends it erases it from the vector,
\* whatever failed on the way.
CountedIsOpen ==
  \A a \in Authorizations, id \in TxnIds :
    Counted(a, id) =>
      Client[id] = a /\ (transactionOf[id] # None \/ Ending(id))

\* Every request is answered, without the help of a timeout, unless its worker
\* waits for a circle of workers that fetch from each other.
RequestsAreAnswered ==
  \A w \in Workers : pc[w] # "idle" ~> pc[w] = "idle" \/ InCircle(w)

-----------------------------------------------------------------------------
(* Why a session serves one owner: the inductive invariant of the handlers  *)
(* when the requests on an id are serialized.                               *)

\* The owner o, a transaction id or a request without one, has c: c is
\* registered with the id, or a worker is responsible for it on its behalf.
\* What one worker leases under an id and another finds by it is one holding.
Holds(o, c) ==
  \/ o \in TxnIds /\ connectionOf[o] = c
  \/ \E w \in Workers : Tag(w) = o /\ Responsible(w, c)

\* Every leased connection has one owner, or was dropped and has none.
Accounting ==
  /\ leaked \subseteq borrowed
  /\ \A c \in borrowed \ leaked : \E o \in TxnIds \cup Workers : Holds(o, c)
  /\ \A c \in Connections, o \in TxnIds \cup Workers :
       Holds(o, c) => c \in borrowed \ leaked
  /\ \A c \in Connections, o, p \in TxnIds \cup Workers :
       Holds(o, c) /\ Holds(p, c) => o = p

\* A session that is not in a transaction has no pending command, an idle
\* connection is in none, and the pending commands are the owner's.
SessionsOfOwners ==
  \A c \in Connections :
    /\ ~open[c] => pending[c] = {}
    /\ c \notin borrowed => ~open[c]
    /\ c \notin leaked => \A o \in pending[c] : Holds(o, c)

\* One request at a time per id.
DistinctIds ==
  \A v, w \in Workers : req[v].id = req[w].id => v = w \/ req[v].id = None

\* Where the two registrations of an id differ.
HalfRegistered == {"begin_register_connection", "end_unregister_connection"}

\* The registrations of an id differ only while its request is in between.
RegistriesDifferBriefly ==
  \A id \in TxnIds :
    transactionOf[id] # connectionOf[id] =>
      \E w \in Workers : req[w].id = id /\ pc[w] \in HalfRegistered

QueryLabels ==
  {"query_admit", "query_lease", "query_begin", "query_connection",
   "query_transaction", "query_check_active", "query_lock", "query_execute",
   "query_commit", "query_unlock", "query_rollback", "query_return"}

\* A query works on its connection, with an id or without one.
Working == {"query_check_active", "query_lock", "query_execute", "query_unlock"}

\* What the request of worker w is, by its place in the handler.
RequestPhase(w) ==
  /\ pc[w] \in BeginLabels => req[w].op = "begin"
  /\ pc[w] \in QueryLabels => req[w].op = "query"
  /\ pc[w] \in {"query_lease", "query_begin", "query_commit", "query_rollback",
                "query_return"} => req[w].id = None
  /\ pc[w] \in {"idle", "query_admit", "query_lease"} => txn[w] = None
  /\ reply[w] = "BEGUN" => pc[w] = "respond"

\* What w has looked up is what it registered, leased or will unregister: its
\* connection and its transaction are of one session.
LookupPhase(w) ==
  /\ pc[w] \in {"begin_register_transaction", "begin_register_connection",
                "query_check_active", "query_commit", "query_rollback",
                "end_admit", "end_lock", "end_call", "end_unregister_transaction",
                "end_unregister_connection"} => txn[w] = conn[w]
  /\ pc[w] \in Working => \/ txn[w] = conn[w]
                          \/ req[w].id = None /\ txn[w] = None
  /\ pc[w] \in {"end_call", "end_unregister_transaction", "end_unregister_connection",
                "end_unregister_authorization"} => conn[w] \in Connections

\* What the id of w is registered with.
RegistryPhase(w) ==
  req[w].id # None =>
    /\ pc[w] \in {"begin_lease", "begin_session", "begin_register_transaction",
                  "end_unregister_connection"} =>
         transactionOf[req[w].id] = None
    /\ pc[w] \in {"begin_lease", "begin_session", "begin_register_transaction",
                  "begin_register_connection", "end_unregister_authorization",
                  "end_return"} =>
         connectionOf[req[w].id] = None
    /\ pc[w] = "begin_register_connection" => transactionOf[req[w].id] = txn[w]
    /\ pc[w] \in {"end_check_active", "end_connection"} =>
         transactionOf[req[w].id] = txn[w]
    /\ pc[w] \in Working \cup
         {"query_transaction", "begin_register_authorization", "end_admit",
          "end_lock", "end_call", "end_unregister_transaction",
          "end_unregister_connection"} =>
         connectionOf[req[w].id] = conn[w]

\* The answer of begin is success and the request is not over.
Begun(w) == pc[w] = "respond" /\ reply[w] = "BEGUN"

\* What the session of w's connection is in.
SessionPhase(w) ==
  /\ \/ pc[w] \in {"begin_session", "query_begin", "query_return",
                   "end_unregister_transaction", "end_unregister_connection",
                   "end_unregister_authorization", "end_return"}
     \/ pc[w] = "query_unlock" /\ req[w].id = None
     \/ pc[w] \in {"query_lock", "query_execute"} /\ txn[w] = None
     => ~open[conn[w]]
  /\ \/ pc[w] \in {"begin_register_transaction", "begin_register_connection",
                   "begin_register_authorization"}
     \/ Begun(w)
     => /\ conn[w] \in Connections
        /\ open[conn[w]] /\ pending[conn[w]] = {}
  /\ Begun(w) => req[w].id \in TxnIds /\ connectionOf[req[w].id] = conn[w]

Phases ==
  \A w \in Workers :
    RequestPhase(w) /\ LookupPhase(w) /\ RegistryPhase(w) /\ SessionPhase(w)

\* The inductive invariant of the handlers with one request at a time per id:
\* what each worker knows at its place stays true while the others go on, every
\* leased connection has one owner, and its session holds that owner's commands.
SessionInv ==
  DistinctIds /\ RegistriesDifferBriefly /\ Phases /\ Accounting /\ SessionsOfOwners

-----------------------------------------------------------------------------
(* The sessions as their owners see them.                                   *)

ASSUME LostAssumption == "lost" \notin TxnIds \cup Workers \cup {None}

OwnerOf ==
  [c \in Connections |->
     IF c \in leaked THEN "lost"
     ELSE IF Registered(c) THEN CHOOSE id \in TxnIds : connectionOf[id] = c
     ELSE IF \E w \in Workers : Responsible(w, c)
          THEN Tag(CHOOSE w \in Workers : Responsible(w, c))
          ELSE None]

Sessions == INSTANCE ExclusiveSessions
  WITH Owners <- TxnIds \cup Workers, Nobody <- None, Lost <- "lost",
       owner <- OwnerOf, work <- pending

\* With one request at a time per id the handlers implement exclusive sessions:
\* a session is opened, worked in and ended for its owner only.
ImplementsExclusiveSessions == Sessions!Spec

-----------------------------------------------------------------------------
(* What comments and messages of the handlers say.                          *)

\* A call of a worker into the session of c.
SessionCall(w, c) ==
  \/ /\ pc[w] \in {"begin_session", "query_begin", "query_rollback", "query_execute"}
     /\ conn[w] = c
  \/ pc[w] \in {"end_call", "query_commit"} /\ txn[w] = c

\* "Stay sure no other thread use this connection", which the lock of commit,
\* rollback and query is for: while a worker calls into a session under the
\* connection's mutex no other worker calls into it.
NoOtherThreadUsesConnection ==
  \A v, w \in Workers, c \in Connections :
    holder[c] = w /\ SessionCall(w, c) /\ SessionCall(v, c) => v = w

OpenTransactions(a) ==
  {id \in TxnIds : transactionOf[id] # None /\ Client[id] = a}

\* "Too many active transaction by authorization token": no authorization has
\* more transactions open than its max_active_transactions.
MaxActiveTransactionsHolds ==
  \A a \in Authorizations : Cardinality(OpenTransactions(a)) <= MaxActive[a]

\* "Success commit Store SQL Transaction": the answer says the transaction is
\* committed, so its id leads to no transaction any more.
CommittedMeansOver ==
  \A w \in Workers :
    pc[w] = "respond" /\ reply[w] = "COMMITTED" => transactionOf[req[w].id] = None
=============================================================================
