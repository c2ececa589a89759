-------------------------- MODULE TransactionHandlers --------------------------
(***************************************************************************)
(* The HTTP handlers that use the connection manager, run by the worker    *)
(* threads of the server: store/transaction/begin, commit, rollback and    *)
(* store/query with one Execute block.                                     *)
(*                                                                         *)
(* A handler takes no lock of its own over its calls of the manager, so    *)
(* every call of a manager method, every call of the SOCI session and      *)
(* every lock or unlock of a connection's mutex is a step of its own.      *)
(* Local computation between two of them belongs to the step before.       *)
(***************************************************************************)
EXTENDS StoreConnectionManager

CONSTANTS
  Workers,      \* the worker threads of the http server
  SqlStores,    \* the stores whose connections have an sql_connection()
  UnknownName,  \* a store name that is neither a store nor an alias
  MaxActive,    \* [Authorizations -> max_active_transactions of its token]
  Client,       \* [TxnIds -> the authorization that uses the id]
  Serialized,   \* TRUE: one request at a time per transaction id
  Faults,       \* the ways a session call may throw
  FetchAt       \* the checks that may ask this same server

FaultKinds == {"begin", "commit", "commit_ends", "rollback"}

\* Where check_autorization runs, and where a command is checked.
Checks == {"begin_admit", "end_admit", "query_admit", "query_execute"}

ASSUME HandlerAssumption ==
  /\ SqlStores \subseteq Stores
  /\ MaxActive \in [Authorizations -> Nat]
  /\ Client \in [TxnIds -> Authorizations]
  /\ Serialized \in BOOLEAN
  /\ Faults \subseteq FaultKinds
  /\ FetchAt \subseteq Checks
  /\ UnknownName \notin Stores \cup Aliases
  /\ None \notin TxnIds \cup Workers
  /\ TxnIds \cap Workers = {}

VARIABLES
  pc,       \* where each worker is in its handler
  req,      \* the request it serves
  conn,     \* its store_connection
  txn,      \* its store_sql_connection_in_transaction
  reply,    \* the Code of the response it is building
  holder,   \* who holds the mutex of each connection
  open,     \* whether the session of each connection is in a transaction
  pending,  \* whose commands that transaction of the session would commit
  leaked,   \* connections a handler dropped without returning them
  peer      \* the worker whose answer each worker waits for

handlerVars == <<pc, req, conn, txn, reply>>
sessionVars == <<open, pending>>
localVars == <<handlerVars, sessionVars, holder, leaked>>
vars == <<managerVars, localVars, peer>>

-----------------------------------------------------------------------------
(* Requests.  A query without a TransactionId runs in a transaction of its  *)
(* own; commit and rollback name no store.                                  *)

Names == Stores \cup Aliases \cup {UnknownName}

Requests ==
  [op : {"begin"}, name : Names, id : TxnIds, auth : Authorizations]
  \cup [op : {"commit", "rollback"}, name : {None}, id : TxnIds, auth : Authorizations]
  \cup [op : {"query"}, name : Names, id : TxnIds \cup {None}, auth : Authorizations]

NoRequest == [op |-> "none", name |-> None, id |-> None, auth |-> None]

EntryPoint(op) ==
  CASE op = "begin" -> "begin_admit"
    [] op = "query" -> "query_admit"
    [] OTHER -> "end_lookup"

\* The client discipline of a Serialized instance: an id belongs to one client,
\* which waits for the answer to one request on it before it sends the next.
MayArrive(r) ==
  Serialized /\ r.id # None =>
    /\ r.auth = Client[r.id]
    /\ \A v \in Workers : req[v].id # r.id

Local(w) == req[w].op = "query" /\ req[w].id = None

\* Who the commands of a request belong to: the transaction id, or the request
\* itself when it has none.
Tag(w) == IF req[w].id = None THEN w ELSE req[w].id

IsSql(c) == c.store \in SqlStores

-----------------------------------------------------------------------------
Init ==
  /\ ManagerInit
  /\ pc = [w \in Workers |-> "idle"]
  /\ req = [w \in Workers |-> NoRequest]
  /\ conn = [w \in Workers |-> None]
  /\ txn = [w \in Workers |-> None]
  /\ reply = [w \in Workers |-> "none"]
  /\ holder = [c \in Connections |-> None]
  /\ open = [c \in Connections |-> FALSE]
  /\ pending = [c \in Connections |-> {}]
  /\ leaked = {}
  /\ peer = [w \in Workers |-> None]

Goto(w, label) ==
  pc' = [pc EXCEPT ![w] = label]

Answer(w, code) ==
  /\ pc' = [pc EXCEPT ![w] = "respond"]
  /\ reply' = [reply EXCEPT ![w] = code]

\* The http server hands a request to an idle worker.
Receive(w) ==
  /\ pc[w] = "idle"
  /\ \E r \in Requests :
       /\ MayArrive(r)
       /\ req' = [req EXCEPT ![w] = r]
       /\ Goto(w, EntryPoint(r.op))
  /\ UNCHANGED <<managerVars, conn, txn, reply, sessionVars, holder, leaked>>

\* The handler returns: its shared pointers are released, the answer is sent.
Respond(w) ==
  /\ pc[w] = "respond"
  /\ Goto(w, "idle")
  /\ req' = [req EXCEPT ![w] = NoRequest]
  /\ conn' = [conn EXCEPT ![w] = None]
  /\ txn' = [txn EXCEPT ![w] = None]
  /\ reply' = [reply EXCEPT ![w] = "none"]
  /\ UNCHANGED <<managerVars, sessionVars, holder, leaked>>

-----------------------------------------------------------------------------
(* The SOCI session.  begin() answers the session's one transaction object  *)
(* and starts it unless it is already active; commit() and rollback() end   *)
(* it; any of them may throw as far as Faults says.                         *)

SessionBegins(c) ==
  /\ open' = [open EXCEPT ![c] = TRUE]
  /\ UNCHANGED pending

\* commit() and rollback() leave no command pending in the session.
SessionEnds(c) ==
  /\ open' = [open EXCEPT ![c] = FALSE]
  /\ pending' = [pending EXCEPT ![c] = {}]

\* A throwing commit() leaves the transaction active or over; on a transaction
\* that is not active commit() and rollback() may also throw.
SessionThrows(op, c) ==
  \/ /\ ~open[c] \/ op \in Faults
     /\ UNCHANGED sessionVars
  \/ /\ op = "commit" /\ "commit_ends" \in Faults
     /\ SessionEnds(c)

\* Commands of worker w on c: outside a transaction nothing stays pending, and
\* the commands may all fail one by one.
SessionExecutes(w, c) ==
  /\ \/ UNCHANGED pending
     \/ open[c] /\ pending' = [pending EXCEPT ![c] = @ \cup {Tag(w)}]
  /\ UNCHANGED open

Lock(w, c) ==
  /\ holder[c] = None
  /\ holder' = [holder EXCEPT ![c] = w]

Unlock(c) == holder' = [holder EXCEPT ![c] = None]

-----------------------------------------------------------------------------
(* handler_store_transaction_begin                                          *)

\* The store name, check_autorization and the count of open transactions.
BeginAdmit(w) ==
  /\ pc[w] = "begin_admit"
  /\ \/ Answer(w, "REFUSED")
     \/ /\ RealName(req[w].name) # None
        /\ ActiveTransactionCount(req[w].auth) < MaxActive[req[w].auth]
        /\ Goto(w, "begin_lookup")
        /\ UNCHANGED reply
  /\ UNCHANGED <<managerVars, req, conn, txn, sessionVars, holder, leaked>>

\* Mutant: begin does not look the id up.
NeverBegun(id) == FALSE

AlreadyBegun(id) == transactionOf[id] # None

BeginLookup(w) ==
  /\ pc[w] = "begin_lookup"
  /\ IF AlreadyBegun(req[w].id)
     THEN Answer(w, "ALREADY_BEGUN")
     ELSE Goto(w, "begin_lease") /\ UNCHANGED reply
  /\ UNCHANGED <<managerVars, req, conn, txn, sessionVars, holder, leaked>>

\* A connection that is not SQL is leased and never returned.
BeginLease(w) ==
  /\ pc[w] = "begin_lease"
  /\ \/ /\ NothingToLease(req[w].name)
        /\ Answer(w, "NO_CONNECTION")
        /\ UNCHANGED <<poolVars, conn, leaked>>
     \/ /\ LeaseStoreConnectionByName(req[w].name)
        /\ conn' = [conn EXCEPT ![w] = NextLeased(req[w].name)]
        /\ IF IsSql(NextLeased(req[w].name))
           THEN Goto(w, "begin_session") /\ UNCHANGED <<reply, leaked>>
           ELSE /\ Answer(w, "NOT_SQL")
                /\ leaked' = leaked \cup {NextLeased(req[w].name)}
  /\ UNCHANGED <<transactionOf, connectionOf, activeIds, req, txn, sessionVars, holder>>

\* begin() runs without the connection's mutex; when it throws the connection
\* is dropped by the handler's outer catch.
BeginSession(w) ==
  /\ pc[w] = "begin_session"
  /\ \/ /\ SessionBegins(conn[w])
        /\ txn' = [txn EXCEPT ![w] = conn[w]]
        /\ Goto(w, "begin_register_transaction")
        /\ UNCHANGED <<reply, leaked>>
     \/ /\ "begin" \in Faults
        /\ Answer(w, "EXCEPTION")
        /\ leaked' = leaked \cup {conn[w]}
        /\ UNCHANGED <<sessionVars, txn>>
  /\ UNCHANGED <<managerVars, req, conn, holder>>

BeginRegisterTransaction(w) ==
  /\ pc[w] = "begin_register_transaction"
  /\ RegisterTransactionToId(req[w].id, txn[w])
  /\ Goto(w, "begin_register_connection")
  /\ UNCHANGED <<poolVars, connectionOf, activeIds, req, conn, txn, reply,
                 sessionVars, holder, leaked>>

\* Mutant: the connection is not registered.
BeginForgetsConnection(w) ==
  /\ pc[w] = "begin_register_connection"
  /\ Goto(w, "begin_register_authorization")
  /\ UNCHANGED <<managerVars, req, conn, txn, reply, sessionVars, holder, leaked>>

BeginRegisterConnection(w) ==
  /\ pc[w] = "begin_register_connection"
  /\ RegisterStoreConnectionToId(req[w].id, conn[w])
  /\ Goto(w, "begin_register_authorization")
  /\ UNCHANGED <<poolVars, transactionOf, activeIds, req, conn, txn, reply,
                 sessionVars, holder, leaked>>

BeginRegisterAuthorization(w) ==
  /\ pc[w] = "begin_register_authorization"
  /\ RegisterTransactionIdToAuthorization(req[w].auth, req[w].id)
  /\ Answer(w, "BEGUN")
  /\ UNCHANGED <<poolVars, transactionOf, connectionOf, req, conn, txn,
                 sessionVars, holder, leaked>>

-----------------------------------------------------------------------------
(* handler_store_transaction_commit and handler_store_transaction_rollback  *)

EndLookup(w) ==
  /\ pc[w] = "end_lookup"
  /\ IF transactionOf[req[w].id] = None
     THEN Answer(w, "INVALID_ID") /\ UNCHANGED txn
     ELSE /\ txn' = [txn EXCEPT ![w] = transactionOf[req[w].id]]
          /\ Goto(w, "end_check_active")
          /\ UNCHANGED reply
  /\ UNCHANGED <<managerVars, req, conn, sessionVars, holder, leaked>>

EndCheckActive(w) ==
  /\ pc[w] = "end_check_active"
  /\ IF open[txn[w]]
     THEN Goto(w, "end_connection") /\ UNCHANGED reply
     ELSE Answer(w, "NOT_ACTIVE")
  /\ UNCHANGED <<managerVars, req, conn, txn, sessionVars, holder, leaked>>

\* Without a registered connection check_autorization is not called and no
\* mutex is taken.
EndConnection(w) ==
  /\ pc[w] = "end_connection"
  /\ conn' = [conn EXCEPT ![w] = connectionOf[req[w].id]]
  /\ Goto(w, IF connectionOf[req[w].id] = None THEN "end_call" ELSE "end_admit")
  /\ UNCHANGED <<managerVars, req, txn, reply, sessionVars, holder, leaked>>

EndAdmit(w) ==
  /\ pc[w] = "end_admit"
  /\ \/ Answer(w, "REFUSED")
     \/ Goto(w, "end_lock") /\ UNCHANGED reply
  /\ UNCHANGED <<managerVars, req, conn, txn, sessionVars, holder, leaked>>

EndLock(w) ==
  /\ pc[w] = "end_lock"
  /\ Lock(w, conn[w])
  /\ Goto(w, "end_call")
  /\ UNCHANGED <<managerVars, req, conn, txn, reply, sessionVars, leaked>>

Success(op) == IF op = "commit" THEN "COMMITTED" ELSE "ROLLED_BACK"

\* Mutant: the session is not called.
CallNothing(w) == UNCHANGED sessionVars

\* commit() or rollback() of the transaction found by the id.
CallEnd(w) == SessionEnds(txn[w])

\* Mutant: the catch block forgets the mutex.
KeepLocked(w) == UNCHANGED holder

\* The mutex was taken only if a connection was registered.
UnlockIfLocked(w) ==
  IF conn[w] = None THEN UNCHANGED holder ELSE Unlock(conn[w])

\* catch ( ... ) only unlocks: nothing is unregistered or returned, and the
\* response still says success.
EndCall(w) ==
  /\ pc[w] = "end_call"
  /\ \/ /\ CallEnd(w)
        /\ Goto(w, "end_unregister_transaction")
        /\ UNCHANGED <<reply, holder>>
     \/ /\ SessionThrows(req[w].op, txn[w])
        /\ Answer(w, Success(req[w].op))
        /\ UnlockIfLocked(w)
  /\ UNCHANGED <<managerVars, req, conn, txn, leaked>>

EndUnregisterTransaction(w) ==
  /\ pc[w] = "end_unregister_transaction"
  /\ UnregisterTransactionById(req[w].id)
  /\ Goto(w, "end_unregister_connection")
  /\ UNCHANGED <<poolVars, connectionOf, activeIds, req, conn, txn, reply,
                 sessionVars, holder, leaked>>

EndUnregisterConnection(w) ==
  /\ pc[w] = "end_unregister_connection"
  /\ UnregisterStoreConnectionById(req[w].id)
  /\ Goto(w, "end_unregister_authorization")
  /\ UNCHANGED <<poolVars, transactionOf, activeIds, req, conn, txn, reply,
                 sessionVars, holder, leaked>>

\* The vector is that of the authorization of this request.
EndUnregisterAuthorization(w) ==
  /\ pc[w] = "end_unregister_authorization"
  /\ UnregisterTransactionIdByAuthorization(req[w].auth, req[w].id)
  /\ IF conn[w] = None
     THEN Answer(w, Success(req[w].op))
     ELSE Goto(w, "end_return") /\ UNCHANGED reply
  /\ UNCHANGED <<poolVars, transactionOf, connectionOf, req, conn, txn,
                 sessionVars, holder, leaked>>

\* The connection is back in its pool before its mutex is released.
EndReturn(w) ==
  /\ pc[w] = "end_return"
  /\ ReturnLeasedStoreConnection(conn[w])
  /\ Goto(w, "end_unlock")
  /\ UNCHANGED <<transactionOf, connectionOf, activeIds, req, conn, txn, reply,
                 sessionVars, holder, leaked>>

EndUnlock(w) ==
  /\ pc[w] = "end_unlock"
  /\ Unlock(conn[w])
  /\ Answer(w, Success(req[w].op))
  /\ UNCHANGED <<managerVars, req, conn, txn, sessionVars, leaked>>

-----------------------------------------------------------------------------
(* handler_store_query with one block: execute_block_command_list,          *)
(* execute_command_list and execute_sql_query (execute_mongodb_query and    *)
(* execute_redis_query for a connection that is not SQL).                   *)

\* The store name, check_autorization and a command list that is not empty.
QueryAdmit(w) ==
  /\ pc[w] = "query_admit"
  /\ \/ Answer(w, "REFUSED")
     \/ /\ RealName(req[w].name) # None
        /\ Goto(w, IF Local(w) THEN "query_lease" ELSE "query_connection")
        /\ UNCHANGED reply
  /\ UNCHANGED <<managerVars, req, conn, txn, sessionVars, holder, leaked>>

QueryLease(w) ==
  /\ pc[w] = "query_lease"
  /\ \/ /\ NothingToLease(req[w].name)
        /\ Answer(w, "NO_CONNECTION")
        /\ UNCHANGED <<poolVars, conn>>
     \/ /\ LeaseStoreConnectionByName(req[w].name)
        /\ conn' = [conn EXCEPT ![w] = NextLeased(req[w].name)]
        /\ Goto(w, IF IsSql(NextLeased(req[w].name))
                   THEN "query_begin" ELSE "query_lock")
        /\ UNCHANGED reply
  /\ UNCHANGED <<transactionOf, connectionOf, activeIds, req, txn, sessionVars,
                 holder, leaked>>

\* The transaction of a query that names none; again without the mutex, and
\* the connection is dropped when begin() throws.
QueryBegin(w) ==
  /\ pc[w] = "query_begin"
  /\ \/ /\ SessionBegins(conn[w])
        /\ txn' = [txn EXCEPT ![w] = conn[w]]
        /\ Goto(w, "query_check_active")
        /\ UNCHANGED <<reply, leaked>>
     \/ /\ "begin" \in Faults
        /\ Answer(w, "EXCEPTION")
        /\ leaked' = leaked \cup {conn[w]}
        /\ UNCHANGED <<sessionVars, txn>>
  /\ UNCHANGED <<managerVars, req, conn, holder>>

\* With an id the connection is looked up first, then the transaction.
QueryConnection(w) ==
  /\ pc[w] = "query_connection"
  /\ conn' = [conn EXCEPT ![w] = connectionOf[req[w].id]]
  /\ Goto(w, "query_transaction")
  /\ UNCHANGED <<managerVars, req, txn, reply, sessionVars, holder, leaked>>

QueryTransaction(w) ==
  /\ pc[w] = "query_transaction"
  /\ txn' = [txn EXCEPT ![w] = transactionOf[req[w].id]]
  /\ IF None \in {conn[w], transactionOf[req[w].id]}
     THEN Answer(w, "INVALID_ID")
     ELSE Goto(w, "query_check_active") /\ UNCHANGED reply
  /\ UNCHANGED <<managerVars, req, conn, sessionVars, holder, leaked>>

\* is_active() is read before the mutex is taken.
QueryCheckActive(w) ==
  /\ pc[w] = "query_check_active"
  /\ IF open[txn[w]]
     THEN Goto(w, "query_lock") /\ UNCHANGED reply
     ELSE /\ reply' = [reply EXCEPT ![w] = "NOT_ACTIVE"]
          /\ Goto(w, IF Local(w) THEN "query_return" ELSE "respond")
  /\ UNCHANGED <<managerVars, req, conn, txn, sessionVars, holder, leaked>>

QueryLock(w) ==
  /\ pc[w] = "query_lock"
  /\ Lock(w, conn[w])
  /\ Goto(w, "query_execute")
  /\ UNCHANGED <<managerVars, req, conn, txn, reply, sessionVars, leaked>>

\* The loop over the commands; an exception of one is caught inside the loop.
QueryExecute(w) ==
  /\ pc[w] = "query_execute"
  /\ SessionExecutes(w, conn[w])
  /\ reply' = [reply EXCEPT ![w] = "EXECUTED"]
  /\ Goto(w, IF Local(w) /\ txn[w] # None THEN "query_commit" ELSE "query_unlock")
  /\ UNCHANGED <<managerVars, req, conn, txn, holder, leaked>>

\* Mutant: a failed commit is not rolled back.
ReturnAfterFailedCommit == "query_return"

AfterFailedCommit == "query_rollback"

\* The lock_guard is gone by the time the catch block runs.
QueryCommit(w) ==
  /\ pc[w] = "query_commit"
  /\ \/ /\ SessionEnds(txn[w])
        /\ Goto(w, "query_unlock")
        /\ UNCHANGED <<reply, holder>>
     \/ /\ SessionThrows("commit", txn[w])
        /\ reply' = [reply EXCEPT ![w] = "FAILED"]
        /\ Unlock(conn[w])
        /\ Goto(w, AfterFailedCommit)
  /\ UNCHANGED <<managerVars, req, conn, txn, leaked>>

QueryUnlock(w) ==
  /\ pc[w] = "query_unlock"
  /\ Unlock(conn[w])
  /\ Goto(w, IF Local(w) THEN "query_return" ELSE "respond")
  /\ UNCHANGED <<managerVars, req, conn, txn, reply, sessionVars, leaked>>

\* A rollback() that throws leaves the handler with the connection leased.
QueryRollback(w) ==
  /\ pc[w] = "query_rollback"
  /\ \/ /\ SessionEnds(txn[w])
        /\ Goto(w, "query_return")
        /\ UNCHANGED <<reply, leaked>>
     \/ /\ SessionThrows("rollback", txn[w])
        /\ Answer(w, "EXCEPTION")
        /\ leaked' = leaked \cup {conn[w]}
  /\ UNCHANGED <<managerVars, req, conn, txn, holder>>

QueryReturn(w) ==
  /\ pc[w] = "query_return"
  /\ ReturnLeasedStoreConnection(conn[w])
  /\ Goto(w, "respond")
  /\ UNCHANGED <<transactionOf, connectionOf, activeIds, req, conn, txn, reply,
                 sessionVars, holder, leaked>>

-----------------------------------------------------------------------------
Begin(w) ==
  \/ BeginAdmit(w) \/ BeginLookup(w) \/ BeginLease(w) \/ BeginSession(w)
  \/ BeginRegisterTransaction(w) \/ BeginRegisterConnection(w)
  \/ BeginRegisterAuthorization(w)

End(w) ==
  \/ EndLookup(w) \/ EndCheckActive(w) \/ EndConnection(w) \/ EndAdmit(w)
  \/ EndLock(w) \/ EndCall(w) \/ EndUnregisterTransaction(w)
  \/ EndUnregisterConnection(w) \/ EndUnregisterAuthorization(w) \/ EndReturn(w)
  \/ EndUnlock(w)

Query(w) ==
  \/ QueryAdmit(w) \/ QueryLease(w) \/ QueryBegin(w) \/ QueryConnection(w)
  \/ QueryTransaction(w) \/ QueryCheckActive(w) \/ QueryLock(w)
  \/ QueryExecute(w) \/ QueryCommit(w) \/ QueryUnlock(w) \/ QueryRollback(w)
  \/ QueryReturn(w)

Step(w) == Begin(w) \/ End(w) \/ Query(w) \/ Respond(w)

-----------------------------------------------------------------------------
(* Checks that ask this same server.  The request of the fetch goes to one  *)
(* of the workers, perhaps the waiting one itself, and is answered when     *)
(* that worker has nothing else to do.                                      *)

\* An unknown store is refused before anything is fetched; a token or a verdict
\* that is at hand is not fetched.
Ask(w) ==
  /\ pc[w] \in FetchAt
  /\ peer[w] = None
  /\ req[w].name = None \/ RealName(req[w].name) # None
  /\ \E v \in Workers : peer' = [peer EXCEPT ![w] = v]
  /\ UNCHANGED <<managerVars, localVars>>

\* The next step of the handler ends the wait: the answer is there, or the
\* fetch has timed out.
Handle(w) == Step(w) /\ peer' = [peer EXCEPT ![w] = None]

Serve(w) == Receive(w) /\ UNCHANGED peer

Next == \E w \in Workers : Serve(w) \/ Ask(w) \/ Handle(w)

Spec == Init /\ [][Next]_vars

Answered(w) == peer[w] # None => pc[peer[w]] = "idle"

\* A worker thread that can take a step of its handler without waiting for a
\* fetch eventually takes one; a worker that is idle again and again answers
\* the fetches that were sent to it.  Requests may stop arriving, and nothing
\* is assumed of timeouts or of who gets a mutex.
FairSpec ==
  /\ Spec
  /\ \A w \in Workers :
       /\ WF_vars(Answered(w) /\ Handle(w))
       /\ SF_vars(peer[w] # None /\ Answered(w) /\ Handle(w))
=============================================================================
