-------------------------- MODULE TransactionProofs --------------------------
(***************************************************************************)
(* The handlers under any number of workers, any clients and any faults of *)
(* the sessions: they call the manager only as ManagerSpec allows, so the  *)
(* pools stay sound, and they keep to the mutex protocol.                  *)
(***************************************************************************)
EXTENDS TransactionProperties, StoreConnectionManagerProofs

\* The fields of a request.
LEMMA RequestFields ==
  ASSUME NEW r \in Requests
  PROVE  /\ r.op \in {"begin", "commit", "rollback", "query"}
         /\ r.auth \in Authorizations
         /\ r.id \in TxnIds \cup {None}
         /\ r.op # "query" => r.id \in TxnIds
  BY DEF Requests

\* The connection a lease hands out is one of the pool's.
LEMMA NextLeasedType ==
  ASSUME NEW name, PoolTypeOK, ~NothingToLease(name)
  PROVE  NextLeased(name) \in Connections
<1>1. RealName(name) \in Stores /\ queue[RealName(name)] # <<>>
  BY RealNameType DEF NothingToLease
<1>2. queue[RealName(name)] \in Seq(Connections)
  BY <1>1 DEF PoolTypeOK
<1>3. QED
  BY <1>1, <1>2 DEF NextLeased

\* Only a name that stands for a store can be leased from.
LEMMA LeasableName ==
  ASSUME NEW name, ~NothingToLease(name)
  PROVE  name \in Stores \cup Aliases
  BY DEF NothingToLease, RealName

-----------------------------------------------------------------------------
(* The handlers are callers of the manager.                                 *)

\* A step of a worker is one call of a manager method or none.
LEMMA StepCallsManager ==
  ASSUME HandlersInv, NEW w \in Workers, Receive(w) \/ Step(w)
  PROVE  ManagerNext \/ UNCHANGED managerVars
<1>1. /\ pc[w] # "idle" => req[w].auth \in Authorizations
      /\ pc[w] \in IdLabels => req[w].id \in TxnIds
      /\ pc[w] \in ConnectionLabels => conn[w] \in Connections
      /\ pc[w] \in TransactionLabels => txn[w] \in Connections
  BY RequestFields DEF HandlersInv, ControlInv
<1>2. CASE BeginAdmit(w)
  BY <1>2 DEF BeginAdmit
<1>3. CASE BeginLookup(w)
  BY <1>3 DEF BeginLookup
<1>4. CASE BeginLease(w)
  <2>1. LeaseStoreConnectionByName(req[w].name) => req[w].name \in Stores \cup
     Aliases
    BY LeasableName DEF LeaseStoreConnectionByName
  <2>2. QED
    BY <1>4, <2>1 DEF BeginLease, ManagerNext, PoolStep, poolVars, managerVars
<1>5. CASE BeginSession(w)
  BY <1>5 DEF BeginSession
<1>6. CASE BeginRegisterTransaction(w)
  BY <1>1, <1>6 DEF BeginRegisterTransaction, ManagerNext, TransactionStep,
     poolVars, IdLabels, BeginLabels, TransactionLabels
<1>7. CASE BeginRegisterConnection(w)
  BY <1>1, <1>7 DEF BeginRegisterConnection, ManagerNext, ConnectionStep, poolVars,
     IdLabels, BeginLabels, ConnectionLabels
<1>8. CASE BeginRegisterAuthorization(w)
  BY <1>1, <1>8 DEF BeginRegisterAuthorization, ManagerNext, AuthorizationStep,
     poolVars, IdLabels, BeginLabels
<1>9. CASE EndLookup(w)
  BY <1>9 DEF EndLookup
<1>10. CASE EndCheckActive(w)
  BY <1>10 DEF EndCheckActive
<1>11. CASE EndConnection(w)
  BY <1>11 DEF EndConnection
<1>12. CASE EndAdmit(w)
  BY <1>12 DEF EndAdmit
<1>13. CASE EndLock(w)
  BY <1>13 DEF EndLock
<1>14. CASE EndCall(w)
  BY <1>14 DEF EndCall
<1>15. CASE EndUnregisterTransaction(w)
  BY <1>1, <1>15 DEF EndUnregisterTransaction, ManagerNext, TransactionStep,
     poolVars, IdLabels, EndLabels
<1>16. CASE EndUnregisterConnection(w)
  BY <1>1, <1>16 DEF EndUnregisterConnection, ManagerNext, ConnectionStep, poolVars,
     IdLabels, EndLabels
<1>17. CASE EndUnregisterAuthorization(w)
  BY <1>1, <1>17 DEF EndUnregisterAuthorization, ManagerNext, AuthorizationStep,
     poolVars, IdLabels, EndLabels
<1>18. CASE EndReturn(w)
  BY <1>1, <1>18 DEF EndReturn, ManagerNext, PoolStep, ConnectionLabels
<1>19. CASE EndUnlock(w)
  BY <1>19 DEF EndUnlock
<1>20. CASE QueryAdmit(w)
  BY <1>20 DEF QueryAdmit
<1>21. CASE QueryLease(w)
  <2>1. LeaseStoreConnectionByName(req[w].name) => req[w].name \in Stores \cup
     Aliases
    BY LeasableName DEF LeaseStoreConnectionByName
  <2>2. QED
    BY <1>21, <2>1 DEF QueryLease, ManagerNext, PoolStep, poolVars, managerVars
<1>22. CASE QueryBegin(w)
  BY <1>22 DEF QueryBegin
<1>23. CASE QueryConnection(w)
  BY <1>23 DEF QueryConnection
<1>24. CASE QueryTransaction(w)
  BY <1>24 DEF QueryTransaction
<1>25. CASE QueryCheckActive(w)
  BY <1>25 DEF QueryCheckActive
<1>26. CASE QueryLock(w)
  BY <1>26 DEF QueryLock
<1>27. CASE QueryExecute(w)
  BY <1>27 DEF QueryExecute
<1>28. CASE QueryCommit(w)
  BY <1>28 DEF QueryCommit
<1>29. CASE QueryUnlock(w)
  BY <1>29 DEF QueryUnlock
<1>30. CASE QueryRollback(w)
  BY <1>30 DEF QueryRollback
<1>31. CASE QueryReturn(w)
  BY <1>1, <1>31 DEF QueryReturn, ManagerNext, PoolStep, ConnectionLabels
<1>32. CASE Respond(w)
  BY <1>32 DEF Respond
<1>33. CASE Receive(w)
  BY <1>33 DEF Receive
<1>34. QED
  BY <1>1, <1>2, <1>3, <1>4, <1>5, <1>6, <1>7, <1>8, <1>9, <1>10, <1>11, <1>12,
     <1>13, <1>14, <1>15, <1>16, <1>17, <1>18, <1>19, <1>20, <1>21, <1>22, <1>23,
     <1>24, <1>25, <1>26, <1>27, <1>28, <1>29, <1>30, <1>31, <1>32, <1>33 DEF Step,
     Begin, End, Query

-----------------------------------------------------------------------------
(* What a step keeps.                                                       *)

\* What the invariant says of the worker that takes a step.
LEMMA WorkerFacts ==
  ASSUME HandlersInv, NEW w \in Workers
  PROVE  /\ pc[w] # "idle" => /\ req[w] \in Requests
                              /\ req[w].op \in {"begin", "commit", "rollback",
                                 "query"}
                              /\ req[w].id \in TxnIds \cup {None}
         /\ pc[w] \in IdLabels => req[w].id \in TxnIds
         /\ pc[w] = "query_admit" => req[w].op = "query"
         /\ pc[w] \in ConnectionLabels => conn[w] \in Connections
         /\ pc[w] \in TransactionLabels => txn[w] \in Connections
         /\ ~NothingToLease(req[w].name) => NextLeased(req[w].name) \in Connections
         /\ \A id \in TxnIds : /\ transactionOf[id] \in Connections \cup {None}
                               /\ connectionOf[id] \in Connections \cup {None}
  BY RequestFields, NextLeasedType
     DEF HandlersInv, ControlInv, ManagerInv, ManagerTypeOK, PoolTypeOK

\* The values of the handlers' own variables keep their types.
LEMMA StepKeepsTypes ==
  ASSUME HandlersInv, NEW w \in Workers, Receive(w) \/ Step(w)
  PROVE  LocalTypeOK'
<1> USE DEF LocalTypeOK
<1>1. LocalTypeOK
  BY DEF HandlersInv, HandlerTypeOK
<1>2. CASE BeginAdmit(w)
  BY <1>1, <1>2, WorkerFacts DEF BeginAdmit, Goto, Answer, sessionVars, IdLabels,
     BeginLabels, EndLabels, ConnectionLabels, TransactionLabels, Labels, Codes
<1>3. CASE BeginLookup(w)
  BY <1>1, <1>3, WorkerFacts DEF BeginLookup, Goto, Answer, sessionVars, IdLabels,
     BeginLabels, EndLabels, ConnectionLabels, TransactionLabels, Labels, Codes
<1>4. CASE BeginLease(w)
  BY <1>1, <1>4, WorkerFacts DEF BeginLease, Goto, Answer,
     LeaseStoreConnectionByName, sessionVars, IdLabels, BeginLabels, EndLabels,
     ConnectionLabels, TransactionLabels, Labels, Codes
<1>5. CASE BeginSession(w)
  <2>1. pc' \in [Workers -> Labels] /\ reply' \in [Workers -> Codes]
    BY <1>1, <1>5 DEF BeginSession, Goto, Answer, SessionBegins, sessionVars,
       Labels, Codes
  <2>2. /\ open' \in [Connections -> BOOLEAN]
        /\ pending' \in [Connections -> SUBSET (TxnIds \cup Workers)]
    BY <1>1, <1>5, WorkerFacts DEF BeginSession, Goto, Answer, SessionBegins,
       sessionVars, ConnectionLabels, TransactionLabels
  <2>3. /\ conn' \in [Workers -> Connections \cup {None}]
        /\ txn' \in [Workers -> Connections \cup {None}]
        /\ leaked' \subseteq Connections
    BY <1>1, <1>5, WorkerFacts DEF BeginSession, Goto, Answer, SessionBegins,
       sessionVars, ConnectionLabels, TransactionLabels
  <2>4. /\ req' \in [Workers -> Requests \cup {NoRequest}]
        /\ holder' \in [Connections -> Workers \cup {None}]
    BY <1>1, <1>5, WorkerFacts DEF BeginSession, Goto, Answer, SessionBegins,
       sessionVars, ConnectionLabels
  <2>5. QED
    BY <2>1, <2>2, <2>3, <2>4
<1>6. CASE BeginRegisterTransaction(w)
  BY <1>1, <1>6, WorkerFacts DEF BeginRegisterTransaction, Goto, sessionVars,
     IdLabels, BeginLabels, EndLabels, ConnectionLabels, TransactionLabels, Labels,
     Codes
<1>7. CASE BeginRegisterConnection(w)
  BY <1>1, <1>7, WorkerFacts DEF BeginRegisterConnection, Goto, sessionVars,
     IdLabels, BeginLabels, EndLabels, ConnectionLabels, TransactionLabels, Labels,
     Codes
<1>8. CASE BeginRegisterAuthorization(w)
  BY <1>1, <1>8, WorkerFacts DEF BeginRegisterAuthorization, Answer, sessionVars,
     IdLabels, BeginLabels, EndLabels, ConnectionLabels, TransactionLabels, Labels,
     Codes
<1>9. CASE EndLookup(w)
  BY <1>1, <1>9, WorkerFacts DEF EndLookup, Goto, Answer, sessionVars, IdLabels,
     BeginLabels, EndLabels, ConnectionLabels, TransactionLabels, Labels, Codes
<1>10. CASE EndCheckActive(w)
  BY <1>1, <1>10, WorkerFacts DEF EndCheckActive, Goto, Answer, sessionVars,
     IdLabels, BeginLabels, EndLabels, ConnectionLabels, TransactionLabels, Labels,
     Codes
<1>11. CASE EndConnection(w)
  BY <1>1, <1>11, WorkerFacts DEF EndConnection, Goto, sessionVars, IdLabels,
     BeginLabels, EndLabels, ConnectionLabels, TransactionLabels, Labels, Codes
<1>12. CASE EndAdmit(w)
  BY <1>1, <1>12, WorkerFacts DEF EndAdmit, Goto, Answer, sessionVars, IdLabels,
     BeginLabels, EndLabels, ConnectionLabels, TransactionLabels, Labels, Codes
<1>13. CASE EndLock(w)
  BY <1>1, <1>13, WorkerFacts DEF EndLock, Goto, Lock, sessionVars, IdLabels,
     BeginLabels, EndLabels, ConnectionLabels, TransactionLabels, Labels, Codes
<1>14. CASE EndCall(w)
  BY <1>1, <1>14, WorkerFacts DEF EndCall, Goto, Answer, CallEnd, SessionEnds,
     SessionThrows, UnlockIfLocked, Unlock, Success, sessionVars, IdLabels,
     BeginLabels, EndLabels, ConnectionLabels, TransactionLabels, Labels, Codes
<1>15. CASE EndUnregisterTransaction(w)
  BY <1>1, <1>15, WorkerFacts DEF EndUnregisterTransaction, Goto, sessionVars,
     IdLabels, BeginLabels, EndLabels, ConnectionLabels, TransactionLabels, Labels,
     Codes
<1>16. CASE EndUnregisterConnection(w)
  BY <1>1, <1>16, WorkerFacts DEF EndUnregisterConnection, Goto, sessionVars,
     IdLabels, BeginLabels, EndLabels, ConnectionLabels, TransactionLabels, Labels,
     Codes
<1>17. CASE EndUnregisterAuthorization(w)
  BY <1>1, <1>17, WorkerFacts DEF EndUnregisterAuthorization, Goto, Answer, Success,
     sessionVars, IdLabels, BeginLabels, EndLabels, ConnectionLabels,
     TransactionLabels, Labels, Codes
<1>18. CASE EndReturn(w)
  BY <1>1, <1>18, WorkerFacts DEF EndReturn, Goto, sessionVars, IdLabels,
     BeginLabels, EndLabels, ConnectionLabels, TransactionLabels, Labels, Codes
<1>19. CASE EndUnlock(w)
  BY <1>1, <1>19, WorkerFacts DEF EndUnlock, Answer, Unlock, Success, sessionVars,
     IdLabels, BeginLabels, EndLabels, ConnectionLabels, TransactionLabels, Labels,
     Codes
<1>20. CASE QueryAdmit(w)
  BY <1>1, <1>20, WorkerFacts DEF QueryAdmit, Goto, Answer, Local, sessionVars,
     IdLabels, BeginLabels, EndLabels, ConnectionLabels, TransactionLabels, Labels,
     Codes
<1>21. CASE QueryLease(w)
  BY <1>1, <1>21, WorkerFacts DEF QueryLease, Goto, Answer,
     LeaseStoreConnectionByName, sessionVars, IdLabels, BeginLabels, EndLabels,
     ConnectionLabels, TransactionLabels, Labels, Codes
<1>22. CASE QueryBegin(w)
  <2>1. pc' \in [Workers -> Labels] /\ reply' \in [Workers -> Codes]
    BY <1>1, <1>22 DEF QueryBegin, Goto, Answer, SessionBegins, sessionVars, Labels,
       Codes
  <2>2. /\ open' \in [Connections -> BOOLEAN]
        /\ pending' \in [Connections -> SUBSET (TxnIds \cup Workers)]
    BY <1>1, <1>22, WorkerFacts DEF QueryBegin, Goto, Answer, SessionBegins,
       sessionVars, ConnectionLabels, TransactionLabels
  <2>3. /\ conn' \in [Workers -> Connections \cup {None}]
        /\ txn' \in [Workers -> Connections \cup {None}]
        /\ leaked' \subseteq Connections
    BY <1>1, <1>22, WorkerFacts DEF QueryBegin, Goto, Answer, SessionBegins,
       sessionVars, ConnectionLabels, TransactionLabels
  <2>4. /\ req' \in [Workers -> Requests \cup {NoRequest}]
        /\ holder' \in [Connections -> Workers \cup {None}]
    BY <1>1, <1>22, WorkerFacts DEF QueryBegin, Goto, Answer, SessionBegins,
       sessionVars, ConnectionLabels
  <2>5. QED
    BY <2>1, <2>2, <2>3, <2>4
<1>23. CASE QueryConnection(w)
  BY <1>1, <1>23, WorkerFacts DEF QueryConnection, Goto, sessionVars, IdLabels,
     BeginLabels, EndLabels, ConnectionLabels, TransactionLabels, Labels, Codes
<1>24. CASE QueryTransaction(w)
  BY <1>1, <1>24, WorkerFacts DEF QueryTransaction, Goto, Answer, sessionVars,
     IdLabels, BeginLabels, EndLabels, ConnectionLabels, TransactionLabels, Labels,
     Codes
<1>25. CASE QueryCheckActive(w)
  BY <1>1, <1>25, WorkerFacts DEF QueryCheckActive, Goto, Local, sessionVars,
     IdLabels, BeginLabels, EndLabels, ConnectionLabels, TransactionLabels, Labels,
     Codes
<1>26. CASE QueryLock(w)
  BY <1>1, <1>26, WorkerFacts DEF QueryLock, Goto, Lock, sessionVars, IdLabels,
     BeginLabels, EndLabels, ConnectionLabels, TransactionLabels, Labels, Codes
<1>27. CASE QueryExecute(w)
  BY <1>1, <1>27, WorkerFacts DEF QueryExecute, Goto, SessionExecutes, Tag, Local,
     sessionVars, IdLabels, BeginLabels, EndLabels, ConnectionLabels,
     TransactionLabels, Labels, Codes
<1>28. CASE QueryCommit(w)
  <2>1. pc' \in [Workers -> Labels] /\ reply' \in [Workers -> Codes]
    BY <1>1, <1>28 DEF QueryCommit, Goto, SessionEnds, SessionThrows, Unlock,
       sessionVars, AfterFailedCommit, Labels, Codes
  <2>2. /\ open' \in [Connections -> BOOLEAN]
        /\ pending' \in [Connections -> SUBSET (TxnIds \cup Workers)]
    BY <1>1, <1>28, WorkerFacts DEF QueryCommit, Goto, SessionEnds, SessionThrows,
       Unlock, sessionVars, AfterFailedCommit, ConnectionLabels, TransactionLabels
  <2>3. /\ conn' \in [Workers -> Connections \cup {None}]
        /\ txn' \in [Workers -> Connections \cup {None}]
        /\ leaked' \subseteq Connections
    BY <1>1, <1>28, WorkerFacts DEF QueryCommit, Goto, SessionEnds, SessionThrows,
       Unlock, sessionVars, AfterFailedCommit, ConnectionLabels, TransactionLabels
  <2>4. /\ req' \in [Workers -> Requests \cup {NoRequest}]
        /\ holder' \in [Connections -> Workers \cup {None}]
    BY <1>1, <1>28, WorkerFacts DEF QueryCommit, Goto, SessionEnds, SessionThrows,
       Unlock, sessionVars, AfterFailedCommit, ConnectionLabels
  <2>5. QED
    BY <2>1, <2>2, <2>3, <2>4
<1>29. CASE QueryUnlock(w)
  BY <1>1, <1>29, WorkerFacts DEF QueryUnlock, Goto, Unlock, Local, sessionVars,
     IdLabels, BeginLabels, EndLabels, ConnectionLabels, TransactionLabels, Labels,
     Codes
<1>30. CASE QueryRollback(w)
  <2>1. pc' \in [Workers -> Labels] /\ reply' \in [Workers -> Codes]
    BY <1>1, <1>30 DEF QueryRollback, Goto, Answer, SessionEnds, SessionThrows,
       sessionVars, Labels, Codes
  <2>2. /\ open' \in [Connections -> BOOLEAN]
        /\ pending' \in [Connections -> SUBSET (TxnIds \cup Workers)]
    BY <1>1, <1>30, WorkerFacts DEF QueryRollback, Goto, Answer, SessionEnds,
       SessionThrows, sessionVars, ConnectionLabels, TransactionLabels
  <2>3. /\ conn' \in [Workers -> Connections \cup {None}]
        /\ txn' \in [Workers -> Connections \cup {None}]
        /\ leaked' \subseteq Connections
    BY <1>1, <1>30, WorkerFacts DEF QueryRollback, Goto, Answer, SessionEnds,
       SessionThrows, sessionVars, ConnectionLabels, TransactionLabels
  <2>4. /\ req' \in [Workers -> Requests \cup {NoRequest}]
        /\ holder' \in [Connections -> Workers \cup {None}]
    BY <1>1, <1>30, WorkerFacts DEF QueryRollback, Goto, Answer, SessionEnds,
       SessionThrows, sessionVars, ConnectionLabels
  <2>5. QED
    BY <2>1, <2>2, <2>3, <2>4
<1>31. CASE QueryReturn(w)
  BY <1>1, <1>31, WorkerFacts DEF QueryReturn, Goto, sessionVars, IdLabels,
     BeginLabels, EndLabels, ConnectionLabels, TransactionLabels, Labels, Codes
<1>32. CASE Respond(w)
  BY <1>1, <1>32, WorkerFacts DEF Respond, Goto, sessionVars, IdLabels, BeginLabels,
     EndLabels, ConnectionLabels, TransactionLabels, Labels, Codes
<1>33. CASE Receive(w)
  BY <1>1, <1>33, WorkerFacts DEF Receive, Goto, EntryPoint, sessionVars, IdLabels,
     BeginLabels, EndLabels, ConnectionLabels, TransactionLabels, Labels, Codes
<1>34. QED
  BY <1>1, <1>2, <1>3, <1>4, <1>5, <1>6, <1>7, <1>8, <1>9, <1>10, <1>11, <1>12,
     <1>13, <1>14, <1>15, <1>16, <1>17, <1>18, <1>19, <1>20, <1>21, <1>22, <1>23,
     <1>24, <1>25, <1>26, <1>27, <1>28, <1>29, <1>30, <1>31, <1>32, <1>33 DEF Step,
     Begin, End, Query

\* Each worker keeps what its place in its handler promises.
LEMMA StepKeepsControl ==
  ASSUME HandlersInv, NEW w \in Workers, Receive(w) \/ Step(w)
  PROVE  ControlInv'
<1>1. LocalTypeOK /\ ControlInv
  BY DEF HandlersInv, HandlerTypeOK
<1>2. CASE BeginAdmit(w)
  BY <1>1, <1>2, WorkerFacts DEF BeginAdmit, Goto, Answer, LocalTypeOK, ControlInv,
     IdLabels, BeginLabels, EndLabels, ConnectionLabels, TransactionLabels
<1>3. CASE BeginLookup(w)
  BY <1>1, <1>3, WorkerFacts DEF BeginLookup, Goto, Answer, LocalTypeOK, ControlInv,
     IdLabels, BeginLabels, EndLabels, ConnectionLabels, TransactionLabels
<1>4. CASE BeginLease(w)
  BY <1>1, <1>4, WorkerFacts DEF BeginLease, Goto, Answer,
     LeaseStoreConnectionByName, LocalTypeOK, ControlInv, IdLabels, BeginLabels,
     EndLabels, ConnectionLabels, TransactionLabels
<1>5. CASE BeginSession(w)
  BY <1>1, <1>5, WorkerFacts DEF BeginSession, Goto, Answer, SessionBegins,
     sessionVars, LocalTypeOK, ControlInv, IdLabels, BeginLabels, EndLabels,
     ConnectionLabels, TransactionLabels
<1>6. CASE BeginRegisterTransaction(w)
  BY <1>1, <1>6, WorkerFacts DEF BeginRegisterTransaction, Goto, LocalTypeOK,
     ControlInv, IdLabels, BeginLabels, EndLabels, ConnectionLabels,
     TransactionLabels
<1>7. CASE BeginRegisterConnection(w)
  BY <1>1, <1>7, WorkerFacts DEF BeginRegisterConnection, Goto, LocalTypeOK,
     ControlInv, IdLabels, BeginLabels, EndLabels, ConnectionLabels,
     TransactionLabels
<1>8. CASE BeginRegisterAuthorization(w)
  BY <1>1, <1>8, WorkerFacts DEF BeginRegisterAuthorization, Answer, LocalTypeOK,
     ControlInv, IdLabels, BeginLabels, EndLabels, ConnectionLabels,
     TransactionLabels
<1>9. CASE EndLookup(w)
  BY <1>1, <1>9, WorkerFacts DEF EndLookup, Goto, Answer, LocalTypeOK, ControlInv,
     IdLabels, BeginLabels, EndLabels, ConnectionLabels, TransactionLabels
<1>10. CASE EndCheckActive(w)
  BY <1>1, <1>10, WorkerFacts DEF EndCheckActive, Goto, Answer, LocalTypeOK,
     ControlInv, IdLabels, BeginLabels, EndLabels, ConnectionLabels,
     TransactionLabels
<1>11. CASE EndConnection(w)
  BY <1>1, <1>11, WorkerFacts DEF EndConnection, Goto, LocalTypeOK, ControlInv,
     IdLabels, BeginLabels, EndLabels, ConnectionLabels, TransactionLabels
<1>12. CASE EndAdmit(w)
  BY <1>1, <1>12, WorkerFacts DEF EndAdmit, Goto, Answer, LocalTypeOK, ControlInv,
     IdLabels, BeginLabels, EndLabels, ConnectionLabels, TransactionLabels
<1>13. CASE EndLock(w)
  BY <1>1, <1>13, WorkerFacts DEF EndLock, Goto, Lock, LocalTypeOK, ControlInv,
     IdLabels, BeginLabels, EndLabels, ConnectionLabels, TransactionLabels
<1>14. CASE EndCall(w)
  BY <1>1, <1>14, WorkerFacts DEF EndCall, Goto, Answer, CallEnd, SessionEnds,
     SessionThrows, UnlockIfLocked, Unlock, Success, sessionVars, LocalTypeOK,
     ControlInv, IdLabels, BeginLabels, EndLabels, ConnectionLabels,
     TransactionLabels
<1>15. CASE EndUnregisterTransaction(w)
  BY <1>1, <1>15, WorkerFacts DEF EndUnregisterTransaction, Goto, LocalTypeOK,
     ControlInv, IdLabels, BeginLabels, EndLabels, ConnectionLabels,
     TransactionLabels
<1>16. CASE EndUnregisterConnection(w)
  BY <1>1, <1>16, WorkerFacts DEF EndUnregisterConnection, Goto, LocalTypeOK,
     ControlInv, IdLabels, BeginLabels, EndLabels, ConnectionLabels,
     TransactionLabels
<1>17. CASE EndUnregisterAuthorization(w)
  BY <1>1, <1>17, WorkerFacts DEF EndUnregisterAuthorization, Goto, Answer, Success,
     LocalTypeOK, ControlInv, IdLabels, BeginLabels, EndLabels, ConnectionLabels,
     TransactionLabels
<1>18. CASE EndReturn(w)
  BY <1>1, <1>18, WorkerFacts DEF EndReturn, Goto, LocalTypeOK, ControlInv,
     IdLabels, BeginLabels, EndLabels, ConnectionLabels, TransactionLabels
<1>19. CASE EndUnlock(w)
  BY <1>1, <1>19, WorkerFacts DEF EndUnlock, Answer, Unlock, Success, LocalTypeOK,
     ControlInv, IdLabels, BeginLabels, EndLabels, ConnectionLabels,
     TransactionLabels
<1>20. CASE QueryAdmit(w)
  BY <1>1, <1>20, WorkerFacts DEF QueryAdmit, Goto, Answer, Local, LocalTypeOK,
     ControlInv, IdLabels, BeginLabels, EndLabels, ConnectionLabels,
     TransactionLabels
<1>21. CASE QueryLease(w)
  BY <1>1, <1>21, WorkerFacts DEF QueryLease, Goto, Answer,
     LeaseStoreConnectionByName, LocalTypeOK, ControlInv, IdLabels, BeginLabels,
     EndLabels, ConnectionLabels, TransactionLabels
<1>22. CASE QueryBegin(w)
  BY <1>1, <1>22, WorkerFacts DEF QueryBegin, Goto, Answer, SessionBegins,
     sessionVars, LocalTypeOK, ControlInv, IdLabels, BeginLabels, EndLabels,
     ConnectionLabels, TransactionLabels
<1>23. CASE QueryConnection(w)
  BY <1>1, <1>23, WorkerFacts DEF QueryConnection, Goto, LocalTypeOK, ControlInv,
     IdLabels, BeginLabels, EndLabels, ConnectionLabels, TransactionLabels
<1>24. CASE QueryTransaction(w)
  BY <1>1, <1>24, WorkerFacts DEF QueryTransaction, Goto, Answer, LocalTypeOK,
     ControlInv, IdLabels, BeginLabels, EndLabels, ConnectionLabels,
     TransactionLabels
<1>25. CASE QueryCheckActive(w)
  BY <1>1, <1>25, WorkerFacts DEF QueryCheckActive, Goto, Local, LocalTypeOK,
     ControlInv, IdLabels, BeginLabels, EndLabels, ConnectionLabels,
     TransactionLabels
<1>26. CASE QueryLock(w)
  BY <1>1, <1>26, WorkerFacts DEF QueryLock, Goto, Lock, LocalTypeOK, ControlInv,
     IdLabels, BeginLabels, EndLabels, ConnectionLabels, TransactionLabels
<1>27. CASE QueryExecute(w)
  BY <1>1, <1>27, WorkerFacts DEF QueryExecute, Goto, SessionExecutes, Tag, Local,
     LocalTypeOK, ControlInv, IdLabels, BeginLabels, EndLabels, ConnectionLabels,
     TransactionLabels
<1>28. CASE QueryCommit(w)
  BY <1>1, <1>28, WorkerFacts DEF QueryCommit, Goto, SessionEnds, SessionThrows,
     Unlock, sessionVars, AfterFailedCommit, LocalTypeOK, ControlInv, IdLabels,
     BeginLabels, EndLabels, ConnectionLabels, TransactionLabels
<1>29. CASE QueryUnlock(w)
  BY <1>1, <1>29, WorkerFacts DEF QueryUnlock, Goto, Unlock, Local, LocalTypeOK,
     ControlInv, IdLabels, BeginLabels, EndLabels, ConnectionLabels,
     TransactionLabels
<1>30. CASE QueryRollback(w)
  BY <1>1, <1>30, WorkerFacts DEF QueryRollback, Goto, Answer, SessionEnds,
     SessionThrows, sessionVars, LocalTypeOK, ControlInv, IdLabels, BeginLabels,
     EndLabels, ConnectionLabels, TransactionLabels
<1>31. CASE QueryReturn(w)
  BY <1>1, <1>31, WorkerFacts DEF QueryReturn, Goto, LocalTypeOK, ControlInv,
     IdLabels, BeginLabels, EndLabels, ConnectionLabels, TransactionLabels
<1>32. CASE Respond(w)
  BY <1>1, <1>32, WorkerFacts DEF Respond, Goto, LocalTypeOK, ControlInv, IdLabels,
     BeginLabels, EndLabels, ConnectionLabels, TransactionLabels
<1>33. CASE Receive(w)
  <2>1. PICK r \in Requests : /\ req' = [req EXCEPT ![w] = r]
                             /\ pc' = [pc EXCEPT ![w] = EntryPoint(r.op)]
    BY <1>33 DEF Receive, Goto
  <2>2. /\ r.op = "query" => EntryPoint(r.op) = "query_admit"
        /\ r.op # "query" => r.id \in TxnIds
        /\ EntryPoint(r.op) \in {"begin_admit", "query_admit", "end_lookup"}
        /\ EntryPoint(r.op) = "query_admit" => r.op = "query"
    BY RequestFields DEF EntryPoint
  <2>3. UNCHANGED <<conn, txn>>
    BY <1>33 DEF Receive
  <2>4. QED
    BY <1>1, <2>1, <2>2, <2>3 DEF LocalTypeOK, ControlInv, IdLabels, BeginLabels,
       EndLabels, ConnectionLabels, TransactionLabels
<1>34. QED
  BY <1>1, <1>2, <1>3, <1>4, <1>5, <1>6, <1>7, <1>8, <1>9, <1>10, <1>11, <1>12,
     <1>13, <1>14, <1>15, <1>16, <1>17, <1>18, <1>19, <1>20, <1>21, <1>22, <1>23,
     <1>24, <1>25, <1>26, <1>27, <1>28, <1>29, <1>30, <1>31, <1>32, <1>33 DEF Step,
     Begin, End, Query

\* Every path through a handler keeps to the mutex protocol.
LEMMA StepKeepsLocks ==
  ASSUME HandlersInv, NEW w \in Workers, Receive(w) \/ Step(w)
  PROVE  LockDiscipline'
<1>1. /\ LocalTypeOK /\ LockDiscipline
      /\ None \notin Workers /\ None \notin Connections
  BY HandlerAssumption, NoneAssumption DEF HandlersInv, HandlerTypeOK
<1>2. CASE BeginAdmit(w)
  BY <1>1, <1>2, WorkerFacts DEF BeginAdmit, Goto, Answer, LocalTypeOK,
     LockDiscipline, Locking, EndLocked, QueryLocked, IdLabels, BeginLabels,
     EndLabels, ConnectionLabels, TransactionLabels
<1>3. CASE BeginLookup(w)
  BY <1>1, <1>3, WorkerFacts DEF BeginLookup, Goto, Answer, LocalTypeOK,
     LockDiscipline, Locking, EndLocked, QueryLocked, IdLabels, BeginLabels,
     EndLabels, ConnectionLabels, TransactionLabels
<1>4. CASE BeginLease(w)
  BY <1>1, <1>4, WorkerFacts DEF BeginLease, Goto, Answer,
     LeaseStoreConnectionByName, LocalTypeOK, LockDiscipline, Locking, EndLocked,
     QueryLocked, IdLabels, BeginLabels, EndLabels, ConnectionLabels,
     TransactionLabels
<1>5. CASE BeginSession(w)
  BY <1>1, <1>5, WorkerFacts DEF BeginSession, Goto, Answer, SessionBegins,
     sessionVars, LocalTypeOK, LockDiscipline, Locking, EndLocked, QueryLocked,
     IdLabels, BeginLabels, EndLabels, ConnectionLabels, TransactionLabels
<1>6. CASE BeginRegisterTransaction(w)
  BY <1>1, <1>6, WorkerFacts DEF BeginRegisterTransaction, Goto, LocalTypeOK,
     LockDiscipline, Locking, EndLocked, QueryLocked, IdLabels, BeginLabels,
     EndLabels, ConnectionLabels, TransactionLabels
<1>7. CASE BeginRegisterConnection(w)
  BY <1>1, <1>7, WorkerFacts DEF BeginRegisterConnection, Goto, LocalTypeOK,
     LockDiscipline, Locking, EndLocked, QueryLocked, IdLabels, BeginLabels,
     EndLabels, ConnectionLabels, TransactionLabels
<1>8. CASE BeginRegisterAuthorization(w)
  BY <1>1, <1>8, WorkerFacts DEF BeginRegisterAuthorization, Answer, LocalTypeOK,
     LockDiscipline, Locking, EndLocked, QueryLocked, IdLabels, BeginLabels,
     EndLabels, ConnectionLabels, TransactionLabels
<1>9. CASE EndLookup(w)
  BY <1>1, <1>9, WorkerFacts DEF EndLookup, Goto, Answer, LocalTypeOK,
     LockDiscipline, Locking, EndLocked, QueryLocked, IdLabels, BeginLabels,
     EndLabels, ConnectionLabels, TransactionLabels
<1>10. CASE EndCheckActive(w)
  BY <1>1, <1>10, WorkerFacts DEF EndCheckActive, Goto, Answer, LocalTypeOK,
     LockDiscipline, Locking, EndLocked, QueryLocked, IdLabels, BeginLabels,
     EndLabels, ConnectionLabels, TransactionLabels
<1>11. CASE EndConnection(w)
  BY <1>1, <1>11, WorkerFacts DEF EndConnection, Goto, LocalTypeOK, LockDiscipline,
     Locking, EndLocked, QueryLocked, IdLabels, BeginLabels, EndLabels,
     ConnectionLabels, TransactionLabels
<1>12. CASE EndAdmit(w)
  BY <1>1, <1>12, WorkerFacts DEF EndAdmit, Goto, Answer, LocalTypeOK,
     LockDiscipline, Locking, EndLocked, QueryLocked, IdLabels, BeginLabels,
     EndLabels, ConnectionLabels, TransactionLabels
<1>13. CASE EndLock(w)
  BY <1>1, <1>13, WorkerFacts DEF EndLock, Goto, Lock, LocalTypeOK, LockDiscipline,
     Locking, EndLocked, QueryLocked, IdLabels, BeginLabels, EndLabels,
     ConnectionLabels, TransactionLabels
<1>14. CASE EndCall(w)
  BY <1>1, <1>14, WorkerFacts DEF EndCall, Goto, Answer, CallEnd, SessionEnds,
     SessionThrows, UnlockIfLocked, Unlock, Success, sessionVars, LocalTypeOK,
     LockDiscipline, Locking, EndLocked, QueryLocked, IdLabels, BeginLabels,
     EndLabels, ConnectionLabels, TransactionLabels
<1>15. CASE EndUnregisterTransaction(w)
  BY <1>1, <1>15, WorkerFacts DEF EndUnregisterTransaction, Goto, LocalTypeOK,
     LockDiscipline, Locking, EndLocked, QueryLocked, IdLabels, BeginLabels,
     EndLabels, ConnectionLabels, TransactionLabels
<1>16. CASE EndUnregisterConnection(w)
  BY <1>1, <1>16, WorkerFacts DEF EndUnregisterConnection, Goto, LocalTypeOK,
     LockDiscipline, Locking, EndLocked, QueryLocked, IdLabels, BeginLabels,
     EndLabels, ConnectionLabels, TransactionLabels
<1>17. CASE EndUnregisterAuthorization(w)
  BY <1>1, <1>17, WorkerFacts DEF EndUnregisterAuthorization, Goto, Answer, Success,
     LocalTypeOK, LockDiscipline, Locking, EndLocked, QueryLocked, IdLabels,
     BeginLabels, EndLabels, ConnectionLabels, TransactionLabels
<1>18. CASE EndReturn(w)
  BY <1>1, <1>18, WorkerFacts DEF EndReturn, Goto, LocalTypeOK, LockDiscipline,
     Locking, EndLocked, QueryLocked, IdLabels, BeginLabels, EndLabels,
     ConnectionLabels, TransactionLabels
<1>19. CASE EndUnlock(w)
  BY <1>1, <1>19, WorkerFacts DEF EndUnlock, Answer, Unlock, Success, LocalTypeOK,
     LockDiscipline, Locking, EndLocked, QueryLocked, IdLabels, BeginLabels,
     EndLabels, ConnectionLabels, TransactionLabels
<1>20. CASE QueryAdmit(w)
  BY <1>1, <1>20, WorkerFacts DEF QueryAdmit, Goto, Answer, Local, LocalTypeOK,
     LockDiscipline, Locking, EndLocked, QueryLocked, IdLabels, BeginLabels,
     EndLabels, ConnectionLabels, TransactionLabels
<1>21. CASE QueryLease(w)
  BY <1>1, <1>21, WorkerFacts DEF QueryLease, Goto, Answer,
     LeaseStoreConnectionByName, LocalTypeOK, LockDiscipline, Locking, EndLocked,
     QueryLocked, IdLabels, BeginLabels, EndLabels, ConnectionLabels,
     TransactionLabels
<1>22. CASE QueryBegin(w)
  BY <1>1, <1>22, WorkerFacts DEF QueryBegin, Goto, Answer, SessionBegins,
     sessionVars, LocalTypeOK, LockDiscipline, Locking, EndLocked, QueryLocked,
     IdLabels, BeginLabels, EndLabels, ConnectionLabels, TransactionLabels
<1>23. CASE QueryConnection(w)
  BY <1>1, <1>23, WorkerFacts DEF QueryConnection, Goto, LocalTypeOK,
     LockDiscipline, Locking, EndLocked, QueryLocked, IdLabels, BeginLabels,
     EndLabels, ConnectionLabels, TransactionLabels
<1>24. CASE QueryTransaction(w)
  BY <1>1, <1>24, WorkerFacts DEF QueryTransaction, Goto, Answer, LocalTypeOK,
     LockDiscipline, Locking, EndLocked, QueryLocked, IdLabels, BeginLabels,
     EndLabels, ConnectionLabels, TransactionLabels
<1>25. CASE QueryCheckActive(w)
  BY <1>1, <1>25, WorkerFacts DEF QueryCheckActive, Goto, Local, LocalTypeOK,
     LockDiscipline, Locking, EndLocked, QueryLocked, IdLabels, BeginLabels,
     EndLabels, ConnectionLabels, TransactionLabels
<1>26. CASE QueryLock(w)
  BY <1>1, <1>26, WorkerFacts DEF QueryLock, Goto, Lock, LocalTypeOK,
     LockDiscipline, Locking, EndLocked, QueryLocked, IdLabels, BeginLabels,
     EndLabels, ConnectionLabels, TransactionLabels
<1>27. CASE QueryExecute(w)
  BY <1>1, <1>27, WorkerFacts DEF QueryExecute, Goto, SessionExecutes, Tag, Local,
     LocalTypeOK, LockDiscipline, Locking, EndLocked, QueryLocked, IdLabels,
     BeginLabels, EndLabels, ConnectionLabels, TransactionLabels
<1>28. CASE QueryCommit(w)
  BY <1>1, <1>28, WorkerFacts DEF QueryCommit, Goto, SessionEnds, SessionThrows,
     Unlock, sessionVars, AfterFailedCommit, LocalTypeOK, LockDiscipline, Locking,
     EndLocked, QueryLocked, IdLabels, BeginLabels, EndLabels, ConnectionLabels,
     TransactionLabels
<1>29. CASE QueryUnlock(w)
  BY <1>1, <1>29, WorkerFacts DEF QueryUnlock, Goto, Unlock, Local, LocalTypeOK,
     LockDiscipline, Locking, EndLocked, QueryLocked, IdLabels, BeginLabels,
     EndLabels, ConnectionLabels, TransactionLabels
<1>30. CASE QueryRollback(w)
  BY <1>1, <1>30, WorkerFacts DEF QueryRollback, Goto, Answer, SessionEnds,
     SessionThrows, sessionVars, LocalTypeOK, LockDiscipline, Locking, EndLocked,
     QueryLocked, IdLabels, BeginLabels, EndLabels, ConnectionLabels,
     TransactionLabels
<1>31. CASE QueryReturn(w)
  BY <1>1, <1>31, WorkerFacts DEF QueryReturn, Goto, LocalTypeOK, LockDiscipline,
     Locking, EndLocked, QueryLocked, IdLabels, BeginLabels, EndLabels,
     ConnectionLabels, TransactionLabels
<1>32. CASE Respond(w)
  BY <1>1, <1>32, WorkerFacts DEF Respond, Goto, LocalTypeOK, LockDiscipline,
     Locking, EndLocked, QueryLocked, IdLabels, BeginLabels, EndLabels,
     ConnectionLabels, TransactionLabels
<1>33. CASE Receive(w)
  BY <1>1, <1>33, WorkerFacts DEF Receive, Goto, EntryPoint, LocalTypeOK,
     LockDiscipline, Locking, EndLocked, QueryLocked, IdLabels, BeginLabels,
     EndLabels, ConnectionLabels, TransactionLabels
<1>34. QED
  BY <1>1, <1>2, <1>3, <1>4, <1>5, <1>6, <1>7, <1>8, <1>9, <1>10, <1>11, <1>12,
     <1>13, <1>14, <1>15, <1>16, <1>17, <1>18, <1>19, <1>20, <1>21, <1>22, <1>23,
     <1>24, <1>25, <1>26, <1>27, <1>28, <1>29, <1>30, <1>31, <1>32, <1>33 DEF Step,
     Begin, End, Query

-----------------------------------------------------------------------------
(* The invariant and what it gives.                                         *)

\* A fetch, and the end of one, touch nothing but who waits for whom.
LEMMA NextIsStep ==
  ASSUME HandlersInv, [Next]_vars
  PROVE  /\ \/ \E w \in Workers : Receive(w) \/ Step(w)
            \/ UNCHANGED <<managerVars, localVars>>
         /\ peer' \in [Workers -> Workers \cup {None}]
<1>1. peer \in [Workers -> Workers \cup {None}]
  BY DEF HandlersInv, HandlerTypeOK
<1>2. CASE UNCHANGED vars
  BY <1>1, <1>2 DEF vars
<1>3. ASSUME NEW w \in Workers, Serve(w) \/ Ask(w) \/ Handle(w)
      PROVE  /\ Receive(w) \/ Step(w) \/ UNCHANGED <<managerVars, localVars>>
             /\ peer' \in [Workers -> Workers \cup {None}]
  <2>1. CASE Serve(w)
    BY <1>1, <2>1 DEF Serve
  <2>2. CASE Ask(w)
    BY <1>1, <2>2 DEF Ask
  <2>3. CASE Handle(w)
    BY <1>1, <2>3 DEF Handle
  <2>4. QED
    BY <1>3, <2>1, <2>2, <2>3
<1>4. CASE Next
  BY <1>3, <1>4 DEF Next
<1>5. QED
  BY <1>2, <1>4

\* A step of the server is a call of a manager method or none.
LEMMA NextCallsManager ==
  ASSUME HandlersInv, [Next]_vars
  PROVE  [ManagerNext]_managerVars
BY NextIsStep, StepCallsManager

\* The initial state satisfies the invariant.
LEMMA InitHandlersInv == Init => HandlersInv
<1> SUFFICES ASSUME Init
             PROVE  HandlersInv
  OBVIOUS
<1>1. ManagerInv
  BY InitInv DEF Init
<1>2. HandlerTypeOK
  <2>1. pc \in [Workers -> Labels] /\ reply \in [Workers -> Codes]
    BY DEF Init, Labels, Codes
  <2>2. /\ req \in [Workers -> Requests \cup {NoRequest}]
        /\ conn \in [Workers -> Connections \cup {None}]
        /\ txn \in [Workers -> Connections \cup {None}]
        /\ peer \in [Workers -> Workers \cup {None}]
    BY DEF Init
  <2>3. /\ holder \in [Connections -> Workers \cup {None}]
        /\ open \in [Connections -> BOOLEAN]
        /\ pending \in [Connections -> SUBSET (TxnIds \cup Workers)]
        /\ leaked \subseteq Connections
    BY DEF Init
  <2>4. QED
    BY <2>1, <2>2, <2>3 DEF HandlerTypeOK, LocalTypeOK
<1>3. ControlInv
  BY DEF Init, ControlInv, IdLabels, BeginLabels, EndLabels, ConnectionLabels,
     TransactionLabels
<1>4. LockDiscipline
  BY HandlerAssumption DEF Init, LockDiscipline, Locking, EndLocked, QueryLocked
<1>5. QED
  BY <1>1, <1>2, <1>3, <1>4 DEF HandlersInv

\* Every step of the server keeps the invariant.
LEMMA NextHandlersInv == HandlersInv /\ [Next]_vars => HandlersInv'
<1> SUFFICES ASSUME HandlersInv, [Next]_vars
             PROVE  HandlersInv'
  OBVIOUS
<1>1. ManagerInv'
  BY NextCallsManager, NextInv DEF HandlersInv
<1>2. peer' \in [Workers -> Workers \cup {None}]
  BY NextIsStep
<1>3. LocalTypeOK' /\ ControlInv' /\ LockDiscipline'
  <2>1. CASE UNCHANGED <<managerVars, localVars>>
    <3>1. LocalTypeOK'
      BY <2>1 DEF localVars, handlerVars, sessionVars, HandlersInv, HandlerTypeOK,
         LocalTypeOK
    <3>2. ControlInv'
      BY <2>1 DEF localVars, handlerVars, HandlersInv, ControlInv
    <3>3. LockDiscipline'
      BY <2>1 DEF localVars, handlerVars, HandlersInv, LockDiscipline, Locking
    <3>4. QED
      BY <3>1, <3>2, <3>3
  <2>2. ASSUME NEW w \in Workers, Receive(w) \/ Step(w)
        PROVE  LocalTypeOK' /\ ControlInv' /\ LockDiscipline'
    BY <2>2, StepKeepsTypes, StepKeepsControl, StepKeepsLocks
  <2>3. QED
    BY <2>1, <2>2, NextIsStep
<1>4. QED
  BY <1>1, <1>2, <1>3 DEF HandlersInv, HandlerTypeOK

\* The invariant holds for ever: for any workers, clients, pools and faults.
THEOREM HandlersInvariance == Spec => []HandlersInv
<1>1. QED
  BY InitHandlersInv, NextHandlersInv, PTL DEF Spec

\* The handlers' and the manager's variables hold values of their types.
THEOREM HandlersTypeCorrect == Spec => []TypeOK
<1>1. HandlersInv => TypeOK
  BY DEF HandlersInv, ManagerInv, TypeOK
<1>2. QED
  BY <1>1, HandlersInvariance, PTL

\* On every path, the throwing ones included, the mutex of a connection is held
\* by exactly the worker that is between its lock and its unlock.
THEOREM LocksAreDisciplined == Spec => []LockDiscipline
<1>1. HandlersInv => LockDiscipline
  BY DEF HandlersInv
<1>2. QED
  BY <1>1, HandlersInvariance, PTL

\* Two workers are never both between the lock and the unlock of one mutex.
THEOREM MutualExclusion ==
  Spec => [](\A v, w \in Workers, c \in Connections :
               Locking(v, c) /\ Locking(w, c) => v = w)
<1>1. HandlersInv => \A v, w \in Workers, c \in Connections :
                       Locking(v, c) /\ Locking(w, c) => v = w
  BY DEF HandlersInv, LockDiscipline
<1>2. QED
  BY <1>1, HandlersInvariance, PTL

\* The handlers, however they interleave, are callers of the manager: their
\* behaviour is one that ManagerSpec allows.
THEOREM HandlersCallManager == Spec => ManagerSpec
<1>1. Init => ManagerInit
  BY DEF Init
<1>2. HandlersInv /\ [Next]_vars => [ManagerNext]_managerVars
  BY NextCallsManager
<1>3. QED
  BY <1>1, <1>2, HandlersInvariance, PTL DEF Spec, ManagerSpec

\* No interleaving of the handlers, coordinated or not, loses a pooled connection,
\* queues it twice or leases it to two callers.
THEOREM HandlersKeepPool == Spec => []PoolIntegrity
<1>1. QED
  BY HandlersCallManager, PoolIsSound, PTL
=============================================================================
