----------------------------- MODULE SessionProofs -----------------------------
(***************************************************************************)
(* The handlers when the requests on a transaction id come one at a time:  *)
(* each session then serves one owner, and the handlers implement the      *)
(* exclusive sessions of ExclusiveSessions, for any number of workers,     *)
(* stores, ids and clients and whatever the sessions throw.                *)
(*                                                                         *)
(* The argument goes by what a step of one worker does to the one          *)
(* connection its request holds: SessionStep lists the ways, every action  *)
(* of a handler is shown to be one of them, and the rest of the proof      *)
(* looks at those ways only.                                               *)
(***************************************************************************)
EXTENDS TransactionProofs

-----------------------------------------------------------------------------
(* Owners.                                                                  *)

\* A worker without a transaction id answers for itself, one with an id for
\* the id.
LEMMA TagFacts ==
  ASSUME HandlersInv, NEW w \in Workers
  PROVE  /\ req[w].id \in TxnIds \cup {None}
         /\ Tag(w) \in TxnIds \cup Workers
         /\ req[w].id = None => Tag(w) = w /\ Tag(w) \notin TxnIds
         /\ req[w].id # None => Tag(w) = req[w].id /\ Tag(w) \in TxnIds
<1>1. req[w] \in Requests \cup {NoRequest}
  BY DEF HandlersInv, HandlerTypeOK, LocalTypeOK
<1>2. req[w].id \in TxnIds \cup {None}
  BY <1>1, RequestFields DEF NoRequest
<1>3. QED
  BY <1>2, HandlerAssumption DEF Tag

\* Two workers never answer for the same owner.
LEMMA TagsDiffer ==
  ASSUME HandlersInv, DistinctIds, NEW v \in Workers, NEW w \in Workers,
         Tag(v) = Tag(w)
  PROVE  v = w
<1>1. CASE req[v].id = None
  BY <1>1, TagFacts
<1>2. CASE req[v].id # None
  BY <1>2, TagFacts DEF DistinctIds
<1>3. QED
  BY <1>1, <1>2

\* What the request of w holds: the connection its id is registered with, or
\* the one w must register or return.
Has(w, c) ==
  \/ req[w].id # None /\ connectionOf[req[w].id] = c
  \/ Responsible(w, c)

\* As no two workers serve one id, what the owner w answers for holds is what
\* the request of w holds.
LEMMA OwnHolding ==
  ASSUME HandlersInv, DistinctIds, NEW w \in Workers, NEW c \in Connections
  PROVE  Holds(Tag(w), c) <=> Has(w, c)
<1>1. Tag(w) \in TxnIds /\ connectionOf[Tag(w)] = c <=>
        req[w].id # None /\ connectionOf[req[w].id] = c
  BY TagFacts
<1>2. (\E v \in Workers : Tag(v) = Tag(w) /\ Responsible(v, c))
        <=> Responsible(w, c)
  BY TagsDiffer
<1>3. QED
  BY <1>1, <1>2 DEF Holds, Has

\* No two requests hold one connection.
LEMMA Exclusive ==
  ASSUME HandlersInv, DistinctIds, Accounting,
         NEW v \in Workers, NEW w \in Workers, NEW c \in Connections,
         Has(v, c), Has(w, c)
  PROVE  v = w
<1>1. Holds(Tag(v), c) /\ Holds(Tag(w), c)
  BY OwnHolding
<1>2. Tag(v) \in TxnIds \cup Workers /\ Tag(w) \in TxnIds \cup Workers
  BY TagFacts
<1>3. Tag(v) = Tag(w)
  BY <1>1, <1>2 DEF Accounting
<1>4. QED
  BY <1>3, TagsDiffer

\* The connection that is leased next is idle.
LEMMA NextLeasedIsIdle ==
  ASSUME ManagerInv, NEW name, ~NothingToLease(name)
  PROVE  NextLeased(name) \in Connections \ borrowed
<1> DEFINE s == RealName(name)
<1>1. PoolTypeOK /\ PoolIntegrity
  BY InvParts
<1>2. s \in Stores /\ queue[s] # <<>>
  BY RealNameType DEF NothingToLease
<1>3. queue[s] \in Seq(Connections)
  BY <1>1, <1>2 DEF PoolTypeOK
<1>4. 1 \in 1..Len(queue[s]) /\ NextLeased(name) = queue[s][1]
  BY <1>2, <1>3 DEF NextLeased
<1>5. NextLeased(name) \in Connections
  BY <1>3, <1>4
<1>6. NextLeased(name).store = s
  BY <1>1, <1>2, <1>4 DEF PoolIntegrity, QueueHoldsOnlyOwn
<1>7. QED
  BY <1>1, <1>4, <1>5, <1>6 DEF PoolIntegrity, QueuedIffNotBorrowed

-----------------------------------------------------------------------------
(* What one worker's step leaves alone.                                     *)

\* The other workers stay where they are.
SameOthers(w) ==
  \A v \in Workers : v # w => /\ pc'[v] = pc[v]
                              /\ req'[v] = req[v]
                              /\ conn'[v] = conn[v]
                              /\ txn'[v] = txn[v]
                              /\ reply'[v] = reply[v]

\* The other ids are registered as they were.
SameOtherIds(w) ==
  \A id \in TxnIds : id # req[w].id => /\ transactionOf'[id] = transactionOf[id]
                                       /\ connectionOf'[id] = connectionOf[id]

\* A step of w moves no other worker.
LEMMA StepIsOwn ==
  ASSUME HandlersInv, NEW w \in Workers, Receive(w) \/ Step(w)
  PROVE  SameOthers(w)
<1>1. LocalTypeOK
  BY DEF HandlersInv, HandlerTypeOK
<1> USE DEF SameOthers
<1>2. CASE BeginAdmit(w)
  BY <1>1, <1>2 DEF BeginAdmit, Goto, Answer, LocalTypeOK
<1>3. CASE BeginLookup(w)
  BY <1>1, <1>3 DEF BeginLookup, Goto, Answer, LocalTypeOK
<1>4. CASE BeginLease(w)
  BY <1>1, <1>4 DEF BeginLease, Goto, Answer, LeaseStoreConnectionByName,
     LocalTypeOK
<1>5. CASE BeginSession(w)
  BY <1>1, <1>5 DEF BeginSession, Goto, Answer, SessionBegins, sessionVars,
     LocalTypeOK
<1>6. CASE BeginRegisterTransaction(w)
  BY <1>1, <1>6 DEF BeginRegisterTransaction, Goto, LocalTypeOK
<1>7. CASE BeginRegisterConnection(w)
  BY <1>1, <1>7 DEF BeginRegisterConnection, Goto, LocalTypeOK
<1>8. CASE BeginRegisterAuthorization(w)
  BY <1>1, <1>8 DEF BeginRegisterAuthorization, Answer, LocalTypeOK
<1>9. CASE EndLookup(w)
  BY <1>1, <1>9 DEF EndLookup, Goto, Answer, LocalTypeOK
<1>10. CASE EndCheckActive(w)
  BY <1>1, <1>10 DEF EndCheckActive, Goto, Answer, LocalTypeOK
<1>11. CASE EndConnection(w)
  BY <1>1, <1>11 DEF EndConnection, Goto, LocalTypeOK
<1>12. CASE EndAdmit(w)
  BY <1>1, <1>12 DEF EndAdmit, Goto, Answer, LocalTypeOK
<1>13. CASE EndLock(w)
  BY <1>1, <1>13 DEF EndLock, Goto, Lock, LocalTypeOK
<1>14. CASE EndCall(w)
  BY <1>1, <1>14 DEF EndCall, Goto, Answer, CallEnd, SessionEnds, SessionThrows,
     UnlockIfLocked, Unlock, Success, sessionVars, LocalTypeOK
<1>15. CASE EndUnregisterTransaction(w)
  BY <1>1, <1>15 DEF EndUnregisterTransaction, Goto, LocalTypeOK
<1>16. CASE EndUnregisterConnection(w)
  BY <1>1, <1>16 DEF EndUnregisterConnection, Goto, LocalTypeOK
<1>17. CASE EndUnregisterAuthorization(w)
  BY <1>1, <1>17 DEF EndUnregisterAuthorization, Goto, Answer, Success, LocalTypeOK
<1>18. CASE EndReturn(w)
  BY <1>1, <1>18 DEF EndReturn, Goto, LocalTypeOK
<1>19. CASE EndUnlock(w)
  BY <1>1, <1>19 DEF EndUnlock, Answer, Unlock, Success, LocalTypeOK
<1>20. CASE QueryAdmit(w)
  BY <1>1, <1>20 DEF QueryAdmit, Goto, Answer, Local, LocalTypeOK
<1>21. CASE QueryLease(w)
  BY <1>1, <1>21 DEF QueryLease, Goto, Answer, LeaseStoreConnectionByName,
     LocalTypeOK
<1>22. CASE QueryBegin(w)
  BY <1>1, <1>22 DEF QueryBegin, Goto, Answer, SessionBegins, sessionVars,
     LocalTypeOK
<1>23. CASE QueryConnection(w)
  BY <1>1, <1>23 DEF QueryConnection, Goto, LocalTypeOK
<1>24. CASE QueryTransaction(w)
  BY <1>1, <1>24 DEF QueryTransaction, Goto, Answer, LocalTypeOK
<1>25. CASE QueryCheckActive(w)
  BY <1>1, <1>25 DEF QueryCheckActive, Goto, Local, LocalTypeOK
<1>26. CASE QueryLock(w)
  BY <1>1, <1>26 DEF QueryLock, Goto, Lock, LocalTypeOK
<1>27. CASE QueryExecute(w)
  BY <1>1, <1>27 DEF QueryExecute, Goto, SessionExecutes, Tag, Local, LocalTypeOK
<1>28. CASE QueryCommit(w)
  BY <1>1, <1>28 DEF QueryCommit, Goto, SessionEnds, SessionThrows, Unlock,
     sessionVars, AfterFailedCommit, LocalTypeOK
<1>29. CASE QueryUnlock(w)
  BY <1>1, <1>29 DEF QueryUnlock, Goto, Unlock, Local, LocalTypeOK
<1>30. CASE QueryRollback(w)
  BY <1>1, <1>30 DEF QueryRollback, Goto, Answer, SessionEnds, SessionThrows,
     sessionVars, LocalTypeOK
<1>31. CASE QueryReturn(w)
  BY <1>1, <1>31 DEF QueryReturn, Goto, LocalTypeOK
<1>32. CASE Respond(w)
  BY <1>1, <1>32 DEF Respond, Goto, LocalTypeOK
<1>33. CASE Receive(w)
  BY <1>1, <1>33 DEF Receive, Goto, EntryPoint, LocalTypeOK
<1>34. QED
  BY <1>1, <1>2, <1>3, <1>4, <1>5, <1>6, <1>7, <1>8, <1>9, <1>10, <1>11, <1>12,
     <1>13, <1>14, <1>15, <1>16, <1>17, <1>18, <1>19, <1>20, <1>21, <1>22, <1>23,
     <1>24, <1>25, <1>26, <1>27, <1>28, <1>29, <1>30, <1>31, <1>32, <1>33 DEF Step,
     Begin, End, Query

\* A step of w changes no registration but that of its own id.
LEMMA StepKeepsOtherIds ==
  ASSUME HandlersInv, NEW w \in Workers, Receive(w) \/ Step(w)
  PROVE  SameOtherIds(w)
<1>1. /\ transactionOf \in [TxnIds -> Connections \cup {None}]
      /\ connectionOf \in [TxnIds -> Connections \cup {None}]
  BY DEF HandlersInv, ManagerInv, ManagerTypeOK
<1> USE DEF SameOtherIds
<1>2. CASE BeginAdmit(w)
  BY <1>2 DEF BeginAdmit, managerVars
<1>3. CASE BeginLookup(w)
  BY <1>3 DEF BeginLookup, managerVars
<1>4. CASE BeginLease(w)
  BY <1>4 DEF BeginLease, managerVars
<1>5. CASE BeginSession(w)
  BY <1>5 DEF BeginSession, managerVars
<1>6. CASE BeginRegisterTransaction(w)
  BY <1>1, <1>6 DEF BeginRegisterTransaction, RegisterTransactionToId
<1>7. CASE BeginRegisterConnection(w)
  BY <1>1, <1>7 DEF BeginRegisterConnection, RegisterStoreConnectionToId
<1>8. CASE BeginRegisterAuthorization(w)
  BY <1>8 DEF BeginRegisterAuthorization, managerVars
<1>9. CASE EndLookup(w)
  BY <1>9 DEF EndLookup, managerVars
<1>10. CASE EndCheckActive(w)
  BY <1>10 DEF EndCheckActive, managerVars
<1>11. CASE EndConnection(w)
  BY <1>11 DEF EndConnection, managerVars
<1>12. CASE EndAdmit(w)
  BY <1>12 DEF EndAdmit, managerVars
<1>13. CASE EndLock(w)
  BY <1>13 DEF EndLock, managerVars
<1>14. CASE EndCall(w)
  BY <1>14 DEF EndCall, managerVars
<1>15. CASE EndUnregisterTransaction(w)
  BY <1>1, <1>15 DEF EndUnregisterTransaction, UnregisterTransactionById
<1>16. CASE EndUnregisterConnection(w)
  BY <1>1, <1>16 DEF EndUnregisterConnection, UnregisterStoreConnectionById
<1>17. CASE EndUnregisterAuthorization(w)
  BY <1>17 DEF EndUnregisterAuthorization, managerVars
<1>18. CASE EndReturn(w)
  BY <1>18 DEF EndReturn, managerVars
<1>19. CASE EndUnlock(w)
  BY <1>19 DEF EndUnlock, managerVars
<1>20. CASE QueryAdmit(w)
  BY <1>20 DEF QueryAdmit, managerVars
<1>21. CASE QueryLease(w)
  BY <1>21 DEF QueryLease, managerVars
<1>22. CASE QueryBegin(w)
  BY <1>22 DEF QueryBegin, managerVars
<1>23. CASE QueryConnection(w)
  BY <1>23 DEF QueryConnection, managerVars
<1>24. CASE QueryTransaction(w)
  BY <1>24 DEF QueryTransaction, managerVars
<1>25. CASE QueryCheckActive(w)
  BY <1>25 DEF QueryCheckActive, managerVars
<1>26. CASE QueryLock(w)
  BY <1>26 DEF QueryLock, managerVars
<1>27. CASE QueryExecute(w)
  BY <1>27 DEF QueryExecute, managerVars
<1>28. CASE QueryCommit(w)
  BY <1>28 DEF QueryCommit, managerVars
<1>29. CASE QueryUnlock(w)
  BY <1>29 DEF QueryUnlock, managerVars
<1>30. CASE QueryRollback(w)
  BY <1>30 DEF QueryRollback, managerVars
<1>31. CASE QueryReturn(w)
  BY <1>31 DEF QueryReturn, managerVars
<1>32. CASE Respond(w)
  BY <1>32 DEF Respond, managerVars
<1>33. CASE Receive(w)
  BY <1>33 DEF Receive, managerVars
<1>34. QED
  BY <1>1, <1>2, <1>3, <1>4, <1>5, <1>6, <1>7, <1>8, <1>9, <1>10, <1>11, <1>12,
     <1>13, <1>14, <1>15, <1>16, <1>17, <1>18, <1>19, <1>20, <1>21, <1>22, <1>23,
     <1>24, <1>25, <1>26, <1>27, <1>28, <1>29, <1>30, <1>31, <1>32, <1>33 DEF Step,
     Begin, End, Query

\* From a handler's first step to its answer.
Handles(w) == Begin(w) \/ End(w) \/ Query(w)

\* Until it is answered a worker serves the same request.
LEMMA StepKeepsRequest ==
  ASSUME NEW w \in Workers, Handles(w)
  PROVE  req' = req
<1>1. CASE BeginAdmit(w)
  BY <1>1 DEF BeginAdmit
<1>2. CASE BeginLookup(w)
  BY <1>2 DEF BeginLookup
<1>3. CASE BeginLease(w)
  BY <1>3 DEF BeginLease
<1>4. CASE BeginSession(w)
  BY <1>4 DEF BeginSession
<1>5. CASE BeginRegisterTransaction(w)
  BY <1>5 DEF BeginRegisterTransaction
<1>6. CASE BeginRegisterConnection(w)
  BY <1>6 DEF BeginRegisterConnection
<1>7. CASE BeginRegisterAuthorization(w)
  BY <1>7 DEF BeginRegisterAuthorization
<1>8. CASE EndLookup(w)
  BY <1>8 DEF EndLookup
<1>9. CASE EndCheckActive(w)
  BY <1>9 DEF EndCheckActive
<1>10. CASE EndConnection(w)
  BY <1>10 DEF EndConnection
<1>11. CASE EndAdmit(w)
  BY <1>11 DEF EndAdmit
<1>12. CASE EndLock(w)
  BY <1>12 DEF EndLock
<1>13. CASE EndCall(w)
  BY <1>13 DEF EndCall
<1>14. CASE EndUnregisterTransaction(w)
  BY <1>14 DEF EndUnregisterTransaction
<1>15. CASE EndUnregisterConnection(w)
  BY <1>15 DEF EndUnregisterConnection
<1>16. CASE EndUnregisterAuthorization(w)
  BY <1>16 DEF EndUnregisterAuthorization
<1>17. CASE EndReturn(w)
  BY <1>17 DEF EndReturn
<1>18. CASE EndUnlock(w)
  BY <1>18 DEF EndUnlock
<1>19. CASE QueryAdmit(w)
  BY <1>19 DEF QueryAdmit
<1>20. CASE QueryLease(w)
  BY <1>20 DEF QueryLease
<1>21. CASE QueryBegin(w)
  BY <1>21 DEF QueryBegin
<1>22. CASE QueryConnection(w)
  BY <1>22 DEF QueryConnection
<1>23. CASE QueryTransaction(w)
  BY <1>23 DEF QueryTransaction
<1>24. CASE QueryCheckActive(w)
  BY <1>24 DEF QueryCheckActive
<1>25. CASE QueryLock(w)
  BY <1>25 DEF QueryLock
<1>26. CASE QueryExecute(w)
  BY <1>26 DEF QueryExecute
<1>27. CASE QueryCommit(w)
  BY <1>27 DEF QueryCommit
<1>28. CASE QueryUnlock(w)
  BY <1>28 DEF QueryUnlock
<1>29. CASE QueryRollback(w)
  BY <1>29 DEF QueryRollback
<1>30. CASE QueryReturn(w)
  BY <1>30 DEF QueryReturn
<1>31. QED
  BY <1>1, <1>2, <1>3, <1>4, <1>5, <1>6, <1>7, <1>8, <1>9, <1>10, <1>11, <1>12,
     <1>13, <1>14, <1>15, <1>16, <1>17, <1>18, <1>19, <1>20, <1>21, <1>22, <1>23,
     <1>24, <1>25, <1>26, <1>27, <1>28, <1>29, <1>30 DEF Handles, Begin, End, Query

-----------------------------------------------------------------------------
(* What a step of w does to the connection its request holds.               *)

KeepsHolding(w) == \A c \in Connections : Has(w, c)' <=> Has(w, c)

HoldsNoMore(w, c) ==
  \A d \in Connections : Has(w, d)' <=> Has(w, d) /\ d # c

\* A lease for the request of w.
Takes(w, c) ==
  /\ c \in Connections \ borrowed
  /\ borrowed' = borrowed \cup {c}
  /\ \A d \in Connections : Has(w, d)' <=> Has(w, d) \/ d = c
  /\ UNCHANGED <<leaked, sessionVars>>

\* A lease that is dropped at once.
Wastes(w, c) ==
  /\ c \in Connections \ borrowed
  /\ borrowed' = borrowed \cup {c}
  /\ leaked' = leaked \cup {c}
  /\ KeepsHolding(w)
  /\ UNCHANGED sessionVars

Opens(w, c) ==
  /\ Has(w, c) /\ KeepsHolding(w)
  /\ SessionBegins(c)
  /\ UNCHANGED <<borrowed, leaked>>

Works(w, c) ==
  /\ Has(w, c) /\ KeepsHolding(w)
  /\ open[c]
  /\ pending' = [pending EXCEPT ![c] = @ \cup {Tag(w)}]
  /\ UNCHANGED <<open, borrowed, leaked>>

Ends(w, c) ==
  /\ Has(w, c) /\ KeepsHolding(w)
  /\ SessionEnds(c)
  /\ UNCHANGED <<borrowed, leaked>>

\* The connection goes back to its pool.
Returns(w, c) ==
  /\ Has(w, c) /\ HoldsNoMore(w, c)
  /\ ~open[c]
  /\ borrowed' = borrowed \ {c}
  /\ UNCHANGED <<leaked, sessionVars>>

\* An error path forgets the connection.
Drops(w, c) ==
  /\ Has(w, c) /\ HoldsNoMore(w, c)
  /\ leaked' = leaked \cup {c}
  /\ UNCHANGED <<borrowed, sessionVars>>

Rests(w) == KeepsHolding(w) /\ UNCHANGED <<borrowed, leaked, sessionVars>>

SessionStep(w) ==
  \/ Rests(w)
  \/ \E c \in Connections :
       \/ Takes(w, c) \/ Wastes(w, c)
       \/ Opens(w, c) \/ Works(w, c) \/ Ends(w, c)
       \/ Returns(w, c) \/ Drops(w, c)

\* What the invariants say of the worker that takes a step.
LEMMA OwnPhase ==
  ASSUME HandlersInv, SessionInv, NEW w \in Workers
  PROVE  /\ RequestPhase(w) /\ LookupPhase(w) /\ RegistryPhase(w) /\ SessionPhase(w)
         /\ req[w].id \in TxnIds \cup {None}
         /\ req[w].id \in TxnIds /\ pc[w] \notin HalfRegistered =>
              transactionOf[req[w].id] = connectionOf[req[w].id]
<1>1. req[w].id \in TxnIds \cup {None}
  BY TagFacts
<1>2. ASSUME req[w].id \in TxnIds, pc[w] \notin HalfRegistered
      PROVE  transactionOf[req[w].id] = connectionOf[req[w].id]
  BY <1>2, HandlerAssumption DEF SessionInv, RegistriesDifferBriefly, DistinctIds
<1>3. QED
  BY <1>1, <1>2 DEF SessionInv, Phases

\* A connection that a request holds is leased and not lost.
LEMMA HeldIsLeased ==
  ASSUME HandlersInv, SessionInv, NEW w \in Workers, NEW c \in Connections,
         Has(w, c)
  PROVE  c \in borrowed /\ c \notin leaked
  BY OwnHolding, TagFacts DEF SessionInv, Accounting

\* A step that takes, wastes or writes to a connection is one of the ways.
LEMMA WayIsSessionStep ==
  ASSUME NEW w \in Workers, NEW c \in Connections,
         Takes(w, c) \/ Wastes(w, c) \/ Works(w, c)
  PROVE  SessionStep(w)
  BY DEF SessionStep

\* Every action of a handler is one of the ways.
LEMMA StepIsSessionStep ==
  ASSUME HandlersInv, SessionInv, NEW w \in Workers, Handles(w)
  PROVE  SessionStep(w)
<1>1. /\ RequestPhase(w) /\ LookupPhase(w) /\ RegistryPhase(w) /\ SessionPhase(w)
      /\ req[w].id \in TxnIds \cup {None}
      /\ req[w].id \in TxnIds /\ pc[w] \notin HalfRegistered =>
           transactionOf[req[w].id] = connectionOf[req[w].id]
  BY OwnPhase
<1>2. /\ LocalTypeOK /\ None \notin Connections /\ None \notin TxnIds
      /\ transactionOf \in [TxnIds -> Connections \cup {None}]
      /\ connectionOf \in [TxnIds -> Connections \cup {None}]
      /\ ManagerInv
  BY HandlerAssumption, NoneAssumption
     DEF HandlersInv, HandlerTypeOK, ManagerInv, ManagerTypeOK
<1> USE DEF Has, Responsible, Leasing, Unregistered, Local, RequestPhase,
   LookupPhase, RegistryPhase, SessionPhase, Working, HalfRegistered, Begun,
   IdLabels, BeginLabels, EndLabels, QueryLabels, ConnectionLabels,
   TransactionLabels, LocalTypeOK, managerVars, poolVars
<1>3. CASE BeginAdmit(w)
  <2>1. KeepsHolding(w)
    BY <1>1, <1>2, <1>3, WorkerFacts DEF KeepsHolding, BeginAdmit, Goto, Answer
  <2>2. UNCHANGED <<borrowed, leaked, sessionVars>>
    BY <1>3 DEF BeginAdmit
  <2>3. QED
    BY <2>1, <2>2 DEF SessionStep, Rests
<1>4. CASE BeginLookup(w)
  <2>1. KeepsHolding(w)
    BY <1>1, <1>2, <1>4, WorkerFacts DEF KeepsHolding, BeginLookup, Goto, Answer
  <2>2. UNCHANGED <<borrowed, leaked, sessionVars>>
    BY <1>4 DEF BeginLookup
  <2>3. QED
    BY <2>1, <2>2 DEF SessionStep, Rests
<1>5. CASE BeginLease(w)
  <2>1. CASE NothingToLease(req[w].name)
    BY <1>1, <1>2, <1>5, <2>1 DEF SessionStep, Rests, KeepsHolding, BeginLease,
       LeaseStoreConnectionByName, Answer
  <2>2. CASE ~NothingToLease(req[w].name)
    <3>1. PICK c \in Connections \ borrowed : c = NextLeased(req[w].name)
      BY <1>2, <2>2, NextLeasedIsIdle
    <3>2. /\ borrowed' = borrowed \cup {c}
          /\ conn' = [conn EXCEPT ![w] = c]
          /\ UNCHANGED <<connectionOf, req, sessionVars>>
      BY <1>5, <2>2, <3>1 DEF BeginLease, LeaseStoreConnectionByName
    <3>3. \A d \in Connections : ~Has(w, d)
      BY <1>1, <1>2, <1>5, WorkerFacts DEF BeginLease
    <3>4. CASE IsSql(c)
      <4>1. pc' = [pc EXCEPT ![w] = "begin_session"] /\ UNCHANGED leaked
        BY <1>5, <2>2, <3>1, <3>4 DEF BeginLease, Goto
      <4>2. \A d \in Connections : Has(w, d)' <=> d = c
        BY <1>1, <1>2, <1>5, <3>1, <3>2, <4>1, WorkerFacts DEF BeginLease
      <4>3. Takes(w, c)
        BY <3>1, <3>2, <3>3, <4>1, <4>2 DEF Takes
      <4>4. QED
        BY <3>1, <4>3, WayIsSessionStep
    <3>5. CASE ~IsSql(c)
      <4>1. pc' = [pc EXCEPT ![w] = "respond"] /\ leaked' = leaked \cup {c}
        BY <1>5, <2>2, <3>1, <3>5 DEF BeginLease, Answer
      <4>2. \A d \in Connections : ~Has(w, d)'
        BY <1>1, <1>2, <1>5, <3>1, <3>2, <4>1, WorkerFacts DEF BeginLease
      <4>3. Wastes(w, c)
        BY <3>1, <3>2, <3>3, <4>1, <4>2 DEF Wastes, KeepsHolding
      <4>4. QED
        BY <3>1, <4>3, WayIsSessionStep
    <3>6. QED
      BY <3>4, <3>5
  <2>3. QED
    BY <2>1, <2>2
<1>6. CASE BeginSession(w)
  BY <1>1, <1>2, <1>6, WorkerFacts, NextLeasedIsIdle, HeldIsLeased DEF SessionStep,
     Rests, KeepsHolding, HoldsNoMore, Opens, Ends, Drops, BeginSession, Goto,
     Answer, SessionBegins, sessionVars
<1>7. CASE BeginRegisterTransaction(w)
  <2>1. KeepsHolding(w)
    BY <1>1, <1>2, <1>7, WorkerFacts DEF KeepsHolding, BeginRegisterTransaction,
       Goto, RegisterTransactionToId
  <2>2. UNCHANGED <<borrowed, leaked, sessionVars>>
    BY <1>7 DEF BeginRegisterTransaction
  <2>3. QED
    BY <2>1, <2>2 DEF SessionStep, Rests
<1>8. CASE BeginRegisterConnection(w)
  <2>1. KeepsHolding(w)
    BY <1>1, <1>2, <1>8, WorkerFacts DEF KeepsHolding, BeginRegisterConnection,
       Goto, RegisterStoreConnectionToId
  <2>2. UNCHANGED <<borrowed, leaked, sessionVars>>
    BY <1>8 DEF BeginRegisterConnection
  <2>3. QED
    BY <2>1, <2>2 DEF SessionStep, Rests
<1>9. CASE BeginRegisterAuthorization(w)
  <2>1. KeepsHolding(w)
    BY <1>1, <1>2, <1>9, WorkerFacts DEF KeepsHolding, BeginRegisterAuthorization,
       Answer
  <2>2. UNCHANGED <<borrowed, leaked, sessionVars>>
    BY <1>9 DEF BeginRegisterAuthorization
  <2>3. QED
    BY <2>1, <2>2 DEF SessionStep, Rests
<1>10. CASE EndLookup(w)
  <2>1. KeepsHolding(w)
    BY <1>1, <1>2, <1>10, WorkerFacts DEF KeepsHolding, EndLookup, Goto, Answer
  <2>2. UNCHANGED <<borrowed, leaked, sessionVars>>
    BY <1>10 DEF EndLookup
  <2>3. QED
    BY <2>1, <2>2 DEF SessionStep, Rests
<1>11. CASE EndCheckActive(w)
  <2>1. KeepsHolding(w)
    BY <1>1, <1>2, <1>11, WorkerFacts DEF KeepsHolding, EndCheckActive, Goto, Answer
  <2>2. UNCHANGED <<borrowed, leaked, sessionVars>>
    BY <1>11 DEF EndCheckActive
  <2>3. QED
    BY <2>1, <2>2 DEF SessionStep, Rests
<1>12. CASE EndConnection(w)
  <2>1. KeepsHolding(w)
    BY <1>1, <1>2, <1>12, WorkerFacts DEF KeepsHolding, EndConnection, Goto
  <2>2. UNCHANGED <<borrowed, leaked, sessionVars>>
    BY <1>12 DEF EndConnection
  <2>3. QED
    BY <2>1, <2>2 DEF SessionStep, Rests
<1>13. CASE EndAdmit(w)
  <2>1. KeepsHolding(w)
    BY <1>1, <1>2, <1>13, WorkerFacts DEF KeepsHolding, EndAdmit, Goto, Answer
  <2>2. UNCHANGED <<borrowed, leaked, sessionVars>>
    BY <1>13 DEF EndAdmit
  <2>3. QED
    BY <2>1, <2>2 DEF SessionStep, Rests
<1>14. CASE EndLock(w)
  <2>1. KeepsHolding(w)
    BY <1>1, <1>2, <1>14, WorkerFacts DEF KeepsHolding, EndLock, Goto, Lock
  <2>2. UNCHANGED <<borrowed, leaked, sessionVars>>
    BY <1>14 DEF EndLock
  <2>3. QED
    BY <2>1, <2>2 DEF SessionStep, Rests
<1>15. CASE EndCall(w)
  BY <1>1, <1>2, <1>15, WorkerFacts, NextLeasedIsIdle, HeldIsLeased DEF SessionStep,
     Rests, KeepsHolding, HoldsNoMore, Opens, Ends, Drops, EndCall, Goto, Answer,
     CallEnd, SessionEnds, SessionThrows, UnlockIfLocked, Unlock, Success,
     sessionVars
<1>16. CASE EndUnregisterTransaction(w)
  <2>1. KeepsHolding(w)
    BY <1>1, <1>2, <1>16, WorkerFacts DEF KeepsHolding, EndUnregisterTransaction,
       Goto, UnregisterTransactionById
  <2>2. UNCHANGED <<borrowed, leaked, sessionVars>>
    BY <1>16 DEF EndUnregisterTransaction
  <2>3. QED
    BY <2>1, <2>2 DEF SessionStep, Rests
<1>17. CASE EndUnregisterConnection(w)
  <2>1. KeepsHolding(w)
    BY <1>1, <1>2, <1>17, WorkerFacts DEF KeepsHolding, EndUnregisterConnection,
       Goto, UnregisterStoreConnectionById
  <2>2. UNCHANGED <<borrowed, leaked, sessionVars>>
    BY <1>17 DEF EndUnregisterConnection
  <2>3. QED
    BY <2>1, <2>2 DEF SessionStep, Rests
<1>18. CASE EndUnregisterAuthorization(w)
  <2>1. KeepsHolding(w)
    BY <1>1, <1>2, <1>18, WorkerFacts DEF KeepsHolding, EndUnregisterAuthorization,
       Goto, Answer, Success
  <2>2. UNCHANGED <<borrowed, leaked, sessionVars>>
    BY <1>18 DEF EndUnregisterAuthorization
  <2>3. QED
    BY <2>1, <2>2 DEF SessionStep, Rests
<1>19. CASE EndReturn(w)
  <2>1. conn[w] \in Connections /\ Has(w, conn[w])
    BY <1>1, <1>2, <1>19, WorkerFacts DEF EndReturn
  <2>2. conn[w] \in borrowed /\ ~open[conn[w]]
    BY <1>1, <1>19, <2>1, HeldIsLeased DEF EndReturn
  <2>3. HoldsNoMore(w, conn[w])
    BY <1>1, <1>2, <1>19, <2>1, WorkerFacts DEF HoldsNoMore, EndReturn, Goto
  <2>4. borrowed' = borrowed \ {conn[w]} /\ UNCHANGED <<leaked, sessionVars>>
    BY <1>19, <2>2 DEF EndReturn, ReturnLeasedStoreConnection, CanReturn
  <2>5. Returns(w, conn[w])
    BY <2>1, <2>2, <2>3, <2>4 DEF Returns
  <2>6. QED
    BY <2>1, <2>5 DEF SessionStep
<1>20. CASE EndUnlock(w)
  <2>1. KeepsHolding(w)
    BY <1>1, <1>2, <1>20, WorkerFacts DEF KeepsHolding, EndUnlock, Answer, Unlock,
       Success
  <2>2. UNCHANGED <<borrowed, leaked, sessionVars>>
    BY <1>20 DEF EndUnlock
  <2>3. QED
    BY <2>1, <2>2 DEF SessionStep, Rests
<1>21. CASE QueryAdmit(w)
  <2>1. KeepsHolding(w)
    BY <1>1, <1>2, <1>21, WorkerFacts DEF KeepsHolding, QueryAdmit, Goto, Answer,
       Local
  <2>2. UNCHANGED <<borrowed, leaked, sessionVars>>
    BY <1>21 DEF QueryAdmit
  <2>3. QED
    BY <2>1, <2>2 DEF SessionStep, Rests
<1>22. CASE QueryLease(w)
  <2>1. CASE NothingToLease(req[w].name)
    BY <1>1, <1>2, <1>22, <2>1 DEF SessionStep, Rests, KeepsHolding, QueryLease,
       LeaseStoreConnectionByName, Answer
  <2>2. CASE ~NothingToLease(req[w].name)
    <3>1. PICK c \in Connections \ borrowed : c = NextLeased(req[w].name)
      BY <1>2, <2>2, NextLeasedIsIdle
    <3>2. /\ borrowed' = borrowed \cup {c}
          /\ conn' = [conn EXCEPT ![w] = c]
          /\ UNCHANGED <<connectionOf, req, sessionVars, leaked>>
          /\ pc' = [pc EXCEPT ![w] = IF IsSql(c) THEN "query_begin"
                                             ELSE "query_lock"]
      BY <1>22, <2>2, <3>1 DEF QueryLease, LeaseStoreConnectionByName, Goto
    <3>3. \A d \in Connections : ~Has(w, d)
      BY <1>1, <1>2, <1>22, WorkerFacts DEF QueryLease
    <3>4. \A d \in Connections : Has(w, d)' <=> d = c
      BY <1>1, <1>2, <1>22, <3>1, <3>2, WorkerFacts DEF QueryLease
    <3>5. Takes(w, c)
      BY <3>1, <3>2, <3>3, <3>4 DEF Takes
    <3>6. QED
      BY <3>1, <3>5, WayIsSessionStep
  <2>3. QED
    BY <2>1, <2>2
<1>23. CASE QueryBegin(w)
  BY <1>1, <1>2, <1>23, WorkerFacts, NextLeasedIsIdle, HeldIsLeased DEF SessionStep,
     Rests, KeepsHolding, HoldsNoMore, Opens, Ends, Drops, QueryBegin, Goto, Answer,
     SessionBegins, sessionVars
<1>24. CASE QueryConnection(w)
  <2>1. KeepsHolding(w)
    BY <1>1, <1>2, <1>24, WorkerFacts DEF KeepsHolding, QueryConnection, Goto
  <2>2. UNCHANGED <<borrowed, leaked, sessionVars>>
    BY <1>24 DEF QueryConnection
  <2>3. QED
    BY <2>1, <2>2 DEF SessionStep, Rests
<1>25. CASE QueryTransaction(w)
  <2>1. KeepsHolding(w)
    BY <1>1, <1>2, <1>25, WorkerFacts DEF KeepsHolding, QueryTransaction, Goto,
       Answer
  <2>2. UNCHANGED <<borrowed, leaked, sessionVars>>
    BY <1>25 DEF QueryTransaction
  <2>3. QED
    BY <2>1, <2>2 DEF SessionStep, Rests
<1>26. CASE QueryCheckActive(w)
  <2>1. KeepsHolding(w)
    BY <1>1, <1>2, <1>26, WorkerFacts DEF KeepsHolding, QueryCheckActive, Goto,
       Local
  <2>2. UNCHANGED <<borrowed, leaked, sessionVars>>
    BY <1>26 DEF QueryCheckActive
  <2>3. QED
    BY <2>1, <2>2 DEF SessionStep, Rests
<1>27. CASE QueryLock(w)
  <2>1. KeepsHolding(w)
    BY <1>1, <1>2, <1>27, WorkerFacts DEF KeepsHolding, QueryLock, Goto, Lock
  <2>2. UNCHANGED <<borrowed, leaked, sessionVars>>
    BY <1>27 DEF QueryLock
  <2>3. QED
    BY <2>1, <2>2 DEF SessionStep, Rests
<1>28. CASE QueryExecute(w)
  <2>1. conn[w] \in Connections /\ Has(w, conn[w])
    BY <1>1, <1>2, <1>28, WorkerFacts DEF QueryExecute
  <2>2. KeepsHolding(w)
    BY <1>1, <1>2, <1>28, <2>1, WorkerFacts DEF KeepsHolding, QueryExecute, Goto
  <2>3. UNCHANGED <<borrowed, leaked>>
    BY <1>28 DEF QueryExecute
  <2>4. CASE UNCHANGED pending
    BY <1>28, <2>2, <2>3, <2>4 DEF QueryExecute, SessionExecutes, SessionStep,
       Rests, KeepsHolding, sessionVars
  <2>5. CASE /\ open[conn[w]]
            /\ pending' = [pending EXCEPT ![conn[w]] = @ \cup {Tag(w)}]
    <3>1. Works(w, conn[w])
      BY <1>28, <2>1, <2>2, <2>3, <2>5 DEF QueryExecute, SessionExecutes, Works
    <3>2. QED
      BY <2>1, <3>1, WayIsSessionStep
  <2>6. QED
    BY <1>28, <2>4, <2>5 DEF QueryExecute, SessionExecutes
<1>29. CASE QueryCommit(w)
  BY <1>1, <1>2, <1>29, WorkerFacts, NextLeasedIsIdle, HeldIsLeased DEF SessionStep,
     Rests, KeepsHolding, HoldsNoMore, Opens, Ends, Drops, QueryCommit, Goto,
     SessionEnds, SessionThrows, Unlock, sessionVars, AfterFailedCommit
<1>30. CASE QueryUnlock(w)
  <2>1. KeepsHolding(w)
    BY <1>1, <1>2, <1>30, WorkerFacts DEF KeepsHolding, QueryUnlock, Goto, Unlock,
       Local
  <2>2. UNCHANGED <<borrowed, leaked, sessionVars>>
    BY <1>30 DEF QueryUnlock
  <2>3. QED
    BY <2>1, <2>2 DEF SessionStep, Rests
<1>31. CASE QueryRollback(w)
  BY <1>1, <1>2, <1>31, WorkerFacts, NextLeasedIsIdle, HeldIsLeased DEF SessionStep,
     Rests, KeepsHolding, HoldsNoMore, Opens, Ends, Drops, QueryRollback, Goto,
     Answer, SessionEnds, SessionThrows, sessionVars
<1>32. CASE QueryReturn(w)
  <2>1. conn[w] \in Connections /\ Has(w, conn[w])
    BY <1>1, <1>2, <1>32, WorkerFacts DEF QueryReturn
  <2>2. conn[w] \in borrowed /\ ~open[conn[w]]
    BY <1>1, <1>32, <2>1, HeldIsLeased DEF QueryReturn
  <2>3. HoldsNoMore(w, conn[w])
    BY <1>1, <1>2, <1>32, <2>1, WorkerFacts DEF HoldsNoMore, QueryReturn, Goto
  <2>4. borrowed' = borrowed \ {conn[w]} /\ UNCHANGED <<leaked, sessionVars>>
    BY <1>32, <2>2 DEF QueryReturn, ReturnLeasedStoreConnection, CanReturn
  <2>5. Returns(w, conn[w])
    BY <2>1, <2>2, <2>3, <2>4 DEF Returns
  <2>6. QED
    BY <2>1, <2>5 DEF SessionStep
<1>33. QED
  BY <1>3, <1>4, <1>5, <1>6, <1>7, <1>8, <1>9, <1>10, <1>11, <1>12, <1>13, <1>14,
     <1>15, <1>16, <1>17, <1>18, <1>19, <1>20, <1>21, <1>22, <1>23, <1>24, <1>25,
     <1>26, <1>27, <1>28, <1>29, <1>30, <1>31, <1>32 DEF Handles, Begin, End, Query

-----------------------------------------------------------------------------
(* Who holds what after a step.                                             *)

\* The other owners hold what they held.
LEMMA OthersHolding ==
  ASSUME HandlersInv, NEW w \in Workers,
         SameOthers(w), SameOtherIds(w), req' = req,
         NEW c \in Connections, NEW o \in TxnIds \cup Workers, o # Tag(w)
  PROVE  Holds(o, c)' <=> Holds(o, c)
<1>1. o \in TxnIds => connectionOf'[o] = connectionOf[o]
  BY TagFacts, HandlerAssumption DEF SameOtherIds
<1>2. \A v \in Workers : Tag(v)' = Tag(v)
  BY DEF Tag
<1>3. \A v \in Workers : v # w => (Responsible(v, c)' <=> Responsible(v, c))
  BY DEF SameOthers, Responsible, Local
<1>4. QED
  BY <1>1, <1>2, <1>3 DEF Holds

\* What the owner of w's request holds is what w has.
LEMMA OwnHoldingNext ==
  ASSUME HandlersInv, DistinctIds, NEW w \in Workers, req' = req,
         NEW c \in Connections
  PROVE  Holds(Tag(w), c)' <=> Has(w, c)'
<1>1. Tag(w)' = Tag(w) /\ \A v \in Workers : Tag(v)' = Tag(v)
  BY DEF Tag
<1>2. Tag(w) \in TxnIds /\ connectionOf'[Tag(w)] = c <=>
        req'[w].id # None /\ connectionOf'[req'[w].id] = c
  BY TagFacts
<1>3. (\E v \in Workers : Tag(v) = Tag(w) /\ Responsible(v, c)') <=> Responsible(w, c)'
  BY TagsDiffer
<1>4. QED
  BY <1>1, <1>2, <1>3 DEF Holds, Has

SameHolders ==
  \A c \in Connections, o \in TxnIds \cup Workers : Holds(o, c)' <=> Holds(o, c)

\* A worker that keeps what it has changes nobody's holding.
LEMMA KeepingIsSame ==
  ASSUME HandlersInv, DistinctIds, NEW w \in Workers,
         SameOthers(w), SameOtherIds(w), req' = req, KeepsHolding(w)
  PROVE  SameHolders
<1> SUFFICES ASSUME NEW c \in Connections, NEW o \in TxnIds \cup Workers
             PROVE  Holds(o, c)' <=> Holds(o, c)
  BY DEF SameHolders
<1>1. CASE o = Tag(w)
  <2>1. Holds(Tag(w), c)' <=> Has(w, c)'
    BY OwnHoldingNext
  <2>2. Holds(Tag(w), c) <=> Has(w, c)
    BY OwnHolding
  <2>3. Tag(w)' = Tag(w)
    BY DEF Tag
  <2>4. QED
    BY <1>1, <2>1, <2>2, <2>3 DEF KeepsHolding
<1>2. CASE o # Tag(w)
  BY <1>2, OthersHolding
<1>3. QED
  BY <1>1, <1>2

\* A request that arrives or is answered holds nothing of its own.
LEMMA ServingIsSame ==
  ASSUME HandlersInv, NEW w \in Workers, Receive(w) \/ Respond(w), SameOthers(w)
  PROVE  SameHolders /\ UNCHANGED <<borrowed, leaked, sessionVars>>
<1>1. /\ UNCHANGED <<connectionOf, borrowed, leaked, sessionVars>>
      /\ pc[w] \in {"idle", "respond"}
  BY DEF Receive, Respond, managerVars
<1>2. pc'[w] \in {"idle", "begin_admit", "query_admit", "end_lookup"}
  BY DEF Receive, Respond, Goto, EntryPoint, HandlersInv, HandlerTypeOK, LocalTypeOK
<1>3. \A c \in Connections : ~Responsible(w, c) /\ ~Responsible(w, c)'
  BY <1>1, <1>2 DEF Responsible, Leasing, Unregistered
<1>4. \A v \in Workers, c \in Connections :
        v # w => /\ Tag(v)' = Tag(v)
                 /\ Responsible(v, c)' <=> Responsible(v, c)
  BY DEF SameOthers, Tag, Responsible, Local
<1>5. SameHolders
  BY <1>1, <1>3, <1>4 DEF SameHolders, Holds
<1>6. QED
  BY <1>1, <1>5

-----------------------------------------------------------------------------
(* Every leased connection keeps one owner and its session that owner's     *)
(* commands.                                                                *)

\* The holdings after a step, in terms of what the worker has.
LEMMA HoldingsAfter ==
  ASSUME HandlersInv, SessionInv, NEW w \in Workers, Handles(w)
  PROVE  /\ SessionStep(w)
         /\ KeepsHolding(w) => SameHolders
         /\ Tag(w) \in TxnIds \cup Workers
         /\ \A c \in Connections : Holds(Tag(w), c) <=> Has(w, c)
         /\ \A c \in Connections, o \in TxnIds \cup Workers :
              /\ o = Tag(w) => (Holds(o, c)' <=> Has(w, c)')
              /\ o # Tag(w) => (Holds(o, c)' <=> Holds(o, c))
<1>1. SameOthers(w) /\ SameOtherIds(w)
  BY StepIsOwn, StepKeepsOtherIds DEF Handles, Step
<1>2. req' = req /\ DistinctIds
  BY StepKeepsRequest DEF SessionInv
<1>3. Tag(w)' = Tag(w)
  BY <1>2 DEF Tag
<1>4. ASSUME NEW c \in Connections, NEW o, o = Tag(w)
      PROVE  Holds(o, c)' <=> Has(w, c)'
  BY <1>2, <1>3, <1>4, OwnHoldingNext
<1>5. \A c \in Connections, o \in TxnIds \cup Workers :
        o # Tag(w) => (Holds(o, c)' <=> Holds(o, c))
  BY <1>1, <1>2, OthersHolding
<1>6. QED
  BY <1>1, <1>2, <1>4, <1>5, StepIsSessionStep, KeepingIsSame, OwnHolding, TagFacts

\* A connection is gained by one owner.
LEMMA GainKeepsAccounting ==
  ASSUME Accounting, borrowed \subseteq Connections,
         NEW c \in Connections, c \notin borrowed,
         NEW o \in TxnIds \cup Workers,
         borrowed' = borrowed \cup {c}, leaked' = leaked,
         \A d \in Connections, p \in TxnIds \cup Workers :
           Holds(p, d)' <=> Holds(p, d) \/ (p = o /\ d = c)
  PROVE  Accounting'
  BY DEF Accounting

\* A connection is given up by its owner, and returned or dropped.
LEMMA LossKeepsAccounting ==
  ASSUME Accounting, borrowed \subseteq Connections,
         NEW c \in Connections, NEW o \in TxnIds \cup Workers,
         Holds(o, c),
         \/ borrowed' = borrowed \ {c} /\ leaked' = leaked
         \/ borrowed' = borrowed /\ leaked' = leaked \cup {c},
         \A d \in Connections, p \in TxnIds \cup Workers :
           Holds(p, d)' <=> Holds(p, d) /\ ~(p = o /\ d = c)
  PROVE  Accounting'
  BY DEF Accounting

\* A connection is leased and dropped at once.
LEMMA WasteKeepsAccounting ==
  ASSUME Accounting, borrowed \subseteq Connections,
         NEW c \in Connections, c \notin borrowed,
         borrowed' = borrowed \cup {c}, leaked' = leaked \cup {c}, SameHolders
  PROVE  Accounting'
  BY DEF Accounting, SameHolders

\* Nothing is leased, returned or dropped.
LEMMA RestKeepsAccounting ==
  ASSUME Accounting, borrowed \subseteq Connections,
         UNCHANGED <<borrowed, leaked>>, SameHolders
  PROVE  Accounting'
  BY DEF Accounting, SameHolders

\* One worker's step, whichever way it goes, keeps the accounting and leaves in
\* every session the commands of its owner only.
LEMMA StepKeepsOwners ==
  ASSUME HandlersInv, SessionInv, NEW w \in Workers, Handles(w)
  PROVE  Accounting' /\ SessionsOfOwners'
<1> PICK o \in TxnIds \cup Workers : o = Tag(w)
  BY TagFacts
<1>1. /\ Accounting /\ SessionsOfOwners /\ borrowed \subseteq Connections
      /\ open \in [Connections -> BOOLEAN]
      /\ pending \in [Connections -> SUBSET (TxnIds \cup Workers)]
  BY DEF SessionInv, HandlersInv, ManagerInv, ManagerTypeOK, HandlerTypeOK, LocalTypeOK
<1>2. /\ KeepsHolding(w) => SameHolders
      /\ \A c \in Connections : Holds(o, c) <=> Has(w, c)
      /\ \A c \in Connections : Holds(o, c)' <=> Has(w, c)'
      /\ \A c \in Connections, p \in TxnIds \cup Workers :
           p # o => (Holds(p, c)' <=> Holds(p, c))
  BY HoldingsAfter
<1>3. CASE Rests(w)
  <2>1. SameHolders /\ UNCHANGED <<borrowed, leaked, open, pending>>
    BY <1>2, <1>3 DEF Rests, sessionVars
  <2>2. SessionsOfOwners'
    BY <1>1, <2>1 DEF SessionsOfOwners, SameHolders
  <2>3. QED
    BY <1>1, <2>1, <2>2, RestKeepsAccounting
<1>4. ASSUME NEW c \in Connections, Takes(w, c)
      PROVE  Accounting' /\ SessionsOfOwners'
  <2>1. /\ c \notin borrowed /\ borrowed' = borrowed \cup {c}
        /\ UNCHANGED <<leaked, open, pending>>
    BY <1>4 DEF Takes, sessionVars
  <2>2. \A d \in Connections, p \in TxnIds \cup Workers :
          Holds(p, d)' <=> Holds(p, d) \/ (p = o /\ d = c)
    <3>1. \A d \in Connections : Has(w, d)' <=> Has(w, d) \/ d = c
      BY <1>4 DEF Takes
    <3>2. QED
      BY <1>2, <3>1
  <2>3. SessionsOfOwners'
    BY <1>1, <2>1, <2>2 DEF SessionsOfOwners
  <2>4. QED
    BY <1>1, <1>2, <2>1, <2>2, <2>3, GainKeepsAccounting
<1>5. ASSUME NEW c \in Connections, Wastes(w, c)
      PROVE  Accounting' /\ SessionsOfOwners'
  <2>1. /\ c \notin borrowed /\ borrowed' = borrowed \cup {c}
        /\ leaked' = leaked \cup {c} /\ SameHolders
        /\ UNCHANGED <<open, pending>>
    BY <1>2, <1>5 DEF Wastes, sessionVars
  <2>2. SessionsOfOwners'
    BY <1>1, <2>1 DEF SessionsOfOwners, SameHolders
  <2>3. QED
    BY <1>1, <2>1, <2>2, WasteKeepsAccounting
<1>6. ASSUME NEW c \in Connections, Opens(w, c) \/ Works(w, c) \/ Ends(w, c)
      PROVE  Accounting' /\ SessionsOfOwners'
  <2>1. /\ SameHolders /\ UNCHANGED <<borrowed, leaked>>
        /\ Holds(o, c)
    BY <1>2, <1>6 DEF Opens, Works, Ends
  <2>2. c \in borrowed /\ c \notin leaked
    BY <1>1, <1>2, <2>1 DEF Accounting
  <2>3. \A d \in Connections : d # c => open'[d] = open[d] /\ pending'[d] = pending[d]
    BY <1>1, <1>6 DEF Opens, Works, Ends, SessionBegins, SessionEnds
  <2>4. /\ ~open'[c] => pending'[c] = {}
        /\ pending'[c] \subseteq pending[c] \cup {o}
    BY <1>1, <1>6 DEF Opens, Works, Ends, SessionBegins, SessionEnds
  <2>5. \A p \in pending'[c] : Holds(p, c)
    BY <1>1, <2>1, <2>2, <2>4 DEF SessionsOfOwners
  <2>6. \A d \in Connections : pending'[d] \subseteq TxnIds \cup Workers
    BY <1>1, <1>2, <2>3, <2>4
  <2>7. ASSUME NEW d \in Connections
        PROVE  /\ ~open'[d] => pending'[d] = {}
               /\ d \notin borrowed' => ~open'[d]
               /\ d \notin leaked' => \A p \in pending'[d] : Holds(p, d)'
    <3>1. CASE d = c
      BY <2>1, <2>2, <2>4, <2>5, <2>6, <3>1 DEF SameHolders
    <3>2. CASE d # c
      BY <1>1, <2>1, <2>3, <2>6, <3>2 DEF SameHolders, SessionsOfOwners
    <3>3. QED
      BY <3>1, <3>2
  <2>8. SessionsOfOwners'
    BY <2>7 DEF SessionsOfOwners
  <2>9. QED
    BY <1>1, <2>1, <2>8, RestKeepsAccounting
<1>7. ASSUME NEW c \in Connections, Returns(w, c) \/ Drops(w, c)
      PROVE  Accounting' /\ SessionsOfOwners'
  <2>1. /\ \/ borrowed' = borrowed \ {c} /\ leaked' = leaked /\ ~open[c]
           \/ borrowed' = borrowed /\ leaked' = leaked \cup {c}
        /\ Holds(o, c)
        /\ UNCHANGED <<open, pending>>
    BY <1>2, <1>7 DEF Returns, Drops, sessionVars
  <2>2. \A d \in Connections, p \in TxnIds \cup Workers :
          Holds(p, d)' <=> Holds(p, d) /\ ~(p = o /\ d = c)
    <3>1. \A d \in Connections : Has(w, d)' <=> Has(w, d) /\ d # c
      BY <1>7 DEF Returns, Drops, HoldsNoMore
    <3>2. QED
      BY <1>2, <3>1
  <2>3. SessionsOfOwners'
    BY <1>1, <2>1, <2>2 DEF SessionsOfOwners
  <2>4. QED
    BY <1>1, <1>2, <2>1, <2>2, <2>3, LossKeepsAccounting
<1>8. QED
  BY <1>3, <1>4, <1>5, <1>6, <1>7, HoldingsAfter DEF SessionStep

-----------------------------------------------------------------------------
(* What a worker knows at its place stays true while it goes on.            *)

\* The registrations of w's id agree outside the two places.
Agreed(w) ==
  req[w].id \in TxnIds /\ pc[w] \notin HalfRegistered =>
    transactionOf[req[w].id] = connectionOf[req[w].id]

\* Each action establishes what the next place of w relies on: about its request
\* and its lookups, and about the registrations of its id.
LEMMA StepKeepsOwnLookups ==
  ASSUME HandlersInv, SessionInv, Serialized, NEW w \in Workers, Receive(w) \/
     Step(w)
  PROVE  RequestPhase(w)' /\ LookupPhase(w)' /\ RegistryPhase(w)' /\ Agreed(w)'
<1>1. /\ RequestPhase(w) /\ LookupPhase(w) /\ RegistryPhase(w) /\ Agreed(w)
      /\ req[w].id \in TxnIds \cup {None}
  BY OwnPhase DEF Agreed
<1>2. /\ LocalTypeOK /\ None \notin Connections /\ None \notin TxnIds
      /\ transactionOf \in [TxnIds -> Connections \cup {None}]
      /\ connectionOf \in [TxnIds -> Connections \cup {None}]
  BY HandlerAssumption, NoneAssumption
     DEF HandlersInv, HandlerTypeOK, ManagerInv, ManagerTypeOK
<1> USE DEF RequestPhase, LookupPhase, RegistryPhase, Agreed, HalfRegistered,
   Working, Local, IdLabels, BeginLabels, EndLabels, QueryLabels, ConnectionLabels,
   TransactionLabels, LocalTypeOK, managerVars
<1>3. CASE BeginAdmit(w)
  BY <1>1, <1>2, <1>3, WorkerFacts DEF BeginAdmit, Goto, Answer
<1>4. CASE BeginLookup(w)
  BY <1>1, <1>2, <1>4, WorkerFacts DEF BeginLookup, Goto, Answer, AlreadyBegun
<1>5. CASE BeginLease(w)
  BY <1>1, <1>2, <1>5, WorkerFacts DEF BeginLease, Goto, Answer,
     LeaseStoreConnectionByName
<1>6. CASE BeginSession(w)
  BY <1>1, <1>2, <1>6, WorkerFacts DEF BeginSession, Goto, Answer, SessionBegins,
     sessionVars
<1>7. CASE BeginRegisterTransaction(w)
  BY <1>1, <1>2, <1>7, WorkerFacts DEF BeginRegisterTransaction, Goto,
     RegisterTransactionToId
<1>8. CASE BeginRegisterConnection(w)
  BY <1>1, <1>2, <1>8, WorkerFacts DEF BeginRegisterConnection, Goto,
     RegisterStoreConnectionToId
<1>9. CASE BeginRegisterAuthorization(w)
  BY <1>1, <1>2, <1>9, WorkerFacts DEF BeginRegisterAuthorization, Answer
<1>10. CASE EndLookup(w)
  BY <1>1, <1>2, <1>10, WorkerFacts DEF EndLookup, Goto, Answer
<1>11. CASE EndCheckActive(w)
  BY <1>1, <1>2, <1>11, WorkerFacts DEF EndCheckActive, Goto, Answer
<1>12. CASE EndConnection(w)
  BY <1>1, <1>2, <1>12, WorkerFacts DEF EndConnection, Goto
<1>13. CASE EndAdmit(w)
  BY <1>1, <1>2, <1>13, WorkerFacts DEF EndAdmit, Goto, Answer
<1>14. CASE EndLock(w)
  BY <1>1, <1>2, <1>14, WorkerFacts DEF EndLock, Goto, Lock
<1>15. CASE EndCall(w)
  BY <1>1, <1>2, <1>15, WorkerFacts DEF EndCall, Goto, Answer, CallEnd, SessionEnds,
     SessionThrows, UnlockIfLocked, Unlock, Success, sessionVars
<1>16. CASE EndUnregisterTransaction(w)
  BY <1>1, <1>2, <1>16, WorkerFacts DEF EndUnregisterTransaction, Goto,
     UnregisterTransactionById
<1>17. CASE EndUnregisterConnection(w)
  BY <1>1, <1>2, <1>17, WorkerFacts DEF EndUnregisterConnection, Goto,
     UnregisterStoreConnectionById
<1>18. CASE EndUnregisterAuthorization(w)
  BY <1>1, <1>2, <1>18, WorkerFacts DEF EndUnregisterAuthorization, Goto, Answer,
     Success
<1>19. CASE EndReturn(w)
  BY <1>1, <1>2, <1>19, WorkerFacts DEF EndReturn, Goto
<1>20. CASE EndUnlock(w)
  BY <1>1, <1>2, <1>20, WorkerFacts DEF EndUnlock, Answer, Unlock, Success
<1>21. CASE QueryAdmit(w)
  BY <1>1, <1>2, <1>21, WorkerFacts DEF QueryAdmit, Goto, Answer, Local
<1>22. CASE QueryLease(w)
  BY <1>1, <1>2, <1>22, WorkerFacts DEF QueryLease, Goto, Answer,
     LeaseStoreConnectionByName
<1>23. CASE QueryBegin(w)
  BY <1>1, <1>2, <1>23, WorkerFacts DEF QueryBegin, Goto, Answer, SessionBegins,
     sessionVars
<1>24. CASE QueryConnection(w)
  BY <1>1, <1>2, <1>24, WorkerFacts DEF QueryConnection, Goto
<1>25. CASE QueryTransaction(w)
  BY <1>1, <1>2, <1>25, WorkerFacts DEF QueryTransaction, Goto, Answer
<1>26. CASE QueryCheckActive(w)
  BY <1>1, <1>2, <1>26, WorkerFacts DEF QueryCheckActive, Goto, Local
<1>27. CASE QueryLock(w)
  BY <1>1, <1>2, <1>27, WorkerFacts DEF QueryLock, Goto, Lock
<1>28. CASE QueryExecute(w)
  BY <1>1, <1>2, <1>28, WorkerFacts DEF QueryExecute, Goto, SessionExecutes, Tag,
     Local
<1>29. CASE QueryCommit(w)
  BY <1>1, <1>2, <1>29, WorkerFacts DEF QueryCommit, Goto, SessionEnds,
     SessionThrows, Unlock, sessionVars, AfterFailedCommit
<1>30. CASE QueryUnlock(w)
  BY <1>1, <1>2, <1>30, WorkerFacts DEF QueryUnlock, Goto, Unlock, Local
<1>31. CASE QueryRollback(w)
  BY <1>1, <1>2, <1>31, WorkerFacts DEF QueryRollback, Goto, Answer, SessionEnds,
     SessionThrows, sessionVars
<1>32. CASE QueryReturn(w)
  BY <1>1, <1>2, <1>32, WorkerFacts DEF QueryReturn, Goto
<1>33. CASE Respond(w)
  BY <1>1, <1>2, <1>33, WorkerFacts DEF Respond, Goto, NoRequest
<1>34. CASE Receive(w)
  <2>1. PICK r \in Requests : /\ MayArrive(r)
                             /\ req' = [req EXCEPT ![w] = r]
                             /\ pc' = [pc EXCEPT ![w] = EntryPoint(r.op)]
    BY <1>34 DEF Receive, Goto
  <2>2. /\ pc'[w] = EntryPoint(r.op) /\ req'[w] = r
        /\ UNCHANGED <<conn, txn, reply, transactionOf, connectionOf>>
        /\ pc[w] = "idle"
    BY <1>2, <1>34, <2>1 DEF Receive, managerVars, LocalTypeOK
  <2>3. \/ r.op = "begin" /\ EntryPoint(r.op) = "begin_admit"
        \/ r.op = "query" /\ EntryPoint(r.op) = "query_admit"
        \/ EntryPoint(r.op) = "end_lookup"
    BY DEF EntryPoint
  <2>4. RequestPhase(w)'
    BY <1>1, <2>2, <2>3 DEF BeginLabels, QueryLabels
  <2>5. LookupPhase(w)' /\ RegistryPhase(w)'
    BY <2>2, <2>3
  <2>6. ASSUME r.id \in TxnIds
        PROVE  transactionOf[r.id] = connectionOf[r.id]
    BY <1>2, <2>1, <2>6 DEF MayArrive, SessionInv, RegistriesDifferBriefly
  <2>7. Agreed(w)'
    BY <2>2, <2>6
  <2>8. QED
    BY <2>4, <2>5, <2>7
<1>35. QED
  BY <1>3, <1>4, <1>5, <1>6, <1>7, <1>8, <1>9, <1>10, <1>11, <1>12, <1>13, <1>14,
     <1>15, <1>16, <1>17, <1>18, <1>19, <1>20, <1>21, <1>22, <1>23, <1>24, <1>25,
     <1>26, <1>27, <1>28, <1>29, <1>30, <1>31, <1>32, <1>33, <1>34 DEF Step, Begin,
     End, Query

\* Each action establishes what the next place of w relies on about the session
\* of its connection.
LEMMA StepKeepsOwnSession ==
  ASSUME HandlersInv, SessionInv, NEW w \in Workers, Receive(w) \/ Step(w)
  PROVE  SessionPhase(w)'
<1>1. /\ RequestPhase(w) /\ LookupPhase(w) /\ RegistryPhase(w) /\ SessionPhase(w)
      /\ Agreed(w) /\ req[w].id \in TxnIds \cup {None}
      /\ SessionsOfOwners
  BY OwnPhase DEF Agreed, SessionInv
<1>2. /\ LocalTypeOK /\ None \notin Connections /\ None \notin TxnIds
      /\ transactionOf \in [TxnIds -> Connections \cup {None}]
      /\ connectionOf \in [TxnIds -> Connections \cup {None}]
      /\ ManagerInv
  BY HandlerAssumption, NoneAssumption
     DEF HandlersInv, HandlerTypeOK, ManagerInv, ManagerTypeOK
<1> USE DEF SessionPhase, Begun, RequestPhase, LookupPhase, RegistryPhase, Agreed,
   HalfRegistered, Working, SessionsOfOwners, Local, IdLabels, BeginLabels,
   EndLabels, QueryLabels, ConnectionLabels, TransactionLabels, LocalTypeOK
<1>3. CASE BeginAdmit(w)
  BY <1>1, <1>2, <1>3, WorkerFacts, NextLeasedIsIdle DEF BeginAdmit, Goto, Answer,
     sessionVars
<1>4. CASE BeginLookup(w)
  BY <1>1, <1>2, <1>4, WorkerFacts, NextLeasedIsIdle DEF BeginLookup, Goto, Answer,
     sessionVars
<1>5. CASE BeginLease(w)
  BY <1>1, <1>2, <1>5, WorkerFacts, NextLeasedIsIdle DEF BeginLease, Goto, Answer,
     LeaseStoreConnectionByName, sessionVars
<1>6. CASE BeginSession(w)
  BY <1>1, <1>2, <1>6, WorkerFacts, NextLeasedIsIdle DEF BeginSession, Goto, Answer,
     SessionBegins, sessionVars
<1>7. CASE BeginRegisterTransaction(w)
  BY <1>1, <1>2, <1>7, WorkerFacts, NextLeasedIsIdle DEF BeginRegisterTransaction,
     Goto, RegisterTransactionToId, sessionVars
<1>8. CASE BeginRegisterConnection(w)
  BY <1>1, <1>2, <1>8, WorkerFacts, NextLeasedIsIdle DEF BeginRegisterConnection,
     Goto, RegisterStoreConnectionToId, sessionVars
<1>9. CASE BeginRegisterAuthorization(w)
  BY <1>1, <1>2, <1>9, WorkerFacts, NextLeasedIsIdle DEF BeginRegisterAuthorization,
     Answer, sessionVars
<1>10. CASE EndLookup(w)
  BY <1>1, <1>2, <1>10, WorkerFacts, NextLeasedIsIdle DEF EndLookup, Goto, Answer,
     sessionVars
<1>11. CASE EndCheckActive(w)
  BY <1>1, <1>2, <1>11, WorkerFacts, NextLeasedIsIdle DEF EndCheckActive, Goto,
     Answer, sessionVars
<1>12. CASE EndConnection(w)
  BY <1>1, <1>2, <1>12, WorkerFacts, NextLeasedIsIdle DEF EndConnection, Goto,
     sessionVars
<1>13. CASE EndAdmit(w)
  BY <1>1, <1>2, <1>13, WorkerFacts, NextLeasedIsIdle DEF EndAdmit, Goto, Answer,
     sessionVars
<1>14. CASE EndLock(w)
  BY <1>1, <1>2, <1>14, WorkerFacts, NextLeasedIsIdle DEF EndLock, Goto, Lock,
     sessionVars
<1>15. CASE EndCall(w)
  BY <1>1, <1>2, <1>15, WorkerFacts, NextLeasedIsIdle DEF EndCall, Goto, Answer,
     CallEnd, SessionEnds, SessionThrows, UnlockIfLocked, Unlock, Success,
     sessionVars
<1>16. CASE EndUnregisterTransaction(w)
  BY <1>1, <1>2, <1>16, WorkerFacts, NextLeasedIsIdle DEF EndUnregisterTransaction,
     Goto, UnregisterTransactionById, sessionVars
<1>17. CASE EndUnregisterConnection(w)
  BY <1>1, <1>2, <1>17, WorkerFacts, NextLeasedIsIdle DEF EndUnregisterConnection,
     Goto, UnregisterStoreConnectionById, sessionVars
<1>18. CASE EndUnregisterAuthorization(w)
  BY <1>1, <1>2, <1>18, WorkerFacts, NextLeasedIsIdle DEF
     EndUnregisterAuthorization, Goto, Answer, Success, sessionVars
<1>19. CASE EndReturn(w)
  BY <1>1, <1>2, <1>19, WorkerFacts, NextLeasedIsIdle DEF EndReturn, Goto,
     sessionVars
<1>20. CASE EndUnlock(w)
  BY <1>1, <1>2, <1>20, WorkerFacts, NextLeasedIsIdle DEF EndUnlock, Answer, Unlock,
     Success, sessionVars
<1>21. CASE QueryAdmit(w)
  BY <1>1, <1>2, <1>21, WorkerFacts, NextLeasedIsIdle DEF QueryAdmit, Goto, Answer,
     Local, sessionVars
<1>22. CASE QueryLease(w)
  BY <1>1, <1>2, <1>22, WorkerFacts, NextLeasedIsIdle DEF QueryLease, Goto, Answer,
     LeaseStoreConnectionByName, sessionVars
<1>23. CASE QueryBegin(w)
  BY <1>1, <1>2, <1>23, WorkerFacts, NextLeasedIsIdle DEF QueryBegin, Goto, Answer,
     SessionBegins, sessionVars
<1>24. CASE QueryConnection(w)
  BY <1>1, <1>2, <1>24, WorkerFacts, NextLeasedIsIdle DEF QueryConnection, Goto,
     sessionVars
<1>25. CASE QueryTransaction(w)
  BY <1>1, <1>2, <1>25, WorkerFacts, NextLeasedIsIdle DEF QueryTransaction, Goto,
     Answer, sessionVars
<1>26. CASE QueryCheckActive(w)
  BY <1>1, <1>2, <1>26, WorkerFacts, NextLeasedIsIdle DEF QueryCheckActive, Goto,
     Local, sessionVars
<1>27. CASE QueryLock(w)
  BY <1>1, <1>2, <1>27, WorkerFacts, NextLeasedIsIdle DEF QueryLock, Goto, Lock,
     sessionVars
<1>28. CASE QueryExecute(w)
  BY <1>1, <1>2, <1>28, WorkerFacts, NextLeasedIsIdle DEF QueryExecute, Goto,
     SessionExecutes, Tag, Local, sessionVars
<1>29. CASE QueryCommit(w)
  BY <1>1, <1>2, <1>29, WorkerFacts, NextLeasedIsIdle DEF QueryCommit, Goto,
     SessionEnds, SessionThrows, Unlock, sessionVars, AfterFailedCommit
<1>30. CASE QueryUnlock(w)
  BY <1>1, <1>2, <1>30, WorkerFacts, NextLeasedIsIdle DEF QueryUnlock, Goto, Unlock,
     Local, sessionVars
<1>31. CASE QueryRollback(w)
  BY <1>1, <1>2, <1>31, WorkerFacts, NextLeasedIsIdle DEF QueryRollback, Goto,
     Answer, SessionEnds, SessionThrows, sessionVars
<1>32. CASE QueryReturn(w)
  BY <1>1, <1>2, <1>32, WorkerFacts, NextLeasedIsIdle DEF QueryReturn, Goto,
     sessionVars
<1>33. CASE Respond(w)
  BY <1>1, <1>2, <1>33, WorkerFacts, NextLeasedIsIdle DEF Respond, Goto, sessionVars
<1>34. CASE Receive(w)
  BY <1>1, <1>2, <1>34, WorkerFacts, NextLeasedIsIdle DEF Receive, Goto, EntryPoint,
     sessionVars
<1>35. QED
  BY <1>3, <1>4, <1>5, <1>6, <1>7, <1>8, <1>9, <1>10, <1>11, <1>12, <1>13, <1>14,
     <1>15, <1>16, <1>17, <1>18, <1>19, <1>20, <1>21, <1>22, <1>23, <1>24, <1>25,
     <1>26, <1>27, <1>28, <1>29, <1>30, <1>31, <1>32, <1>33, <1>34 DEF Step, Begin,
     End, Query

\* The step of another worker does not reach what v knows: it works for another
\* owner, on another connection.
LEMMA StepKeepsOtherPhases ==
  ASSUME HandlersInv, SessionInv, NEW w \in Workers, Receive(w) \/ Step(w),
         NEW v \in Workers, v # w
  PROVE  RequestPhase(v)' /\ LookupPhase(v)' /\ RegistryPhase(v)' /\ SessionPhase(v)'
<1>1. /\ RequestPhase(v) /\ LookupPhase(v) /\ RegistryPhase(v) /\ SessionPhase(v)
      /\ req[v].id \in TxnIds \cup {None}
  BY OwnPhase
<1>2. /\ pc'[v] = pc[v] /\ req'[v] = req[v] /\ conn'[v] = conn[v]
      /\ txn'[v] = txn[v] /\ reply'[v] = reply[v]
  BY StepIsOwn DEF SameOthers
<1>3. req[v].id # None => /\ transactionOf'[req[v].id] = transactionOf[req[v].id]
                          /\ connectionOf'[req[v].id] = connectionOf[req[v].id]
  BY <1>1, StepKeepsOtherIds DEF SameOtherIds, SessionInv, DistinctIds
<1>4. RequestPhase(v)' /\ LookupPhase(v)'
  BY <1>1, <1>2 DEF RequestPhase, LookupPhase
<1>5. RegistryPhase(v)'
  BY <1>1, <1>2, <1>3 DEF RegistryPhase
<1>6. ASSUME conn[v] \in Connections, Has(v, conn[v])
      PROVE  open'[conn[v]] = open[conn[v]] /\ pending'[conn[v]] = pending[conn[v]]
  <2>1. CASE Receive(w) \/ Respond(w)
    BY <2>1 DEF Receive, Respond, sessionVars
  <2>2. CASE Handles(w)
    <3>1. ~Has(w, conn[v])
      BY <1>6, Exclusive DEF SessionInv
    <3>2. SessionStep(w)
      BY <2>2, StepIsSessionStep
    <3>3. /\ open \in [Connections -> BOOLEAN]
          /\ pending \in [Connections -> SUBSET (TxnIds \cup Workers)]
      BY DEF HandlersInv, HandlerTypeOK, LocalTypeOK
    <3>4. QED
      BY <1>6, <3>1, <3>2, <3>3 DEF SessionStep, Rests, Takes, Wastes, Opens, Works,
         Ends, Returns, Drops, SessionBegins, SessionEnds, sessionVars
  <2>3. QED
    BY <2>1, <2>2 DEF Handles, Step
<1>7. SessionPhase(v)'
  <2> DEFINE closed == \/ pc[v] \in {"begin_session", "query_begin", "query_return",
                                      "end_unregister_transaction",
                                      "end_unregister_connection",
                                      "end_unregister_authorization", "end_return"}
                       \/ pc[v] = "query_unlock" /\ req[v].id = None
                       \/ pc[v] \in {"query_lock", "query_execute"} /\ txn[v] = None
             opened == \/ pc[v] \in {"begin_register_transaction",
                                      "begin_register_connection",
                                      "begin_register_authorization"}
                       \/ Begun(v)
  <2>1. closed \/ opened => conn[v] \in Connections /\ Has(v, conn[v])
    BY <1>1, WorkerFacts, NoneAssumption, HandlerAssumption
       DEF RequestPhase, LookupPhase, RegistryPhase, SessionPhase, Has, Responsible,
       Leasing, Unregistered, Local, Working, Begun, IdLabels, BeginLabels, EndLabels,
       QueryLabels, ConnectionLabels, TransactionLabels
  <2>2. closed => ~open'[conn'[v]]
    BY <1>1, <1>2, <1>6, <2>1 DEF SessionPhase
  <2>3. opened => /\ conn'[v] \in Connections
                  /\ open'[conn'[v]] /\ pending'[conn'[v]] = {}
    BY <1>1, <1>2, <1>6, <2>1 DEF SessionPhase
  <2>4. Begun(v) => req'[v].id \in TxnIds /\ connectionOf'[req'[v].id] = conn'[v]
    BY <1>1, <1>2, <1>3, HandlerAssumption DEF SessionPhase
  <2>5. Begun(v)' <=> Begun(v)
    BY <1>2 DEF Begun
  <2>6. QED
    BY <1>2, <2>2, <2>3, <2>4, <2>5 DEF SessionPhase
<1>8. QED
  BY <1>4, <1>5, <1>7

\* A request comes only for an id that no worker serves.
LEMMA StepKeepsIdsDistinct ==
  ASSUME HandlersInv, SessionInv, Serialized, NEW w \in Workers, Receive(w) \/ Step(w)
  PROVE  DistinctIds'
<1>1. DistinctIds /\ LocalTypeOK
  BY DEF SessionInv, HandlersInv, HandlerTypeOK
<1>2. CASE Receive(w)
  <2>1. PICK r \in Requests : MayArrive(r) /\ req' = [req EXCEPT ![w] = r]
    BY <1>2 DEF Receive
  <2>2. r.id # None => \A v \in Workers : req[v].id # r.id
    BY <2>1 DEF MayArrive
  <2>3. QED
    BY <1>1, <2>1, <2>2 DEF DistinctIds, LocalTypeOK
<1>3. CASE Respond(w)
  BY <1>1, <1>3 DEF Respond, NoRequest, DistinctIds, LocalTypeOK
<1>4. CASE Handles(w)
  BY <1>1, <1>4, StepKeepsRequest DEF DistinctIds
<1>5. QED
  BY <1>2, <1>3, <1>4 DEF Handles, Step

\* The registrations of the other ids differ as long as their own requests are
\* in between.
LEMMA StepKeepsRegistries ==
  ASSUME HandlersInv, SessionInv, Serialized, NEW w \in Workers, Receive(w) \/ Step(w)
  PROVE  RegistriesDifferBriefly'
<1> SUFFICES ASSUME NEW id \in TxnIds, transactionOf'[id] # connectionOf'[id]
             PROVE  \E v \in Workers : req'[v].id = id /\ pc'[v] \in HalfRegistered
  BY DEF RegistriesDifferBriefly
<1>1. Agreed(w) /\ Agreed(w)'
  BY StepKeepsOwnLookups, OwnPhase DEF Agreed
<1>2. CASE id = req[w].id
  <2>1. CASE Handles(w)
    BY <1>1, <1>2, <2>1, StepKeepsRequest DEF Agreed
  <2>2. CASE Respond(w)
    BY <1>1, <1>2, <2>2 DEF Respond, Agreed, HalfRegistered, managerVars
  <2>3. CASE Receive(w)
    BY <1>1, <1>2, <2>3 DEF Receive, Agreed, HalfRegistered, managerVars
  <2>4. QED
    BY <2>1, <2>2, <2>3 DEF Handles, Step
<1>3. CASE id # req[w].id
  <2>1. transactionOf[id] # connectionOf[id]
    BY <1>3, StepKeepsOtherIds DEF SameOtherIds
  <2>2. PICK v \in Workers : req[v].id = id /\ pc[v] \in HalfRegistered
    BY <2>1 DEF SessionInv, RegistriesDifferBriefly
  <2>3. req'[v] = req[v] /\ pc'[v] = pc[v]
    BY <1>3, <2>2, StepIsOwn DEF SameOthers
  <2>4. QED
    BY <2>2, <2>3
<1>4. QED
  BY <1>2, <1>3

\* One worker's step keeps the whole invariant.
LEMMA StepKeepsSessions ==
  ASSUME HandlersInv, SessionInv, Serialized, NEW w \in Workers, Receive(w) \/ Step(w)
  PROVE  SessionInv'
<1>1. Phases'
  <2> SUFFICES ASSUME NEW v \in Workers
               PROVE  (RequestPhase(v) /\ LookupPhase(v) /\ RegistryPhase(v)
                       /\ SessionPhase(v))'
    BY DEF Phases
  <2>1. CASE v = w
    BY <2>1, StepKeepsOwnLookups, StepKeepsOwnSession
  <2>2. CASE v # w
    BY <2>2, StepKeepsOtherPhases
  <2>3. QED
    BY <2>1, <2>2
<1>2. Accounting' /\ SessionsOfOwners'
  <2>1. CASE Handles(w)
    BY <2>1, StepKeepsOwners
  <2>2. CASE Receive(w) \/ Respond(w)
    <3>1. SameHolders /\ UNCHANGED <<borrowed, leaked, open, pending>>
      BY <2>2, StepIsOwn, ServingIsSame DEF sessionVars
    <3>2. /\ Accounting /\ SessionsOfOwners /\ borrowed \subseteq Connections
          /\ pending \in [Connections -> SUBSET (TxnIds \cup Workers)]
      BY DEF SessionInv, HandlersInv, ManagerInv, ManagerTypeOK, HandlerTypeOK,
         LocalTypeOK
    <3>3. SessionsOfOwners'
      BY <3>1, <3>2 DEF SessionsOfOwners, SameHolders
    <3>4. QED
      BY <3>1, <3>2, <3>3, RestKeepsAccounting
  <2>3. QED
    BY <2>1, <2>2 DEF Handles, Step
<1>3. QED
  BY <1>1, <1>2, StepKeepsIdsDistinct, StepKeepsRegistries DEF SessionInv

\* In the initial state nothing is leased, registered or served.
LEMMA InitSessionInv == Init => SessionInv
<1> SUFFICES ASSUME Init
             PROVE  SessionInv
  OBVIOUS
<1>1. /\ \A w \in Workers : /\ pc[w] = "idle" /\ req[w] = NoRequest
                            /\ txn[w] = None /\ reply[w] = "none"
      /\ \A id \in TxnIds : transactionOf[id] = None /\ connectionOf[id] = None
      /\ \A c \in Connections : ~open[c] /\ pending[c] = {}
      /\ borrowed = {} /\ leaked = {}
  BY DEF Init, ManagerInit
<1>2. \A c \in Connections : \A o : ~Holds(o, c)
  BY <1>1, NoneAssumption DEF Holds, Responsible, Leasing, Unregistered
<1>3. DistinctIds /\ RegistriesDifferBriefly
  BY <1>1 DEF DistinctIds, RegistriesDifferBriefly, NoRequest
<1>4. Phases
  BY <1>1 DEF Phases, RequestPhase, LookupPhase, RegistryPhase, SessionPhase, NoRequest,
     BeginLabels, QueryLabels, Working, Begun
<1>5. Accounting /\ SessionsOfOwners
  BY <1>1, <1>2 DEF Accounting, SessionsOfOwners
<1>6. QED
  BY <1>3, <1>4, <1>5 DEF SessionInv

\* A step that changes nothing but who waits for whom keeps the invariant.
LEMMA StutterKeepsSessions ==
  ASSUME SessionInv, UNCHANGED <<managerVars, localVars>>
  PROVE  SessionInv'
<1>1. /\ UNCHANGED <<borrowed, transactionOf, connectionOf, leaked, open, pending>>
      /\ UNCHANGED <<pc, req, conn, txn, reply>>
  BY DEF managerVars, localVars, handlerVars, sessionVars
<1>2. \A c, o : Holds(o, c)' <=> Holds(o, c)
  BY <1>1 DEF Holds, Tag, Responsible, Local
<1>3. DistinctIds' /\ RegistriesDifferBriefly'
  BY <1>1 DEF SessionInv, DistinctIds, RegistriesDifferBriefly
<1>4. Phases'
  BY <1>1 DEF SessionInv, Phases, RequestPhase, LookupPhase, RegistryPhase,
     SessionPhase, Begun
<1>5. Accounting' /\ SessionsOfOwners'
  BY <1>1, <1>2 DEF SessionInv, Accounting, SessionsOfOwners
<1>6. QED
  BY <1>3, <1>4, <1>5 DEF SessionInv

-----------------------------------------------------------------------------
(* The invariant and what it gives.                                         *)

\* With one request at a time per id the invariant holds for ever: for any
\* workers, clients, pools and faults.
THEOREM SessionInvariance == Serialized => (Spec => []SessionInv)
<1> SUFFICES ASSUME Serialized
             PROVE  Spec => []SessionInv
  OBVIOUS
<1>1. HandlersInv /\ SessionInv /\ [Next]_vars => SessionInv'
  BY NextIsStep, StepKeepsSessions, StutterKeepsSessions
<1>2. QED
  BY <1>1, InitSessionInv, HandlersInvariance, PTL DEF Spec

\* What a worker uses its request holds.
LEMMA UsedIsHeld ==
  ASSUME HandlersInv, SessionInv, NEW w \in Workers, NEW c \in Connections, Uses(w, c)
  PROVE  Has(w, c)
<1>1. /\ RequestPhase(w) /\ LookupPhase(w) /\ RegistryPhase(w)
      /\ req[w].id \in TxnIds \cup {None}
  BY OwnPhase
<1>2. CASE Responsible(w, c)
  BY <1>2 DEF Has
<1>3. CASE UsesRegistered(w, c)
  <2>1. CASE pc[w] \in {"end_admit", "end_lock", "end_call",
                        "end_unregister_transaction",
                        "end_unregister_connection"}
    BY <1>1, <1>3, <2>1, WorkerFacts, HandlerAssumption
       DEF UsesRegistered, LookupPhase, RegistryPhase, Has, IdLabels, EndLabels, Working
  <2>2. CASE pc[w] \in Leasing /\ req[w].op = "query" /\ ~Local(w)
    BY <1>1, <1>3, <2>2
       DEF UsesRegistered, RequestPhase, LookupPhase, RegistryPhase, Has, Leasing, Local,
       BeginLabels, Working
  <2>3. QED
    BY <1>3, <2>1, <2>2 DEF UsesRegistered
<1>4. QED
  BY <1>2, <1>3 DEF Uses

\* With one request at a time per id no two workers work on one connection,
\* through a lease of their own, a registered id, or a pointer kept from an
\* earlier step.
THEOREM OneUser == Serialized => (Spec => []OneUserPerConnection)
<1>1. HandlersInv /\ SessionInv => OneUserPerConnection
  BY UsedIsHeld, Exclusive DEF SessionInv, OneUserPerConnection
<1>2. QED
  BY <1>1, HandlersInvariance, SessionInvariance, PTL

\* The worker that is about to register or return a connection has found or made
\* its id unregistered.
LEMMA ResponsibleIsUnregistered ==
  ASSUME HandlersInv, SessionInv, NEW w \in Workers, NEW c \in Connections,
         Responsible(w, c), NEW id \in TxnIds, connectionOf[id] = c
  PROVE  FALSE
<1>1. RequestPhase(w) /\ RegistryPhase(w)
  BY OwnPhase
<1>2. Holds(id, c) /\ Holds(Tag(w), c)
  BY DEF Holds
<1>3. id = Tag(w)
  BY <1>2, TagFacts DEF SessionInv, Accounting
<1>4. req[w].id = id
  BY <1>3, TagFacts
<1>5. id # None /\ c # None
  BY HandlerAssumption, NoneAssumption
<1>6. QED
  BY <1>1, <1>4, <1>5 DEF Responsible, Leasing, Unregistered, Local, RequestPhase,
     RegistryPhase, QueryLabels

\* A leased connection is never forgotten, except by the error paths that drop
\* it: a worker is responsible for it or one id leads to it, never both.
THEOREM LeasesAreAccounted == Serialized => (Spec => []EveryLeaseAccounted)
<1>1. ASSUME HandlersInv, SessionInv
      PROVE  EveryLeaseAccounted
  <2> SUFFICES ASSUME NEW c \in Connections
               PROVE  /\ c \in borrowed <=> \/ c \in leaked
                                            \/ Registered(c)
                                            \/ \E w \in Workers : Responsible(w, c)
                      /\ c \in leaked => ~Registered(c) /\ \A w \in Workers : ~Uses(w, c)
                      /\ Registered(c) => \A w \in Workers : ~Responsible(w, c)
                      /\ \A i, j \in TxnIds :
                           connectionOf[i] = c /\ connectionOf[j] = c => i = j
    BY DEF EveryLeaseAccounted
  <2>1. Accounting
    BY <1>1 DEF SessionInv
  <2>2. (\E o \in TxnIds \cup Workers : Holds(o, c)) <=>
          Registered(c) \/ \E w \in Workers : Responsible(w, c)
    BY <1>1, TagFacts DEF Holds, Registered
  <2>3. c \in borrowed <=> \/ c \in leaked
                           \/ Registered(c)
                           \/ \E w \in Workers : Responsible(w, c)
    BY <2>1, <2>2 DEF Accounting
  <2>4. \A w \in Workers : Uses(w, c) => c \notin leaked
    BY <1>1, UsedIsHeld, HeldIsLeased
  <2>5. c \in leaked => ~Registered(c)
    BY <2>1, <2>2 DEF Accounting
  <2>6. Registered(c) => \A w \in Workers : ~Responsible(w, c)
    BY <1>1, ResponsibleIsUnregistered DEF Registered
  <2>7. \A i, j \in TxnIds : connectionOf[i] = c /\ connectionOf[j] = c => i = j
    BY <2>1 DEF Accounting, Holds
  <2>8. QED
    BY <2>3, <2>4, <2>5, <2>6, <2>7
<1>2. QED
  BY <1>1, HandlersInvariance, SessionInvariance, PTL

\* A connection goes back to its pool with no transaction open and no command
\* pending in its session.
THEOREM IdleAreClean == Serialized => (Spec => []IdleConnectionsAreClean)
<1>1. SessionInv => IdleConnectionsAreClean
  BY DEF SessionInv, SessionsOfOwners, IdleConnectionsAreClean
<1>2. QED
  BY <1>1, SessionInvariance, PTL

\* Between requests on an id its two registrations name one connection or none.
THEOREM RegistrationsMatch == Serialized => (Spec => []RegistrationsAgree)
<1>1. SessionInv => RegistrationsAgree
  BY DEF SessionInv, RegistriesDifferBriefly, RegistrationsAgree
<1>2. QED
  BY <1>1, SessionInvariance, PTL

\* A commit or a rollback ends a transaction with the commands of its own id, or
\* of its own request, and of nobody else.
THEOREM EndsOwnWork == Serialized => (Spec => []EndsOnlyOwnWork)
<1>1. ASSUME HandlersInv, SessionInv
      PROVE  EndsOnlyOwnWork
  <2> SUFFICES ASSUME NEW w \in Workers, pc[w] \in {"end_call", "query_commit"}
               PROVE  pending[txn[w]] \subseteq {Tag(w)}
    BY DEF EndsOnlyOwnWork
  <2>1. /\ RequestPhase(w) /\ LookupPhase(w) /\ RegistryPhase(w)
        /\ req[w].id \in TxnIds \cup {None}
    BY <1>1, OwnPhase
  <2>2. txn[w] \in Connections /\ conn[w] = txn[w]
    BY <1>1, <2>1, WorkerFacts DEF LookupPhase, TransactionLabels
  <2>3. Uses(w, txn[w])
    BY <2>1, <2>2 DEF Uses, UsesRegistered, Responsible, Leasing, Local, RequestPhase,
       QueryLabels
  <2>4. Has(w, txn[w]) /\ txn[w] \notin leaked
    BY <1>1, <2>2, <2>3, UsedIsHeld, HeldIsLeased
  <2>5. Holds(Tag(w), txn[w]) /\ Tag(w) \in TxnIds \cup Workers
    BY <1>1, <2>2, <2>4, OwnHolding, TagFacts DEF SessionInv
  <2>6. \A o \in pending[txn[w]] : Holds(o, txn[w]) /\ o \in TxnIds \cup Workers
    BY <1>1, <2>2, <2>4 DEF SessionInv, SessionsOfOwners, HandlersInv, HandlerTypeOK,
       LocalTypeOK
  <2>7. QED
    BY <1>1, <2>2, <2>5, <2>6 DEF SessionInv, Accounting
<1>2. QED
  BY <1>1, HandlersInvariance, SessionInvariance, PTL

\* When begin answers success its id leads, in both registries, to the session it
\* opened, which is in a transaction without commands.
THEOREM BegunIsReady == Serialized => (Spec => []BegunMeansReady)
<1>1. ASSUME HandlersInv, SessionInv, NEW w \in Workers,
             pc[w] = "respond", reply[w] = "BEGUN"
      PROVE  /\ transactionOf[req[w].id] = conn[w]
             /\ connectionOf[req[w].id] = conn[w]
             /\ open[conn[w]] /\ pending[conn[w]] = {}
  BY <1>1, OwnPhase DEF SessionPhase, Begun, HalfRegistered
<1>2. HandlersInv /\ SessionInv => BegunMeansReady
  BY <1>1 DEF BegunMeansReady
<1>3. QED
  BY <1>2, HandlersInvariance, SessionInvariance, PTL

-----------------------------------------------------------------------------
(* What is counted against the limit.                                       *)

\* An id is used with the authorization of its client only.
ClientsOwn ==
  \A w \in Workers : req[w].id # None => req[w].auth = Client[req[w].id]

\* A client never uses an id of another client.
LEMMA StepKeepsClients ==
  ASSUME HandlersInv, ClientsOwn, Serialized, NEW w \in Workers, Receive(w) \/ Step(w)
  PROVE  ClientsOwn'
<1>1. LocalTypeOK
  BY DEF HandlersInv, HandlerTypeOK
<1>2. CASE Receive(w)
  <2>1. PICK r \in Requests : MayArrive(r) /\ req' = [req EXCEPT ![w] = r]
    BY <1>2 DEF Receive
  <2>2. QED
    BY <1>1, <2>1 DEF ClientsOwn, MayArrive, LocalTypeOK
<1>3. CASE Respond(w)
  BY <1>1, <1>3 DEF Respond, NoRequest, ClientsOwn, LocalTypeOK
<1>4. CASE Handles(w)
  BY <1>4, StepKeepsRequest DEF ClientsOwn
<1>5. QED
  BY <1>2, <1>3, <1>4 DEF Handles, Step

\* The places of commit and rollback where a counted id may be unregistered.
EndingLabels == {"end_unregister_connection", "end_unregister_authorization"}

\* Nothing else touches the vectors, the transactions or those places.
Quiet(w) == UNCHANGED <<transactionOf, activeIds>> /\ pc[w] \notin EndingLabels

\* The steps that register or unregister, and the others.
LEMMA OtherStepsAreQuiet ==
  ASSUME NEW w \in Workers, Receive(w) \/ Step(w)
  PROVE  \/ BeginRegisterTransaction(w) \/ BeginRegisterAuthorization(w)
         \/ EndUnregisterTransaction(w) \/ EndUnregisterConnection(w)
         \/ EndUnregisterAuthorization(w)
         \/ Quiet(w)
<1> USE DEF Quiet, EndingLabels
<1>1. CASE BeginAdmit(w)
  BY <1>1 DEF BeginAdmit, managerVars
<1>2. CASE BeginLookup(w)
  BY <1>2 DEF BeginLookup, managerVars
<1>3. CASE BeginLease(w)
  BY <1>3 DEF BeginLease
<1>4. CASE BeginSession(w)
  BY <1>4 DEF BeginSession, managerVars
<1>5. CASE BeginRegisterConnection(w)
  BY <1>5 DEF BeginRegisterConnection
<1>6. CASE EndLookup(w)
  BY <1>6 DEF EndLookup, managerVars
<1>7. CASE EndCheckActive(w)
  BY <1>7 DEF EndCheckActive, managerVars
<1>8. CASE EndConnection(w)
  BY <1>8 DEF EndConnection, managerVars
<1>9. CASE EndAdmit(w)
  BY <1>9 DEF EndAdmit, managerVars
<1>10. CASE EndLock(w)
  BY <1>10 DEF EndLock, managerVars
<1>11. CASE EndCall(w)
  BY <1>11 DEF EndCall, managerVars
<1>12. CASE EndReturn(w)
  BY <1>12 DEF EndReturn
<1>13. CASE EndUnlock(w)
  BY <1>13 DEF EndUnlock, managerVars
<1>14. CASE QueryAdmit(w)
  BY <1>14 DEF QueryAdmit, managerVars
<1>15. CASE QueryLease(w)
  BY <1>15 DEF QueryLease
<1>16. CASE QueryBegin(w)
  BY <1>16 DEF QueryBegin, managerVars
<1>17. CASE QueryConnection(w)
  BY <1>17 DEF QueryConnection, managerVars
<1>18. CASE QueryTransaction(w)
  BY <1>18 DEF QueryTransaction, managerVars
<1>19. CASE QueryCheckActive(w)
  BY <1>19 DEF QueryCheckActive, managerVars
<1>20. CASE QueryLock(w)
  BY <1>20 DEF QueryLock, managerVars
<1>21. CASE QueryExecute(w)
  BY <1>21 DEF QueryExecute, managerVars
<1>22. CASE QueryCommit(w)
  BY <1>22 DEF QueryCommit, managerVars
<1>23. CASE QueryUnlock(w)
  BY <1>23 DEF QueryUnlock, managerVars
<1>24. CASE QueryRollback(w)
  BY <1>24 DEF QueryRollback, managerVars
<1>25. CASE QueryReturn(w)
  BY <1>25 DEF QueryReturn
<1>26. CASE Respond(w)
  BY <1>26 DEF Respond, managerVars
<1>27. CASE Receive(w)
  BY <1>27 DEF Receive, managerVars
<1>28. QED
  BY <1>1, <1>2, <1>3, <1>4, <1>5, <1>6, <1>7, <1>8, <1>9, <1>10, <1>11, <1>12,
     <1>13, <1>14, <1>15, <1>16, <1>17, <1>18, <1>19, <1>20, <1>21, <1>22, <1>23,
     <1>24, <1>25, <1>26, <1>27 DEF Step, Begin, End, Query

\* Erasing an id from a vector of at most one id leaves no other id in it, and
\* not that one.
LEMMA RemovedIsGone ==
  ASSUME NEW v \in Seq(TxnIds), Len(v) <= 1, NEW id, NEW i \in DOMAIN RemoveFirst(v, id)
  PROVE  /\ RemoveFirst(v, id) = v
         /\ v[i] # id
<1>1. CASE \E j \in 1..Len(v) : v[j] = id
  BY <1>1, RemoveFirstShort
<1>2. CASE ~\E j \in 1..Len(v) : v[j] = id
  BY <1>2, RemoveFirstShort
<1>3. QED
  BY <1>1, <1>2

\* What is counted after begin has registered id, or commit or rollback has
\* erased it.
LEMMA CountedAfter ==
  ASSUME HandlersInv, NEW a \in Authorizations, NEW id \in TxnIds,
         NEW b \in Authorizations, NEW o \in TxnIds, Counted(b, o)'
  PROVE  /\ RegisterTransactionIdToAuthorization(a, id) =>
              Counted(b, o) \/ (b = a /\ o = id)
         /\ UnregisterTransactionIdByAuthorization(a, id) =>
              Counted(b, o) /\ ~(b = a /\ o = id)
<1>1. VectorInv
  BY InvParts DEF HandlersInv
<1>2. PICK i \in DOMAIN activeIds'[b] : activeIds'[b] # None /\ activeIds'[b][i] = o
  BY DEF Counted
<1>3. ASSUME RegisterTransactionIdToAuthorization(a, id)
      PROVE  Counted(b, o) \/ (b = a /\ o = id)
  <2>1. CASE b = a /\ activeIds[a] = None
    <3>1. activeIds'[b] = <<id>>
      BY <1>1, <1>3, <2>1 DEF RegisterTransactionIdToAuthorization, VectorInv
    <3>2. QED
      BY <1>2, <2>1, <3>1
  <2>2. CASE ~(b = a /\ activeIds[a] = None)
    <3>1. activeIds'[b] = activeIds[b]
      BY <1>1, <1>3, <2>2 DEF RegisterTransactionIdToAuthorization, VectorInv
    <3>2. QED
      BY <1>2, <3>1 DEF Counted
  <2>3. QED
    BY <2>1, <2>2
<1>4. ASSUME UnregisterTransactionIdByAuthorization(a, id)
      PROVE  Counted(b, o) /\ ~(b = a /\ o = id)
  <2>1. CASE b # a \/ activeIds[a] = None
    <3>1. activeIds'[b] = activeIds[b]
      BY <1>1, <1>4, <2>1 DEF UnregisterTransactionIdByAuthorization, VectorInv
    <3>2. QED
      BY <1>2, <2>1, <3>1 DEF Counted
  <2>2. CASE b = a /\ activeIds[a] # None
    <3>1. activeIds'[a] = RemoveFirst(activeIds[a], id)
      BY <1>1, <1>4, <2>2 DEF UnregisterTransactionIdByAuthorization, VectorInv
    <3>2. activeIds[a] \in Seq(TxnIds) /\ Len(activeIds[a]) <= 1
      BY <1>1, <2>2 DEF VectorInv
    <3>3. activeIds'[a] = activeIds[a] /\ activeIds[a][i] # id
      BY <1>2, <2>2, <3>1, <3>2, RemovedIsGone
    <3>4. QED
      BY <1>2, <2>2, <3>3 DEF Counted
  <2>3. QED
    BY <2>1, <2>2
<1>5. QED
  BY <1>3, <1>4

\* What is counted after a step of w was counted before, unless begin has just
\* registered it for its client; what w has just erased is not counted.
LEMMA CountedByStep ==
  ASSUME HandlersInv, NEW w \in Workers, Receive(w) \/ Step(w),
         NEW a \in Authorizations, NEW id \in TxnIds, Counted(a, id)'
  PROVE  /\ \/ Counted(a, id)
            \/ /\ BeginRegisterAuthorization(w)
               /\ a = req[w].auth /\ id = req[w].id
         /\ EndUnregisterAuthorization(w) => ~(a = req[w].auth /\ id = req[w].id)
<1>1. /\ pc[w] # "idle" => req[w].auth \in Authorizations
      /\ pc[w] \in IdLabels => req[w].id \in TxnIds
  BY RequestFields DEF HandlersInv, ControlInv
<1>2. CASE BeginRegisterAuthorization(w)
  BY <1>1, <1>2, CountedAfter DEF BeginRegisterAuthorization, EndUnregisterAuthorization,
     IdLabels, BeginLabels
<1>3. CASE EndUnregisterAuthorization(w)
  BY <1>1, <1>3, CountedAfter DEF EndUnregisterAuthorization, IdLabels, EndLabels
<1>4. CASE UNCHANGED activeIds /\ ~EndUnregisterAuthorization(w)
  BY <1>4 DEF Counted
<1>5. QED
  BY <1>2, <1>3, <1>4, OtherStepsAreQuiet DEF BeginRegisterTransaction,
     EndUnregisterTransaction, EndUnregisterConnection, EndUnregisterAuthorization, Quiet

\* One worker's step keeps every counted id open or ending.
LEMMA StepKeepsCounts ==
  ASSUME HandlersInv, SessionInv, ClientsOwn, CountedIsOpen, NEW w \in Workers,
         Receive(w) \/ Step(w)
  PROVE  CountedIsOpen'
<1> SUFFICES ASSUME NEW a \in Authorizations, NEW id \in TxnIds, Counted(a, id)'
             PROVE  Client[id] = a /\ (transactionOf'[id] # None \/ Ending(id)')
  BY DEF CountedIsOpen
<1>1. /\ id # None
      /\ pc \in [Workers -> Labels]
      /\ transactionOf \in [TxnIds -> Connections \cup {None}]
  BY HandlerAssumption DEF HandlersInv, HandlerTypeOK, LocalTypeOK, ManagerInv,
     ManagerTypeOK
<1>2. Counted(a, id) => Client[id] = a /\ (transactionOf[id] # None \/ Ending(id))
  BY DEF CountedIsOpen
<1>3. Client[id] = a
  BY <1>1, <1>2, CountedByStep DEF ClientsOwn
<1>4. CASE req[w].id # id
  <2>1. Counted(a, id)
    BY <1>4, CountedByStep
  <2>2. CASE transactionOf[id] # None
    BY <1>3, <1>4, <2>2, StepKeepsOtherIds DEF SameOtherIds
  <2>3. CASE Ending(id)
    <3>1. PICK v \in Workers : req[v].id = id /\ pc[v] \in EndingLabels
      BY <2>3 DEF Ending, EndingLabels
    <3>2. req'[v].id = id /\ pc'[v] \in EndingLabels
      BY <1>4, <3>1, StepIsOwn DEF SameOthers
    <3>3. QED
      BY <1>3, <3>2 DEF Ending, EndingLabels
  <2>4. QED
    BY <1>2, <1>3, <2>1, <2>2, <2>3
<1>5. CASE req[w].id = id
  <2>1. CASE BeginRegisterTransaction(w)
    <3>1. txn[w] \in Connections
      BY <2>1 DEF BeginRegisterTransaction, HandlersInv, ControlInv, TransactionLabels
    <3>2. transactionOf'[id] # None
      BY <1>1, <1>5, <2>1, <3>1, NoneAssumption DEF BeginRegisterTransaction,
         RegisterTransactionToId
    <3>3. QED
      BY <1>3, <3>2
  <2>2. CASE BeginRegisterAuthorization(w)
    <3>1. connectionOf[id] = conn[w] /\ conn[w] \in Connections
      BY <1>1, <1>5, <2>2, OwnPhase DEF BeginRegisterAuthorization, RegistryPhase,
         SessionPhase
    <3>2. transactionOf[id] = connectionOf[id]
      BY <1>5, <2>2, OwnPhase DEF BeginRegisterAuthorization, HalfRegistered
    <3>3. QED
      BY <1>3, <2>2, <3>1, <3>2, NoneAssumption DEF BeginRegisterAuthorization
  <2>3. CASE EndUnregisterTransaction(w) \/ EndUnregisterConnection(w)
    <3>1. req' = req /\ pc'[w] \in EndingLabels
      BY <1>1, <2>3 DEF EndUnregisterTransaction, EndUnregisterConnection, Goto,
         EndingLabels
    <3>2. QED
      BY <1>3, <1>5, <3>1 DEF Ending, EndingLabels
  <2>4. CASE EndUnregisterAuthorization(w)
    BY <1>1, <1>3, <1>5, <2>4, CountedByStep DEF ClientsOwn
  <2>5. CASE Quiet(w)
    <3>1. Counted(a, id) /\ transactionOf'[id] = transactionOf[id]
      BY <2>5 DEF Quiet, Counted
    <3>2. ~Ending(id)
      BY <1>1, <1>5, <2>5 DEF Ending, Quiet, EndingLabels, SessionInv, DistinctIds
    <3>3. QED
      BY <1>2, <1>3, <3>1, <3>2
  <2>6. QED
    BY <2>1, <2>2, <2>3, <2>4, <2>5, OtherStepsAreQuiet
<1>6. QED
  BY <1>4, <1>5

\* With one request at a time per id, and that of its client, nobody is charged
\* for a transaction that is over or of another client: an id counted for an
\* authorization leads to its transaction until the request that ends it has
\* erased it, for any workers, ids, clients and faults.
THEOREM CountedAreOpen == Serialized => (Spec => []CountedIsOpen)
<1> SUFFICES ASSUME Serialized
             PROVE  Spec => []CountedIsOpen
  OBVIOUS
<1>1. Init => ClientsOwn /\ CountedIsOpen
  BY DEF Init, ManagerInit, NoRequest, ClientsOwn, CountedIsOpen, Counted
<1>2. HandlersInv /\ SessionInv /\ ClientsOwn /\ CountedIsOpen /\ [Next]_vars
        => ClientsOwn' /\ CountedIsOpen'
  <2> SUFFICES ASSUME HandlersInv, SessionInv, ClientsOwn, CountedIsOpen, [Next]_vars
               PROVE  ClientsOwn' /\ CountedIsOpen'
    OBVIOUS
  <2>1. CASE UNCHANGED <<managerVars, localVars>>
    BY <2>1 DEF managerVars, localVars, handlerVars, ClientsOwn, CountedIsOpen, Counted,
       Ending
  <2>2. ASSUME NEW w \in Workers, Receive(w) \/ Step(w)
        PROVE  ClientsOwn' /\ CountedIsOpen'
    BY <2>2, StepKeepsClients, StepKeepsCounts
  <2>3. QED
    BY <2>1, <2>2, NextIsStep
<1>3. QED
  BY <1>1, <1>2, HandlersInvariance, SessionInvariance, PTL DEF Spec

-----------------------------------------------------------------------------
(* The handlers implement exclusive sessions.                               *)

\* The refinement mapping in terms of holdings.
OwnerFacts ==
  /\ OwnerOf = [c \in Connections |-> OwnerOf[c]]
  /\ \A c \in Connections :
       /\ c \in leaked => OwnerOf[c] = "lost"
       /\ c \notin borrowed => OwnerOf[c] = None
       /\ \A o \in TxnIds \cup Workers : Holds(o, c) => OwnerOf[c] = o

\* The owner of a connection is the one that holds it; a connection that an
\* error path lost has none, and neither has one that lies in its pool.
LEMMA OwnerIsHolder == HandlersInv /\ SessionInv => OwnerFacts
<1> SUFFICES ASSUME HandlersInv, SessionInv
             PROVE  OwnerFacts
  OBVIOUS
<1>1. OwnerOf = [c \in Connections |-> OwnerOf[c]]
  BY DEF OwnerOf
<1>2. ASSUME NEW c \in Connections
      PROVE  /\ c \in leaked => OwnerOf[c] = "lost"
             /\ c \notin borrowed => OwnerOf[c] = None
             /\ \A o \in TxnIds \cup Workers : Holds(o, c) => OwnerOf[c] = o
  <2>1. Accounting
    BY DEF SessionInv
  <2>2. CASE c \in leaked
    BY <2>1, <2>2 DEF OwnerOf, Accounting
  <2>3. CASE c \notin leaked /\ Registered(c)
    <3>1. PICK id \in TxnIds : id = CHOOSE i \in TxnIds : connectionOf[i] = c
      BY <2>3 DEF Registered
    <3>2. connectionOf[id] = c
      BY <2>3, <3>1 DEF Registered
    <3>3. OwnerOf[c] = id
      BY <2>3, <3>1 DEF OwnerOf
    <3>4. Holds(id, c)
      BY <3>2 DEF Holds
    <3>5. QED
      BY <2>1, <2>3, <3>3, <3>4 DEF Accounting
  <2>4. CASE c \notin leaked /\ ~Registered(c) /\ \E w \in Workers : Responsible(w, c)
    <3>1. PICK w \in Workers : w = CHOOSE v \in Workers : Responsible(v, c)
      BY <2>4
    <3>2. Responsible(w, c)
      BY <2>4, <3>1
    <3>3. OwnerOf[c] = Tag(w)
      BY <2>4, <3>1 DEF OwnerOf
    <3>4. Holds(Tag(w), c) /\ Tag(w) \in TxnIds \cup Workers
      BY <3>2, TagFacts DEF Holds
    <3>5. QED
      BY <2>1, <2>4, <3>3, <3>4 DEF Accounting
  <2>5. CASE c \notin leaked /\ ~Registered(c) /\ ~\E w \in Workers : Responsible(w, c)
    BY <2>5 DEF OwnerOf, Holds, Registered
  <2>6. QED
    BY <2>2, <2>3, <2>4, <2>5
<1>3. QED
  BY <1>1, <1>2 DEF OwnerFacts

\* A connection whose holding, lease and loss are unchanged keeps its owner.
LEMMA SameOwner ==
  ASSUME Accounting, OwnerFacts, OwnerFacts', NEW c \in Connections,
         \A o \in TxnIds \cup Workers : Holds(o, c)' <=> Holds(o, c),
         c \in borrowed' <=> c \in borrowed, c \in leaked' <=> c \in leaked
  PROVE  OwnerOf'[c] = OwnerOf[c]
  BY DEF Accounting, OwnerFacts

\* The owners when one connection gets another one.
LEMMA OneOwnerChanges ==
  ASSUME Accounting, OwnerFacts, OwnerFacts', NEW c \in Connections,
         \A d \in Connections \ {c} :
           /\ \A o \in TxnIds \cup Workers : Holds(o, d)' <=> Holds(o, d)
           /\ d \in borrowed' <=> d \in borrowed
           /\ d \in leaked' <=> d \in leaked
  PROVE  OwnerOf' = [OwnerOf EXCEPT ![c] = OwnerOf'[c]]
<1>1. \A d \in Connections \ {c} : OwnerOf'[d] = OwnerOf[d]
  BY SameOwner
<1>2. /\ OwnerOf = [d \in Connections |-> OwnerOf[d]]
      /\ OwnerOf' = [d \in Connections |-> OwnerOf'[d]]
  BY DEF OwnerFacts
<1>3. QED
  BY <1>1, <1>2

\* When nobody's holding changes the owners are the same.
LEMMA OwnersStay ==
  ASSUME Accounting, OwnerFacts, OwnerFacts', SameHolders,
         UNCHANGED <<borrowed, leaked>>
  PROVE  OwnerOf' = OwnerOf
<1>1. \A c \in Connections : OwnerOf'[c] = OwnerOf[c]
  BY SameOwner DEF SameHolders
<1>2. /\ OwnerOf = [d \in Connections |-> OwnerOf[d]]
      /\ OwnerOf' = [d \in Connections |-> OwnerOf'[d]]
  BY DEF OwnerFacts
<1>3. QED
  BY <1>1, <1>2

\* A handler's step is a step of exclusive sessions, or none.
LEMMA StepRefines ==
  ASSUME HandlersInv, SessionInv, OwnerFacts, OwnerFacts',
         NEW w \in Workers, Handles(w)
  PROVE  [Sessions!Next]_(Sessions!vars)
<1> PICK o \in TxnIds \cup Workers : o = Tag(w)
  BY TagFacts
<1>1. /\ Accounting /\ SessionsOfOwners
      /\ open \in [Connections -> BOOLEAN]
      /\ pending \in [Connections -> SUBSET (TxnIds \cup Workers)]
  BY DEF SessionInv, HandlersInv, HandlerTypeOK, LocalTypeOK
<1>2. /\ KeepsHolding(w) => SameHolders
      /\ \A c \in Connections : Holds(o, c) <=> Has(w, c)
      /\ \A c \in Connections : Holds(o, c)' <=> Has(w, c)'
      /\ \A c \in Connections, p \in TxnIds \cup Workers :
           p # o => (Holds(p, c)' <=> Holds(p, c))
  BY HoldingsAfter
<1>3. ASSUME NEW c \in Connections, Has(w, c)
      PROVE  OwnerOf[c] = o /\ Sessions!Serving(c) /\ o # "lost"
  BY <1>2, <1>3, LostAssumption DEF OwnerFacts, Sessions!Serving
<1>4. CASE Rests(w)
  <2>1. OwnerOf' = OwnerOf
    BY <1>1, <1>2, <1>4, OwnersStay DEF Rests
  <2>2. QED
    BY <1>4, <2>1 DEF Rests, sessionVars, Sessions!vars
<1>5. ASSUME NEW c \in Connections, Takes(w, c)
      PROVE  Sessions!Acquire(o, c)
  <2>1. OwnerOf[c] = None
    BY <1>5 DEF Takes, OwnerFacts
  <2>2. OwnerOf'[c] = o
    BY <1>2, <1>5 DEF Takes, OwnerFacts
  <2>3. \A d \in Connections \ {c} :
          \A p \in TxnIds \cup Workers : Holds(p, d)' <=> Holds(p, d)
    <3>1. \A d \in Connections \ {c} : Has(w, d)' <=> Has(w, d)
      BY <1>5 DEF Takes
    <3>2. QED
      BY <1>2, <3>1
  <2>4. OwnerOf' = [OwnerOf EXCEPT ![c] = OwnerOf'[c]]
    BY <1>1, <1>5, <2>3, OneOwnerChanges DEF Takes
  <2>5. QED
    BY <1>5, <2>1, <2>2, <2>4 DEF Takes, sessionVars, Sessions!Acquire
<1>6. ASSUME NEW c \in Connections, Wastes(w, c)
      PROVE  Sessions!Lose(c)
  <2>1. OwnerOf[c] = None /\ None # "lost"
    BY <1>6, LostAssumption DEF Wastes, OwnerFacts
  <2>2. OwnerOf'[c] = "lost"
    BY <1>6 DEF Wastes, OwnerFacts
  <2>3. OwnerOf' = [OwnerOf EXCEPT ![c] = OwnerOf'[c]]
    BY <1>1, <1>2, <1>6, OneOwnerChanges DEF Wastes, SameHolders
  <2>4. QED
    BY <1>6, <2>1, <2>2, <2>3 DEF Wastes, sessionVars, Sessions!Lose
<1>7. ASSUME NEW c \in Connections, Opens(w, c) \/ Works(w, c) \/ Ends(w, c)
      PROVE  Sessions!Open(c) \/ Sessions!Work(c) \/ Sessions!End(c)
  <2>1. OwnerOf' = OwnerOf
    BY <1>1, <1>2, <1>7, OwnersStay DEF Opens, Works, Ends
  <2>2. OwnerOf[c] = o /\ Sessions!Serving(c)
    BY <1>3, <1>7 DEF Opens, Works, Ends
  <2>3. CASE Opens(w, c)
    BY <2>1, <2>2, <2>3 DEF Opens, SessionBegins, Sessions!Open
  <2>4. CASE Works(w, c)
    BY <2>1, <2>2, <2>4 DEF Works, Sessions!Work
  <2>5. CASE Ends(w, c)
    <3>1. c \notin leaked
      BY <1>7, HeldIsLeased DEF Opens, Works, Ends
    <3>2. \A p \in pending[c] : p \in TxnIds \cup Workers /\ Holds(p, c)
      BY <1>1, <3>1 DEF SessionsOfOwners
    <3>3. pending[c] \subseteq {o}
      BY <2>2, <3>2 DEF OwnerFacts
    <3>4. QED
      BY <2>1, <2>2, <2>5, <3>3 DEF Ends, SessionEnds, Sessions!End
  <2>6. QED
    BY <1>7, <2>3, <2>4, <2>5
<1>8. ASSUME NEW c \in Connections, Returns(w, c) \/ Drops(w, c)
      PROVE  Sessions!Release(c) \/ Sessions!Lose(c)
  <2>1. OwnerOf[c] = o /\ Sessions!Serving(c) /\ o # "lost"
    BY <1>3, <1>8 DEF Returns, Drops
  <2>2. \A d \in Connections \ {c} :
          \A p \in TxnIds \cup Workers : Holds(p, d)' <=> Holds(p, d)
    <3>1. \A d \in Connections \ {c} : Has(w, d)' <=> Has(w, d)
      BY <1>8 DEF Returns, Drops, HoldsNoMore
    <3>2. QED
      BY <1>2, <3>1
  <2>3. OwnerOf' = [OwnerOf EXCEPT ![c] = OwnerOf'[c]]
    BY <1>1, <1>8, <2>2, OneOwnerChanges DEF Returns, Drops
  <2>4. CASE Returns(w, c)
    <3>1. OwnerOf'[c] = None
      BY <2>4 DEF Returns, OwnerFacts
    <3>2. pending[c] = {}
      BY <1>1, <2>4 DEF Returns, SessionsOfOwners
    <3>3. QED
      BY <2>1, <2>3, <2>4, <3>1, <3>2 DEF Returns, sessionVars, Sessions!Release
  <2>5. CASE Drops(w, c)
    <3>1. OwnerOf'[c] = "lost"
      BY <2>5 DEF Drops, OwnerFacts
    <3>2. QED
      BY <2>1, <2>3, <2>5, <3>1 DEF Drops, sessionVars, Sessions!Lose
  <2>6. QED
    BY <1>8, <2>4, <2>5
<1>9. QED
  BY <1>4, <1>5, <1>6, <1>7, <1>8, HoldingsAfter DEF SessionStep, Sessions!Next

\* With one request at a time per id the handlers implement exclusive sessions:
\* a session is taken, opened, worked in, ended and given up for one owner at a
\* time, for any number of workers, stores, ids and clients and whatever fails.
THEOREM HandlersImplementSessions == Serialized => (Spec => ImplementsExclusiveSessions)
<1> SUFFICES ASSUME Serialized
             PROVE  Spec => ImplementsExclusiveSessions
  OBVIOUS
<1>1. Spec => []HandlersInv /\ []SessionInv
  BY HandlersInvariance, SessionInvariance
<1>2. Spec => []OwnerFacts
  BY <1>1, OwnerIsHolder, PTL
<1>3. Init => Sessions!Init
  <2> SUFFICES ASSUME Init
               PROVE  Sessions!Init
    OBVIOUS
  <2>1. OwnerFacts /\ borrowed = {}
    BY OwnerIsHolder, InitHandlersInv, InitSessionInv DEF Init, ManagerInit
  <2>2. OwnerOf = [c \in Connections |-> None]
    BY <2>1 DEF OwnerFacts
  <2>3. QED
    BY <2>2 DEF Init, Sessions!Init
<1>4. ASSUME HandlersInv, SessionInv, OwnerFacts, OwnerFacts', [Next]_vars
      PROVE  [Sessions!Next]_(Sessions!vars)
  <2>1. CASE UNCHANGED <<managerVars, localVars>>
    BY <2>1 DEF managerVars, localVars, handlerVars, sessionVars, OwnerOf, Registered,
       Responsible, Tag, Local, Sessions!vars
  <2>2. ASSUME NEW w \in Workers, Receive(w) \/ Respond(w)
        PROVE  [Sessions!Next]_(Sessions!vars)
    <3>1. SameHolders /\ UNCHANGED <<borrowed, leaked, open, pending>>
      BY <1>4, <2>2, StepIsOwn, ServingIsSame DEF sessionVars, Step
    <3>2. OwnerOf' = OwnerOf
      BY <1>4, <3>1, OwnersStay DEF SessionInv
    <3>3. QED
      BY <3>1, <3>2 DEF Sessions!vars
  <2>3. ASSUME NEW w \in Workers, Handles(w)
        PROVE  [Sessions!Next]_(Sessions!vars)
    BY <1>4, <2>3, StepRefines
  <2>4. QED
    BY <1>4, <2>1, <2>2, <2>3, NextIsStep DEF Step, Handles
<1>5. QED
  BY <1>1, <1>2, <1>3, <1>4, PTL DEF Spec, ImplementsExclusiveSessions, Sessions!Spec
=============================================================================
