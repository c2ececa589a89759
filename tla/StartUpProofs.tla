------------------------------ MODULE StartUpProofs ------------------------------
(***************************************************************************)
(* For any configuration, and whichever stores are up, start-up hands over *)
(* the queues and aliases that the connection manager starts from.  The    *)
(* pools are those of the configuration, and start-up serves unless one of *)
(* the named faults of the file stops it.                                  *)
(***************************************************************************)
EXTENDS StartUp, TLAPS

\* While the connections of an entry are made, its queue holds smaller indexes.
IndexesGrow ==
  pc = "connections" =>
    /\ Entry.name \in named
    /\ Entry.name \in DOMAIN queue =>
         \A k \in DOMAIN queue[Entry.name] : queue[Entry.name][k].index < index

Inv == TypeOK /\ ManagerMayStart /\ IndexesGrow

\* An entry of the array has the fields of an entry.
LEMMA EntryFields ==
  ASSUME TypeOK, entry \in DOMAIN config.stores
  PROVE  Entry \in EntryType
BY DEF TypeOK, IsConfig, Entry

\* A pool is counted in a byte.
LEMMA PoolType ==
  ASSUME NEW e \in EntryType
  PROVE  PoolOf(e) \in 0..Width - 1
<1>1. Width \in Nat \ {0}
  BY ConfigAssumption
<1>2. e.pool \in Int \cup {None}
  BY DEF EntryType
<1>3. CASE e.pool = None
  BY <1>1, <1>3 DEF PoolOf
<1>4. CASE e.pool # None
  <2>1. e.pool \in Int
    BY <1>2, <1>4
  <2>2. e.pool % Width \in 0..Width - 1
    BY <1>1, <2>1
  <2>3. QED
    BY <1>4, <2>2 DEF PoolOf
<1>5. QED
  BY <1>3, <1>4

\* The indexes of connections are numbers.
LEMMA IndexesAreNumbers ==
  ASSUME NEW q \in Seq(ConnectionType)
  PROVE  \A k \in DOMAIN q : q[k].index \in Nat
<1>1. \A c \in ConnectionType : c.index \in Nat
  BY ConfigAssumption DEF ConnectionType
<1>2. \A k \in DOMAIN q : q[k] \in ConnectionType
  OBVIOUS
<1>3. QED
  BY <1>1, <1>2

\* The index of the next connection does not wrap.
LEMMA IndexDoesNotWrap ==
  ASSUME TypeOK, AtConnection, NextConnection
  PROVE  index' = index + 1 /\ index' \in 0..Width - 1 /\ index \in Nat
<1>1. entry \in DOMAIN config.stores /\ index \in 0..Width - 1 /\ Width \in Nat \ {0}
  BY ConfigAssumption DEF TypeOK, AtConnection
<1>2. PoolOf(Entry) \in 0..Width - 1 /\ index < PoolOf(Entry)
  BY <1>1, EntryFields, PoolType DEF AtConnection
<1>3. index + 1 \in 0..Width - 1
  BY <1>1, <1>2
<1>4. (index + 1) % Width = index + 1
  BY <1>1, <1>3
<1>5. QED
  BY <1>1, <1>3, <1>4 DEF NextConnection

\* A step that leaves the queues alone keeps what is said of them.
LEMMA SameQueues ==
  ASSUME ManagerMayStart, UNCHANGED <<onHold, queue, aliasOf>>
  PROVE  ManagerMayStart'
BY DEF ManagerMayStart, QueuesAreSound, HeldAreQueued

\* A connection with a larger index than those queued may be added.
LEMMA PushIsSound ==
  ASSUME Inv, NEW s \in Names, index \in 0..Width - 1, Push(s), aliasOf' = aliasOf,
         s \in DOMAIN queue => \A k \in DOMAIN queue[s] : queue[s][k].index < index
  PROVE  /\ onHold' \in Seq(ConnectionType)
         /\ DOMAIN queue' = DOMAIN queue \cup {s}
         /\ \A t \in DOMAIN queue' : queue'[t] \in Seq(ConnectionType)
         /\ \A k \in DOMAIN queue'[s] : queue'[s][k].index < index + 1
         /\ ManagerMayStart'
<1> DEFINE c == [store |-> s, index |-> index]
<1>1. /\ c \in ConnectionType /\ c.store = s /\ c.index = index /\ index \in Nat
  BY DEF ConnectionType
<1>2. /\ onHold \in Seq(ConnectionType)
      /\ \A t \in DOMAIN queue : queue[t] \in Seq(ConnectionType)
      /\ QueuesAreSound /\ HeldAreQueued
      /\ \A a \in DOMAIN aliasOf : aliasOf[a] \in DOMAIN queue
  BY DEF Inv, TypeOK, ManagerMayStart
<1> DEFINE old == IF s \in DOMAIN queue THEN queue[s] ELSE <<>>
<1>3. old \in Seq(ConnectionType) /\ Len(old) \in Nat /\ DOMAIN old = 1..Len(old)
  BY <1>2
<1>4. /\ \A i, j \in DOMAIN old : old[i].store = s /\ (i < j => old[i].index < old[j].index)
      /\ \A k \in DOMAIN old : old[k].index < index
  BY <1>2, <1>3 DEF QueuesAreSound
<1>5. /\ onHold' = Append(onHold, c)
      /\ DOMAIN queue' = DOMAIN queue \cup {s}
      /\ \A t \in DOMAIN queue : t # s => queue'[t] = queue[t]
      /\ queue'[s] = Append(old, c)
  <2>1. s \notin DOMAIN queue => Append(old, c) = <<c>>
    OBVIOUS
  <2>2. QED
    BY <2>1 DEF Push
<1>6. /\ queue'[s] \in Seq(ConnectionType) /\ DOMAIN queue'[s] = 1..Len(old) + 1
      /\ \A k \in 1..Len(old) : queue'[s][k] = old[k]
      /\ queue'[s][Len(old) + 1] = c
  BY <1>1, <1>3, <1>5
<1>7. \A t \in DOMAIN queue' : queue'[t] \in Seq(ConnectionType)
  BY <1>2, <1>5, <1>6
<1>8. \A k \in DOMAIN queue'[s] : queue'[s][k].index < index + 1
  <2>1. \A k \in 1..Len(old) : old[k].index \in Nat
    BY <1>3, IndexesAreNumbers
  <2>2. QED
    BY <1>1, <1>3, <1>4, <1>6, <2>1
<1>9. QueuesAreSound'
  <2>1. queue'[s] # <<>>
    BY <1>3, <1>6
  <2>2. \A i, j \in DOMAIN queue'[s] :
          /\ queue'[s][i].store = s
          /\ i < j => queue'[s][i].index < queue'[s][j].index
    BY <1>1, <1>3, <1>4, <1>6
  <2>3. QED
    BY <1>2, <1>5, <2>1, <2>2 DEF QueuesAreSound
<1>10. HeldAreQueued'
  <2>1. /\ Len(onHold) \in Nat /\ DOMAIN onHold = 1..Len(onHold)
        /\ DOMAIN onHold' = 1..Len(onHold) + 1
        /\ \A i \in 1..Len(onHold) : onHold'[i] = onHold[i]
        /\ onHold'[Len(onHold) + 1] = c
    BY <1>1, <1>2, <1>5
  <2>2. \A i \in 1..Len(onHold) : onHold[i] # c
    <3>1. SUFFICES ASSUME NEW i \in 1..Len(onHold), onHold[i] = c
                   PROVE  FALSE
      OBVIOUS
    <3>2. s \in DOMAIN queue /\ \E k \in DOMAIN queue[s] : queue[s][k] = c
      BY <1>1, <1>2, <2>1, <3>1 DEF HeldAreQueued
    <3>3. QED
      BY <1>1, <1>4, <3>2
  <2>3. \A i, j \in DOMAIN onHold' : onHold'[i] = onHold'[j] => i = j
    BY <1>2, <2>1, <2>2 DEF HeldAreQueued
  <2>4. \A t \in DOMAIN queue : \A k \in DOMAIN queue[t] :
          k \in DOMAIN queue'[t] /\ queue'[t][k] = queue[t][k]
    <3>1. s \in DOMAIN queue => queue[s] = old
      OBVIOUS
    <3>2. \A k \in DOMAIN old : k \in DOMAIN queue'[s] /\ queue'[s][k] = old[k]
      BY <1>3, <1>6
    <3>3. QED
      BY <1>5, <3>1, <3>2
  <2>5. ASSUME NEW i \in DOMAIN onHold'
        PROVE  /\ onHold'[i].store \in DOMAIN queue'
               /\ \E k \in DOMAIN queue'[onHold'[i].store] :
                    queue'[onHold'[i].store][k] = onHold'[i]
    <3>1. CASE i \in 1..Len(onHold)
      BY <1>2, <1>5, <2>1, <2>4, <3>1 DEF HeldAreQueued
    <3>2. CASE i = Len(onHold) + 1
      <4>1. Len(old) + 1 \in DOMAIN queue'[s]
        BY <1>3, <1>6
      <4>2. QED
        BY <1>1, <1>5, <1>6, <2>1, <3>2, <4>1
    <3>3. QED
      BY <2>1, <2>5, <3>1, <3>2
  <2>6. QED
    BY <2>3, <2>5 DEF HeldAreQueued
<1>11. ManagerMayStart'
  BY <1>2, <1>5, <1>9, <1>10 DEF ManagerMayStart
<1>12. QED
  BY <1>1, <1>2, <1>5, <1>7, <1>8, <1>11

\* Start-up begins without queues and aliases.
LEMMA InitInv == Init => Inv
<1> SUFFICES ASSUME Init
             PROVE  Inv
  OBVIOUS
<1>1. IsConfig(config) /\ Width \in Nat \ {0}
  BY ConfigAssumption DEF Init
<1>2. Len(config.stores) \in Nat
  BY <1>1 DEF IsConfig
<1>3. onHold = <<>> /\ queue = <<>> /\ aliasOf = <<>> /\ DOMAIN <<>> = {}
  BY DEF Init
<1>4. TypeOK
  BY <1>1, <1>2, <1>3 DEF Init, TypeOK
<1>5. ManagerMayStart
  BY <1>3 DEF ManagerMayStart, QueuesAreSound, HeldAreQueued
<1>6. IndexesGrow
  BY DEF Init, IndexesGrow
<1>7. QED
  BY <1>4, <1>5, <1>6 DEF Inv

\* Every step of start-up keeps the queues and aliases sound.
LEMMA NextInv == Inv /\ [Next]_vars => Inv'
<1> SUFFICES ASSUME Inv, [Next]_vars
             PROVE  Inv'
  OBVIOUS
<1>1. TypeOK /\ ManagerMayStart /\ IndexesGrow
  BY DEF Inv
<1>2. /\ Width \in Nat \ {0} /\ Len(config.stores) \in Nat
      /\ DOMAIN config.stores = 1..Len(config.stores)
  BY <1>1, ConfigAssumption DEF TypeOK, IsConfig
<1>3. CASE UNCHANGED vars
  BY <1>1, <1>3, SameQueues DEF vars, storeVars, Inv, TypeOK, IndexesGrow, Entry, IsConfig
<1>4. CASE BeginEntry
  <2>1. Entry \in EntryType /\ Entry.name \in Names
    BY <1>1, <1>4, EntryFields DEF BeginEntry, AtEntry, TakeEntry, Usable, EntryType
  <2>2. TypeOK'
    BY <1>1, <1>2, <1>4, <2>1 DEF BeginEntry, AtEntry, TypeOK
  <2>3. Entry.name \notin DOMAIN queue
    BY <1>1, <1>4 DEF BeginEntry, TakeEntry, TypeOK
  <2>4. IndexesGrow'
    BY <1>4, <2>3 DEF BeginEntry, IndexesGrow, Entry
  <2>5. ManagerMayStart'
    BY <1>1, <1>4, SameQueues DEF BeginEntry
  <2>6. QED
    BY <2>2, <2>4, <2>5 DEF Inv
<1>5. CASE SkipEntry
  <2>1. TypeOK'
    BY <1>1, <1>2, <1>5 DEF SkipEntry, AtEntry, storeVars, TypeOK
  <2>2. ManagerMayStart' /\ IndexesGrow'
    BY <1>1, <1>5, SameQueues DEF SkipEntry, AtEntry, storeVars, IndexesGrow
  <2>3. QED
    BY <2>1, <2>2 DEF Inv
<1>6. CASE Connect
  <2>1. /\ index' = index + 1 /\ index' \in 0..Width - 1
        /\ index \in 0..Width - 1
    BY <1>1, <1>6, IndexDoesNotWrap DEF Connect, TypeOK
  <2>2. /\ Entry.name \in named /\ named \subseteq Names
        /\ Entry.name \in DOMAIN queue =>
             \A k \in DOMAIN queue[Entry.name] : queue[Entry.name][k].index < index
    BY <1>1, <1>6 DEF Connect, AtConnection, IndexesGrow, TypeOK
  <2>3. /\ onHold' \in Seq(ConnectionType)
        /\ DOMAIN queue' = DOMAIN queue \cup {Entry.name}
        /\ \A t \in DOMAIN queue' : queue'[t] \in Seq(ConnectionType)
        /\ \A k \in DOMAIN queue'[Entry.name] : queue'[Entry.name][k].index < index + 1
        /\ ManagerMayStart'
    BY <1>6, <2>1, <2>2, PushIsSound DEF Connect, Inv
  <2>4. TypeOK'
    BY <1>1, <1>6, <2>1, <2>2, <2>3 DEF Connect, TypeOK
  <2>5. IndexesGrow'
    BY <1>6, <2>1, <2>2, <2>3 DEF Connect, IndexesGrow, Entry
  <2>6. QED
    BY <2>3, <2>4, <2>5 DEF Inv
<1>7. CASE FailToConnect
  <2>1. /\ index' = index + 1 /\ index' \in 0..Width - 1 /\ index \in Nat
        /\ UNCHANGED <<config, pc, entry, named, onHold, queue, aliasOf, workers>>
    BY <1>1, <1>7, IndexDoesNotWrap DEF FailToConnect, WithoutConnection
  <2>2. TypeOK' /\ ManagerMayStart'
    BY <1>1, <2>1, SameQueues DEF TypeOK
  <2>3. IndexesGrow'
    <3>1. \A s \in DOMAIN queue : \A k \in DOMAIN queue[s] : queue[s][k].index \in Nat
      BY <1>1, IndexesAreNumbers DEF TypeOK
    <3>2. QED
      BY <1>1, <2>1, <3>1 DEF IndexesGrow, Entry
  <2>4. QED
    BY <2>2, <2>3 DEF Inv
<1>8. CASE Authenticate
  BY <1>1, <1>8, SameQueues DEF Authenticate, storeVars, Inv, TypeOK, IndexesGrow
<1>9. CASE EndEntry
  <2>1. TypeOK'
    BY <1>1, <1>2, <1>9 DEF EndEntry, storeVars, TypeOK
  <2>2. ManagerMayStart' /\ IndexesGrow'
    BY <1>1, <1>9, SameQueues DEF EndEntry, storeVars, IndexesGrow
  <2>3. QED
    BY <2>1, <2>2 DEF Inv
<1>10. CASE InitAliases
  <2>1. DOMAIN aliasOf' \subseteq Names
    BY <1>1, <1>10 DEF InitAliases, Leads, TypeOK, IsConfig
  <2>2. TypeOK'
    BY <1>1, <1>10, <2>1 DEF InitAliases, storeVars, TypeOK
  <2>3. ManagerMayStart'
    BY <1>1, <1>10 DEF InitAliases, Leads, storeVars, ManagerMayStart, QueuesAreSound,
       HeldAreQueued
  <2>4. IndexesGrow'
    BY <1>10 DEF InitAliases, IndexesGrow
  <2>5. QED
    BY <2>2, <2>3, <2>4 DEF Inv
<1>11. CASE Run
  <2>1. workers' \in Int
    BY <1>1, <1>11 DEF Run, IsInt, TypeOK, IsConfig
  <2>2. QED
    BY <1>1, <1>11, <2>1, SameQueues DEF Run, storeVars, Inv, TypeOK, IndexesGrow
<1>12. CASE Terminate
  BY <1>1, <1>12, SameQueues DEF Terminate, storeVars, Inv, TypeOK, IndexesGrow
<1>13. CASE MisformatWarning
  BY <1>1, <1>13, SameQueues
     DEF MisformatWarning, AtAliases, storeVars, Inv, TypeOK, IndexesGrow
<1>14. QED
  BY <1>3, <1>4, <1>5, <1>6, <1>7, <1>8, <1>9, <1>10, <1>11, <1>12, <1>13 DEF Next

\* Start-up keeps its invariant for any configuration.
THEOREM StartUpInvariance == Spec => []Inv
<1>1. QED
  BY InitInv, NextInv, PTL DEF Spec

\* The variables of start-up hold values of their types: no index leaves a byte.
THEOREM StartUpTypeCorrect == Spec => []TypeOK
<1>1. Inv => TypeOK
  BY DEF Inv
<1>2. QED
  BY <1>1, StartUpInvariance, PTL

\* Whatever the configuration says and whichever stores are up, the manager gets
\* queues that are not empty and hold each connection once, and aliases that lead
\* to one of them.
THEOREM StartUpEstablishesPools == Spec => []ManagerMayStart
<1>1. Inv => ManagerMayStart
  BY DEF Inv
<1>2. QED
  BY <1>1, StartUpInvariance, PTL

-----------------------------------------------------------------------------
(* The entries that the stores are made from.                               *)

\* Entry i is the first usable one of its name.
IsSource(i) ==
  /\ i \in DOMAIN config.stores
  /\ Usable(config.stores[i])
  /\ \A j \in 1..i - 1 :
       ~(Usable(config.stores[j]) /\ config.stores[j].name = config.stores[i].name)

\* How many connections the queue of a name holds.
Queued(s) == IF s \in DOMAIN queue THEN Len(queue[s]) ELSE 0

\* Its connections come up at every attempt.
AlwaysConnects(e) == MayConnect(e) /\ ~MayFail(e)

\* An entry is being worked on, or start-up has stopped in the middle of it.
UnderWay ==
  pc = "connections" \/ (pc = "undefined" /\ entry \in DOMAIN config.stores)

\* The names taken are those of the usable entries so far; the entry under way
\* is the first of its name.
NamesAreTaken ==
  /\ \A n \in named : \E i \in DOMAIN config.stores :
       /\ IsSource(i) /\ config.stores[i].name = n
       /\ i < entry \/ (UnderWay /\ i = entry)
  /\ \A i \in 1..entry - 1 :
       Usable(config.stores[i]) => config.stores[i].name \in named
  /\ UnderWay => IsSource(entry)
  /\ pc \in {"threads", "serving", "terminated"} => entry \notin DOMAIN config.stores

\* The entry under way: its index stays within its pool, and it has as many
\* connections as attempts when none can fail.
EntryProgresses ==
  pc = "connections" =>
    /\ index <= PoolOf(Entry)
    /\ ThroughNull(Entry) => index = 0
    /\ AlwaysConnects(Entry) => Queued(Entry.name) = index

\* What the entries so far have led to.
EntriesFollowed ==
  \A i \in DOMAIN config.stores :
    LET e == config.stores[i]
    IN  IsSource(i) =>
          /\ e.name \in DOMAIN queue =>
               /\ MayConnect(e)
               /\ \A k \in DOMAIN queue[e.name] : queue[e.name][k].index < PoolOf(e)
          /\ i < entry => ~ThroughNull(e)
          /\ i < entry /\ AlwaysConnects(e) => Queued(e.name) = PoolOf(e)

\* The value of an alias is missing.
AliasIsBad == \E a \in DOMAIN config.aliases : Misformats(a)

\* How start-up has ended.
EndIsReasoned ==
  /\ pc = "undefined" =>
       IF entry \in DOMAIN config.stores THEN ThroughNull(Entry) ELSE AliasIsBad
  /\ pc \in {"threads", "serving", "terminated"} => ~AliasIsBad
  /\ pc = "serving" => IsInt(config.threads) /\ workers > 0
  /\ pc = "terminated" => ~IsInt(config.threads)

PoolsInv ==
  NamesAreTaken /\ EntryProgresses /\ EntriesFollowed /\ EndIsReasoned

\* No two entries are the first of one name.
LEMMA SourceIsUnique ==
  ASSUME TypeOK, NEW i, NEW j, IsSource(i), IsSource(j),
         config.stores[i].name = config.stores[j].name
  PROVE  i = j
<1>1. DOMAIN config.stores = 1..Len(config.stores) /\ Len(config.stores) \in Nat
  BY DEF TypeOK, IsConfig
<1>2. i \in Nat /\ j \in Nat /\ i >= 1 /\ j >= 1
  BY <1>1 DEF IsSource
<1>3. ~(i < j) /\ ~(j < i)
  BY <1>2 DEF IsSource
<1>4. QED
  BY <1>2, <1>3

\* Source finds the entry that a name was taken from.
LEMMA SourceOfName ==
  ASSUME TypeOK, NEW i, IsSource(i)
  PROVE  Source(config.stores[i].name) = i
<1> DEFINE s == config.stores[i].name
           Is(j) == /\ Usable(config.stores[j]) /\ config.stores[j].name = s
                    /\ \A k \in 1..j - 1 :
                         ~(Usable(config.stores[k]) /\ config.stores[k].name = s)
<1>1. i \in DOMAIN config.stores /\ Is(i)
  BY DEF IsSource
<1>2. ASSUME NEW j \in DOMAIN config.stores, Is(j)
      PROVE  j = i
  <2>1. IsSource(j) /\ config.stores[j].name = config.stores[i].name
    BY <1>2 DEF IsSource
  <2>2. QED
    BY <2>1, SourceIsUnique
<1> HIDE DEF Is
<1>3. Source(s) = CHOOSE j \in DOMAIN config.stores : Is(j)
  BY DEF Source, Is
<1>4. QED
  BY <1>1, <1>2, <1>3

\* Which entries are first does not change.
LEMMA SameSources ==
  ASSUME config' = config, NEW i
  PROVE  IsSource(i)' <=> IsSource(i)
<1>1. IsSource(i) => IsSource(i)'
  BY DEF IsSource, Usable, PoolOf
<1>2. IsSource(i)' => IsSource(i)
  BY DEF IsSource, Usable, PoolOf
<1>3. QED
  BY <1>1, <1>2

\* A step that leaves the queues and the position alone keeps what they follow.
LEMMA SamePools ==
  ASSUME EntriesFollowed, UNCHANGED <<config, entry, queue>>
  PROVE  EntriesFollowed'
BY SameSources DEF EntriesFollowed, Queued, MayConnect, MayFail, AlwaysConnects,
   ThroughNull, PoolOf

\* A connection more for one name, and the other names as before.
LEMMA PushAddsOne ==
  ASSUME TypeOK, NEW s \in Names, index \in 0..Width - 1, Push(s)
  PROVE  /\ DOMAIN queue' = DOMAIN queue \cup {s}
         /\ \A t \in DOMAIN queue : t # s => queue'[t] = queue[t]
         /\ \A t : t # s => Queued(t)' = Queued(t)
         /\ Queued(s) \in Nat /\ Queued(s)' = Queued(s) + 1
         /\ \A k \in DOMAIN queue'[s] :
              \/ queue'[s][k].index = index
              \/ s \in DOMAIN queue /\ k \in DOMAIN queue[s] /\ queue'[s][k] = queue[s][k]
<1> DEFINE c == [store |-> s, index |-> index]
           old == IF s \in DOMAIN queue THEN queue[s] ELSE <<>>
<1>1. c \in ConnectionType /\ c.index = index
  BY DEF ConnectionType
<1>2. old \in Seq(ConnectionType) /\ Queued(s) = Len(old) /\ Len(old) \in Nat
  BY DEF TypeOK, Queued
<1>3. /\ DOMAIN queue' = DOMAIN queue \cup {s}
      /\ \A t \in DOMAIN queue : t # s => queue'[t] = queue[t]
      /\ queue'[s] = Append(old, c)
  <2>1. s \notin DOMAIN queue => Append(old, c) = <<c>>
    OBVIOUS
  <2>2. QED
    BY <2>1 DEF Push
<1> HIDE DEF c
<1>4. /\ DOMAIN old = 1..Len(old)
      /\ DOMAIN queue'[s] = 1..Len(old) + 1 /\ Len(queue'[s]) = Len(old) + 1
      /\ queue'[s][Len(old) + 1] = c
      /\ \A k \in 1..Len(old) : queue'[s][k] = old[k]
  BY <1>1, <1>2, <1>3
<1>5. Queued(s)' = Queued(s) + 1
  BY <1>2, <1>3, <1>4 DEF Queued
<1>6. \A t : t # s => Queued(t)' = Queued(t)
  BY <1>3 DEF Queued
<1>7. \A k \in DOMAIN queue'[s] :
        \/ queue'[s][k].index = index
        \/ s \in DOMAIN queue /\ k \in DOMAIN queue[s] /\ queue'[s][k] = queue[s][k]
  <2>1. SUFFICES ASSUME NEW k \in 1..Len(old)
                 PROVE  s \in DOMAIN queue /\ k \in DOMAIN queue[s]
                        /\ queue'[s][k] = queue[s][k]
    BY <1>1, <1>2, <1>4
  <2>2. s \in DOMAIN queue
    BY <1>2, <2>1
  <2>3. QED
    BY <1>4, <2>1, <2>2
<1>8. QED
  BY <1>2, <1>3, <1>5, <1>6, <1>7

\* No name is taken and no entry done at first.
LEMMA InitPoolsInv == Init => PoolsInv
<1> SUFFICES ASSUME Init
             PROVE  PoolsInv
  OBVIOUS
<1>1. /\ pc = "stores" /\ entry = 1 /\ named = {} /\ DOMAIN queue = {}
      /\ DOMAIN config.stores \subseteq Nat \ {0}
  BY ConfigAssumption DEF Init, IsConfig
<1>2. NamesAreTaken
  BY <1>1 DEF NamesAreTaken, UnderWay
<1>3. EntriesFollowed
  BY <1>1 DEF EntriesFollowed
<1>4. QED
  BY <1>1, <1>2, <1>3 DEF PoolsInv, EntryProgresses, EndIsReasoned

\* A new name's entry is the first of that name.
LEMMA BeginKeepsPools ==
  ASSUME Inv, PoolsInv, BeginEntry
  PROVE  PoolsInv'
<1>1. /\ entry \in DOMAIN config.stores /\ Usable(Entry) /\ Entry.name \notin named
      /\ named' = named \cup {Entry.name} /\ index' = 0 /\ pc' = "connections"
      /\ UNCHANGED <<config, entry, queue>> /\ pc = "stores"
  BY DEF BeginEntry, AtEntry, TakeEntry
<1>2. IsSource(entry)
  BY <1>1 DEF IsSource, PoolsInv, NamesAreTaken, Entry
<1>3. PoolOf(Entry) \in Nat
  BY <1>1, EntryFields, PoolType, ConfigAssumption DEF Inv
<1>4. NamesAreTaken'
  <2>1. ASSUME NEW n \in named'
        PROVE  \E i \in DOMAIN config.stores :
                 /\ IsSource(i) /\ config.stores[i].name = n
                 /\ i < entry \/ i = entry
    BY <1>1, <1>2, <2>1 DEF PoolsInv, NamesAreTaken, UnderWay, Entry
  <2>2. \A i \in 1..entry - 1 :
          Usable(config.stores[i]) => config.stores[i].name \in named'
    BY <1>1 DEF PoolsInv, NamesAreTaken
  <2>3. /\ \A i : IsSource(i)' <=> IsSource(i)
        /\ \A i : Usable(config.stores[i])' <=> Usable(config.stores[i])
    BY <1>1, SameSources DEF Usable, PoolOf
  <2>4. QED
    BY <1>1, <1>2, <2>1, <2>2, <2>3 DEF NamesAreTaken, UnderWay
<1>5. EntryProgresses'
  <2>1. Entry.name \notin DOMAIN queue
    BY <1>1 DEF Inv, TypeOK
  <2>2. Entry' = Entry /\ Queued(Entry.name)' = 0 /\ PoolOf(Entry)' \in Nat
    BY <1>1, <1>3, <2>1 DEF Queued, Entry, PoolOf
  <2>3. QED
    BY <1>1, <2>2 DEF EntryProgresses
<1>6. EntriesFollowed'
  BY <1>1, SamePools DEF PoolsInv
<1>7. QED
  BY <1>1, <1>4, <1>5, <1>6 DEF PoolsInv, EndIsReasoned

\* An entry left out is not the first of its name.
LEMMA SkipKeepsPools ==
  ASSUME Inv, PoolsInv, SkipEntry
  PROVE  PoolsInv'
<1>1. /\ entry \in DOMAIN config.stores /\ pc = "stores" /\ pc' = pc
      /\ entry' = entry + 1 /\ UNCHANGED <<config, named, queue>>
      /\ Usable(Entry) => Entry.name \in named
  BY DEF SkipEntry, AtEntry, TakeEntry, storeVars
<1>2. entry \in Nat /\ \A i \in 1..entry' - 1 : i < entry \/ i = entry
  BY <1>1 DEF Inv, TypeOK, IsConfig
<1>3. ~IsSource(entry)
  <2>1. SUFFICES ASSUME IsSource(entry)
                 PROVE  FALSE
    OBVIOUS
  <2>2. PICK i \in DOMAIN config.stores :
          IsSource(i) /\ config.stores[i].name = Entry.name /\ i < entry
    BY <1>1, <2>1 DEF IsSource, PoolsInv, NamesAreTaken, UnderWay, Entry
  <2>3. QED
    BY <1>2, <2>1, <2>2, SourceIsUnique DEF Entry, Inv
<1>4. \A i : IsSource(i)' <=> IsSource(i)
  BY <1>1, SameSources
<1>5. NamesAreTaken'
  <2>1. \A n \in named : \E i \in DOMAIN config.stores :
          IsSource(i) /\ config.stores[i].name = n /\ i < entry'
    BY <1>1, <1>2 DEF PoolsInv, NamesAreTaken, UnderWay, Inv, TypeOK, IsConfig
  <2>2. \A i \in 1..entry' - 1 :
          Usable(config.stores[i]) => config.stores[i].name \in named
    BY <1>1, <1>2 DEF PoolsInv, NamesAreTaken, Entry
  <2>3. \A i : Usable(config.stores[i])' <=> Usable(config.stores[i])
    BY <1>1 DEF Usable, PoolOf
  <2>4. QED
    BY <1>1, <1>4, <2>1, <2>2, <2>3 DEF NamesAreTaken, UnderWay
<1>6. EntriesFollowed'
  <2>1. ASSUME NEW i \in DOMAIN config.stores, IsSource(i), i < entry'
        PROVE  i < entry
    BY <1>1, <1>2, <1>3, <2>1 DEF Inv, TypeOK, IsConfig
  <2>2. QED
    BY <1>1, <1>4, <2>1 DEF PoolsInv, EntriesFollowed, Queued, MayConnect, MayFail,
       AlwaysConnects, ThroughNull, PoolOf
<1>7. QED
  BY <1>1, <1>5, <1>6 DEF PoolsInv, EntryProgresses, EndIsReasoned

\* A step that stays at its entry takes no name.
LEMMA AttemptKeepsNames ==
  ASSUME NamesAreTaken, UNCHANGED <<config, pc, entry, named>>
  PROVE  NamesAreTaken'
<1>1. /\ \A i : IsSource(i)' <=> IsSource(i)
      /\ \A i : Usable(config.stores[i])' <=> Usable(config.stores[i])
  BY SameSources DEF Usable, PoolOf
<1>2. QED
  BY <1>1 DEF NamesAreTaken, UnderWay

\* A connection adds to the queue of the entry under way, and to no other entry's.
LEMMA ConnectKeepsPools ==
  ASSUME Inv, PoolsInv, Connect
  PROVE  PoolsInv'
<1>1. /\ pc = "connections" /\ index < PoolOf(Entry) /\ MayConnect(Entry)
      /\ Push(Entry.name) /\ UNCHANGED <<config, pc, entry, named, workers>>
  BY DEF Connect, AtConnection
<1>2. /\ TypeOK /\ entry \in DOMAIN config.stores /\ IsSource(entry)
      /\ Entry.name \in named /\ Entry.name \in Names /\ index \in 0..Width - 1
  BY <1>1 DEF Inv, TypeOK, IndexesGrow, PoolsInv, NamesAreTaken, UnderWay
<1>3. index' = index + 1 /\ index \in Nat
  BY <1>2, IndexDoesNotWrap DEF Connect
<1>4. PoolOf(Entry) \in Nat
  BY <1>2, EntryFields, PoolType, ConfigAssumption
<1> DEFINE s == Entry.name
<1>5. /\ DOMAIN queue' = DOMAIN queue \cup {s}
      /\ \A t \in DOMAIN queue : t # s => queue'[t] = queue[t]
      /\ \A t : t # s => (Queued(t))' = Queued(t)
      /\ Queued(s) \in Nat /\ (Queued(Entry.name))' = Queued(Entry.name) + 1
      /\ \A k \in DOMAIN queue'[s] :
           \/ queue'[s][k].index = index
           \/ s \in DOMAIN queue /\ k \in DOMAIN queue[s] /\ queue'[s][k] = queue[s][k]
  <2>1. PICK t \in Names : t = Entry.name
    BY <1>2
  <2>2. Entry' = Entry
    BY <1>1 DEF Entry
  <2>3. QED
    BY <1>1, <1>2, <2>1, <2>2, PushAddsOne
<1>6. NamesAreTaken'
  BY <1>1, AttemptKeepsNames DEF PoolsInv
<1>7. EntryProgresses'
  <2>1. Entry' = Entry /\ PoolOf(Entry)' = PoolOf(Entry) /\ ~ThroughNull(Entry)
    BY <1>1 DEF Entry, PoolOf, ThroughNull, MayConnect
  <2>2. AlwaysConnects(Entry) => (Queued(Entry.name))' = index'
    BY <1>1, <1>3, <1>5 DEF PoolsInv, EntryProgresses
  <2>3. /\ AlwaysConnects(Entry)' <=> AlwaysConnects(Entry)
        /\ ThroughNull(Entry)' <=> ThroughNull(Entry)
    BY <2>1 DEF AlwaysConnects, MayConnect, MayFail, ThroughNull
  <2>4. QED
    BY <1>1, <1>3, <1>4, <2>1, <2>2, <2>3 DEF EntryProgresses
<1>8. EntriesFollowed'
  <2>1. SUFFICES ASSUME NEW i \in DOMAIN config.stores, IsSource(i)
                 PROVE  LET e == config.stores[i]
                        IN  /\ e.name \in DOMAIN queue' =>
                                 /\ MayConnect(e)
                                 /\ \A k \in DOMAIN queue'[e.name] :
                                      queue'[e.name][k].index < PoolOf(e)
                            /\ i < entry => ~ThroughNull(e)
                            /\ i < entry /\ AlwaysConnects(e) =>
                                 (Queued(e.name))' = PoolOf(e)
    BY <1>1, SameSources DEF EntriesFollowed, MayConnect, MayFail, AlwaysConnects,
       ThroughNull, PoolOf
  <2> DEFINE e == config.stores[i]
  <2>2. /\ e.name \in DOMAIN queue =>
             /\ MayConnect(e)
             /\ \A k \in DOMAIN queue[e.name] : queue[e.name][k].index < PoolOf(e)
        /\ i < entry => ~ThroughNull(e)
        /\ i < entry /\ AlwaysConnects(e) => Queued(e.name) = PoolOf(e)
    BY <2>1 DEF PoolsInv, EntriesFollowed
  <2>3. CASE i = entry
    BY <1>1, <1>2, <1>5, <2>2, <2>3 DEF Entry, Inv, TypeOK, IsConfig
  <2>4. CASE i # entry
    <3>1. e.name # s
      BY <1>2, <2>1, <2>4, SourceIsUnique DEF Entry
    <3>2. /\ e.name \in DOMAIN queue' <=> e.name \in DOMAIN queue
          /\ e.name \in DOMAIN queue => queue'[e.name] = queue[e.name]
      BY <1>5, <3>1
    <3>3. (Queued(e.name))' = Queued(e.name)
      BY <1>1, <3>2 DEF Queued
    <3>4. QED
      BY <2>2, <3>2, <3>3
  <2>5. QED
    BY <2>3, <2>4
<1>9. QED
  BY <1>1, <1>6, <1>7, <1>8 DEF PoolsInv, EndIsReasoned

\* An attempt that fails leaves the queues, and the driver is one that may fail.
LEMMA FailKeepsPools ==
  ASSUME Inv, PoolsInv, FailToConnect
  PROVE  PoolsInv'
<1>1. /\ pc = "connections" /\ index < PoolOf(Entry)
      /\ MayFail(Entry) /\ ~ThroughNull(Entry)
      /\ UNCHANGED <<config, pc, entry, named, queue, workers>>
  BY DEF FailToConnect, AtConnection, WithoutConnection
<1>2. TypeOK /\ entry \in DOMAIN config.stores
  BY <1>1 DEF Inv, TypeOK
<1>3. index' = index + 1 /\ index \in Nat
  BY <1>2, IndexDoesNotWrap DEF FailToConnect
<1>4. PoolOf(Entry) \in Nat
  BY <1>2, EntryFields, PoolType, ConfigAssumption
<1>5. EntryProgresses'
  <2>1. Entry' = Entry /\ PoolOf(Entry)' = PoolOf(Entry)
    BY <1>1 DEF Entry, PoolOf
  <2>2. ~ThroughNull(Entry)' /\ ~AlwaysConnects(Entry)'
    BY <1>1, <2>1 DEF AlwaysConnects, MayConnect, MayFail, ThroughNull
  <2>3. QED
    BY <1>1, <1>3, <1>4, <2>1, <2>2 DEF EntryProgresses
<1>6. NamesAreTaken' /\ EntriesFollowed'
  BY <1>1, AttemptKeepsNames, SamePools DEF PoolsInv
<1>7. QED
  BY <1>1, <1>5, <1>6 DEF PoolsInv, EndIsReasoned

\* At the end of an entry its index has reached its pool: with a driver that always
\* connects the queue is full, and nothing went through the null pointer.
LEMMA EndEntryKeepsPools ==
  ASSUME Inv, PoolsInv, EndEntry
  PROVE  PoolsInv'
<1>1. /\ pc = "connections" /\ pc' = "stores" /\ index >= PoolOf(Entry)
      /\ entry' = entry + 1 /\ UNCHANGED <<config, named, queue>>
  BY DEF EndEntry, storeVars
<1>2. /\ entry \in DOMAIN config.stores /\ IsSource(entry) /\ entry \in Nat
      /\ DOMAIN config.stores \subseteq Nat
      /\ Entry.name \in named /\ index \in Nat /\ Entry \in EntryType
  BY <1>1, EntryFields, ConfigAssumption
     DEF Inv, TypeOK, IsConfig, IndexesGrow, PoolsInv, NamesAreTaken, UnderWay
<1>3. PoolOf(Entry) \in Nat /\ PoolOf(Entry) > 0
  BY <1>2, PoolType, ConfigAssumption DEF IsSource, Usable, Entry
<1>4. index = PoolOf(Entry)
  BY <1>1, <1>2, <1>3 DEF PoolsInv, EntryProgresses
<1>5. ~ThroughNull(Entry) /\ (AlwaysConnects(Entry) => Queued(Entry.name) = PoolOf(Entry))
  BY <1>1, <1>3, <1>4 DEF PoolsInv, EntryProgresses
<1>6. \A i : IsSource(i)' <=> IsSource(i)
  BY <1>1, SameSources
<1>7. NamesAreTaken'
  <2>1. \A n \in named : \E i \in DOMAIN config.stores :
          IsSource(i) /\ config.stores[i].name = n /\ i < entry'
    BY <1>1, <1>2 DEF PoolsInv, NamesAreTaken, UnderWay
  <2>2. \A i \in 1..entry' - 1 : i \in 1..entry - 1 \/ i = entry
    BY <1>1, <1>2
  <2>3. \A i \in 1..entry' - 1 :
          Usable(config.stores[i]) => config.stores[i].name \in named
    BY <1>2, <2>2 DEF PoolsInv, NamesAreTaken, Entry
  <2>4. \A i : Usable(config.stores[i])' <=> Usable(config.stores[i])
    BY <1>1 DEF Usable, PoolOf
  <2>5. QED
    BY <1>1, <1>6, <2>1, <2>3, <2>4 DEF NamesAreTaken, UnderWay
<1>8. EntriesFollowed'
  <2>1. \A i \in DOMAIN config.stores : i < entry' => i < entry \/ i = entry
    BY <1>1, <1>2
  <2>2. QED
    BY <1>1, <1>5, <1>6, <2>1 DEF PoolsInv, EntriesFollowed, Queued, MayConnect,
       MayFail, AlwaysConnects, ThroughNull, PoolOf, Entry
<1>9. QED
  BY <1>1, <1>7, <1>8 DEF PoolsInv, EntryProgresses, EndIsReasoned

\* Every step keeps names, pools and the end of start-up in order.
LEMMA NextPoolsInv == Inv /\ PoolsInv /\ [Next]_vars => PoolsInv'
<1> SUFFICES ASSUME Inv, PoolsInv, [Next]_vars
             PROVE  PoolsInv'
  OBVIOUS
<1>1. CASE UNCHANGED vars
  <2>1. EndIsReasoned'
    BY <1>1 DEF vars, storeVars, PoolsInv, EndIsReasoned, AliasIsBad, Misformats, IsInt,
       ThroughNull, Entry
  <2>2. EntryProgresses'
    BY <1>1 DEF vars, storeVars, PoolsInv, EntryProgresses, Entry, Queued, MayConnect,
       MayFail, AlwaysConnects, ThroughNull, PoolOf
  <2>3. QED
    BY <1>1, <2>1, <2>2, AttemptKeepsNames, SamePools DEF vars, storeVars, PoolsInv
<1>2. CASE Authenticate
  <2>1. NamesAreTaken'
    <3>1. /\ \A i : IsSource(i)' <=> IsSource(i)
          /\ \A i : Usable(config.stores[i])' <=> Usable(config.stores[i])
      BY <1>2, SameSources DEF Authenticate, Usable, PoolOf
    <3>2. QED
      BY <1>2, <3>1
         DEF Authenticate, AtConnection, storeVars, PoolsInv, NamesAreTaken, UnderWay
  <2>2. EntriesFollowed'
    BY <1>2, SamePools DEF Authenticate, storeVars, PoolsInv
  <2>3. QED
    BY <1>2, <2>1, <2>2
       DEF Authenticate, AtConnection, Inv, TypeOK, PoolsInv, EntryProgresses,
           EndIsReasoned, ThroughNull, Entry
<1>3. ASSUME MisformatWarning \/ InitAliases \/ Run \/ Terminate
      PROVE  PoolsInv'
  <2>1. NamesAreTaken'
    <3>1. /\ \A i : IsSource(i)' <=> IsSource(i)
          /\ \A i : Usable(config.stores[i])' <=> Usable(config.stores[i])
      BY <1>3, SameSources
         DEF MisformatWarning, InitAliases, Run, Terminate, Usable, PoolOf
    <3>2. QED
      BY <1>3, <3>1
         DEF MisformatWarning, InitAliases, AtAliases, Run, Terminate, storeVars, PoolsInv,
             NamesAreTaken, UnderWay
  <2>2. EntriesFollowed'
    BY <1>3, SamePools
       DEF MisformatWarning, InitAliases, Run, Terminate, storeVars, PoolsInv
  <2>3. AliasIsBad' <=> AliasIsBad
    BY <1>3 DEF MisformatWarning, InitAliases, Run, Terminate, AliasIsBad, Misformats
  <2>4. EndIsReasoned'
    BY <1>3, <2>3
       DEF MisformatWarning, InitAliases, AtAliases, Run, Terminate, IsInt, AliasIsBad,
           PoolsInv, EndIsReasoned, Inv, TypeOK, IsConfig
  <2>5. QED
    BY <1>3, <2>1, <2>2, <2>4
       DEF MisformatWarning, InitAliases, Run, Terminate, PoolsInv, EntryProgresses
<1>4. QED
  BY <1>1, <1>2, <1>3, BeginKeepsPools, SkipKeepsPools, ConnectKeepsPools,
     FailKeepsPools, EndEntryKeepsPools DEF Next

-----------------------------------------------------------------------------
\* What start-up says of names, pools and its end stays true for any configuration.
THEOREM PoolsInvariance == Spec => []PoolsInv
<1>1. QED
  BY InitPoolsInv, NextPoolsInv, StartUpInvariance, PTL DEF Spec

\* The pools are those that the configuration asks for, modulo the width of a byte,
\* for any configuration and whichever stores are up.
THEOREM PoolsAreConfigured == Spec => []PoolsFollowConfiguration
<1>1. ASSUME Inv, PoolsInv
      PROVE  PoolsFollowConfiguration
  <2>1. ASSUME NEW s \in DOMAIN queue, NEW k \in DOMAIN queue[s]
        PROVE  /\ MayConnect(config.stores[Source(s)])
               /\ queue[s][k].index < PoolOf(config.stores[Source(s)])
    <3>1. s \in named
      BY <1>1 DEF Inv, TypeOK
    <3>2. PICK i \in DOMAIN config.stores : IsSource(i) /\ config.stores[i].name = s
      BY <1>1, <3>1 DEF PoolsInv, NamesAreTaken
    <3>3. Source(s) = i
      BY <1>1, <3>2, SourceOfName DEF Inv
    <3>4. QED
      BY <1>1, <3>2, <3>3 DEF PoolsInv, EntriesFollowed
  <2>2. ASSUME pc \in {"threads", "serving", "terminated"},
               NEW i \in DOMAIN config.stores, Usable(config.stores[i]),
               Source(config.stores[i].name) = i, MayConnect(config.stores[i]),
               ~MayFail(config.stores[i])
        PROVE  /\ config.stores[i].name \in DOMAIN queue
               /\ Len(queue[config.stores[i].name]) = PoolOf(config.stores[i])
    <3>1. i \in 1..entry - 1 /\ i < entry
      BY <1>1, <2>2 DEF PoolsInv, NamesAreTaken, Inv, TypeOK, IsConfig
    <3>2. config.stores[i].name \in named
      BY <1>1, <2>2, <3>1 DEF PoolsInv, NamesAreTaken
    <3>3. PICK j \in DOMAIN config.stores :
            IsSource(j) /\ config.stores[j].name = config.stores[i].name
      BY <1>1, <3>2 DEF PoolsInv, NamesAreTaken
    <3>4. j = i
      BY <1>1, <2>2, <3>3, SourceOfName DEF Inv
    <3>5. Queued(config.stores[i].name) = PoolOf(config.stores[i])
      BY <1>1, <2>2, <3>1, <3>3, <3>4 DEF PoolsInv, EntriesFollowed, AlwaysConnects
    <3>6. PoolOf(config.stores[i]) > 0
      BY <2>2 DEF Usable
    <3>7. QED
      BY <3>5, <3>6 DEF Queued
  <2>3. QED
    BY <2>1, <2>2 DEF PoolsFollowConfiguration
<1>2. QED
  BY <1>1, StartUpInvariance, PoolsInvariance, PTL

\* For any configuration start-up stops short of serving only when the first usable
\* entry of some name is a malformed redis one with a password, the value of an alias
\* is missing, or the number of threads is none or no int; and with either of the
\* first two it never serves.
THEOREM StartUpServes == Spec => []ServesUnlessBroken
<1>1. ASSUME Inv, PoolsInv
      PROVE  ServesUnlessBroken
  <2> DEFINE badStore == \E i \in DOMAIN config.stores :
                           LET e == config.stores[i]
                           IN  Usable(e) /\ Source(e.name) = i /\ ThroughNull(e)
  <2>1. ASSUME pc = "undefined"
        PROVE  badStore \/ AliasIsBad
    <3>1. CASE entry \in DOMAIN config.stores
      <4>1. IsSource(entry) /\ ThroughNull(Entry)
        BY <1>1, <2>1, <3>1 DEF PoolsInv, NamesAreTaken, UnderWay, EndIsReasoned
      <4>2. Source(config.stores[entry].name) = entry
        BY <1>1, <4>1, SourceOfName DEF Inv
      <4>3. QED
        BY <4>1, <4>2 DEF IsSource, Entry
    <3>2. CASE entry \notin DOMAIN config.stores
      BY <1>1, <2>1, <3>2 DEF PoolsInv, EndIsReasoned
    <3>3. QED
      BY <3>1, <3>2
  <2>2. ASSUME pc \in {"serving", "terminated"}
        PROVE  ~badStore
    <3>1. SUFFICES ASSUME NEW i \in DOMAIN config.stores, Usable(config.stores[i]),
                          Source(config.stores[i].name) = i,
                          ThroughNull(config.stores[i])
                   PROVE  FALSE
      OBVIOUS
    <3>2. i < entry /\ i \in 1..entry - 1
      BY <1>1, <2>2 DEF PoolsInv, NamesAreTaken, Inv, TypeOK, IsConfig
    <3>3. PICK j \in DOMAIN config.stores :
            IsSource(j) /\ config.stores[j].name = config.stores[i].name
      BY <1>1, <3>1, <3>2 DEF PoolsInv, NamesAreTaken
    <3>4. j = i
      BY <1>1, <3>1, <3>3, SourceOfName DEF Inv
    <3>5. QED
      BY <1>1, <3>1, <3>2, <3>3, <3>4 DEF PoolsInv, EntriesFollowed
  <2>3. /\ pc \in {"serving", "terminated"} => ~AliasIsBad
        /\ pc = "serving" => IsInt(config.threads) /\ workers > 0
        /\ pc = "terminated" => ~IsInt(config.threads)
    BY <1>1 DEF PoolsInv, EndIsReasoned
  <2>4. QED
    BY <2>1, <2>2, <2>3 DEF ServesUnlessBroken, AliasIsBad
<1>2. QED
  BY <1>1, StartUpInvariance, PoolsInvariance, PTL
=============================================================================
