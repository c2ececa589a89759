--------------------------------- MODULE StartUp ---------------------------------
(***************************************************************************)
(* main() up to http_server_run: init_stores makes the connections of the  *)
(* configured stores (init_stores_connections, make_store_connection) and  *)
(* the aliases (init_stores_connections_alias); then the number of worker  *)
(* threads is read.  One thread runs all of this, but the stores it        *)
(* connects to may be up or down at each attempt.                          *)
(***************************************************************************)
EXTENDS Integers, Sequences, FiniteSets

CONSTANTS
  Names,     \* names of stores and of aliases that are not blank
  None,      \* a blank name, a value of another JSON type, a missing section
  Width,     \* how many values u_int8_t has: 256
  MaxInt,    \* the largest int
  Configs    \* the main.json files considered

\* The drivers that connect at once, that connect when first used, and those
\* whose session is never made: sql/empty, postgresql, firebird, sqlite3, odbc
\* and names that are no driver.
Drivers == {"sql/mysql", "no_sql/mongo_db", "no_sql/redis", "other"}

\* wellFormed: the address and the port can be parsed.  password: it is not
\* blank, which a password that is missing from the file is not either.
EntryType ==
  [name : Names \cup {None}, pool : Int \cup {None}, driver : Drivers,
   wellFormed : BOOLEAN, password : BOOLEAN]

IsConfig(c) ==
  /\ c.stores \in Seq(EntryType)
  /\ DOMAIN c.aliases \subseteq Names \cup {None}
  /\ \A a \in DOMAIN c.aliases : c.aliases[a] \in Names \cup {None}
  /\ c.threads \in Int \cup {None}

ASSUME ConfigAssumption ==
  /\ Width \in Nat \ {0}
  /\ MaxInt \in Nat
  /\ None \notin Names \cup Int
  /\ \A c \in Configs : IsConfig(c)

VARIABLES
  config,   \* Common::config_json; a missing array or object is an empty one
  pc,       \* where main() is
  entry,    \* the position in the array of stores
  index,    \* connection_index
  named,    \* store_name_list, as a set
  onHold,   \* vector_store_connection_on_hold_
  queue,    \* map_name_to_queue_store_connection_
  aliasOf,  \* map_store_connection_alias_name_to_real_name_
  workers   \* server.worker_threads

storeVars == <<named, onHold, queue>>
vars == <<config, pc, entry, index, storeVars, aliasOf, workers>>

ConnectionType == [store : Names, index : 0..Width - 1]

Init ==
  /\ config \in Configs
  /\ pc = "stores"
  /\ entry = 1 /\ index = 0
  /\ named = {} /\ onHold = <<>> /\ queue = <<>>
  /\ aliasOf = <<>>
  /\ workers = 0

Entry == config.stores[entry]

\* u_int8_t pool.
PoolOf(e) == IF e.pool = None THEN 0 ELSE e.pool % Width

-----------------------------------------------------------------------------
(* init_stores_connections.                                                 *)

AtEntry == pc = "stores" /\ entry \in DOMAIN config.stores

Usable(e) == e.name # None /\ PoolOf(e) > 0

\* Mutant: a name may come twice.
TakeEveryEntry == Usable(Entry)

\* An entry with a name and a pool, and the first with this name.
TakeEntry == Usable(Entry) /\ Entry.name \notin named

\* Mutant: the name is not remembered.
BeginUnnamed ==
  /\ AtEntry
  /\ TakeEntry
  /\ index' = 0
  /\ pc' = "connections"
  /\ UNCHANGED <<config, entry, storeVars, aliasOf, workers>>

BeginEntry ==
  /\ AtEntry
  /\ TakeEntry
  /\ named' = named \cup {Entry.name}
  /\ index' = 0
  /\ pc' = "connections"
  /\ UNCHANGED <<config, entry, onHold, queue, aliasOf, workers>>

SkipEntry ==
  /\ AtEntry
  /\ ~TakeEntry
  /\ entry' = entry + 1
  /\ UNCHANGED <<config, pc, index, storeVars, aliasOf, workers>>

\* What make_store_connection may answer.  Only mysql connects here; a redis
\* connection that could not be authenticated is answered all the same.
MayConnect(e) == e.driver # "other" /\ e.wellFormed

MayFail(e) == e.driver = "sql/mysql" \/ ~MayConnect(e)

\* The redis branch calls auth() through the connection it could not make.
ThroughNull(e) == e.driver = "no_sql/redis" /\ ~e.wellFormed /\ e.password

AtConnection == pc = "connections" /\ index < PoolOf(Entry)

NextConnection == index' = (index + 1) % Width

Push(s) ==
  LET c == [store |-> s, index |-> index]
  IN  /\ onHold' = Append(onHold, c)
      /\ queue' = [t \in DOMAIN queue \cup {s} |->
                     IF t # s THEN queue[t]
                     ELSE IF s \in DOMAIN queue THEN Append(queue[s], c) ELSE <<c>>]

Connect ==
  /\ AtConnection
  /\ MayConnect(Entry)
  /\ Push(Entry.name)
  /\ NextConnection
  /\ UNCHANGED <<config, pc, entry, named, aliasOf, workers>>

\* Mutant: the queue is created before the connection is known.
QueueAnyway ==
  /\ queue' = [t \in DOMAIN queue \cup {Entry.name} |->
                 IF t \in DOMAIN queue THEN queue[t] ELSE <<>>]
  /\ UNCHANGED onHold

WithoutConnection == UNCHANGED <<onHold, queue>>

\* Mutant: the connection is tried again until it is there.
RetryToConnect ==
  /\ AtConnection
  /\ MayFail(Entry) /\ ~ThroughNull(Entry)
  /\ UNCHANGED vars

FailToConnect ==
  /\ AtConnection
  /\ MayFail(Entry) /\ ~ThroughNull(Entry)
  /\ WithoutConnection
  /\ NextConnection
  /\ UNCHANGED <<config, pc, entry, named, aliasOf, workers>>

Authenticate ==
  /\ AtConnection
  /\ ThroughNull(Entry)
  /\ pc' = "undefined"
  /\ UNCHANGED <<config, entry, index, storeVars, aliasOf, workers>>

EndEntry ==
  /\ pc = "connections"
  /\ index >= PoolOf(Entry)
  /\ entry' = entry + 1
  /\ pc' = "stores"
  /\ UNCHANGED <<config, index, storeVars, aliasOf, workers>>

-----------------------------------------------------------------------------
(* init_stores_connections_alias, once the stores are through, and the threads. *)

AtAliases == pc = "stores" /\ entry \notin DOMAIN config.stores

\* The warning about the value of an alias with a name has a "%s" and no argument.
Misformats(a) == a # None /\ config.aliases[a] = None

\* An alias of a store that has a queue.
Leads(a) == a # None /\ config.aliases[a] \in DOMAIN queue

MisformatWarning ==
  /\ AtAliases
  /\ \E a \in DOMAIN config.aliases : Misformats(a)
  /\ pc' = "undefined"
  /\ UNCHANGED <<config, entry, index, storeVars, aliasOf, workers>>

InitAliases ==
  /\ AtAliases
  /\ \A a \in DOMAIN config.aliases : ~Misformats(a)
  /\ aliasOf' =
       [a \in {b \in DOMAIN config.aliases : Leads(b)} |-> config.aliases[a]]
  /\ pc' = "threads"
  /\ UNCHANGED <<config, entry, index, storeVars, workers>>

\* std::stoi has a number to answer, and one that is an int.
IsInt(n) == n # None /\ n \in -(MaxInt + 1)..MaxInt

\* Mutant: no default number of threads.
RunAsConfigured ==
  /\ pc = "threads"
  /\ IsInt(config.threads)
  /\ workers' = config.threads
  /\ pc' = "serving"
  /\ UNCHANGED <<config, entry, index, storeVars, aliasOf>>

Run ==
  /\ pc = "threads"
  /\ IsInt(config.threads)
  /\ workers' = IF config.threads > 0 THEN config.threads ELSE 4
  /\ pc' = "serving"
  /\ UNCHANGED <<config, entry, index, storeVars, aliasOf>>

\* It throws otherwise, and nothing catches that.
Terminate ==
  /\ pc = "threads"
  /\ ~IsInt(config.threads)
  /\ pc' = "terminated"
  /\ UNCHANGED <<config, entry, index, storeVars, aliasOf, workers>>

Next ==
  \/ BeginEntry \/ SkipEntry
  \/ Connect \/ FailToConnect \/ Authenticate \/ EndEntry
  \/ MisformatWarning \/ InitAliases \/ Run \/ Terminate

Spec == Init /\ [][Next]_vars

\* The thread that runs main() goes on.
FairSpec == Spec /\ WF_vars(Next)

-----------------------------------------------------------------------------
TypeOK ==
  /\ IsConfig(config)
  /\ pc \in {"stores", "connections", "threads",
             "serving", "terminated", "undefined"}
  /\ entry \in 1..Len(config.stores) + 1
  /\ pc = "connections" => entry \in DOMAIN config.stores
  /\ index \in 0..Width - 1
  /\ named \subseteq Names
  /\ onHold \in Seq(ConnectionType)
  /\ DOMAIN queue \subseteq named
  /\ \A s \in DOMAIN queue : queue[s] \in Seq(ConnectionType)
  /\ DOMAIN aliasOf \subseteq Names
  /\ workers \in Int

\* The entry that a store is made from: the first usable one of its name.
Source(s) ==
  CHOOSE i \in DOMAIN config.stores :
    /\ Usable(config.stores[i]) /\ config.stores[i].name = s
    /\ \A j \in 1..i - 1 : ~(Usable(config.stores[j]) /\ config.stores[j].name = s)

\* Every queue has a connection, all of them are of its store, in the order of
\* their index_.
QueuesAreSound ==
  \A s \in DOMAIN queue :
    /\ queue[s] # <<>>
    /\ \A i, j \in DOMAIN queue[s] :
         /\ queue[s][i].store = s
         /\ i < j => queue[s][i].index < queue[s][j].index

\* No two of the objects on hold are the same, and each is in a queue.
HeldAreQueued ==
  /\ \A i, j \in DOMAIN onHold : onHold[i] = onHold[j] => i = j
  /\ \A i \in DOMAIN onHold :
       LET c == onHold[i]
       IN  /\ c.store \in DOMAIN queue
           /\ \E k \in DOMAIN queue[c.store] : queue[c.store][k] = c

\* What StoreConnectionManager starts from: sound queues, nothing that is not in
\* one, and aliases that lead to one.
ManagerMayStart ==
  /\ QueuesAreSound
  /\ HeldAreQueued
  /\ \A a \in DOMAIN aliasOf : aliasOf[a] \in DOMAIN queue

\* The pools are those of the configuration: no connection beyond the first usable
\* entry of its name, whose pool counts modulo the width of a byte; and once the
\* stores are through, a driver that does not connect here has all of its
\* connections.
PoolsFollowConfiguration ==
  /\ \A s \in DOMAIN queue : \A i \in DOMAIN queue[s] :
       /\ MayConnect(config.stores[Source(s)])
       /\ queue[s][i].index < PoolOf(config.stores[Source(s)])
  /\ pc \in {"threads", "serving", "terminated"} =>
       \A i \in DOMAIN config.stores :
         LET e == config.stores[i]
         IN  Usable(e) /\ Source(e.name) = i /\ MayConnect(e) /\ ~MayFail(e) =>
               e.name \in DOMAIN queue /\ Len(queue[e.name]) = PoolOf(e)

\* Of what the file says of stores, aliases and threads only this keeps the server
\* from serving: a malformed redis entry with a password, where any other malformed
\* entry is left out; an alias without a value, where one without a name or of an
\* unknown store is left out; and a number of threads that is none or no int.  Stores
\* that cannot be reached do not.
ServesUnlessBroken ==
  LET badStore == \E i \in DOMAIN config.stores :
                    LET e == config.stores[i]
                    IN  Usable(e) /\ Source(e.name) = i /\ ThroughNull(e)
      badAlias == \E a \in DOMAIN config.aliases : Misformats(a)
  IN  /\ pc = "undefined" => badStore \/ badAlias
      /\ pc \in {"serving", "terminated"} => ~badStore /\ ~badAlias
      /\ pc = "serving" => IsInt(config.threads) /\ workers > 0
      /\ pc = "terminated" => ~IsInt(config.threads)

\* Start-up comes to an end, whatever the pools are.
StartUpEnds == <>(pc \in {"serving", "terminated", "undefined"})
=============================================================================
