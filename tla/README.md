# TLA+ models of the data gateway

The program under `application/` is an HTTP gateway to databases. Clients send
JSON requests with SQL, MongoDB or Redis commands; worker threads run them on
pooled connections, alone or inside a transaction that spans several requests.
This directory models the parts that decide whether that is correct, checks
them with TLC on small instances and proves the most important facts with TLAPS
for all instances. File names below are relative to
`src/application/src/modules`.

## 1. Inventory

| part | state | operations | talks to |
|---|---|---|---|
| `common/StoreConnectionManager` | per store a FIFO of idle connections; `borrowed_` flags; id -> transaction; id -> connection; authorization -> vector of ids; aliases; one static mutex around every method | lease, return, register, unregister, look up, count, resolve a name | called by every handler |
| `handler/HandlerStoreTransactionBegin, Commit, Rollback` | none of their own; per-connection mutex | begin, commit, rollback by transaction id | manager, SOCI session, `Security` |
| `handler/HandlerStoreQuery` | the response under construction | loop over blocks, loop over commands, own transaction per block, classification | manager, SOCI/mongo/redis, `Security` |
| `handler/Security` | the `tokens` part of the global configuration | `check_autorization` (token cache with refresh), `check_command_to_store_is_authorizated` (rules) | HTTP peers, often this same server |
| row mapping (in `HandlerStoreQuery`) | the rows, a map from keys to pointers into JSON trees | folds joined rows into nested documents, prefix by prefix | - |
| start-up (`main_01.cpp`, `common/Common`, `init_stores_connections`) | configuration, pools, aliases | read configuration, open connections, start workers | manager |
| `common/StoreConnection` | name, index, `borrowed_`, mutex, one of three connections | getters | manager, handlers |
| `common/Response`, `common/Common` | none | format responses, configuration access | all |
| `handler/handler.cpp`, routes in `main_01.cpp` | none | static files, upload, demonstration routes | HTTP library |

### What is hard

* Handlers hold no lock across manager calls. `begin` registers a transaction in
  three steps; `commit` looks it up in two and unregisters it in three. Two
  requests on one transaction id interleave between any two of these.
* A session is guarded by the mutex of its connection, but `begin()` runs without
  it, `is_active()` is read before it is taken, and `commit` and `rollback` take
  it only if they found a connection.
* `commit`/`rollback` use explicit `lock()`/`unlock()` with a `catch (...)`; every
  path has to release, and the connection is returned to its pool before the
  unlock.
* Session calls throw: what stays registered, leased or open then?
* The registry of open transactions per authorization drives a limit.
* One request has many blocks, each with its own transaction and partial
  failures; the response is classified by comparing three sizes.
* The token cache is shared by all workers without a lock, and authorization may
  be fetched from the server's own workers; the verdict on a command is fetched
  under the mutex of the connection.
* The row mapping keeps raw pointers to elements of arrays that grow.
* Start-up narrows numbers of the configuration to a byte, skips entries, and
  must leave sound pools whichever databases answer.

### What correctness means, part by part

* manager: no connection is lost, queued twice or handed out twice;
* handlers: one user per connection, no work committed by someone else, nothing
  leased and forgotten, mutexes released, every request answered;
* query: the answer tells which commands took effect;
* rules: the first verdict in the order list, deny, allow, default;
* token cache: a lookup sees one consistent token; a refresh is not lost;
* row mapping: the answer is the forest the rows describe, and when it is not;
* start-up: the pools are those of the configuration, and it comes to an end.

The hazards at their lines are in `PROJECT.json`.

## 2. Modules

| module | models |
|---|---|
| `ConnectionPool` | abstract: a set of idle connections, lease and return |
| `StoreConnectionManager` | every state-changing method of the manager, one atomic action each, because each holds `mutex_` for its whole body; the most general caller |
| `StoreConnectionManagerProofs` | theorems of the manager and its refinement of `ConnectionPool` |
| `ExclusiveSessions` | abstract: a session serves one owner, who alone works in it and ends it |
| `TransactionHandlers` | begin, commit, rollback and query of one block, run by `Workers`; composes with the manager by using its operators on the same variables |
| `TransactionProperties` | what is required of them, and the mapping to `ExclusiveSessions` |
| `TransactionProofs` | theorems of the handlers under any clients |
| `SessionProofs` | theorems of the handlers with one request at a time per id, and their refinement of `ExclusiveSessions` |
| `StoreQuery`, `StoreQueryProofs` | one request of `store/query`: blocks, commands, keys of the answer, classification |
| `CommandRules`, `CommandRulesProofs` | the search for the rule that decides about a command |
| `TokenCache`, `TokenCacheProofs` | `check_autorization`: lookup, expiry, fetch and removal of tokens by workers that share them without a lock; the fetch may be answered by a thread of this server |
| `RowMapping`, `RowMappingProofs` | the rows of one `SELECT` become documents; a reference definition of the forest they describe |
| `StartUp`, `StartUpProofs` | `main()` from the configuration to the worker threads: pools, aliases, number of threads |
| `MC...` | the constants of the small instances |

Most modules also hold a few operators marked *Mutant*: the same operation with
a plausible mistake. No specification uses them. Each names a mistake that the
property it is paired with in `PROJECT.json` catches, which shows that the
property depends on the code it is about.

### Manager

`queue` and `borrowed` are `map_name_to_queue_store_connection_` and the flags;
`transactionOf`, `connectionOf` and `activeIds` are the three registries. A
SOCI session has exactly one transaction object, so a transaction is identified
with its connection. `ManagerInit` is the state after start-up with the
connections that came up. Read-only methods are operators.

### Handlers

A worker's `pc` names the call it makes next. Every manager call, session call
and lock or unlock is a step of its own; local computation belongs to the step
before. `conn` and `txn` are the local pointers and may be stale. `open` and
`pending` describe the session: whether it is in a transaction and whose
uncommitted commands that holds. `leaked` records connections that an error path
drops; it is bookkeeping and no guard reads it. `reply` is the code of the
response, with all refusals before the first state change folded into
`REFUSED`. The outcome of `check_autorization` is a free choice.

`peer` composes the handlers with the requests of the server to itself. At a
check named in `FetchAt` a worker may send a request to this same server; its
connection goes to any worker, perhaps the asking one, and is answered when that
worker is idle. The next step of the asking handler ends the wait, with the answer
or with the timeout of the HTTP client, so any step of the handler may follow at
any time; only fairness tells an answer from a timeout. Tokens are checked before
a mutex is taken (`begin_admit`, `end_admit`, `query_admit`), commands under it
(`query_execute`).

The session is not in this repository. Its model follows from the use the code
makes of it and from the transcript of SOCI's behaviour kept as a comment in
`main_01.cpp`: `begin()` answers the one transaction and starts it unless
active, `commit()` and `rollback()` end it. `Faults` says which calls may throw;
a throwing commit leaves the transaction active (`"commit"`) or over
(`"commit_ends"`). Commands outside a transaction leave nothing pending, and
commands may fail one by one.

Two instances of the client differ by `Serialized`. TRUE is the discipline of
the request collection in `postman/`: a client owns its transaction id and sends
one request on it at a time. FALSE lets anybody send anything at any time.

### Query answer

`StoreQuery` follows `execute_block_command_list` and the command loops for one
request after another. A key is the tuple of the execute id and the index; ids
are assumed not to imitate the concatenation `id_index`. Requests carry the
fields the handler reads, with the types it expects. `effects` and `outcome` are
bookkeeping. A command that fails may leave an effect, because the code after
`st.execute` can throw. Rows and their mapping are one key of `Data`. The
entries that the outermost catch adds to `Errors` are left out: that answer is
not classified.

### Row mapping

`RowMapping` takes one command after its `SELECT`: `table` is `data_list`, `map`
what the map of the command says (`__KEY__`, `__PARENT_KEY__`, `__PARENT_FIELD__`
of every prefix, in the order of the columns). `docs` are the documents in the
order in which they are added, `found` is `map_key_to_json_object`. The code keeps
a pointer to each document; `Moved` says when the array that holds it has been
reallocated since, for arrays whose capacity doubles. Writing through a null or a
dangling pointer is undefined behaviour and ends the run in `"undefined"`; `"done"`
and `"error"` are `CommandSucceeds` and `CommandFails` of `StoreQuery`.

A key is the tuple of its column values; the code joins them with `;`, so the
model is of values that are not empty and hold no `;`. Roots leave the code in
the order of their keys: an `ORDER BY` of the roots is lost, which is why
`AnswerIsTheForest` speaks of the order in which documents are added and not of
the answer's. A value that is no string, such as a number, is no key value.

### Start-up

One thread runs `main()`, but whether a MySQL peer answers is free at every
attempt. `queue` is what `ManagerInit` starts from: there the connections of a
store are numbered without gaps, here a connection that failed leaves a gap,
which nobody reads. Entries are objects with the fields `make_store_connection`
reads. Two things a reader may not expect are in the code: a Redis connection that
could not be authenticated is pooled all the same, because the exception is
caught after the result is set; and a password that is missing from the file is
read as a text that is not blank.

Two calls outside of the pools can end it badly. The warning about an alias whose
value is blank or no string has a `%s` without an argument (`StoreConnectionManager.cpp`,
line 168), and the logger takes the line number that follows for a text: undefined
behaviour, `MisformatWarning`. `std::stoi` throws when the number of threads is
missing or does not fit an `int`, and nothing catches it: `Terminate`. A file whose
`base_path` is blank, which makes `main()` read the byte before the first one of an
empty string, is not modelled: every file here has one.

### Command rules

A call concerns one command and tries each rule at most once, so a rule is what
it says of that command. The three kinds of rule are kept because each has its
own values; the peer of `fetch_command_authorized` answers freely.

### Token cache

`tokens` holds for each authorization what the code tells apart: no key, a key
that is no object, an entry without `last_check`, with the peer's own one, or
stamped by the gateway. `config` has the two settings that matter and whether
there is an entry `"*"`, all of them, and `now`, free. Each test, the answer of
the peer, the replacement of an entry and its stamp are steps of their own, so
other workers get in between; a single test of one entry is one step. Accesses
to the map are atomic in the model: what a data race could do to the nodes of
the map itself is not modelled, but a pointer into a replaced or erased entry
dangles. `Exclusive` names the tokens whose clients have one request under way;
nothing is claimed of the pointers of the others. An answer that is no JSON leaves
the entry as it was, because the parser throws before the assignment. A client
whose authorization is the text `*` would work on the default entry, and could
replace or erase it while others use its rules; `Authorizations` leaves that one
out. Since the local clock may be
set back, any reading may follow any other.

The call of `axios` waits for its answer. If the peer is this server, the
connection goes to any of its threads, which answers when it is idle; the
waiting thread itself may get it. `check_autorization` never sets -1, the code
for an exception that its callers test: after an exception the result is what
the caller passed.

## 3. What the runs show

| run | instance | shows |
|---|---|---|
| `faulty` | 2 workers, 2 connections, 2 ids, an alias, all faults, serialized | one user per connection, registrations agree between requests, commits end only own work, a begun transaction is ready, every lease accounted for, idle connections clean; nobody charged against the limit for a transaction that is over; refinement of `ExclusiveSessions` and `ConnectionPool` |
| `answered` | 2 workers, an SQL and a NoSQL store, one id, a limit of one, all faults, tokens fetched from this server, serialized, fair | the same accounting with the NoSQL leak; `SessionInv`, the invariant behind the theorems on sessions; every request is answered, circles of fetching workers excepted |
| `uncoordinated` | 2 workers, 1 connection, 1 id, not serialized, all faults, commands checked by this server, fair | pool and mutex discipline survive every race; `HandlersInv`; every mutex taken is released, circles excepted |
| `query_answer` | 2 ids, up to 2 blocks (also the same one twice) of up to 2 commands | answer and effects agree; exact classification when no block fails as a whole |
| `row_mapping` | 5 prefixes, 4 maps, all tables of up to 3 rows over 4 sets of rows, chains of 5 rows | which tables lose a parent or fail, and that every other answer is the forest of its rows |
| `startup` | files with up to 2 stores, pools within and beyond a byte of 4 values, 4 kinds of driver, aliases with and without a value, numbers of threads in and out of an int | pools and aliases are sound and those of the file; start-up ends, by serving unless the file has one of three faults |
| `token_cache` | 2 workers, an exclusive and a shared token, every configuration, fair | rules in use are not freed, no stale entry is served, only circles of fetching threads hang |
| `command_rules` | 5 kinds of rule, up to 2 per section | loops equal the declarative answer; a rule that throws never helps a command |

Four runs show the code contradicting its own messages or comments; each has one
property and one finding:

* `shared_connection`: a commit that arrives between two registrations of
  `begin` works in the session without its mutex.
* `active_limit`: the limit of open transactions stops counting after the first
  transaction of an authorization.
* `commit_answer`: a commit that throws is answered with success.
* `success_code`: a request without a single command that ran is a success.

The last one has two neighbours with the same cause, the comparison of commands
with keys: a block that fails as a whole next to a command that succeeds gives
the all-failed code (1 = 1), and a mongo command of an unknown kind, or an id
listed twice, gives a warning with empty `Errors`. `ClassificationIsRight` states
the requests for which the code is exact.

Three passing runs describe limits of the code rather than promises it makes.
`LocksAreReleased` holds but for a circle: a query asks this server about a command
while it holds its mutex, and the worker that should answer waits for that mutex;
then only the timeout of the HTTP client helps. `OutcomeFollowsRows` says exactly
which rows make the row mapping use a pointer to a moved document: those that come
back to a document, with a new child for it, after its array has outgrown its
capacity. `SortedRowsAreSafe` is the practical side: a query that is sorted by the
keys of its documents, selects parents before children and gives each prefix an
array of its own loses a parent only to rows that come back to a document. And
`ServesUnlessBroken` names the faults of the file's stores, aliases and threads that
stop the server: a malformed Redis address with a password, an alias without a
value, and a number of threads that is missing or does not fit an `int`.

`CountedIsOpen` and the finding of `active_limit` are the two directions of one
count. An id that is counted is that of an open transaction of its client, so the
limit never refuses a client on account of transactions that are over; the
converse, that an open transaction is counted, is what the code gets wrong. Its
run has one authorization, so that it shows the first half; the theorem
`CountedAreOpen` has any number.

### Bounds and why they suffice

* Handlers: races in this code are between two requests on a connection, with a
  third one to lease what they return: two connections, and two workers, of which
  the one that has answered serves as the third. One id is enough for
  unserialized races, which are between requests on the same id. Their run has one
  connection; two begins of one id that both lease need two, and for them
  `HandlersInv` is proved. Two workers close every kind of circle: a worker that
  asks itself, two that ask each other, and one that asks the one that waits for
  its mutex.
  `faulty` takes workers, and ids of one client, as interchangeable (`Alike`): nothing
  in the code or the properties tells them apart, and the run has no liveness.
  `answered` has one id: a commit or rollback of it still holds the mutex of the
  connection that a query without an id has just leased, which is the wait that
  matters there.
* Manager: it is checked under the calls that the handlers make. Its most general
  caller, with any arguments, stores and authorizations, is left to the proofs.
* Query: a block before and a block after, a command that fails and one that
  does not; the same id twice for colliding keys.
* Token cache: two workers make a thread that waits for itself and one that waits
  for it; a time to live of one minute of two ticks and readings three ticks apart
  give ages of zero, one minute and a rest, and a clock set back.
* Row mapping: an array moves when its second, third and fifth element are added,
  so three rows move one and come back, and five rows with four documents reach the
  second growth, with documents that move and others that do not. Values shared by
  prefixes and values of their own, two branches with one array and with two, a
  child selected before its parent, and rows without a key are all there.
* Start-up: two entries have the same name or not, in both orders; a byte of two
  bits has all its cases within a pool of six: none, in range, exactly the width
  (256), beyond it, negative.
  An int of four bits (`LargestInt`) is tried at and beyond both of its ends, and the
  default of four threads fits it.
* Rules: a rule that is passed over before one that decides, in every section.

Ids, connections and workers are finite because the properties never depend on
how many there are; the theorems below confirm it for those that are proved.

### Fairness

`FairSpec` asks that a worker which can take a step of its handler eventually
takes one: threads are scheduled. Nothing is assumed about arrival of requests
or about which waiting worker gets a mutex, so `RequestsAreAnswered` would fail if
a worker could be overtaken for ever; it holds in its instance because
serialized requests never wait for each other's mutex without end. It is not
claimed for unserialized clients. A fetch is answered when its peer is idle again
and again (strong fairness: the event loop of an idle worker polls its
connections, and between two requests it is idle); that a fetch times out is
possible at any time and never relied on.

`StartUp` asks only that the thread of `main()` goes on.

In `TokenCache` a thread of this server that is idle again and again serves a
waiting connection eventually (its event loop polls all of them), and another
program answers or is given up. Timeouts of fetches within the server happen but
are not relied on: `OnlyCirclesHang` says when an answer needs none.

`CommandRules`, `RowMapping` and `StartUp` describe one call, so their runs may end;
all other runs check for deadlock.

## 4. What is proved

For every value of the constants that meets the named assumptions
(`PoolAssumption`, `AliasAssumption`, `NoneAssumption`, `HandlerAssumption`,
`BoundsAssumption`, `RulesAssumption`, `TokenAssumption`, `InputAssumption`,
`ConfigAssumption`):

* **Manager.** `ManagerInv` = types, pool integrity and bounded count, is
  inductive. Pool integrity needs its three parts together: a return may append
  because a borrowed connection is in no queue, and a lease may take the head
  because it is there only once. From it: `ManagerTypeCorrect`, `PoolIsSound`
  and the refinement `PoolRefinement`. The bound on the count, at most one id per
  authorization, is an effect of the finding of `active_limit`; it is kept in the
  invariant because erasing the first occurrence of an id from a vector then erases
  the id, which `CountedAreOpen` needs.
* **Handlers.** `HandlersInv` adds to the manager's invariant the types of the
  handlers, `ControlInv` (at each label the worker has looked up what it is about
  to use) and `LockDiscipline`. Types alone are not inductive: a step that locks
  `conn[w]` needs to know that it is a connection. Every step of a handler is a
  step of the manager or leaves it alone, which gives `HandlersCallManager` and,
  with `PoolIsSound`, `HandlersKeepPool`, without going through the handlers'
  cases again. The fetches of the server from itself change nothing but `peer`, and
  `NextIsStep` keeps them out of every other proof. Also
  `HandlersTypeCorrect`, `LocksAreDisciplined`,
  `MutualExclusion`. These need no client discipline.
* **Sessions.** With one request at a time per id (`Serialized`, the hypothesis of
  every theorem in `SessionProofs`; their proofs also use `LostAssumption`, a name
  for the owner of dropped connections) `SessionInv` is inductive on top of
  `HandlersInv`. It says who holds a connection (`Holds`: the id it is registered
  with, or the worker that must register or return it), that every leased
  connection which was not dropped has exactly one holder (`Accounting`), that its
  session has that holder's commands (`SessionsOfOwners`), and what each worker
  knows at its place of its request, its lookups, the registries and its session
  (`Phases`). Single properties are not inductive: a worker that works through an id
  must know that the registries still lead where it looked them up, which holds
  because no other request has its id, and a lease is exclusive only because
  idle connections have no holder. The proof is in two layers. Each
  action is shown to be one of eight ways to treat a connection (`SessionStep`: take,
  waste, open, work, end, return, drop, rest); what a step does to owners, sessions
  and other workers is then argued for the eight ways and not for the actions. From
  it: `OneUser`, `LeasesAreAccounted`, `IdleAreClean`, `RegistrationsMatch`,
  `EndsOwnWork`, `BegunIsReady`, `CountedAreOpen` (with `ClientsOwn`: a request on an id
  has its client's authorization), and `HandlersImplementSessions`: each way is an
  action of `ExclusiveSessions` under the mapping `OwnerOf`, or a stutter. That
  says more than the properties: a session is opened, worked in and ended in steps
  of its owner only. Without `Serialized` these facts are false, as the hazards at their
  lines say.
* **Query.** `QueryTypeCorrect`, and from it `AnswersAreTrue`: the agreement of
  answer and effects is preserved by every step, for any number of blocks and
  commands. `CodesAreRight` counts: a key is new when its command ends, because all
  keys are of commands already past (`KeysArePast`) and ids differ, so each section
  grows by one exactly with the commands that end that way (`SizesTell`).
* **Rules.** The loop invariant says that all earlier sections and all earlier
  rules of this section are undecided. It yields `FirstVerdictWins` and
  `ErrorsNeverAuthorize` for sections of any length: in an authorized search every
  rule that throws lies behind the one that decided.
* **Token cache.** `RulesAreAlive` and `TokensAreCurrent` rest on one invariant: no
  two requests on an exclusive token, pointers only at the last label, and what a
  check knows of its entry at each label (`KnownEntry`): while it waits the entry
  is missing or stamped, when it looks up the rules the entry is current.
  `OthersUntouched` shows that no step of another worker changes that, and
  `YoungIsCurrent` that cutting the age to minutes is the same as comparing it
  with the time to live in ticks.

* **Row mapping.** `RowMappingTypeCorrect` and `MappingBuildsForest`: for any map and
  any rows, sorted or not, every child is below an earlier document, only roots
  are below none, and no key is recorded twice. A document is appended only when
  its key is not in `found`, and the invariant adds that the keys of `docs` are all
  in `found`, each leading to a document of that key.

  `OutcomeIsThatOfRows`, `AnswerIsForestOfRows` and `SortedRowsKeepParents` compare
  the loops with a definition that looks at all rows at once. Their invariant is
  `WalkInv`: the cells behind the loops are those before the one they are at
  (`Past`, `Here`), every key they name is found, the documents are those of the
  first cells among them, in the same order, and none of these cells is without a
  parent. The step that needs an argument is the pointer: `Moved` counts documents
  in an array, the definition counts cells (`MovesBetween`), and `CountByCells` turns one
  count into the other by a bijection between the siblings of a document and the
  first cells of its array. `NewIsFirst` and `ParentIsFound` say that the tests of
  the code and the definition then agree at every cell.
* **Start-up.** `StartUpTypeCorrect` and `StartUpEstablishesPools`: for any file, any
  width of the counters and any peers. The invariant adds
  that the queue of the current entry holds only smaller indices than the next one;
  at the start of an entry that is so because its name had none, which is where
  the check for a name that comes twice is needed. `PoolsAreConfigured` and
  `StartUpServes`, for any size of an `int` too, rest on `PoolsInv`: the names taken are those of the first usable
  entries so far, the queue of the current one has as many connections as attempts
  if none can fail, and no entry behind it was one that stops the server.

`WalkInv`, `PoolsInv` and `AnswerInv` are defined next to their proofs and are not among
the properties of the runs.

### Only model-checked

Every invariant that a passing run checks and both refinements are theorems. Liveness (`RequestsAreAnswered`, `LocksAreReleased`,
`OnlyCirclesHang`, `StartUpEnds`) rests on fairness, which the prover does not handle,
and stays with TLC.

### Not modelled

Drivers, network, formatting, logging, file routes and vendored libraries. The
conversion of SQL types to JSON (`TableType` has its result: a string, or
something that is no key). The width of `max_active_transactions`: the limit is a
constant of the handlers. The routes of `handler/handler.cpp` are demonstrations of the
HTTP library and keep no state.

## 5. Plan

Done, in this order: manager and abstract pool; handlers and exclusive sessions;
query answer; command rules; token cache; the server's requests to itself, with
the handlers and their mutexes; row mapping; start-up.

Next:

1. `StoreQuery` composed with the handlers: several blocks of one request on the
   shared pool, and what the theorems on sessions say of it.
2. Tokens that several requests use at once: what a check may answer when the
   entry changes between its steps.
