------------------------------ MODULE StoreQuery ------------------------------
(***************************************************************************)
(* One request of store/query and the answer built for it.                 *)
(* execute_block_command_list walks the ids of "Execute"; each id names a  *)
(* block of the body, whose commands run one by one; the answer collects   *)
(* one key per result in "Data" and in "Errors" and is classified by       *)
(* comparing the number of commands that ran with the sizes of the two.    *)
(*                                                                         *)
(* The key of a command is the tuple <<id, index>>, that of a whole block  *)
(* is <<id>>; the code joins them with "_", so ids are taken not to        *)
(* continue each other with an underscore and an index.                    *)
(***************************************************************************)
EXTENDS Naturals, Sequences, FiniteSets

CONSTANTS
  Ids,          \* the execute ids of a body
  MaxBlocks,    \* bound of the length of "Execute"
  MaxCommands   \* bound of the length of "Command"

ASSUME BoundsAssumption == MaxBlocks \in Nat /\ MaxCommands \in Nat

\* What the body holds under an id: no object, a block whose store name is
\* neither a store nor an alias, or one that runs in a transaction of its own
\* (an SQL store, no TransactionId), in the client's transaction
\* (a TransactionId), or without one (mongo and redis).
Bodies ==
  [kind : {"no_object", "unknown_store", "sql_local", "sql_in_transaction", "not_sql"},
   commands : 0..MaxCommands]

Executes == UNION {[1..n -> Ids] : n \in 1..MaxBlocks}

VARIABLES
  execute,  \* json_body[ "Execute" ]
  body,     \* the blocks of json_body
  pc,       \* where the handler is
  block,    \* the position in execute
  command,  \* command_index
  size,     \* execute_list_size
  data,     \* the keys of result[ "Data" ]
  errors,   \* the keys of result[ "Errors" ]
  code,     \* result[ "Code" ], "none" for the empty string
  effects,  \* the commands <<block, index>> whose effect stands
  outcome   \* how each command ended

requestVars == <<execute, body>>
answerVars == <<size, data, errors, code>>
ghostVars == <<effects, outcome>>
vars == <<requestVars, pc, block, command, answerVars, ghostVars>>

Id == execute[block]
Body == body[Id]

Init ==
  /\ execute \in Executes /\ body \in [Ids -> Bodies]
  /\ pc = "open" /\ block = 1 /\ command = 0
  /\ size = 0 /\ data = {} /\ errors = {} /\ code = "none"
  /\ effects = {} /\ outcome = {}

\* The next request starts from a result, counters and maps of its own.
Receive ==
  /\ pc = "done"
  /\ execute' \in Executes /\ body' \in [Ids -> Bodies]
  /\ pc' = "open" /\ block' = 1 /\ command' = 0
  /\ size' = 0 /\ data' = {} /\ errors' = {} /\ code' = "none"
  /\ effects' = {} /\ outcome' = {}

-----------------------------------------------------------------------------
NextBlock ==
  /\ block' = block + 1
  /\ pc' = IF block = Len(execute) THEN "classify" ELSE "open"

\* A block without a store or without commands fails, and so does one for which
\* there is no connection, no transaction or only one that is not active.
BlockFails ==
  /\ pc = "open"
  /\ errors' = errors \cup {<<Id>>}
  /\ NextBlock
  /\ UNCHANGED <<requestVars, command, size, data, code, ghostVars>>

\* check_autorization does not answer 1: the loop over the blocks is left.
BlockRefused ==
  /\ pc = "open"
  /\ Body.kind \notin {"no_object", "unknown_store"}
  /\ code' = "UNAUTHORIZED"
  /\ pc' = "done"
  /\ UNCHANGED <<requestVars, block, command, size, data, errors, ghostVars>>

Runnable ==
  Body.kind \notin {"no_object", "unknown_store"} /\ Body.commands > 0

\* begin() of the block's own transaction throws.
BlockThrows ==
  /\ pc = "open"
  /\ Runnable /\ Body.kind = "sql_local"
  /\ code' = "EXCEPTION"
  /\ pc' = "done"
  /\ UNCHANGED <<requestVars, block, command, size, data, errors, ghostVars>>

BlockRuns ==
  /\ pc = "open"
  /\ Runnable
  /\ command' = 0
  /\ pc' = "commands"
  /\ UNCHANGED <<requestVars, block, answerVars, ghostVars>>

-----------------------------------------------------------------------------
(* The loops of execute_sql_query, execute_mongodb_query and                *)
(* execute_redis_query.                                                     *)

\* Mutant: the index is advanced before the error is recorded.
NextErrorKey(id, index) == <<id, index + 1>>

ErrorKey(id, index) == <<id, index>>

Ended(how) ==
  /\ pc = "commands" /\ command < Body.commands
  /\ outcome' = outcome \cup {[block |-> block, index |-> command, how |-> how]}
  /\ size' = size + 1
  /\ command' = command + 1
  /\ UNCHANGED <<requestVars, pc, block, code>>

CommandSucceeds ==
  /\ Ended("ok")
  /\ data' = data \cup {<<Id, command>>}
  /\ effects' = effects \cup {<<block, command>>}
  /\ UNCHANGED errors

\* Denied, empty, or an exception, which may come after the statement ran: the
\* last insert id and the result document are built from it.
CommandFails ==
  /\ Ended("error")
  /\ errors' = errors \cup {ErrorKey(Id, command)}
  /\ effects' \in {effects, effects \cup {<<block, command>>}}
  /\ UNCHANGED data

\* A store that is not SQL ignores a command kind, or a reply, it does not know.
CommandIgnored ==
  /\ Ended("ignored")
  /\ Body.kind = "not_sql"
  /\ UNCHANGED <<data, errors, effects>>

CommandsDone ==
  /\ pc = "commands" /\ command = Body.commands
  /\ IF Body.kind = "sql_local"
     THEN pc' = "commit" /\ UNCHANGED block
     ELSE NextBlock
  /\ UNCHANGED <<requestVars, command, answerVars, ghostVars>>

Commits ==
  /\ pc = "commit"
  /\ NextBlock
  /\ UNCHANGED <<requestVars, command, answerVars, ghostVars>>

Undone == {e \in effects : e[1] = block}

\* Mutant: the transaction is rolled back and no error is added.
CommitFailsSilently ==
  /\ pc = "commit"
  /\ effects' = effects \ Undone
  /\ NextBlock
  /\ UNCHANGED <<requestVars, command, answerVars, outcome>>

\* The catch block adds the error of the block and rolls back what ran; when
\* rollback() throws too, the handler's own catch answers.
CommitFails ==
  /\ pc = "commit"
  /\ errors' = errors \cup {<<Id>>}
  /\ \/ /\ effects' = effects \ Undone
        /\ NextBlock
        /\ UNCHANGED code
     \/ /\ effects' \in {effects, effects \ Undone}
        /\ code' = "EXCEPTION"
        /\ pc' = "done"
        /\ UNCHANGED block
  /\ UNCHANGED <<requestVars, command, size, data, outcome>>

-----------------------------------------------------------------------------
\* Mutant: the code is picked by which of the two sections is empty.
ByEmptySections ==
  IF errors = {} THEN "SUCCESS_FOR_ALL_COMMANDS"
  ELSE IF data = {} THEN "ERROR_ALL_COMMANDS_HAS_FAILED"
  ELSE "WARNING_NOT_ALL_COMMANDS_HAS_SUCCEEDED"

Classification ==
  IF size = Cardinality(errors) THEN "ERROR_ALL_COMMANDS_HAS_FAILED"
  ELSE IF size = Cardinality(data) THEN "SUCCESS_FOR_ALL_COMMANDS"
  ELSE "WARNING_NOT_ALL_COMMANDS_HAS_SUCCEEDED"

Classify ==
  /\ pc = "classify"
  /\ code' = Classification
  /\ pc' = "done"
  /\ UNCHANGED <<requestVars, block, command, size, data, errors, ghostVars>>

Next ==
  \/ Receive
  \/ BlockFails \/ BlockRefused \/ BlockThrows \/ BlockRuns
  \/ CommandSucceeds \/ CommandFails \/ CommandIgnored \/ CommandsDone
  \/ Commits \/ CommitFails
  \/ Classify

Spec == Init /\ [][Next]_vars

-----------------------------------------------------------------------------
(* Properties.                                                              *)

Keys ==
  {<<id>> : id \in Ids} \cup {<<id, i>> : id \in Ids, i \in 0..(MaxCommands - 1)}

Positions == 1..MaxBlocks

Codes ==
  {"none", "UNAUTHORIZED", "EXCEPTION", "ERROR_ALL_COMMANDS_HAS_FAILED",
   "SUCCESS_FOR_ALL_COMMANDS", "WARNING_NOT_ALL_COMMANDS_HAS_SUCCEEDED"}

TypeOK ==
  /\ execute \in Executes
  /\ body \in [Ids -> Bodies]
  /\ pc \in {"open", "commands", "commit", "classify", "done"}
  /\ block \in 1..(Len(execute) + 1)
  /\ pc \in {"open", "commands", "commit"} => block \in 1..Len(execute)
  /\ command \in 0..MaxCommands
  /\ pc = "commands" => command <= Body.commands
  /\ size \in Nat
  /\ data \subseteq Keys
  /\ errors \subseteq Keys
  /\ code \in Codes
  /\ effects \subseteq Positions \X (0..(MaxCommands - 1))
  /\ outcome \subseteq [block : Positions, index : 0..(MaxCommands - 1),
                        how : {"ok", "error", "ignored"}]

\* The answer of store/query tells the truth about effects at every moment, and
\* so on whatever path the handler is left: a command whose effect stands has a
\* key in Data or in Errors, and a key in Data is that of a command whose effect
\* stands unless Errors disowns the whole block after its rollback.
AnswerMatchesEffects ==
  /\ \A e \in effects : <<execute[e[1]], e[2]>> \in data \cup errors
  /\ \A id \in Ids : \A i \in 0..(MaxCommands - 1) :
       <<id, i>> \in data =>
         \/ <<id>> \in errors
         \/ \E b \in 1..Len(execute) : execute[b] = id /\ <<b, i>> \in effects

Distinct == \A i, j \in 1..Len(execute) : execute[i] = execute[j] => i = j

NoBlockFailed == \A id \in Ids : <<id>> \notin errors

Classified == pc = "done" /\ code \notin {"UNAUTHORIZED", "EXCEPTION"}

\* With distinct ids, and every block run to its end, the code that
\* execute_block_command_list picks by comparing three sizes is exact: success
\* when all commands succeeded, failure when all failed, a warning otherwise.
ClassificationIsRight ==
  Classified /\ Distinct /\ NoBlockFailed =>
    /\ code = "SUCCESS_FOR_ALL_COMMANDS" <=> \A o \in outcome : o.how = "ok"
    /\ code = "ERROR_ALL_COMMANDS_HAS_FAILED" <=> \A o \in outcome : o.how = "error"

\* "All query success": the success code means that nothing failed.
SuccessMeansNoError ==
  pc = "done" /\ code = "SUCCESS_FOR_ALL_COMMANDS" => errors = {}
=============================================================================
