--------------------------- MODULE StoreQueryProofs ---------------------------
(* Theorems of StoreQuery for every set of ids and every bound of the blocks  *)
(* of a request and of the commands of a block.                               *)
EXTENDS StoreQuery, FiniteSetTheorems, TLAPS

\* A position of the request names an id and its block.
LEMMA BlockFacts ==
  ASSUME TypeOK, pc \in {"open", "commands", "commit"}
  PROVE  /\ block \in 1..Len(execute) /\ block \in Positions
         /\ Len(execute) \in 1..MaxBlocks
         /\ Id \in Ids /\ Body \in Bodies
<1>1. PICK n \in 1..MaxBlocks : execute \in [1..n -> Ids]
  BY DEF TypeOK, Executes
<1>2. Len(execute) = n
  BY <1>1
<1>3. block \in 1..n
  BY <1>2 DEF TypeOK
<1>4. Id \in Ids /\ Body \in Bodies
  BY <1>1, <1>3 DEF Id, Body, TypeOK
<1> QED
  BY <1>2, <1>3, <1>4, BoundsAssumption DEF Positions

\* What the end of one command does to every variable but the answer's keys.
LEMMA CommandFacts ==
  ASSUME TypeOK, NEW how \in {"ok", "error", "ignored"}, Ended(how)
  PROVE  /\ pc = "commands" /\ block \in 1..Len(execute) /\ block \in Positions
         /\ Id \in Ids /\ command \in 0..(MaxCommands - 1)
         /\ UNCHANGED <<execute, body, pc, block, code>>
         /\ size' \in Nat /\ command' \in 0..MaxCommands
         /\ command' <= Body.commands
         /\ outcome' \subseteq [block : Positions, index : 0..(MaxCommands - 1),
                                how : {"ok", "error", "ignored"}]
<1>1. pc = "commands" /\ command < Body.commands
  BY DEF Ended
<1>2. /\ block \in 1..Len(execute) /\ block \in Positions
      /\ Id \in Ids /\ Body \in Bodies
  BY <1>1, BlockFacts
<1>3. Body.commands \in 0..MaxCommands
  BY <1>2 DEF Bodies
<1>4. command \in 0..(MaxCommands - 1)
  BY <1>1, <1>3, BoundsAssumption DEF TypeOK
<1>5. UNCHANGED <<execute, body, pc, block, code>>
  BY DEF Ended, requestVars
<1>6. size' \in Nat /\ command' \in 0..MaxCommands /\ command' <= Body.commands
  BY <1>1, <1>3, <1>4, BoundsAssumption DEF Ended, TypeOK
<1>7. outcome' \subseteq [block : Positions, index : 0..(MaxCommands - 1),
                          how : {"ok", "error", "ignored"}]
  BY <1>2, <1>4 DEF Ended, TypeOK
<1> QED
  BY <1>1, <1>2, <1>4, <1>5, <1>6, <1>7

\* Every step keeps the types, and with them that a block is open only inside
\* the list of execute ids.
LEMMA NextTypeOK ==
  ASSUME TypeOK, [Next]_vars
  PROVE  TypeOK'
<1> USE DEF TypeOK
<1>1. CASE Receive
  <2>1. PICK n \in 1..MaxBlocks : execute' \in [1..n -> Ids]
    BY <1>1 DEF Receive, Executes
  <2>2. Len(execute') = n
    BY <2>1
  <2>3. execute' \in Executes /\ body' \in [Ids -> Bodies]
    BY <1>1 DEF Receive
  <2>4. block' = 1 /\ block' \in 1..Len(execute') /\ block' \in 1..(Len(execute') + 1)
    BY <1>1, <2>1, <2>2, BoundsAssumption DEF Receive
  <2> QED
    BY <1>1, <2>3, <2>4, BoundsAssumption DEF Receive, Codes
<1>2. CASE BlockFails
  BY <1>2, BlockFacts, BoundsAssumption
     DEF BlockFails, NextBlock, Keys, requestVars, ghostVars
<1>3. CASE BlockRefused
  BY <1>3 DEF BlockRefused, Codes, requestVars, ghostVars
<1>4. CASE BlockThrows
  BY <1>4 DEF BlockThrows, Codes, requestVars, ghostVars
<1>5. CASE BlockRuns
  <2>1. Body.commands \in 0..MaxCommands
    BY <1>5, BlockFacts DEF BlockRuns, Bodies
  <2> QED
    BY <1>5, <2>1, BoundsAssumption
       DEF BlockRuns, requestVars, answerVars, ghostVars, Body, Id
<1>6. CASE CommandSucceeds
  BY <1>6, CommandFacts DEF CommandSucceeds, Keys, Body, Id
<1>7. CASE CommandFails
  BY <1>7, CommandFacts DEF CommandFails, ErrorKey, Keys, Body, Id
<1>8. CASE CommandIgnored
  BY <1>8, CommandFacts DEF CommandIgnored, Body, Id
<1>9. CASE CommandsDone
  BY <1>9, BlockFacts
     DEF CommandsDone, NextBlock, requestVars, answerVars, ghostVars
<1>10. CASE Commits
  BY <1>10, BlockFacts DEF Commits, NextBlock, requestVars, answerVars, ghostVars
<1>11. CASE CommitFails
  <2>1. /\ pc = "commit" /\ block \in 1..Len(execute) /\ block \in Nat
        /\ Len(execute) \in Nat /\ <<Id>> \in Keys
    BY <1>11, BlockFacts, BoundsAssumption DEF CommitFails, Keys
  <2>2. /\ UNCHANGED <<execute, body, command, size, data, outcome>>
        /\ errors' \subseteq Keys /\ effects' \subseteq effects
    BY <1>11, <2>1 DEF CommitFails, Undone, requestVars
  <2>3. /\ block' \in 1..(Len(execute) + 1) /\ code' \in Codes
        /\ pc' \in {"open", "classify", "done"}
        /\ pc' = "open" => block' \in 1..Len(execute)
    <3>1. CASE NextBlock /\ UNCHANGED code
      BY <2>1, <3>1 DEF NextBlock
    <3>2. CASE code' = "EXCEPTION" /\ pc' = "done" /\ UNCHANGED block
      BY <2>1, <3>2 DEF Codes
    <3> QED
      BY <1>11, <3>1, <3>2 DEF CommitFails
  <2> QED
    BY <2>2, <2>3
<1>12. CASE Classify
  BY <1>12 DEF Classify, Classification, Codes, requestVars, ghostVars
<1>13. CASE UNCHANGED vars
  BY <1>13 DEF vars, requestVars, answerVars, ghostVars, Body, Id
<1> QED
  BY <1>1, <1>2, <1>3, <1>4, <1>5, <1>6, <1>7, <1>8, <1>9, <1>10, <1>11, <1>12,
     <1>13 DEF Next

\* Every step keeps the keys of the answer in agreement with the effects.
LEMMA NextAnswerMatchesEffects ==
  ASSUME TypeOK, AnswerMatchesEffects, [Next]_vars
  PROVE  AnswerMatchesEffects'
<1> USE DEF AnswerMatchesEffects
<1>1. CASE Receive
  BY <1>1 DEF Receive
<1>2. CASE BlockFails
  BY <1>2 DEF BlockFails, requestVars, ghostVars
<1>3. CASE BlockRefused
  BY <1>3 DEF BlockRefused, requestVars, ghostVars
<1>4. CASE BlockThrows
  BY <1>4 DEF BlockThrows, requestVars, ghostVars
<1>5. CASE BlockRuns
  BY <1>5 DEF BlockRuns, requestVars, answerVars, ghostVars
<1>6. CASE CommandSucceeds
  BY <1>6, CommandFacts DEF CommandSucceeds, Id
<1>7. CASE CommandFails
  BY <1>7, CommandFacts DEF CommandFails, ErrorKey, Id
<1>8. CASE CommandIgnored
  BY <1>8, CommandFacts DEF CommandIgnored
<1>9. CASE CommandsDone
  BY <1>9 DEF CommandsDone, requestVars, answerVars, ghostVars
<1>10. CASE Commits
  BY <1>10 DEF Commits, requestVars, answerVars, ghostVars
<1>11. CASE CommitFails
  <2>1. /\ UNCHANGED <<execute, data>>
        /\ errors' = errors \cup {<<Id>>}
        /\ effects' \subseteq effects
        /\ \A e \in effects : e \notin effects' => e[1] = block
    BY <1>11 DEF CommitFails, requestVars, Undone
  <2>2. \A e \in effects' : <<execute'[e[1]], e[2]>> \in data' \cup errors'
    BY <2>1
  <2>3. ASSUME NEW id \in Ids, NEW i \in 0..(MaxCommands - 1),
               <<id, i>> \in data', <<id>> \notin errors'
        PROVE  \E b \in 1..Len(execute') : execute'[b] = id /\ <<b, i>> \in effects'
    <3>1. PICK b \in 1..Len(execute) : execute[b] = id /\ <<b, i>> \in effects
      BY <2>1, <2>3
    <3>2. b # block
      BY <2>1, <2>3, <3>1 DEF Id
    <3> QED
      BY <2>1, <3>1, <3>2
  <2> QED
    BY <2>2, <2>3
<1>12. CASE Classify
  BY <1>12 DEF Classify, requestVars, ghostVars
<1>13. CASE UNCHANGED vars
  BY <1>13 DEF vars, requestVars, answerVars, ghostVars
<1> QED
  BY <1>1, <1>2, <1>3, <1>4, <1>5, <1>6, <1>7, <1>8, <1>9, <1>10, <1>11, <1>12,
     <1>13 DEF Next

\* A request starts well typed.
LEMMA InitTypeOK == Init => TypeOK
<1> SUFFICES ASSUME Init PROVE TypeOK
  OBVIOUS
<1>1. PICK n \in 1..MaxBlocks : execute \in [1..n -> Ids]
  BY DEF Init, Executes
<1>2. Len(execute) = n
  BY <1>1
<1>3. block = 1 /\ block \in 1..Len(execute) /\ block \in 1..(Len(execute) + 1)
  BY <1>1, <1>2, BoundsAssumption DEF Init
<1> QED
  BY <1>1, <1>3, BoundsAssumption DEF Init, TypeOK, Codes

\* Requests of any length keep the handler's counters and keys well typed.
THEOREM QueryTypeCorrect == Spec => []TypeOK
<1>1. QED
  BY InitTypeOK, NextTypeOK, PTL DEF Spec

\* On every path of the handler, for every list of blocks, the answer of
\* store/query and the effects that stand agree as AnswerMatchesEffects says.
THEOREM AnswersAreTrue == Spec => []AnswerMatchesEffects
<1>1. Init => AnswerMatchesEffects
  BY DEF Init, AnswerMatchesEffects
<1>2. QED
  BY <1>1, QueryTypeCorrect, NextAnswerMatchesEffects, PTL DEF Spec

-----------------------------------------------------------------------------
(* Why the classification is right.                                         *)

\* The keys of commands so far are those of earlier blocks, or of earlier commands
\* of the open one.
KeysArePast ==
  pc \in {"open", "commands", "commit"} =>
    \A id \in Ids, i \in Nat :
      <<id, i>> \in data \cup errors =>
        \E p \in 1..Len(execute) :
          /\ execute[p] = id
          /\ p < block \/ (p = block /\ pc # "open" /\ i < command)

\* With distinct ids and no failed block a section has as many keys as commands
\* ran exactly when all of them ended that way, and something has run.
SizesTell ==
  Distinct /\ NoBlockFailed =>
    /\ Cardinality(data) <= size /\ Cardinality(errors) <= size
    /\ Cardinality(data) = size <=> \A o \in outcome : o.how = "ok"
    /\ Cardinality(errors) = size <=> \A o \in outcome : o.how = "error"
    /\ \/ block > 1 \/ pc \in {"commit", "classify"} \/ Classified
       \/ pc = "commands" /\ command > 0
       => outcome # {}

AnswerInv ==
  /\ IsFiniteSet(data) /\ IsFiniteSet(errors)
  /\ pc = "commands" => Body.commands > 0
  /\ Classified => code = Classification
  /\ KeysArePast
  /\ SizesTell

\* An answer without keys, before any block.
Fresh ==
  /\ pc = "open" /\ block = 1 /\ size = 0
  /\ data = {} /\ errors = {} /\ outcome = {}

\* Without keys and commands every count is zero.
LEMMA FreshAnswer == Fresh => AnswerInv
<1> SUFFICES ASSUME Fresh
             PROVE  AnswerInv
  OBVIOUS
<1>1. IsFiniteSet({}) /\ Cardinality({}) = 0
  BY FS_EmptySet
<1>2. KeysArePast
  BY DEF Fresh, KeysArePast
<1>3. SizesTell
  BY <1>1 DEF Fresh, SizesTell, Classified
<1>4. QED
  BY <1>1, <1>2, <1>3 DEF Fresh, AnswerInv, Classified

\* The key of the command that runs is in neither section, if the ids differ.
LEMMA KeyIsNew ==
  ASSUME TypeOK, KeysArePast, Distinct, pc = "commands", command \in Nat
  PROVE  <<Id, command>> \notin data \cup errors
<1>1. block \in 1..Len(execute) /\ Id \in Ids /\ Len(execute) \in Nat
  BY BlockFacts, BoundsAssumption
<1>2. SUFFICES ASSUME <<Id, command>> \in data \cup errors
               PROVE  FALSE
  OBVIOUS
<1>3. PICK p \in 1..Len(execute) :
        execute[p] = Id /\ (p < block \/ (p = block /\ command < command))
  BY <1>1, <1>2 DEF KeysArePast
<1>4. p = block
  BY <1>1, <1>3 DEF Distinct, Id
<1>5. QED
  BY <1>1, <1>3, <1>4

\* One command more, whose key is the only one that may have been added: the keys
\* are those of the past.
LEMMA KeysStayPast ==
  ASSUME TypeOK, KeysArePast, NEW how \in {"ok", "error", "ignored"}, Ended(how),
         data' \cup errors' \subseteq data \cup errors \cup {<<Id, command>>}
  PROVE  KeysArePast'
<1>1. /\ pc = "commands" /\ block \in 1..Len(execute) /\ command \in Nat
      /\ command' = command + 1 /\ UNCHANGED <<execute, pc, block>>
  BY CommandFacts, BoundsAssumption DEF Ended
<1>2. SUFFICES ASSUME NEW id \in Ids, NEW i \in Nat, <<id, i>> \in data' \cup errors'
               PROVE  \E p \in 1..Len(execute) :
                        execute[p] = id /\ (p < block \/ (p = block /\ i < command + 1))
  BY <1>1 DEF KeysArePast
<1>3. CASE <<id, i>> = <<Id, command>>
  <2>1. id = execute[block] /\ i = command
    BY <1>3 DEF Id
  <2>2. QED
    BY <1>1, <2>1
<1>4. CASE <<id, i>> \in data \cup errors
  <2>1. PICK p \in 1..Len(execute) :
          execute[p] = id /\ (p < block \/ (p = block /\ i < command))
    BY <1>1, <1>2, <1>4 DEF KeysArePast
  <2>2. QED
    BY <1>1, <1>2, <2>1
<1>5. QED
  BY <1>2, <1>3, <1>4

\* The end of a command keeps the sizes telling.
LEMMA CommandKeepsAnswer ==
  ASSUME TypeOK, AnswerInv, CommandSucceeds \/ CommandFails \/ CommandIgnored
  PROVE  AnswerInv'
<1>1. PICK how \in {"ok", "error", "ignored"} :
        /\ Ended(how)
        /\ IF how = "ok" THEN data' = data \cup {<<Id, command>>} ELSE data' = data
        /\ IF how = "error" THEN errors' = errors \cup {<<Id, command>>}
                            ELSE errors' = errors
  BY DEF CommandSucceeds, CommandFails, CommandIgnored, ErrorKey
<1>2. /\ pc = "commands" /\ command \in Nat /\ size \in Nat
      /\ size' = size + 1 /\ UNCHANGED <<execute, body, pc, block, code>>
      /\ outcome' = outcome \cup {[block |-> block, index |-> command, how |-> how]}
  BY <1>1, CommandFacts, BoundsAssumption DEF Ended, TypeOK
<1>3. /\ IsFiniteSet(data) /\ IsFiniteSet(errors)
      /\ Cardinality(data) \in Nat /\ Cardinality(errors) \in Nat
  BY FS_CardinalityType DEF AnswerInv
<1>4. /\ IsFiniteSet(data \cup {<<Id, command>>})
      /\ IsFiniteSet(errors \cup {<<Id, command>>})
      /\ <<Id, command>> \notin data =>
           Cardinality(data \cup {<<Id, command>>}) = Cardinality(data) + 1
      /\ <<Id, command>> \notin errors =>
           Cardinality(errors \cup {<<Id, command>>}) = Cardinality(errors) + 1
  BY <1>3, FS_AddElement
<1>5. IsFiniteSet(data') /\ IsFiniteSet(errors')
  BY <1>1, <1>3, <1>4
<1>6. KeysArePast'
  BY <1>1, KeysStayPast DEF AnswerInv
<1>7. SizesTell'
  <2>1. SUFFICES ASSUME Distinct, NoBlockFailed'
                 PROVE  /\ Cardinality(data') <= size' /\ Cardinality(errors') <= size'
                        /\ Cardinality(data') = size' <=> \A o \in outcome' : o.how = "ok"
                        /\ Cardinality(errors') = size' <=>
                             \A o \in outcome' : o.how = "error"
                        /\ outcome' # {}
    BY <1>2 DEF SizesTell, Distinct
  <2>2. NoBlockFailed
    BY <1>1, <2>1 DEF NoBlockFailed
  <2>3. <<Id, command>> \notin data /\ <<Id, command>> \notin errors
    BY <1>2, <2>1, KeyIsNew DEF AnswerInv
  <2>4. /\ Cardinality(data) <= size /\ Cardinality(errors) <= size
        /\ Cardinality(data) = size <=> \A o \in outcome : o.how = "ok"
        /\ Cardinality(errors) = size <=> \A o \in outcome : o.how = "error"
    BY <2>1, <2>2 DEF AnswerInv, SizesTell
  <2>5. /\ Cardinality(data') = IF how = "ok" THEN Cardinality(data) + 1
                                              ELSE Cardinality(data)
        /\ Cardinality(errors') = IF how = "error" THEN Cardinality(errors) + 1
                                                   ELSE Cardinality(errors)
    BY <1>1, <1>4, <2>3
  <2>6. /\ Cardinality(data') <= size' /\ Cardinality(errors') <= size'
        /\ Cardinality(data') = size' <=> how = "ok" /\ Cardinality(data) = size
        /\ Cardinality(errors') = size' <=> how = "error" /\ Cardinality(errors) = size
    BY <1>2, <1>3, <2>4, <2>5
  <2>7. /\ (\A o \in outcome' : o.how = "ok") <=>
             how = "ok" /\ \A o \in outcome : o.how = "ok"
        /\ (\A o \in outcome' : o.how = "error") <=>
             how = "error" /\ \A o \in outcome : o.how = "error"
        /\ outcome' # {}
    <3>1. PICK new : new.how = how /\ outcome' = outcome \cup {new}
      BY <1>2
    <3>2. (\A o \in outcome' : o.how = "ok") <=>
            how = "ok" /\ \A o \in outcome : o.how = "ok"
      BY <3>1
    <3>3. (\A o \in outcome' : o.how = "error") <=>
            how = "error" /\ \A o \in outcome : o.how = "error"
      BY <3>1
    <3>4. QED
      BY <3>1, <3>2, <3>3
  <2>8. QED
    BY <2>4, <2>6, <2>7
<1>8. Body' = Body
  BY <1>2 DEF Body, Id
<1>9. QED
  BY <1>2, <1>5, <1>6, <1>7, <1>8 DEF AnswerInv, Classified

\* A step from one block to the next, or into or out of its commands, leaves the
\* sections alone.
LEMMA MoveKeepsAnswer ==
  ASSUME TypeOK, AnswerInv, BlockRuns \/ CommandsDone \/ Commits
  PROVE  AnswerInv'
<1>1. /\ pc \in {"open", "commands", "commit"} /\ pc' # "done"
      /\ UNCHANGED <<execute, body, data, errors, size, outcome>>
      /\ pc' = "commands" =>
           pc = "open" /\ command' = 0 /\ block' = block /\ Body.commands > 0
      /\ pc' = "commit" => pc = "commands" /\ command' = command /\ block' = block
                           /\ command = Body.commands
      /\ pc' = "open" \/ pc' = "classify" =>
           pc # "open" /\ block' = block + 1 /\ (pc = "commands" => command = Body.commands)
  BY DEF BlockRuns, Runnable, CommandsDone, Commits, NextBlock, requestVars, answerVars,
     ghostVars
<1>2. /\ block \in 1..Len(execute) /\ block \in Nat /\ Len(execute) \in Nat
      /\ pc' \in {"open", "commands", "commit", "classify"}
  BY <1>1, BlockFacts, BoundsAssumption
     DEF BlockRuns, CommandsDone, Commits, NextBlock
<1>3. KeysArePast'
  <2>1. SUFFICES ASSUME pc' \in {"open", "commands", "commit"}, NEW id \in Ids,
                        NEW i \in Nat, <<id, i>> \in data \cup errors
                 PROVE  \E p \in 1..Len(execute) :
                          /\ execute[p] = id
                          /\ p < block' \/ (p = block' /\ pc' # "open" /\ i < command')
    BY <1>1 DEF KeysArePast
  <2>2. PICK p \in 1..Len(execute) :
          /\ execute[p] = id
          /\ p < block \/ (p = block /\ pc # "open" /\ i < command)
    BY <1>1, <2>1 DEF AnswerInv, KeysArePast
  <2>3. QED
    BY <1>1, <1>2, <2>1, <2>2
<1>4. ASSUME Distinct, NoBlockFailed,
             \/ block' > 1 \/ pc' \in {"commit", "classify"} \/ Classified'
             \/ pc' = "commands" /\ command' > 0
      PROVE  outcome # {}
  BY <1>1, <1>2, <1>4 DEF AnswerInv, SizesTell, Classified
<1>5. SizesTell'
  <2>1. (Distinct' <=> Distinct) /\ (NoBlockFailed' <=> NoBlockFailed)
    BY <1>1 DEF Distinct, NoBlockFailed
  <2>2. QED
    BY <1>1, <1>4, <2>1 DEF AnswerInv, SizesTell
<1>6. pc' = "commands" => Body'.commands > 0
  BY <1>1 DEF Body, Id
<1>7. QED
  BY <1>1, <1>3, <1>5, <1>6 DEF AnswerInv, Classified

\* A block that fails has a key of its own in Errors.
LEMMA FailureKeepsAnswer ==
  ASSUME TypeOK, AnswerInv, BlockFails \/ CommitFails
  PROVE  AnswerInv'
<1>1. /\ pc \in {"open", "commit"} /\ errors' = errors \cup {<<Id>>}
      /\ UNCHANGED <<execute, body, data, size, outcome>>
      /\ \/ block' = block + 1 /\ pc' \in {"open", "classify"}
         \/ pc' = "done" /\ code' = "EXCEPTION"
  BY DEF BlockFails, CommitFails, NextBlock, requestVars, ghostVars
<1>2. block \in 1..Len(execute) /\ Len(execute) \in Nat /\ Id \in Ids
  BY <1>1, BlockFacts, BoundsAssumption
<1>3. IsFiniteSet(data') /\ IsFiniteSet(errors')
  BY <1>1, FS_AddElement DEF AnswerInv
<1>4. ~NoBlockFailed'
  BY <1>1, <1>2 DEF NoBlockFailed
<1>5. KeysArePast'
  <2>1. SUFFICES ASSUME pc' = "open", NEW id \in Ids, NEW i \in Nat,
                        <<id, i>> \in data \cup errors'
                 PROVE  \E p \in 1..Len(execute) : execute[p] = id /\ p < block'
    BY <1>1 DEF KeysArePast
  <2>2. <<id, i>> \in data \cup errors
    BY <1>1, <2>1
  <2>3. PICK p \in 1..Len(execute) : execute[p] = id /\ (p < block \/ p = block)
    BY <1>1, <2>1, <2>2 DEF AnswerInv, KeysArePast
  <2>4. QED
    BY <1>1, <1>2, <2>1, <2>3
<1>6. QED
  BY <1>1, <1>3, <1>4, <1>5 DEF AnswerInv, SizesTell, Classified

\* The classification sees the sizes as the last block left them.
LEMMA EndKeepsAnswer ==
  ASSUME TypeOK, AnswerInv, BlockRefused \/ BlockThrows \/ Classify
  PROVE  AnswerInv'
<1>1. /\ UNCHANGED <<execute, body, data, errors, size, outcome>>
      /\ pc' = "done" /\ KeysArePast'
      /\ \/ code' \in {"UNAUTHORIZED", "EXCEPTION"} /\ UNCHANGED block /\ pc = "open"
         \/ code' = Classification /\ UNCHANGED block /\ pc = "classify"
  BY DEF BlockRefused, BlockThrows, Classify, requestVars, ghostVars, KeysArePast
<1>2. Classified' => code' = Classification /\ pc = "classify"
  BY <1>1 DEF Classified
<1>3. Classification' = Classification
  BY <1>1 DEF Classification
<1>4. SizesTell'
  <2>1. (Distinct' <=> Distinct) /\ (NoBlockFailed' <=> NoBlockFailed)
    BY <1>1 DEF Distinct, NoBlockFailed
  <2>2. QED
    BY <1>1, <1>2, <2>1 DEF AnswerInv, SizesTell
<1>5. QED
  BY <1>1, <1>2, <1>3, <1>4 DEF AnswerInv

\* Every step keeps the counts of the answer.
LEMMA NextAnswerInv == TypeOK /\ AnswerInv /\ [Next]_vars => AnswerInv'
<1> SUFFICES ASSUME TypeOK, AnswerInv, [Next]_vars
             PROVE  AnswerInv'
  OBVIOUS
<1>1. CASE Receive
  <2>1. Fresh'
    BY <1>1 DEF Receive, Fresh
  <2>2. Fresh' => AnswerInv'
    BY FreshAnswer, PTL
  <2>3. QED
    BY <2>1, <2>2
<1>2. CASE UNCHANGED vars
  BY <1>2 DEF vars, requestVars, answerVars, ghostVars, AnswerInv, KeysArePast,
     SizesTell, Distinct, NoBlockFailed, Classified, Classification, Body, Id
<1>3. QED
  BY <1>1, <1>2, CommandKeepsAnswer, MoveKeepsAnswer, FailureKeepsAnswer, EndKeepsAnswer
     DEF Next

\* The keys of the answer count the commands, for requests of any length.
THEOREM AnswerCounts == Spec => []AnswerInv
<1>1. Init => AnswerInv
  BY FreshAnswer DEF Init, Fresh
<1>2. QED
  BY <1>1, NextAnswerInv, QueryTypeCorrect, PTL DEF Spec

\* The code that execute_block_command_list picks by comparing three sizes is exact
\* for every request whose ids differ and whose blocks all run to their end.
THEOREM CodesAreRight == Spec => []ClassificationIsRight
<1>1. ASSUME TypeOK, AnswerInv
      PROVE  ClassificationIsRight
  <2>1. SUFFICES ASSUME Classified, Distinct, NoBlockFailed
                 PROVE  /\ code = "SUCCESS_FOR_ALL_COMMANDS" <=>
                             \A o \in outcome : o.how = "ok"
                        /\ code = "ERROR_ALL_COMMANDS_HAS_FAILED" <=>
                             \A o \in outcome : o.how = "error"
    BY DEF ClassificationIsRight
  <2>2. /\ Cardinality(data) = size <=> \A o \in outcome : o.how = "ok"
        /\ Cardinality(errors) = size <=> \A o \in outcome : o.how = "error"
        /\ outcome # {} /\ code = Classification
    BY <1>1, <2>1 DEF AnswerInv, SizesTell
  <2>3. ~((\A o \in outcome : o.how = "ok") /\ (\A o \in outcome : o.how = "error"))
    BY <2>2
  <2>4. QED
    BY <2>2, <2>3 DEF Classification
<1>2. QED
  BY <1>1, QueryTypeCorrect, AnswerCounts, PTL
=============================================================================
