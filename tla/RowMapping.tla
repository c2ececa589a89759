------------------------------- MODULE RowMapping -------------------------------
(***************************************************************************)
(* The row mapping of execute_sql_query: the rows of a SELECT become       *)
(* nested documents, as the map of the command says.  Every row is walked  *)
(* prefix by prefix in the order of its columns; the first row with a new  *)
(* key adds a document, to the roots or to an array of its parent, which   *)
(* is found by its key among the documents added before.                   *)
(*                                                                         *)
(* The code finds a parent through a pointer that it took when it added    *)
(* the document.  The document may have moved since: an array that grows   *)
(* beyond its capacity moves its elements.                                 *)
(*                                                                         *)
(* A prefix stands for its own key column too.  A key is the tuple of its  *)
(* column values; the code joins them with ";", so values are taken to be  *)
(* not empty and without that character.                                   *)
(***************************************************************************)
EXTENDS Integers, Sequences, FiniteSets, Functions

CONSTANTS
  Prefixes,  \* the first two letters of the columns of a SELECT
  Root,      \* __ROOT__.__PREFIX__
  Fields,    \* the names of the arrays of children
  Values,    \* the strings a key column holds
  Null,      \* a column value that is null or no string, or no field
  Inputs     \* the commands: a map and the rows of the SELECT

\* key[Root] is __ROOT__.__KEY__, key, parentKey and field of the other prefixes
\* are their __KEY__, __PARENT_KEY__ and __PARENT_FIELD__; select is the order in
\* which the columns of the first row name the prefixes.
MapType ==
  [select : Seq(Prefixes),
   key : [Prefixes -> Seq(Prefixes)],
   parentKey : [Prefixes -> Seq(Prefixes)],
   field : [Prefixes -> Fields \cup {Null}]]

TableType == Seq([Prefixes -> Values \cup {Null}])

ASSUME InputAssumption ==
  /\ Root \in Prefixes
  /\ Null \notin Values \cup Fields
  /\ \A input \in Inputs :
       /\ input.map \in MapType
       /\ input.table \in TableType
       /\ input.map.select # <<>> /\ IsInjective(input.map.select)
       /\ input.map.parentKey[Root] = <<>>
       /\ \A p \in Prefixes : input.map.key[p] # <<>>

VARIABLES
  map,      \* *map_command_response, with key_prefix_list
  table,    \* data_list
  row,      \* row_index, from 1
  column,   \* the position in key_prefix_list
  docs,     \* the documents in the order in which they are added
  found,    \* map_key_to_json_object: from the key to the document
  outcome   \* "running", "done", "error" or "undefined"

inputVars == <<map, table>>
vars == <<inputVars, row, column, docs, found, outcome>>

\* The parent of a root is 0.
DocType ==
  [prefix : Prefixes, key : Seq(Values), parent : Nat, field : Fields \cup {Null}]

Init ==
  /\ \E input \in Inputs : map = input.map /\ table = input.table
  /\ row = 1 /\ column = 1
  /\ docs = <<>>
  /\ found = <<>>
  /\ outcome = "running"

-----------------------------------------------------------------------------
Cells(columns, r) == [i \in DOMAIN columns |-> table[r][columns[i]]]

KeyOf(p, r) == Cells(map.key[p], r)

ParentKeyOf(p, r) == Cells(map.parentKey[p], r)

HasNull(key) == \E i \in DOMAIN key : key[i] = Null

\* The elements of the array that document n is in.
Siblings(n) ==
  {m \in DOMAIN docs :
     docs[m].parent = docs[n].parent /\ docs[m].field = docs[n].field}

\* The capacity of an array doubles: adding to one of this size moves it.
Full(size) == \E e \in 0..size : size = 2 ^ e

\* Mutant: nothing moves.
NeverMoved(n) == FALSE

\* Mutant: the pointer is taken before the document is added.
MovedByItself(n) ==
  /\ docs[n].parent # 0
  /\ \E size \in 1..Cardinality(Siblings(n)) - 1 : Full(size)

\* The array has moved after document n was added to it.  A root has storage of
\* its own.
Moved(n) ==
  /\ docs[n].parent # 0
  /\ \E size \in 1..Cardinality(Siblings(n)) - 1 :
       Full(size) /\ Cardinality({m \in Siblings(n) : m < n}) < size

-----------------------------------------------------------------------------
\* The loops are at prefix p of a row whose root key is complete.
At(p) ==
  /\ outcome = "running"
  /\ row \in DOMAIN table
  /\ ~HasNull(KeyOf(Root, row))
  /\ p = map.select[column]

\* Mutant: the last prefix is not reached.
AdvanceEarly ==
  /\ IF column + 1 < Len(map.select)
     THEN column' = column + 1 /\ UNCHANGED row
     ELSE column' = 1 /\ row' = row + 1
  /\ UNCHANGED <<inputVars, outcome>>

Advance ==
  /\ IF column < Len(map.select)
     THEN column' = column + 1 /\ UNCHANGED row
     ELSE column' = 1 /\ row' = row + 1
  /\ UNCHANGED <<inputVars, outcome>>

\* Mutant: the element after the last one of the array is taken.
AddBeforeNext(doc) ==
  /\ docs' = Append(docs, doc)
  /\ found' = [k \in DOMAIN found \cup {doc.key} |->
                 IF k = doc.key THEN Len(docs) + 2 ELSE found[k]]

AddDocument(doc) ==
  /\ docs' = Append(docs, doc)
  /\ found' = [k \in DOMAIN found \cup {doc.key} |->
                 IF k = doc.key THEN Len(docs) + 1 ELSE found[k]]

\* Mutant: the key is not looked up.
IsNewInRow(p) == ~HasNull(KeyOf(p, row)) /\ ~HasNull(ParentKeyOf(p, row))

\* Prefix p of this row is a document that is not yet there.
IsNew(p) ==
  /\ ~HasNull(KeyOf(p, row))
  /\ KeyOf(p, row) \notin DOMAIN found
  /\ ~HasNull(ParentKeyOf(p, row))

\* get<std::string>() of a column of the root key throws: the command fails.
RejectRow ==
  /\ outcome = "running"
  /\ row \in DOMAIN table
  /\ HasNull(KeyOf(Root, row))
  /\ outcome' = "error"
  /\ UNCHANGED <<inputVars, row, column, docs, found>>

Skip(p) ==
  /\ At(p)
  /\ ~IsNew(p)
  /\ Advance
  /\ UNCHANGED <<docs, found>>

AddRoot(p) ==
  /\ At(p) /\ IsNew(p)
  /\ p = Root
  /\ AddDocument([prefix |-> p, key |-> KeyOf(p, row),
                  parent |-> 0, field |-> Null])
  /\ Advance

HasParent(p) == ParentKeyOf(p, row) \in DOMAIN found /\ map.field[p] # Null

AddChild(p) ==
  /\ At(p) /\ IsNew(p)
  /\ p # Root
  /\ HasParent(p)
  /\ ~Moved(found[ParentKeyOf(p, row)])
  /\ AddDocument([prefix |-> p, key |-> KeyOf(p, row),
                  parent |-> found[ParentKeyOf(p, row)], field |-> map.field[p]])
  /\ Advance

\* The document is written through a null pointer when there is no parent, and
\* added through a dangling one when the parent has moved.
LoseParent(p) ==
  /\ At(p) /\ IsNew(p)
  /\ p # Root
  /\ HasParent(p) => Moved(found[ParentKeyOf(p, row)])
  /\ outcome' = "undefined"
  /\ UNCHANGED <<inputVars, row, column, docs, found>>

\* The roots become the data and their number the Count of the command.
Finish ==
  /\ outcome = "running"
  /\ row \notin DOMAIN table
  /\ outcome' = "done"
  /\ UNCHANGED <<inputVars, row, column, docs, found>>

Next ==
  \/ RejectRow \/ Finish
  \/ \E p \in Prefixes : Skip(p) \/ AddRoot(p) \/ AddChild(p) \/ LoseParent(p)

Spec == Init /\ [][Next]_vars

-----------------------------------------------------------------------------
TypeOK ==
  /\ map \in MapType /\ table \in TableType
  /\ row \in 1..Len(table) + 1
  /\ column \in DOMAIN map.select
  /\ docs \in Seq(DocType)
  /\ DOMAIN found \subseteq Seq(Values)
  /\ \A k \in DOMAIN found : found[k] \in DOMAIN docs
  /\ outcome \in {"running", "done", "error", "undefined"}

\* Whatever the rows and the map are: a key is recorded for one document only,
\* every child hangs below a document that was added before it, and only roots
\* hang below none, so the answer has no cycle and no stray document.
DocumentsFormForest ==
  /\ \A n \in DOMAIN docs :
       /\ docs[n].parent < n
       /\ docs[n].parent = 0 <=> docs[n].prefix = Root
  /\ \A m, n \in DOMAIN docs : docs[m].key = docs[n].key => m = n

-----------------------------------------------------------------------------
(* What the rows say, all at once.  A cell is a prefix and a row; the first *)
(* cell that names a document dates it.                                     *)

Cell == {map.select[i] : i \in DOMAIN map.select} \X DOMAIN table

Key(c) == KeyOf(c[1], c[2])

ParentKey(c) == ParentKeyOf(c[1], c[2])

\* A cell with a key, and with a parent's key.
Names(c) == ~HasNull(Key(c)) /\ ~HasNull(ParentKey(c))

\* The cells are walked row by row.
Precedes(c, d) ==
  \/ c[2] < d[2]
  \/ c[2] = d[2] /\ \E i, j \in DOMAIN map.select :
       i < j /\ map.select[i] = c[1] /\ map.select[j] = d[1]

\* The cells that name a document no earlier cell names.
FirstCells ==
  {c \in Cell :
     /\ Names(c)
     /\ ~\E d \in Cell : Names(d) /\ Key(d) = Key(c) /\ Precedes(d, c)}

IsParent(c, d) == d[1] # Root /\ Key(c) = ParentKey(d)

InOneArray(c, d) ==
  /\ Root \notin {c[1], d[1]}
  /\ ParentKey(c) = ParentKey(d)
  /\ map.field[c[1]] = map.field[d[1]]

\* Between cell c and cell d the array that c is in grows beyond its capacity.
MovesBetween(c, d) ==
  LET array == {e \in FirstCells : InOneArray(c, e)}
      place == Cardinality({e \in array : Precedes(e, c)})
      size == Cardinality({e \in array : Precedes(e, d)})
  IN  \E n \in place + 1..size - 1 : Full(n)

\* The document of d has no parent yet, or one that has moved.
Orphan(d) ==
  /\ d[1] # Root
  /\ \/ map.field[d[1]] = Null
     \/ \A c \in FirstCells : IsParent(c, d) /\ Precedes(c, d) => MovesBetween(c, d)

\* The mapping loses a parent exactly when the rows come back to a document with a
\* new child for it after an array that holds it was moved, or name a child before
\* its parent; it fails exactly when a row has no root key; and otherwise it
\* answers.  The pointers of the code survive some additions and not others: this
\* says which.
OutcomeFollowsRows ==
  LET orphans == {d \in FirstCells : Orphan(d)}
      rejected == {r \in DOMAIN table : HasNull(KeyOf(Root, r))}
  IN  /\ outcome = "undefined" =>
           \E d \in orphans : \A r \in rejected : d[2] < r
      /\ outcome = "error" =>
           rejected # {} /\ \A d \in orphans : \E r \in rejected : r <= d[2]
      /\ outcome = "done" =>
           orphans = {} /\ rejected = {}

\* A key belongs to one prefix and to one parent.
Unambiguous ==
  \A c, d \in Cell :
    Names(c) /\ Names(d) /\ Key(c) = Key(d) =>
      c[1] = d[1] /\ ParentKey(c) = ParentKey(d)

\* Document n is that of cell c: below its own parent, in the array of its prefix.
IsDocumentOf(n, c) ==
  /\ docs[n].prefix = c[1] /\ docs[n].key = Key(c)
  /\ IF c[1] = Root
     THEN docs[n].parent = 0
     ELSE /\ docs[n].parent # 0 /\ docs[docs[n].parent].key = ParentKey(c)
          /\ docs[n].field = map.field[c[1]]

\* Then the answer is the forest that the rows describe: one document for each key,
\* in the order of the first cells that name them, and with keys that tell the
\* documents apart one for every cell that names one.
AnswerIsTheForest ==
  outcome = "done" =>
    /\ Len(docs) = Cardinality(FirstCells)
    /\ \A c \in FirstCells : \E n \in DOMAIN docs :
         /\ IsDocumentOf(n, c)
         /\ n = 1 + Cardinality({d \in FirstCells : Precedes(d, c)})
    /\ Unambiguous =>
         \A c \in Cell : Names(c) => \E n \in DOMAIN docs : IsDocumentOf(n, c)

\* The rows come back to the document of c: they name it again after another one
\* of its prefix.
Returns(c) ==
  \E d, e \in Cell : /\ c[1] = d[1] /\ c[1] = e[1]
                     /\ e[2] < d[2] /\ d[2] < c[2]
                     /\ Key(e) = Key(c) /\ Key(d) # Key(c)

\* When every parent is selected before its children and known by the columns of
\* its own key, and no two prefixes share an array, a parent is lost only to rows
\* that come back to a document with something new for it: rows sorted by the keys
\* of their documents are mapped safely.
SortedRowsAreSafe ==
  /\ outcome = "undefined"
  /\ \A c, d \in FirstCells : InOneArray(c, d) => c[1] = d[1]
  /\ \A d \in FirstCells : d[1] # Root =>
       /\ map.field[d[1]] # Null
       /\ \E c \in FirstCells :
            IsParent(c, d) /\ Precedes(c, d) /\ map.key[c[1]] = map.parentKey[d[1]]
  => \E d \in FirstCells, c \in Cell : IsParent(c, d) /\ c[2] = d[2] /\ Returns(c)
=============================================================================
