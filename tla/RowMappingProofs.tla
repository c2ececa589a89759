---------------------------- MODULE RowMappingProofs ----------------------------
(***************************************************************************)
(* For any map and any rows the documents of the mapping form a forest in  *)
(* which a key is recorded once, the outcome is the one that the rows say, *)
(* and an answer is the forest of the first cells that name its documents. *)
(***************************************************************************)
EXTENDS RowMapping, FiniteSetTheorems, TLAPS

\* The index of the code knows every document by its key.
FoundByKey ==
  \A n \in DOMAIN docs : docs[n].key \in DOMAIN found /\ found[docs[n].key] = n

Inv == TypeOK /\ DocumentsFormForest /\ FoundByKey

\* A key without a null is a sequence of values.
LEMMA KeyType ==
  ASSUME TypeOK, NEW p \in Prefixes, row \in DOMAIN table, ~HasNull(KeyOf(p, row))
  PROVE  KeyOf(p, row) \in Seq(Values)
<1>1. map.key[p] \in Seq(Prefixes)
  BY DEF TypeOK, MapType
<1>2. table[row] \in [Prefixes -> Values \cup {Null}]
  BY DEF TypeOK, TableType
<1>3. DOMAIN map.key[p] = 1..Len(map.key[p]) /\ Len(map.key[p]) \in Nat
  BY <1>1
<1>4. \A i \in 1..Len(map.key[p]) : table[row][map.key[p][i]] \in Values
  <2>1. SUFFICES ASSUME NEW i \in 1..Len(map.key[p])
                 PROVE  table[row][map.key[p][i]] \in Values
    OBVIOUS
  <2>2. map.key[p][i] \in Prefixes
    BY <1>1, <2>1
  <2>3. KeyOf(p, row)[i] = table[row][map.key[p][i]] /\ i \in DOMAIN KeyOf(p, row)
    BY <1>3, <2>1 DEF KeyOf, Cells
  <2>4. QED
    BY <1>2, <2>2, <2>3 DEF HasNull
<1>5. KeyOf(p, row) \in [1..Len(map.key[p]) -> Values]
  BY <1>3, <1>4 DEF KeyOf, Cells
<1>6. QED
  BY <1>3, <1>5

\* Advancing stays within the columns and the rows.
LEMMA AdvanceType ==
  ASSUME TypeOK, row \in DOMAIN table, Advance
  PROVE  /\ row' \in 1..Len(table) + 1
         /\ column' \in DOMAIN map.select
         /\ map' = map /\ table' = table /\ outcome' = outcome
<1>1. /\ table \in Seq([Prefixes -> Values \cup {Null}])
      /\ map.select \in Seq(Prefixes)
      /\ column \in DOMAIN map.select /\ row \in 1..Len(table) + 1
  BY DEF TypeOK, TableType, MapType
<1>2. /\ DOMAIN table = 1..Len(table) /\ Len(table) \in Nat
      /\ DOMAIN map.select = 1..Len(map.select) /\ Len(map.select) \in Nat
  BY <1>1
<1>3. QED
  BY <1>1, <1>2 DEF Advance, inputVars

\* Adding a document with a new key, below one that is there, keeps the forest.
LEMMA AddDocumentKeepsInv ==
  ASSUME Inv, NEW doc \in DocType, AddDocument(doc),
         doc.key \notin DOMAIN found,
         doc.parent \in 0..Len(docs),
         doc.parent = 0 <=> doc.prefix = Root
  PROVE  /\ docs' \in Seq(DocType)
         /\ DOMAIN found' \subseteq Seq(Values)
         /\ \A k \in DOMAIN found' : found'[k] \in DOMAIN docs'
         /\ DocumentsFormForest' /\ FoundByKey'
<1>1. docs \in Seq(DocType) /\ Len(docs) \in Nat /\ DOMAIN docs = 1..Len(docs)
  BY DEF Inv, TypeOK
<1>2. /\ docs' \in Seq(DocType) /\ Len(docs') = Len(docs) + 1
      /\ DOMAIN docs' = 1..Len(docs) + 1
      /\ \A n \in 1..Len(docs) : docs'[n] = docs[n]
      /\ docs'[Len(docs) + 1] = doc
  BY <1>1 DEF AddDocument
<1>3. /\ DOMAIN found' = DOMAIN found \cup {doc.key}
      /\ found'[doc.key] = Len(docs) + 1
      /\ \A k \in DOMAIN found : found'[k] = found[k]
  BY DEF AddDocument
<1>4. doc.key \in Seq(Values)
  BY DEF DocType
<1>5. DOMAIN found' \subseteq Seq(Values)
  BY <1>3, <1>4 DEF Inv, TypeOK
<1>6. \A k \in DOMAIN found' : found'[k] \in DOMAIN docs'
  BY <1>1, <1>2, <1>3 DEF Inv, TypeOK
<1>7. FoundByKey'
  BY <1>1, <1>2, <1>3 DEF Inv, FoundByKey
<1>8. DocumentsFormForest'
  <2>1. \A n \in DOMAIN docs' : /\ docs'[n].parent < n
                                /\ docs'[n].parent = 0 <=> docs'[n].prefix = Root
    BY <1>1, <1>2 DEF Inv, DocumentsFormForest
  <2>2. \A m, n \in DOMAIN docs' : docs'[m].key = docs'[n].key => m = n
    BY <1>7 DEF FoundByKey
  <2>3. QED
    BY <2>1, <2>2 DEF DocumentsFormForest
<1>9. QED
  BY <1>2, <1>5, <1>6, <1>7, <1>8

\* Before the first row there are no documents.
LEMMA InitInv == Init => Inv
<1> SUFFICES ASSUME Init
             PROVE  Inv
  OBVIOUS
<1>1. PICK input \in Inputs : map = input.map /\ table = input.table
  BY DEF Init
<1>2. map \in MapType /\ table \in TableType /\ map.select # <<>>
  BY <1>1, InputAssumption
<1>3. row \in 1..Len(table) + 1 /\ column \in DOMAIN map.select
  <2>1. Len(table) \in Nat /\ map.select \in Seq(Prefixes)
    BY <1>2 DEF TableType, MapType
  <2>2. QED
    BY <1>2, <2>1 DEF Init
<1>4. docs = <<>> /\ found = <<>> /\ outcome = "running" /\ DOMAIN <<>> = {}
  BY DEF Init
<1>5. TypeOK
  BY <1>2, <1>3, <1>4 DEF TypeOK
<1>6. DocumentsFormForest /\ FoundByKey
  BY <1>4 DEF DocumentsFormForest, FoundByKey
<1>7. QED
  BY <1>5, <1>6 DEF Inv

\* Every step of the mapping keeps the forest and its index.
LEMMA NextInv == Inv /\ [Next]_vars => Inv'
<1> SUFFICES ASSUME Inv, [Next]_vars
             PROVE  Inv'
  OBVIOUS
<1>1. CASE UNCHANGED vars
  BY <1>1 DEF vars, inputVars, Inv, TypeOK, DocumentsFormForest, FoundByKey
<1>2. CASE RejectRow
  BY <1>2 DEF RejectRow, inputVars, Inv, TypeOK, DocumentsFormForest, FoundByKey
<1>3. CASE Finish
  BY <1>3 DEF Finish, inputVars, Inv, TypeOK, DocumentsFormForest, FoundByKey
<1>4. ASSUME NEW p \in Prefixes, Skip(p)
      PROVE  Inv'
  <2>1. /\ row' \in 1..Len(table) + 1 /\ column' \in DOMAIN map.select
        /\ map' = map /\ table' = table /\ outcome' = outcome
        /\ docs' = docs /\ found' = found
    BY <1>4, AdvanceType DEF Skip, At, Inv
  <2>2. QED
    BY <2>1 DEF Inv, TypeOK, DocumentsFormForest, FoundByKey
<1>5. ASSUME NEW p \in Prefixes, LoseParent(p)
      PROVE  Inv'
  BY <1>5 DEF LoseParent, inputVars, Inv, TypeOK, DocumentsFormForest, FoundByKey
<1>6. ASSUME NEW p \in Prefixes, At(p), IsNew(p), Advance,
             NEW parent \in 0..Len(docs), parent = 0 <=> p = Root,
             NEW field \in Fields \cup {Null},
             AddDocument([prefix |-> p, key |-> KeyOf(p, row),
                          parent |-> parent, field |-> field])
      PROVE  Inv'
  <2>1. row \in DOMAIN table /\ KeyOf(p, row) \in Seq(Values)
    BY <1>6, KeyType DEF At, IsNew, Inv
  <2>2. parent \in Nat
    BY <1>6 DEF Inv, TypeOK
  <2> DEFINE doc == [prefix |-> p, key |-> KeyOf(p, row),
                     parent |-> parent, field |-> field]
  <2>3. doc \in DocType /\ doc.key \notin DOMAIN found
    BY <1>6, <2>1, <2>2 DEF DocType, IsNew
  <2>4. /\ docs' \in Seq(DocType)
        /\ DOMAIN found' \subseteq Seq(Values)
        /\ \A k \in DOMAIN found' : found'[k] \in DOMAIN docs'
        /\ DocumentsFormForest' /\ FoundByKey'
    BY <1>6, <2>3, AddDocumentKeepsInv
  <2>5. /\ row' \in 1..Len(table) + 1 /\ column' \in DOMAIN map.select
        /\ map' = map /\ table' = table /\ outcome' = outcome
    BY <1>6, <2>1, AdvanceType DEF Inv
  <2>6. TypeOK'
    BY <2>4, <2>5 DEF Inv, TypeOK
  <2>7. QED
    BY <2>4, <2>6 DEF Inv
<1>7. ASSUME NEW p \in Prefixes, AddRoot(p)
      PROVE  Inv'
  <2>1. 0 \in 0..Len(docs)
    BY DEF Inv, TypeOK
  <2>2. QED
    BY <1>6, <1>7, <2>1 DEF AddRoot
<1>8. ASSUME NEW p \in Prefixes, AddChild(p)
      PROVE  Inv'
  <2>1. found[ParentKeyOf(p, row)] \in 1..Len(docs)
    BY <1>8 DEF AddChild, HasParent, Inv, TypeOK
  <2>2. map.field[p] \in Fields \cup {Null}
    BY DEF Inv, TypeOK, MapType
  <2>3. p # Root /\ Len(docs) \in Nat
    BY <1>8 DEF AddChild, Inv, TypeOK
  <2>4. /\ found[ParentKeyOf(p, row)] \in 0..Len(docs)
        /\ found[ParentKeyOf(p, row)] = 0 <=> p = Root
    BY <2>1, <2>3
  <2>5. QED
    BY <1>6, <1>8, <2>2, <2>4 DEF AddChild
<1>9. QED
  BY <1>1, <1>2, <1>3, <1>4, <1>5, <1>7, <1>8 DEF Next

\* The mapping keeps its invariant for any map and any rows.
THEOREM Invariance == Spec => []Inv
<1>1. QED
  BY InitInv, NextInv, PTL DEF Spec

\* The variables of the mapping hold values of their types.
THEOREM RowMappingTypeCorrect == Spec => []TypeOK
<1>1. Inv => TypeOK
  BY DEF Inv
<1>2. QED
  BY <1>1, Invariance, PTL

\* The documents form a forest without duplicates: no child is its own ancestor,
\* only a root is without a parent, and no key is recorded for two documents.
THEOREM MappingBuildsForest == Spec => []DocumentsFormForest
<1>1. Inv => DocumentsFormForest
  BY DEF Inv
<1>2. QED
  BY <1>1, Invariance, PTL

-----------------------------------------------------------------------------
(* The walk over the rows and what it leaves behind.                        *)

\* The cell that the loops are at.
Here == <<map.select[column], row>>

\* The loops have been through cell c.
Past(c) ==
  \/ c[2] < row
  \/ c[2] = row /\ \E i \in 1..column - 1 : map.select[i] = c[1]

\* Every key that a cell has named is found again, as the key of its document.
NamedAreFound ==
  /\ \A c \in Cell : Past(c) /\ Names(c) => Key(c) \in DOMAIN found
  /\ \A k \in DOMAIN found : docs[found[k]].key = k

\* Every document is that of the first cell with its key.
DocumentsAreFirst ==
  \A n \in DOMAIN docs : \E c \in FirstCells : Past(c) /\ IsDocumentOf(n, c)

\* The documents are in the order of these cells.
InOrder ==
  \A m, n \in DOMAIN docs : m < n =>
    \A c, d \in FirstCells :
      Key(c) = docs[m].key /\ Key(d) = docs[n].key => Precedes(c, d)

\* No row so far was without a root key.
RowsAccepted ==
  \A r \in DOMAIN table :
    r < row \/ (r = row /\ column > 1) => ~HasNull(KeyOf(Root, r))

NoneOrphaned == \A d \in FirstCells : Past(d) => ~Orphan(d)

\* How the mapping has ended.
EndIsReasoned ==
  /\ outcome = "undefined" =>
       /\ row \in DOMAIN table /\ ~HasNull(KeyOf(Root, row))
       /\ \E d \in FirstCells : d = Here /\ Orphan(d)
  /\ outcome = "error" => row \in DOMAIN table /\ HasNull(KeyOf(Root, row))
  /\ outcome = "done" => row \notin DOMAIN table

WalkInv ==
  /\ IsInjective(map.select)
  /\ NamedAreFound /\ DocumentsAreFirst /\ InOrder
  /\ RowsAccepted /\ NoneOrphaned /\ EndIsReasoned

-----------------------------------------------------------------------------
(* The order of the cells.                                                  *)

\* A cell is a prefix of the select list and a row.
LEMMA CellFacts ==
  ASSUME TypeOK, NEW c \in Cell
  PROVE  /\ c = <<c[1], c[2]>> /\ c[1] \in Prefixes
         /\ c[2] \in DOMAIN table /\ c[2] \in 1..Len(table) /\ c[2] \in Nat
         /\ \E i \in DOMAIN map.select : map.select[i] = c[1]
<1>1. map.select \in Seq(Prefixes) /\ table \in Seq([Prefixes -> Values \cup {Null}])
  BY DEF TypeOK, MapType, TableType
<1>2. \A i \in DOMAIN map.select : map.select[i] \in Prefixes
  BY <1>1
<1>3. DOMAIN table = 1..Len(table) /\ Len(table) \in Nat
  BY <1>1
<1>4. PICK i \in DOMAIN map.select, r \in DOMAIN table : c = <<map.select[i], r>>
  BY DEF Cell
<1>5. QED
  BY <1>2, <1>3, <1>4

\* The positions of the select list are numbers.
LEMMA PositionFacts ==
  ASSUME TypeOK
  PROVE  /\ DOMAIN map.select = 1..Len(map.select) /\ Len(map.select) \in Nat
         /\ column \in 1..Len(map.select)
         /\ DOMAIN table = 1..Len(table) /\ Len(table) \in Nat
         /\ row \in 1..Len(table) + 1
<1>1. map.select \in Seq(Prefixes) /\ table \in Seq([Prefixes -> Values \cup {Null}])
  BY DEF TypeOK, MapType, TableType
<1>2. QED
  BY <1>1 DEF TypeOK

\* The cells are ordered.
LEMMA CellsAreOrdered ==
  ASSUME TypeOK, IsInjective(map.select)
  PROVE  /\ \A c \in Cell : ~Precedes(c, c)
         /\ \A c, d \in Cell : c = d \/ Precedes(c, d) \/ Precedes(d, c)
         /\ \A c, d, e \in Cell : Precedes(c, d) /\ Precedes(d, e) => Precedes(c, e)
<1>1. \A i, j \in DOMAIN map.select : map.select[i] = map.select[j] => i = j
  BY DEF IsInjective
<1>2. DOMAIN map.select \subseteq Nat
  BY PositionFacts
<1>3. ASSUME NEW c \in Cell, Precedes(c, c)
      PROVE  FALSE
  BY <1>1, <1>2, <1>3, CellFacts DEF Precedes
<1>4. ASSUME NEW c \in Cell, NEW d \in Cell, ~Precedes(c, d), ~Precedes(d, c)
      PROVE  c = d
  <2>1. c[2] = d[2]
    BY <1>4, CellFacts DEF Precedes
  <2>2. PICK i \in DOMAIN map.select : map.select[i] = c[1]
    BY CellFacts
  <2>3. PICK j \in DOMAIN map.select : map.select[j] = d[1]
    BY CellFacts
  <2>4. i = j
    BY <1>2, <1>4, <2>1, <2>2, <2>3 DEF Precedes
  <2>5. c[1] = d[1]
    BY <2>2, <2>3, <2>4
  <2>6. QED
    BY <2>1, <2>5, CellFacts
<1>5. ASSUME NEW c \in Cell, NEW d \in Cell, NEW e \in Cell,
             Precedes(c, d), Precedes(d, e)
      PROVE  Precedes(c, e)
  <2>1. c[2] \in Nat /\ d[2] \in Nat /\ e[2] \in Nat
    BY CellFacts
  <2>2. CASE c[2] < d[2] \/ d[2] < e[2]
    BY <1>5, <2>1, <2>2 DEF Precedes
  <2>3. CASE ~(c[2] < d[2]) /\ ~(d[2] < e[2])
    <3>1. /\ c[2] = d[2] /\ d[2] = e[2]
          /\ \E i, j \in DOMAIN map.select :
               i < j /\ map.select[i] = c[1] /\ map.select[j] = d[1]
          /\ \E j, k \in DOMAIN map.select :
               j < k /\ map.select[j] = d[1] /\ map.select[k] = e[1]
      BY <1>5, <2>3 DEF Precedes
    <3>2. PICK i, j \in DOMAIN map.select :
            i < j /\ map.select[i] = c[1] /\ map.select[j] = d[1]
      BY <3>1
    <3>3. PICK l, k \in DOMAIN map.select :
            l < k /\ map.select[l] = d[1] /\ map.select[k] = e[1]
      BY <3>1
    <3>4. i < k
      BY <1>1, <1>2, <3>2, <3>3
    <3>5. QED
      BY <3>1, <3>2, <3>3, <3>4 DEF Precedes
  <2>4. QED
    BY <2>2, <2>3
<1>6. QED
  BY <1>3, <1>4, <1>5

\* What the loops have been through is what precedes the cell they are at.
LEMMA HereFacts ==
  ASSUME TypeOK, IsInjective(map.select), row \in DOMAIN table
  PROVE  /\ Here \in Cell /\ Here[1] = map.select[column] /\ Here[2] = row
         /\ \A c \in Cell : Past(c) <=> Precedes(c, Here)
<1>1. Here \in Cell /\ Here[1] = map.select[column] /\ Here[2] = row
  BY DEF Here, Cell, TypeOK
<1>2. ASSUME NEW c \in Cell
      PROVE  Past(c) => Precedes(c, Here)
  BY <1>1, PositionFacts DEF Past, Precedes
<1>3. ASSUME NEW c \in Cell
      PROVE  Precedes(c, Here) => Past(c)
  <2>1. SUFFICES ASSUME Precedes(c, Here), ~(c[2] < row)
                 PROVE  Past(c)
    BY DEF Past
  <2>2. PICK i, j \in DOMAIN map.select :
          i < j /\ map.select[i] = c[1] /\ map.select[j] = map.select[column]
    BY <1>1, <2>1 DEF Precedes
  <2>3. j = column
    BY <2>2 DEF IsInjective, TypeOK
  <2>4. QED
    BY <1>1, <2>1, <2>2, <2>3, PositionFacts DEF Past, Precedes
<1>4. QED
  BY <1>1, <1>2, <1>3

\* Advancing adds the cell that the loops were at.
LEMMA AdvancePasses ==
  ASSUME TypeOK, IsInjective(map.select), row \in DOMAIN table, Advance,
         NEW c \in Cell
  PROVE  Past(c)' <=> Past(c) \/ c = Here
<1>1. /\ UNCHANGED map /\ column \in 1..Len(map.select) /\ Len(map.select) \in Nat
      /\ DOMAIN map.select = 1..Len(map.select) /\ row \in Nat
  BY PositionFacts DEF Advance, inputVars
<1>2. c = <<c[1], c[2]>> /\ c[2] \in Nat
  BY CellFacts
<1>3. PICK k \in DOMAIN map.select : map.select[k] = c[1]
  BY CellFacts
<1>4. \A i, j \in DOMAIN map.select : map.select[i] = map.select[j] => i = j
  BY DEF IsInjective
<1>5. c = Here <=> c[2] = row /\ k = column
  BY <1>1, <1>2, <1>3, <1>4 DEF Here
<1>6. Past(c) <=> c[2] < row \/ (c[2] = row /\ k < column)
  BY <1>1, <1>3, <1>4 DEF Past
<1>7. CASE column < Len(map.select)
  <2>1. column' = column + 1 /\ row' = row
    BY <1>7 DEF Advance
  <2>2. Past(c)' <=> c[2] < row \/ (c[2] = row /\ k < column + 1)
    BY <1>1, <1>3, <1>4, <2>1 DEF Past
  <2>3. QED
    BY <1>1, <1>2, <1>3, <1>5, <1>6, <2>2
<1>8. CASE ~(column < Len(map.select))
  <2>1. column' = 1 /\ row' = row + 1 /\ column = Len(map.select)
    BY <1>1, <1>8 DEF Advance
  <2>2. Past(c)' <=> c[2] < row + 1
    BY <1>1, <2>1 DEF Past
  <2>3. QED
    BY <1>1, <1>2, <1>3, <1>5, <1>6, <2>1, <2>2
<1>9. QED
  BY <1>7, <1>8

\* Only one cell is the first with its key.
LEMMA FirstCellIsUnique ==
  ASSUME TypeOK, IsInjective(map.select), NEW c \in FirstCells, NEW d \in FirstCells,
         Key(c) = Key(d)
  PROVE  c = d
<1>1. c \in Cell /\ d \in Cell /\ Names(c) /\ Names(d)
  BY DEF FirstCells
<1>2. ~Precedes(c, d) /\ ~Precedes(d, c)
  BY <1>1 DEF FirstCells
<1>3. QED
  BY <1>1, <1>2, CellsAreOrdered

-----------------------------------------------------------------------------
(* The documents and the first cells are in one order.                      *)

\* What the rows say stays as it is.
LEMMA SameRows ==
  ASSUME UNCHANGED <<map, table>>
  PROVE  /\ Cell' = Cell /\ FirstCells' = FirstCells
         /\ \A c : (Key(c))' = Key(c) /\ (ParentKey(c))' = ParentKey(c)
         /\ \A c : Names(c)' <=> Names(c)
         /\ \A c, d : Precedes(c, d)' <=> Precedes(c, d)
         /\ \A d : Orphan(d)' <=> Orphan(d)
         /\ \A r : HasNull(KeyOf(Root, r))' <=> HasNull(KeyOf(Root, r))
<1>1. Cell' = Cell
  BY DEF Cell
<1>2. \A c : (Key(c))' = Key(c) /\ (ParentKey(c))' = ParentKey(c)
  BY DEF Key, ParentKey, KeyOf, ParentKeyOf, Cells
<1>3. \A c : Names(c)' <=> Names(c)
  BY <1>2 DEF Names, HasNull
<1>4. \A c, d : Precedes(c, d)' <=> Precedes(c, d)
  BY DEF Precedes
<1>5. FirstCells' = FirstCells
  <2>1. \A c : c \in FirstCells' <=> c \in FirstCells
    BY <1>1, <1>2, <1>3, <1>4 DEF FirstCells
  <2>2. QED
    BY <2>1
<1>6. \A c, d : InOneArray(c, d)' <=> InOneArray(c, d)
  BY <1>2 DEF InOneArray
<1>7. \A c, d : MovesBetween(c, d)' <=> MovesBetween(c, d)
  <2>1. SUFFICES ASSUME NEW c, NEW d
                 PROVE  MovesBetween(c, d)' <=> MovesBetween(c, d)
    OBVIOUS
  <2>2. {e \in FirstCells : InOneArray(c, e)}' = {e \in FirstCells : InOneArray(c, e)}
    BY <1>5, <1>6
  <2> DEFINE array == {e \in FirstCells : InOneArray(c, e)}
  <2>3. /\ {e \in array : Precedes(e, c)}' = {e \in array : Precedes(e, c)}
        /\ {e \in array : Precedes(e, d)}' = {e \in array : Precedes(e, d)}
    BY <1>4, <2>2
  <2>4. QED
    BY <2>3 DEF MovesBetween, Full
<1>8. \A d : Orphan(d)' <=> Orphan(d)
  BY <1>2, <1>4, <1>5, <1>7 DEF Orphan, IsParent
<1>9. \A r : HasNull(KeyOf(Root, r))' <=> HasNull(KeyOf(Root, r))
  BY DEF HasNull, KeyOf, Cells
<1>10. QED
  BY <1>1, <1>2, <1>3, <1>4, <1>5, <1>8, <1>9

\* A first cell that the loops have been through has a document.
LEMMA FirstCellHasDocument ==
  ASSUME Inv, WalkInv, NEW c \in FirstCells, Past(c)
  PROVE  \E n \in DOMAIN docs : IsDocumentOf(n, c)
<1>1. c \in Cell /\ Names(c)
  BY DEF FirstCells
<1>2. /\ Key(c) \in DOMAIN found /\ found[Key(c)] \in DOMAIN docs
      /\ docs[found[Key(c)]].key = Key(c)
  BY <1>1 DEF WalkInv, NamedAreFound, Inv, TypeOK
<1>3. PICK d \in FirstCells : IsDocumentOf(found[Key(c)], d)
  BY <1>2 DEF WalkInv, DocumentsAreFirst
<1>4. d = c
  BY <1>2, <1>3, FirstCellIsUnique DEF IsDocumentOf, Inv, WalkInv
<1>5. QED
  BY <1>2, <1>3, <1>4

\* A document is that of one cell, and the order is the same.
LEMMA DocumentOrder ==
  ASSUME Inv, WalkInv, NEW m \in DOMAIN docs, NEW n \in DOMAIN docs,
         NEW c \in FirstCells, NEW d \in FirstCells,
         IsDocumentOf(m, c), IsDocumentOf(n, d)
  PROVE  /\ m = n <=> c = d
         /\ m < n <=> Precedes(c, d)
<1>1. docs[m].key = Key(c) /\ docs[n].key = Key(d)
  BY DEF IsDocumentOf
<1>2. m = n <=> c = d
  BY <1>1, FirstCellIsUnique DEF Inv, WalkInv, DocumentsFormForest
<1>3. m < n => Precedes(c, d)
  BY <1>1 DEF WalkInv, InOrder
<1>4. n < m => Precedes(d, c)
  BY <1>1 DEF WalkInv, InOrder
<1>5. m \in Nat /\ n \in Nat
  BY DEF Inv, TypeOK
<1>6. ~Precedes(c, c) /\ ~(Precedes(c, d) /\ Precedes(d, c))
  <2>1. c \in Cell /\ d \in Cell
    BY DEF FirstCells
  <2>2. QED
    BY <2>1, CellsAreOrdered DEF Inv, WalkInv
<1>7. QED
  BY <1>2, <1>3, <1>4, <1>5, <1>6

\* As many documents as cells that they are those of.
LEMMA CountByCells ==
  ASSUME Inv, WalkInv, NEW S \in SUBSET DOMAIN docs, NEW T \in SUBSET FirstCells,
         \A m \in S : \E c \in T : IsDocumentOf(m, c),
         \A c \in T : \E m \in S : IsDocumentOf(m, c)
  PROVE  Cardinality(S) \in Nat /\ Cardinality(T) = Cardinality(S)
<1>1. IsFiniteSet(S)
  <2>1. Len(docs) \in Nat /\ DOMAIN docs = 1..Len(docs)
    BY DEF Inv, TypeOK
  <2>2. IsFiniteSet(1..Len(docs))
    BY <2>1, FS_Interval
  <2>3. QED
    BY <2>1, <2>2, FS_Subset
<1> DEFINE f == [m \in S |-> CHOOSE c \in T : IsDocumentOf(m, c)]
<1>2. \A m \in S : f[m] \in T /\ IsDocumentOf(m, f[m])
  OBVIOUS
<1>3. f \in [S -> T]
  BY <1>2
<1> HIDE DEF f
<1>4. \A m, n \in S : f[m] = f[n] => m = n
  BY <1>2, DocumentOrder
<1>5. \A c \in T : \E m \in S : f[m] = c
  <2>1. SUFFICES ASSUME NEW c \in T
                 PROVE  \E m \in S : f[m] = c
    OBVIOUS
  <2>2. PICK m \in S : IsDocumentOf(m, c)
    OBVIOUS
  <2>3. f[m] = c
    BY <1>2, <2>2, DocumentOrder
  <2>4. QED
    BY <2>3
<1>6. ExistsBijection(S, T)
  BY <1>3, <1>4, <1>5
     DEF ExistsBijection, Bijection, Injection, Surjection, IsInjective
<1>7. QED
  BY <1>1, <1>6, FS_Bijection, FS_CardinalityType

\* The siblings of a document are those of its cell, once their cells are past.
LEMMA SiblingsAreOfOneArray ==
  ASSUME Inv, WalkInv, NEW m \in DOMAIN docs, NEW n \in DOMAIN docs,
         NEW c \in FirstCells, NEW d \in FirstCells,
         IsDocumentOf(m, c), IsDocumentOf(n, d), d[1] # Root
  PROVE  m \in Siblings(n) <=> InOneArray(d, c)
<1>1. /\ docs[m].parent < m /\ docs[n].parent < n
      /\ docs[n].parent # 0 /\ docs[docs[n].parent].key = ParentKey(d)
      /\ docs[n].field = map.field[d[1]]
      /\ docs[m].parent \in Nat /\ docs[n].parent \in Nat
  <2>1. docs[m] \in DocType /\ docs[n] \in DocType
    BY DEF Inv, TypeOK
  <2>2. docs[m].parent \in Nat /\ docs[n].parent \in Nat
    BY <2>1 DEF DocType
  <2>3. docs[m].parent < m /\ docs[n].parent < n
    BY DEF Inv, DocumentsFormForest
  <2>4. QED
    BY <2>2, <2>3 DEF IsDocumentOf
<1>2. CASE c[1] = Root
  BY <1>1, <1>2 DEF Siblings, InOneArray, IsDocumentOf
<1>3. CASE c[1] # Root
  <2>1. /\ docs[m].parent # 0 /\ docs[docs[m].parent].key = ParentKey(c)
        /\ docs[m].field = map.field[c[1]]
    BY <1>3 DEF IsDocumentOf
  <2>2. docs[m].parent \in DOMAIN docs /\ docs[n].parent \in DOMAIN docs
    BY <1>1, <2>1 DEF Inv, TypeOK
  <2>3. docs[m].parent = docs[n].parent <=> ParentKey(c) = ParentKey(d)
    BY <1>1, <2>1, <2>2 DEF Inv, DocumentsFormForest
  <2>4. QED
    BY <1>1, <1>3, <2>1, <2>3 DEF Siblings, InOneArray
<1>4. QED
  BY <1>2, <1>3

\* A pointer to a document dangles when the array of its cell has grown since.
LEMMA MovedIsGrown ==
  ASSUME Inv, WalkInv, row \in DOMAIN table,
         NEW n \in DOMAIN docs, NEW c \in FirstCells, IsDocumentOf(n, c)
  PROVE  Moved(n) <=> MovesBetween(c, Here)
<1> DEFINE array == {e \in FirstCells : InOneArray(c, e)}
           S == Siblings(n)
           T == {e \in array : Precedes(e, Here)}
           S0 == {m \in Siblings(n) : m < n}
           T0 == {e \in array : Precedes(e, c)}
<1>1. CASE c[1] = Root
  <2>1. docs[n].parent = 0
    BY <1>1 DEF IsDocumentOf
  <2>2. T = {} /\ T0 = {}
    BY <1>1 DEF InOneArray
  <2>3. ~MovesBetween(c, Here)
    BY <2>2, FS_EmptySet DEF MovesBetween
  <2>4. QED
    BY <2>1, <2>3 DEF Moved
<1>2. CASE c[1] # Root
  <2>1. FirstCells \subseteq Cell /\ Here \in Cell
    BY HereFacts DEF FirstCells, Inv, WalkInv
  <2>2. \A e \in FirstCells : Past(e) <=> Precedes(e, Here)
    BY <2>1, HereFacts DEF Inv, WalkInv
  <2>3. \A e \in FirstCells : Past(e) => \E m \in DOMAIN docs : IsDocumentOf(m, e)
    BY FirstCellHasDocument
  <2>4. \A m \in DOMAIN docs : \E e \in FirstCells : Past(e) /\ IsDocumentOf(m, e)
    BY DEF WalkInv, DocumentsAreFirst
  <2>5. Precedes(c, Here)
    <3>1. PICK d \in FirstCells : Past(d) /\ IsDocumentOf(n, d)
      BY <2>4
    <3>2. d = c
      BY <3>1, DocumentOrder
    <3>3. QED
      BY <2>2, <3>1, <3>2
  <2>6. \A m \in DOMAIN docs : \A e \in FirstCells : IsDocumentOf(m, e) =>
          /\ m \in S <=> e \in array
          /\ m < n <=> Precedes(e, c)
    BY <1>2, SiblingsAreOfOneArray, DocumentOrder
  <2>7. Cardinality(S) \in Nat /\ Cardinality(T) = Cardinality(S)
    <3>1. S \in SUBSET DOMAIN docs /\ T \in SUBSET FirstCells
      BY DEF Siblings
    <3>2. \A m \in S : \E e \in T : IsDocumentOf(m, e)
      BY <2>2, <2>4, <2>6, <3>1
    <3>3. \A e \in T : \E m \in S : IsDocumentOf(m, e)
      BY <2>2, <2>3, <2>6, <3>1
    <3>4. QED
      BY <3>1, <3>2, <3>3, CountByCells
  <2>8. Cardinality(S0) \in Nat /\ Cardinality(T0) = Cardinality(S0)
    <3>1. S0 \in SUBSET DOMAIN docs /\ T0 \in SUBSET FirstCells
      BY DEF Siblings
    <3>2. \A m \in S0 : \E e \in T0 : IsDocumentOf(m, e)
      BY <2>4, <2>6, <3>1
    <3>3. \A e \in T0 : Past(e)
      BY <2>1, <2>2, <2>5, <3>1, CellsAreOrdered DEF Inv, WalkInv
    <3>4. \A e \in T0 : \E m \in S0 : IsDocumentOf(m, e)
      BY <2>3, <2>6, <3>1, <3>3
    <3>5. QED
      BY <3>1, <3>2, <3>4, CountByCells
  <2>9. docs[n].parent # 0
    BY <1>2 DEF IsDocumentOf
  <2>10. Moved(n) <=> \E size \in 1..Cardinality(S) - 1 :
                        Full(size) /\ Cardinality(S0) < size
    BY <2>9 DEF Moved
  <2>11. MovesBetween(c, Here) <=>
           \E k \in Cardinality(T0) + 1..Cardinality(T) - 1 : Full(k)
    BY DEF MovesBetween
  <2> HIDE DEF S, T, S0, T0
  <2>12. \A k : k \in Cardinality(T0) + 1..Cardinality(T) - 1 <=>
                  k \in 1..Cardinality(S) - 1 /\ Cardinality(S0) < k
    BY <2>7, <2>8
  <2>13. QED
    BY <2>10, <2>11, <2>12
<1>3. QED
  BY <1>1, <1>2

-----------------------------------------------------------------------------
(* What a step does to the walk.                                            *)

\* No cell is behind the loops yet.
LEMMA InitWalkInv == Init => WalkInv
<1> SUFFICES ASSUME Init
             PROVE  WalkInv
  OBVIOUS
<1>1. TypeOK
  BY InitInv DEF Inv
<1>2. IsInjective(map.select)
  BY InputAssumption DEF Init
<1>3. ASSUME NEW c \in Cell
      PROVE  ~Past(c)
  BY <1>1, CellFacts DEF Init, Past
<1>4. FirstCells \subseteq Cell
  BY DEF FirstCells
<1>5. \A r \in DOMAIN table : r \in Nat /\ r >= 1
  BY <1>1, PositionFacts
<1>6. docs = <<>> /\ found = <<>> /\ outcome = "running" /\ DOMAIN <<>> = {}
  BY DEF Init
<1>7. NamedAreFound /\ DocumentsAreFirst /\ InOrder
  BY <1>3, <1>6 DEF NamedAreFound, DocumentsAreFirst, InOrder
<1>8. RowsAccepted
  BY <1>5 DEF Init, RowsAccepted
<1>9. NoneOrphaned /\ EndIsReasoned
  BY <1>3, <1>4, <1>6 DEF NoneOrphaned, EndIsReasoned
<1>10. QED
  BY <1>2, <1>7, <1>8, <1>9 DEF WalkInv

\* The loops are at a cell of a row with a root key.
LEMMA AtFacts ==
  ASSUME Inv, WalkInv, NEW p \in Prefixes, At(p)
  PROVE  /\ outcome = "running" /\ row \in DOMAIN table /\ ~HasNull(KeyOf(Root, row))
         /\ Here \in Cell /\ Here[1] = p /\ Here[2] = row
         /\ Key(Here) = KeyOf(p, row) /\ ParentKey(Here) = ParentKeyOf(p, row)
         /\ \A c \in Cell : Past(c) <=> Precedes(c, Here)
  BY HereFacts DEF At, Inv, WalkInv, Key, ParentKey

\* A cell that names a new document is the first with its key, and the other way
\* around.
LEMMA NewIsFirst ==
  ASSUME Inv, WalkInv, NEW p \in Prefixes, At(p)
  PROVE  IsNew(p) <=> Here \in FirstCells
<1>1. /\ Here \in Cell /\ Key(Here) = KeyOf(p, row)
      /\ ParentKey(Here) = ParentKeyOf(p, row)
      /\ \A c \in Cell : Past(c) <=> Precedes(c, Here)
  BY AtFacts
<1>2. ASSUME IsNew(p)
      PROVE  Here \in FirstCells
  BY <1>1, <1>2 DEF IsNew, FirstCells, Names, WalkInv, NamedAreFound
<1>3. ASSUME Here \in FirstCells
      PROVE  IsNew(p)
  <2>1. /\ Names(Here)
        /\ ~\E d \in Cell : Names(d) /\ Key(d) = Key(Here) /\ Precedes(d, Here)
    BY <1>3 DEF FirstCells
  <2>2. SUFFICES ASSUME Key(Here) \in DOMAIN found
                 PROVE  FALSE
    BY <1>1, <2>1 DEF IsNew, Names
  <2>3. found[Key(Here)] \in DOMAIN docs /\ docs[found[Key(Here)]].key = Key(Here)
    BY <2>2 DEF Inv, TypeOK, WalkInv, NamedAreFound
  <2>4. PICK c \in FirstCells : Past(c) /\ IsDocumentOf(found[Key(Here)], c)
    BY <2>3 DEF WalkInv, DocumentsAreFirst
  <2>5. c \in Cell /\ Names(c) /\ Key(c) = Key(Here) /\ Precedes(c, Here)
    BY <1>1, <2>3, <2>4 DEF FirstCells, IsDocumentOf
  <2>6. QED
    BY <2>1, <2>5
<1>4. QED
  BY <1>2, <1>3

\* A step of the loops that is not one of a lost parent: the rows and the cells
\* behind it are in order.
LEMMA AdvanceKeepsRows ==
  ASSUME Inv, WalkInv, NEW p \in Prefixes, At(p), Advance,
         Here \in FirstCells => ~Orphan(Here)
  PROVE  IsInjective(map.select)' /\ RowsAccepted' /\ NoneOrphaned' /\ EndIsReasoned'
<1>1. /\ outcome = "running" /\ row \in DOMAIN table /\ ~HasNull(KeyOf(Root, row))
      /\ UNCHANGED <<map, table, outcome>>
  BY AtFacts DEF Advance, inputVars
<1>2. IsInjective(map.select)'
  BY <1>1 DEF WalkInv
<1>3. RowsAccepted'
  <2>1. \A r \in DOMAIN table : r < row' \/ (r = row' /\ column' > 1) =>
          r < row \/ r = row
    <3>1. row \in Nat /\ DOMAIN table \subseteq Nat
      BY PositionFacts DEF Inv
    <3>2. QED
      BY <3>1 DEF Advance
  <2>2. \A r \in DOMAIN table : r < row' \/ (r = row' /\ column' > 1) =>
          ~HasNull(KeyOf(Root, r))
    BY <1>1, <2>1 DEF WalkInv, RowsAccepted
  <2>3. QED
    BY <1>1, <2>2, SameRows DEF RowsAccepted
<1>4. NoneOrphaned'
  <2>1. \A d \in FirstCells : Past(d)' => ~Orphan(d)
    <3>1. \A d \in FirstCells : d \in Cell /\ (Past(d)' <=> Past(d) \/ d = Here)
      BY <1>1, AdvancePasses DEF FirstCells, Inv, WalkInv
    <3>2. QED
      BY <3>1 DEF WalkInv, NoneOrphaned
  <2>2. FirstCells' = FirstCells /\ \A d : Orphan(d)' <=> Orphan(d)
    BY <1>1, SameRows
  <2>3. QED
    BY <2>1, <2>2 DEF NoneOrphaned
<1>5. EndIsReasoned'
  BY <1>1 DEF EndIsReasoned
<1>6. QED
  BY <1>2, <1>3, <1>4, <1>5

\* A cell without a new document is passed over.
LEMMA SkipKeepsWalk ==
  ASSUME Inv, WalkInv, NEW p \in Prefixes, Skip(p)
  PROVE  WalkInv'
<1>1. /\ At(p) /\ ~IsNew(p) /\ Advance /\ Here \notin FirstCells
      /\ UNCHANGED <<map, table, docs, found>> /\ row \in DOMAIN table
  BY NewIsFirst DEF Skip, Advance, inputVars, At
<1>2. /\ Cell' = Cell /\ FirstCells' = FirstCells
      /\ \A c : (Key(c))' = Key(c) /\ (ParentKey(c))' = ParentKey(c)
      /\ \A c : Names(c)' <=> Names(c)
      /\ \A c, d : Precedes(c, d)' <=> Precedes(c, d)
  BY <1>1, SameRows
<1>3. \A c \in Cell : Past(c)' <=> Past(c) \/ c = Here
  BY <1>1, AdvancePasses DEF Inv, WalkInv
<1>4. FirstCells \subseteq Cell
  BY DEF FirstCells
<1>5. NamedAreFound'
  <2>1. Names(Here) => Key(Here) \in DOMAIN found
    BY <1>1, AtFacts DEF IsNew, Names
  <2>2. \A c \in Cell : Past(c)' /\ Names(c) => Key(c) \in DOMAIN found
    BY <1>3, <2>1 DEF WalkInv, NamedAreFound
  <2>3. QED
    BY <1>1, <1>2, <2>2 DEF WalkInv, NamedAreFound
<1>6. \A n, c : IsDocumentOf(n, c)' <=> IsDocumentOf(n, c)
  BY <1>1, <1>2 DEF IsDocumentOf
<1>7. DocumentsAreFirst'
  <2>1. \A n \in DOMAIN docs : \E c \in FirstCells : Past(c)' /\ IsDocumentOf(n, c)
    BY <1>3, <1>4 DEF WalkInv, DocumentsAreFirst
  <2>2. QED
    BY <1>1, <1>2, <1>6, <2>1 DEF DocumentsAreFirst
<1>8. InOrder'
  BY <1>1, <1>2 DEF WalkInv, InOrder
<1>9. QED
  BY <1>1, <1>5, <1>7, <1>8, AdvanceKeepsRows DEF WalkInv

\* What the documents are after one more was added for the first cell here.
LEMMA AddKeepsDocuments ==
  ASSUME Inv, WalkInv, UNCHANGED <<map, table>>,
         NEW here \in FirstCells, NEW last, last = Len(docs) + 1,
         NEW doc, doc.key = Key(here), doc.prefix = here[1],
         doc.parent \in 0..Len(docs), doc.parent = 0 <=> here[1] = Root,
         here[1] # Root => /\ docs[doc.parent].key = ParentKey(here)
                           /\ doc.field = map.field[here[1]],
         AddDocument(doc), doc.key \notin DOMAIN found,
         \A c \in Cell : Past(c) <=> Precedes(c, here),
         \A c \in Cell : Past(c)' <=> Past(c) \/ c = here
  PROVE  NamedAreFound' /\ DocumentsAreFirst' /\ InOrder'
<1>1. docs \in Seq(DocType) /\ Len(docs) \in Nat /\ DOMAIN docs = 1..Len(docs)
  BY DEF Inv, TypeOK
<1>2. /\ last \in Nat /\ DOMAIN docs' = DOMAIN docs \cup {last}
      /\ \A n \in DOMAIN docs : n < last /\ n \in Nat
      /\ \A n \in DOMAIN docs : docs'[n] = docs[n]
      /\ docs'[last] = doc
  BY <1>1 DEF AddDocument
<1>3. /\ DOMAIN found' = DOMAIN found \cup {doc.key}
      /\ found'[doc.key] = last
      /\ \A k \in DOMAIN found : found'[k] = found[k]
  BY DEF AddDocument
<1>4. /\ Cell' = Cell /\ FirstCells' = FirstCells
      /\ \A c : (Key(c))' = Key(c) /\ (ParentKey(c))' = ParentKey(c)
      /\ \A c : Names(c)' <=> Names(c)
      /\ \A c, d : Precedes(c, d)' <=> Precedes(c, d)
  BY SameRows
<1>5. FirstCells \subseteq Cell
  BY DEF FirstCells
<1>6. NamedAreFound'
  <2>1. \A c \in Cell : Past(c)' /\ Names(c) => Key(c) \in DOMAIN found'
    BY <1>3 DEF WalkInv, NamedAreFound
  <2>2. \A k \in DOMAIN found' : docs'[found'[k]].key = k
    BY <1>2, <1>3 DEF WalkInv, NamedAreFound, Inv, TypeOK
  <2>3. QED
    BY <1>4, <2>1, <2>2 DEF NamedAreFound
<1>7. ASSUME NEW n \in DOMAIN docs, NEW c \in FirstCells, IsDocumentOf(n, c)
      PROVE  IsDocumentOf(n, c)'
  <2>1. docs'[n] = docs[n] /\ (Key(c))' = Key(c) /\ (ParentKey(c))' = ParentKey(c)
    BY <1>2, <1>4
  <2>2. docs[n].parent # 0 => docs[n].parent \in DOMAIN docs
    <3>1. docs[n] \in DocType
      BY <1>1
    <3>2. docs[n].parent \in Nat /\ docs[n].parent < n
      BY <3>1 DEF DocType, Inv, DocumentsFormForest
    <3>3. QED
      BY <1>1, <3>2
  <2>3. docs[n].parent # 0 => docs'[docs[n].parent] = docs[docs[n].parent]
    BY <1>2, <2>2
  <2>4. QED
    BY <1>7, <2>1, <2>3 DEF IsDocumentOf
<1>8. IsDocumentOf(last, here)'
  <2>1. doc.parent # 0 => docs'[doc.parent] = docs[doc.parent]
    BY <1>1, <1>2
  <2>2. QED
    BY <1>2, <1>4, <2>1 DEF IsDocumentOf
<1>9. DocumentsAreFirst'
  <2>1. ASSUME NEW n \in DOMAIN docs'
        PROVE  \E c \in FirstCells : Past(c)' /\ IsDocumentOf(n, c)'
    <3>1. CASE n \in DOMAIN docs
      BY <1>5, <1>7, <3>1 DEF WalkInv, DocumentsAreFirst
    <3>2. CASE n = last
      BY <1>5, <1>8, <3>2
    <3>3. QED
      BY <1>2, <2>1, <3>1, <3>2
  <2>2. QED
    BY <1>4, <2>1 DEF DocumentsAreFirst
<1>10. InOrder'
  <2>1. SUFFICES ASSUME NEW m \in DOMAIN docs', NEW n \in DOMAIN docs', m < n,
                        NEW c \in FirstCells, NEW d \in FirstCells,
                        Key(c) = docs'[m].key, Key(d) = docs'[n].key
                 PROVE  Precedes(c, d)
    BY <1>4 DEF InOrder
  <2>2. m \in DOMAIN docs
    BY <1>2, <2>1
  <2>3. CASE n \in DOMAIN docs
    BY <1>2, <2>1, <2>2, <2>3 DEF WalkInv, InOrder
  <2>4. CASE n = last
    <3>1. d = here
      BY <1>2, <2>1, <2>4, FirstCellIsUnique DEF Inv, WalkInv
    <3>2. PICK e \in FirstCells : Past(e) /\ IsDocumentOf(m, e)
      BY <2>2 DEF WalkInv, DocumentsAreFirst
    <3>3. e = c
      BY <1>2, <2>1, <2>2, <3>2, FirstCellIsUnique DEF IsDocumentOf, Inv, WalkInv
    <3>4. QED
      BY <1>5, <3>1, <3>2, <3>3
  <2>5. QED
    BY <1>2, <2>1, <2>3, <2>4
<1>11. QED
  BY <1>6, <1>9, <1>10

\* A document is added for the cell that the loops are at, which has a parent.
LEMMA AddKeepsWalk ==
  ASSUME Inv, WalkInv, NEW p \in Prefixes, At(p), IsNew(p), Advance,
         NEW parent \in 0..Len(docs), NEW field,
         AddDocument([prefix |-> p, key |-> KeyOf(p, row),
                      parent |-> parent, field |-> field]),
         parent = 0 <=> p = Root,
         p # Root => /\ docs[parent].key = ParentKeyOf(p, row)
                     /\ field = map.field[p],
         ~Orphan(Here)
  PROVE  WalkInv'
<1>1. PICK here : here = Here
  OBVIOUS
<1>2. PICK last : last = Len(docs) + 1
  OBVIOUS
<1>3. PICK doc : doc = [prefix |-> p, key |-> KeyOf(p, row),
                        parent |-> parent, field |-> field]
  OBVIOUS
<1>4. /\ UNCHANGED <<map, table>> /\ row \in DOMAIN table /\ here \in FirstCells
      /\ here[1] = p /\ Key(here) = KeyOf(p, row)
      /\ ParentKey(here) = ParentKeyOf(p, row) /\ KeyOf(p, row) \notin DOMAIN found
      /\ \A c \in Cell : Past(c) <=> Precedes(c, here)
  BY <1>1, AtFacts, NewIsFirst DEF Advance, inputVars, IsNew
<1>5. \A c \in Cell : Past(c)' <=> Past(c) \/ c = here
  BY <1>1, <1>4, AdvancePasses DEF Inv, WalkInv
<1>6. /\ doc.key = KeyOf(p, row) /\ doc.prefix = p
      /\ doc.parent = parent /\ doc.field = field /\ AddDocument(doc)
  BY <1>3
<1>7. NamedAreFound' /\ DocumentsAreFirst' /\ InOrder'
  BY <1>2, <1>4, <1>5, <1>6, AddKeepsDocuments
<1>8. QED
  BY <1>7, AdvanceKeepsRows DEF WalkInv

\* The parent of a child is the document that its cell's parent key was first
\* named for, and the child has a parent when that document has not moved.
LEMMA ParentIsFound ==
  ASSUME Inv, WalkInv, NEW p \in Prefixes, At(p), IsNew(p), p # Root
  PROVE  Orphan(Here) <=>
           (HasParent(p) => Moved(found[ParentKeyOf(p, row)]))
<1>1. /\ row \in DOMAIN table /\ Here \in Cell /\ Here[1] = p
      /\ ParentKey(Here) = ParentKeyOf(p, row)
      /\ \A c \in Cell : Past(c) <=> Precedes(c, Here)
  BY AtFacts
<1>2. FirstCells \subseteq Cell
  BY DEF FirstCells
<1>3. CASE map.field[p] = Null
  BY <1>1, <1>3 DEF Orphan, HasParent
<1>4. CASE map.field[p] # Null /\ ParentKeyOf(p, row) \notin DOMAIN found
  <2>1. ASSUME NEW c \in FirstCells, IsParent(c, Here), Precedes(c, Here)
        PROVE  FALSE
    <3>1. Past(c) /\ Names(c) /\ Key(c) = ParentKeyOf(p, row)
      BY <1>1, <1>2, <2>1 DEF FirstCells, IsParent
    <3>2. QED
      BY <1>2, <1>4, <3>1 DEF WalkInv, NamedAreFound
  <2>2. Orphan(Here)
    BY <1>1, <2>1 DEF Orphan
  <2>3. QED
    BY <1>4, <2>2 DEF HasParent
<1>5. CASE map.field[p] # Null /\ ParentKeyOf(p, row) \in DOMAIN found
  <2> DEFINE n == found[ParentKeyOf(p, row)]
  <2>1. n \in DOMAIN docs /\ docs[n].key = ParentKeyOf(p, row)
    BY <1>5 DEF WalkInv, NamedAreFound, Inv, TypeOK
  <2>2. PICK c \in FirstCells : Past(c) /\ IsDocumentOf(n, c)
    BY <2>1 DEF WalkInv, DocumentsAreFirst
  <2>3. IsParent(c, Here) /\ Precedes(c, Here)
    BY <1>1, <1>2, <2>1, <2>2 DEF IsDocumentOf, IsParent
  <2>4. \A d \in FirstCells : IsParent(d, Here) => d = c
    BY <2>3, FirstCellIsUnique DEF IsParent, Inv, WalkInv
  <2>5. Orphan(Here) <=> MovesBetween(c, Here)
    BY <1>1, <1>5, <2>3, <2>4 DEF Orphan
  <2>6. Moved(n) <=> MovesBetween(c, Here)
    BY <1>1, <2>1, <2>2, MovedIsGrown
  <2>7. QED
    BY <1>5, <2>5, <2>6 DEF HasParent
<1>6. QED
  BY <1>3, <1>4, <1>5

\* A step that leaves the loops and the documents where they are.
LEMMA StopKeepsWalk ==
  ASSUME Inv, WalkInv, UNCHANGED <<map, table, row, column, docs, found>>,
         EndIsReasoned'
  PROVE  WalkInv'
<1>1. /\ Cell' = Cell /\ FirstCells' = FirstCells
      /\ \A c : (Key(c))' = Key(c) /\ (ParentKey(c))' = ParentKey(c)
      /\ \A c : Names(c)' <=> Names(c)
      /\ \A c, d : Precedes(c, d)' <=> Precedes(c, d)
      /\ \A d : Orphan(d)' <=> Orphan(d)
      /\ \A r : HasNull(KeyOf(Root, r))' <=> HasNull(KeyOf(Root, r))
  BY SameRows
<1>2. \A c : Past(c)' <=> Past(c)
  BY DEF Past
<1>3. \A n, c : IsDocumentOf(n, c)' <=> IsDocumentOf(n, c)
  BY <1>1 DEF IsDocumentOf
<1>4. IsInjective(map.select)'
  BY DEF WalkInv
<1>5. NamedAreFound'
  BY <1>1, <1>2 DEF WalkInv, NamedAreFound
<1>6. DocumentsAreFirst'
  BY <1>1, <1>2, <1>3 DEF WalkInv, DocumentsAreFirst
<1>7. InOrder'
  BY <1>1 DEF WalkInv, InOrder
<1>8. RowsAccepted'
  BY <1>1 DEF WalkInv, RowsAccepted
<1>9. NoneOrphaned'
  BY <1>1, <1>2 DEF WalkInv, NoneOrphaned
<1>10. QED
  BY <1>4, <1>5, <1>6, <1>7, <1>8, <1>9 DEF WalkInv

\* A lost parent ends the walk at a first cell without a parent.
LEMMA LoseParentKeepsWalk ==
  ASSUME Inv, WalkInv, NEW p \in Prefixes, LoseParent(p)
  PROVE  WalkInv'
<1>1. /\ At(p) /\ IsNew(p) /\ p # Root /\ outcome' = "undefined"
      /\ UNCHANGED <<map, table, row, column, docs, found>>
      /\ HasParent(p) => Moved(found[ParentKeyOf(p, row)])
  BY DEF LoseParent, inputVars
<1>2. /\ row \in DOMAIN table /\ ~HasNull(KeyOf(Root, row))
      /\ Here \in FirstCells /\ Orphan(Here)
  BY <1>1, AtFacts, NewIsFirst, ParentIsFound
<1>3. PICK here : here = Here
  OBVIOUS
<1>4. Here' = here /\ FirstCells' = FirstCells /\ (Orphan(here)' <=> Orphan(here))
  BY <1>1, <1>3, SameRows DEF Here
<1>5. HasNull(KeyOf(Root, row))' <=> HasNull(KeyOf(Root, row))
  BY <1>1 DEF HasNull, KeyOf, Cells
<1>6. \E d \in FirstCells' : d = Here' /\ Orphan(d)'
  BY <1>2, <1>3, <1>4
<1>7. EndIsReasoned'
  BY <1>1, <1>2, <1>5, <1>6 DEF EndIsReasoned
<1>8. QED
  BY <1>1, <1>7, StopKeepsWalk

\* Every step of the mapping keeps the invariant of the walk.
LEMMA NextWalkInv == Inv /\ WalkInv /\ [Next]_vars => WalkInv'
<1> SUFFICES ASSUME Inv, WalkInv, [Next]_vars
             PROVE  WalkInv'
  OBVIOUS
<1>1. CASE UNCHANGED vars
  <2>1. UNCHANGED <<map, table, row, column, docs, found, outcome>>
    BY <1>1 DEF vars, inputVars
  <2>2. EndIsReasoned'
    <3>1. /\ Here' = Here /\ FirstCells' = FirstCells
          /\ \A d : Orphan(d)' <=> Orphan(d)
      BY <2>1, SameRows DEF Here
    <3>2. HasNull(KeyOf(Root, row))' <=> HasNull(KeyOf(Root, row))
      BY <2>1 DEF HasNull, KeyOf, Cells
    <3>3. QED
      BY <2>1, <3>1, <3>2 DEF WalkInv, EndIsReasoned
  <2>3. QED
    BY <2>1, <2>2, StopKeepsWalk
<1>2. CASE RejectRow
  <2>1. /\ UNCHANGED <<map, table, row, column, docs, found>> /\ outcome' = "error"
        /\ row \in DOMAIN table /\ HasNull(KeyOf(Root, row))
    BY <1>2 DEF RejectRow, inputVars
  <2>2. EndIsReasoned'
    BY <2>1 DEF EndIsReasoned, HasNull, KeyOf, Cells
  <2>3. QED
    BY <2>1, <2>2, StopKeepsWalk
<1>3. CASE Finish
  <2>1. /\ UNCHANGED <<map, table, row, column, docs, found>> /\ outcome' = "done"
        /\ row \notin DOMAIN table
    BY <1>3 DEF Finish, inputVars
  <2>2. EndIsReasoned'
    BY <2>1 DEF EndIsReasoned
  <2>3. QED
    BY <2>1, <2>2, StopKeepsWalk
<1>4. ASSUME NEW p \in Prefixes, Skip(p)
      PROVE  WalkInv'
  BY <1>4, SkipKeepsWalk
<1>5. ASSUME NEW p \in Prefixes, AddRoot(p)
      PROVE  WalkInv'
  <2>1. /\ At(p) /\ IsNew(p) /\ p = Root /\ Advance
        /\ AddDocument([prefix |-> p, key |-> KeyOf(p, row),
                        parent |-> 0, field |-> Null])
    BY <1>5 DEF AddRoot
  <2>2. 0 \in 0..Len(docs)
    BY DEF Inv, TypeOK
  <2>3. ~Orphan(Here)
    BY <2>1, AtFacts DEF Orphan
  <2>4. QED
    BY <2>1, <2>2, <2>3, AddKeepsWalk
<1>6. ASSUME NEW p \in Prefixes, AddChild(p)
      PROVE  WalkInv'
  <2>1. /\ At(p) /\ IsNew(p) /\ p # Root /\ Advance /\ HasParent(p)
        /\ ~Moved(found[ParentKeyOf(p, row)])
        /\ AddDocument([prefix |-> p, key |-> KeyOf(p, row),
                        parent |-> found[ParentKeyOf(p, row)],
                        field |-> map.field[p]])
    BY <1>6 DEF AddChild
  <2>2. ParentKeyOf(p, row) \in DOMAIN found
    BY <2>1 DEF HasParent
  <2>3. PICK parent : parent = found[ParentKeyOf(p, row)]
    OBVIOUS
  <2>4. PICK field : field = map.field[p]
    OBVIOUS
  <2>5. /\ parent \in 0..Len(docs) /\ parent # 0
        /\ docs[parent].key = ParentKeyOf(p, row)
    BY <2>2, <2>3 DEF Inv, TypeOK, WalkInv, NamedAreFound
  <2>6. ~Orphan(Here)
    BY <2>1, ParentIsFound
  <2>7. AddDocument([prefix |-> p, key |-> KeyOf(p, row),
                     parent |-> parent, field |-> field])
    BY <2>1, <2>3, <2>4
  <2>8. QED
    BY <2>1, <2>4, <2>5, <2>6, <2>7, AddKeepsWalk
<1>7. ASSUME NEW p \in Prefixes, LoseParent(p)
      PROVE  WalkInv'
  BY <1>7, LoseParentKeepsWalk
<1>8. QED
  BY <1>1, <1>2, <1>3, <1>4, <1>5, <1>6, <1>7 DEF Next

\* Between two steps the documents are those of the first cells behind the loops,
\* in their order, and none of these cells is without a parent.
THEOREM WalkInvariance == Spec => []WalkInv
<1>1. QED
  BY InitWalkInv, NextWalkInv, Invariance, PTL DEF Spec

-----------------------------------------------------------------------------
(* What the walk says of the outcome and of the answer.                     *)

\* There are finitely many cells.
LEMMA CellsAreFinite ==
  ASSUME TypeOK
  PROVE  IsFiniteSet(Cell) /\ IsFiniteSet(FirstCells)
<1>1. /\ DOMAIN map.select = 1..Len(map.select) /\ Len(map.select) \in Nat
      /\ DOMAIN table = 1..Len(table) /\ Len(table) \in Nat
  BY PositionFacts
<1>2. IsFiniteSet(1..Len(map.select)) /\ IsFiniteSet(1..Len(table))
  BY <1>1, FS_Interval
<1> DEFINE named == {map.select[i] : i \in DOMAIN map.select}
<1>3. IsFiniteSet(named)
  <2>1. map.select \in Surjection(1..Len(map.select), named)
    BY <1>1 DEF Surjection, TypeOK, MapType
  <2>2. QED
    BY <1>2, <2>1, FS_Surjection
<1>4. IsFiniteSet(Cell)
  BY <1>1, <1>2, <1>3, FS_Product DEF Cell
<1>5. FirstCells \subseteq Cell
  BY DEF FirstCells
<1>6. QED
  BY <1>4, <1>5, FS_Subset

\* When the rows are at their end the loops have been through every cell.
LEMMA EndIsPastAll ==
  ASSUME Inv, row \notin DOMAIN table
  PROVE  /\ \A c \in Cell : Past(c)
         /\ \A r \in DOMAIN table : r < row
<1>1. \A r \in DOMAIN table : r < row
  BY PositionFacts DEF Inv
<1>2. QED
  BY <1>1, CellFacts DEF Past, Inv

\* As many numbers as the last one says.
LEMMA IntervalSize ==
  ASSUME NEW n \in Nat
  PROVE  Cardinality(1..n) = n
<1>1. Cardinality(1..n) = IF 1 > n THEN 0 ELSE n - 1 + 1
  BY FS_Interval
<1>2. QED
  BY <1>1

\* The outcome is the one that the rows say.
LEMMA WalkGivesOutcome ==
  ASSUME Inv, WalkInv
  PROVE  OutcomeFollowsRows
<1> DEFINE orphans == {d \in FirstCells : Orphan(d)}
           rejected == {r \in DOMAIN table : HasNull(KeyOf(Root, r))}
<1>1. \A r \in DOMAIN table : r < row => r \notin rejected
  BY DEF WalkInv, RowsAccepted
<1>2. row \in Nat /\ DOMAIN table \subseteq Nat /\ FirstCells \subseteq Cell
  BY PositionFacts DEF Inv, FirstCells
<1>3. \A d \in orphans : ~Past(d)
  BY DEF WalkInv, NoneOrphaned
<1>4. ASSUME outcome = "undefined"
      PROVE  \E d \in orphans : \A r \in rejected : d[2] < r
  <2>1. /\ row \in DOMAIN table /\ row \notin rejected
        /\ \E d \in FirstCells : d = Here /\ Orphan(d)
    BY <1>4 DEF WalkInv, EndIsReasoned
  <2>2. Here \in orphans /\ Here[2] = row
    BY <2>1 DEF Here
  <2>3. \A r \in rejected : row < r
    BY <1>1, <1>2, <2>1
  <2>4. QED
    BY <2>2, <2>3
<1>5. ASSUME outcome = "error"
      PROVE  rejected # {} /\ \A d \in orphans : \E r \in rejected : r <= d[2]
  <2>1. row \in rejected
    BY <1>5 DEF WalkInv, EndIsReasoned
  <2>2. \A d \in orphans : row <= d[2]
    <3>1. \A d \in orphans : d[2] \in Nat
      BY <1>2, CellFacts DEF Inv
    <3>2. QED
      BY <1>2, <1>3, <3>1 DEF Past
  <2>3. QED
    BY <2>1, <2>2
<1>6. ASSUME outcome = "done"
      PROVE  orphans = {} /\ rejected = {}
  <2>1. row \notin DOMAIN table
    BY <1>6 DEF WalkInv, EndIsReasoned
  <2>2. QED
    BY <1>1, <1>2, <1>3, <2>1, EndIsPastAll
<1> HIDE DEF orphans, rejected
<1>7. QED
  BY <1>4, <1>5, <1>6 DEF OutcomeFollowsRows, orphans, rejected

\* The answer is the forest of the first cells.
LEMMA WalkGivesForest ==
  ASSUME Inv, WalkInv
  PROVE  AnswerIsTheForest
<1> SUFFICES ASSUME outcome = "done"
             PROVE  /\ Len(docs) = Cardinality(FirstCells)
                    /\ \A c \in FirstCells : \E n \in DOMAIN docs :
                         /\ IsDocumentOf(n, c)
                         /\ n = 1 + Cardinality({d \in FirstCells : Precedes(d, c)})
                    /\ Unambiguous => \A c \in Cell : Names(c) =>
                         \E n \in DOMAIN docs : IsDocumentOf(n, c)
  BY DEF AnswerIsTheForest
<1>1. /\ \A c \in Cell : Past(c)
      /\ FirstCells \subseteq Cell
  BY EndIsPastAll DEF WalkInv, EndIsReasoned, FirstCells
<1>2. \A c \in FirstCells : \E n \in DOMAIN docs : IsDocumentOf(n, c)
  BY <1>1, FirstCellHasDocument
<1>3. \A n \in DOMAIN docs : \E c \in FirstCells : IsDocumentOf(n, c)
  BY DEF WalkInv, DocumentsAreFirst
<1>4. Len(docs) \in Nat /\ DOMAIN docs = 1..Len(docs)
  BY DEF Inv, TypeOK
<1>5. Len(docs) = Cardinality(FirstCells)
  <2>1. Cardinality(FirstCells) = Cardinality(DOMAIN docs)
    BY <1>2, <1>3, CountByCells
  <2>2. Cardinality(1..Len(docs)) = Len(docs)
    BY <1>4, IntervalSize
  <2>3. QED
    BY <1>4, <2>1, <2>2
<1>6. ASSUME NEW c \in FirstCells
      PROVE  \E n \in DOMAIN docs :
               /\ IsDocumentOf(n, c)
               /\ n = 1 + Cardinality({d \in FirstCells : Precedes(d, c)})
  <2>1. PICK n \in DOMAIN docs : IsDocumentOf(n, c)
    BY <1>2
  <2> DEFINE S == 1..n - 1
             T == {d \in FirstCells : Precedes(d, c)}
  <2>2. n \in Nat /\ 1 <= n /\ n <= Len(docs)
    BY <1>4
  <2>3. S \in SUBSET DOMAIN docs /\ T \in SUBSET FirstCells
    BY <1>4, <2>2
  <2>4. \A m \in DOMAIN docs : m \in S <=> m < n
    BY <1>4, <2>2
  <2>5. \A m \in DOMAIN docs : \A d \in FirstCells :
          IsDocumentOf(m, d) => (m < n <=> Precedes(d, c))
    BY <2>1, DocumentOrder
  <2>6. \A m \in S : \E d \in T : IsDocumentOf(m, d)
    BY <1>3, <2>3, <2>4, <2>5
  <2>7. \A d \in T : \E m \in S : IsDocumentOf(m, d)
    BY <1>2, <2>3, <2>4, <2>5
  <2>8. Cardinality(T) = Cardinality(S)
    BY <2>3, <2>6, <2>7, CountByCells
  <2>9. Cardinality(S) = n - 1
    BY <2>2, IntervalSize
  <2>10. n = 1 + Cardinality(T)
    BY <2>2, <2>8, <2>9
  <2>11. QED
    BY <2>1, <2>10
<1>7. ASSUME Unambiguous, NEW c \in Cell, Names(c)
      PROVE  \E n \in DOMAIN docs : IsDocumentOf(n, c)
  <2>1. /\ Key(c) \in DOMAIN found /\ found[Key(c)] \in DOMAIN docs
        /\ docs[found[Key(c)]].key = Key(c)
    BY <1>1, <1>7 DEF WalkInv, NamedAreFound, Inv, TypeOK
  <2>2. PICK d \in FirstCells : IsDocumentOf(found[Key(c)], d)
    BY <1>3, <2>1
  <2>3. d \in Cell /\ Names(d) /\ Key(d) = Key(c)
    BY <2>1, <2>2 DEF FirstCells, IsDocumentOf
  <2>4. d[1] = c[1] /\ ParentKey(d) = ParentKey(c)
    BY <1>7, <2>3 DEF Unambiguous
  <2>5. QED
    BY <2>1, <2>2, <2>3, <2>4 DEF IsDocumentOf
<1>8. QED
  BY <1>5, <1>6, <1>7

\* An array moves between two cells only when two of its cells are walked on the
\* way: one that is neither before the first cell nor the first cell itself.
LEMMA MovingTakesTwo ==
  ASSUME TypeOK, NEW c \in FirstCells, NEW d \in FirstCells, MovesBetween(c, d)
  PROVE  \E e \in FirstCells :
           InOneArray(c, e) /\ Precedes(e, d) /\ ~Precedes(e, c) /\ e # c
<1> DEFINE array == {e \in FirstCells : InOneArray(c, e)}
           T0 == {e \in array : Precedes(e, c)}
           T == {e \in array : Precedes(e, d)}
<1>1. PICK n \in Cardinality(T0) + 1..Cardinality(T) - 1 : Full(n)
  BY DEF MovesBetween
<1>2. IsFiniteSet(T0) /\ IsFiniteSet(T)
  <2>1. T0 \subseteq FirstCells /\ T \subseteq FirstCells
    OBVIOUS
  <2>2. QED
    BY <2>1, CellsAreFinite, FS_Subset
<1>3. /\ IsFiniteSet(T0 \cup {c})
      /\ Cardinality(T0 \cup {c}) <= Cardinality(T0) + 1
      /\ Cardinality(T0) \in Nat /\ Cardinality(T) \in Nat
      /\ Cardinality(T0 \cup {c}) \in Nat
  <2> HIDE DEF T0, T
  <2>1. IsFiniteSet(T0 \cup {c})
    BY <1>2, FS_AddElement
  <2>2. Cardinality(T0 \cup {c}) =
          IF c \in T0 THEN Cardinality(T0) ELSE Cardinality(T0) + 1
    BY <1>2, FS_AddElement
  <2>3. /\ Cardinality(T0) \in Nat /\ Cardinality(T) \in Nat
        /\ Cardinality(T0 \cup {c}) \in Nat
    BY <1>2, <2>1, FS_CardinalityType
  <2>4. QED
    BY <2>1, <2>2, <2>3
<1>4. Cardinality(T0) + 2 <= Cardinality(T)
  BY <1>1, <1>3
<1>5. ~(T \subseteq T0 \cup {c})
  BY <1>3, <1>4, FS_Subset
<1>6. QED
  BY <1>5

\* A parent is lost only to rows that come back.
LEMMA WalkGivesSortedRows ==
  ASSUME Inv, WalkInv
  PROVE  SortedRowsAreSafe
<1> SUFFICES ASSUME outcome = "undefined",
                    \A c, d \in FirstCells : InOneArray(c, d) => c[1] = d[1],
                    \A d \in FirstCells : d[1] # Root =>
                      /\ map.field[d[1]] # Null
                      /\ \E c \in FirstCells :
                           /\ IsParent(c, d) /\ Precedes(c, d)
                           /\ map.key[c[1]] = map.parentKey[d[1]]
             PROVE  \E d \in FirstCells, c \in Cell :
                      IsParent(c, d) /\ c[2] = d[2] /\ Returns(c)
  BY DEF SortedRowsAreSafe
<1>1. FirstCells \subseteq Cell
  BY DEF FirstCells
<1>2. PICK d \in FirstCells : Orphan(d)
  BY DEF WalkInv, EndIsReasoned
<1>3. d[1] # Root
  BY <1>2 DEF Orphan
<1>4. PICK c \in FirstCells : /\ IsParent(c, d) /\ Precedes(c, d)
                              /\ map.key[c[1]] = map.parentKey[d[1]]
  BY <1>3
<1>5. MovesBetween(c, d)
  BY <1>2, <1>3, <1>4 DEF Orphan
<1>6. PICK e \in FirstCells :
        InOneArray(c, e) /\ Precedes(e, d) /\ ~Precedes(e, c) /\ e # c
  BY <1>5, MovingTakesTwo DEF Inv
<1>7. /\ c \in Cell /\ d \in Cell /\ e \in Cell /\ e[1] = c[1]
      /\ c = <<c[1], c[2]>> /\ e = <<e[1], e[2]>>
      /\ c[2] \in Nat /\ d[2] \in Nat /\ e[2] \in Nat
  BY <1>1, <1>6, CellFacts DEF Inv
<1>8. c[2] < e[2]
  <2>1. Precedes(c, e)
    BY <1>6, <1>7, CellsAreOrdered DEF Inv, WalkInv
  <2>2. ~(c[2] = e[2])
    BY <1>6, <1>7
  <2>3. QED
    BY <2>1, <2>2 DEF Precedes
<1>9. PICK again : again = <<c[1], d[2]>>
  OBVIOUS
<1>10. again \in Cell /\ again[1] = c[1] /\ again[2] = d[2]
  BY <1>7, <1>9 DEF Cell
<1>11. Key(again) = ParentKey(d) /\ Key(c) = ParentKey(d)
  BY <1>4, <1>10 DEF IsParent, Key, ParentKey, KeyOf, ParentKeyOf
<1>12. Key(e) # Key(c)
  BY <1>6, FirstCellIsUnique DEF Inv, WalkInv
<1>13. e[2] < d[2]
  <2>1. e[2] <= d[2]
    BY <1>6, <1>7 DEF Precedes
  <2>2. e[2] # d[2]
    BY <1>7, <1>10, <1>11, <1>12 DEF Key
  <2>3. QED
    BY <1>7, <2>1, <2>2
<1>14. Returns(again)
  BY <1>7, <1>8, <1>10, <1>11, <1>12, <1>13 DEF Returns
<1>15. IsParent(again, d)
  BY <1>3, <1>11 DEF IsParent
<1>16. QED
  BY <1>10, <1>14, <1>15

\* For any map and any rows the mapping is undefined, fails or answers as the rows
\* say: a lost parent, a row without a root key, or neither of them.
THEOREM OutcomeIsThatOfRows == Spec => []OutcomeFollowsRows
<1>1. Inv /\ WalkInv => OutcomeFollowsRows
  BY WalkGivesOutcome
<1>2. QED
  BY <1>1, Invariance, WalkInvariance, PTL

\* For any map and any rows an answer has one document for each key, that of the
\* first cell with the key, in the order of these cells and below its own parent.
THEOREM AnswerIsForestOfRows == Spec => []AnswerIsTheForest
<1>1. Inv /\ WalkInv => AnswerIsTheForest
  BY WalkGivesForest
<1>2. QED
  BY <1>1, Invariance, WalkInvariance, PTL

\* With parents selected first and arrays of their own for the prefixes a parent is
\* lost only to rows that come back to a document.
THEOREM SortedRowsKeepParents == Spec => []SortedRowsAreSafe
<1>1. Inv /\ WalkInv => SortedRowsAreSafe
  BY WalkGivesSortedRows
<1>2. QED
  BY <1>1, Invariance, WalkInvariance, PTL
=============================================================================
