------------------------------ MODULE MCRowMapping ------------------------------
EXTENDS RowMapping

CONSTANT None

Letters == {"A", "B", "C", "D", "E"}
Arrays == {"details", "others"}
Strings == {"1", "2", "3", "4", "b1", "b2", "c1", "c2"}

\* B and D are children of A, C of B and E of D.  The keys of a document are
\* those of its ancestors and its own, as in the stored requests of the tests.
OfAncestors ==
  [select |-> <<"A", "B", "C", "D", "E">>,
   key |-> [A |-> <<"A">>, B |-> <<"A", "B">>, C |-> <<"A", "B", "C">>,
            D |-> <<"A", "D">>, E |-> <<"A", "D", "E">>],
   parentKey |-> [A |-> <<>>, B |-> <<"A">>, C |-> <<"A", "B">>,
                  D |-> <<"A">>, E |-> <<"A", "D">>],
   field |-> [A |-> None, B |-> "details", C |-> "details",
              D |-> "others", E |-> "others"]]

\* The same with one array for B and D.
InOneField == [OfAncestors EXCEPT !.field = [@ EXCEPT !["D"] = "details"]]

\* Each document is known by its own column.
OfOwnColumn ==
  [OfAncestors EXCEPT
     !.key = [p \in Letters |-> <<p>>],
     !.parentKey = [A |-> <<>>, B |-> <<"A">>, C |-> <<"B">>,
                    D |-> <<"A">>, E |-> <<"D">>]]

ChildSelectedFirst == [OfAncestors EXCEPT !.select = <<"A", "C", "B", "D", "E">>]

Line(a, b, c, d, e) == [A |-> a, B |-> b, C |-> c, D |-> d, E |-> e]

UpTo(n, lines) == UNION {[1..m -> lines] : m \in 0..n}

\* A and B with C, with values that the prefixes share and with values of their own.
Chains ==
  {Line(a, b, c, None, None) : a \in {"1", "2"}, b, c \in {"1", "2", None}}
  \cup {Line(None, "1", "1", None, None)}

OwnValues ==
  {Line("1", b, c, None, None) : b \in {"b1", "b2", None}, c \in {"c1", "c2", None}}

\* Two branches below one root.
Branches ==
  {Line("1", b, None, d, e) :
     b \in {"1", "2"}, d \in {"1", "3"}, e \in {"1", "2", None}}

Lines ==
  {Line("1", b, c, None, None) : b \in {"1", "2", "3", "4"}, c \in {"1", "2"}}

\* Five rows of one root with up to four B, named in order of appearance.
LongChains ==
  {t \in [1..5 -> Lines] :
     /\ t[1].C = "1"
     /\ \A i \in 1..5 : \A v \in {<<"1", "2">>, <<"2", "3">>, <<"3", "4">>} :
          t[i].B = v[2] => \E j \in 1..i - 1 : t[j].B = v[1]}

Commands ==
  [map : {OfAncestors},
   table : UpTo(3, Chains) \cup UpTo(3, Branches) \cup LongChains]
  \cup [map : {InOneField}, table : UpTo(3, Branches)]
  \cup [map : {OfOwnColumn}, table : UpTo(3, OwnValues) \cup UpTo(2, Chains)]
  \cup [map : {ChildSelectedFirst}, table : UpTo(2, Chains)]
=============================================================================
