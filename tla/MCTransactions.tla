---------------------------- MODULE MCTransactions ----------------------------
(* Small instances of the handlers: the SQL store main, which may have an   *)
(* alias, and in one run the store cache, which is not SQL.                 *)
EXTENDS TransactionProperties, TLC

CONSTANTS main, cache, main_alias, unknown, t1, t2, a1, w1, w2

OnlyMain == {main}
MainAndCache == {main, cache}
OneEach == [s \in Stores |-> 1]
TwoMain == [s \in Stores |-> IF s = main THEN 2 ELSE 1]
ToMain == [a \in Aliases |-> main]
LimitOne == [a \in Authorizations |-> 1]
LimitTwo == [a \in Authorizations |-> 2]
ClientA == [id \in TxnIds |-> a1]

\* For runs without liveness: workers are alike, and so are the ids of one client.
Alike == Permutations(Workers) \cup Permutations(TxnIds)
=============================================================================
