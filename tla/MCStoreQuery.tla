---------------------------- MODULE MCStoreQuery ----------------------------
(* Requests of up to two blocks with up to two commands each, over two ids,  *)
(* the same id twice included.                                               *)
EXTENDS StoreQuery, TLC

CONSTANTS a, b

IdSymmetry == Permutations(Ids)
=============================================================================
