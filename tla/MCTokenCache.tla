----------------------------- MODULE MCTokenCache -----------------------------
(* Small instances of the token cache.                                      *)
EXTENDS TokenCache, TLC

CONSTANTS w1, w2, w3, own, shared

Clock == {0, 3}
=============================================================================
