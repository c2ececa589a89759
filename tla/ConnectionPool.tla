---------------------------- MODULE ConnectionPool ----------------------------
(***************************************************************************)
(* What a pool of store connections promises: a lease hands out a          *)
(* connection of the wanted store that nobody holds, a return makes a held *)
(* connection available again, and nothing else changes who holds what.    *)
(* The order in which idle connections are handed out is not promised.     *)
(***************************************************************************)
CONSTANTS Connections, Stores

VARIABLE idle     \* the connections nobody holds

Init == idle = Connections

Lease(s) == \E c \in idle : c.store = s /\ idle' = idle \ {c}

Return(c) == c \notin idle /\ idle' = idle \cup {c}

Next == (\E s \in Stores : Lease(s)) \/ (\E c \in Connections : Return(c))

Spec == Init /\ [][Next]_idle
=============================================================================
