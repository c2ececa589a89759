--------------------------- MODULE ExclusiveSessions ---------------------------
(***************************************************************************)
(* What the transaction service promises about the database sessions of    *)
(* its pools.  A session serves one owner at a time, a transaction id or a *)
(* request; only its owner opens a transaction in it, works in it and ends *)
(* it; it is given up with no transaction open.  A session may be lost: it *)
(* then has no owner ever again.                                           *)
(***************************************************************************)
CONSTANTS Connections, Owners, Nobody, Lost

VARIABLES
  owner,  \* who each session serves
  open,   \* whether it is in a transaction
  work    \* whose commands that transaction holds

vars == <<owner, open, work>>

Init ==
  /\ owner = [c \in Connections |-> Nobody]
  /\ open = [c \in Connections |-> FALSE]
  /\ work = [c \in Connections |-> {}]

Serving(c) == owner[c] \in Owners

Acquire(o, c) ==
  /\ owner[c] = Nobody
  /\ owner' = [owner EXCEPT ![c] = o]
  /\ UNCHANGED <<open, work>>

Open(c) ==
  /\ Serving(c)
  /\ open' = [open EXCEPT ![c] = TRUE]
  /\ UNCHANGED <<owner, work>>

Work(c) ==
  /\ Serving(c) /\ open[c]
  /\ work' = [work EXCEPT ![c] = @ \cup {owner[c]}]
  /\ UNCHANGED <<owner, open>>

\* Commit or rollback: all the work of the transaction is that of the owner.
End(c) ==
  /\ Serving(c)
  /\ work[c] \subseteq {owner[c]}
  /\ open' = [open EXCEPT ![c] = FALSE]
  /\ work' = [work EXCEPT ![c] = {}]
  /\ UNCHANGED owner

Release(c) ==
  /\ Serving(c) /\ ~open[c] /\ work[c] = {}
  /\ owner' = [owner EXCEPT ![c] = Nobody]
  /\ UNCHANGED <<open, work>>

\* An error path drops the session while it serves someone, or right after it
\* was taken from the pool.
Lose(c) ==
  /\ owner[c] # Lost
  /\ owner' = [owner EXCEPT ![c] = Lost]
  /\ UNCHANGED <<open, work>>

Next ==
  \E c \in Connections :
    \/ \E o \in Owners : Acquire(o, c)
    \/ Open(c) \/ Work(c) \/ End(c) \/ Release(c) \/ Lose(c)

Spec == Init /\ [][Next]_vars
=============================================================================
