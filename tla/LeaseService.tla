---------------------------- MODULE LeaseService ----------------------------
(***************************************************************************)
(* What internal/conn.Pool promises its callers, with no mention of        *)
(* semaphores, mutexes or goroutine program counters.                      *)
(*                                                                         *)
(* A connection is `fresh' (dialled, never lent), lent to exactly one      *)
(* borrower, or `pooled' (came back and may be lent again).  At most Limit *)
(* of them exist at once.  Once the service is shut a pooled connection is *)
(* never lent again; only a dial that was already under way may still be.  *)
(***************************************************************************)
EXTENDS Naturals, FiniteSets

CONSTANTS Borrowers,  \* the goroutines that call Acquire
          Conns,      \* connection identities
          Limit,      \* how many connections may exist at once
          NoConn      \* "this borrower holds nothing"

VARIABLES fresh,   \* connections dialled and not lent yet
          pooled,  \* connections that came back
          lent,    \* lent[b] is the connection b holds, or NoConn
          shut     \* Close has been called

lsVars == <<fresh, pooled, lent, shut>>

InUse == {lent[b] : b \in Borrowers} \ {NoConn}
Existing == fresh \union pooled \union InUse

LSInit ==
    /\ fresh = {}
    /\ pooled = {}
    /\ lent = [b \in Borrowers |-> NoConn]
    /\ shut = FALSE

\* A new connection, if the limit allows one more.
Connect(c) ==
    /\ c \notin Existing
    /\ Cardinality(Existing \union {c}) <= Limit
    /\ fresh' = fresh \union {c}
    /\ UNCHANGED <<pooled, lent, shut>>

\* Lend a connection nobody else holds.
Lend(b, c) ==
    /\ lent[b] = NoConn
    /\ c \notin InUse
    /\ \/ c \in fresh
       \/ c \in pooled /\ ~shut
    /\ lent' = [lent EXCEPT ![b] = c]
    /\ fresh' = fresh \ {c}
    /\ pooled' = pooled \ {c}
    /\ UNCHANGED shut

\* The borrower gives its connection back, to be pooled or closed.
TakeBack(b) ==
    /\ lent[b] # NoConn
    /\ lent' = [lent EXCEPT ![b] = NoConn]
    /\ pooled' \in {pooled, pooled \union {lent[b]}}
    /\ UNCHANGED <<fresh, shut>>

\* Close a connection that no borrower holds.
Disconnect(c) ==
    /\ c \in (fresh \union pooled) \ InUse
    /\ fresh' = fresh \ {c}
    /\ pooled' = pooled \ {c}
    /\ UNCHANGED <<lent, shut>>

Shut ==
    /\ shut' = TRUE
    /\ UNCHANGED <<fresh, pooled, lent>>

LSNext ==
    \/ \E c \in Conns : Connect(c)
    \/ \E c \in Conns : Disconnect(c)
    \/ \E b \in Borrowers : TakeBack(b)
    \/ \E b \in Borrowers, c \in Conns : Lend(b, c)
    \/ Shut

LSSpec == LSInit /\ [][LSNext]_lsVars
=============================================================================
