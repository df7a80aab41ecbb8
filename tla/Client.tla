------------------------------- MODULE Client -------------------------------
(***************************************************************************)
(* A Client's life (client.go): New validates, dials, binds and reads the  *)
(* rootDSE under withConn; afterwards one of the pool's connections is     *)
(* borrowed, returned, lost and bound anew with the same Binder, the       *)
(* replication wait dials other controllers, and Close comes at any        *)
(* moment.  The pool and withConn themselves are in Pool and Exec; here a  *)
(* single pooled connection stands for each of them.                       *)
(***************************************************************************)
EXTENDS Bind

CONSTANTS StartConfigs,  \* the pairs of Config and environment New is called with
          MaxAttempts    \* RetryConfig.MaxAttempts after WithDefaults

ASSUME ClientAssumption ==
    /\ MaxAttempts \in Nat \ {0}
    /\ Slots = {"pool", "probe"}
    /\ StartConfigs \subseteq [cfg : Configs, env : Environments]

VARIABLES life,     \* start, acquire, backoff, ready, failed or closed
          attempt,  \* withConn's counter in New
          lent,     \* the pool's connection is borrowed or being made
          result    \* the Kind New returned, Nil for none

clientVars == <<life, attempt, lent, result>>
vars == <<bindVars, clientVars>>

ClientInit ==
    /\ \E p \in StartConfigs : cfg = p.cfg /\ env = p.env
    /\ sess = [s \in Slots |-> Closed]
    /\ keys = 0
    /\ life = "start" /\ attempt = 0 /\ lent = FALSE /\ result = Nil
-----------------------------------------------------------------------------
\* New up to newClient: nothing is dialled before the configuration is found good.
New ==
    /\ life = "start"
    /\ IF Validate(cfg) /\ TLSConfigBuilds(cfg)
       THEN life' = "acquire" /\ attempt' = 1 /\ lent' = TRUE /\ UNCHANGED result
       ELSE life' = "failed" /\ result' = "Constraint" /\ UNCHANGED <<attempt, lent>>
    /\ UNCHANGED bindVars

\* Acquire dials the pinned server.
Acquire ==
    /\ lent /\ sess["pool"].at = "off" /\ sess["pool"].err = Nil
    /\ Dial("pool", cfg.server)
    /\ UNCHANGED clientVars

\* Acquire failed: withConn retries no such error, and New closes its pool.
NewRefused ==
    /\ life = "acquire" /\ sess["pool"].err # Nil
    /\ life' = "failed" /\ lent' = FALSE /\ result' = sess["pool"].err
    /\ UNCHANGED <<bindVars, attempt>>

\* Mutant of NewFails: the pool is left as it is.
NewFailsOpen(kind) ==
    /\ life' = "failed" /\ lent' = FALSE /\ result' = kind
    /\ UNCHANGED <<cfg, env, keys, attempt, sess>>

\* New returns an error and closes its pool, the connection in it included.
NewFails(kind) ==
    /\ life' = "failed" /\ lent' = FALSE /\ result' = kind
    /\ Now("pool", Closed)
    /\ UNCHANGED <<cfg, env, keys, attempt>>

\* The rootDSE is read on the connection.  A failed read whose lease is released leaves
\* the connection in the pool New closes, one that is discarded is closed at once: a lost
\* socket is either, Unknown or Transport (see Exec).  A busy server is asked again.
ReadRootDSE(answer) ==
    /\ life = "acquire" /\ sess["pool"].at = "bound"
    /\ \/ /\ answer = "context"
          /\ life' = "ready" /\ lent' = FALSE
          /\ UNCHANGED <<bindVars, attempt, result>>
       \/ /\ answer = "busy" /\ attempt < MaxAttempts
          /\ life' = "backoff" /\ lent' = FALSE
          /\ UNCHANGED <<bindVars, attempt, result>>
       \/ answer = "busy" /\ attempt = MaxAttempts /\ NewFails("Transient")
       \/ answer = "refused" /\ NewFails("Refused")
       \/ answer \in {"no context", "no entry", "lost"} /\ NewFails("Transport")
       \/ answer = "lost" /\ NewFails("Unknown")

\* Backoff ends: the idle connection is borrowed again, or the context has ended.
Backoff ==
    /\ life = "backoff"
    /\ \/ /\ life' = "acquire" /\ attempt' = attempt + 1 /\ lent' = TRUE
          /\ UNCHANGED <<bindVars, result>>
       \/ NewFails("Context")
-----------------------------------------------------------------------------
\* An operation borrows the connection, or has one made.
Borrow ==
    /\ life = "ready" /\ ~lent
    /\ lent' = TRUE
    /\ Now("pool", [sess["pool"] EXCEPT !.err = Nil])
    /\ UNCHANGED <<cfg, env, keys, life, attempt, result>>

\* Its Acquire failed.
BorrowFails ==
    /\ life \in {"ready", "closed"} /\ lent /\ sess["pool"].err # Nil
    /\ lent' = FALSE
    /\ UNCHANGED <<bindVars, life, attempt, result>>

\* Release pools the connection while the pool is open; Discard closes it.
Return ==
    /\ life \in {"ready", "closed"} /\ lent /\ sess["pool"].at = "bound"
    /\ lent' = FALSE
    /\ \/ life = "ready" /\ UNCHANGED sess
       \/ Now("pool", Closed)
    /\ UNCHANGED <<cfg, env, keys, life, attempt, result>>

\* Close: an idle connection goes, one in use when it is returned.
Close ==
    /\ life = "ready"
    /\ life' = "closed"
    /\ IF lent THEN UNCHANGED sess ELSE Now("pool", Closed)
    /\ UNCHANGED <<cfg, env, keys, attempt, lent, result>>

\* otherDialer: the replication wait looks at another controller, also while the
\* client is being closed.
Probe(h) ==
    /\ life \in {"ready", "closed"}
    /\ Dial("probe", h)
    /\ UNCHANGED clientVars

\* The look is over and its connection closed.
ProbeDone ==
    /\ sess["probe"].at = "bound"
    /\ Now("probe", Closed)
    /\ UNCHANGED <<cfg, env, keys, clientVars>>

ClientNext ==
    \/ New \/ Acquire \/ NewRefused \/ Backoff
    \/ \E a \in {"context", "busy", "refused", "no context", "no entry", "lost"} : ReadRootDSE(a)
    \/ Borrow \/ BorrowFails \/ Return \/ Close
    \/ \E h \in Hosts : Probe(h)
    \/ ProbeDone
    \/ \E s \in Slots : Bind(s) /\ UNCHANGED clientVars

ClientSpec == ClientInit /\ [][ClientNext]_vars
-----------------------------------------------------------------------------
\* Whatever failed, and wherever Close fell, no connection outlives its owner and no
\* credential outlives its bind: a New that failed has none open, a closed client has
\* at most the one still borrowed, and a session that is bound or gone keeps no source
\* and no key.
NothingLeftBehind ==
    /\ life \in {"start", "failed"} => \A s \in Slots : sess[s].at = "off"
    /\ life = "closed" /\ ~lent => sess["pool"].at = "off"
    /\ \A s \in Slots : sess[s].at \in {"off", "bound"} =>
         sess[s].src = Nil /\ sess[s].ekey = 0 /\ sess[s].subkey = 0
=============================================================================
