-------------------------------- MODULE Pool --------------------------------
(***************************************************************************)
(* The connection pool, internal/conn/pool.go.                             *)
(*                                                                         *)
(* Goroutines borrow bound connections through Acquire and give them back  *)
(* with Release or Discard while another goroutine may Close the pool.     *)
(* One action is one step other goroutines can observe: a channel          *)
(* operation on sem, one critical section under mu, or a network call made *)
(* outside the lock.  Every access to idle and done is under mu, so a      *)
(* critical section is one step.                                           *)
(***************************************************************************)
EXTENDS Integers, Sequences, FiniteSets

CONSTANTS Procs,   \* goroutines that borrow connections
          Conns,   \* identities of connections
          Size,    \* PoolOptions.Size
          NoConn   \* the nil connection

\* NewPool: a Size that is not positive means 4.
Capacity == IF Size <= 0 THEN 4 ELSE Size

ASSUME PoolAssumption ==
    /\ Size \in Int
    /\ IsFiniteSet(Procs)
    /\ NoConn \notin Conns

VARIABLES sem,        \* number of tokens in the channel p.sem
          idle,       \* p.idle, a stack: the last element is lent first
          done,       \* p.done
          draining,   \* connections Close took from idle and has not closed yet
          open,       \* connections whose socket is open
          pc,         \* pc[p]: where goroutine p is
          conn,       \* conn[p]: the connection of p's Acquire or Lease
          cancelled   \* goroutines whose context is done

poolVars == <<sem, idle, done, draining, open, pc, conn, cancelled>>

(***************************************************************************)
(* Program counters of one borrower:                                       *)
(*   out       not inside the pool and not holding a live lease            *)
(*   wait      in Acquire's select on sem and ctx.Done                     *)
(*   slot      has a permit, about to lock mu                              *)
(*   dial      found idle empty, in opts.Dial                              *)
(*   bind      has an unbound connection, in Binder.Bind                   *)
(*   lease     Acquire returned a Lease that was not given back yet        *)
(*   closing   Release saw done: about to close the connection itself      *)
(*   giveback  about to receive from sem                                   *)
(***************************************************************************)
PCs == {"out", "wait", "slot", "dial", "bind", "lease", "closing", "giveback"}

\* Goroutines that hold a permit of sem.
Holders == {p \in Procs : pc[p] \in PCs \ {"out", "wait"}}
\* Goroutines that own an open connection, and the connections they own.
Owners == {p \in Procs : pc[p] \in {"bind", "lease", "closing"}}
Owned == {conn[p] : p \in Owners}
Dialers == {p \in Procs : pc[p] = "dial"}
IdleConns == {idle[i] : i \in 1..Len(idle)}

Goto(p, from, to) ==
    /\ pc[p] = from
    /\ pc' = [pc EXCEPT ![p] = to]

PoolInit ==
    /\ sem = 0
    /\ idle = <<>>
    /\ done = FALSE
    /\ draining = {}
    /\ open = {}
    /\ pc = [p \in Procs |-> "out"]
    /\ conn = [p \in Procs |-> NoConn]
    /\ cancelled = {}
-----------------------------------------------------------------------------
(* Acquire *)

\* A goroutine calls Acquire.
Call(p) ==
    /\ Goto(p, "out", "wait")
    /\ UNCHANGED <<sem, idle, done, draining, open, conn, cancelled>>

\* select, case p.sem <- struct{}{}: the buffered channel has room.
TakeSlot(p) ==
    /\ sem < Capacity
    /\ sem' = sem + 1
    /\ Goto(p, "wait", "slot")
    /\ UNCHANGED <<idle, done, draining, open, conn, cancelled>>

\* select, case <-ctx.Done(): no permit was taken.  When both cases are ready
\* the runtime picks either one.
GiveUp(p) ==
    /\ p \in cancelled
    /\ Goto(p, "wait", "out")
    /\ UNCHANGED <<sem, idle, done, draining, open, conn, cancelled>>

\* The locked section, pool closed: ErrPoolClosed.
SeeClosed(p) ==
    /\ done
    /\ Goto(p, "slot", "giveback")
    /\ UNCHANGED <<sem, idle, done, draining, open, conn, cancelled>>

\* Mutant of PopIdle: p.idle is not shortened.
PopIdleKeeps(p) ==
    /\ ~done
    /\ idle # <<>>
    /\ conn' = [conn EXCEPT ![p] = idle[Len(idle)]]
    /\ Goto(p, "slot", "lease")
    /\ UNCHANGED <<sem, idle, done, draining, open, cancelled>>

\* The locked section, idle not empty: lend the most recently returned one.
PopIdle(p) ==
    /\ ~done
    /\ idle # <<>>
    /\ conn' = [conn EXCEPT ![p] = idle[Len(idle)]]
    /\ idle' = SubSeq(idle, 1, Len(idle) - 1)
    /\ Goto(p, "slot", "lease")
    /\ UNCHANGED <<sem, done, draining, open, cancelled>>

\* Mutant of StartDial: a connection is dialled although one is idle.
StartDialAlways(p) ==
    /\ ~done
    /\ Goto(p, "slot", "dial")
    /\ UNCHANGED <<sem, idle, done, draining, open, conn, cancelled>>

\* The locked section, nothing idle: dial outside the lock.
StartDial(p) ==
    /\ ~done
    /\ idle = <<>>
    /\ Goto(p, "slot", "dial")
    /\ UNCHANGED <<sem, idle, done, draining, open, conn, cancelled>>

DialOk(p, c) ==
    /\ c \notin open
    /\ open' = open \union {c}
    /\ conn' = [conn EXCEPT ![p] = c]
    /\ Goto(p, "dial", "bind")
    /\ UNCHANGED <<sem, idle, done, draining, cancelled>>

\* Mutant of DialFail: the permit is not returned.
DialFailLeaks(p) ==
    /\ Goto(p, "dial", "out")
    /\ UNCHANGED <<sem, idle, done, draining, open, conn, cancelled>>

DialFail(p) ==
    /\ Goto(p, "dial", "giveback")
    /\ UNCHANGED <<sem, idle, done, draining, open, conn, cancelled>>

BindOk(p) ==
    /\ Goto(p, "bind", "lease")
    /\ UNCHANGED <<sem, idle, done, draining, open, conn, cancelled>>

\* Mutant of BindFail: the unbound connection is not closed.
BindFailKeepsOpen(p) ==
    /\ Goto(p, "bind", "giveback")
    /\ UNCHANGED <<sem, idle, done, draining, open, conn, cancelled>>

\* A refused bind closes the connection before the permit goes back.
BindFail(p) ==
    /\ Goto(p, "bind", "giveback")
    /\ open' = open \ {conn[p]}
    /\ UNCHANGED <<sem, idle, done, draining, conn, cancelled>>

\* <-p.sem, on every failing path and at the end of Release and Discard.
GiveBack(p) ==
    /\ Goto(p, "giveback", "out")
    /\ sem' = sem - 1
    /\ UNCHANGED <<idle, done, draining, open, conn, cancelled>>
-----------------------------------------------------------------------------
(* Lease *)

\* l.once: only the first Release or Discard of a lease does anything.  A
\* spent lease still points at its connection: conn[p] keeps its value.
OnceDo(p) == pc[p] = "lease"

\* Release, locked section.  The connection is pooled before the permit is
\* returned; when the pool is closed it is left to Release to close it.
Release(p) ==
    /\ OnceDo(p)
    /\ \/ /\ done
          /\ pc' = [pc EXCEPT ![p] = "closing"]
          /\ UNCHANGED idle
       \/ /\ ~done
          /\ idle' = Append(idle, conn[p])
          /\ pc' = [pc EXCEPT ![p] = "giveback"]
    /\ UNCHANGED <<sem, done, draining, open, conn, cancelled>>

\* Release, after the unlock, when it saw done.
CloseReleased(p) ==
    /\ Goto(p, "closing", "giveback")
    /\ open' = open \ {conn[p]}
    /\ UNCHANGED <<sem, idle, done, draining, conn, cancelled>>

Discard(p) ==
    /\ OnceDo(p)
    /\ pc' = [pc EXCEPT ![p] = "giveback"]
    /\ open' = open \ {conn[p]}
    /\ UNCHANGED <<sem, idle, done, draining, conn, cancelled>>
-----------------------------------------------------------------------------
(* Close *)

\* Mutant of Close: idle is emptied without taking its connections.
CloseForgetsIdle ==
    /\ done' = TRUE
    /\ idle' = <<>>
    /\ UNCHANGED <<sem, draining, open, pc, conn, cancelled>>

\* The locked section of Close: idle is handed to the closing goroutine.
\* Concurrent Closes each drain their own batch; draining is their union.
Close ==
    /\ done' = TRUE
    /\ draining' = draining \union IdleConns
    /\ idle' = <<>>
    /\ UNCHANGED <<sem, open, pc, conn, cancelled>>

\* One iteration of Close's loop; an error does not stop the loop.
CloseIdle(c) ==
    /\ c \in draining
    /\ draining' = draining \ {c}
    /\ open' = open \ {c}
    /\ UNCHANGED <<sem, idle, done, pc, conn, cancelled>>
-----------------------------------------------------------------------------
(* The callers' contexts *)

\* p's context is cancelled or its deadline passes.
Cancel(p) ==
    /\ p \notin cancelled
    /\ cancelled' = cancelled \union {p}
    /\ UNCHANGED <<sem, idle, done, draining, open, pc, conn>>

\* p's next call carries a new context.
NewContext(p) ==
    /\ pc[p] = "out"
    /\ p \in cancelled
    /\ cancelled' = cancelled \ {p}
    /\ UNCHANGED <<sem, idle, done, draining, open, pc, conn>>
-----------------------------------------------------------------------------
Acquire(p) ==
    \/ TakeSlot(p) \/ GiveUp(p)
    \/ SeeClosed(p) \/ PopIdle(p) \/ StartDial(p)
    \/ (\E c \in Conns : DialOk(p, c)) \/ DialFail(p)
    \/ BindOk(p) \/ BindFail(p)

Return(p) == Release(p) \/ CloseReleased(p) \/ Discard(p) \/ GiveBack(p)

PoolNext ==
    \/ \E p \in Procs : \/ Call(p) \/ Acquire(p) \/ Return(p)
                        \/ Cancel(p) \/ NewContext(p)
    \/ Close
    \/ \E c \in Conns : CloseIdle(c)

PoolSpec == PoolInit /\ [][PoolNext]_poolVars
-----------------------------------------------------------------------------
(* Properties *)

PoolTypeOK ==
    /\ sem \in 0..Capacity
    /\ idle \in Seq(Conns)
    /\ done \in BOOLEAN
    /\ draining \subseteq Conns
    /\ open \subseteq Conns
    /\ pc \in [Procs -> PCs]
    /\ conn \in [Procs -> Conns \union {NoConn}]
    /\ cancelled \subseteq Procs

\* No permit leaks and none is returned twice: the tokens in sem are exactly
\* the goroutines between taking one and giving it back, whichever of dial,
\* bind, release, discard or shutdown ended their turn (pool.go 74-76).
PermitAccounting == sem = Cardinality(Holders)

\* Size bounds concurrent connections (PoolOptions.Size): sockets open in idle,
\* on loan, being bound and being closed, together with the dials in flight,
\* never exceed it.
ConnectionBound == Cardinality(open) + Cardinality(Dialers) <= Capacity

\* A connection has one owner: it is lent to one goroutine, or idle once, or
\* being drained by Close, never two of these (Lease's once, the LIFO pop and
\* Close's hand-over of the idle list).
SingleOwner ==
    /\ \A p, q \in Owners : conn[p] = conn[q] => p = q
    /\ \A i, j \in 1..Len(idle) : idle[i] = idle[j] => i = j
    /\ Owned \intersect (IdleConns \union draining) = {}
    /\ IdleConns \intersect draining = {}

\* No connection is stranded and none is used after it was closed: the open
\* sockets are exactly those somebody will still close or lend.
NothingStranded == open = Owned \union IdleConns \union draining

\* After Close nothing is ever idle: a release that lost the race with Close
\* closes its connection (pool.go 98-101).
ClosedPoolHoldsNothing == IF done THEN idle = <<>> ELSE draining = {}

\* After Close every connection is eventually closed, for good.
ShutdownCompletes == done ~> [](open = {})
-----------------------------------------------------------------------------
(* The pool implements its abstract promise. *)

LS == INSTANCE LeaseService WITH
        Borrowers <- Procs,
        Limit <- Capacity,
        fresh <- {conn[p] : p \in {q \in Procs : pc[q] = "bind"}},
        pooled <- IdleConns \union draining
                    \union {conn[p] : p \in {q \in Procs : pc[q] = "closing"}},
        lent <- [p \in Procs |-> IF pc[p] = "lease" THEN conn[p] ELSE NoConn],
        shut <- done

\* Seen from outside, the pool is a lease service: exclusive loans, at most
\* Size connections, and no pooled connection lent again after Close.
ImplementsLeaseService == LS!LSSpec
=============================================================================
