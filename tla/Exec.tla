-------------------------------- MODULE Exec --------------------------------
(***************************************************************************)
(* core.withConn of exec.go, run by several goroutines over one Pool.      *)
(*                                                                         *)
(* One call borrows a connection, sends one request on it, classifies the  *)
(* outcome, gives the connection back (Release) or throws it away          *)
(* (Discard), and starts over while the failure is Transient and attempts  *)
(* remain.  Sockets can die at any moment, also between the server         *)
(* executing a request and its answer.                                     *)
(***************************************************************************)
EXTENDS Pool, Classify

CONSTANTS MaxAttempts,  \* RetryConfig.MaxAttempts after WithDefaults
          Refusals      \* errors with which the server may refuse a request

ASSUME ExecAssumption ==
    /\ MaxAttempts \in Nat \ {0}
    /\ \A e \in Refusals : e = RawError(e.win32, e.code)

VARIABLES stage,     \* stage[p]: where p is in withConn
          attempt,   \* attempt[p]: the loop counter
          lastErr,   \* lastErr[p]: the Kind of the last failure, "nil" for none
          effects,   \* effects[p]: how often the server executed p's request
          dead,      \* connections whose socket no longer works
          suspect,   \* connections on which a request ended in Transport
          seenDead   \* connections on which a request failed for want of a socket

execVars == <<stage, attempt, lastErr, effects, dead, suspect, seenDead>>
allVars == <<poolVars, execVars>>

(***************************************************************************)
(*   ready     not in withConn; lastErr is what the last call returned     *)
(*   call      in pool.Acquire, or holding a lease and running fn          *)
(*   failed    Acquire failed and is giving its permit back                *)
(*   ran       fn returned, the lease is still held                        *)
(*   returned  the lease is being given back                               *)
(*   backoff   sleeping before the next attempt                            *)
(***************************************************************************)
Stages == {"ready", "call", "failed", "ran", "returned", "backoff"}

Enter(p, from, to) ==
    /\ stage[p] = from
    /\ stage' = [stage EXCEPT ![p] = to]

Set(f, p, v) == [f EXCEPT ![p] = v]

\* How the go-ldap client reports a socket that is gone: its own *ldap.Error
\* with the client-side code ErrorNetwork (200), which toRawError lifts like a
\* server's answer, or an error of another type for a read that was under way.
ErrorNetwork == 200
SocketErrors == {RawError(NoCode, ErrorNetwork), PlainError}

\* Errors a bind may end with: the server's refusal, rejected Kerberos
\* credentials, or a broken exchange.
BindErrors == Refusals \union {CredentialRejected, PlainError}

\* What withConn makes of an error of Acquire: only a refusal the server sent
\* is classified, rejected credentials are Denied, everything else Transport.
AcquireKind(e) ==
    CASE e.type = "raw" -> KindOf(e)
      [] e.type = "credential" -> "Denied"
      [] OTHER -> "Transport"

ExecInit ==
    /\ PoolInit
    /\ stage = [p \in Procs |-> "ready"]
    /\ attempt = [p \in Procs |-> 0]
    /\ lastErr = [p \in Procs |-> "nil"]
    /\ effects = [p \in Procs |-> 0]
    /\ dead = {}
    /\ suspect = {}
    /\ seenDead = {}
-----------------------------------------------------------------------------
\* withConn is called: the first attempt.
Begin(p) ==
    /\ Enter(p, "ready", "call")
    /\ attempt' = Set(attempt, p, 1)
    /\ lastErr' = Set(lastErr, p, "nil")
    /\ effects' = Set(effects, p, 0)
    /\ Call(p)
    /\ UNCHANGED <<dead, suspect, seenDead>>

\* Acquire moves on without failing.
Acquiring(p) ==
    /\ stage[p] = "call"
    /\ TakeSlot(p) \/ PopIdle(p) \/ StartDial(p) \/ BindOk(p)
    /\ UNCHANGED execVars

\* A freshly dialled connection is a new, working socket.
Dialled(p, c) ==
    /\ stage[p] = "call"
    /\ DialOk(p, c)
    /\ dead' = dead \ {c}
    /\ suspect' = suspect \ {c}
    /\ seenDead' = seenDead \ {c}
    /\ UNCHANGED <<stage, attempt, lastErr, effects>>

\* Acquire fails after it took a permit; the permit goes back before it returns.
AcquireFails(p, e) ==
    /\ Enter(p, "call", "failed")
    /\ \/ e = PlainError /\ (SeeClosed(p) \/ DialFail(p))
       \/ e \in BindErrors /\ BindFail(p)
    /\ lastErr' = Set(lastErr, p, AcquireKind(e))
    /\ UNCHANGED <<attempt, effects, dead, suspect, seenDead>>

\* The failed Acquire gives its permit back and withConn returns.
AcquireFailed(p) ==
    /\ Enter(p, "failed", "ready")
    /\ GiveBack(p)
    /\ UNCHANGED <<attempt, lastErr, effects, dead, suspect, seenDead>>

\* The context ended while Acquire was waiting for a permit.
AcquireCancelled(p) ==
    /\ Enter(p, "call", "ready")
    /\ GiveUp(p)
    /\ lastErr' = Set(lastErr, p, AcquireKind(CtxError))
    /\ UNCHANGED <<attempt, effects, dead, suspect, seenDead>>

\* Mutant of FnReturns: a successful call returns without giving its lease back.
FnReturnsEarly(p, e) ==
    /\ pc[p] = "lease"
    /\ Enter(p, "call", IF e = NilError THEN "ready" ELSE "ran")
    /\ lastErr' = Set(lastErr, p, KindOf(e))
    /\ suspect' = IF KindOf(e) = "Transport" THEN suspect \union {conn[p]} ELSE suspect
    /\ UNCHANGED <<poolVars, attempt>>

\* fn returned error e: classify it.
FnReturns(p, e) ==
    /\ pc[p] = "lease"
    /\ Enter(p, "call", "ran")
    /\ lastErr' = Set(lastErr, p, KindOf(e))
    /\ suspect' = IF KindOf(e) = "Transport" THEN suspect \union {conn[p]} ELSE suspect
    /\ UNCHANGED <<poolVars, attempt>>

\* The server executes the request and its answer arrives.
FnSucceeds(p) ==
    /\ conn[p] \notin dead
    /\ FnReturns(p, NilError)
    /\ effects' = Set(effects, p, effects[p] + 1)
    /\ UNCHANGED <<dead, seenDead>>

\* The server refuses the request, or fn itself rejects the answer to a read.
FnRefused(p, e) ==
    /\ conn[p] \notin dead
    /\ FnReturns(p, e)
    /\ UNCHANGED <<effects, dead, seenDead>>

\* The socket is gone, or dies before the answer arrives; in the second case the
\* server may have executed the request.
FnLosesSocket(p, e) ==
    /\ FnReturns(p, e)
    /\ effects' \in {effects} \union
           (IF conn[p] \in dead THEN {} ELSE {Set(effects, p, effects[p] + 1)})
    /\ dead' = dead \union {conn[p]}
    /\ seenDead' = seenDead \union {conn[p]}

\* Mutant of GiveLease: every connection is pooled again.
GiveLeaseAlwaysReleases(p) ==
    /\ Enter(p, "ran", "returned")
    /\ Release(p)
    /\ UNCHANGED <<attempt, lastErr, effects, dead, suspect, seenDead>>

\* After fn: a Transport failure discards the connection, anything else pools it.
GiveLease(p) ==
    /\ Enter(p, "ran", "returned")
    /\ IF lastErr[p] = "Transport" THEN Discard(p) ELSE Release(p)
    /\ UNCHANGED <<attempt, lastErr, effects, dead, suspect, seenDead>>

\* Release found the pool closed and closes the connection.
CloseLate(p) ==
    /\ stage[p] = "returned"
    /\ CloseReleased(p)
    /\ UNCHANGED execVars

\* Mutant of TryAgain: the attempts are not counted.
TryAgainForever(p) == Retryable(lastErr[p])

\* The condition under which withConn goes round its loop again.
TryAgain(p) == Retryable(lastErr[p]) /\ attempt[p] # MaxAttempts

\* Mutant of Decide: running out of attempts returns nil.
DecideSwallows(p) ==
    /\ Enter(p, "returned", IF TryAgain(p) THEN "backoff" ELSE "ready")
    /\ GiveBack(p)
    /\ lastErr' = IF Retryable(lastErr[p]) /\ ~TryAgain(p)
                    THEN Set(lastErr, p, "nil") ELSE lastErr
    /\ UNCHANGED <<attempt, effects, dead, suspect, seenDead>>

\* The permit is back: return, or back off before another attempt.
Decide(p) ==
    /\ Enter(p, "returned", IF TryAgain(p) THEN "backoff" ELSE "ready")
    /\ GiveBack(p)
    /\ UNCHANGED <<attempt, lastErr, effects, dead, suspect, seenDead>>

\* adcore.Backoff slept to its end: the next attempt.
Retry(p) ==
    /\ Enter(p, "backoff", "call")
    /\ attempt' = Set(attempt, p, attempt[p] + 1)
    /\ Call(p)
    /\ UNCHANGED <<lastErr, effects, dead, suspect, seenDead>>

\* adcore.Backoff was interrupted: its error is returned instead of lastErr.
BackoffCancelled(p) ==
    /\ p \in cancelled
    /\ Enter(p, "backoff", "ready")
    /\ lastErr' = Set(lastErr, p, "Cancelled")
    /\ UNCHANGED <<poolVars, attempt, effects, dead, suspect, seenDead>>
-----------------------------------------------------------------------------
\* The network or the server kills an open connection nobody is told about.
SocketDies(c) ==
    /\ c \in open \ dead
    /\ dead' = dead \union {c}
    /\ UNCHANGED <<poolVars, stage, attempt, lastErr, effects, suspect, seenDead>>

\* A context ends; a new call of withConn carries a new one.
Context(p) ==
    /\ Cancel(p) \/ (stage[p] = "ready" /\ NewContext(p))
    /\ UNCHANGED execVars

\* Client.Close.
ClientClose ==
    /\ Close \/ \E c \in Conns : CloseIdle(c)
    /\ UNCHANGED execVars

AcquireStep(p) ==
    \/ Acquiring(p) \/ (\E c \in Conns : Dialled(p, c))
    \/ (\E e \in BindErrors : AcquireFails(p, e)) \/ AcquireCancelled(p)

Fn(p) ==
    \/ FnSucceeds(p)
    \/ \E e \in Refusals \union {PlainError} : FnRefused(p, e)
    \/ \E e \in SocketErrors : FnLosesSocket(p, e)

withConn(p) ==
    \/ Begin(p) \/ AcquireStep(p) \/ AcquireFailed(p)
    \/ Fn(p) \/ GiveLease(p) \/ CloseLate(p)
    \/ Decide(p) \/ Retry(p) \/ BackoffCancelled(p)

ExecNext ==
    \/ \E p \in Procs : withConn(p) \/ Context(p)
    \/ \E c \in Conns : SocketDies(c)
    \/ ClientClose

ExecSpec == ExecInit /\ [][ExecNext]_allVars

(***************************************************************************)
(* Fairness.  A runnable goroutine is eventually scheduled, so its own     *)
(* steps are weakly fair; a dial and a bind return (DialTimeout, and the   *)
(* peer answers or the socket fails), a request is answered or its socket  *)
(* fails, a backoff ends, and Close goes on through the connections it     *)
(* took.  A goroutine blocked on sem is served in FIFO order by the Go     *)
(* channel: strong fairness of TakeSlot.  Nothing is assumed of new calls, *)
(* of contexts that end, of sockets that die and of the call of Close.     *)
(***************************************************************************)
ExecFairness ==
    /\ \A p \in Procs :
        /\ SF_allVars(stage[p] = "call" /\ TakeSlot(p) /\ UNCHANGED execVars)
        /\ WF_allVars(AcquireStep(p) /\ pc[p] # "wait")
        /\ WF_allVars(AcquireFailed(p) \/ Fn(p) \/ GiveLease(p) \/ CloseLate(p))
        /\ WF_allVars(Decide(p) \/ Retry(p))
    /\ \A c \in Conns : WF_allVars(CloseIdle(c) /\ UNCHANGED execVars)

FairExecSpec == ExecSpec /\ ExecFairness
-----------------------------------------------------------------------------
(* Properties *)

ExecTypeOK ==
    /\ PoolTypeOK
    /\ stage \in [Procs -> Stages]
    /\ attempt \in [Procs -> 0..MaxAttempts]
    /\ lastErr \in [Procs -> Kinds \union {"nil", "Cancelled"}]
    /\ effects \in [Procs -> Nat]
    /\ dead \subseteq Conns
    /\ suspect \subseteq Conns
    /\ seenDead \subseteq Conns

\* Retrying never duplicates a side effect: within one call the server executes
\* the request at most once, although answers get lost and every attempt sends
\* it again (exec.go 43-46).
AtMostOnce == \A p \in Procs : effects[p] <= 1

\* The returned Kind tells the truth: success means the request was executed,
\* and a Kind other than Transport and Unknown means that it was not.
OutcomeTruthful ==
    \A p \in Procs : stage[p] = "ready" /\ attempt[p] > 0 =>
        /\ lastErr[p] = "nil" => effects[p] = 1
        /\ lastErr[p] \notin {"nil", "Transport", "Unknown"} => effects[p] = 0

\* A connection whose last request ended in Transport is never pooled again and
\* never lent to anyone else (exec.go 42, pool.go 110-112).
TransportDiscards ==
    /\ suspect \intersect IdleConns = {}
    /\ \A p \in Procs : stage[p] = "call" /\ pc[p] = "lease" => conn[p] \notin suspect

\* A goroutine outside withConn holds no permit and no lease, whichever path its
\* call took, so concurrent callers can never be starved by a finished one.
ReadyHoldsNothing ==
    \A p \in Procs : stage[p] \in {"ready", "backoff"} => p \notin Holders

\* A connection on which a request already failed because the socket was gone is
\* not offered to the next acquirer: "the next acquirer must not inherit a dead
\* socket" (exec.go 42-43).
DeadSocketNotPooled == seenDead \intersect IdleConns = {}

\* Every call of withConn returns.
CallReturns == \A p \in Procs : stage[p] # "ready" ~> stage[p] = "ready"
=============================================================================
