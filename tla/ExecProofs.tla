----------------------------- MODULE ExecProofs -----------------------------
(***************************************************************************)
(* Proofs about Exec: withConn only ever uses the pool as Pool allows, and *)
(* its retries neither duplicate a side effect nor misreport the outcome,  *)
(* for every number of goroutines, every MaxAttempts, every set of         *)
(* refusals and every table of Win32 codes.                                *)
(***************************************************************************)
EXTENDS Exec, PoolProofs

\* Where a goroutine is in the pool follows from where it is in withConn.
StageMatches ==
    \A p \in Procs :
        /\ stage[p] \in {"ready", "backoff"} => pc[p] = "out"
        /\ stage[p] = "call" => pc[p] \in {"wait", "slot", "dial", "bind", "lease"}
        /\ stage[p] = "failed" => pc[p] = "giveback"
        /\ stage[p] = "ran" => pc[p] = "lease"
        /\ stage[p] = "returned" => pc[p] \in {"closing", "giveback"}

\* What the server did, against what withConn knows about it.
EffectsKnown ==
    \A p \in Procs :
        /\ stage[p] \in {"call", "failed", "backoff"} => effects[p] = 0
        /\ stage[p] = "failed" => lastErr[p] # "nil"
        /\ stage[p] \in {"ran", "returned"} \/ (stage[p] = "ready" /\ attempt[p] > 0) =>
            /\ effects[p] \in {0, 1}
            /\ lastErr[p] = "nil" => effects[p] = 1
            /\ lastErr[p] \notin {"nil", "Transport", "Unknown"} => effects[p] = 0
        /\ stage[p] = "ready" => effects[p] \in {0, 1}

\* The types of Exec's own variables.
OwnTypes ==
    /\ stage \in [Procs -> Stages]
    /\ attempt \in [Procs -> 0..MaxAttempts]
    /\ lastErr \in [Procs -> Kinds \union {"nil", "Cancelled"}]
    /\ effects \in [Procs -> Nat]
    /\ dead \subseteq Conns
    /\ suspect \subseteq Conns
    /\ seenDead \subseteq Conns

\* The loop counter never passes MaxAttempts because a retry needs a spare one.
RetryHasAttempt == \A p \in Procs : stage[p] = "backoff" => attempt[p] < MaxAttempts

ExecInv == OwnTypes /\ StageMatches /\ EffectsKnown /\ RetryHasAttempt
-----------------------------------------------------------------------------
(* Classification *)

LEMMA KindOfType ==
  ASSUME NEW e \in Refusals \union {PlainError}
  PROVE  KindOf(e) \in Kinds
  <1>1. CASE e = PlainError
    BY <1>1 DEF KindOf, PlainError, Kinds
  <1>2. CASE e \in Refusals
    <2>1. e = [type |-> "raw", win32 |-> e.win32, code |-> e.code]
      BY <1>2, ExecAssumption DEF RawError
    <2>2. e.type = "raw"
      BY <2>1
    <2>3. \A c \in DOMAIN byResultCode : byResultCode[c] \in Kinds
      BY DEF byResultCode, Kinds
    <2>4. \A c \in DOMAIN ClassifyCode : ClassifyCode[c] \in Kinds
      BY ClassifyCodeAssumption
    <2>5. CASE e.win32 \in DOMAIN ClassifyCode
      BY <2>2, <2>4, <2>5 DEF KindOf
    <2>6. CASE e.win32 \notin DOMAIN ClassifyCode /\ e.code \in DOMAIN byResultCode
      BY <2>2, <2>3, <2>6 DEF KindOf
    <2>7. CASE e.win32 \notin DOMAIN ClassifyCode /\ e.code \notin DOMAIN byResultCode
      BY <2>2, <2>7 DEF KindOf, Kinds
    <2> QED
      BY <2>5, <2>6, <2>7
  <1> QED
    BY <1>1, <1>2

\* A lost socket is Unknown or Transport, never a Kind that is retried.
LEMMA SocketKind ==
  ASSUME NEW e \in SocketErrors
  PROVE  KindOf(e) \in {"Unknown", "Transport"}
  <1>1. CASE e = PlainError
    BY <1>1 DEF KindOf, PlainError
  <1>2. CASE e = RawError(NoCode, ErrorNetwork)
    <2>1. e.type = "raw" /\ e.win32 = NoCode /\ e.code = 200
      BY <1>2 DEF RawError, ErrorNetwork
    <2>2. NoCode \notin DOMAIN ClassifyCode
      BY ClassifyCodeAssumption
    <2>3. 200 \notin DOMAIN byResultCode
      BY DEF byResultCode
    <2> QED
      BY <2>1, <2>2, <2>3 DEF KindOf
  <1> QED
    BY <1>1, <1>2 DEF SocketErrors

LEMMA NilKind == KindOf(NilError) = "nil"
  BY DEF KindOf, NilError

LEMMA AcquireKindType ==
  ASSUME NEW e \in BindErrors \union {CtxError}
  PROVE  AcquireKind(e) \in Kinds
  <1>1. CASE e \in Refusals
    <2>1. e = [type |-> "raw", win32 |-> e.win32, code |-> e.code]
      BY <1>1, ExecAssumption DEF RawError
    <2> QED
      BY <1>1, <2>1, KindOfType DEF AcquireKind
  <1>2. CASE e \in {CredentialRejected, PlainError, CtxError}
    BY <1>2 DEF AcquireKind, CredentialRejected, PlainError, CtxError, Kinds
  <1> QED
    BY <1>1, <1>2 DEF BindErrors

LEMMA NilIsNoKind == "nil" \notin Kinds /\ "Cancelled" \notin Kinds
  BY DEF Kinds
-----------------------------------------------------------------------------
(* Every step of withConn is a step of the pool. *)

LEMMA ExecStepIsPoolStep == [ExecNext]_allVars => [PoolNext]_poolVars
  <1> SUFFICES ASSUME [ExecNext]_allVars PROVE PoolNext \/ UNCHANGED poolVars
    OBVIOUS
  <1>1. CASE UNCHANGED allVars
    BY <1>1 DEF allVars
  <1>2. ASSUME NEW p \in Procs, AcquireStep(p) PROVE PoolNext \/ UNCHANGED poolVars
    BY <1>2 DEF AcquireStep, Acquiring, Dialled, AcquireFails, AcquireCancelled,
                PoolNext, Acquire
  <1>3. ASSUME NEW p \in Procs, Fn(p) PROVE UNCHANGED poolVars
    BY <1>3 DEF Fn, FnSucceeds, FnRefused, FnLosesSocket, FnReturns
  <1>4. ASSUME NEW p \in Procs, Begin(p) \/ Retry(p) PROVE PoolNext
    BY <1>4 DEF Begin, Retry, PoolNext
  <1>5. ASSUME NEW p \in Procs, AcquireFailed(p) \/ GiveLease(p) \/ CloseLate(p) \/ Decide(p)
        PROVE  PoolNext
    BY <1>5 DEF AcquireFailed, GiveLease, CloseLate, Decide, PoolNext, Return
  <1>6. ASSUME NEW p \in Procs, BackoffCancelled(p) PROVE UNCHANGED poolVars
    BY <1>6 DEF BackoffCancelled
  <1>7. ASSUME NEW p \in Procs, Context(p) PROVE PoolNext
    BY <1>7 DEF Context, PoolNext
  <1>8. ASSUME NEW c \in Conns, SocketDies(c) PROVE UNCHANGED poolVars
    BY <1>8 DEF SocketDies
  <1>9. CASE ClientClose
    BY <1>9 DEF ClientClose, PoolNext
  <1> QED
    BY <1>1, <1>2, <1>3, <1>4, <1>5, <1>6, <1>7, <1>8, <1>9 DEF ExecNext, withConn

\* Callers that go through withConn use the pool as Pool specifies, so every
\* property of the pool holds of the composed system.
THEOREM ExecUsesPool == ExecSpec => PoolSpec
  <1>1. ExecInit => PoolInit
    BY DEF ExecInit
  <1> QED
    BY <1>1, ExecStepIsPoolStep, PTL DEF ExecSpec, PoolSpec

\* What the calls borrow from and give back to is the lease service, whatever they retry,
\* discard or give up.
THEOREM ExecRefinesLeaseService == ExecSpec => ImplementsLeaseService
  BY ExecUsesPool, PoolRefinesLeaseService, PTL
-----------------------------------------------------------------------------
(* The invariant of withConn. *)

\* What a step of withConn by p leaves alone.
Others(p) ==
    \A q \in Procs \ {p} :
        /\ pc'[q] = pc[q] /\ stage'[q] = stage[q] /\ attempt'[q] = attempt[q]
        /\ lastErr'[q] = lastErr[q] /\ effects'[q] = effects[q]

\* The invariant of a single goroutine.
OneInv(p) ==
    /\ stage[p] \in {"ready", "backoff"} => pc[p] = "out"
    /\ stage[p] = "call" => pc[p] \in {"wait", "slot", "dial", "bind", "lease"}
    /\ stage[p] = "failed" => pc[p] = "giveback"
    /\ stage[p] = "ran" => pc[p] = "lease"
    /\ stage[p] = "returned" => pc[p] \in {"closing", "giveback"}
    /\ stage[p] \in {"call", "failed", "backoff"} => effects[p] = 0
    /\ stage[p] = "failed" => lastErr[p] # "nil"
    /\ stage[p] \in {"ran", "returned"} \/ (stage[p] = "ready" /\ attempt[p] > 0) =>
        /\ effects[p] \in {0, 1}
        /\ lastErr[p] = "nil" => effects[p] = 1
        /\ lastErr[p] \notin {"nil", "Transport", "Unknown"} => effects[p] = 0
    /\ stage[p] = "ready" => effects[p] \in {0, 1}
    /\ stage[p] = "backoff" => attempt[p] < MaxAttempts

LEMMA InvIsLocal == ExecInv <=> OwnTypes /\ \A p \in Procs : OneInv(p)
  BY DEF ExecInv, StageMatches, EffectsKnown, RetryHasAttempt, OneInv

\* A step of p alone preserves the invariant if it preserves p's part.
LEMMA LocalStep ==
  ASSUME ExecInv, NEW p \in Procs, Others(p), OwnTypes', OneInv(p)'
  PROVE  ExecInv'
  <1>1. \A q \in Procs : OneInv(q)
    BY InvIsLocal
  <1>2. ASSUME NEW q \in Procs PROVE OneInv(q)'
    <2>1. CASE q = p
      BY <2>1
    <2>2. CASE q # p
      BY <1>1, <2>2 DEF Others, OneInv
    <2> QED
      BY <2>1, <2>2
  <1> QED
    BY <1>2 DEF ExecInv, StageMatches, EffectsKnown, RetryHasAttempt, OneInv

LEMMA BeginStep ==
  ASSUME ExecInv, PoolTypeOK, NEW p \in Procs, Begin(p) \/ Retry(p)
  PROVE  ExecInv'
  <1> USE ExecAssumption
  <1>0. OneInv(p)
    BY InvIsLocal
  <1>1. OwnTypes'
    BY <1>0 DEF ExecInv, OwnTypes, OneInv, Stages, Begin, Retry, Enter, Set, Kinds
  <1>2. Others(p) /\ OneInv(p)'
    BY <1>0 DEF ExecInv, OwnTypes, PoolTypeOK, OneInv, Others, Begin, Retry, Enter, Set, Call, Goto
  <1> QED
    BY <1>1, <1>2, LocalStep

LEMMA AcquireProgressStep ==
  ASSUME ExecInv, PoolTypeOK, NEW p \in Procs,
         Acquiring(p) \/ \E c \in Conns : Dialled(p, c)
  PROVE  ExecInv'
  <1>0. OneInv(p)
    BY InvIsLocal
  <1>1. OwnTypes'
    BY DEF ExecInv, OwnTypes, Acquiring, Dialled, execVars
  <1>2. UNCHANGED <<stage, attempt, lastErr, effects>>
    BY DEF Acquiring, Dialled, execVars
  <1>3. /\ stage[p] = "call" /\ pc'[p] \in {"slot", "lease", "dial", "bind"}
        /\ \A q \in Procs \ {p} : pc'[q] = pc[q]
    BY DEF PoolTypeOK, Acquiring, Dialled, TakeSlot, PopIdle, StartDial, BindOk, DialOk, Goto
  <1>4. Others(p) /\ OneInv(p)'
    BY <1>0, <1>2, <1>3 DEF OneInv, Others
  <1> QED
    BY <1>1, <1>4, LocalStep

LEMMA AcquireFailsStep ==
  ASSUME ExecInv, PoolTypeOK, NEW p \in Procs,
         (\E e \in BindErrors : AcquireFails(p, e)) \/ AcquireCancelled(p) \/ AcquireFailed(p)
  PROVE  ExecInv'
  <1>0. OneInv(p)
    BY InvIsLocal
  <1>1. CASE \E e \in BindErrors : AcquireFails(p, e)
    <2>1. PICK e \in BindErrors : AcquireFails(p, e)
      BY <1>1
    <2>2. AcquireKind(e) \in Kinds
      BY AcquireKindType
    <2>3. OwnTypes'
      BY <2>1, <2>2 DEF ExecInv, OwnTypes, Stages, AcquireFails, Enter, Set
    <2>4. Others(p) /\ OneInv(p)'
      BY <1>0, <2>1, <2>2, NilIsNoKind DEF ExecInv, OwnTypes, PoolTypeOK, OneInv, Others,
         AcquireFails, SeeClosed, DialFail, BindFail, Enter, Set, Goto
    <2> QED
      BY <2>3, <2>4, LocalStep
  <1>2. CASE AcquireCancelled(p)
    <2>1. AcquireKind(CtxError) \in Kinds
      BY AcquireKindType
    <2>2. OwnTypes'
      BY <1>2, <2>1 DEF ExecInv, OwnTypes, Stages, AcquireCancelled, Enter, Set
    <2>3. Others(p) /\ OneInv(p)'
      BY <1>0, <1>2, <2>1, NilIsNoKind DEF ExecInv, OwnTypes, PoolTypeOK, OneInv, Others,
         AcquireCancelled, GiveUp, Enter, Set, Goto
    <2> QED
      BY <2>2, <2>3, LocalStep
  <1>3. CASE AcquireFailed(p)
    <2>1. OwnTypes'
      BY <1>3 DEF ExecInv, OwnTypes, Stages, AcquireFailed, Enter
    <2>2. Others(p) /\ OneInv(p)'
      BY <1>0, <1>3 DEF ExecInv, OwnTypes, PoolTypeOK, OneInv, Others,
         AcquireFailed, GiveBack, Enter, Goto
    <2> QED
      BY <2>1, <2>2, LocalStep
  <1> QED
    BY <1>1, <1>2, <1>3

\* The only step that changes effects.
LEMMA FnStep ==
  ASSUME ExecInv, PoolInv, NEW p \in Procs, Fn(p)
  PROVE  ExecInv'
  <1>0. OneInv(p)
    BY InvIsLocal
  <1>1. PICK e : FnReturns(p, e) /\
             \/ e = NilError /\ effects' = [effects EXCEPT ![p] = effects[p] + 1]
                  /\ UNCHANGED <<dead, seenDead>>
             \/ e \in Refusals \union {PlainError} /\ UNCHANGED <<effects, dead, seenDead>>
             \/ /\ e \in SocketErrors
                /\ effects' \in {effects, [effects EXCEPT ![p] = effects[p] + 1]}
                /\ dead' = dead \union {conn[p]} /\ seenDead' = seenDead \union {conn[p]}
    BY DEF Fn, FnSucceeds, FnRefused, FnLosesSocket, Set
  <1>2. /\ pc[p] = "lease" /\ stage[p] = "call" /\ stage' = [stage EXCEPT ![p] = "ran"]
        /\ lastErr' = [lastErr EXCEPT ![p] = KindOf(e)]
        /\ suspect' \in {suspect, suspect \union {conn[p]}}
        /\ attempt' = attempt /\ pc' = pc
    BY <1>1 DEF FnReturns, Enter, Set, poolVars
  <1>3. conn[p] \in Conns
    BY <1>2, OwnersHoldOpen DEF Owners
  <1>4. /\ effects[p] = 0
        /\ effects' \in {effects, [effects EXCEPT ![p] = 1]}
        /\ dead' \subseteq Conns /\ suspect' \subseteq Conns /\ seenDead' \subseteq Conns
    <2>1. effects[p] = 0
      BY <1>0, <1>2 DEF OneInv
    <2>2. effects[p] + 1 = 1
      BY <2>1
    <2>3. effects' \in {effects, [effects EXCEPT ![p] = 1]}
      BY <1>1, <2>2
    <2> QED
      BY <1>1, <1>2, <1>3, <2>1, <2>3 DEF ExecInv, OwnTypes
  <1>5. /\ KindOf(e) \in Kinds \union {"nil"}
        /\ KindOf(e) = "nil" => effects'[p] = 1
        /\ KindOf(e) \notin {"nil", "Transport", "Unknown"} => effects'[p] = 0
    <2>1. CASE e = NilError /\ effects' = [effects EXCEPT ![p] = effects[p] + 1]
      BY <1>4, <2>1, NilKind DEF ExecInv, OwnTypes
    <2>2. CASE e \in Refusals \union {PlainError} /\ UNCHANGED <<effects, dead, seenDead>>
      BY <1>4, <2>2, KindOfType, NilIsNoKind
    <2>3. CASE e \in SocketErrors
      BY <2>3, SocketKind DEF Kinds
    <2> QED
      BY <1>1, <2>1, <2>2, <2>3
  <1>6. effects' \in [Procs -> Nat] /\ effects'[p] \in {0, 1}
        /\ \A q \in Procs \ {p} : effects'[q] = effects[q]
    BY <1>4 DEF ExecInv, OwnTypes
  <1>7. OwnTypes'
    BY <1>2, <1>4, <1>5, <1>6 DEF ExecInv, OwnTypes, Stages
  <1>8. Others(p) /\ OneInv(p)'
    BY <1>2, <1>5, <1>6 DEF ExecInv, OwnTypes, OneInv, Others
  <1> QED
    BY <1>7, <1>8, LocalStep

LEMMA ReturnStep ==
  ASSUME ExecInv, PoolTypeOK, NEW p \in Procs,
         GiveLease(p) \/ CloseLate(p) \/ Decide(p) \/ BackoffCancelled(p)
  PROVE  ExecInv'
  <1>0. OneInv(p)
    BY InvIsLocal
  <1>1. CASE GiveLease(p)
    <2>1. OwnTypes'
      BY <1>1 DEF ExecInv, OwnTypes, Stages, GiveLease, Enter
    <2>2. pc'[p] \in {"closing", "giveback"} /\ \A q \in Procs \ {p} : pc'[q] = pc[q]
      BY <1>1 DEF PoolTypeOK, GiveLease, Discard, Release, OnceDo
    <2>3. Others(p) /\ OneInv(p)'
      BY <1>0, <1>1, <2>2 DEF ExecInv, OwnTypes, OneInv, Others, GiveLease, Enter
    <2> QED
      BY <2>1, <2>3, LocalStep
  <1>2. CASE CloseLate(p)
    <2>1. OwnTypes'
      BY <1>2 DEF ExecInv, OwnTypes, CloseLate, execVars
    <2>2. Others(p) /\ OneInv(p)'
      BY <1>0, <1>2 DEF PoolTypeOK, OneInv, Others, CloseLate, execVars, CloseReleased, Goto
    <2> QED
      BY <2>1, <2>2, LocalStep
  <1>3. CASE Decide(p)
    <2>1. OwnTypes'
      BY <1>3 DEF ExecInv, OwnTypes, Stages, Decide, Enter
    <2>2. /\ pc'[p] = "out" /\ \A q \in Procs \ {p} : pc'[q] = pc[q]
          /\ stage[p] = "returned" /\ \A q \in Procs \ {p} : stage'[q] = stage[q]
          /\ stage'[p] = IF TryAgain(p) THEN "backoff" ELSE "ready"
          /\ UNCHANGED <<attempt, lastErr, effects>>
      BY <1>3 DEF ExecInv, OwnTypes, PoolTypeOK, Decide, GiveBack, Goto, Enter
    <2>3. TryAgain(p) => effects[p] = 0 /\ attempt[p] < MaxAttempts
      BY <1>0, <2>2, ExecAssumption DEF ExecInv, OwnTypes, TryAgain, Retryable, OneInv
    <2>4. Others(p) /\ OneInv(p)'
      BY <1>0, <2>2, <2>3 DEF OneInv, Others
    <2> QED
      BY <2>1, <2>4, LocalStep
  <1>4. CASE BackoffCancelled(p)
    <2>1. OwnTypes'
      BY <1>4 DEF ExecInv, OwnTypes, Stages, BackoffCancelled, Enter, Set
    <2>2. Others(p) /\ OneInv(p)'
      BY <1>0, <1>4 DEF ExecInv, OwnTypes, OneInv, Others, BackoffCancelled, poolVars,
         Enter, Set
    <2> QED
      BY <2>1, <2>2, LocalStep
  <1> QED
    BY <1>1, <1>2, <1>3, <1>4

\* Steps that touch no goroutine's progress.
LEMMA BystanderStep ==
  ASSUME ExecInv, PoolTypeOK,
         (\E p \in Procs : Context(p)) \/ (\E c \in Conns : SocketDies(c))
           \/ ClientClose \/ UNCHANGED allVars
  PROVE  ExecInv'
  <1>1. UNCHANGED <<pc, stage, attempt, lastErr, effects>> /\ OwnTypes'
    BY DEF ExecInv, OwnTypes, Context, Cancel, NewContext, SocketDies, ClientClose, Close,
           CloseIdle, allVars, execVars, poolVars
  <1> QED
    BY <1>1 DEF ExecInv, StageMatches, EffectsKnown, RetryHasAttempt

LEMMA ExecInvInit == ExecInit => ExecInv
  BY ExecAssumption DEF ExecInit, PoolInit, ExecInv, OwnTypes, Stages, StageMatches,
     EffectsKnown, RetryHasAttempt

LEMMA ExecInvStep == ExecInv /\ PoolInv /\ [ExecNext]_allVars => ExecInv'
  <1> SUFFICES ASSUME ExecInv, PoolInv, [ExecNext]_allVars PROVE ExecInv'
    OBVIOUS
  <1>1. PoolTypeOK
    BY DEF PoolInv
  <1>2. ASSUME NEW p \in Procs, withConn(p) PROVE ExecInv'
    BY <1>1, <1>2, BeginStep, AcquireProgressStep, AcquireFailsStep, FnStep, ReturnStep
    DEF withConn, AcquireStep
  <1> QED
    BY <1>1, <1>2, BystanderStep DEF ExecNext

LEMMA ExecInvariant == ExecSpec => [](ExecInv /\ PoolInv)
  BY ExecInvInit, ExecInvStep, ExecUsesPool, PoolInvariant, PTL DEF ExecSpec

\* Every variable of withConn and of the pool under it keeps its type.
THEOREM ExecTypeCorrect == ExecSpec => []ExecTypeOK
  <1>1. ExecInv /\ PoolInv => ExecTypeOK
    BY DEF ExecInv, OwnTypes, PoolInv, ExecTypeOK
  <1> QED
    BY <1>1, ExecInvariant, PTL

\* Retries never duplicate a side effect.
THEOREM RetriesAreSafe == ExecSpec => []AtMostOnce
  <1>1. ExecInv => AtMostOnce
    <2> SUFFICES ASSUME ExecInv, NEW p \in Procs PROVE effects[p] <= 1
      BY DEF AtMostOnce
    <2>1. stage[p] \in Stages
      BY DEF ExecInv, OwnTypes
    <2> QED
      BY <2>1 DEF ExecInv, EffectsKnown, Stages
  <1> QED
    BY <1>1, ExecInvariant, PTL

\* The returned Kind never lies about what the server did.
THEOREM OutcomesAreTruthful == ExecSpec => []OutcomeTruthful
  <1>1. ExecInv => OutcomeTruthful
    BY DEF ExecInv, EffectsKnown, OutcomeTruthful
  <1> QED
    BY <1>1, ExecInvariant, PTL

\* A finished or sleeping call holds neither permit nor connection.
THEOREM CallsLeaveNothing == ExecSpec => []ReadyHoldsNothing
  <1>1. ExecInv => ReadyHoldsNothing
    BY DEF ExecInv, StageMatches, ReadyHoldsNothing, Holders, PCs
  <1> QED
    BY <1>1, ExecInvariant, PTL
-----------------------------------------------------------------------------
(* Connections that failed are not passed on. *)

\* A suspect connection is not idle, and whoever holds it is the call that made it
\* suspect, on its way to Discard.
SuspectInv ==
    /\ suspect \intersect IdleConns = {}
    /\ \A p \in Procs : pc[p] \in {"bind", "lease"} /\ conn[p] \in suspect =>
           stage[p] = "ran" /\ lastErr[p] = "Transport"

\* Steps that lend, open and pool nothing and make nothing suspect.
LEMMA SuspectFrame ==
  ASSUME SuspectInv, UNCHANGED suspect, IdleConns' \subseteq IdleConns,
         \A p \in Procs : pc'[p] \in {"bind", "lease"} =>
             /\ pc[p] \in {"bind", "lease"} /\ conn'[p] = conn[p]
             /\ stage'[p] = stage[p] /\ lastErr'[p] = lastErr[p]
  PROVE  SuspectInv'
  BY DEF SuspectInv

\* Acquire: what comes from idle or from a dial is not suspect.
LEMMA SuspectAcquire ==
  ASSUME SuspectInv, ExecInv, PoolInv, NEW p \in Procs, AcquireStep(p)
  PROVE  SuspectInv'
  <1>1. CASE Acquiring(p) /\ PopIdle(p)
    <2>1. /\ idle \in Seq(Conns) /\ idle # <<>>
          /\ \A i, j \in 1..Len(idle) : idle[i] = idle[j] => i = j
      BY <1>1 DEF PoolInv, PoolTypeOK, SingleOwner, PopIdle
    <2>2. {idle[i] : i \in 1..Len(idle)} =
             {SubSeq(idle, 1, Len(idle) - 1)[i] : i \in 1..Len(SubSeq(idle, 1, Len(idle) - 1))}
               \union {idle[Len(idle)]}
      BY <2>1, PopElements, Zenon
    <2>3. idle' = SubSeq(idle, 1, Len(idle) - 1)
      BY <1>1 DEF PopIdle
    <2>4. IdleConns = IdleConns' \union {idle[Len(idle)]}
      BY <2>2, <2>3 DEF IdleConns
    <2>5. /\ conn' = [conn EXCEPT ![p] = idle[Len(idle)]]
          /\ UNCHANGED <<suspect, stage, lastErr>>
          /\ \A q \in Procs \ {p} : pc'[q] = pc[q] /\ conn'[q] = conn[q]
          /\ conn'[p] = idle[Len(idle)]
      BY <1>1 DEF Acquiring, execVars, PopIdle, Goto, PoolInv, PoolTypeOK
    <2>6. conn'[p] \notin suspect
      BY <2>4, <2>5 DEF SuspectInv
    <2> QED
      BY <2>4, <2>5, <2>6 DEF SuspectInv
  <1>2. CASE Acquiring(p) /\ (TakeSlot(p) \/ StartDial(p) \/ BindOk(p))
    <2>1. /\ UNCHANGED <<suspect, stage, lastErr, conn, idle>>
          /\ \A q \in Procs : pc'[q] \in {"bind", "lease"} => pc[q] \in {"bind", "lease"}
      BY <1>2 DEF Acquiring, execVars, TakeSlot, StartDial, BindOk, Goto, PoolInv, PoolTypeOK
    <2> QED
      BY <2>1, SuspectFrame DEF IdleConns
  <1>3. ASSUME NEW c \in Conns, Dialled(p, c) PROVE SuspectInv'
    <2>1. /\ suspect' = suspect \ {c} /\ UNCHANGED <<stage, lastErr, idle>>
          /\ conn'[p] = c
          /\ \A q \in Procs \ {p} : pc'[q] = pc[q] /\ conn'[q] = conn[q]
      BY <1>3 DEF Dialled, DialOk, Goto, PoolInv, PoolTypeOK
    <2> QED
      BY <2>1 DEF SuspectInv, IdleConns
  <1>4. CASE (\E e \in BindErrors : AcquireFails(p, e)) \/ AcquireCancelled(p)
    <2>1. /\ UNCHANGED <<suspect, conn, idle>>
          /\ pc'[p] \in {"giveback", "out"}
          /\ \A q \in Procs \ {p} : pc'[q] = pc[q] /\ stage'[q] = stage[q] /\ lastErr'[q] = lastErr[q]
      BY <1>4 DEF AcquireFails, AcquireCancelled, SeeClosed, DialFail, BindFail, GiveUp, Goto,
                  Enter, Set, PoolInv, PoolTypeOK, ExecInv, OwnTypes
    <2> QED
      BY <2>1, SuspectFrame DEF IdleConns
  <1> QED
    BY <1>1, <1>2, <1>3, <1>4 DEF AcquireStep, Acquiring

\* A request that ended in Transport makes its own connection suspect and no other's.
LEMMA SuspectFn ==
  ASSUME SuspectInv, ExecInv, PoolInv, NEW p \in Procs, Fn(p)
  PROVE  SuspectInv'
  <1>1. PICK e : FnReturns(p, e)
    BY DEF Fn, FnSucceeds, FnRefused, FnLosesSocket
  <1>2. /\ pc[p] = "lease" /\ stage[p] = "call"
        /\ stage'[p] = "ran" /\ lastErr'[p] = KindOf(e)
        /\ suspect' = IF KindOf(e) = "Transport" THEN suspect \union {conn[p]} ELSE suspect
        /\ UNCHANGED <<pc, conn, idle>>
        /\ \A q \in Procs \ {p} : stage'[q] = stage[q] /\ lastErr'[q] = lastErr[q]
    BY <1>1 DEF FnReturns, Enter, Set, poolVars, ExecInv, OwnTypes
  <1>3. conn[p] \notin suspect
    BY <1>2 DEF SuspectInv
  <1>4. conn[p] \notin IdleConns
    BY <1>2 DEF PoolInv, SingleOwner, Owned, Owners
  <1>5. \A q \in Procs \ {p} : pc[q] \in {"bind", "lease"} => conn[q] # conn[p]
    BY <1>2 DEF PoolInv, SingleOwner, Owners
  <1> QED
    BY <1>2, <1>3, <1>4, <1>5 DEF SuspectInv, IdleConns

\* GiveLease: a connection that is released is not suspect.
LEMMA SuspectGive ==
  ASSUME SuspectInv, ExecInv, PoolInv, NEW p \in Procs, GiveLease(p)
  PROVE  SuspectInv'
  <1>1. /\ pc[p] = "lease" /\ UNCHANGED <<suspect, conn, lastErr>>
        /\ pc'[p] \in {"closing", "giveback"}
        /\ \A q \in Procs \ {p} : pc'[q] = pc[q] /\ stage'[q] = stage[q]
    BY DEF GiveLease, Enter, Discard, Release, OnceDo, PoolInv, PoolTypeOK, ExecInv, OwnTypes
  <1>2. CASE UNCHANGED idle
    BY <1>1, <1>2, SuspectFrame DEF IdleConns
  <1>3. CASE idle' = Append(idle, conn[p]) /\ lastErr[p] # "Transport"
    <2>1. conn[p] \in Conns
      BY <1>1, OwnersHoldOpen DEF Owners
    <2>2. idle \in Seq(Conns)
      BY DEF PoolInv, PoolTypeOK
    <2>3. IdleConns' = IdleConns \union {conn[p]}
      BY <1>3, <2>1, <2>2, PushElements DEF IdleConns
    <2>4. conn[p] \notin suspect
      BY <1>1, <1>3 DEF SuspectInv
    <2> QED
      BY <1>1, <2>3, <2>4 DEF SuspectInv
  <1> QED
    BY <1>2, <1>3 DEF GiveLease, Discard, Release

LEMMA SuspectRest ==
  ASSUME SuspectInv, ExecInv, PoolInv, NEW p \in Procs,
         \/ Begin(p) \/ Retry(p) \/ AcquireFailed(p) \/ CloseLate(p) \/ Decide(p)
         \/ BackoffCancelled(p) \/ Context(p)
  PROVE  SuspectInv'
  <1>0. OneInv(p)
    BY InvIsLocal
  <1>1. /\ UNCHANGED <<suspect, conn, idle>>
        /\ \A q \in Procs \ {p} : pc'[q] = pc[q] /\ stage'[q] = stage[q] /\ lastErr'[q] = lastErr[q]
        /\ \/ pc'[p] \notin {"bind", "lease"}
           \/ pc'[p] = pc[p] /\ stage'[p] = stage[p] /\ lastErr'[p] = lastErr[p]
    <2> USE DEF Enter, Set, Goto, poolVars, execVars, PoolInv, PoolTypeOK, ExecInv, OwnTypes
    <2>1. CASE Begin(p) \/ Retry(p)
      BY <2>1 DEF Begin, Retry, Call
    <2>2. CASE AcquireFailed(p) \/ CloseLate(p) \/ Decide(p)
      BY <2>2 DEF AcquireFailed, CloseLate, Decide, GiveBack, CloseReleased
    <2>3. CASE BackoffCancelled(p)
      BY <1>0, <2>3 DEF BackoffCancelled, OneInv
    <2>4. CASE Context(p)
      BY <2>4 DEF Context, Cancel, NewContext
    <2> QED
      BY <2>1, <2>2, <2>3, <2>4
  <1> QED
    BY <1>1, SuspectFrame DEF IdleConns

\* The socket and Close touch neither side of the invariant, except that Close empties idle.
LEMMA SuspectWorld ==
  ASSUME SuspectInv, ExecInv, PoolInv,
         (\E c \in Conns : SocketDies(c)) \/ ClientClose \/ UNCHANGED allVars
  PROVE  SuspectInv'
  <1>1. UNCHANGED <<suspect, conn, pc, stage, lastErr>>
    BY DEF SocketDies, ClientClose, Close, CloseIdle, allVars, execVars, poolVars
  <1>2. idle' = idle \/ idle' = <<>>
    BY DEF SocketDies, ClientClose, Close, CloseIdle, allVars, poolVars
  <1>3. IdleConns' \subseteq IdleConns
    BY <1>2 DEF IdleConns
  <1> QED
    BY <1>1, <1>3, SuspectFrame

\* A connection whose request ended in Transport never reaches another caller.
THEOREM TransportIsDiscarded == ExecSpec => []TransportDiscards
  <1>1. ExecInit => SuspectInv
    BY DEF ExecInit, SuspectInv
  <1>2. SuspectInv /\ ExecInv /\ PoolInv /\ [ExecNext]_allVars => SuspectInv'
    BY SuspectAcquire, SuspectFn, SuspectGive, SuspectRest, SuspectWorld DEF ExecNext, withConn
  <1>3. SuspectInv => TransportDiscards
    BY DEF SuspectInv, TransportDiscards
  <1> QED
    BY <1>1, <1>2, <1>3, ExecInvariant, PTL DEF ExecSpec
=============================================================================
