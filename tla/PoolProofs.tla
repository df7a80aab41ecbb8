----------------------------- MODULE PoolProofs -----------------------------
(***************************************************************************)
(* Proofs about Pool, for every set of goroutines and every Size.          *)
(*                                                                         *)
(* The inductive invariant is the conjunction of the invariants TLC checks *)
(* plus the finiteness of the set of open connections.  ConnectionBound is *)
(* the one that needs all the others: a goroutine that starts a dial found *)
(* idle empty, so every open connection belongs to a permit holder, and    *)
(* there are at most Capacity of those.                                    *)
(***************************************************************************)
EXTENDS Pool, FiniteSetTheorems, SequenceTheorems, TLAPS

PoolInv ==
    /\ PoolTypeOK
    /\ PermitAccounting
    /\ ConnectionBound
    /\ SingleOwner
    /\ NothingStranded
    /\ ClosedPoolHoldsNothing
    /\ IsFiniteSet(open)

\* The capacity NewPool settles on is positive.
LEMMA CapacityPositive == Capacity \in Nat \ {0}
  BY PoolAssumption DEF Capacity

\* Popping the stack and pushing on it, seen as operations on the set of its
\* elements.
LEMMA PopElements ==
  ASSUME NEW S, NEW s \in Seq(S), s # <<>>,
         \A i, j \in 1..Len(s) : s[i] = s[j] => i = j
  PROVE  LET t == SubSeq(s, 1, Len(s) - 1) IN
         /\ t \in Seq(S)
         /\ Len(t) = Len(s) - 1
         /\ s[Len(s)] \in S
         /\ \A i \in 1..Len(t) : t[i] = s[i]
         /\ {s[i] : i \in 1..Len(s)} = {t[i] : i \in 1..Len(t)} \union {s[Len(s)]}
         /\ s[Len(s)] \notin {t[i] : i \in 1..Len(t)}
  <1> DEFINE t == SubSeq(s, 1, Len(s) - 1)
  <1>1. Len(s) \in Nat \ {0}
    BY EmptySeq
  <1>2. \A i \in 1..Len(s) : s[i] \in S
    BY ElementOfSeq
  <1>3. /\ t \in Seq(S)
        /\ Len(t) = Len(s) - 1
        /\ \A i \in 1..Len(t) : t[i] = s[i]
    <2>1. \A i \in 1..(Len(s) - 1) : s[i] \in S
      BY <1>1, <1>2
    <2>2. /\ t \in Seq(S)
          /\ Len(t) = IF 1 <= Len(s) - 1 THEN Len(s) - 1 - 1 + 1 ELSE 0
          /\ \A i \in 1..(Len(s) - 1 - 1 + 1) : t[i] = s[1 + i - 1]
      BY <1>1, <2>1, SubSeqProperties
    <2> HIDE DEF t
    <2>3. Len(t) = Len(s) - 1
      <3>1. \A n \in Nat \ {0} : (IF 1 <= n - 1 THEN n - 1 - 1 + 1 ELSE 0) = n - 1
        OBVIOUS
      <3> QED
        BY <1>1, <2>2, <3>1, Zenon
    <2>4. ASSUME NEW i \in 1..Len(t) PROVE t[i] = s[i]
      <3>1. i \in Nat /\ 1 + i - 1 = i /\ i \in 1..(Len(s) - 1 - 1 + 1)
        BY <1>1, <2>3, <2>4
      <3> QED
        BY <2>2, <3>1
    <2> QED
      BY <2>2, <2>3, <2>4
  <1> HIDE DEF t
  <1>4. {s[i] : i \in 1..Len(s)} = {t[i] : i \in 1..Len(t)} \union {s[Len(s)]}
    BY <1>1, <1>3
  <1>5. s[Len(s)] \notin {t[i] : i \in 1..Len(t)}
    BY <1>1, <1>3
  <1> QED
    BY <1>1, <1>2, <1>3, <1>4, <1>5 DEF t

LEMMA PushElements ==
  ASSUME NEW S, NEW s \in Seq(S), NEW c \in S
  PROVE  LET t == Append(s, c) IN
         /\ t \in Seq(S)
         /\ Len(t) = Len(s) + 1
         /\ Len(s) \in Nat
         /\ \A i \in 1..Len(s) : t[i] = s[i]
         /\ t[Len(t)] = c
         /\ {t[i] : i \in 1..Len(t)} = {s[i] : i \in 1..Len(s)} \union {c}
  <1> DEFINE t == Append(s, c)
  <1>1. /\ t \in Seq(S)
        /\ Len(t) = Len(s) + 1
        /\ Len(s) \in Nat
        /\ \A i \in 1..Len(s) : t[i] = s[i]
        /\ t[Len(t)] = c
    BY AppendProperties, LenProperties
  <1> HIDE DEF t
  <1>2. {t[i] : i \in 1..Len(t)} = {s[i] : i \in 1..Len(s)} \union {c}
    BY <1>1
  <1> QED
    BY <1>1, <1>2 DEF t
-----------------------------------------------------------------------------
(* Frame lemmas: what a step that touches little preserves. *)

LEMMA FiniteParts ==
  ASSUME PoolTypeOK
  PROVE  /\ IsFiniteSet(Holders) /\ Cardinality(Holders) \in Nat
         /\ IsFiniteSet(Owners) /\ Cardinality(Owners) \in Nat
         /\ IsFiniteSet(Dialers) /\ Cardinality(Dialers) \in Nat
  <1>1. Holders \in SUBSET Procs /\ Owners \in SUBSET Procs /\ Dialers \in SUBSET Procs
    BY DEF Holders, Owners, Dialers
  <1>2. IsFiniteSet(Holders) /\ IsFiniteSet(Owners) /\ IsFiniteSet(Dialers)
    BY <1>1, FS_Subset, PoolAssumption
  <1> QED
    BY <1>2, FS_CardinalityType

\* Ownership is untouched by a step that moves no connection.
LEMMA OwnershipFrame ==
  ASSUME PoolInv, Owners' = Owners, UNCHANGED <<idle, done, draining, open, conn>>
  PROVE  SingleOwner' /\ NothingStranded' /\ ClosedPoolHoldsNothing' /\ IsFiniteSet(open')
  <1>1. Owned' = Owned
    BY DEF Owned
  <1> QED
    BY <1>1 DEF PoolInv, SingleOwner, NothingStranded, ClosedPoolHoldsNothing, IdleConns

\* The bound survives a step that opens nothing and starts no dial.
LEMMA BoundFrame ==
  ASSUME PoolInv, PoolTypeOK', open' \subseteq open, Dialers' \subseteq Dialers
  PROVE  ConnectionBound' /\ IsFiniteSet(open')
  <1>1. IsFiniteSet(open) /\ IsFiniteSet(Dialers)
    BY FiniteParts DEF PoolInv
  <1>2. /\ IsFiniteSet(open') /\ Cardinality(open') <= Cardinality(open)
        /\ IsFiniteSet(Dialers') /\ Cardinality(Dialers') <= Cardinality(Dialers)
    BY <1>1, FS_Subset
  <1>3. /\ Cardinality(open) \in Nat /\ Cardinality(open') \in Nat
        /\ Cardinality(Dialers) \in Nat /\ Cardinality(Dialers') \in Nat
    BY <1>1, <1>2, FS_CardinalityType
  <1> QED
    BY <1>2, <1>3, CapacityPositive DEF PoolInv, ConnectionBound

LEMMA PermitFrame ==
  ASSUME PermitAccounting, Holders' = Holders, sem' = sem
  PROVE  PermitAccounting'
  BY DEF PermitAccounting

\* What an owner owns is a real, open connection.
LEMMA OwnersHoldOpen ==
  ASSUME PoolInv, NEW p \in Owners
  PROVE  conn[p] \in Conns /\ conn[p] \in open /\ conn[p] \in Owned
  BY DEF PoolInv, NothingStranded, PoolTypeOK, Owned
-----------------------------------------------------------------------------
(* One lemma per group of actions. *)

\* Acquire's steps that move no connection, and the context's.
LEMMA QuietSteps ==
  ASSUME PoolInv, NEW p \in Procs,
         Call(p) \/ GiveUp(p) \/ SeeClosed(p) \/ DialFail(p) \/ BindOk(p)
           \/ Cancel(p) \/ NewContext(p)
  PROVE  PoolInv'
  <1>1. PoolTypeOK'
    BY DEF PoolInv, PoolTypeOK, PCs, Call, GiveUp, SeeClosed, DialFail, BindOk,
           Cancel, NewContext, Goto
  <1>2. /\ Owners' = Owners /\ Holders' = Holders /\ Dialers' \subseteq Dialers
        /\ UNCHANGED <<sem, idle, done, draining, open, conn>>
    BY DEF PoolInv, PoolTypeOK, PCs, Call, GiveUp, SeeClosed, DialFail, BindOk,
           Cancel, NewContext, Goto, Owners, Holders, Dialers
  <1>3. PermitAccounting'
    BY <1>2, PermitFrame DEF PoolInv
  <1>4. ConnectionBound'
    BY <1>1, <1>2, BoundFrame
  <1> QED
    BY <1>1, <1>2, <1>3, <1>4, OwnershipFrame DEF PoolInv

LEMMA TakeSlotStep ==
  ASSUME PoolInv, NEW p \in Procs, TakeSlot(p)
  PROVE  PoolInv'
  <1>1. PoolTypeOK'
    BY CapacityPositive DEF PoolInv, PoolTypeOK, PCs, TakeSlot, Goto
  <1>2. /\ Owners' = Owners /\ Dialers' = Dialers
        /\ Holders' = Holders \union {p} /\ p \notin Holders
        /\ sem' = sem + 1
        /\ UNCHANGED <<idle, done, draining, open, conn>>
    BY DEF PoolInv, PoolTypeOK, PCs, TakeSlot, Goto, Owners, Holders, Dialers
  <1>3. PermitAccounting'
    BY <1>2, FiniteParts, FS_AddElement DEF PoolInv, PermitAccounting
  <1>4. ConnectionBound'
    BY <1>1, <1>2, BoundFrame
  <1> QED
    BY <1>1, <1>2, <1>3, <1>4, OwnershipFrame DEF PoolInv

LEMMA GiveBackStep ==
  ASSUME PoolInv, NEW p \in Procs, GiveBack(p)
  PROVE  PoolInv'
  <1>1. /\ Owners' = Owners /\ Dialers' = Dialers
        /\ Holders' = Holders \ {p} /\ p \in Holders
        /\ sem' = sem - 1
        /\ UNCHANGED <<idle, done, draining, open, conn>>
    BY DEF PoolInv, PoolTypeOK, PCs, GiveBack, Goto, Owners, Holders, Dialers
  <1>2. PermitAccounting'
    BY <1>1, FiniteParts, FS_RemoveElement DEF PoolInv, PermitAccounting
  <1>3. sem # 0
    BY <1>1, FiniteParts, FS_EmptySet DEF PoolInv, PermitAccounting
  <1>4. PoolTypeOK'
    BY <1>3, CapacityPositive DEF PoolInv, PoolTypeOK, PCs, GiveBack, Goto
  <1>5. ConnectionBound'
    BY <1>1, <1>4, BoundFrame
  <1> QED
    BY <1>1, <1>2, <1>4, <1>5, OwnershipFrame DEF PoolInv

\* The heart of the bound: a goroutine that starts a dial found idle empty, so
\* every open connection belongs to another permit holder.
LEMMA StartDialStep ==
  ASSUME PoolInv, NEW p \in Procs, StartDial(p)
  PROVE  PoolInv'
  <1>1. PoolTypeOK'
    BY DEF PoolInv, PoolTypeOK, PCs, StartDial, Goto
  <1>2. /\ Owners' = Owners /\ Holders' = Holders
        /\ UNCHANGED <<sem, idle, done, draining, open, conn>>
    BY DEF PoolInv, PoolTypeOK, PCs, StartDial, Goto, Owners, Holders
  <1>3. PermitAccounting'
    BY <1>2, PermitFrame DEF PoolInv
  <1>4. open = Owned
    BY EmptySeq DEF PoolInv, NothingStranded, ClosedPoolHoldsNothing, StartDial, IdleConns
  <1>5. Cardinality(Owned) <= Cardinality(Owners)
    <2> DEFINE f == [q \in Owners |-> conn[q]]
    <2>1. f \in Surjection(Owners, Owned)
      BY DEF Surjection, Owned
    <2> QED
      BY <2>1, FiniteParts, FS_Surjection DEF PoolInv
  <1>6. /\ Owners \intersect Dialers' = {}
        /\ Owners \union Dialers' \subseteq Holders
    BY DEF PoolInv, PoolTypeOK, PCs, StartDial, Goto, Owners, Holders, Dialers
  <1>7. Cardinality(Owners) + Cardinality(Dialers') <= Cardinality(Holders)
    <2>1. IsFiniteSet(Owners) /\ IsFiniteSet(Holders) /\ Dialers' \in SUBSET Holders
      BY <1>6, FiniteParts DEF PoolInv
    <2>2. IsFiniteSet(Dialers')
      BY <2>1, FS_Subset
    <2>3. Cardinality(Owners \union Dialers') =
            Cardinality(Owners) + Cardinality(Dialers') - Cardinality({})
      BY <2>1, <2>2, <1>6, FS_Union
    <2>4. Cardinality(Owners \union Dialers') <= Cardinality(Holders)
      BY <2>1, <1>6, FS_Subset
    <2>5. Cardinality(Owners) \in Nat /\ Cardinality(Dialers') \in Nat
      BY <2>1, <2>2, FS_CardinalityType
    <2> QED
      BY <2>3, <2>4, <2>5, FS_EmptySet
  <1>8. ConnectionBound'
    <2>1. IsFiniteSet(Dialers') /\ IsFiniteSet(open)
      BY <1>1, FiniteParts, <1>6, FS_Subset DEF PoolInv
    <2>2. Cardinality(Dialers') \in Nat /\ Cardinality(open) \in Nat
      BY <2>1, FS_CardinalityType
    <2>3. Cardinality(Holders) = sem /\ sem <= Capacity /\ sem \in Nat
      BY CapacityPositive DEF PoolInv, PermitAccounting, PoolTypeOK
    <2>4. Cardinality(Owners) \in Nat
      BY FiniteParts DEF PoolInv
    <2> QED
      BY <1>2, <1>4, <1>5, <1>7, <2>2, <2>3, <2>4, CapacityPositive DEF ConnectionBound
  <1> QED
    BY <1>1, <1>2, <1>3, <1>8, OwnershipFrame DEF PoolInv

LEMMA PopIdleStep ==
  ASSUME PoolInv, NEW p \in Procs, PopIdle(p)
  PROVE  PoolInv'
  <1> DEFINE c == idle[Len(idle)]
  <1>1. /\ idle' \in Seq(Conns) /\ c \in Conns
        /\ Len(idle') = Len(idle) - 1 /\ Len(idle) \in Nat
        /\ \A i \in 1..Len(idle') : idle'[i] = idle[i]
        /\ IdleConns = IdleConns' \union {c} /\ c \notin IdleConns'
    <2>1. /\ idle \in Seq(Conns) /\ idle # <<>>
          /\ idle' = SubSeq(idle, 1, Len(idle) - 1)
          /\ \A i, j \in 1..Len(idle) : idle[i] = idle[j] => i = j
      BY DEF PoolInv, PoolTypeOK, SingleOwner, PopIdle
    <2> DEFINE rest == SubSeq(idle, 1, Len(idle) - 1)
    <2>2. /\ idle' \in Seq(Conns)
          /\ Len(idle') = Len(idle) - 1
          /\ c \in Conns
          /\ \A i \in 1..Len(idle') : idle'[i] = idle[i]
          /\ {idle[i] : i \in 1..Len(idle)} = {idle'[i] : i \in 1..Len(idle')} \union {c}
          /\ c \notin {idle'[i] : i \in 1..Len(idle')}
      <3>1. /\ rest \in Seq(Conns)
            /\ Len(rest) = Len(idle) - 1
            /\ c \in Conns
            /\ \A i \in 1..Len(rest) : rest[i] = idle[i]
            /\ {idle[i] : i \in 1..Len(idle)} = {rest[i] : i \in 1..Len(rest)} \union {c}
            /\ c \notin {rest[i] : i \in 1..Len(rest)}
        BY <2>1, PopElements, Zenon
      <3>2. rest = idle'
        BY <2>1
      <3> HIDE DEF rest
      <3> QED
        BY <3>1, <3>2
    <2> QED
      BY <2>1, <2>2, LenProperties DEF IdleConns
  <1>2. PoolTypeOK'
    BY <1>1 DEF PoolInv, PoolTypeOK, PCs, PopIdle, Goto
  <1>3. /\ Owners' = Owners \union {p} /\ p \notin Owners
        /\ Holders' = Holders /\ Dialers' = Dialers
        /\ conn' = [conn EXCEPT ![p] = c]
        /\ UNCHANGED <<sem, done, draining, open>>
    BY DEF PoolInv, PoolTypeOK, PCs, PopIdle, Goto, Owners, Holders, Dialers
  <1>4. Owned' = Owned \union {c}
    BY <1>3, <1>2 DEF PoolInv, PoolTypeOK, Owned, Owners
  <1>5. PermitAccounting'
    BY <1>3, PermitFrame DEF PoolInv
  <1>6. ConnectionBound' /\ IsFiniteSet(open')
    BY <1>2, <1>3, BoundFrame
  <1>7. c \notin Owned /\ c \notin draining
    BY <1>1 DEF PoolInv, SingleOwner
  <1>8. SingleOwner'
    <2>1. \A q, r \in Owners' : conn'[q] = conn'[r] => q = r
      BY <1>3, <1>7 DEF PoolInv, PoolTypeOK, SingleOwner, Owned, Owners
    <2>2. \A i, j \in 1..Len(idle') : idle'[i] = idle'[j] => i = j
      BY <1>1 DEF PoolInv, SingleOwner
    <2>3. /\ Owned' \intersect (IdleConns' \union draining') = {}
          /\ IdleConns' \intersect draining' = {}
      BY <1>1, <1>3, <1>4, <1>7 DEF PoolInv, SingleOwner
    <2> QED
      BY <2>1, <2>2, <2>3 DEF SingleOwner
  <1>9. NothingStranded'
    BY <1>1, <1>3, <1>4 DEF PoolInv, NothingStranded
  <1>10. ClosedPoolHoldsNothing'
    BY <1>3 DEF PoolInv, ClosedPoolHoldsNothing, PopIdle
  <1> QED
    BY <1>2, <1>5, <1>6, <1>8, <1>9, <1>10 DEF PoolInv

LEMMA DialOkStep ==
  ASSUME PoolInv, NEW p \in Procs, NEW c \in Conns, DialOk(p, c)
  PROVE  PoolInv'
  <1>1. PoolTypeOK'
    BY DEF PoolInv, PoolTypeOK, PCs, DialOk, Goto
  <1>2. /\ Owners' = Owners \union {p} /\ p \notin Owners
        /\ Holders' = Holders
        /\ Dialers' = Dialers \ {p} /\ p \in Dialers
        /\ conn' = [conn EXCEPT ![p] = c]
        /\ open' = open \union {c} /\ c \notin open
        /\ UNCHANGED <<sem, idle, done, draining>>
    BY DEF PoolInv, PoolTypeOK, PCs, DialOk, Goto, Owners, Holders, Dialers
  <1>3. Owned' = Owned \union {c} /\ IdleConns' = IdleConns
    BY <1>2, <1>1 DEF PoolInv, PoolTypeOK, Owned, Owners, IdleConns
  <1>4. PermitAccounting'
    BY <1>2, PermitFrame DEF PoolInv
  <1>5. IsFiniteSet(open') /\ Cardinality(open') = Cardinality(open) + 1
    BY <1>2, FS_AddElement DEF PoolInv
  <1>6. Cardinality(Dialers') = Cardinality(Dialers) - 1
    BY <1>2, FiniteParts, FS_RemoveElement DEF PoolInv
  <1>7. ConnectionBound'
    <2>1. Cardinality(open) \in Nat /\ Cardinality(Dialers) \in Nat
      BY FiniteParts, FS_CardinalityType DEF PoolInv
    <2> QED
      BY <1>5, <1>6, <2>1, CapacityPositive DEF PoolInv, ConnectionBound
  <1>8. c \notin Owned /\ c \notin IdleConns /\ c \notin draining
    BY <1>2 DEF PoolInv, NothingStranded
  <1>9. SingleOwner'
    <2>1. \A q, r \in Owners' : conn'[q] = conn'[r] => q = r
      BY <1>2, <1>8 DEF PoolInv, PoolTypeOK, SingleOwner, Owned, Owners
    <2>2. /\ Owned' \intersect (IdleConns' \union draining') = {}
          /\ IdleConns' \intersect draining' = {}
      BY <1>2, <1>3, <1>8 DEF PoolInv, SingleOwner
    <2> QED
      BY <1>2, <2>1, <2>2 DEF PoolInv, SingleOwner
  <1>10. NothingStranded' /\ ClosedPoolHoldsNothing'
    BY <1>2, <1>3 DEF PoolInv, NothingStranded, ClosedPoolHoldsNothing
  <1> QED
    BY <1>1, <1>4, <1>5, <1>7, <1>9, <1>10 DEF PoolInv

\* An owner closes its own connection: a refused bind, a Discard, or a Release
\* that lost the race with Close.
LEMMA OwnerClosesStep ==
  ASSUME PoolInv, NEW p \in Procs, BindFail(p) \/ Discard(p) \/ CloseReleased(p)
  PROVE  PoolInv'
  <1>1. PoolTypeOK'
    BY DEF PoolInv, PoolTypeOK, PCs, BindFail, Discard, CloseReleased, OnceDo, Goto
  <1>2. /\ Owners' = Owners \ {p} /\ p \in Owners
        /\ Holders' = Holders /\ Dialers' = Dialers
        /\ open' = open \ {conn[p]}
        /\ UNCHANGED <<sem, idle, done, draining, conn>>
    BY DEF PoolInv, PoolTypeOK, PCs, BindFail, Discard, CloseReleased, OnceDo, Goto,
           Owners, Holders, Dialers
  <1>3. Owned' = Owned \ {conn[p]} /\ IdleConns' = IdleConns
    BY <1>2 DEF PoolInv, SingleOwner, Owned, IdleConns
  <1>4. PermitAccounting'
    BY <1>2, PermitFrame DEF PoolInv
  <1>5. ConnectionBound' /\ IsFiniteSet(open')
    BY <1>1, <1>2, BoundFrame
  <1>6. SingleOwner'
    BY <1>2, <1>3 DEF PoolInv, SingleOwner
  <1>7. NothingStranded'
    BY <1>2, <1>3, OwnersHoldOpen DEF PoolInv, NothingStranded, SingleOwner
  <1>8. ClosedPoolHoldsNothing'
    BY <1>2 DEF PoolInv, ClosedPoolHoldsNothing
  <1> QED
    BY <1>1, <1>4, <1>5, <1>6, <1>7, <1>8 DEF PoolInv

LEMMA ReleaseStep ==
  ASSUME PoolInv, NEW p \in Procs, Release(p)
  PROVE  PoolInv'
  <1>1. p \in Owners /\ conn[p] \in Conns
    BY OwnersHoldOpen DEF Release, OnceDo, Owners
  <1>2. CASE done
    <2>1. PoolTypeOK'
      BY <1>2 DEF PoolInv, PoolTypeOK, PCs, Release, OnceDo
    <2>2. /\ Owners' = Owners /\ Holders' = Holders /\ Dialers' = Dialers
          /\ UNCHANGED <<sem, idle, done, draining, open, conn>>
      BY <1>2 DEF PoolInv, PoolTypeOK, PCs, Release, OnceDo, Owners, Holders, Dialers
    <2> QED
      BY <2>1, <2>2, PermitFrame, BoundFrame, OwnershipFrame DEF PoolInv
  <1>3. CASE ~done
    <2>1. /\ Owners' = Owners \ {p} /\ Holders' = Holders /\ Dialers' = Dialers
          /\ idle' = Append(idle, conn[p])
          /\ UNCHANGED <<sem, done, draining, open, conn>>
      BY <1>3 DEF PoolInv, PoolTypeOK, PCs, Release, OnceDo, Owners, Holders, Dialers
    <2>2. /\ idle' \in Seq(Conns)
          /\ Len(idle') = Len(idle) + 1 /\ Len(idle) \in Nat
          /\ \A i \in 1..Len(idle) : idle'[i] = idle[i]
          /\ idle'[Len(idle')] = conn[p]
          /\ IdleConns' = IdleConns \union {conn[p]}
      BY <1>1, <2>1, PushElements DEF PoolInv, PoolTypeOK, IdleConns
    <2>3. PoolTypeOK'
      BY <1>3, <2>2 DEF PoolInv, PoolTypeOK, PCs, Release, OnceDo
    <2>4. Owned' = Owned \ {conn[p]} /\ conn[p] \in Owned
      BY <1>1, <2>1 DEF PoolInv, SingleOwner, Owned
    <2>5. PermitAccounting'
      BY <2>1, PermitFrame DEF PoolInv
    <2>6. ConnectionBound' /\ IsFiniteSet(open')
      BY <2>1, <2>3, BoundFrame
    <2>7. SingleOwner'
      <3>1. \A i \in 1..Len(idle) : idle[i] # conn[p]
        BY <2>4 DEF PoolInv, SingleOwner, IdleConns
      <3>2. \A i, j \in 1..Len(idle') : idle'[i] = idle'[j] => i = j
        BY <2>2, <3>1 DEF PoolInv, SingleOwner
      <3>3. \A q, r \in Owners' : conn'[q] = conn'[r] => q = r
        BY <2>1 DEF PoolInv, SingleOwner
      <3>4. /\ Owned' \intersect (IdleConns' \union draining') = {}
            /\ IdleConns' \intersect draining' = {}
        BY <2>1, <2>2, <2>4 DEF PoolInv, SingleOwner
      <3> QED
        BY <3>2, <3>3, <3>4 DEF SingleOwner
    <2>8. NothingStranded' /\ ClosedPoolHoldsNothing'
      BY <1>3, <2>1, <2>2, <2>4 DEF PoolInv, NothingStranded, ClosedPoolHoldsNothing
    <2> QED
      BY <2>3, <2>5, <2>6, <2>7, <2>8 DEF PoolInv
  <1> QED
    BY <1>2, <1>3

LEMMA CloseStep ==
  ASSUME PoolInv, Close
  PROVE  PoolInv'
  <1>1. /\ Owners' = Owners /\ Holders' = Holders /\ Dialers' = Dialers
        /\ Owned' = Owned
        /\ idle' = <<>> /\ draining' = draining \union IdleConns /\ done' = TRUE
        /\ UNCHANGED <<sem, open, pc, conn, cancelled>>
    BY DEF Close, Owners, Holders, Dialers, Owned
  <1>2. /\ idle' \in Seq(Conns) /\ Len(idle') = 0 /\ IdleConns' = {}
    BY <1>1, EmptySeq DEF IdleConns
  <1>3. IdleConns \subseteq Conns
    BY DEF PoolInv, NothingStranded, PoolTypeOK
  <1>4. PoolTypeOK'
    BY <1>1, <1>2, <1>3 DEF PoolInv, PoolTypeOK
  <1>5. PermitAccounting'
    BY <1>1, PermitFrame DEF PoolInv
  <1>6. ConnectionBound' /\ IsFiniteSet(open')
    BY <1>1, <1>4, BoundFrame
  <1>7. SingleOwner'
    BY <1>1, <1>2 DEF PoolInv, SingleOwner
  <1>8. NothingStranded' /\ ClosedPoolHoldsNothing'
    BY <1>1, <1>2 DEF PoolInv, NothingStranded, ClosedPoolHoldsNothing
  <1> QED
    BY <1>4, <1>5, <1>6, <1>7, <1>8 DEF PoolInv

LEMMA CloseIdleStep ==
  ASSUME PoolInv, NEW c \in Conns, CloseIdle(c)
  PROVE  PoolInv'
  <1>1. /\ Owners' = Owners /\ Holders' = Holders /\ Dialers' = Dialers
        /\ Owned' = Owned /\ IdleConns' = IdleConns
        /\ draining' = draining \ {c} /\ c \in draining /\ open' = open \ {c}
        /\ UNCHANGED <<sem, idle, done, pc, conn, cancelled>>
    BY DEF CloseIdle, Owners, Holders, Dialers, Owned, IdleConns
  <1>2. PoolTypeOK'
    BY <1>1 DEF PoolInv, PoolTypeOK
  <1>3. PermitAccounting'
    BY <1>1, PermitFrame DEF PoolInv
  <1>4. ConnectionBound' /\ IsFiniteSet(open')
    BY <1>1, <1>2, BoundFrame
  <1>5. SingleOwner' /\ NothingStranded' /\ ClosedPoolHoldsNothing'
    BY <1>1 DEF PoolInv, SingleOwner, NothingStranded, ClosedPoolHoldsNothing
  <1> QED
    BY <1>2, <1>3, <1>4, <1>5 DEF PoolInv
-----------------------------------------------------------------------------
LEMMA PoolInvInit == PoolInit => PoolInv
  <1> SUFFICES ASSUME PoolInit PROVE PoolInv
    OBVIOUS
  <1>1. /\ Holders = {} /\ Owners = {} /\ Dialers = {} /\ Owned = {}
        /\ Len(idle) = 0 /\ IdleConns = {} /\ idle \in Seq(Conns)
    BY EmptySeq DEF PoolInit, Holders, Owners, Dialers, Owned, IdleConns, PCs
  <1>2. PoolTypeOK
    <2>1. sem \in 0..Capacity
      BY CapacityPositive DEF PoolInit
    <2>2. pc \in [Procs -> PCs] /\ conn \in [Procs -> Conns \union {NoConn}]
      BY DEF PoolInit, PCs
    <2> QED
      BY <1>1, <2>1, <2>2 DEF PoolInit, PoolTypeOK
  <1>3. Cardinality({}) = 0 /\ IsFiniteSet({})
    BY FS_EmptySet
  <1>4. PermitAccounting /\ ConnectionBound /\ IsFiniteSet(open)
    BY <1>1, <1>3, CapacityPositive DEF PoolInit, PermitAccounting, ConnectionBound
  <1>5. SingleOwner /\ NothingStranded /\ ClosedPoolHoldsNothing
    BY <1>1 DEF PoolInit, SingleOwner, NothingStranded, ClosedPoolHoldsNothing
  <1> QED
    BY <1>2, <1>4, <1>5 DEF PoolInv

LEMMA PoolInvStep == PoolInv /\ [PoolNext]_poolVars => PoolInv'
  <1> SUFFICES ASSUME PoolInv, [PoolNext]_poolVars PROVE PoolInv'
    OBVIOUS
  <1>1. CASE UNCHANGED poolVars
    <2>1. /\ Owners' = Owners /\ Holders' = Holders /\ Dialers' = Dialers
          /\ UNCHANGED <<sem, idle, done, draining, open, conn>>
      BY <1>1 DEF poolVars, Owners, Holders, Dialers
    <2>2. PoolTypeOK'
      BY <1>1 DEF poolVars, PoolInv, PoolTypeOK
    <2> QED
      BY <2>1, <2>2, PermitFrame, BoundFrame, OwnershipFrame DEF PoolInv
  <1>2. ASSUME NEW p \in Procs, Acquire(p) PROVE PoolInv'
    BY <1>2, QuietSteps, TakeSlotStep, PopIdleStep, StartDialStep, DialOkStep,
       OwnerClosesStep DEF Acquire
  <1>3. ASSUME NEW p \in Procs, Return(p) PROVE PoolInv'
    BY <1>3, ReleaseStep, OwnerClosesStep, GiveBackStep DEF Return
  <1>4. ASSUME NEW p \in Procs, Call(p) \/ Cancel(p) \/ NewContext(p) PROVE PoolInv'
    BY <1>4, QuietSteps
  <1> QED
    BY <1>1, <1>2, <1>3, <1>4, CloseStep, CloseIdleStep DEF PoolNext

\* The inductive invariant holds in every reachable state of the pool.
THEOREM PoolInvariant == PoolSpec => []PoolInv
  BY PoolInvInit, PoolInvStep, PTL DEF PoolSpec

\* Every variable keeps its type; in particular sem never leaves 0..Capacity,
\* so neither a send on the semaphore beyond its buffer nor a receive from an
\* empty one can be reached.
THEOREM PoolTypeCorrect == PoolSpec => []PoolTypeOK
  <1>1. PoolInv => PoolTypeOK
    BY DEF PoolInv
  <1> QED
    BY <1>1, PoolInvariant, PTL

\* No permit leaks, for any number of goroutines.
THEOREM PermitsNeverLeak == PoolSpec => []PermitAccounting
  <1>1. PoolInv => PermitAccounting
    BY DEF PoolInv
  <1> QED
    BY <1>1, PoolInvariant, PTL

\* Open connections and dials in flight never exceed Size.
THEOREM ConnectionsBounded == PoolSpec => []ConnectionBound
  <1>1. PoolInv => ConnectionBound
    BY DEF PoolInv
  <1> QED
    BY <1>1, PoolInvariant, PTL

\* No connection is lent twice, pooled twice, or pooled while on loan.
THEOREM ConnectionsNotShared == PoolSpec => []SingleOwner
  <1>1. PoolInv => SingleOwner
    BY DEF PoolInv
  <1> QED
    BY <1>1, PoolInvariant, PTL

\* No socket is stranded open and none is used after it was closed.
THEOREM NoConnectionLost == PoolSpec => [](NothingStranded /\ ClosedPoolHoldsNothing)
  <1>1. PoolInv => NothingStranded /\ ClosedPoolHoldsNothing
    BY DEF PoolInv
  <1> QED
    BY <1>1, PoolInvariant, PTL
-----------------------------------------------------------------------------
(* The pool implements LeaseService: each step of the pool is a step of     *)
(* the service or invisible to it; PoolInv supplies what the mapped guards  *)
(* ask for.                                                                 *)

\* The mapped state: connections being bound, given back, and lent.
Fresh == {conn[p] : p \in {q \in Procs : pc[q] = "bind"}}
Closing == {conn[p] : p \in {q \in Procs : pc[q] = "closing"}}
Pooled == IdleConns \union draining \union Closing
Lent == [p \in Procs |-> IF pc[p] = "lease" THEN conn[p] ELSE NoConn]
OnLoan == {conn[p] : p \in {q \in Procs : pc[q] = "lease"}}

\* The set of existing connections of the service is the set of open sockets,
\* and the parts it is made of do not overlap.
LEMMA MappedSets ==
  ASSUME PoolInv
  PROVE  /\ LS!InUse = OnLoan
         /\ LS!Existing = open
         /\ OnLoan \intersect (Fresh \union Pooled) = {}
         /\ Fresh \intersect Pooled = {}
  <1>1. \A p \in Owners : conn[p] \in Conns
    BY OwnersHoldOpen
  <1>2. LS!InUse = OnLoan
    BY <1>1, PoolAssumption DEF LS!InUse, OnLoan, Owners
  <1>3. Owned = Fresh \union Closing \union OnLoan
    BY DEF Owned, Owners, Fresh, Closing, OnLoan
  <1>4. LS!Existing = open
    BY <1>2, <1>3 DEF PoolInv, NothingStranded, LS!Existing, Fresh, Closing
  <1>5. /\ OnLoan \intersect Fresh = {}
        /\ OnLoan \intersect Closing = {}
        /\ Fresh \intersect Closing = {}
    BY DEF PoolInv, SingleOwner, Owners, Fresh, Closing, OnLoan
  <1> QED
    BY <1>2, <1>3, <1>4, <1>5 DEF PoolInv, SingleOwner, Pooled

\* The service counts with the same Cardinality.
LEMMA SameCardinality == \A S : LS!Cardinality(S) = Cardinality(S)
  BY DEF LS!Cardinality, Cardinality, LS!IsFiniteSet, IsFiniteSet

LEMMA RefineInvisible ==
  ASSUME PoolInv, NEW p \in Procs,
         Call(p) \/ TakeSlot(p) \/ GiveUp(p) \/ SeeClosed(p) \/ StartDial(p)
           \/ DialFail(p) \/ GiveBack(p) \/ Cancel(p) \/ NewContext(p)
  PROVE  UNCHANGED LS!lsVars
  <1>1. UNCHANGED <<idle, done, draining, conn>>
    BY DEF Call, TakeSlot, GiveUp, SeeClosed, StartDial, DialFail, GiveBack, Cancel,
           NewContext
  <1>2. \A q \in Procs : \A s \in {"bind", "lease", "closing"} : pc'[q] = s <=> pc[q] = s
    BY DEF PoolInv, PoolTypeOK, Call, TakeSlot, GiveUp, SeeClosed, StartDial, DialFail,
           GiveBack, Cancel, NewContext, Goto
  <1>3. Fresh' = Fresh /\ Closing' = Closing /\ Lent' = Lent /\ IdleConns' = IdleConns
    BY <1>1, <1>2 DEF Fresh, Closing, Lent, IdleConns
  <1> QED
    BY <1>1, <1>3 DEF LS!lsVars, Fresh, Closing, Lent

LEMMA RefinePopIdle ==
  ASSUME PoolInv, PoolInv', NEW p \in Procs, PopIdle(p),
         NEW c \in Conns, c = idle[Len(idle)]
  PROVE  LS!Lend(p, c)
  <1>1. Len(idle) \in 1..Len(idle) /\ c \in IdleConns
    BY EmptySeq DEF PoolInv, PoolTypeOK, PopIdle, IdleConns
  <1>2. c \in Conns /\ c \in Pooled /\ c \notin OnLoan /\ c \notin Fresh /\ c \notin draining
    BY <1>1, MappedSets DEF PoolInv, NothingStranded, PoolTypeOK, Pooled, SingleOwner
  <1>3. /\ pc[p] = "slot" /\ pc' = [pc EXCEPT ![p] = "lease"]
        /\ conn' = [conn EXCEPT ![p] = c] /\ draining' = draining /\ done' = done /\ ~done
    BY DEF PopIdle, Goto
  <1>4. Lent[p] = NoConn /\ Lent' = [Lent EXCEPT ![p] = c]
    BY <1>3 DEF PoolInv, PoolTypeOK, Lent
  <1>5. Fresh' = Fresh /\ Closing' = Closing
    BY <1>3 DEF PoolInv, PoolTypeOK, Fresh, Closing
  <1>6. IdleConns' = IdleConns \ {c}
    <2>1. open' = open /\ Owned' = Owned \union {c}
      BY <1>3 DEF PopIdle, Owned, Owners, PoolInv, PoolTypeOK
    <2> QED
      BY <2>1, <1>1, <1>3 DEF PoolInv, NothingStranded, SingleOwner
  <1>7. c \notin Closing
    BY <1>1 DEF PoolInv, SingleOwner, Owned, Owners, Closing
  <1>8. Pooled' = Pooled \ {c} /\ Fresh' = Fresh \ {c}
    BY <1>2, <1>3, <1>5, <1>6, <1>7 DEF Pooled
  <1> QED
    BY <1>2, <1>3, <1>4, <1>8, MappedSets
    DEF LS!Lend, Fresh, Pooled, Closing, Lent

LEMMA RefineDialOk ==
  ASSUME PoolInv, PoolInv', NEW p \in Procs, NEW c \in Conns, DialOk(p, c)
  PROVE  LS!Connect(c)
  <1>1. /\ pc[p] = "dial" /\ pc' = [pc EXCEPT ![p] = "bind"]
        /\ conn' = [conn EXCEPT ![p] = c] /\ open' = open \union {c} /\ c \notin open
        /\ UNCHANGED <<idle, done, draining>>
    BY DEF DialOk, Goto
  <1>2. Fresh' = Fresh \union {c} /\ Closing' = Closing /\ Lent' = Lent
    BY <1>1 DEF PoolInv, PoolTypeOK, Fresh, Closing, Lent
  <1>3. IdleConns' = IdleConns
    BY <1>1 DEF IdleConns
  <1>4. Cardinality(open \union {c}) <= Capacity
    <2>1. Cardinality(open') \in Nat /\ Cardinality(Dialers') \in Nat
      <3>1. IsFiniteSet(open') /\ IsFiniteSet(Dialers')
        BY FS_Subset, PoolAssumption DEF PoolInv, Dialers
      <3> QED
        BY <3>1, FS_CardinalityType
    <2> QED
      BY <1>1, <2>1, CapacityPositive DEF PoolInv, ConnectionBound
  <1>5. c \notin LS!Existing /\ LS!Cardinality(LS!Existing \union {c}) <= Capacity
    BY <1>1, <1>4, MappedSets, SameCardinality
  <1>6. Pooled' = Pooled
    BY <1>1, <1>2, <1>3 DEF Pooled
  <1> QED
    BY <1>1, <1>2, <1>5, <1>6 DEF LS!Connect, Fresh, Pooled, Closing, Lent

LEMMA RefineBindOk ==
  ASSUME PoolInv, NEW p \in Procs, BindOk(p),
         NEW c \in Conns, c = conn[p]
  PROVE  LS!Lend(p, c)
  <1>1. /\ pc[p] = "bind" /\ pc' = [pc EXCEPT ![p] = "lease"]
        /\ UNCHANGED <<conn, idle, done, draining>>
    BY DEF BindOk, Goto
  <1>2. p \in Owners /\ conn[p] \in Conns /\ conn[p] \in Fresh
    BY <1>1, OwnersHoldOpen DEF Owners, Fresh
  <1>3. Lent[p] = NoConn /\ Lent' = [Lent EXCEPT ![p] = conn[p]]
    BY <1>1 DEF PoolInv, PoolTypeOK, Lent
  <1>4. Fresh' = Fresh \ {conn[p]}
    BY <1>1 DEF PoolInv, PoolTypeOK, SingleOwner, Owners, Fresh
  <1>5. Closing' = Closing /\ IdleConns' = IdleConns
    BY <1>1 DEF PoolInv, PoolTypeOK, Closing, IdleConns
  <1>6. conn[p] \notin OnLoan /\ conn[p] \notin Pooled
    BY <1>2, MappedSets
  <1>7. Pooled' = Pooled \ {conn[p]}
    BY <1>1, <1>5, <1>6 DEF Pooled
  <1> QED
    BY <1>1, <1>2, <1>3, <1>4, <1>6, <1>7, MappedSets
    DEF LS!Lend, Fresh, Pooled, Closing, Lent

LEMMA RefineOwnerCloses ==
  ASSUME PoolInv, NEW p \in Procs, BindFail(p) \/ CloseReleased(p),
         NEW c \in Conns, c = conn[p]
  PROVE  LS!Disconnect(c)
  <1>1. /\ pc[p] \in {"bind", "closing"} /\ pc' = [pc EXCEPT ![p] = "giveback"]
        /\ UNCHANGED <<conn, idle, done, draining>>
    BY DEF BindFail, CloseReleased, Goto
  <1>2. p \in Owners /\ conn[p] \in Conns /\ conn[p] \in Fresh \union Closing
    BY <1>1, OwnersHoldOpen DEF Owners, Fresh, Closing
  <1>3. Lent' = Lent
    BY <1>1 DEF PoolInv, PoolTypeOK, Lent
  <1>4. Fresh' = Fresh \ {conn[p]} /\ Closing' = Closing \ {conn[p]}
    BY <1>1 DEF PoolInv, PoolTypeOK, SingleOwner, Owners, Fresh, Closing
  <1>5. conn[p] \notin IdleConns /\ conn[p] \notin draining /\ IdleConns' = IdleConns
    BY <1>1, <1>2 DEF PoolInv, SingleOwner, Owned, IdleConns
  <1>6. Pooled' = Pooled \ {conn[p]} /\ conn[p] \in (Fresh \union Pooled) \ OnLoan
    BY <1>1, <1>2, <1>4, <1>5, MappedSets DEF Pooled
  <1> QED
    BY <1>1, <1>2, <1>3, <1>4, <1>6, MappedSets
    DEF LS!Disconnect, Fresh, Pooled, Closing, Lent

LEMMA RefineTakeBack ==
  ASSUME PoolInv, PoolInv', NEW p \in Procs, Release(p) \/ Discard(p)
  PROVE  LS!TakeBack(p)
  <1>1. /\ pc[p] = "lease" /\ pc' \in {[pc EXCEPT ![p] = s] : s \in {"giveback", "closing"}}
        /\ UNCHANGED <<conn, done, draining>>
    BY DEF Release, Discard, OnceDo
  <1>2. p \in Owners /\ conn[p] \in Conns /\ conn[p] # NoConn
    BY <1>1, OwnersHoldOpen, PoolAssumption DEF Owners
  <1>3. Lent[p] = conn[p] /\ Lent' = [Lent EXCEPT ![p] = NoConn]
    BY <1>1 DEF PoolInv, PoolTypeOK, Lent
  <1>4. Fresh' = Fresh
    BY <1>1 DEF PoolInv, PoolTypeOK, Fresh
  <1>5. Pooled' \in {Pooled, Pooled \union {conn[p]}}
    <2>1. CASE Discard(p)
      BY <2>1 DEF Discard, OnceDo, PoolInv, PoolTypeOK, Pooled, Closing, IdleConns
    <2>2. CASE Release(p) /\ done
      <3>1. Closing' = Closing \union {conn[p]} /\ IdleConns' = IdleConns
        BY <2>2 DEF Release, OnceDo, PoolInv, PoolTypeOK, Closing, IdleConns
      <3> QED
        BY <1>1, <3>1 DEF Pooled
    <2>3. CASE Release(p) /\ ~done
      <3>1. Closing' = Closing
        BY <2>3 DEF Release, OnceDo, PoolInv, PoolTypeOK, Closing
      <3>2. IdleConns' = IdleConns \union {conn[p]}
        <4>1. idle \in Seq(Conns) /\ idle' = Append(idle, conn[p])
          BY <2>3 DEF Release, PoolInv, PoolTypeOK
        <4> QED
          BY <1>2, <4>1, PushElements DEF IdleConns
      <3> QED
        BY <1>1, <3>1, <3>2 DEF Pooled
    <2> QED
      BY <2>1, <2>2, <2>3
  <1> QED
    BY <1>1, <1>2, <1>3, <1>4, <1>5 DEF LS!TakeBack, Fresh, Pooled, Closing, Lent

LEMMA RefineClose ==
  ASSUME PoolInv, Close
  PROVE  LS!Shut
  <1>1. IdleConns' = {}
    BY EmptySeq DEF Close, IdleConns
  <1>2. Fresh' = Fresh /\ Closing' = Closing /\ Lent' = Lent
    BY DEF Close, Fresh, Closing, Lent
  <1> QED
    BY <1>1, <1>2 DEF Close, LS!Shut, Fresh, Closing, Lent

LEMMA RefineCloseIdle ==
  ASSUME PoolInv, NEW c \in Conns, CloseIdle(c)
  PROVE  LS!Disconnect(c)
  <1>1. /\ c \in draining /\ draining' = draining \ {c}
        /\ UNCHANGED <<idle, done, pc, conn>>
    BY DEF CloseIdle
  <1>2. Fresh' = Fresh /\ Closing' = Closing /\ Lent' = Lent /\ IdleConns' = IdleConns
    BY <1>1 DEF Fresh, Closing, Lent, IdleConns
  <1>3. c \in Pooled /\ c \notin Fresh /\ c \notin OnLoan
    BY <1>1, MappedSets DEF Pooled
  <1>4. c \notin IdleConns /\ c \notin Closing
    BY <1>1 DEF PoolInv, SingleOwner, Owned, Owners, Closing
  <1>5. Pooled' = Pooled \ {c} /\ Fresh' = Fresh \ {c}
    BY <1>1, <1>2, <1>3, <1>4 DEF Pooled
  <1> QED
    BY <1>1, <1>2, <1>3, <1>5, MappedSets DEF LS!Disconnect, Fresh, Pooled, Closing, Lent
-----------------------------------------------------------------------------
LEMMA RefineInit == PoolInit => LS!LSInit
  <1> SUFFICES ASSUME PoolInit PROVE LS!LSInit
    OBVIOUS
  <1>1. Fresh = {} /\ Closing = {} /\ IdleConns = {} /\ Lent = [p \in Procs |-> NoConn]
    BY EmptySeq DEF PoolInit, Fresh, Closing, IdleConns, Lent
  <1> QED
    BY <1>1 DEF PoolInit, LS!LSInit, Fresh, Closing, Lent

LEMMA RefineStep ==
  PoolInv /\ PoolInv' /\ [PoolNext]_poolVars => [LS!LSNext]_(LS!lsVars)
  <1> SUFFICES ASSUME PoolInv, PoolInv', [PoolNext]_poolVars
               PROVE  LS!LSNext \/ UNCHANGED LS!lsVars
    OBVIOUS
  <1>1. CASE UNCHANGED poolVars
    BY <1>1 DEF poolVars, LS!lsVars, IdleConns
  <1>2. ASSUME NEW p \in Procs,
               Call(p) \/ Acquire(p) \/ Return(p) \/ Cancel(p) \/ NewContext(p)
        PROVE  LS!LSNext \/ UNCHANGED LS!lsVars
    <2>1. CASE PopIdle(p)
      <3>1. idle[Len(idle)] \in Conns
        BY <2>1, EmptySeq, ElementOfSeq DEF PopIdle, PoolInv, PoolTypeOK
      <3>2. PICK c \in Conns : c = idle[Len(idle)]
        BY <3>1
      <3>3. LS!Lend(p, c)
        BY <2>1, <3>2, RefinePopIdle
      <3> QED
        BY <3>3, Zenon DEF LS!LSNext
    <2>2. CASE \E c \in Conns : DialOk(p, c)
      BY <2>2, RefineDialOk, Zenon DEF LS!LSNext
    <2>3. CASE BindOk(p)
      <3>1. conn[p] \in Conns
        BY <2>3, OwnersHoldOpen DEF BindOk, BindFail, CloseReleased, Goto, Owners
      <3>2. PICK c \in Conns : c = conn[p]
        BY <3>1
      <3>3. LS!Lend(p, c)
        BY <2>3, <3>2, RefineBindOk
      <3> QED
        BY <3>3, Zenon DEF LS!LSNext
    <2>4. CASE BindFail(p) \/ CloseReleased(p)
      <3>1. conn[p] \in Conns
        BY <2>4, OwnersHoldOpen DEF BindOk, BindFail, CloseReleased, Goto, Owners
      <3>2. PICK c \in Conns : c = conn[p]
        BY <3>1
      <3>3. LS!Disconnect(c)
        BY <2>4, <3>2, RefineOwnerCloses
      <3> QED
        BY <3>3, Zenon DEF LS!LSNext
    <2>5. CASE Release(p) \/ Discard(p)
      <3>1. LS!TakeBack(p)
        BY <2>5, RefineTakeBack
      <3> QED
        BY <3>1, Zenon DEF LS!LSNext
    <2> QED
      BY <1>2, <2>1, <2>2, <2>3, <2>4, <2>5, RefineInvisible DEF Acquire, Return
  <1>3. CASE Close
    BY <1>3, RefineClose DEF LS!LSNext
  <1>4. CASE \E c \in Conns : CloseIdle(c)
    BY <1>4, RefineCloseIdle DEF LS!LSNext
  <1> QED
    BY <1>1, <1>2, <1>3, <1>4 DEF PoolNext

\* The pool implements the lease service: exclusive loans, at most Size
\* connections, and no connection lent again once the pool was closed.
THEOREM PoolRefinesLeaseService == PoolSpec => ImplementsLeaseService
  BY PoolInvariant, RefineInit, RefineStep, PTL
  DEF PoolSpec, ImplementsLeaseService, LS!LSSpec
=============================================================================
