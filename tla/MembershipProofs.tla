-------------------------- MODULE MembershipProofs --------------------------
(***************************************************************************)
(* Proofs about Membership, for every number of goroutines and principals, *)
(* every page size and every set of calls.                                 *)
(***************************************************************************)
EXTENDS Membership, FiniteSetTheorems, SequenceTheorems, TLAPS

\* The states of the member attribute: every member once.
Lists == {s \in Seq(Principals) : IsInjective(s)}

\* What the point c, the job j and the DNs v of a goroutine have to do with each other:
\* an edit has resolved as many members as it has DNs, those named by DN as they are, and
\* at its Modify all of them.
Path(c, j, v) ==
    /\ c \in {"dn", "page", "lookup"} => j.op = "Members"
    /\ c \in {"lock", "get", "resolve", "modify"} => j.op # "Members" /\ j.who # <<>>
    /\ c \in {"lock", "get"} => v = <<>>
    /\ c = "resolve" => Len(v) < Len(j.who)
    /\ c = "modify" => Len(v) = Len(j.who)
    /\ c = "dn" => v = <<>>
    /\ c \in {"resolve", "modify"} =>
         \A i \in 1..Len(v) : j.who[i].form = "dn" => v[i] = j.who[i].dn

TypeInv ==
    /\ MemberTypeOK
    /\ ever \in [Procs -> SUBSET Principals] /\ always \in [Procs -> SUBSET Principals]
    /\ load \in Workloads /\ active \subseteq Procs
    /\ \A p \in Procs : pc[p] # "idle" => job[p] \in Jobs
    /\ \A p \in Procs : Path(pc[p], job[p], vals[p])

\* What a read knows.  As long as its pages are Group's and the DNs read have not passed
\* on, they name nobody who never was a member.  While it is calm besides, the group only
\* grows at its end, so that the DNs read are those of the first members; once it is
\* through the pages they are those of all who were members from the beginning.
ReadOf(p) ==
    /\ Reading(p) => /\ InGroup(Group) \subseteq ever[p] /\ always[p] \subseteq InGroup(Group)
                     /\ got[p] = {}
    /\ Reading(p) /\ same[p] => Named(p) \subseteq ever[p]
    /\ Reading(p) /\ same[p] /\ calm[p] =>
         /\ Len(vals[p]) <= Len(members[Group])
         /\ \A i \in 1..Len(vals[p]) : vals[p][i] = at[members[Group][i]]
    /\ pc[p] = "lookup" /\ same[p] /\ calm[p] =>
         always[p] \subseteq {members[Group][i] : i \in 1..Len(vals[p])}
    /\ ReadDone(p) /\ same[p] => /\ got[p] \subseteq ever[p]
                                 /\ calm[p] => always[p] \ Foreign \subseteq got[p]

ReadInv == \A p \in Procs : ReadOf(p)
-----------------------------------------------------------------------------
(* The member attribute *)

\* The members of a list are finitely many.
LEMMA RangeFinite ==
  ASSUME NEW S, NEW s \in Seq(S)
  PROVE  Range(s) \subseteq S /\ IsFiniteSet(Range(s))
  <1>1. s \in [1..Len(s) -> S] /\ Len(s) \in Nat
    BY LenProperties
  <1>2. s \in Surjection(1..Len(s), Range(s))
    BY <1>1 DEF Surjection, Range
  <1>3. IsFiniteSet(1..Len(s))
    BY <1>1, FS_Interval
  <1> QED
    BY <1>1, <1>2, <1>3, FS_Surjection DEF Range

\* An arrangement of a finite set has each of its elements, once.
LEMMA Arrangement ==
  ASSUME NEW S, IsFiniteSet(S), NEW s \in SetToSeqs(S)
  PROVE  s \in Seq(S) /\ IsInjective(s) /\ Range(s) = S
  <1>1. Cardinality(S) \in Nat
    BY FS_CardinalityType
  <1>2. /\ s \in [1..Cardinality(S) -> S]
        /\ \A i, j \in 1..Cardinality(S) : i # j => s[i] # s[j]
    BY DEF SetToSeqs
  <1>3. IsInjective(s)
    BY <1>2 DEF IsInjective
  <1>4. s \in Injection(1..Cardinality(S), S)
    BY <1>2, <1>3 DEF Injection
  <1>5. Cardinality(1..Cardinality(S)) = Cardinality(S)
    BY <1>1, FS_Interval
  <1>6. s \in Surjection(1..Cardinality(S), S)
    BY <1>4, <1>5, FS_Injection
  <1>7. Range(s) = S
    BY <1>2, <1>6 DEF Surjection, Range
  <1> QED
    BY <1>1, <1>2, <1>3, <1>7, IsASeq

\* Who joins comes last.
LEMMA JoinedList ==
  ASSUME NEW who \in SUBSET Principals, IsFiniteSet(who), NEW l \in Lists,
         who \intersect Range(l) = {}, NEW s \in Joined(l, who)
  PROVE  /\ s \in Lists /\ Range(s) = Range(l) \union who
         /\ Len(s) >= Len(l) /\ \A i \in 1..Len(l) : s[i] = l[i]
  <1>1. PICK t \in SetToSeqs(who) : s = l \o t
    BY DEF Joined
  <1>2. t \in Seq(who) /\ IsInjective(t) /\ Range(t) = who
    BY Arrangement
  <1>3. t \in Seq(Principals) /\ l \in Seq(Principals) /\ IsInjective(l)
    BY <1>2, SeqMonotonic DEF Lists
  <1>4. /\ s \in Seq(Principals) /\ Len(s) = Len(l) + Len(t)
        /\ \A i \in 1..Len(s) : s[i] = IF i <= Len(l) THEN l[i] ELSE t[i - Len(l)]
    BY <1>1, <1>3, ConcatProperties
  <1>5. /\ Len(l) \in Nat /\ DOMAIN l = 1..Len(l)
        /\ Len(t) \in Nat /\ DOMAIN t = 1..Len(t) /\ DOMAIN s = 1..Len(s)
    BY <1>3, <1>4, LenProperties
  <1>6. Range(s) = Range(l) \union Range(t)
    BY <1>1, <1>3, RangeConcatenation
  <1>7. \A i \in DOMAIN l, j \in DOMAIN t : l[i] # t[j]
    BY <1>2 DEF Range
  <1>8. IsInjective(s)
    <2> SUFFICES ASSUME NEW a \in 1..Len(s), NEW b \in 1..Len(s), s[a] = s[b] PROVE a = b
      BY <1>5 DEF IsInjective
    <2>1. CASE a <= Len(l) /\ b <= Len(l)
      <3>1. a \in DOMAIN l /\ b \in DOMAIN l
        BY <2>1, <1>5
      <3>2. l[a] = l[b]
        BY <2>1, <1>4
      <3> QED
        BY <3>1, <3>2, <1>3 DEF IsInjective
    <2>2. CASE a > Len(l) /\ b > Len(l)
      <3>1. a - Len(l) \in DOMAIN t /\ b - Len(l) \in DOMAIN t
        BY <2>2, <1>4, <1>5
      <3>2. t[a - Len(l)] = t[b - Len(l)]
        BY <2>2, <1>4, <1>5
      <3>3. a - Len(l) = b - Len(l)
        BY <3>1, <3>2, <1>2 DEF IsInjective
      <3> QED
        BY <3>3, <1>4, <1>5
    <2>3. CASE a <= Len(l) /\ b > Len(l)
      <3>1. a \in DOMAIN l /\ b - Len(l) \in DOMAIN t
        BY <2>3, <1>4, <1>5
      <3>2. s[a] = l[a] /\ s[b] = t[b - Len(l)]
        BY <2>3, <1>4, <1>5
      <3> QED
        BY <3>1, <3>2, <1>7
    <2>4. CASE b <= Len(l) /\ a > Len(l)
      <3>1. b \in DOMAIN l /\ a - Len(l) \in DOMAIN t
        BY <2>4, <1>4, <1>5
      <3>2. s[b] = l[b] /\ s[a] = t[a - Len(l)]
        BY <2>4, <1>4, <1>5
      <3> QED
        BY <3>1, <3>2, <1>7
    <2> QED
      BY <2>1, <2>2, <2>3, <2>4, <1>4, <1>5
  <1> QED
    BY <1>2, <1>4, <1>5, <1>6, <1>8 DEF Lists

\* Who leaves is gone, and nobody else.
LEMMA StayingList ==
  ASSUME NEW who, NEW l \in Lists, NEW s \in Staying(l, who)
  PROVE  s \in Lists /\ Range(s) = Range(l) \ who
  <1>1. Range(l) \subseteq Principals /\ IsFiniteSet(Range(l))
    BY RangeFinite DEF Lists
  <1>2. IsFiniteSet(Range(l) \ who)
    BY <1>1, FS_Subset
  <1>3. s \in Seq(Range(l) \ who) /\ IsInjective(s) /\ Range(s) = Range(l) \ who
    BY <1>2, Arrangement DEF Staying
  <1> QED
    BY <1>1, <1>3, SeqMonotonic DEF Lists
-----------------------------------------------------------------------------
(* Types *)

\* The directory and what the reads witnessed; where the goroutines are.
DataInv ==
    /\ members \in [Groups -> Lists]
    /\ at \in [Principals -> Names] /\ IsInjective(at)
    /\ gat \in [Groups -> GroupNames \union {Nil}]
    /\ \A g, h \in Groups : gat[g] = gat[h] /\ gat[g] # Nil => g = h
    /\ ever \in [Procs -> SUBSET Principals] /\ always \in [Procs -> SUBSET Principals]
    /\ \A p \in Procs : always[p] \subseteq ever[p]
    /\ calm \in [Procs -> BOOLEAN] /\ same \in [Procs -> BOOLEAN]

Labels == {"idle", "lock", "get", "resolve", "modify", "dn", "page", "lookup"}

CtlInv ==
    /\ holder \in [Keys -> Procs \union {Nil}]
    /\ \A k \in Keys : holder[k] # Nil => pc[holder[k]] \in {"get", "resolve", "modify"}
    /\ pc \in [Procs -> Labels]
    /\ job \in [Procs -> Jobs \union {Nil}]
    /\ res \in [Procs -> Results]
    /\ tdn \in [Procs -> GroupNames \union {Nil}]
    /\ vals \in [Procs -> Seq(Names)]
    /\ got \in [Procs -> SUBSET Principals]
    /\ load \in Workloads /\ active \subseteq Procs
    /\ \A p \in Procs : pc[p] # "idle" => job[p] \in Jobs
    /\ \A p \in Procs : Path(pc[p], job[p], vals[p])

LEMMA TypeSplit == TypeInv <=> DataInv /\ CtlInv
  <1>1. members \in [Groups -> Lists]
          <=> members \in [Groups -> Seq(Principals)] /\ \A g \in Groups : IsInjective(members[g])
    BY DEF Lists
  <1> QED
    BY <1>1 DEF TypeInv, MemberTypeOK, DataInv, CtlInv, Labels

\* Every read under way witnesses a change of the group.
LEMMA DataSetMembers ==
  ASSUME DataInv, NEW g \in Groups, NEW s \in Lists, SetMembers(g, s), UNCHANGED at,
         gat' \in [Groups -> GroupNames \union {Nil}],
         \A x, y \in Groups : gat'[x] = gat'[y] /\ gat'[x] # Nil => x = y
  PROVE  DataInv'
  <1>1. Range(s) \subseteq Principals
    BY RangeFinite DEF Lists
  <1>2. members' \in [Groups -> Lists]
    BY DEF SetMembers, DataInv
  <1>3. ever' \in [Procs -> SUBSET Principals]
    BY <1>1 DEF SetMembers, DataInv
  <1>4. always' \in [Procs -> SUBSET Principals]
    BY DEF SetMembers, DataInv
  <1>5. \A p \in Procs : always'[p] \subseteq ever'[p]
    BY DEF SetMembers, DataInv
  <1>6. calm' \in [Procs -> BOOLEAN]
    <2>1. calm' = [p \in Procs |-> calm[p] /\ (Reading(p) /\ g = Group => InGroup(g) \subseteq Range(s))]
      BY DEF SetMembers
    <2> QED
      BY <2>1, Zenon
  <1>7. same' \in [Procs -> BOOLEAN] /\ UNCHANGED at
    BY DEF SetMembers, DataInv
  <1> QED
    BY <1>2, <1>3, <1>4, <1>5, <1>6, <1>7 DEF DataInv

\* A goroutine that goes on, or returns.
LEMMA CtlContinue ==
  ASSUME CtlInv, NEW p \in Procs, NEW c \in Labels, Continue(p, c), UNCHANGED <<job, load, active>>,
         tdn' \in [Procs -> GroupNames \union {Nil}], vals' \in [Procs -> Seq(Names)],
         \A q \in Procs \ {p} : vals'[q] = vals[q],
         got' \in [Procs -> SUBSET Principals],
         pc[p] # "idle", Path(c, job[p], vals'[p]),
         pc[p] \in {"get", "resolve", "modify"} => c \in {"get", "resolve", "modify"}
  PROVE  CtlInv'
  <1>1. pc' = [pc EXCEPT ![p] = c] /\ UNCHANGED <<res, holder>>
    BY DEF Continue
  <1>2. pc' \in [Procs -> Labels] /\ pc'[p] = c /\ \A q \in Procs \ {p} : pc'[q] = pc[q]
    BY <1>1 DEF CtlInv
  <1>3. \A k \in Keys : holder'[k] # Nil => pc'[holder'[k]] \in {"get", "resolve", "modify"}
    BY <1>1, <1>2 DEF CtlInv
  <1>4. \A q \in Procs : Path(pc'[q], job'[q], vals'[q])
    BY <1>2 DEF CtlInv
  <1>5. \A q \in Procs : pc'[q] # "idle" => job'[q] \in Jobs
    BY <1>2 DEF CtlInv
  <1> QED
    BY <1>1, <1>2, <1>3, <1>4, <1>5 DEF CtlInv

LEMMA CtlReturn ==
  ASSUME CtlInv, NEW p \in Procs, NEW r \in Results, Return(p, r), UNCHANGED <<job, load, active>>,
         tdn' \in [Procs -> GroupNames \union {Nil}], vals' \in [Procs -> Seq(Names)],
         \A q \in Procs \ {p} : vals'[q] = vals[q],
         got' \in [Procs -> SUBSET Principals]
  PROVE  CtlInv'
  <1>1. /\ pc' = [pc EXCEPT ![p] = "idle"] /\ res' = [res EXCEPT ![p] = r]
        /\ holder' = [k \in Keys |-> IF holder[k] = p THEN Nil ELSE holder[k]]
    BY DEF Return
  <1>2. pc' \in [Procs -> Labels] /\ pc'[p] = "idle" /\ \A q \in Procs \ {p} : pc'[q] = pc[q]
    BY <1>1 DEF CtlInv, Labels
  <1>3. res' \in [Procs -> Results]
    BY <1>1 DEF CtlInv
  <1>4. holder' \in [Keys -> Procs \union {Nil}]
    BY <1>1 DEF CtlInv
  <1>5. \A k \in Keys : holder'[k] # Nil => pc'[holder'[k]] \in {"get", "resolve", "modify"}
    BY <1>1, <1>2 DEF CtlInv
  <1>6. \A q \in Procs : Path(pc'[q], job'[q], vals'[q])
    <2>1. Path("idle", job'[p], vals'[p])
      BY DEF Path
    <2>2. \A q \in Procs : Path(pc[q], job[q], vals[q])
      BY DEF CtlInv
    <2> QED
      BY <1>2, <2>1, <2>2
  <1>7. \A q \in Procs : pc'[q] # "idle" => job'[q] \in Jobs
    BY <1>2 DEF CtlInv
  <1> QED
    BY <1>2, <1>3, <1>4, <1>5, <1>6, <1>7 DEF CtlInv

LEMMA CtlFails ==
  ASSUME CtlInv, NEW p \in Procs, Fails(p), UNCHANGED <<job, load, active, tdn, vals, got>>
  PROVE  CtlInv'
  <1>1. PICK r \in {"Denied", "Transport"} : Return(p, r)
    BY DEF Fails
  <1>2. r \in Results
    BY DEF Results
  <1>3. /\ tdn' \in [Procs -> GroupNames \union {Nil}] /\ vals' \in [Procs -> Seq(Names)]
        /\ got' \in [Procs -> SUBSET Principals]
    BY DEF CtlInv
  <1> QED
    BY <1>1, <1>2, <1>3, CtlReturn

\* Steps of the directory's other users move no goroutine.
LEMMA CtlStays ==
  ASSUME CtlInv, UNCHANGED <<holder, pc, job, res, tdn, vals, got, active, load>>
  PROVE  CtlInv'
  BY DEF CtlInv

LEMMA DataStays ==
  ASSUME DataInv, UNCHANGED <<members, at, gat, ever, always, calm, same>>
  PROVE  DataInv'
  BY DEF DataInv
-----------------------------------------------------------------------------
LEMMA TypeInit == MemberInit => TypeInv
  <1> SUFFICES ASSUME MemberInit PROVE TypeInv
    OBVIOUS
  <1>1. members \in [Groups -> Lists]
    BY MembershipAssumption DEF MemberInit, Lists
  <1>2. /\ at \in [Principals -> Names] /\ IsInjective(at)
        /\ gat \in [Groups -> GroupNames \union {Nil}]
        /\ \A g, h \in Groups : gat[g] = gat[h] /\ gat[g] # Nil => g = h
    BY MembershipAssumption DEF MemberInit, IsInjective
  <1>21. DataInv
    BY <1>1, <1>2 DEF MemberInit, DataInv
  <1>3. <<>> \in Seq(Names)
    BY EmptySeq
  <1>4. CtlInv
    BY <1>3, MembershipAssumption DEF MemberInit, CtlInv, Labels, Results, Path
  <1> QED
    BY <1>21, <1>4, TypeSplit

LEMMA TypeBegin ==
  ASSUME DataInv, CtlInv, NEW p \in active, NEW j \in load.jobs, Begin(p, j), UNCHANGED <<active, load>>
  PROVE  DataInv' /\ CtlInv'
  <1>1. p \in Procs /\ j \in Jobs
    BY DEF CtlInv, Jobs
  <1>2. InGroup(Group) \subseteq Principals
    BY RangeFinite, MembershipAssumption DEF DataInv, Lists, InGroup
  <1>3. DataInv'
    BY <1>1, <1>2 DEF Begin, DataInv, dirVars, IsInjective
  <1>4. <<>> \in Seq(Names)
    BY EmptySeq
  <1>5. /\ job' \in [Procs -> Jobs \union {Nil}] /\ job'[p] = j
        /\ tdn' \in [Procs -> GroupNames \union {Nil}]
        /\ vals' \in [Procs -> Seq(Names)] /\ vals'[p] = <<>>
        /\ got' \in [Procs -> SUBSET Principals]
        /\ \A q \in Procs \ {p} : job'[q] = job[q] /\ vals'[q] = vals[q]
        /\ UNCHANGED holder /\ pc[p] = "idle"
    BY <1>1, <1>4 DEF Begin, CtlInv
  <1>6. /\ pc' \in [Procs -> Labels] /\ res' \in [Procs -> Results]
        /\ \A q \in Procs \ {p} : pc'[q] = pc[q]
        /\ Path(pc'[p], j, <<>>)
    <2>1. pc \in [Procs -> Labels] /\ res \in [Procs -> Results]
      BY DEF CtlInv
    <2>2. CASE /\ pc' = [pc EXCEPT ![p] = "dn"] /\ res' = [res EXCEPT ![p] = "none"]
               /\ j.op = "Members"
      <3>1. "dn" \in Labels /\ "none" \in Results /\ Path("dn", j, <<>>)
        BY <2>2 DEF Labels, Results, Path
      <3>2. pc'[p] = "dn" /\ pc' \in [Procs -> Labels] /\ \A q \in Procs \ {p} : pc'[q] = pc[q]
        BY <1>1, <2>1, <2>2, <3>1
      <3>3. res' \in [Procs -> Results]
        BY <1>1, <2>1, <2>2, <3>1
      <3> QED
        BY <3>1, <3>2, <3>3
    <2>3. CASE UNCHANGED pc /\ res' = [res EXCEPT ![p] = "nil"]
      <3>1. pc'[p] = "idle" /\ "nil" \in Results /\ Path("idle", j, <<>>)
        BY <2>3 DEF Begin, Results, Path
      <3> QED
        BY <2>1, <2>3, <3>1
    <2>4. CASE /\ pc' = [pc EXCEPT ![p] = "lock"] /\ res' = [res EXCEPT ![p] = "none"]
               /\ j.op # "Members" /\ j.who # <<>>
      <3>1. "lock" \in Labels /\ "none" \in Results /\ Path("lock", j, <<>>)
        BY <2>4 DEF Labels, Results, Path
      <3>2. pc'[p] = "lock" /\ pc' \in [Procs -> Labels] /\ \A q \in Procs \ {p} : pc'[q] = pc[q]
        BY <1>1, <2>1, <2>4, <3>1
      <3>3. res' \in [Procs -> Results]
        BY <1>1, <2>1, <2>4, <3>1
      <3> QED
        BY <3>1, <3>2, <3>3
    <2> QED
      BY <2>2, <2>3, <2>4 DEF Begin
  <1>7. \A k \in Keys : holder'[k] # Nil => pc'[holder'[k]] \in {"get", "resolve", "modify"}
    BY <1>5, <1>6 DEF CtlInv
  <1>8. \A q \in Procs : Path(pc'[q], job'[q], vals'[q])
    BY <1>5, <1>6 DEF CtlInv
  <1>9. \A q \in Procs : pc'[q] # "idle" => job'[q] \in Jobs
    BY <1>1, <1>5, <1>6 DEF CtlInv
  <1> QED
    BY <1>3, <1>5, <1>6, <1>7, <1>8, <1>9 DEF CtlInv

LEMMA TypeLock ==
  ASSUME DataInv, CtlInv, NEW p \in Procs, Lock(p), UNCHANGED <<active, load>>
  PROVE  DataInv' /\ CtlInv'
  <1>1. DataInv'
    BY DataStays DEF Lock, dirVars, seenVars
  <1>2. job[p] \in Jobs /\ job[p].key \in Keys
    BY MembershipAssumption DEF CtlInv, Lock
  <1>3. /\ pc' \in [Procs -> Labels] /\ pc'[p] = "get" /\ \A q \in Procs \ {p} : pc'[q] = pc[q]
        /\ pc[p] = "lock" /\ UNCHANGED <<job, res, tdn, vals, got>>
    BY DEF Lock, CtlInv, Labels
  <1>4. /\ holder' \in [Keys -> Procs \union {Nil}] /\ holder'[job[p].key] = p
        /\ \A k \in Keys \ {job[p].key} : holder'[k] = holder[k]
    BY <1>2 DEF Lock, CtlInv
  <1>5. \A k \in Keys : holder'[k] # Nil => pc'[holder'[k]] \in {"get", "resolve", "modify"}
    <2>1. ASSUME NEW k \in Keys \ {job[p].key}, holder[k] # Nil
          PROVE  pc'[holder'[k]] \in {"get", "resolve", "modify"}
      <3>1. holder[k] \in Procs /\ pc[holder[k]] \in {"get", "resolve", "modify"}
        BY <2>1 DEF CtlInv
      <3> QED
        BY <1>3, <1>4, <3>1
    <2> QED
      BY <1>3, <1>4, <2>1
  <1>6. \A q \in Procs : Path(pc'[q], job'[q], vals'[q])
    BY <1>3 DEF CtlInv, Path
  <1> QED
    BY <1>1, <1>3, <1>4, <1>5, <1>6 DEF CtlInv

\* The group's DN.
LEMMA GivenType ==
  ASSUME DataInv, NEW p \in Procs
  PROVE  Given(p) \in GroupNames \union {Nil}
  BY MembershipAssumption DEF Given, DataInv

LEMMA TypeGetGroup ==
  ASSUME DataInv, CtlInv, NEW p \in Procs, GetGroup(p), UNCHANGED <<active, load>>
  PROVE  DataInv' /\ CtlInv'
  <1>1. DataInv'
    BY DataStays DEF GetGroup, dirVars, seenVars
  <1>2. UNCHANGED <<job, vals, got>> /\ pc[p] = "get"
    BY DEF GetGroup
  <1>21. tdn' \in [Procs -> GroupNames \union {Nil}]
    BY GivenType DEF GetGroup, CtlInv
  <1>3. /\ vals' \in [Procs -> Seq(Names)] /\ got' \in [Procs -> SUBSET Principals]
        /\ "resolve" \in Labels /\ "NotFound" \in Results
    BY <1>2 DEF CtlInv, Labels, Results
  <1>4. job[p] \in Jobs /\ Path("get", job[p], vals[p])
    BY <1>2 DEF CtlInv
  <1>5. Path("resolve", job[p], vals'[p])
    <2>1. vals'[p] = <<>> /\ job[p].who # <<>> /\ job[p].op # "Members"
      BY <1>2, <1>4 DEF Path
    <2>2. job[p].who \in Seq(Identities)
      BY <1>4, MembershipAssumption
    <2>3. Len(job[p].who) > 0
      BY <2>1, <2>2, EmptySeq, LenProperties
    <2> QED
      BY <2>1, <2>3, EmptySeq DEF Path
  <1>6. CASE Continue(p, "resolve")
    BY <1>1, <1>2, <1>21, <1>3, <1>5, <1>6, CtlContinue
  <1>7. CASE Return(p, "NotFound")
    BY <1>1, <1>2, <1>21, <1>3, <1>7, CtlReturn
  <1>8. CASE Fails(p) /\ UNCHANGED tdn
    BY <1>1, <1>2, <1>8, CtlFails
  <1> QED
    BY <1>1, <1>6, <1>7, <1>8 DEF GetGroup

LEMMA TypeResolve ==
  ASSUME DataInv, CtlInv, NEW p \in Procs, Resolve(p), UNCHANGED <<active, load>>
  PROVE  DataInv' /\ CtlInv'
  <1> DEFINE id == job[p].who[Len(vals[p]) + 1]
             to == IF Len(vals[p]) + 1 = Len(job[p].who) THEN "modify" ELSE "resolve"
             dn == IF id.form = "dn" THEN id.dn ELSE at[id.who]
  <1>1. DataInv'
    BY DataStays DEF Resolve, dirVars, seenVars
  <1>2. /\ UNCHANGED <<job, tdn, got>> /\ pc[p] = "resolve"
        /\ tdn' \in [Procs -> GroupNames \union {Nil}] /\ got' \in [Procs -> SUBSET Principals]
    BY DEF Resolve, CtlInv
  <1>3. /\ job[p] \in Jobs /\ job[p].op # "Members" /\ job[p].who # <<>>
        /\ Len(vals[p]) < Len(job[p].who)
        /\ \A i \in 1..Len(vals[p]) : job[p].who[i].form = "dn" => vals[p][i] = job[p].who[i].dn
    BY <1>2 DEF CtlInv, Path
  <1>4. job[p].who \in Seq(Identities) /\ vals[p] \in Seq(Names)
    BY <1>3, MembershipAssumption DEF CtlInv
  <1>5. Len(job[p].who) \in Nat /\ Len(vals[p]) \in Nat /\ DOMAIN job[p].who = 1..Len(job[p].who)
    BY <1>4, LenProperties
  <1>6. id \in Identities
    BY <1>3, <1>4, <1>5, ElementOfSeq
  <1>8. dn \in Names
    <2> HIDE DEF id
    <2>1. \/ \E m \in Principals : id = GUIDOf(m)
          \/ \E d \in Names : id = DNOf(d)
      BY <1>6 DEF Identities
    <2>2. CASE \E m \in Principals : id = GUIDOf(m)
      BY <2>2 DEF GUIDOf, DataInv
    <2>3. CASE \E d \in Names : id = DNOf(d)
      BY <2>3 DEF DNOf
    <2> QED
      BY <2>1, <2>2, <2>3
  <1>9. /\ Append(vals[p], dn) \in Seq(Names) /\ Len(Append(vals[p], dn)) = Len(vals[p]) + 1
        /\ \A i \in 1..Len(vals[p]) : Append(vals[p], dn)[i] = vals[p][i]
        /\ Append(vals[p], dn)[Len(vals[p]) + 1] = dn
    <2> HIDE DEF dn
    <2> QED
      BY <1>4, <1>8, AppendProperties
  <1>10. CASE vals' = [vals EXCEPT ![p] = Append(@, dn)] /\ Continue(p, to)
    <2>1. /\ vals' \in [Procs -> Seq(Names)] /\ vals'[p] = Append(vals[p], dn)
          /\ \A q \in Procs \ {p} : vals'[q] = vals[q]
      BY <1>9, <1>10 DEF CtlInv
    <2>2. Path(to, job[p], vals'[p])
      <3>1. ASSUME NEW i \in 1..Len(vals'[p]), job[p].who[i].form = "dn"
            PROVE  vals'[p][i] = job[p].who[i].dn
        <4>1. CASE i \in 1..Len(vals[p])
          <5>1. vals'[p][i] = vals[p][i]
            BY <1>9, <2>1, <4>1
          <5> QED
            BY <1>3, <3>1, <4>1, <5>1
        <4>2. CASE i = Len(vals[p]) + 1
          BY <1>9, <2>1, <3>1, <4>2
        <4>3. Len(vals'[p]) = Len(vals[p]) + 1
          BY <1>9, <2>1
        <4> HIDE DEF id, to, dn
        <4> QED
          BY <1>5, <4>1, <4>2, <4>3
      <3>2. /\ to = "resolve" => Len(vals'[p]) < Len(job[p].who)
            /\ to = "modify" => Len(vals'[p]) = Len(job[p].who)
            /\ to \in {"resolve", "modify"}
        <4>1. Len(vals'[p]) = Len(vals[p]) + 1
          BY <1>9, <2>1
        <4> HIDE DEF id, dn
        <4> QED
          BY <1>3, <1>5, <4>1
      <3> HIDE DEF to, id, dn
      <3> QED
        BY <1>3, <3>1, <3>2 DEF Path
    <2>3. to \in Labels /\ to \in {"get", "resolve", "modify"}
      BY DEF Labels
    <2> HIDE DEF id, to, dn
    <2> QED
      BY <1>1, <1>2, <1>10, <2>1, <2>2, <2>3, CtlContinue
  <1>11. CASE Return(p, "NotFound") /\ UNCHANGED vals
    <2>1. vals' \in [Procs -> Seq(Names)] /\ "NotFound" \in Results
      BY <1>11 DEF CtlInv, Results
    <2> QED
      BY <1>1, <1>2, <1>11, <2>1, CtlReturn
  <1>12. CASE Fails(p) /\ UNCHANGED vals
    BY <1>1, <1>2, <1>12, CtlFails
  <1> QED
    BY <1>1, <1>10, <1>11, <1>12 DEF Resolve

\* What an edit names are principals, finitely many.
LEMMA NamedType ==
  ASSUME DataInv, CtlInv, NEW p \in Procs
  PROVE  Named(p) \subseteq Principals /\ IsFiniteSet(Named(p))
  <1>1. IsFiniteSet(Range(vals[p]))
    BY RangeFinite DEF CtlInv
  <1> DEFINE f == [m \in Named(p) |-> at[m]]
  <1>2. \A m \in Named(p) : m \in Principals /\ at[m] \in Range(vals[p])
    BY DEF Named
  <1>3. f \in [Named(p) -> Range(vals[p])]
    BY <1>2
  <1>4. ASSUME NEW a \in Named(p), NEW b \in Named(p), f[a] = f[b] PROVE a = b
    <2>1. at[a] = at[b] /\ a \in Principals /\ b \in Principals /\ DOMAIN at = Principals
      BY <1>2, <1>4 DEF DataInv
    <2> QED
      BY <2>1 DEF DataInv, IsInjective
  <1>5. f \in Injection(Named(p), Range(vals[p]))
    BY <1>3, <1>4 DEF Injection, IsInjective
  <1> QED
    BY <1>1, <1>2, <1>5, FS_Injection

\* A Modify that is carried out leaves a list with the members it should have.
LEMMA ModifiedList ==
  ASSUME DataInv, CtlInv, NEW p \in Procs, NEW g \in Groups, Verdict(p, g) = "nil",
         NEW s \in Modified(p, g)
  PROVE  /\ s \in Lists
         /\ job[p].op = "Add" => /\ Range(s) = InGroup(g) \union Named(p)
                                 /\ Len(s) >= Len(members[g])
                                 /\ \A i \in 1..Len(members[g]) : s[i] = members[g][i]
         /\ job[p].op # "Add" => Range(s) = InGroup(g) \ Named(p) /\ Named(p) \subseteq InGroup(g)
  <1>1. members[g] \in Lists
    BY DEF DataInv
  <1>2. CASE job[p].op = "Add"
    <2>1. Named(p) \intersect Range(members[g]) = {} /\ s \in Joined(members[g], Named(p))
      BY <1>2 DEF Verdict, Modified, InGroup
    <2>2. Named(p) \in SUBSET Principals /\ IsFiniteSet(Named(p))
      BY NamedType
    <2> QED
      BY <1>1, <1>2, <2>1, <2>2, JoinedList DEF InGroup
  <1>3. CASE job[p].op # "Add"
    <2>1. Named(p) \subseteq Range(members[g]) /\ s \in Staying(members[g], Named(p))
      BY <1>3 DEF Verdict, Modified, InGroup
    <2> QED
      BY <1>1, <1>3, <2>1, StayingList DEF InGroup
  <1> QED
    BY <1>2, <1>3

\* The ways a Modify ends.
Answered(p) ==
    \/ /\ \E g \in At(tdn[p]) : Verdict(p, g) = "nil" /\ \E s \in Modified(p, g) : SetMembers(g, s)
       /\ Return(p, "nil") \/ Return(p, "Transport")
    \/ /\ UNCHANGED <<members, seenVars>>
       /\ \/ Return(p, "NotFound") \/ Return(p, "Refused") \/ Fails(p)
          \/ /\ \E g \in At(tdn[p]) : alreadySatisfied(job[p].op, Verdict(p, g))
             /\ Return(p, "nil")

LEMMA ModifyAnswered ==
  ASSUME NEW p, ModifyMembers(p)
  PROVE  Answered(p) /\ UNCHANGED <<at, gat, job, tdn, vals, got>>
  BY DEF ModifyMembers, Answered, Refusal, alreadySatisfied

LEMMA TypeModifyMembers ==
  ASSUME DataInv, CtlInv, NEW p \in Procs, ModifyMembers(p), UNCHANGED <<active, load>>
  PROVE  DataInv' /\ CtlInv'
  <1>1. UNCHANGED <<at, gat, job, tdn, vals, got>> /\ Answered(p)
    BY ModifyAnswered
  <1>2. /\ tdn' \in [Procs -> GroupNames \union {Nil}] /\ vals' \in [Procs -> Seq(Names)]
        /\ got' \in [Procs -> SUBSET Principals]
    BY <1>1 DEF CtlInv
  <1>3. DataInv'
    <2>1. ASSUME NEW g \in At(tdn[p]), Verdict(p, g) = "nil", NEW s \in Modified(p, g),
                 SetMembers(g, s)
          PROVE  DataInv'
      <3>1. g \in Groups
        BY DEF At
      <3>2. s \in Lists
        BY <2>1, <3>1, ModifiedList
      <3>3. /\ gat' \in [Groups -> GroupNames \union {Nil}]
            /\ \A x, y \in Groups : gat'[x] = gat'[y] /\ gat'[x] # Nil => x = y
        BY <1>1 DEF DataInv
      <3> QED
        BY <1>1, <2>1, <3>1, <3>2, <3>3, DataSetMembers
    <2>2. CASE UNCHANGED <<members, seenVars>>
      BY <1>1, <2>2, DataStays DEF seenVars
    <2> QED
      BY <1>1, <2>1, <2>2 DEF Answered
  <1>4. \A r \in {"nil", "Transport", "NotFound", "Refused"} : r \in Results
    BY DEF Results
  <1>5. ASSUME NEW r \in {"nil", "Transport", "NotFound", "Refused"}, Return(p, r) PROVE CtlInv'
    BY <1>1, <1>2, <1>4, <1>5, CtlReturn
  <1>6. CASE Fails(p)
    BY <1>1, <1>3, <1>6, CtlFails
  <1> QED
    BY <1>1, <1>3, <1>5, <1>6 DEF Answered

LEMMA TypeResolveGroup ==
  ASSUME DataInv, CtlInv, NEW p \in Procs, ResolveGroup(p), UNCHANGED <<active, load>>
  PROVE  DataInv' /\ CtlInv'
  <1>1. DataInv'
    BY DataStays DEF ResolveGroup, dirVars, seenVars
  <1>2. UNCHANGED <<job, vals, got>> /\ pc[p] = "dn"
    BY DEF ResolveGroup
  <1>21. tdn' \in [Procs -> GroupNames \union {Nil}]
    BY GivenType DEF ResolveGroup, CtlInv
  <1>3. /\ vals' \in [Procs -> Seq(Names)] /\ got' \in [Procs -> SUBSET Principals]
        /\ "page" \in Labels /\ "NotFound" \in Results
    BY <1>2 DEF CtlInv, Labels, Results
  <1>4. Path("page", job[p], vals'[p])
    BY <1>2 DEF CtlInv, Path
  <1>5. CASE Continue(p, "page")
    BY <1>1, <1>2, <1>21, <1>3, <1>4, <1>5, CtlContinue
  <1>6. CASE Return(p, "NotFound")
    BY <1>1, <1>2, <1>21, <1>3, <1>6, CtlReturn
  <1>7. CASE Fails(p) /\ UNCHANGED tdn
    BY <1>1, <1>2, <1>7, CtlFails
  <1> QED
    BY <1>1, <1>5, <1>6, <1>7 DEF ResolveGroup

\* What a page adds to the DNs read: those of the l that follow, in order.
LEMMA PageAdds ==
  ASSUME DataInv, CtlInv, NEW p \in Procs, NEW l \in Lists
  PROVE  /\ Extended(p, l) \in Seq(Names) /\ Len(vals[p]) \in Nat /\ Len(Extended(p, l)) \in Nat
         /\ Len(Extended(p, l)) >= Len(vals[p])
         /\ \A i \in 1..Len(vals[p]) : Extended(p, l)[i] = vals[p][i]
         /\ Len(Extended(p, l)) > Len(vals[p]) => Len(Extended(p, l)) <= Len(l)
         /\ \A i \in (Len(vals[p]) + 1)..Len(Extended(p, l)) : Extended(p, l)[i] = at[l[i]]
         /\ Done(Page(l, NextLo(p)), IsFinal(l, NextLo(p))) => Len(Extended(p, l)) >= Len(l)
  <1> DEFINE lo == Len(vals[p])
             n == IF IsFinal(l, lo) THEN Len(l) - lo ELSE PageSize
             pg == Page(l, lo)
             dns == [i \in DOMAIN pg |-> at[pg[i]]]
  <1>1. vals[p] \in Seq(Names) /\ l \in Seq(Principals) /\ PageSize \in Nat \ {0}
    BY MembershipAssumption DEF DataInv, CtlInv, Lists
  <1>2. lo \in Nat /\ Len(l) \in Nat /\ l \in [1..Len(l) -> Principals]
    BY <1>1, LenProperties
  <1>3. n \in Int /\ lo + n <= Len(l) /\ (IsFinal(l, lo) => lo + n = Len(l))
    <2>1. CASE IsFinal(l, lo)
      BY <1>2, <2>1
    <2>2. CASE ~IsFinal(l, lo)
      <3>1. n = PageSize
        BY <2>2
      <3>2. ~(lo + PageSize >= Len(l))
        BY <2>2 DEF IsFinal
      <3> HIDE DEF n, lo
      <3>3. PageSize \in Int /\ lo \in Int /\ Len(l) \in Int
        BY <1>1, <1>2
      <3>4. lo + PageSize <= Len(l)
        BY <3>2, <3>3
      <3> QED
        BY <2>2, <3>1, <3>3, <3>4
    <2> QED
      BY <2>1, <2>2
  <1>4. pg = [i \in 1..n |-> l[lo + i]]
    BY DEF Page
  <1>5. DOMAIN pg = 1..n /\ \A i \in 1..n : pg[i] = l[lo + i] /\ lo + i \in 1..Len(l)
    BY <1>2, <1>3, <1>4
  <1>6. \A i \in 1..n : at[l[lo + i]] \in Names
    BY <1>2, <1>5 DEF DataInv
  <1>7. /\ dns \in Seq(Names) /\ Len(dns) = (IF n >= 0 THEN n ELSE 0)
        /\ \A i \in 1..n : dns[i] = at[l[lo + i]]
    <2> HIDE DEF n, lo
    <2>1. CASE n >= 0
      <3>1. dns \in [1..n -> Names]
        BY <1>5, <1>6
      <3> QED
        BY <1>3, <1>5, <2>1, <3>1, IsASeq, LenProperties
    <2>2. CASE ~(n >= 0)
      <3>1. 1..n = {} /\ 1..0 = {}
        BY <1>3, <2>2
      <3>2. dns \in [1..0 -> Names]
        BY <1>5, <3>1
      <3>3. dns \in Seq(Names)
        BY <3>2, IsASeq
      <3>4. Len(dns) = 0
        BY <3>2, <3>3, LenProperties
      <3> QED
        BY <2>2, <3>1, <3>3, <3>4
    <2> QED
      BY <2>1, <2>2
  <1>8. Extended(p, l) = vals[p] \o dns
    BY DEF Extended, NextLo
  <1>9. /\ Extended(p, l) \in Seq(Names) /\ Len(Extended(p, l)) = lo + Len(dns)
        /\ \A i \in 1..Len(Extended(p, l)) : Extended(p, l)[i] = IF i <= lo THEN vals[p][i] ELSE dns[i - lo]
    <2> HIDE DEF dns, n, pg
    <2>1. dns \in Seq(Names)
      BY <1>7
    <2> QED
      BY <1>1, <2>1, <1>8, ConcatProperties
  <1>10. \A i \in (lo + 1)..Len(Extended(p, l)) : Extended(p, l)[i] = at[l[i]]
    <2> HIDE DEF dns, n, lo, pg
    <2>0. Len(dns) = (IF n >= 0 THEN n ELSE 0) /\ Len(Extended(p, l)) = lo + Len(dns)
      BY <1>7, <1>9
    <2> SUFFICES ASSUME NEW i \in (lo + 1)..Len(Extended(p, l)) PROVE Extended(p, l)[i] = at[l[i]]
      OBVIOUS
    <2>1. i - lo \in 1..n /\ lo + (i - lo) = i /\ i \in 1..Len(Extended(p, l)) /\ ~(i <= lo)
      <3>1. n \in Int /\ lo \in Nat /\ Len(Extended(p, l)) \in Int
        <4>1. n \in Int /\ lo \in Nat
          BY <1>2, <1>3
        <4>2. (IF n >= 0 THEN n ELSE 0) \in Int
          BY <4>1
        <4> QED
          BY <2>0, <4>1, <4>2
      <3>2. Len(Extended(p, l)) = lo + n \/ Len(Extended(p, l)) = lo
        BY <2>0, <3>1
      <3> QED
        BY <3>1, <3>2
    <2>2. Extended(p, l)[i] = dns[i - lo]
      BY <1>9, <2>1
    <2>3. dns[i - lo] = at[l[lo + (i - lo)]]
      BY <1>7, <2>1
    <2> QED
      BY <2>1, <2>2, <2>3
  <1>11. Done(pg, IsFinal(l, lo)) => IsFinal(l, lo)
    <2> SUFFICES ASSUME pg = <<>>, ~IsFinal(l, lo) PROVE FALSE
      BY DEF Done
    <2>1. n = PageSize
      OBVIOUS
    <2>2. DOMAIN pg = {}
      BY EmptySeq, LenProperties
    <2> QED
      BY <1>1, <1>5, <2>1, <2>2
  <1>12. Done(pg, IsFinal(l, lo)) => Len(Extended(p, l)) >= Len(l)
    <2> HIDE DEF n, pg, dns, lo
    <2>1. Len(dns) = (IF n >= 0 THEN n ELSE 0) /\ Len(Extended(p, l)) = lo + Len(dns)
      BY <1>7, <1>9
    <2>2. n \in Int /\ lo \in Nat /\ Len(l) \in Nat
      BY <1>2, <1>3
    <2>3. Len(Extended(p, l)) >= lo + n
      BY <2>1, <2>2
    <2> QED
      BY <1>3, <1>11, <2>2, <2>3
  <1>13. /\ Len(Extended(p, l)) \in Nat /\ Len(Extended(p, l)) >= lo
         /\ Len(Extended(p, l)) > lo => Len(Extended(p, l)) <= Len(l)
    <2> HIDE DEF n, pg, dns, lo
    <2>1. Len(dns) = (IF n >= 0 THEN n ELSE 0) /\ Len(Extended(p, l)) = lo + Len(dns)
      BY <1>7, <1>9
    <2>2. n \in Int /\ lo \in Nat /\ Len(l) \in Nat /\ lo + n <= Len(l)
      BY <1>2, <1>3
    <2> QED
      BY <2>1, <2>2
  <1>14. \A i \in 1..lo : Extended(p, l)[i] = vals[p][i]
    <2> HIDE DEF n, pg, dns, lo
    <2> QED
      BY <1>2, <1>9, <1>13
  <1> HIDE DEF n, dns
  <1> QED
    BY <1>2, <1>9, <1>10, <1>12, <1>13, <1>14 DEF NextLo

\* The ways a round of rangedValues ends: a page of g's, or none.
Through(p, g) == Done(Page(members[g], NextLo(p)), IsFinal(members[g], NextLo(p)))
Turned(p, g) ==
    /\ vals' = [vals EXCEPT ![p] = Extended(p, members[g])]
    /\ same' = [same EXCEPT ![p] = @ /\ g = Group]
    /\ \/ ~Through(p, g) /\ Continue(p, "page")
       \/ Through(p, g) /\ vals'[p] = <<>> /\ Return(p, "nil")
       \/ Through(p, g) /\ Continue(p, "lookup")
Unread(p) == UNCHANGED <<vals, same>> /\ (Return(p, "NotFound") \/ Fails(p))

LEMMA PageRead ==
  ASSUME NEW p, ReadPage(p)
  PROVE  /\ (\E g \in Groups : Turned(p, g)) \/ Unread(p)
         /\ pc[p] = "page"
         /\ UNCHANGED <<members, at, gat, job, tdn, got, ever, always, calm>>
  BY DEF ReadPage, Turned, Unread, Through, dirVars, At

LEMMA TypeReadPage ==
  ASSUME DataInv, CtlInv, NEW p \in Procs, ReadPage(p), UNCHANGED <<active, load>>
  PROVE  DataInv' /\ CtlInv'
  <1>0. /\ (\E g \in Groups : Turned(p, g)) \/ Unread(p)
        /\ pc[p] = "page"
        /\ UNCHANGED <<members, at, gat, job, tdn, got, ever, always, calm>>
    BY PageRead
  <1>1. DataInv'
    <2>1. same' \in [Procs -> BOOLEAN]
      <3>1. CASE Unread(p)
        BY <3>1 DEF Unread, DataInv
      <3>2. ASSUME NEW g \in Groups, Turned(p, g) PROVE same' \in [Procs -> BOOLEAN]
        <4>1. same' = [same EXCEPT ![p] = @ /\ g = Group] /\ same \in [Procs -> BOOLEAN]
          BY <3>2 DEF Turned, DataInv
        <4>2. (same[p] /\ g = Group) \in BOOLEAN
          BY Zenon
        <4> QED
          BY <4>1, <4>2
      <3> QED
        BY <1>0, <3>1, <3>2
    <2> QED
      BY <1>0, <2>1 DEF DataInv
  <1>2. UNCHANGED <<job, tdn, got>> /\ pc[p] = "page"
    BY <1>0
  <1>3. /\ tdn' \in [Procs -> GroupNames \union {Nil}]
        /\ got' \in [Procs -> SUBSET Principals] /\ {"page", "lookup"} \subseteq Labels
        /\ {"nil", "NotFound"} \subseteq Results /\ job[p].op = "Members"
    BY <1>2 DEF CtlInv, Labels, Results, Path
  <1>4. ASSUME NEW g \in Groups, Turned(p, g) PROVE CtlInv'
    <2>0. members[g] \in Lists
      BY DEF DataInv
    <2>1. /\ vals' \in [Procs -> Seq(Names)] /\ \A q \in Procs \ {p} : vals'[q] = vals[q]
      BY <1>4, <2>0, PageAdds DEF CtlInv, Turned
    <2>2. Path("page", job[p], vals'[p]) /\ Path("lookup", job[p], vals'[p])
      BY <1>3 DEF Path
    <2>3. CASE Continue(p, "page")
      BY <1>2, <1>3, <2>1, <2>2, <2>3, CtlContinue
    <2>4. CASE Continue(p, "lookup")
      BY <1>2, <1>3, <2>1, <2>2, <2>4, CtlContinue
    <2>5. CASE Return(p, "nil")
      BY <1>2, <1>3, <2>1, <2>5, CtlReturn
    <2> QED
      BY <1>4, <2>3, <2>4, <2>5 DEF Turned
  <1>5. CASE UNCHANGED vals /\ Return(p, "NotFound")
    <2>1. vals' \in [Procs -> Seq(Names)]
      BY <1>5 DEF CtlInv
    <2> QED
      BY <1>1, <1>2, <1>3, <1>5, <2>1, CtlReturn
  <1>6. CASE UNCHANGED vals /\ Fails(p)
    BY <1>1, <1>2, <1>6, CtlFails
  <1> QED
    BY <1>0, <1>1, <1>4, <1>5, <1>6 DEF Unread

LEMMA TypeLookUp ==
  ASSUME DataInv, CtlInv, NEW p \in Procs, LookUp(p), UNCHANGED <<active, load>>
  PROVE  DataInv' /\ CtlInv'
  <1>1. DataInv'
    BY DataStays DEF LookUp, dirVars, seenVars
  <1>2. /\ UNCHANGED <<job, tdn, vals>> /\ vals' \in [Procs -> Seq(Names)]
        /\ tdn' \in [Procs -> GroupNames \union {Nil}]
    BY DEF LookUp, CtlInv
  <1>3. CASE got' = [got EXCEPT ![p] = resolveMembers(p)] /\ Return(p, "nil")
    <2>1. got' \in [Procs -> SUBSET Principals]
      BY <1>3 DEF CtlInv, resolveMembers
    <2>2. "nil" \in Results
      BY DEF Results
    <2> QED
      BY <1>1, <1>2, <1>3, <2>1, <2>2, CtlReturn
  <1>4. CASE Fails(p) /\ UNCHANGED got
    BY <1>1, <1>2, <1>4, CtlFails
  <1> QED
    BY <1>3, <1>4 DEF LookUp

\* A new member comes last.
LEMMA AppendedList ==
  ASSUME NEW l \in Lists, NEW m \in Principals, m \notin Range(l)
  PROVE  /\ Append(l, m) \in Lists /\ Range(Append(l, m)) = Range(l) \union {m}
         /\ Len(Append(l, m)) = Len(l) + 1
         /\ \A i \in 1..Len(l) : Append(l, m)[i] = l[i]
  <1>1. l \in Seq(Principals) /\ IsInjective(l)
    BY DEF Lists
  <1>2. Len(l) \in Nat /\ DOMAIN l = 1..Len(l)
    BY <1>1, LenProperties
  <1>3. /\ Append(l, m) \in Seq(Principals) /\ Len(Append(l, m)) = Len(l) + 1
        /\ \A i \in 1..Len(l) : Append(l, m)[i] = l[i]
        /\ Append(l, m)[Len(l) + 1] = m
    BY <1>1, AppendProperties
  <1>4. DOMAIN Append(l, m) = 1..(Len(l) + 1)
    BY <1>3, LenProperties
  <1>5. \A i \in 1..Len(l) : l[i] # m
    BY <1>2 DEF Range
  <1>6. IsInjective(Append(l, m))
    <2> DEFINE t == Append(l, m)
    <2> SUFFICES ASSUME NEW a \in 1..(Len(l) + 1), NEW b \in 1..(Len(l) + 1), t[a] = t[b]
                 PROVE  a = b
      BY <1>4 DEF IsInjective
    <2>1. CASE a \in 1..Len(l) /\ b \in 1..Len(l)
      BY <2>1, <1>1, <1>2, <1>3 DEF IsInjective
    <2>2. CASE a = Len(l) + 1 /\ b \in 1..Len(l)
      BY <2>2, <1>3, <1>5
    <2>3. CASE b = Len(l) + 1 /\ a \in 1..Len(l)
      BY <2>3, <1>3, <1>5
    <2>4. CASE a = Len(l) + 1 /\ b = Len(l) + 1
      BY <2>4
    <2> QED
      BY <1>2, <2>1, <2>2, <2>3, <2>4
  <1>7. Range(Append(l, m)) = Range(l) \union {m}
    <2>1. 1..(Len(l) + 1) = 1..Len(l) \union {Len(l) + 1}
      BY <1>2
    <2> QED
      BY <1>2, <1>3, <1>4, <2>1 DEF Range
  <1> QED
    BY <1>3, <1>6, <1>7 DEF Lists

LEMMA EmptyList == <<>> \in Lists /\ Range(<<>>) = {}
  <1>1. <<>> \in Seq(Principals) /\ Len(<<>>) = 0 /\ DOMAIN <<>> = {}
    BY EmptySeq, LenProperties
  <1> QED
    BY <1>1 DEF Lists, IsInjective, Range

LEMMA TypeOthers ==
  ASSUME DataInv, CtlInv, UNCHANGED <<active, load>>, Others
  PROVE  DataInv' /\ CtlInv'
  <1>1. CtlInv'
    <2>1. UNCHANGED <<holder, pc, job, res, tdn, vals, got>>
      BY DEF Others, OtherAdds, OtherRemoves, OtherMoves, OtherMovesGroup, OtherDeletesGroup
    <2> QED
      BY <2>1, CtlStays
  <1>2. /\ \A g \in Groups : members[g] \in Lists
        /\ gat \in [Groups -> GroupNames \union {Nil}]
        /\ \A x, y \in Groups : gat[x] = gat[y] /\ gat[x] # Nil => x = y
    BY DEF DataInv
  <1>3. ASSUME NEW g \in Groups, NEW m \in Principals, OtherAdds(g, m) PROVE DataInv'
    <2>1. Append(members[g], m) \in Lists
      BY <1>2, <1>3, AppendedList DEF OtherAdds, InGroup
    <2> QED
      BY <1>2, <1>3, <2>1, DataSetMembers DEF OtherAdds
  <1>4. ASSUME NEW g \in Groups, NEW m \in Principals, OtherRemoves(g, m) PROVE DataInv'
    <2>1. PICK s \in Staying(members[g], {m}) : SetMembers(g, s)
      BY <1>4 DEF OtherRemoves
    <2>2. s \in Lists
      BY <1>2, StayingList
    <2> QED
      BY <1>2, <1>4, <2>1, <2>2, DataSetMembers DEF OtherRemoves
  <1>5. ASSUME NEW m \in Principals, NEW d \in Names, OtherMoves(m, d) PROVE DataInv'
    <2>1. at' = [at EXCEPT ![m] = d] /\ d \notin Range(at) /\ at \in [Principals -> Names]
      BY <1>5 DEF OtherMoves, DataInv
    <2>2. at' \in [Principals -> Names] /\ \A n \in Principals : d # at[n]
      BY <2>1 DEF Range
    <2>3. IsInjective(at')
      BY <2>1, <2>2 DEF DataInv, IsInjective
    <2>4. calm' \in [Procs -> BOOLEAN]
      <3>1. calm' = [p \in Procs |-> calm[p] /\ ~Reading(p)]
        BY <1>5 DEF OtherMoves
      <3> QED
        BY <3>1, Zenon
    <2>5. same' \in [Procs -> BOOLEAN]
      <3>1. same' = [p \in Procs |-> same[p] /\ (Reading(p) => d \notin Range(vals[p]))]
        BY <1>5 DEF OtherMoves
      <3> QED
        BY <3>1, Zenon
    <2>6. UNCHANGED <<members, gat, ever, always>>
      BY <1>5 DEF OtherMoves
    <2> QED
      BY <2>2, <2>3, <2>4, <2>5, <2>6 DEF DataInv
  <1>6. ASSUME NEW g \in Groups, NEW d \in GroupNames, OtherMovesGroup(g, d) PROVE DataInv'
    <2>1. /\ gat' = [gat EXCEPT ![g] = d] /\ UNCHANGED <<members, at, ever, always, calm, same>>
          /\ \A x \in Groups : gat[x] # Nil => gat[x] # d
      BY <1>6 DEF OtherMovesGroup, At, seenVars
    <2>2. gat' \in [Groups -> GroupNames \union {Nil}]
      BY <1>2, <2>1
    <2>3. ASSUME NEW x \in Groups, NEW y \in Groups, gat'[x] = gat'[y], gat'[x] # Nil PROVE x = y
      <3>1. CASE x = g /\ y # g
        BY <1>2, <2>1, <2>3, <3>1
      <3>2. CASE x # g /\ y = g
        BY <1>2, <2>1, <2>3, <3>2
      <3>3. CASE x # g /\ y # g
        BY <1>2, <2>1, <2>3, <3>3
      <3> QED
        BY <3>1, <3>2, <3>3
    <2> QED
      BY <2>1, <2>2, <2>3 DEF DataInv
  <1>7. ASSUME NEW g \in Groups, OtherDeletesGroup(g) PROVE DataInv'
    <2>1. SetMembers(g, <<>>) /\ UNCHANGED at /\ gat' = [gat EXCEPT ![g] = Nil]
      BY <1>7 DEF OtherDeletesGroup
    <2>2. /\ gat' \in [Groups -> GroupNames \union {Nil}]
          /\ \A x, y \in Groups : gat'[x] = gat'[y] /\ gat'[x] # Nil => x = y
      BY <1>2, <2>1
    <2> QED
      BY <2>1, <2>2, EmptyList, DataSetMembers
  <1> QED
    BY <1>1, <1>3, <1>4, <1>5, <1>6, <1>7 DEF Others

LEMMA TypeNext == TypeInv /\ [MemberNext]_memberVars => TypeInv'
  <1> SUFFICES ASSUME DataInv, CtlInv, [MemberNext]_memberVars PROVE DataInv' /\ CtlInv'
    BY TypeSplit, PTL
  <1>1. CASE UNCHANGED memberVars
    BY <1>1, DataStays, CtlStays DEF memberVars
  <1>2. CASE MemberNext
    <2>1. UNCHANGED <<active, load>>
      BY <1>2 DEF MemberNext
    <2>2. ASSUME NEW p \in active, Step(p) PROVE DataInv' /\ CtlInv'
      <3>1. p \in Procs
        BY DEF CtlInv
      <3> QED
        BY <2>1, <2>2, <3>1, TypeLock, TypeGetGroup, TypeResolve, TypeModifyMembers,
           TypeResolveGroup, TypeReadPage, TypeLookUp DEF Step
    <2>3. ASSUME NEW p \in active, NEW j \in load.jobs, Begin(p, j) PROVE DataInv' /\ CtlInv'
      BY <2>1, <2>3, TypeBegin
    <2>4. ASSUME Others PROVE DataInv' /\ CtlInv'
      BY <2>1, <2>4, TypeOthers
    <2> QED
      BY <1>2, <2>2, <2>3, <2>4 DEF MemberNext
  <1> QED
    BY <1>1, <1>2

LEMMA TypeAlways == MemberSpec => []TypeInv
  BY TypeInit, TypeNext, PTL DEF MemberSpec

\* membership.go 101-135, ranged.go 20-54: a list has a member once, whatever edits and
\* other administrators do to it, no two objects have one DN, and whoever holds the lock of
\* a group is inside the edit that took it.
THEOREM MemberTypeCorrect == MemberSpec => []MemberTypeOK
  <1>1. TypeInv => MemberTypeOK
    BY DEF TypeInv
  <1> QED
    BY <1>1, TypeAlways, PTL
-----------------------------------------------------------------------------
(* Reads *)

\* A read that nobody disturbs, and one whose group changes.
LEMMA ReadStays ==
  ASSUME NEW q \in Procs, ReadOf(q), UNCHANGED <<members[Group], at>>,
         UNCHANGED <<pc[q], job[q], res[q], vals[q], got[q], ever[q], always[q], calm[q], same[q]>>
  PROVE  ReadOf(q)'
  <1>1. Named(q)' = Named(q) /\ InGroup(Group)' = InGroup(Group)
    BY DEF Named, InGroup
  <1> QED
    BY <1>1 DEF ReadOf, Reading, ReadDone

\* s continues the list of Group, or somebody is missing in it.
Grown(s) ==
    /\ InGroup(Group) \subseteq Range(s) /\ Len(s) >= Len(members[Group])
    /\ \A i \in 1..Len(members[Group]) : s[i] = members[Group][i]
Shrunk(s) == ~(InGroup(Group) \subseteq Range(s))

LEMMA ReadWitnesses ==
  ASSUME DataInv, CtlInv, NEW q \in Procs, ReadOf(q), NEW g \in Groups, NEW s \in Lists,
         g = Group => Grown(s) \/ Shrunk(s),
         SetMembers(g, s), UNCHANGED at, UNCHANGED <<pc[q], job[q], res[q], vals[q], got[q]>>
  PROVE  ReadOf(q)'
  <1>0. Group \in Groups /\ DOMAIN members = Groups /\ Procs = DOMAIN ever
    BY MembershipAssumption DEF DataInv
  <1>1. /\ members' = [members EXCEPT ![g] = s] /\ same'[q] = same[q]
        /\ ever'[q] = (IF Reading(q) /\ g = Group THEN ever[q] \union Range(s) ELSE ever[q])
        /\ always'[q] = (IF Reading(q) /\ g = Group THEN always[q] \intersect Range(s) ELSE always[q])
        /\ calm'[q] = (calm[q] /\ (Reading(q) /\ g = Group => InGroup(g) \subseteq Range(s)))
    BY DEF SetMembers
  <1>2. calm[q] \in BOOLEAN /\ Named(q)' = Named(q)
    BY DEF DataInv, Named
  <1>3. CASE ~Reading(q)
    <2>1. ~Reading(q)' /\ pc'[q] # "lookup"
      BY <1>3 DEF Reading
    <2>2. calm'[q] = calm[q] /\ ever'[q] = ever[q] /\ always'[q] = always[q]
      BY <1>1, <1>2, <1>3
    <2>3. ReadDone(q)' = ReadDone(q)
      BY DEF ReadDone
    <2> QED
      BY <1>1, <2>1, <2>2, <2>3 DEF ReadOf
  <1>5. CASE g # Group
    <2>1. members'[Group] = members[Group]
      BY <1>0, <1>1, <1>5
    <2>2. calm'[q] = calm[q] /\ ever'[q] = ever[q] /\ always'[q] = always[q]
      BY <1>1, <1>2, <1>5
    <2> QED
      BY <1>1, <2>1, <2>2, ReadStays
  <1>4. CASE Reading(q) /\ g = Group
    <2>0. members'[Group] = s
      BY <1>0, <1>1, <1>4
    <2>1. Reading(q)' /\ ~ReadDone(q)'
      BY <1>4 DEF Reading, ReadDone
    <2>2. /\ ever'[q] = ever[q] \union Range(s) /\ always'[q] = always[q] \intersect Range(s)
          /\ calm'[q] => calm[q] /\ Grown(s)
      BY <1>1, <1>4 DEF Shrunk
    <2>3. /\ InGroup(Group)' \subseteq ever'[q] /\ always'[q] \subseteq InGroup(Group)'
          /\ got'[q] = {}
      BY <1>4, <2>0, <2>2 DEF ReadOf, InGroup
    <2>31. same'[q] => Named(q)' \subseteq ever'[q]
      BY <1>1, <1>2, <1>4, <2>2 DEF ReadOf
    <2>4. ASSUME calm'[q], same'[q]
          PROVE  /\ Len(vals[q])' <= Len(members[Group])'
                 /\ \A i \in 1..Len(vals[q])' : vals'[q][i] = at'[members'[Group][i]]
                 /\ \A i \in 1..Len(vals[q]) : members'[Group][i] = members[Group][i]
      <3>1. /\ Len(vals[q]) <= Len(members[Group])
            /\ \A i \in 1..Len(vals[q]) : vals[q][i] = at[members[Group][i]]
            /\ Len(s) >= Len(members[Group]) /\ \A i \in 1..Len(members[Group]) : s[i] = members[Group][i]
        BY <1>1, <1>4, <2>2, <2>4 DEF ReadOf, Grown
      <3>2. Len(vals[q]) \in Nat /\ Len(members[Group]) \in Nat /\ Len(s) \in Nat
        <4>1. vals[q] \in Seq(Names) /\ members[Group] \in Seq(Principals) /\ s \in Seq(Principals)
          BY <1>0 DEF CtlInv, DataInv, Lists
        <4> QED
          BY <4>1, LenProperties
      <3>3. \A i \in 1..Len(vals[q]) : s[i] = members[Group][i]
        BY <3>1, <3>2
      <3> QED
        BY <2>0, <3>1, <3>2, <3>3
    <2>5. ASSUME calm'[q], same'[q], pc'[q] = "lookup"
          PROVE  always'[q] \subseteq {members'[Group][i] : i \in 1..Len(vals[q])'}
      <3>1. always[q] \subseteq {members[Group][i] : i \in 1..Len(vals[q])}
        BY <1>1, <2>2, <2>5 DEF ReadOf
      <3>2. {members'[Group][i] : i \in 1..Len(vals[q])'} = {members[Group][i] : i \in 1..Len(vals[q])}
        BY <2>4, <2>5
      <3> QED
        BY <2>2, <3>1, <3>2
    <2> QED
      BY <2>1, <2>3, <2>31, <2>4, <2>5 DEF ReadOf
  <1> QED
    BY <1>3, <1>4, <1>5

\* The four changes of Group.
LEMMA AddsGrow ==
  ASSUME DataInv, NEW m \in Principals, m \notin InGroup(Group)
  PROVE  Grown(Append(members[Group], m))
  <1>1. members[Group] \in Lists /\ Len(members[Group]) \in Nat
    BY LenProperties, MembershipAssumption DEF DataInv, Lists
  <1> QED
    BY <1>1, AppendedList DEF Grown, InGroup

LEMMA RemovalShrinks ==
  ASSUME DataInv, NEW m \in InGroup(Group), NEW s \in Staying(members[Group], {m})
  PROVE  Shrunk(s)
  <1>1. members[Group] \in Lists
    BY MembershipAssumption DEF DataInv
  <1> QED
    BY <1>1, StayingList DEF Shrunk, InGroup

LEMMA DeletionShrinks ==
  ASSUME DataInv
  PROVE  Grown(<<>>) \/ Shrunk(<<>>)
  <1>1. members[Group] \in Seq(Principals)
    BY MembershipAssumption DEF DataInv, Lists
  <1>2. CASE InGroup(Group) = {}
    <2>0. DOMAIN members[Group] = 1..Len(members[Group]) /\ Len(members[Group]) \in Nat
      BY <1>1, LenProperties
    <2>1. \A i \in DOMAIN members[Group] : members[Group][i] \in InGroup(Group)
      BY DEF InGroup, Range
    <2>2. Len(members[Group]) = 0 /\ Len(<<>>) = 0
      <3>1. 1 \notin DOMAIN members[Group]
        BY <1>2, <2>1
      <3> QED
        BY <2>0, <3>1, EmptySeq
    <2> QED
      BY <1>2, <2>2, EmptyList DEF Grown
  <1>3. CASE InGroup(Group) # {}
    BY <1>3, EmptyList DEF Shrunk
  <1> QED
    BY <1>2, <1>3

LEMMA ModifyGrowsOrShrinks ==
  ASSUME DataInv, CtlInv, NEW p \in Procs, pc[p] = "modify", Verdict(p, Group) = "nil",
         NEW s \in Modified(p, Group)
  PROVE  Grown(s) \/ Shrunk(s)
  <1>0. Group \in Groups
    BY MembershipAssumption
  <1>2. CASE job[p].op = "Add"
    BY <1>0, <1>2, ModifiedList DEF Grown
  <1>3. CASE job[p].op # "Add"
    <2>1. Range(s) = InGroup(Group) \ Named(p) /\ Named(p) \subseteq InGroup(Group)
      BY <1>0, <1>3, ModifiedList
    <2>2. /\ job[p] \in Jobs /\ job[p].who # <<>> /\ Len(vals[p]) = Len(job[p].who)
          /\ vals[p] \in Seq(Names)
      BY DEF CtlInv, Path
    <2>3. job[p].who \in Seq(Identities)
      BY <2>2, MembershipAssumption
    <2>4. Len(vals[p]) \in Nat /\ Len(vals[p]) # 0 /\ DOMAIN vals[p] = 1..Len(vals[p])
      BY <2>2, <2>3, EmptySeq, LenProperties
    <2>5. 1 \in DOMAIN vals[p]
      BY <2>4
    <2>6. vals[p][1] \in Range(vals[p])
      BY <2>5 DEF Range
    <2>7. PICK m \in Principals : at[m] = vals[p][1]
      BY <2>6 DEF Verdict
    <2>8. m \in Named(p)
      BY <2>6, <2>7 DEF Named
    <2> QED
      BY <2>1, <2>8 DEF Shrunk
  <1> QED
    BY <1>2, <1>3

\* The goroutine of an edit reads nothing.
LEMMA ReadEdits ==
  ASSUME CtlInv, NEW p \in Procs, pc[p] \in {"lock", "get", "resolve", "modify"},
         pc'[p] \in {"idle", "get", "resolve", "modify"}, UNCHANGED job
  PROVE  ReadOf(p)'
  <1>1. job[p].op # "Members"
    BY DEF CtlInv, Path
  <1>2. ~Reading(p)' /\ ~ReadDone(p)' /\ pc'[p] # "lookup"
    BY <1>1 DEF Reading, ReadDone
  <1> QED
    BY <1>2 DEF ReadOf

LEMMA ReadBegin ==
  ASSUME DataInv, CtlInv, ReadInv, NEW p \in Procs, NEW j \in Jobs, Begin(p, j), NEW q \in Procs
  PROVE  ReadOf(q)'
  <1>1. CASE q # p
    <2>1. UNCHANGED <<members, at>>
      BY DEF Begin, dirVars
    <2>2. UNCHANGED <<pc[q], job[q], res[q], vals[q], got[q]>>
      BY <1>1 DEF Begin, CtlInv
    <2>3. UNCHANGED <<ever[q], always[q], calm[q], same[q]>>
      BY <1>1 DEF Begin, DataInv
    <2> QED
      BY <2>1, <2>2, <2>3, ReadStays DEF ReadInv
  <1>2. CASE q = p
    <2>1. /\ job'[p] = j /\ vals'[p] = <<>> /\ got'[p] = {} /\ UNCHANGED <<members, at>>
          /\ j.op = "Members" => ever'[p] = InGroup(Group) /\ always'[p] = InGroup(Group)
          /\ j.op = "Members" => pc'[p] = "dn"
          /\ j.op # "Members" => pc'[p] \in {"idle", "lock"}
      BY DEF Begin, dirVars, CtlInv, DataInv
    <2>2. CASE j.op = "Members"
      <3>1. ~ReadDone(p)' /\ pc'[p] # "lookup"
        BY <2>1, <2>2 DEF ReadDone
      <3>2. Range(vals'[p]) = {} /\ Len(vals'[p]) = 0
        BY <2>1, EmptySeq, EmptyList
      <3>3. Len(members[Group]) \in Nat
        BY LenProperties, MembershipAssumption DEF DataInv, Lists
      <3>4. Named(p)' = {}
        BY <3>2 DEF Named
      <3>5. InGroup(Group)' = InGroup(Group) /\ Len(members[Group])' = Len(members[Group])
        BY <2>1 DEF InGroup
      <3>6. InGroup(Group)' \subseteq ever'[p] /\ always'[p] \subseteq InGroup(Group)'
        BY <2>1, <2>2, <3>5
      <3> QED
        BY <1>2, <2>1, <3>1, <3>2, <3>3, <3>4, <3>5, <3>6 DEF ReadOf
    <2>3. CASE j.op # "Members"
      <3>1. ~Reading(p)' /\ ~ReadDone(p)' /\ pc'[p] # "lookup"
        BY <2>1, <2>3 DEF Reading, ReadDone
      <3> QED
        BY <1>2, <3>1 DEF ReadOf
    <2> QED
      BY <2>2, <2>3
  <1> QED
    BY <1>1, <1>2

\* A read that fails has nothing to keep.
LEMMA ReadFails ==
  ASSUME CtlInv, NEW p \in Procs, Fails(p) \/ Return(p, "NotFound")
  PROVE  ReadOf(p)'
  <1>1. pc'[p] = "idle" /\ res'[p] # "nil"
    BY DEF Fails, Return, CtlInv
  <1>2. ~Reading(p)' /\ ~ReadDone(p)' /\ pc'[p] # "lookup"
    BY <1>1 DEF Reading, ReadDone
  <1> QED
    BY <1>2 DEF ReadOf

LEMMA ReadResolveGroup ==
  ASSUME CtlInv, NEW p \in Procs, ReadOf(p), ResolveGroup(p)
  PROVE  ReadOf(p)'
  <1>1. UNCHANGED <<members, at, vals, got, ever, always, calm, same>> /\ Reading(p)
    BY DEF ResolveGroup, dirVars, seenVars, Reading
  <1>2. CASE Continue(p, "page")
    <2>1. Reading(p)' /\ ~ReadDone(p)' /\ pc'[p] # "lookup"
      BY <1>2 DEF Continue, CtlInv, Reading, ReadDone
    <2>2. Named(p)' = Named(p) /\ InGroup(Group)' = InGroup(Group)
      BY <1>1 DEF Named, InGroup
    <2> QED
      BY <1>1, <2>1, <2>2 DEF ReadOf
  <1> QED
    BY <1>2, ReadFails DEF ResolveGroup

LEMMA ReadReadPage ==
  ASSUME DataInv, CtlInv, NEW p \in Procs, ReadOf(p), ReadPage(p)
  PROVE  ReadOf(p)'
  <1>1. /\ (\E g \in Groups : Turned(p, g)) \/ Unread(p)
        /\ pc[p] = "page"
        /\ UNCHANGED <<members, at, gat, job, tdn, got, ever, always, calm>>
    BY PageRead
  <1>2. CASE Unread(p)
    BY <1>2, ReadFails DEF Unread
  <1>3. ASSUME NEW g \in Groups, Turned(p, g), g # Group PROVE ReadOf(p)'
    <2>1. ~same'[p]
      BY <1>3 DEF Turned, DataInv
    <2>2. InGroup(Group)' = InGroup(Group) /\ Reading(p)
      BY <1>1 DEF InGroup, Reading
    <2> QED
      BY <1>1, <2>1, <2>2 DEF ReadOf
  <1>4. CASE Turned(p, Group)
    <2> DEFINE l == members[Group]
               A == Extended(p, l)
               v == vals[p]
    <2>0. l \in Lists
      BY MembershipAssumption DEF DataInv
    <2>1. vals'[p] = A /\ (same'[p] => same[p])
      BY <1>4 DEF CtlInv, DataInv, Turned
    <2>2. /\ A \in Seq(Names) /\ Len(v) \in Nat /\ Len(A) \in Nat /\ Len(A) >= Len(v)
          /\ \A i \in 1..Len(v) : A[i] = v[i]
          /\ Len(A) > Len(v) => Len(A) <= Len(l)
          /\ \A i \in (Len(v) + 1)..Len(A) : A[i] = at[l[i]]
          /\ Through(p, Group) => Len(A) >= Len(l)
      BY <2>0, PageAdds DEF Through
    <2>3. /\ InGroup(Group) \subseteq ever[p] /\ always[p] \subseteq InGroup(Group)
          /\ got[p] = {} /\ (same[p] => Named(p) \subseteq ever[p])
          /\ same[p] /\ calm[p] => /\ Len(v) <= Len(l)
                                   /\ \A i \in 1..Len(v) : v[i] = at[l[i]]
      BY <1>1 DEF ReadOf, Reading
    <2>4. /\ l \in Seq(Principals) /\ Len(l) \in Nat
          /\ DOMAIN l = 1..Len(l) /\ v \in Seq(Names) /\ DOMAIN v = 1..Len(v)
          /\ DOMAIN A = 1..Len(A)
      BY <2>0, <2>2, LenProperties DEF DataInv, CtlInv, Lists
    <2>41. \A i \in 1..Len(l) : l[i] \in Principals /\ l[i] \in InGroup(Group)
      BY <2>4, ElementOfSeq DEF InGroup, Range
    <2>42. \A m \in Principals : at[m] \in Range(v) => m \in Named(p)
      BY DEF Named
    <2> HIDE DEF A, v, l
    <2>5. ASSUME same[p], NEW m \in Principals, NEW i \in 1..Len(A), at[m] = A[i]
          PROVE  m \in ever[p]
      <3>1. CASE i \in 1..Len(v)
        <4>1. A[i] = v[i] /\ v[i] \in Range(v)
          BY <2>2, <2>4, <3>1 DEF Range
        <4> QED
          BY <2>3, <2>42, <2>5, <4>1
      <3>2. CASE i \in (Len(v) + 1)..Len(A)
        <4>1. i \in 1..Len(l)
          BY <2>2, <2>4, <3>2
        <4>2. at[m] = at[l[i]] /\ l[i] \in Principals
          BY <2>2, <2>41, <2>5, <3>2, <4>1
        <4>3. m = l[i]
          BY <4>2 DEF DataInv, IsInjective
        <4> QED
          BY <2>3, <2>41, <4>1, <4>3
      <3> QED
        BY <2>2, <3>1, <3>2
    <2>6. same'[p] => Named(p)' \subseteq ever[p]
      <3>1. \A m \in Named(p)' : m \in Principals /\ \E i \in 1..Len(A) : at[m] = A[i]
        BY <1>1, <2>1, <2>4 DEF Named, Range
      <3> QED
        BY <2>1, <2>5, <3>1
    <2>7. ASSUME calm[p], same[p]
          PROVE  Len(A) <= Len(l) /\ \A i \in 1..Len(A) : A[i] = at[l[i]]
      <3>1. Len(A) <= Len(l)
        BY <2>2, <2>3, <2>4, <2>7
      <3>2. ASSUME NEW i \in 1..Len(A) PROVE A[i] = at[l[i]]
        <4>1. CASE i \in 1..Len(v)
          BY <2>2, <2>3, <2>7, <4>1
        <4>2. CASE i \in (Len(v) + 1)..Len(A)
          BY <2>2, <4>2
        <4> QED
          BY <2>2, <4>1, <4>2
      <3> QED
        BY <3>1, <3>2
    <2>8. ASSUME Through(p, Group)
          PROVE  InGroup(Group) \subseteq {l[i] : i \in 1..Len(A)}
      <3>1. Len(l) <= Len(A)
        BY <2>2, <2>8
      <3>2. 1..Len(l) \subseteq 1..Len(A)
        BY <2>2, <2>4, <3>1
      <3>3. InGroup(Group) = Range(l)
        BY DEF InGroup, l
      <3> QED
        BY <2>4, <3>2, <3>3 DEF Range
    <2>9. /\ InGroup(Group)' = InGroup(Group) /\ Len(vals[p])' = Len(A)
          /\ members'[Group] = l
      BY <1>1, <2>1 DEF InGroup, l
    <2>10. CASE pc'[p] \in {"page", "lookup"}
      <3>1. Reading(p)' /\ ~ReadDone(p)'
        BY <2>10 DEF Reading, ReadDone
      <3>2. ASSUME pc'[p] = "lookup"
            PROVE  always'[p] \subseteq {members'[Group][i] : i \in 1..Len(vals[p])'}
        <4>1. Through(p, Group)
          BY <1>4, <3>2 DEF Turned, Continue, Return, CtlInv
        <4> QED
          BY <1>1, <2>3, <2>8, <2>9, <4>1
      <3>3. ASSUME same'[p], calm'[p]
            PROVE  /\ Len(vals[p])' <= Len(members[Group])'
                   /\ \A i \in 1..Len(vals[p])' : vals'[p][i] = at'[members'[Group][i]]
        BY <1>1, <2>1, <2>7, <2>9, <3>3
      <3> QED
        BY <1>1, <2>3, <2>6, <2>9, <3>1, <3>2, <3>3 DEF ReadOf
    <2>11. CASE Through(p, Group) /\ vals'[p] = <<>> /\ Return(p, "nil")
      <3>1. ~Reading(p)' /\ pc'[p] # "lookup"
        BY <2>11 DEF Return, CtlInv, Reading
      <3>2. Len(A) = 0
        BY <2>1, <2>11, EmptySeq
      <3>3. InGroup(Group) = {}
        BY <2>8, <2>11, <3>2
      <3> QED
        BY <1>1, <2>3, <3>1, <3>3 DEF ReadOf
    <2>13. \/ pc'[p] \in {"page", "lookup"}
           \/ Through(p, Group) /\ vals'[p] = <<>> /\ Return(p, "nil")
      BY <1>4 DEF Turned, Continue, CtlInv
    <2> QED
      BY <2>10, <2>11, <2>13
  <1> QED
    BY <1>1, <1>2, <1>3, <1>4

LEMMA ReadLookUp ==
  ASSUME DataInv, CtlInv, NEW p \in Procs, ReadOf(p), LookUp(p)
  PROVE  ReadOf(p)'
  <1>1. UNCHANGED <<members, at, vals, ever, always, calm, same>> /\ pc[p] = "lookup" /\ Reading(p)
    BY DEF LookUp, dirVars, seenVars, Reading
  <1>2. CASE got' = [got EXCEPT ![p] = resolveMembers(p)] /\ Return(p, "nil")
    <2>1. ~Reading(p)' /\ pc'[p] # "lookup" /\ got'[p] = resolveMembers(p)
      BY <1>2 DEF Return, CtlInv, Reading
    <2>2. resolveMembers(p) \subseteq Named(p)
      BY DEF resolveMembers, Named
    <2>3. ASSUME calm[p], same[p] PROVE always[p] \ Foreign \subseteq resolveMembers(p)
      <3> SUFFICES ASSUME NEW m \in always[p] \ Foreign PROVE m \in resolveMembers(p)
        OBVIOUS
      <3>1. m \in Principals
        BY DEF DataInv
      <3>2. PICK i \in 1..Len(vals[p]) : m = members[Group][i]
        BY <1>1, <2>3 DEF ReadOf
      <3>3. vals[p][i] = at[m]
        BY <1>1, <2>3, <3>2 DEF ReadOf
      <3>4. DOMAIN vals[p] = 1..Len(vals[p])
        BY LenProperties DEF CtlInv
      <3>5. at[m] \in Range(vals[p])
        BY <3>3, <3>4 DEF Range
      <3> QED
        BY <3>1, <3>5 DEF resolveMembers
    <2>4. same[p] => Named(p) \subseteq ever[p]
      BY <1>1 DEF ReadOf
    <2> QED
      BY <1>1, <2>1, <2>2, <2>3, <2>4 DEF ReadOf
  <1> QED
    BY <1>2, ReadFails DEF LookUp

\* A step of p, as the other goroutines see it.
LEMMA StepIsLocal ==
  ASSUME DataInv, CtlInv, NEW p \in Procs, Step(p), ~ModifyMembers(p), NEW q \in Procs, q # p
  PROVE  /\ UNCHANGED <<members, at>>
         /\ UNCHANGED <<pc[q], job[q], res[q], vals[q], got[q], ever[q], always[q], calm[q], same[q]>>
  <1>1. ASSUME NEW r, Return(p, r) PROVE UNCHANGED <<pc[q], res[q]>>
    BY <1>1 DEF Return, CtlInv
  <1>2. Fails(p) => UNCHANGED <<pc[q], res[q]>>
    BY <1>1 DEF Fails
  <1>3. ASSUME NEW c, Continue(p, c) PROVE UNCHANGED <<pc[q], res[q]>>
    BY <1>3 DEF Continue, CtlInv
  <1>4. CASE Lock(p)
    BY <1>4 DEF Lock, dirVars, seenVars, CtlInv
  <1>5. CASE GetGroup(p)
    BY <1>1, <1>2, <1>3, <1>5 DEF GetGroup, dirVars, seenVars
  <1>6. CASE Resolve(p)
    BY <1>1, <1>2, <1>3, <1>6 DEF Resolve, dirVars, seenVars, CtlInv
  <1>7. CASE ResolveGroup(p)
    BY <1>1, <1>2, <1>3, <1>7 DEF ResolveGroup, dirVars, seenVars
  <1>8. CASE ReadPage(p)
    <2>1. /\ (\E g \in Groups : Turned(p, g)) \/ Unread(p)
          /\ UNCHANGED <<members, at, gat, job, tdn, got, ever, always, calm>>
      BY <1>8, PageRead
    <2>2. CASE Unread(p)
      BY <1>1, <1>2, <2>1, <2>2 DEF Unread
    <2>3. ASSUME NEW g \in Groups, Turned(p, g) PROVE UNCHANGED <<pc[q], res[q], vals[q], same[q]>>
      BY <1>1, <1>3, <2>3 DEF Turned, CtlInv, DataInv
    <2> QED
      BY <2>1, <2>2, <2>3
  <1>9. CASE LookUp(p)
    BY <1>1, <1>2, <1>3, <1>9 DEF LookUp, dirVars, seenVars, CtlInv
  <1> QED
    BY <1>4, <1>5, <1>6, <1>7, <1>8, <1>9 DEF Step

LEMMA ReadModify ==
  ASSUME DataInv, CtlInv, ReadInv, NEW p \in Procs, ModifyMembers(p), NEW q \in Procs
  PROVE  ReadOf(q)'
  <1>1. UNCHANGED <<at, gat, job, tdn, vals, got>> /\ Answered(p) /\ pc[p] = "modify"
    BY ModifyAnswered DEF ModifyMembers
  <1>2. pc'[p] = "idle" /\ (q # p => UNCHANGED <<pc[q], res[q]>>)
    BY <1>1 DEF Answered, Return, Fails, CtlInv
  <1>3. CASE q = p
    BY <1>1, <1>2, <1>3, ReadEdits
  <1>4. CASE q # p /\ UNCHANGED <<members, seenVars>>
    BY <1>1, <1>2, <1>4, ReadStays DEF ReadInv, seenVars
  <1>5. ASSUME q # p, NEW g \in At(tdn[p]), Verdict(p, g) = "nil", NEW s \in Modified(p, g),
               SetMembers(g, s)
        PROVE  ReadOf(q)'
    <2>1. g \in Groups
      BY DEF At
    <2>2. s \in Lists
      BY <1>5, <2>1, ModifiedList
    <2>3. g = Group => Grown(s) \/ Shrunk(s)
      BY <1>1, <1>5, ModifyGrowsOrShrinks
    <2> QED
      BY <1>1, <1>2, <1>5, <2>1, <2>2, <2>3, ReadWitnesses DEF ReadInv
  <1> QED
    BY <1>1, <1>3, <1>4, <1>5 DEF Answered

LEMMA ReadStep ==
  ASSUME DataInv, CtlInv, ReadInv, NEW p \in Procs, Step(p), NEW q \in Procs
  PROVE  ReadOf(q)'
  <1>0. ReadOf(q) /\ ReadOf(p)
    BY DEF ReadInv
  <1>1. CASE ModifyMembers(p)
    BY <1>1, ReadModify
  <1>2. CASE ~ModifyMembers(p) /\ q # p
    BY <1>0, <1>2, StepIsLocal, ReadStays
  <1>3. CASE q = p /\ (Lock(p) \/ GetGroup(p) \/ Resolve(p))
    <2>1. /\ pc[p] \in {"lock", "get", "resolve"} /\ UNCHANGED job
          /\ pc'[p] \in {"idle", "get", "resolve", "modify"}
      BY <1>3 DEF Lock, GetGroup, Resolve, Return, Fails, Continue, CtlInv
    <2> QED
      BY <1>3, <2>1, ReadEdits
  <1>4. CASE q = p /\ (ResolveGroup(p) \/ ReadPage(p) \/ LookUp(p))
    BY <1>0, <1>4, ReadResolveGroup, ReadReadPage, ReadLookUp
  <1> QED
    BY <1>1, <1>2, <1>3, <1>4 DEF Step

LEMMA ReadOthers ==
  ASSUME DataInv, CtlInv, ReadInv, NEW q \in Procs, Others
  PROVE  ReadOf(q)'
  <1>0. ReadOf(q) /\ \A g \in Groups : members[g] \in Lists
    BY DEF ReadInv, DataInv
  <1>1. UNCHANGED <<pc, job, res, vals, got>>
    BY DEF Others, OtherAdds, OtherRemoves, OtherMoves, OtherMovesGroup, OtherDeletesGroup
  <1>2. ASSUME NEW g \in Groups, NEW m \in Principals, OtherAdds(g, m) PROVE ReadOf(q)'
    <2>1. Append(members[g], m) \in Lists /\ m \notin InGroup(g)
      BY <1>0, <1>2, AppendedList DEF OtherAdds, InGroup
    <2>2. g = Group => Grown(Append(members[g], m))
      BY <2>1, AddsGrow
    <2> QED
      BY <1>0, <1>1, <1>2, <2>1, <2>2, ReadWitnesses DEF OtherAdds
  <1>3. ASSUME NEW g \in Groups, NEW m \in Principals, OtherRemoves(g, m) PROVE ReadOf(q)'
    <2>1. PICK s \in Staying(members[g], {m}) : SetMembers(g, s)
      BY <1>3 DEF OtherRemoves
    <2>2. s \in Lists
      BY <1>0, StayingList
    <2>3. g = Group => Shrunk(s)
      BY <1>3, <2>1, RemovalShrinks DEF OtherRemoves
    <2> QED
      BY <1>0, <1>1, <1>3, <2>1, <2>2, <2>3, ReadWitnesses DEF OtherRemoves
  <1>4. ASSUME NEW m \in Principals, NEW d \in Names, OtherMoves(m, d) PROVE ReadOf(q)'
    <2>1. /\ calm'[q] = (calm[q] /\ ~Reading(q)) /\ UNCHANGED <<members, ever, always>>
          /\ same'[q] = (same[q] /\ (Reading(q) => d \notin Range(vals[q])))
          /\ calm[q] \in BOOLEAN /\ same[q] \in BOOLEAN /\ at' = [at EXCEPT ![m] = d]
      BY <1>4 DEF OtherMoves, DataInv
    <2>2. /\ Reading(q)' = Reading(q) /\ ReadDone(q)' = ReadDone(q)
          /\ InGroup(Group)' = InGroup(Group)
      BY <1>1, <2>1 DEF Reading, ReadDone, InGroup
    <2>3. Reading(q) => ~calm'[q] /\ ~ReadDone(q)
      BY <2>1 DEF Reading, ReadDone
    <2>4. ~Reading(q) => calm'[q] = calm[q] /\ same'[q] = same[q] /\ pc[q] # "lookup"
      BY <2>1 DEF Reading
    <2>5. ASSUME Reading(q), same'[q] PROVE Named(q)' \subseteq ever'[q]
      <3>1. same[q] /\ d \notin Range(vals[q])
        BY <2>1, <2>5
      <3>2. ASSUME NEW n \in Named(q)' PROVE n \in Named(q)
        <4>1. n \in Principals /\ at'[n] \in Range(vals[q])
          BY <1>1, <3>2 DEF Named
        <4>2. n # m
          BY <2>1, <3>1, <4>1 DEF DataInv
        <4> QED
          BY <2>1, <4>1, <4>2 DEF Named, DataInv
      <3> QED
        BY <1>0, <2>1, <2>5, <3>1, <3>2 DEF ReadOf
    <2>6. CASE Reading(q)
      BY <1>0, <1>1, <2>1, <2>2, <2>3, <2>5, <2>6 DEF ReadOf, Reading
    <2>7. CASE ~Reading(q)
      BY <1>0, <1>1, <2>1, <2>2, <2>4, <2>7 DEF ReadOf
    <2> QED
      BY <2>6, <2>7
  <1>5. ASSUME NEW g \in Groups, NEW d \in GroupNames, OtherMovesGroup(g, d) PROVE ReadOf(q)'
    BY <1>0, <1>1, <1>5, ReadStays DEF OtherMovesGroup, seenVars
  <1>6. ASSUME NEW g \in Groups, OtherDeletesGroup(g) PROVE ReadOf(q)'
    BY <1>0, <1>1, <1>6, EmptyList, DeletionShrinks, ReadWitnesses DEF OtherDeletesGroup
  <1> QED
    BY <1>2, <1>3, <1>4, <1>5, <1>6 DEF Others

LEMMA ReadNext == TypeInv /\ ReadInv /\ [MemberNext]_memberVars => ReadInv'
  <1> SUFFICES ASSUME DataInv, CtlInv, ReadInv, [MemberNext]_memberVars, NEW q \in Procs
               PROVE  ReadOf(q)'
    BY TypeSplit DEF ReadInv
  <1>1. CASE UNCHANGED memberVars
    BY <1>1, ReadStays DEF memberVars, ReadInv
  <1>2. CASE MemberNext
    <2>1. ASSUME NEW p \in active, Step(p) PROVE ReadOf(q)'
      <3>1. p \in Procs
        BY DEF CtlInv
      <3> QED
        BY <2>1, <3>1, ReadStep
    <2>2. ASSUME NEW p \in active, NEW j \in load.jobs, Begin(p, j) PROVE ReadOf(q)'
      <3>1. p \in Procs /\ j \in Jobs
        BY DEF CtlInv, Jobs
      <3> QED
        BY <2>2, <3>1, ReadBegin
    <2>3. ASSUME Others PROVE ReadOf(q)'
      BY <2>3, ReadOthers
    <2> QED
      BY <1>2, <2>1, <2>2, <2>3 DEF MemberNext
  <1> QED
    BY <1>1, <1>2

LEMMA ReadInit == MemberInit => ReadInv
  BY DEF MemberInit, ReadInv, ReadOf, Reading, ReadDone

\* membership.go 14-33, ranged.go 20-54: for every page size and every set of groups that
\* may take each other's DNs, a Members call that succeeds, having read its pages from one
\* group, returns nobody who was not a member while it ran unless a principal took over a
\* DN it had read, and everybody who was one from its beginning to its end if the group
\* only grew and nobody was moved.
THEOREM ReadsAreExact == MemberSpec => []ReadExact
  <1>1. ReadInv => ReadExact
    BY DEF ReadInv, ReadOf, ReadExact
  <1> QED
    BY <1>1, ReadInit, ReadNext, TypeAlways, PTL DEF MemberSpec
-----------------------------------------------------------------------------
(* Edits of one member *)

LEMMA SingleEdit ==
  ASSUME DataInv, CtlInv, [MemberNext]_memberVars, NEW p \in Procs, ReturnsNil(p), Len(job[p].who) = 1,
         Current(p)
  PROVE  Satisfied(p)
  <1>1. ModifyMembers(p)
    <2>1. pc[p] = "modify" /\ pc'[p] = "idle"
      BY DEF ReturnsNil
    <2>2. MemberNext
      BY <2>1 DEF memberVars
    <2>3. ASSUME NEW q \in active, Step(q), ~ModifyMembers(q) PROVE FALSE
      <3>1. q \in Procs
        BY DEF CtlInv
      <3>2. q # p
        BY <2>1, <2>3 DEF Step, Lock, GetGroup, Resolve, ResolveGroup, ReadPage, LookUp
      <3>3. UNCHANGED pc[p]
        BY <2>3, <3>1, <3>2, StepIsLocal
      <3> QED
        BY <2>1, <3>3
    <2>4. ASSUME NEW q \in active, ModifyMembers(q), q # p PROVE FALSE
      <3>1. q \in Procs
        BY DEF CtlInv
      <3>2. \E r : Return(q, r)
        BY <2>4, ModifyAnswered DEF Answered, Fails
      <3>3. UNCHANGED pc[p]
        BY <2>4, <3>1, <3>2 DEF Return, CtlInv
      <3> QED
        BY <2>1, <3>3
    <2>5. ASSUME NEW q \in active, NEW j \in load.jobs, Begin(q, j) PROVE FALSE
      <3>1. q \in Procs /\ pc[q] = "idle"
        BY <2>5 DEF CtlInv, Begin
      <3>2. UNCHANGED pc[p]
        BY <2>1, <2>5, <3>1 DEF Begin, CtlInv
      <3> QED
        BY <2>1, <3>2
    <2>6. ASSUME Others PROVE FALSE
      BY <2>1, <2>6 DEF Others, OtherAdds, OtherRemoves, OtherMoves, OtherMovesGroup, OtherDeletesGroup
    <2> QED
      BY <2>2, <2>3, <2>4, <2>5, <2>6 DEF MemberNext
  <1>2. Answered(p) /\ UNCHANGED <<at, vals, job>> /\ res'[p] = "nil" /\ pc[p] = "modify"
    BY <1>1, ModifyAnswered DEF ReturnsNil
  <1>21. \A g \in At(tdn[p]) : g = Group
    BY MembershipAssumption DEF At, Current, DataInv
  <1>22. Group \in Groups /\ DOMAIN members = Groups
    BY MembershipAssumption DEF DataInv
  <1>23. /\ job[p] \in Jobs /\ Len(vals[p]) = 1 /\ vals[p] \in Seq(Names)
         /\ job[p].who[1].form = "dn" => vals[p][1] = job[p].who[1].dn
    BY <1>2 DEF CtlInv, Path
  <1>24. job[p].who \in Seq(Identities) /\ DOMAIN job[p].who = {1} /\ DOMAIN vals[p] = {1}
    <2>1. job[p].who \in Seq(Identities)
      BY <1>23, MembershipAssumption
    <2> QED
      BY <1>23, <2>1, LenProperties
  <1>25. Asked(p) = Named(p)
    <2>1. Range(vals[p]) = {vals[p][1]}
      BY <1>24 DEF Range
    <2>2. job[p].who[1] \in Identities
      BY <1>24, ElementOfSeq
    <2>3. CASE \E d \in Names : job[p].who[1] = DNOf(d)
      <3>1. job[p].who[1].form = "dn"
        BY <2>3 DEF DNOf
      <3> QED
        BY <1>23, <1>24, <2>1, <3>1 DEF Asked, Named
    <2>4. CASE \E m \in Principals : job[p].who[1] = GUIDOf(m)
      <3>1. PICK m \in Principals : job[p].who[1] = GUIDOf(m)
        BY <2>4
      <3>2. job[p].who[1].form = "guid" /\ job[p].who[1].who = m
        BY <3>1 DEF GUIDOf
      <3>3. at[m] = vals[p][1]
        BY <1>24, <3>2 DEF Current
      <3>4. Asked(p) = {m}
        BY <1>24, <3>2 DEF Asked
      <3>5. Named(p) = {m}
        BY <2>1, <3>3 DEF Named, DataInv, IsInjective
      <3> QED
        BY <3>4, <3>5
    <2> QED
      BY <2>2, <2>3, <2>4 DEF Identities
  <1>3. ASSUME Verdict(p, Group) = "nil", NEW s \in Modified(p, Group), SetMembers(Group, s)
        PROVE  Satisfied(p)
    <2>2. members'[Group] = s
      BY <1>22, <1>3 DEF SetMembers
    <2> QED
      BY <1>22, <1>25, <1>3, <2>2, ModifiedList DEF Satisfied
  <1>4. ASSUME UNCHANGED members, alreadySatisfied(job[p].op, Verdict(p, Group))
        PROVE  Satisfied(p)
    <2>1. Range(members'[Group]) = InGroup(Group)
      BY <1>4 DEF InGroup
    <2>2. Verdict(p, Group) # "NotFound" /\ Verdict(p, Group) # "nil"
      BY <1>4 DEF alreadySatisfied
    <2>3. PICK m \in Principals : at[m] = vals[p][1]
      BY <1>24, <2>2 DEF Verdict, Range
    <2>4. Named(p) = {m}
      BY <1>24, <2>3 DEF Named, Range, DataInv, IsInjective
    <2>5. CASE job[p].op = "Add"
      <3>1. Named(p) \intersect InGroup(Group) # {}
        BY <1>4, <2>5 DEF alreadySatisfied, Verdict
      <3> QED
        BY <1>25, <2>1, <2>4, <2>5, <3>1 DEF Satisfied
    <2>6. CASE job[p].op # "Add"
      <3>1. ~(Named(p) \subseteq InGroup(Group))
        BY <1>4, <2>6 DEF alreadySatisfied, Verdict
      <3> QED
        BY <1>25, <2>1, <2>4, <2>6, <3>1 DEF Satisfied
    <2> QED
      BY <2>5, <2>6
  <1>5. ~Return(p, "NotFound") /\ ~Return(p, "Refused") /\ ~Fails(p)
    BY <1>2 DEF Return, Fails, CtlInv
  <1> QED
    BY <1>2, <1>21, <1>3, <1>4, <1>5 DEF Answered

\* membership.go 80-84, "AD's refusal means the desired state already holds": when an edit
\* of one member returns nil, that member is in the group, or is not, as was asked, even
\* where the nil stands for a refusal, unless the group or the member has lost the DN the
\* edit had read.
THEOREM SingleEditsAreSatisfied == MemberSpec => SingleEditSatisfied
  <1>1. ASSUME TypeInv, [MemberNext]_memberVars
        PROVE  [\A p \in Procs : ReturnsNil(p) /\ Len(job[p].who) = 1 /\ Current(p) => Satisfied(p)]_memberVars
    BY <1>1, SingleEdit, TypeSplit
  <1> QED
    BY <1>1, TypeAlways, PTL DEF MemberSpec, SingleEditSatisfied
=============================================================================
