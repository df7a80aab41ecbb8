------------------------------ MODULE OUProofs ------------------------------
(***************************************************************************)
(* Proofs about OU, for every number of goroutines, every directory and    *)
(* every set of calls.                                                     *)
(***************************************************************************)
EXTENDS OU, TLAPS

\* The points a call can be at, with what setProtection was called for.
Protecting == {"sdRead", "sdWrite"}
Nexts == {"created", "move", "restored", "probe"}
PCs == [at : Labels \ Protecting]
       \union [at : Protecting, dn : DNs, want : BOOLEAN, next : Nexts]

\* Where a call is, or goes when setProtection is done.
Goal(c) == IF c.at \in Protecting THEN c.next ELSE c.at

\* What the point c, the job j, the model m read first and the result r of a goroutine
\* have to do with each other.
Path(c, j, m, r) ==
    /\ Goal(c) # "idle" => j \in Jobs /\ r = "none"
    /\ Goal(c) \in {"add", "probeDeleted", "created"} => j.op = "Create"
    /\ Goal(c) \in {"describe", "move", "reread", "restored"} => j.op = "Update"
    /\ Goal(c) \in {"probe", "delete", "confirm"} => j.op = "Delete"
    /\ Goal(c) = "replicate" => j.op \in {"Create", "Update"}
    /\ Goal(c) = "get" => j.op \in {"Update", "Delete"}
    /\ Goal(c) \in {"acl", "aclWrite"} => j.op \in {"Grant", "Revoke"}
    /\ Goal(c) = "existing" => j.op = "Grant"
    /\ Goal(c) = "lock" => j.op # "Create"
    /\ Goal(c) = "describe" => j.desc \in Descs
    /\ Goal(c) \in {"lock", "get", "acl", "add", "probeDeleted"} => m = Nil
    /\ Goal(c) \in {"describe", "move", "reread", "restored", "probe", "delete", "confirm",
                    "existing", "aclWrite", "created", "replicate"} => m \in Models

\* A goroutine that is in no call, or waits for its lock, holds none.
Unheld(c, p, h) == c.at \in {"idle", "lock"} => \A k \in Identities : h[k] # p

TypeInv ==
    /\ OUTypeOK
    /\ pc \in [Procs -> PCs]
    /\ \A p \in Procs : Path(pc[p], job[p], cur[p], res[p])
    /\ \A p \in Procs : Unheld(pc[p], p, holder)
-----------------------------------------------------------------------------
(* The machinery *)

LEMMA LabelPC ==
  ASSUME NEW l \in Labels \ Protecting
  PROVE  Label(l) \in PCs /\ Label(l).at = l /\ Goal(Label(l)) = l
  BY DEF Label, PCs, Goal

LEMMA SetProtectionPC ==
  ASSUME NEW dn \in DNs, NEW want \in BOOLEAN, NEW next \in Nexts
  PROVE  /\ setProtection(dn, want, next) \in PCs
         /\ setProtection(dn, want, next).at = "sdRead"
         /\ setProtection(dn, want, next).dn = dn
         /\ setProtection(dn, want, next).want = want
         /\ setProtection(dn, want, next).next = next
         /\ Goal(setProtection(dn, want, next)) = next
  BY DEF setProtection, PCs, Goal, Protecting

\* A call's identity is one of the lock's keys.
LEMMA UnheldLock ==
  ASSUME NEW p \in Procs, NEW c, NEW j, NEW m, NEW r, NEW h, Path(c, j, m, r), Unheld(c, p, h),
         c.at = "lock"
  PROVE  h[j.id] # p
  <1>1. Goal(c) = "lock"
    BY DEF Goal, Protecting
  <1>2. j \in Jobs
    BY <1>1 DEF Path
  <1>3. j.id \in Identities
    BY <1>2, OUAssumption DEF Calls
  <1> QED
    BY <1>3 DEF Unheld

\* What a step of p may do to the rest of the state.
Data(p) ==
    /\ obj' \in [Guids -> Objects] /\ kids' \subseteq Guids /\ born' \subseteq Guids
    /\ sd' \in [Procs -> [prot : BOOLEAN, aces : SUBSET Aces]]
    /\ owed' \subseteq Guids \X Aces
    /\ cur' \in [Procs -> Models \union {Nil}]
    /\ \A q \in Procs \ {p} : cur'[q] = cur[q]
    /\ UNCHANGED <<job, load>>

\* A call that goes on.
LEMMA ContinueOK ==
  ASSUME TypeInv, NEW p \in Procs, NEW c \in PCs, Continue(p, c), Data(p),
         Path(c, job[p], cur'[p], res[p]), Goal(c) \notin {"idle", "lock"}
  PROVE  TypeInv'
  <1>1. /\ pc' \in [Procs -> PCs] /\ pc'[p] = c /\ UNCHANGED <<res, holder>>
        /\ \A q \in Procs \ {p} : pc'[q] = pc[q]
    BY DEF TypeInv, Continue
  <1>2. \A q \in Procs : pc'[q].at \in Labels
    <2>1. \A x \in PCs : x.at \in Labels
      BY DEF PCs, Protecting, Labels
    <2> QED
      BY <1>1, <2>1
  <1>3. \A q \in Procs : Path(pc'[q], job'[q], cur'[q], res'[q])
    BY <1>1 DEF TypeInv, Data
  <1>4. \A q \in Procs : Unheld(pc'[q], q, holder')
    <2>1. Unheld(c, p, holder')
      BY DEF Unheld, Goal, Protecting
    <2> QED
      BY <1>1, <2>1 DEF TypeInv
  <1>5. \A q \in Procs : pc'[q].at = "lock" => holder'[job'[q].id] # q
    BY <1>3, <1>4, UnheldLock
  <1>6. OUTypeOK'
    BY <1>1, <1>2, <1>5 DEF TypeInv, OUTypeOK, Data
  <1> QED
    BY <1>1, <1>3, <1>4, <1>6 DEF TypeInv

\* A call that returns.
LEMMA ReturnOK ==
  ASSUME TypeInv, NEW p \in Procs, NEW r \in Results, Return(p, r), Data(p)
  PROVE  TypeInv'
  <1>1. Label("idle") \in PCs /\ Goal(Label("idle")) = "idle"
    BY LabelPC DEF Labels, Protecting
  <1>2. /\ pc' \in [Procs -> PCs] /\ pc'[p] = Label("idle")
        /\ \A q \in Procs \ {p} : pc'[q] = pc[q] /\ res'[q] = res[q]
        /\ res' \in [Procs -> Results]
    BY <1>1 DEF TypeInv, OUTypeOK, Return
  <1>3. holder' \in [Identities -> Procs \union {Nil}]
    BY DEF TypeInv, OUTypeOK, Return
  <1>4. \A q \in Procs : pc'[q].at \in Labels
    <2>1. \A x \in PCs : x.at \in Labels
      BY DEF PCs, Protecting, Labels
    <2> QED
      BY <1>2, <2>1
  <1>5. ASSUME NEW q \in Procs PROVE Path(pc'[q], job'[q], cur'[q], res'[q])
    <2>1. CASE q = p
      BY <1>1, <1>2, <2>1 DEF Path
    <2>2. CASE q # p
      BY <1>2, <2>2 DEF TypeInv, Data
    <2> QED
      BY <2>1, <2>2
  <1>6. ASSUME NEW q \in Procs PROVE Unheld(pc'[q], q, holder')
    <2>1. \A k \in Identities : holder'[k] # p /\ (holder[k] # q => holder'[k] # q)
      BY OUAssumption DEF Return
    <2>2. CASE q = p
      BY <2>1, <2>2 DEF Unheld
    <2>3. CASE q # p
      BY <1>2, <2>1, <2>3 DEF Unheld, TypeInv
    <2> QED
      BY <2>2, <2>3
  <1>7. \A q \in Procs : pc'[q].at = "lock" => holder'[job'[q].id] # q
    BY <1>5, <1>6, UnheldLock
  <1>8. OUTypeOK'
    BY <1>2, <1>3, <1>4, <1>7 DEF TypeInv, OUTypeOK, Data
  <1> QED
    BY <1>2, <1>5, <1>6, <1>8 DEF TypeInv

LEMMA FailsOK ==
  ASSUME TypeInv, NEW p \in Procs, Fails(p), Data(p)
  PROVE  TypeInv'
  BY ReturnOK DEF Fails, Results

\* A read changes nothing but where the call is.
LEMMA ReadOK ==
  ASSUME TypeInv, NEW p \in Procs, NEW found, NEW c, Read(p, found, c),
         UNCHANGED <<job, cur, sd, owed, load>>,
         found => c \in PCs /\ Path(c, job[p], cur[p], res[p]) /\ Goal(c) \notin {"idle", "lock"}
  PROVE  TypeInv'
  <1>1. Data(p)
    BY DEF TypeInv, OUTypeOK, Data, Read, dirVars
  <1>2. CASE found /\ Continue(p, c)
    BY <1>1, <1>2, ContinueOK DEF Data
  <1>3. CASE Return(p, "NotFound")
    BY <1>1, <1>3, ReturnOK DEF Results
  <1> QED
    BY <1>1, <1>2, <1>3, FailsOK DEF Read

LEMMA DeletedOK ==
  ASSUME NEW o \in Objects
  PROVE  Deleted(o) \in Objects
  BY DEF Deleted, Objects

\* A write puts objects of the right type in place.
LEMMA WriteOK ==
  ASSUME TypeInv, NEW p \in Procs, NEW refusal \in Results, NEW new \in [Guids -> Objects], NEW c \in PCs,
         WriteReq(p, refusal, new, c), UNCHANGED <<job, cur, sd, owed, load>>,
         Path(c, job[p], cur[p], res[p]), Goal(c) \notin {"idle", "lock"}
  PROVE  TypeInv'
  <1>1. Data(p)
    BY DEF TypeInv, OUTypeOK, Data, WriteReq
  <1>2. CASE Continue(p, c)
    BY <1>1, <1>2, ContinueOK DEF Data
  <1>3. CASE Return(p, "Transport") \/ Return(p, refusal)
    BY <1>1, <1>3, ReturnOK DEF Results
  <1> QED
    BY <1>1, <1>2, <1>3, FailsOK DEF WriteReq
-----------------------------------------------------------------------------
(* One lemma for each step *)

LEMMA BeginType ==
  ASSUME TypeInv, UNCHANGED load, NEW p \in Procs, NEW j \in load.jobs, Begin(p, j)
  PROVE  TypeInv'
  <1> DEFINE c == Label(IF j.op = "Create" THEN "add" ELSE "lock")
  <1>1. j \in Jobs
    BY DEF TypeInv, OUTypeOK, Jobs
  <1>2. c \in PCs /\ c.at \in Labels /\ Goal(c) = (IF j.op = "Create" THEN "add" ELSE "lock")
    BY LabelPC DEF Labels, Protecting
  <1>3. Path(c, j, Nil, "none")
    BY <1>1, <1>2 DEF Path
  <1>4. /\ pc' \in [Procs -> PCs] /\ pc'[p] = c
        /\ job' \in [Procs -> Jobs \union {Nil}] /\ job'[p] = j
        /\ cur' \in [Procs -> Models \union {Nil}] /\ cur'[p] = Nil
        /\ res' \in [Procs -> Results] /\ res'[p] = "none"
    BY <1>1, <1>2 DEF TypeInv, OUTypeOK, Begin, Results
  <1> HIDE DEF c
  <1>5. \A q \in Procs \ {p} : pc'[q] = pc[q] /\ job'[q] = job[q] /\ cur'[q] = cur[q] /\ res'[q] = res[q]
    BY DEF TypeInv, OUTypeOK, Begin
  <1>6. \A q \in Procs : Path(pc'[q], job'[q], cur'[q], res'[q])
    BY <1>3, <1>4, <1>5 DEF TypeInv
  <1>7. \A q \in Procs : Unheld(pc'[q], q, holder')
    <2>1. pc[p].at = "idle" /\ holder' = holder
      BY DEF Begin
    <2>2. Unheld(c, p, holder)
      BY <2>1 DEF TypeInv, Unheld
    <2> QED
      BY <1>4, <1>5, <2>1, <2>2 DEF TypeInv
  <1>8. \A q \in Procs : pc'[q].at = "lock" => holder'[job'[q].id] # q
    BY <1>6, <1>7, UnheldLock
  <1>9. OUTypeOK'
    BY <1>2, <1>4, <1>5, <1>8 DEF TypeInv, OUTypeOK, Begin, dirVars
  <1> QED
    BY <1>4, <1>6, <1>7, <1>9 DEF TypeInv

LEMMA LockType ==
  ASSUME TypeInv, UNCHANGED load, NEW p \in Procs, Lock(p)
  PROVE  TypeInv'
  <1> DEFINE l == IF job[p].op \in {"Update", "Delete"} THEN "get" ELSE "acl"
             c == Label(l)
  <1>1. c \in PCs /\ c.at \in Labels /\ Goal(c) = l
    BY LabelPC DEF Labels, Protecting
  <1>2. pc[p].at = "lock" /\ Goal(pc[p]) = "lock"
    BY DEF Lock, Goal, Protecting
  <1>3. job[p] \in Calls /\ job[p].op \in Ops /\ job[p].id \in Identities
    BY <1>2, OUAssumption DEF TypeInv, Path, Calls
  <1>4. Path(c, job[p], cur[p], res[p])
    BY <1>1, <1>2, <1>3 DEF TypeInv, Path, Ops
  <1>5. pc' \in [Procs -> PCs] /\ pc'[p] = c /\ \A q \in Procs \ {p} : pc'[q] = pc[q]
    BY <1>1 DEF TypeInv, OUTypeOK, Lock
  <1>6. holder' \in [Identities -> Procs \union {Nil}]
    BY <1>3 DEF TypeInv, OUTypeOK, Lock
  <1>7. c.at \notin {"idle", "lock"}
    BY DEF Label
  <1> HIDE DEF c
  <1>8. \A q \in Procs : Path(pc'[q], job'[q], cur'[q], res'[q])
    BY <1>4, <1>5 DEF TypeInv, Lock
  <1>9. \A q \in Procs : Unheld(pc'[q], q, holder')
    <2>1. \A q \in Procs \ {p}, k \in Identities : holder'[k] = q => holder[k] = q
      BY <1>3 DEF TypeInv, OUTypeOK, Lock
    <2>2. Unheld(c, p, holder')
      BY <1>7 DEF Unheld
    <2>3. ASSUME NEW q \in Procs \ {p} PROVE Unheld(pc[q], q, holder')
      BY <2>1 DEF TypeInv, Unheld
    <2> QED
      BY <1>5, <2>2, <2>3
  <1>10. \A q \in Procs : pc'[q].at = "lock" => holder'[job'[q].id] # q
    BY <1>8, <1>9, UnheldLock
  <1>11. OUTypeOK'
    BY <1>1, <1>5, <1>6, <1>10 DEF TypeInv, OUTypeOK, Lock, dirVars
  <1> QED
    BY <1>5, <1>8, <1>9, <1>11 DEF TypeInv

\* Inside setProtection, the call goes on with what it was called for.
LEMMA ProtectingPC ==
  ASSUME TypeInv, NEW p \in Procs, pc[p].at \in Protecting
  PROVE  /\ pc[p].dn \in DNs /\ pc[p].want \in BOOLEAN /\ pc[p].next \in Nexts
         /\ Goal(pc[p]) = pc[p].next
         /\ Label(pc[p].next) \in PCs /\ Goal(Label(pc[p].next)) = pc[p].next
         /\ [pc[p] EXCEPT !.at = "sdWrite"] \in PCs
         /\ Goal([pc[p] EXCEPT !.at = "sdWrite"]) = pc[p].next
  <1>1. pc[p] \in [at : Protecting, dn : DNs, want : BOOLEAN, next : Nexts]
    BY DEF TypeInv, PCs
  <1>2. pc[p].next \in Labels \ Protecting
    BY <1>1 DEF Nexts, Labels, Protecting
  <1> QED
    BY <1>1, <1>2, LabelPC DEF PCs, Goal, Protecting

LEMMA SdReadType ==
  ASSUME TypeInv, UNCHANGED load, NEW p \in Procs, sdRead(p)
  PROVE  TypeInv'
  <1>1. /\ Goal(pc[p]) = pc[p].next /\ pc[p].next \in Nexts
        /\ Label(pc[p].next) \in PCs /\ Goal(Label(pc[p].next)) = pc[p].next
        /\ [pc[p] EXCEPT !.at = "sdWrite"] \in PCs
        /\ Goal([pc[p] EXCEPT !.at = "sdWrite"]) = pc[p].next
    BY ProtectingPC DEF sdRead, Protecting
  <1>2. Data(p)
    <2>1. \A g \in Guids : [prot |-> obj[g].prot, aces |-> obj[g].aces] \in [prot : BOOLEAN, aces : SUBSET Aces]
      BY DEF TypeInv, OUTypeOK, Objects
    <2>2. sd' \in [Procs -> [prot : BOOLEAN, aces : SUBSET Aces]]
      BY <2>1 DEF TypeInv, OUTypeOK, sdRead, At
    <2> QED
      BY <2>2 DEF TypeInv, OUTypeOK, Data, sdRead, dirVars
  <1>3. cur' = cur
    BY DEF sdRead
  <1>4. \A c : Goal(c) = pc[p].next => Path(c, job[p], cur'[p], res[p])
    BY <1>1, <1>3 DEF TypeInv, Path
  <1>5. CASE Continue(p, Label(pc[p].next))
    BY <1>1, <1>2, <1>4, <1>5, ContinueOK DEF Nexts
  <1>6. CASE Continue(p, [pc[p] EXCEPT !.at = "sdWrite"])
    BY <1>1, <1>2, <1>4, <1>6, ContinueOK DEF Nexts
  <1>7. CASE Return(p, "NotFound") \/ Return(p, "Denied")
    BY <1>2, <1>7, ReturnOK DEF Results
  <1>8. CASE Fails(p)
    BY <1>2, <1>8, FailsOK
  <1> QED
    BY <1>5, <1>6, <1>7, <1>8 DEF sdRead

LEMMA SdWriteType ==
  ASSUME TypeInv, UNCHANGED load, NEW p \in Procs, sdWrite(p)
  PROVE  TypeInv'
  <1> DEFINE new == Edit(pc[p].dn, LAMBDA o : [o EXCEPT !.prot = pc[p].want, !.aces = sd[p].aces])
  <1>1. /\ pc[p].want \in BOOLEAN /\ Goal(pc[p]) = pc[p].next /\ pc[p].next \in Nexts
        /\ Label(pc[p].next) \in PCs /\ Goal(Label(pc[p].next)) = pc[p].next
    BY ProtectingPC DEF sdWrite, Protecting
  <1>2. new \in [Guids -> Objects]
    <2>1. obj \in [Guids -> Objects] /\ sd[p].aces \in SUBSET Aces
      BY DEF TypeInv, OUTypeOK
    <2>2. \A g \in Guids : [obj[g] EXCEPT !.prot = pc[p].want, !.aces = sd[p].aces] \in Objects
      BY <1>1, <2>1 DEF Objects
    <2> QED
      BY <2>1, <2>2 DEF Edit
  <1>3. Path(Label(pc[p].next), job[p], cur[p], res[p])
    BY <1>1 DEF TypeInv, Path
  <1>4. Missing(pc[p].dn) \in Results
    BY DEF Missing, Results
  <1> QED
    BY <1>1, <1>2, <1>3, <1>4, WriteOK DEF sdWrite, Nexts

LEMMA ReplicateType ==
  ASSUME TypeInv, UNCHANGED load, NEW p \in Procs, Replicate(p)
  PROVE  TypeInv'
  <1>1. Data(p)
    BY DEF TypeInv, OUTypeOK, Data, Replicate, dirVars
  <1> QED
    BY <1>1, ReturnOK DEF Replicate, Results

\* What goes with the label of a call that is under way.
LEMMA CallOK ==
  ASSUME TypeInv, NEW p \in Procs, NEW l, pc[p].at = l, l \in Labels \ (Protecting \union {"idle"})
  PROVE  /\ Goal(pc[p]) = l /\ Path(pc[p], job[p], cur[p], res[p])
         /\ job[p] \in Jobs /\ job[p] \in Calls /\ job[p].id \in Identities /\ job[p].dn \in DNs
         /\ job[p].aces \subseteq Aces
         /\ res[p] = "none"
  <1>1. Goal(pc[p]) = l /\ Path(pc[p], job[p], cur[p], res[p])
    BY DEF Goal, TypeInv
  <1>2. job[p] \in Jobs /\ res[p] = "none"
    BY <1>1 DEF Path
  <1> QED
    BY <1>1, <1>2, OUAssumption DEF Calls

\* Create's request makes an object with a GUID of its own in the free place, or nothing.
AfterAdd(j) == IF j.prot = TRUE THEN setProtection(j.dn, TRUE, "created") ELSE Label("created")

Made(p, g, o, m) ==
    /\ obj' = [obj EXCEPT ![g] = o] /\ cur' = [cur EXCEPT ![p] = m] /\ born' = born \union {g}
    /\ o.at = job[p].dn /\ o.aces = {} /\ o.prot = FALSE
    /\ m.guid = g /\ m.at = o.at /\ m.desc = o.desc /\ m.prot = o.prot
    /\ At(job[p].dn) = {}
    /\ Continue(p, AfterAdd(job[p])) \/ Return(p, "Transport")

LEMMA AddStep ==
  ASSUME TypeInv, NEW p \in Procs, Add(p)
  PROVE  /\ UNCHANGED <<kids, job, sd, owed>>
         /\ \/ \E g \in Guids \ born : \E o \in Objects : \E m \in Models : Made(p, g, o, m)
            \/ /\ UNCHANGED <<obj, born, cur>>
               /\ Continue(p, Label("probeDeleted")) \/ Fails(p)
  <1> DEFINE j == job[p]
             o == [at |-> j.dn, was |-> Nil, prot |-> FALSE, aces |-> {},
                   readable |-> TRUE, desc |-> IF j.desc = Nil THEN "" ELSE j.desc]
             m(g) == [guid |-> g, at |-> o.at, desc |-> o.desc, prot |-> o.prot]
  <1>1. j.dn \in DNs /\ j.desc \in Descs \union {Nil}
    BY CallOK DEF Add, Labels, Protecting, Calls
  <1>2. o \in Objects /\ o.at = j.dn /\ o.aces = {} /\ o.prot = FALSE
    BY <1>1, OUAssumption DEF Objects
  <1>3. \A g \in Guids : /\ m(g) \in Models /\ m(g).guid = g /\ m(g).at = o.at /\ m(g).desc = o.desc
                         /\ m(g).prot = o.prot
    BY <1>1, OUAssumption DEF Models
  <1> DEFINE Adds(g) ==
               /\ obj' = [obj EXCEPT ![g] = o] /\ cur' = [cur EXCEPT ![p] = m(g)]
               /\ born' = born \union {g} /\ At(j.dn) = {}
               /\ Continue(p, AfterAdd(j)) \/ Return(p, "Transport")
  <1>4. \/ \E g \in Guids \ born : Adds(g)
        \/ UNCHANGED <<obj, born, cur>> /\ (Continue(p, Label("probeDeleted")) \/ Fails(p))
    BY DEF Add, AfterAdd
  <1>5. UNCHANGED <<kids, job, sd, owed>>
    BY DEF Add
  <1> HIDE DEF o
  <1>6. CASE \E g \in Guids \ born : Adds(g)
    <2>1. PICK g \in Guids \ born : Adds(g)
      BY <1>6
    <2>2. m(g) \in Models /\ Made(p, g, o, m(g))
      BY <1>2, <1>3, <2>1 DEF Made
    <2> QED
      BY <1>2, <1>5, <2>2
  <1> QED
    BY <1>4, <1>5, <1>6

LEMMA AfterAddPC ==
  ASSUME NEW j \in Calls
  PROVE  AfterAdd(j) \in PCs /\ Goal(AfterAdd(j)) = "created"
  <1>1. j.dn \in DNs
    BY DEF Calls
  <1>2. setProtection(j.dn, TRUE, "created") \in PCs /\ Goal(setProtection(j.dn, TRUE, "created")) = "created"
    BY <1>1 DEF setProtection, PCs, Goal, Protecting, Nexts
  <1>3. Label("created") \in PCs /\ Goal(Label("created")) = "created"
    BY LabelPC DEF Labels, Protecting
  <1> QED
    BY <1>2, <1>3 DEF AfterAdd

LEMMA AddType ==
  ASSUME TypeInv, UNCHANGED load, NEW p \in Procs, Add(p)
  PROVE  TypeInv'
  <1>1. /\ Goal(pc[p]) = "add" /\ Path(pc[p], job[p], cur[p], res[p])
        /\ job[p] \in Jobs /\ job[p] \in Calls
    BY CallOK DEF Add, Labels, Protecting
  <1>2. AfterAdd(job[p]) \in PCs /\ Goal(AfterAdd(job[p])) = "created"
    BY <1>1, AfterAddPC
  <1>3. Label("probeDeleted") \in PCs /\ Goal(Label("probeDeleted")) = "probeDeleted"
    BY LabelPC DEF Labels, Protecting
  <1>4. ASSUME NEW g \in Guids \ born, NEW o \in Objects, NEW m \in Models, Made(p, g, o, m)
        PROVE  TypeInv'
    <2>1. /\ cur'[p] = m /\ cur' \in [Procs -> Models \union {Nil}]
          /\ \A q \in Procs \ {p} : cur'[q] = cur[q]
      BY <1>4 DEF Made, TypeInv, OUTypeOK
    <2>2. obj' \in [Guids -> Objects] /\ born' \subseteq Guids
      BY <1>4 DEF Made, TypeInv, OUTypeOK
    <2>3. Data(p)
      BY <2>1, <2>2, AddStep DEF TypeInv, OUTypeOK, Data
    <2>4. Path(AfterAdd(job[p]), job[p], cur'[p], res[p])
      BY <1>1, <1>2, <2>1 DEF Path
    <2> QED
      BY <1>2, <1>4, <2>3, <2>4, ContinueOK, ReturnOK DEF Made, Results
  <1>5. CASE UNCHANGED <<obj, born, cur>> /\ (Continue(p, Label("probeDeleted")) \/ Fails(p))
    <2>1. Data(p)
      BY <1>5, AddStep DEF TypeInv, OUTypeOK, Data
    <2>2. Path(Label("probeDeleted"), job[p], cur'[p], res[p])
      BY <1>1, <1>3, <1>5 DEF Path
    <2> QED
      BY <1>3, <1>5, <2>1, <2>2, ContinueOK, FailsOK
  <1> QED
    BY <1>4, <1>5, AddStep

LEMMA ProbeDeletedType ==
  ASSUME TypeInv, UNCHANGED load, NEW p \in Procs, ProbeDeleted(p)
  PROVE  TypeInv'
  <1>1. Data(p)
    BY DEF TypeInv, OUTypeOK, Data, ProbeDeleted, dirVars
  <1> QED
    BY <1>1, ReturnOK DEF ProbeDeleted, Results

LEMMA CreatedType ==
  ASSUME TypeInv, UNCHANGED load, NEW p \in Procs, Created(p)
  PROVE  TypeInv'
  <1>1. Goal(pc[p]) = "created"
    BY DEF Created, Goal, Protecting
  <1>2. Label("replicate") \in PCs /\ Goal(Label("replicate")) = "replicate"
    BY LabelPC DEF Labels, Protecting
  <1>3. Path(Label("replicate"), job[p], cur[p], res[p])
    BY <1>1, <1>2 DEF TypeInv, Path
  <1> QED
    BY <1>2, <1>3, ReadOK DEF Created

\* Where an update goes after the attributes, and a delete after the first read.
LEMMA MoveOrNotPC ==
  ASSUME NEW p \in Procs, NEW c \in Models
  PROVE  /\ MoveOrNot(p, c) \in PCs
         /\ Goal(MoveOrNot(p, c)) = IF Moving(p, c) THEN "move" ELSE "reread"
  <1>1. Label("reread") \in PCs /\ Goal(Label("reread")) = "reread"
    BY LabelPC DEF Labels, Protecting
  <1>2. Label("move") \in PCs /\ Goal(Label("move")) = "move"
    BY LabelPC DEF Labels, Protecting
  <1>3. setProtection(c.at, FALSE, "move") \in PCs /\ Goal(setProtection(c.at, FALSE, "move")) = "move"
    BY SetProtectionPC DEF Nexts, Models
  <1> QED
    BY <1>1, <1>2, <1>3 DEF MoveOrNot

LEMMA LiftOrProbePC ==
  ASSUME NEW p \in Procs, NEW c \in Models
  PROVE  LiftOrProbe(p, c) \in PCs /\ Goal(LiftOrProbe(p, c)) = "probe"
  <1>1. Label("probe") \in PCs /\ Goal(Label("probe")) = "probe"
    BY LabelPC DEF Labels, Protecting
  <1>2. setProtection(c.at, FALSE, "probe") \in PCs /\ Goal(setProtection(c.at, FALSE, "probe")) = "probe"
    BY SetProtectionPC DEF Nexts, Models
  <1> QED
    BY <1>1, <1>2 DEF LiftOrProbe

\* A live object, as it is read.
LEMMA ModelOK ==
  ASSUME TypeInv, NEW g \in Guids, obj[g].at \in DNs
  PROVE  Model(g) \in Models /\ Model(g).guid = g /\ Model(g).at = obj[g].at
         /\ Model(g).desc = obj[g].desc /\ (obj[g].readable => Model(g).prot = obj[g].prot)
  <1>1. obj[g] \in Objects
    BY DEF TypeInv, OUTypeOK
  <1>2. (obj[g].prot /\ obj[g].readable) \in BOOLEAN
    BY Zenon
  <1> QED
    BY <1>1, <1>2 DEF Objects, Models, Model

LEMMA MatchesOK ==
  ASSUME TypeInv, NEW id \in Identities, NEW g \in Matches(id)
  PROVE  g \in Guids /\ obj[g].at \in DNs
  BY DEF TypeInv, OUTypeOK, Matches, At, Identities, ByGUID, ByDN

LEMMA GetCurrentType ==
  ASSUME TypeInv, UNCHANGED load, NEW p \in Procs, GetCurrent(p)
  PROVE  TypeInv'
  <1>1. Goal(pc[p]) = "get" /\ job[p] \in Jobs /\ job[p].id \in Identities /\ res[p] = "none"
    BY CallOK DEF GetCurrent, Labels, Protecting
  <1>2. job[p].op \in {"Update", "Delete"} /\ cur[p] = Nil /\ job[p].desc \in Descs \union {Nil}
    BY <1>1, OUAssumption DEF TypeInv, Path, Calls
  <1>3. ASSUME NEW g \in Matches(job[p].id),
               cur' = [cur EXCEPT ![p] = Model(g)],
               Continue(p, IF job[p].op = "Delete" THEN LiftOrProbe(p, Model(g))
                           ELSE IF job[p].desc \notin {Nil, Model(g).desc} THEN Label("describe")
                           ELSE MoveOrNot(p, Model(g)))
        PROVE  TypeInv'
    <2> DEFINE m == Model(g)
               c == IF job[p].op = "Delete" THEN LiftOrProbe(p, m)
                    ELSE IF job[p].desc \notin {Nil, m.desc} THEN Label("describe")
                    ELSE MoveOrNot(p, m)
    <2>1. m \in Models
      BY <1>1, MatchesOK, ModelOK
    <2>2. cur'[p] = m /\ Continue(p, c)
      BY <1>3 DEF TypeInv, OUTypeOK
    <2>3. Data(p)
      BY <1>3, <2>1 DEF TypeInv, OUTypeOK, Data, GetCurrent, dirVars
    <2> HIDE DEF m
    <2>4. Label("describe") \in PCs /\ Goal(Label("describe")) = "describe"
      BY LabelPC DEF Labels, Protecting
    <2>5. c \in PCs
      BY <2>1, <2>4, MoveOrNotPC, LiftOrProbePC
    <2>6. Path(c, job[p], m, res[p])
      <3>1. CASE job[p].op = "Delete"
        <4>1. Goal(c) = "probe"
          BY <2>1, <3>1, LiftOrProbePC
        <4> HIDE DEF c
        <4> QED
          BY <1>1, <2>1, <3>1, <4>1 DEF Path
      <3>2. CASE job[p].op = "Update" /\ job[p].desc \notin {Nil, m.desc}
        <4>1. Goal(c) = "describe"
          BY <2>4, <3>2
        <4> HIDE DEF c
        <4> QED
          BY <1>1, <1>2, <2>1, <3>2, <4>1 DEF Path
      <3>3. CASE job[p].op = "Update" /\ job[p].desc \in {Nil, m.desc}
        <4>1. Goal(c) \in {"move", "reread"}
          BY <2>1, <3>3, MoveOrNotPC
        <4> HIDE DEF c
        <4> QED
          BY <1>1, <2>1, <3>3, <4>1 DEF Path
      <3> QED
        BY <1>2, <3>1, <3>2, <3>3
    <2>7. Goal(c) \in {"probe", "describe", "move", "reread"}
      BY <2>1, <2>4, MoveOrNotPC, LiftOrProbePC
    <2> HIDE DEF c
    <2> QED
      BY <2>2, <2>3, <2>5, <2>6, <2>7, ContinueOK
  <1>4. ASSUME UNCHANGED cur,
               Return(p, IF job[p].op = "Delete" THEN "nil" ELSE "NotFound") \/ Fails(p)
        PROVE  TypeInv'
    <2>1. Data(p)
      BY <1>4 DEF TypeInv, OUTypeOK, Data, GetCurrent, dirVars
    <2> QED
      BY <1>4, <2>1, ReturnOK, FailsOK DEF Results
  <1> QED
    BY <1>3, <1>4 DEF GetCurrent

LEMMA DescribeType ==
  ASSUME TypeInv, UNCHANGED load, NEW p \in Procs, Describe(p)
  PROVE  TypeInv'
  <1> DEFINE new == Edit(cur[p].at, LAMBDA o : [o EXCEPT !.desc = job[p].desc])
             c == MoveOrNot(p, cur[p])
  <1>1. Goal(pc[p]) = "describe" /\ Path(pc[p], job[p], cur[p], res[p])
    BY CallOK DEF Describe, Labels, Protecting
  <1>2. cur[p] \in Models /\ job[p].desc \in Descs
    BY <1>1 DEF Path
  <1>3. new \in [Guids -> Objects]
    <2>1. obj \in [Guids -> Objects]
      BY DEF TypeInv, OUTypeOK
    <2>2. \A g \in Guids : [obj[g] EXCEPT !.desc = job[p].desc] \in Objects
      BY <1>2, <2>1 DEF Objects
    <2> QED
      BY <2>1, <2>2 DEF Edit
  <1>4. c \in PCs /\ Goal(c) \in {"move", "reread"}
    BY <1>2, MoveOrNotPC
  <1>5. Missing(cur[p].at) \in Results
    BY DEF Missing, Results
  <1> HIDE DEF c
  <1>6. Path(c, job[p], cur[p], res[p])
    BY <1>1, <1>4 DEF Path
  <1> QED
    BY <1>3, <1>4, <1>5, <1>6, WriteOK DEF Describe, c

LEMMA MoveType ==
  ASSUME TypeInv, UNCHANGED load, NEW p \in Procs, Move(p)
  PROVE  TypeInv'
  <1> DEFINE new == Edit(cur[p].at, LAMBDA o : [o EXCEPT !.at = job[p].dn])
             c == Label("reread")
             refusal == IF At(cur[p].at) = {} THEN "NotFound"
                        ELSE IF At(job[p].dn) # {} THEN "AlreadyExists"
                        ELSE IF \E g \in At(cur[p].at) : obj[g].prot THEN "Denied"
                        ELSE "nil"
  <1>1. Goal(pc[p]) = "move" /\ Path(pc[p], job[p], cur[p], res[p]) /\ job[p].dn \in DNs
    BY CallOK DEF Move, Labels, Protecting
  <1>2. new \in [Guids -> Objects]
    <2>1. obj \in [Guids -> Objects]
      BY DEF TypeInv, OUTypeOK
    <2>2. \A g \in Guids : [obj[g] EXCEPT !.at = job[p].dn] \in Objects
      BY <1>1, <2>1 DEF Objects
    <2> QED
      BY <2>1, <2>2 DEF Edit
  <1>3. c \in PCs /\ Goal(c) = "reread"
    BY LabelPC DEF Labels, Protecting
  <1>4. refusal \in Results
    BY DEF Results
  <1>5. Path(c, job[p], cur[p], res[p])
    BY <1>1, <1>3 DEF Path
  <1>6. WriteReq(p, refusal, new, c) /\ UNCHANGED <<job, cur, sd, owed>>
    BY DEF Move
  <1> HIDE DEF new, c, refusal
  <1> QED
    BY <1>2, <1>3, <1>4, <1>5, <1>6, WriteOK

LEMMA RereadType ==
  ASSUME TypeInv, UNCHANGED load, NEW p \in Procs, Reread(p)
  PROVE  TypeInv'
  <1> DEFINE g == cur[p].guid
             c == IF Model(g).prot = Want(p, cur[p]) THEN Label("replicate")
                  ELSE setProtection(obj[g].at, Want(p, cur[p]), "restored")
  <1>1. Goal(pc[p]) = "reread" /\ Path(pc[p], job[p], cur[p], res[p]) /\ job[p] \in Calls
    BY CallOK DEF Reread, Labels, Protecting
  <1>2. cur[p] \in Models /\ cur[p].prot \in BOOLEAN
    BY <1>1 DEF Path, Models
  <1>3. Want(p, cur[p]) \in BOOLEAN
    BY <1>1, <1>2 DEF Want, Calls
  <1>4. obj[g].at \in DNs => c \in PCs /\ Goal(c) \in {"replicate", "restored"}
    <2>1. Label("replicate") \in PCs /\ Goal(Label("replicate")) = "replicate"
      BY LabelPC DEF Labels, Protecting
    <2>2. obj[g].at \in DNs => /\ setProtection(obj[g].at, Want(p, cur[p]), "restored") \in PCs
                              /\ Goal(setProtection(obj[g].at, Want(p, cur[p]), "restored")) = "restored"
      BY <1>3, SetProtectionPC DEF Nexts
    <2> QED
      BY <2>1, <2>2
  <1>5. Read(p, obj[g].at \in DNs, c) /\ UNCHANGED <<job, cur, sd, owed>>
    BY DEF Reread
  <1> HIDE DEF c
  <1>6. obj[g].at \in DNs => Path(c, job[p], cur[p], res[p])
    BY <1>1, <1>4 DEF Path
  <1> QED
    BY <1>4, <1>5, <1>6, ReadOK

LEMMA RestoredType ==
  ASSUME TypeInv, UNCHANGED load, NEW p \in Procs, Restored(p)
  PROVE  TypeInv'
  <1>1. Goal(pc[p]) = "restored" /\ Path(pc[p], job[p], cur[p], res[p])
    BY CallOK DEF Restored, Labels, Protecting
  <1>2. Label("replicate") \in PCs /\ Goal(Label("replicate")) = "replicate"
    BY LabelPC DEF Labels, Protecting
  <1>3. Path(Label("replicate"), job[p], cur[p], res[p])
    BY <1>1, <1>2 DEF Path
  <1> QED
    BY <1>2, <1>3, ReadOK DEF Restored

LEMMA ProbeType ==
  ASSUME TypeInv, UNCHANGED load, NEW p \in Procs, Probe(p)
  PROVE  TypeInv'
  <1>1. Goal(pc[p]) = "probe" /\ Path(pc[p], job[p], cur[p], res[p])
    BY CallOK DEF Probe, Labels, Protecting
  <1>2. Label("delete") \in PCs /\ Goal(Label("delete")) = "delete"
    BY LabelPC DEF Labels, Protecting
  <1>3. Data(p) /\ cur' = cur
    BY DEF TypeInv, OUTypeOK, Data, Probe, dirVars
  <1>4. Path(Label("delete"), job[p], cur'[p], res[p])
    BY <1>1, <1>2, <1>3 DEF Path
  <1> QED
    BY <1>2, <1>3, <1>4, ContinueOK, ReturnOK, FailsOK DEF Probe, Results

LEMMA DeleteReqType ==
  ASSUME TypeInv, UNCHANGED load, NEW p \in Procs, DeleteReq(p)
  PROVE  TypeInv'
  <1> DEFINE new == Edit(cur[p].at, Deleted)
             c == Label("confirm")
             refusal == IF At(cur[p].at) = {} THEN "NotFound"
                        ELSE IF At(cur[p].at) \intersect kids # {} THEN "Constraint"
                        ELSE IF \E g \in At(cur[p].at) : obj[g].prot THEN "Denied"
                        ELSE "nil"
  <1>1. Goal(pc[p]) = "delete" /\ Path(pc[p], job[p], cur[p], res[p])
    BY CallOK DEF DeleteReq, Labels, Protecting
  <1>2. new \in [Guids -> Objects]
    <2>1. obj \in [Guids -> Objects]
      BY DEF TypeInv, OUTypeOK
    <2>2. \A g \in Guids : Deleted(obj[g]) \in Objects
      BY <2>1, DeletedOK
    <2> QED
      BY <2>1, <2>2 DEF Edit
  <1>3. c \in PCs /\ Goal(c) = "confirm"
    BY LabelPC DEF Labels, Protecting
  <1>4. refusal \in Results
    BY DEF Results
  <1>5. Path(c, job[p], cur[p], res[p])
    BY <1>1, <1>3 DEF Path
  <1>6. WriteReq(p, refusal, new, c) /\ UNCHANGED <<job, cur, sd, owed>>
    BY DEF DeleteReq
  <1> HIDE DEF new, c, refusal
  <1> QED
    BY <1>2, <1>3, <1>4, <1>5, <1>6, WriteOK

LEMMA ConfirmType ==
  ASSUME TypeInv, UNCHANGED load, NEW p \in Procs, Confirm(p)
  PROVE  TypeInv'
  <1>1. Data(p)
    BY DEF TypeInv, OUTypeOK, Data, Confirm, dirVars
  <1> QED
    BY <1>1, ReturnOK, FailsOK DEF Confirm, Results

\* A descriptor, as it is read.
LEMMA DescriptorOK ==
  ASSUME TypeInv, NEW g \in Guids
  PROVE  /\ [prot |-> obj[g].prot, aces |-> obj[g].aces] \in [prot : BOOLEAN, aces : SUBSET Aces]
         /\ obj[g].prot \in BOOLEAN /\ obj[g].aces \subseteq Aces
  BY DEF TypeInv, OUTypeOK, Objects

LEMMA ReadDescriptorType ==
  ASSUME TypeInv, UNCHANGED load, NEW p \in Procs, ReadDescriptor(p)
  PROVE  TypeInv'
  <1> DEFINE l == IF job[p].op = "Grant" THEN "existing" ELSE "aclWrite"
             c == Label(l)
  <1>1. /\ Goal(pc[p]) = "acl" /\ Path(pc[p], job[p], cur[p], res[p])
        /\ job[p] \in Jobs /\ job[p].id \in Identities
    BY CallOK DEF ReadDescriptor, Labels, Protecting
  <1>2. job[p].op \in {"Grant", "Revoke"} /\ res[p] = "none"
    BY <1>1 DEF Path
  <1>3. c \in PCs /\ Goal(c) = l
    BY LabelPC DEF Labels, Protecting
  <1>4. ASSUME NEW g \in Matches(job[p].id),
               cur' = [cur EXCEPT ![p] = Model(g)],
               sd' = [sd EXCEPT ![p] = [prot |-> obj[g].prot, aces |-> obj[g].aces]],
               Continue(p, c) \/ Return(p, "nil")
        PROVE  TypeInv'
    <2>1. g \in Guids /\ Model(g) \in Models
      BY <1>1, MatchesOK, ModelOK
    <2> DEFINE m == Model(g)
               s == [prot |-> obj[g].prot, aces |-> obj[g].aces]
    <2>2. s \in [prot : BOOLEAN, aces : SUBSET Aces]
      BY <2>1, DescriptorOK
    <2> HIDE DEF m, s
    <2>3. cur' = [cur EXCEPT ![p] = m] /\ sd' = [sd EXCEPT ![p] = s] /\ m \in Models
      BY <1>4, <2>1 DEF m, s
    <2>4. /\ cur' \in [Procs -> Models \union {Nil}] /\ cur'[p] = m
          /\ \A q \in Procs \ {p} : cur'[q] = cur[q]
          /\ sd' \in [Procs -> [prot : BOOLEAN, aces : SUBSET Aces]]
      BY <2>2, <2>3 DEF TypeInv, OUTypeOK
    <2>5. Data(p)
      BY <2>4 DEF TypeInv, OUTypeOK, Data, ReadDescriptor, dirVars
    <2>6. Path(c, job[p], cur'[p], res[p])
      BY <1>1, <1>2, <1>3, <2>3, <2>4 DEF Path
    <2> HIDE DEF c
    <2> QED
      BY <1>3, <1>4, <2>5, <2>6, ContinueOK, ReturnOK DEF Results
  <1>5. ASSUME UNCHANGED <<cur, sd>>, Return(p, "NotFound") \/ Return(p, "Denied") \/ Fails(p)
        PROVE  TypeInv'
    <2>1. Data(p)
      BY <1>5 DEF TypeInv, OUTypeOK, Data, ReadDescriptor, dirVars
    <2> QED
      BY <1>5, <2>1, ReturnOK, FailsOK DEF Results
  <1> QED
    BY <1>4, <1>5 DEF ReadDescriptor

LEMMA ExistingType ==
  ASSUME TypeInv, UNCHANGED load, NEW p \in Procs, Existing(p)
  PROVE  TypeInv'
  <1> DEFINE c == Label("aclWrite")
  <1>1. /\ Goal(pc[p]) = "existing" /\ Path(pc[p], job[p], cur[p], res[p])
        /\ job[p].aces \subseteq Aces
    BY CallOK DEF Existing, Labels, Protecting
  <1>2. cur[p] \in Models /\ cur[p].guid \in Guids /\ job[p].op = "Grant"
    BY <1>1 DEF Path, Models
  <1>3. c \in PCs /\ Goal(c) = "aclWrite"
    BY LabelPC DEF Labels, Protecting
  <1>4. sd' \in [Procs -> [prot : BOOLEAN, aces : SUBSET Aces]]
    BY <1>1 DEF Existing, TypeInv, OUTypeOK
  <1>5. owed' \subseteq Guids \X Aces
    BY <1>1, <1>2 DEF Existing, TypeInv, OUTypeOK
  <1>6. Data(p) /\ cur' = cur
    BY <1>4, <1>5 DEF TypeInv, OUTypeOK, Data, Existing, dirVars
  <1>7. Path(c, job[p], cur'[p], res[p])
    BY <1>1, <1>3, <1>6 DEF Path
  <1>8. Return(p, "nil") \/ Return(p, "NotFound") \/ Return(p, "Denied") \/ Continue(p, c) \/ Fails(p)
    BY DEF Existing
  <1> HIDE DEF c
  <1> QED
    BY <1>3, <1>6, <1>7, <1>8, ContinueOK, ReturnOK, FailsOK DEF Results

LEMMA AclWriteType ==
  ASSUME TypeInv, UNCHANGED load, NEW p \in Procs, AclWrite(p)
  PROVE  TypeInv'
  <1>1. /\ Goal(pc[p]) = "aclWrite" /\ Path(pc[p], job[p], cur[p], res[p])
        /\ job[p].aces \subseteq Aces
    BY CallOK DEF AclWrite, Labels, Protecting
  <1>2. cur[p].guid \in Guids
    BY <1>1 DEF Path, Models
  <1>3. obj' \in [Guids -> Objects]
    <2> DEFINE aces == IF job[p].op = "Grant" THEN sd[p].aces ELSE sd[p].aces \ job[p].aces
    <2>1. aces \in SUBSET Aces /\ sd[p].prot \in BOOLEAN
      BY DEF TypeInv, OUTypeOK
    <2>2. obj' = obj \/ obj' = Edit(cur[p].at, LAMBDA o : [o EXCEPT !.prot = sd[p].prot, !.aces = aces])
      BY DEF AclWrite
    <2> HIDE DEF aces
    <2>3. obj \in [Guids -> Objects]
      BY DEF TypeInv, OUTypeOK
    <2>4. \A g \in Guids : [obj[g] EXCEPT !.prot = sd[p].prot, !.aces = aces] \in Objects
      BY <2>1, <2>3 DEF Objects
    <2> QED
      BY <2>2, <2>3, <2>4 DEF Edit
  <1>4. owed' \subseteq Guids \X Aces
    BY <1>1, <1>2 DEF AclWrite, TypeInv, OUTypeOK
  <1>5. Data(p)
    BY <1>3, <1>4 DEF TypeInv, OUTypeOK, Data, AclWrite
  <1>6. Fails(p) \/ \E r \in {"nil", "Transport", "NotFound"} : Return(p, r)
    BY DEF AclWrite
  <1> QED
    BY <1>5, <1>6, ReturnOK, FailsOK DEF Results

LEMMA OthersType ==
  ASSUME TypeInv, UNCHANGED load, NEW g \in Guids, Child(g) \/ AdminDelete(g)
  PROVE  TypeInv'
  <1>1. obj' \in [Guids -> Objects] /\ kids' \subseteq Guids
    <2>1. Deleted(obj[g]) \in Objects
      BY DeletedOK DEF TypeInv, OUTypeOK
    <2> QED
      BY <2>1 DEF TypeInv, OUTypeOK, Child, AdminDelete
  <1>2. UNCHANGED <<born, holder, pc, job, cur, sd, res, owed>>
    BY DEF Child, AdminDelete
  <1> QED
    BY <1>1, <1>2 DEF TypeInv, OUTypeOK
-----------------------------------------------------------------------------
\* The directory that is found at first.
LEMMA StartObjects ==
  ASSUME OUInit
  PROVE  /\ load \in Workloads /\ obj \in [Guids -> Objects] /\ born \subseteq Guids
         /\ \A g \in Guids \ born : obj[g].at = Nil
         /\ \A g \in Guids : obj[g].aces = {}
         /\ \A g, h \in Guids : obj[g].at = obj[h].at /\ obj[g].at # Nil => g = h
         /\ \E f \in load.start : born = DOMAIN f
  <1>1. PICK f \in load.start : \E prot \in [DOMAIN f -> BOOLEAN] :
          /\ born = DOMAIN f
          /\ obj = [g \in Guids |-> [at |-> IF g \in born THEN f[g] ELSE Nil, was |-> Nil,
                                     desc |-> "", prot |-> g \in born /\ prot[g], aces |-> {},
                                     readable |-> g \notin load.opaque]]
    BY DEF OUInit
  <1>2. PICK prot \in [DOMAIN f -> BOOLEAN] :
          /\ born = DOMAIN f
          /\ obj = [g \in Guids |-> [at |-> IF g \in born THEN f[g] ELSE Nil, was |-> Nil,
                                     desc |-> "", prot |-> g \in born /\ prot[g], aces |-> {},
                                     readable |-> g \notin load.opaque]]
    BY <1>1
  <1>3. /\ load \in Workloads /\ f \in [DOMAIN f -> DNs] /\ DOMAIN f \subseteq Guids
        /\ \A g, h \in DOMAIN f : f[g] = f[h] => g = h
    BY OUAssumption DEF OUInit
  <1>4. obj \in [Guids -> Objects] /\ born \subseteq Guids
    BY <1>2, <1>3, OUAssumption DEF Objects
  <1>5. \A g \in Guids : obj[g].at = (IF g \in born THEN f[g] ELSE Nil) /\ obj[g].aces = {}
    BY <1>2
  <1> QED
    BY <1>1, <1>3, <1>4, <1>5

LEMMA TypeInit == OUInit => TypeInv
  <1> SUFFICES ASSUME OUInit PROVE TypeInv
    OBVIOUS
  <1>2. load \in Workloads /\ obj \in [Guids -> Objects] /\ born \subseteq Guids
    BY StartObjects
  <1>4. Label("idle") \in PCs /\ Label("idle").at = "idle" /\ Goal(Label("idle")) = "idle"
    BY LabelPC DEF Labels, Protecting
  <1>5. OUTypeOK
    BY <1>2, <1>4 DEF OUInit, OUTypeOK, Results, Labels
  <1>6. pc \in [Procs -> PCs] /\ \A p \in Procs : pc[p] = Label("idle")
    BY <1>4 DEF OUInit
  <1>7. \A p \in Procs : Path(pc[p], job[p], cur[p], res[p])
    BY <1>4, <1>6 DEF Path
  <1>8. \A p \in Procs : Unheld(pc[p], p, holder)
    BY OUAssumption DEF OUInit, Unheld
  <1> QED
    BY <1>5, <1>6, <1>7, <1>8 DEF TypeInv

LEMMA TypeNext == TypeInv /\ [OUNext]_ouVars => TypeInv'
  <1> SUFFICES ASSUME TypeInv, [OUNext]_ouVars PROVE TypeInv'
    OBVIOUS
  <1>1. CASE UNCHANGED ouVars
    BY <1>1 DEF TypeInv, OUTypeOK, ouVars
  <1>2. ASSUME UNCHANGED load, NEW p \in Procs, Step(p) PROVE TypeInv'
    BY <1>2, LockType, SdReadType, SdWriteType, ReplicateType, AddType, ProbeDeletedType, CreatedType,
       GetCurrentType, DescribeType, MoveType, RereadType, RestoredType, ProbeType, DeleteReqType,
       ConfirmType, ReadDescriptorType, ExistingType, AclWriteType DEF Step
  <1> QED
    BY <1>1, <1>2, BeginType, OthersType DEF OUNext

\* Whatever the calls and whoever else is at work, every variable of the OU operations
\* keeps its type, and no goroutine waits for a lock it holds itself: the lock is taken
\* once in a call and released however the call ends (ou.go 120-342, acl.go 95-191).
THEOREM OUTypeCorrect == OUSpec => []OUTypeOK
  <1>1. TypeInv => OUTypeOK
    BY DEF TypeInv
  <1> QED
    BY <1>1, TypeInit, TypeNext, PTL DEF OUSpec
-----------------------------------------------------------------------------
(* Delete answers nil only when the object it found is gone *)

\* A goroutine's step leaves the others where they are, and their locks with them.
LEMMA OthersStay ==
  ASSUME TypeInv, NEW p \in Procs, Step(p) \/ \E j \in load.jobs : Begin(p, j), NEW q \in Procs \ {p}
  PROVE  /\ pc'[q] = pc[q] /\ job'[q] = job[q] /\ cur'[q] = cur[q] /\ sd'[q] = sd[q] /\ res'[q] = res[q]
         /\ \A k \in Identities : holder[k] = q => holder'[k] = q
  <1>1. \A r : Return(p, r) => /\ pc'[q] = pc[q] /\ res'[q] = res[q]
                              /\ \A k \in Identities : holder[k] = q => holder'[k] = q
    BY DEF TypeInv, OUTypeOK, Return
  <1>2. \A c : Continue(p, c) => pc'[q] = pc[q] /\ res'[q] = res[q] /\ holder' = holder
    BY DEF TypeInv, OUTypeOK, Continue
  <1> DEFINE Stay == /\ pc'[q] = pc[q] /\ res'[q] = res[q]
                     /\ \A k \in Identities : holder[k] = q => holder'[k] = q
  <1>3. (\E r : Return(p, r)) \/ (\E c : Continue(p, c)) => Stay
    BY <1>1, <1>2
  <1>4. \A found, c : Read(p, found, c) => Stay
    BY <1>3 DEF Read, Fails
  <1>5. \A refusal, new, c : WriteReq(p, refusal, new, c) => Stay
    BY <1>3 DEF WriteReq, Fails
  <1>6. Fails(p) => Stay
    BY <1>3 DEF Fails
  <1>7. CASE \E j \in load.jobs : Begin(p, j)
    BY <1>7 DEF TypeInv, OUTypeOK, Begin
  <1>8. CASE Lock(p)
    <2>1. pc'[q] = pc[q]
      BY <1>8 DEF TypeInv, Lock
    <2>2. \A k \in Identities : holder[k] = q => holder'[k] = q
      <3>1. holder' = [holder EXCEPT ![job[p].id] = p] /\ holder[job[p].id] = Nil
        BY <1>8 DEF Lock
      <3>2. holder \in [Identities -> Procs \union {Nil}] /\ q # Nil
        BY OUAssumption DEF TypeInv, OUTypeOK
      <3> QED
        BY <3>1, <3>2
    <2> QED
      BY <1>8, <2>1, <2>2 DEF Lock
  <1> HIDE DEF Stay
  <1>9. CASE sdRead(p)
    <2>1. Stay
      BY <1>3, <1>6, <1>9 DEF sdRead
    <2>2. sd'[q] = sd[q]
      BY <1>9 DEF TypeInv, OUTypeOK, sdRead
    <2> QED
      BY <1>9, <2>1, <2>2 DEF Stay, sdRead
  <1>10. CASE sdWrite(p)
    BY <1>5, <1>10 DEF sdWrite, Stay
  <1>11. CASE Replicate(p)
    BY <1>3, <1>11 DEF Replicate, Stay
  <1>12. CASE Add(p)
    <2>1. Stay
      BY <1>3, <1>6, <1>12 DEF Add
    <2>2. cur'[q] = cur[q]
      BY <1>12 DEF TypeInv, OUTypeOK, Add
    <2> QED
      BY <1>12, <2>1, <2>2 DEF Add, Stay
  <1>13. CASE ProbeDeleted(p)
    BY <1>3, <1>13 DEF ProbeDeleted, Stay
  <1>14. CASE Created(p)
    BY <1>4, <1>14 DEF Created, Stay
  <1>15. CASE GetCurrent(p)
    <2>1. Stay
      BY <1>3, <1>6, <1>15 DEF GetCurrent
    <2>2. cur'[q] = cur[q]
      BY <1>15 DEF TypeInv, OUTypeOK, GetCurrent
    <2> QED
      BY <1>15, <2>1, <2>2 DEF GetCurrent, Stay
  <1>16. CASE Describe(p)
    BY <1>5, <1>16 DEF Describe, Stay
  <1>17. CASE Move(p)
    BY <1>5, <1>17 DEF Move, Stay
  <1>18. CASE Reread(p)
    BY <1>4, <1>18 DEF Reread, Stay
  <1>19. CASE Restored(p)
    BY <1>4, <1>19 DEF Restored, Stay
  <1>20. CASE Probe(p)
    BY <1>3, <1>6, <1>20 DEF Probe, Stay
  <1>21. CASE DeleteReq(p)
    BY <1>5, <1>21 DEF DeleteReq, Stay
  <1>22. CASE Confirm(p)
    BY <1>3, <1>6, <1>22 DEF Confirm, Stay
  <1>23. CASE ReadDescriptor(p)
    <2>1. Stay
      BY <1>3, <1>6, <1>23 DEF ReadDescriptor
    <2>2. cur'[q] = cur[q] /\ sd'[q] = sd[q]
      BY <1>23 DEF TypeInv, OUTypeOK, ReadDescriptor
    <2> QED
      BY <1>23, <2>1, <2>2 DEF ReadDescriptor, Stay
  <1>24. CASE Existing(p)
    <2>1. Stay
      BY <1>3, <1>6, <1>24 DEF Existing
    <2>2. sd'[q] = sd[q]
      BY <1>24 DEF TypeInv, OUTypeOK, Existing
    <2> QED
      BY <1>24, <2>1, <2>2 DEF Existing, Stay
  <1>25. CASE AclWrite(p)
    BY <1>3, <1>6, <1>25 DEF AclWrite, Stay
  <1> QED
    BY <1>7, <1>8, <1>9, <1>10, <1>11, <1>12, <1>13, <1>14, <1>15, <1>16, <1>17, <1>18, <1>19, <1>20,
       <1>21, <1>22, <1>23, <1>24, <1>25 DEF Step

\* A step may kill an object; it brings to life only one with a new GUID.
Buried ==
    /\ born \subseteq born'
    /\ \A g \in Guids : obj[g].at = Nil => obj'[g].at = Nil \/ g \in born' \ born

LEMMA BuriedStep == TypeInv /\ [OUNext]_ouVars => Buried
  <1> SUFFICES ASSUME TypeInv, [OUNext]_ouVars PROVE Buried
    OBVIOUS
  <1>1. CASE UNCHANGED dirVars
    BY <1>1 DEF Buried, dirVars
  <1>2. ASSUME NEW p \in Procs, sdWrite(p) PROVE Buried
    <2>1. pc[p].dn \in DNs
      BY <1>2, ProtectingPC DEF sdWrite, Protecting
    <2>2. born' = born /\ \A g \in Guids : obj[g].at # pc[p].dn => obj'[g] = obj[g]
      BY <1>2 DEF sdWrite, WriteReq, Edit
    <2> QED
      BY <2>1, <2>2, OUAssumption DEF Buried
  <1>3. ASSUME NEW p \in Procs, Add(p) PROVE Buried
    <2>1. \/ UNCHANGED <<obj, born>>
          \/ \E g \in Guids \ born : \E o : obj' = [obj EXCEPT ![g] = o] /\ born' = born \union {g}
      BY <1>3 DEF Add
    <2>2. obj \in [Guids -> Objects]
      BY DEF TypeInv, OUTypeOK
    <2> QED
      BY <2>1, <2>2 DEF Buried
  <1>4. ASSUME NEW p \in Procs, Describe(p) \/ Move(p) \/ AclWrite(p) PROVE Buried
    <2>1. Path(pc[p], job[p], cur[p], res[p]) /\ Goal(pc[p]) \in {"describe", "move", "aclWrite"}
      BY <1>4, CallOK DEF Describe, Move, AclWrite, Labels, Protecting
    <2>2. cur[p].at \in DNs
      BY <2>1 DEF Path, Models
    <2>3. born' = born /\ \A g \in Guids : obj[g].at # cur[p].at => obj'[g] = obj[g]
      <3>1. CASE Describe(p)
        BY <3>1 DEF Describe, WriteReq, Edit
      <3>2. CASE Move(p)
        BY <3>2 DEF Move, WriteReq, Edit
      <3>3. CASE AclWrite(p)
        BY <3>3 DEF AclWrite, Edit
      <3> QED
        BY <1>4, <3>1, <3>2, <3>3
    <2> QED
      BY <2>2, <2>3, OUAssumption DEF Buried
  <1>5. ASSUME NEW p \in Procs, DeleteReq(p) PROVE Buried
    <2>1. \A g \in Guids : Deleted(obj[g]).at = Nil
      BY DEF TypeInv, OUTypeOK, Deleted, Objects
    <2>2. born' = born /\ (obj' = obj \/ obj' = Edit(cur[p].at, Deleted))
      BY <1>5 DEF DeleteReq, WriteReq
    <2> QED
      BY <2>1, <2>2 DEF Edit, Buried
  <1>6. ASSUME NEW g \in Guids, Child(g) \/ AdminDelete(g) PROVE Buried
    <2>1. Deleted(obj[g]).at = Nil
      BY DEF TypeInv, OUTypeOK, Deleted, Objects
    <2> QED
      BY <1>6, <2>1 DEF Child, AdminDelete, Buried, TypeInv, OUTypeOK
  <1>7. ASSUME NEW p \in Procs, Step(p) PROVE Buried
    BY <1>1, <1>2, <1>3, <1>4, <1>5, <1>7
       DEF Step, Lock, sdRead, Replicate, ProbeDeleted, Created, GetCurrent, Reread, Restored, Probe,
           Confirm, ReadDescriptor, Existing, Read
  <1>8. ASSUME NEW p \in Procs, NEW j \in load.jobs, Begin(p, j) PROVE Buried
    BY <1>1, <1>8 DEF Begin
  <1> QED
    BY <1>1, <1>6, <1>7, <1>8 DEF OUNext, ouVars, dirVars

\* Live objects, and objects a call has read, have a GUID that is taken.
Known ==
    /\ \A g \in Guids : obj[g].at \in DNs => g \in born
    /\ \A p \in Procs : cur[p] # Nil => cur[p].guid \in born

GoneInv == TypeInv /\ Known /\ DeleteNilMeansGone

\* What a goroutine's step does to the model it read, and when it answers nil.
LEMMA ModelStep ==
  ASSUME TypeInv, Known, NEW p \in Procs, Step(p) \/ \E j \in load.jobs : Begin(p, j)
  PROVE  /\ cur'[p] \in {Nil, cur[p]} \/ cur'[p].guid \in born'
         /\ res'[p] = "nil" /\ job'[p].op = "Delete" => cur'[p] = Nil \/ obj'[cur'[p].guid].at = Nil
  <1>1. CASE \E j \in load.jobs : Begin(p, j)
    BY <1>1 DEF Begin, TypeInv, OUTypeOK
  <1>2. pc[p].at # "idle" /\ pc[p].at \in Labels => res[p] = "none" /\ Path(pc[p], job[p], cur[p], res[p])
    <2>1. pc[p].at \in Protecting => Goal(pc[p]) \in Nexts
      BY ProtectingPC
    <2>2. pc[p].at \in Labels \ (Protecting \union {"idle"}) => Goal(pc[p]) # "idle"
      BY CallOK
    <2> QED
      BY <2>1, <2>2 DEF TypeInv, Path, Nexts
  <1>3. \A c : Continue(p, c) => res' = res
    BY DEF Continue
  <1>4. \A r : Return(p, r) => res'[p] = r
    BY DEF Return, TypeInv, OUTypeOK
  <1>5. Fails(p) => res'[p] # "nil"
    BY <1>4 DEF Fails
  <1>6. \A found, c : res[p] = "none" /\ Read(p, found, c) => res'[p] # "nil"
    BY <1>3, <1>4, <1>5 DEF Read
  <1>7. \A refusal, new, c : res[p] = "none" /\ WriteReq(p, refusal, new, c) => res'[p] # "nil"
    BY <1>3, <1>4, <1>5 DEF WriteReq
  <1>8. CASE Lock(p)
    BY <1>2, <1>8 DEF Lock, Labels
  <1>9. CASE sdRead(p)
    BY <1>2, <1>3, <1>4, <1>5, <1>9 DEF sdRead, Labels
  <1>10. CASE sdWrite(p)
    BY <1>2, <1>7, <1>10 DEF sdWrite, Labels
  <1>11. CASE Replicate(p)
    <2>1. job[p].op # "Delete"
      BY <1>11, CallOK DEF Replicate, Labels, Protecting, Path
    <2> QED
      BY <1>11, <2>1 DEF Replicate
  <1>12. CASE Add(p)
    <2>1. res'[p] # "nil"
      BY <1>2, <1>3, <1>4, <1>5, <1>12 DEF Add, Labels
    <2>2. cur'[p] = cur[p] \/ cur'[p].guid \in born'
      <3>1. ASSUME NEW g \in Guids \ born, NEW o \in Objects, NEW m \in Models, Made(p, g, o, m)
            PROVE  cur'[p].guid \in born'
        BY <3>1 DEF Made, TypeInv, OUTypeOK
      <3> QED
        BY <1>12, <3>1, AddStep
    <2> QED
      BY <2>1, <2>2
  <1>13. CASE ProbeDeleted(p)
    BY <1>4, <1>13 DEF ProbeDeleted
  <1>14. CASE Created(p)
    BY <1>2, <1>6, <1>14 DEF Created, Labels
  <1>15. CASE GetCurrent(p)
    <2>1. cur[p] = Nil /\ res[p] = "none" /\ job[p].id \in Identities
      BY <1>15, CallOK DEF GetCurrent, Labels, Protecting, Path
    <2>2. ASSUME NEW g \in Matches(job[p].id) PROVE Model(g).guid \in born
      BY <2>1, MatchesOK, ModelOK DEF Known
    <2>3. cur'[p] = Nil \/ (cur'[p].guid \in born /\ res'[p] # "nil")
      BY <1>3, <1>15, <2>1, <2>2 DEF GetCurrent, TypeInv, OUTypeOK
    <2> QED
      BY <1>15, <2>3 DEF GetCurrent, dirVars
  <1>16. CASE Describe(p)
    BY <1>2, <1>7, <1>16 DEF Describe, Labels
  <1>17. CASE Move(p)
    BY <1>2, <1>7, <1>17 DEF Move, Labels
  <1>18. CASE Reread(p)
    BY <1>2, <1>6, <1>18 DEF Reread, Labels
  <1>19. CASE Restored(p)
    BY <1>2, <1>6, <1>19 DEF Restored, Labels
  <1>20. CASE Probe(p)
    BY <1>2, <1>3, <1>4, <1>5, <1>20 DEF Probe, Labels
  <1>21. CASE DeleteReq(p)
    BY <1>2, <1>7, <1>21 DEF DeleteReq, Labels
  <1>22. CASE Confirm(p)
    BY <1>4, <1>5, <1>22 DEF Confirm, dirVars
  <1>23. CASE ReadDescriptor(p)
    <2>1. job[p].op # "Delete" /\ job[p].id \in Identities
      BY <1>23, CallOK DEF ReadDescriptor, Labels, Protecting, Path
    <2>2. ASSUME NEW g \in Matches(job[p].id) PROVE Model(g).guid \in born
      BY <2>1, MatchesOK, ModelOK DEF Known
    <2>3. cur'[p] = cur[p] \/ cur'[p].guid \in born
      BY <1>23, <2>2 DEF ReadDescriptor, TypeInv, OUTypeOK
    <2> QED
      BY <1>23, <2>1, <2>3 DEF ReadDescriptor, dirVars
  <1>24. CASE Existing(p)
    <2>1. job[p].op # "Delete"
      BY <1>24, CallOK DEF Existing, Labels, Protecting, Path
    <2> QED
      BY <1>24, <2>1 DEF Existing
  <1>25. CASE AclWrite(p)
    <2>1. job[p].op # "Delete"
      BY <1>25, CallOK DEF AclWrite, Labels, Protecting, Path
    <2> QED
      BY <1>25, <2>1 DEF AclWrite
  <1> QED
    BY <1>1, <1>8, <1>9, <1>10, <1>11, <1>12, <1>13, <1>14, <1>15, <1>16, <1>17, <1>18, <1>19, <1>20,
       <1>21, <1>22, <1>23, <1>24, <1>25 DEF Step

LEMMA GoneNext == GoneInv /\ [OUNext]_ouVars => GoneInv'
  <1> SUFFICES ASSUME GoneInv, [OUNext]_ouVars PROVE GoneInv'
    OBVIOUS
  <1>1. TypeInv /\ TypeInv' /\ Buried
    BY TypeNext, BuriedStep DEF GoneInv
  <1>2. \A g \in Guids : obj'[g].at \in DNs => g \in born'
    BY <1>1, OUAssumption DEF GoneInv, Known, Buried, TypeInv, OUTypeOK, Objects
  <1>3. ASSUME NEW q \in Procs, cur'[q] = cur[q], res'[q] = res[q], job'[q] = job[q]
        PROVE  /\ cur'[q] # Nil => cur'[q].guid \in born'
               /\ res'[q] = "nil" /\ job'[q].op = "Delete" /\ cur'[q] # Nil => obj'[cur'[q].guid].at = Nil
    <2>1. cur[q] # Nil => cur[q].guid \in born /\ cur[q].guid \in Guids
      BY <1>1 DEF GoneInv, Known, TypeInv, OUTypeOK
    <2> QED
      BY <1>1, <1>3, <2>1 DEF GoneInv, Buried, DeleteNilMeansGone
  <1>4. ASSUME NEW p \in Procs, Step(p) \/ \E j \in load.jobs : Begin(p, j), NEW q \in Procs
        PROVE  /\ cur'[q] # Nil => cur'[q].guid \in born'
               /\ res'[q] = "nil" /\ job'[q].op = "Delete" /\ cur'[q] # Nil => obj'[cur'[q].guid].at = Nil
    <2>1. CASE q # p
      BY <1>1, <1>3, <1>4, <2>1, OthersStay
    <2>2. CASE q = p
      BY <1>1, <1>4, <2>2, ModelStep DEF GoneInv, Known, Buried
    <2> QED
      BY <2>1, <2>2
  <1>5. CASE UNCHANGED <<cur, res, job>>
    BY <1>1, <1>2, <1>3, <1>5 DEF GoneInv, Known, DeleteNilMeansGone
  <1>6. CASE \E p \in Procs : Step(p) \/ \E j \in load.jobs : Begin(p, j)
    BY <1>1, <1>2, <1>4, <1>6 DEF GoneInv, Known, DeleteNilMeansGone
  <1> QED
    BY <1>5, <1>6 DEF OUNext, ouVars, Child, AdminDelete

LEMMA GoneInit == OUInit => GoneInv
  <1> SUFFICES ASSUME OUInit PROVE GoneInv
    OBVIOUS
  <1>1. \A g \in Guids : obj[g].at \in DNs => g \in born
    BY StartObjects, OUAssumption
  <1> QED
    BY <1>1, TypeInit DEF GoneInv, Known, DeleteNilMeansGone, OUInit

\* Delete answers nil only when the very object it found is gone, whatever other calls and
\* other clients do to the OU or to its name in the meantime, and however callers name it
\* (ou.go 270-342); a GUID, once deleted, never lives again.
THEOREM DeletedIsGone == OUSpec => []DeleteNilMeansGone
  <1>1. GoneInv => DeleteNilMeansGone
    BY DEF GoneInv
  <1> QED
    BY <1>1, GoneInit, GoneNext, PTL DEF OUSpec
-----------------------------------------------------------------------------
(* Under one key, calls own their objects *)

\* Every call but Create names an OU that was there from the start, by its GUID, and
\* nobody outside the client deletes OUs.
Serialised ==
    /\ \A j \in load.jobs : j.op # "Create" =>
         j.id.form = "guid" /\ \A f \in load.start : j.id.arg \in DOMAIN f
    /\ "delete" \notin load.admin

\* The points where a call has an object of its own.
Bound(c) == Goal(c) \in {"describe", "move", "reread", "restored", "probe", "delete", "confirm",
                         "existing", "aclWrite", "created", "replicate"}

\* Where the object of a call is.
Place(c, j, m) == IF Goal(c) = "confirm" THEN Nil
                  ELSE IF Goal(c) \in {"created", "reread", "restored", "replicate"} THEN j.dn
                  ELSE m.at

\* The protection a call is to end with, and what it calls setProtection for.
Wish(j, m) == IF j.prot = Nil THEN m.prot ELSE j.prot
Asked(c, j, m) == IF Goal(c) = "created" THEN TRUE
                  ELSE IF Goal(c) = "restored" THEN Wish(j, m) ELSE FALSE

\* What a call may have changed of its object o by now.
Own(j, m, o) ==
    /\ o.desc # m.desc => j.op = "Update" /\ o.desc = j.desc
    /\ o.prot # m.prot => \/ j.op = "Delete" /\ j.prot = TRUE /\ ~o.prot
                          \/ j.op = "Update" /\ (o.prot = Wish(j, m) \/ j.dn # m.at)
                          \/ j.op = "Create" /\ j.prot = TRUE
                          \/ ~o.readable

\* What the descriptor s a call holds has to do with the object's.
Copied(c, j, s, o) ==
    /\ c.at = "sdWrite" => s.aces = o.aces
    /\ c.at = "existing" => s.aces = o.aces /\ s.prot = o.prot
    /\ c.at = "aclWrite" => /\ s.prot = o.prot
                            /\ s.aces = IF j.op = "Grant" THEN o.aces \union j.aces ELSE o.aces

\* How far a call has got with its object.
Local(c, j, m, s, o) ==
    /\ o.at = Place(c, j, m)
    /\ Own(j, m, o)
    /\ Copied(c, j, s, o)
    /\ c.at \in Protecting => c.dn = o.at /\ c.want = Asked(c, j, m)
    /\ Goal(c) = "move" => j.dn # m.at
    /\ Goal(c) = "probe" /\ c.at \in Protecting => j.prot = TRUE
    /\ Goal(c) = "created" /\ c.at \in Protecting => j.prot = TRUE
    /\ j.op = "Create" => m.at = j.dn
    /\ c.at \in {"created", "replicate"} /\ j.op = "Create" /\ Wish(j, m) => o.prot
    /\ c.at \in {"restored", "replicate"} /\ j.op = "Update" /\ (o.readable \/ Wish(j, m)) =>
         o.prot = Wish(j, m)
    /\ Goal(c) \in {"move", "reread", "restored", "replicate"} /\ j.op = "Update" =>
         j.desc \in {Nil, o.desc}

\* The lock and the object go together.
Holds(c, j, m, p) ==
    /\ Goal(c) # "idle" => j \in load.jobs
    /\ Goal(c) \notin {"idle", "lock"} /\ j.op # "Create" => holder[j.id] = p
    /\ Bound(c) => IF j.op = "Create" THEN \A i \in load.jobs : i.op # "Create" => i.id.arg # m.guid
                                      ELSE j.id.arg = m.guid

SerialInv ==
    /\ TypeInv /\ Known /\ Serialised
    /\ \A g, h \in Guids : obj[g].at = obj[h].at /\ obj[g].at # Nil => g = h
    /\ \A j \in load.jobs : j.op # "Create" => j.id.arg \in born
    /\ \A p \in Procs : Holds(pc[p], job[p], cur[p], p)
    /\ \A p \in Procs : Bound(pc[p]) => Local(pc[p], job[p], cur[p], sd[p], obj[cur[p].guid])
    /\ \A p, q \in Procs : Bound(pc[p]) /\ Bound(pc[q]) /\ cur[p].guid = cur[q].guid => p = q
    /\ \A x \in owed : x[1] \in born
    /\ GrantsSurvive

\* A step of p keeps the invariant when it leaves other calls' objects alone, and p has
\* kept the lock and knows its object when it goes on.
LEMMA SerialStep ==
  ASSUME SerialInv, TypeInv', Known', UNCHANGED <<job, load>>, NEW p \in Procs, Step(p),
         born \subseteq born',
         \A q \in Procs \ {p} : Bound(pc[q]) => obj'[cur[q].guid] = obj[cur[q].guid],
         \A g, h \in Guids : obj'[g].at = obj'[h].at /\ obj'[g].at # Nil => g = h,
         Holds(pc[p], job[p], cur[p], p)',
         Bound(pc'[p]) =>
           /\ Local(pc'[p], job[p], cur'[p], sd'[p], obj'[cur'[p].guid])
           /\ \A q \in Procs \ {p} : Bound(pc[q]) => cur[q].guid # cur'[p].guid,
         \A x \in owed' : x[1] \in born',
         GrantsSurvive'
  PROVE  SerialInv'
  <1>1. TypeInv /\ pc[p] = pc[p]
    BY DEF SerialInv
  <1>2. \A q \in Procs \ {p} : /\ pc'[q] = pc[q] /\ cur'[q] = cur[q] /\ sd'[q] = sd[q]
                              /\ \A k \in Identities : holder[k] = q => holder'[k] = q
    BY <1>1, OthersStay
  <1>3. ASSUME NEW q \in Procs PROVE Holds(pc[q], job[q], cur[q], q)'
    <2>1. CASE q = p
      BY <2>1
    <2>2. CASE q # p
      <3>1. Holds(pc[q], job[q], cur[q], q)
        BY DEF SerialInv
      <3>2. Goal(pc[q]) # "idle" => job[q].id \in Identities
        <4>1. Goal(pc[q]) # "idle" => job[q] \in Jobs
          BY DEF SerialInv, TypeInv, Path
        <4> QED
          BY <4>1, OUAssumption DEF Calls
      <3> QED
        BY <1>2, <2>2, <3>1, <3>2 DEF Holds
    <2> QED
      BY <2>1, <2>2
  <1>4. \A q \in Procs : Bound(pc'[q]) => Local(pc'[q], job'[q], cur'[q], sd'[q], obj'[cur'[q].guid])
    BY <1>2 DEF SerialInv
  <1>5. \A q, r \in Procs : Bound(pc'[q]) /\ Bound(pc'[r]) /\ cur'[q].guid = cur'[r].guid => q = r
    BY <1>2 DEF SerialInv
  <1>6. Serialised' /\ \A j \in load'.jobs : j.op # "Create" => j.id.arg \in born'
    BY DEF SerialInv, Serialised
  <1> QED
    BY <1>3, <1>4, <1>5, <1>6 DEF SerialInv

\* The object of a call is the only one where it is.
LEMMA AtOwn ==
  ASSUME SerialInv, NEW p \in Procs, Bound(pc[p]), NEW dn \in DNs, obj[cur[p].guid].at = dn
  PROVE  At(dn) = {cur[p].guid}
  <1>1. cur[p].guid \in Guids
    BY DEF SerialInv, TypeInv, Path, Bound, Models
  <1> QED
    BY <1>1, OUAssumption DEF SerialInv, At

\* A step of a call on its own object, which becomes o.
Goes(p, o) ==
    \/ \E r : Return(p, r)
    \/ \E c : Continue(p, c) /\ Bound(c) /\ Local(c, job[p], cur[p], sd'[p], o)

LEMMA OwnStep ==
  ASSUME SerialInv, TypeInv', Known', UNCHANGED <<job, load, cur, born>>, NEW p \in Procs, Step(p),
         Bound(pc[p]), NEW o \in Objects, obj' = [obj EXCEPT ![cur[p].guid] = o],
         o.at \in {obj[cur[p].guid].at, Nil} \/ \A h \in Guids : obj[h].at # o.at,
         Goes(p, o),
         \A x \in owed' : \/ x \in owed /\ x[1] # cur[p].guid
                          \/ x[1] = cur[p].guid /\ (o.at \in DNs => x[2] \in o.aces)
  PROVE  SerialInv'
  <1> DEFINE g == cur[p].guid
  <1>1. g \in Guids /\ g \in born
    <2>1. cur[p] \in Models
      BY DEF SerialInv, TypeInv, Path, Bound
    <2>2. cur[p] # Nil
      BY <2>1, OUAssumption
    <2> QED
      BY <2>1, <2>2 DEF SerialInv, Known, Models
  <1>2. obj \in [Guids -> Objects] /\ owed \subseteq Guids \X Aces
    BY DEF SerialInv, TypeInv, OUTypeOK
  <1>3. obj'[g] = o /\ \A h \in Guids \ {g} : obj'[h] = obj[h]
    BY <1>1, <1>2
  <1>4. ASSUME NEW q \in Procs \ {p}, Bound(pc[q]) PROVE cur[q].guid \in Guids \ {g}
    BY <1>4 DEF SerialInv, TypeInv, Path, Bound, Models
  <1>5. \A h, i \in Guids : obj'[h].at = obj'[i].at /\ obj'[h].at # Nil => h = i
    BY <1>1, <1>3 DEF SerialInv
  <1>6. GrantsSurvive' /\ \A x \in owed' : x[1] \in born'
    <2>1. ASSUME NEW x \in owed' PROVE x[1] \in born' /\ (obj'[x[1]].at \in DNs => x[2] \in obj'[x[1]].aces)
      <3>1. CASE x \in owed /\ x[1] # g
        <4>1. x[1] \in Guids
          BY <1>2, <3>1
        <4> QED
          BY <1>3, <3>1, <4>1 DEF SerialInv, GrantsSurvive
      <3>2. CASE x[1] = g /\ (o.at \in DNs => x[2] \in o.aces)
        BY <1>1, <1>3, <3>2
      <3> QED
        BY <2>1, <3>1, <3>2
    <2> QED
      BY <2>1 DEF GrantsSurvive
  <1>7. Holds(pc[p], job[p], cur[p], p)'
    <2>1. CASE \E r : Return(p, r)
      <3>1. Goal(Label("idle")) = "idle" /\ pc'[p] = Label("idle")
        BY <2>1, LabelPC DEF Labels, Protecting, Return, SerialInv, TypeInv
      <3> QED
        BY <3>1 DEF Holds, Bound
    <2>2. CASE \E c : Continue(p, c) /\ Bound(c)
      <3>1. holder' = holder /\ Bound(pc'[p])
        BY <2>2 DEF Continue, SerialInv, TypeInv
      <3> QED
        BY <3>1 DEF Holds, Bound, SerialInv
    <2> QED
      BY <2>1, <2>2 DEF Goes
  <1>8. Bound(pc'[p]) => Local(pc'[p], job[p], cur[p], sd'[p], o)
    <2>1. CASE \E r : Return(p, r)
      BY <2>1, LabelPC DEF Labels, Protecting, Return, SerialInv, TypeInv, Bound
    <2>2. CASE \E c : Continue(p, c) /\ Bound(c) /\ Local(c, job[p], cur[p], sd'[p], o)
      BY <2>2 DEF Continue, SerialInv, TypeInv
    <2> QED
      BY <2>1, <2>2 DEF Goes
  <1> HIDE DEF g
  <1>9. cur' = cur /\ g = cur[p].guid
    BY DEF g
  <1> QED
    BY <1>3, <1>4, <1>5, <1>6, <1>7, <1>8, <1>9, SerialStep

\* What is known of a call that has its object.
LEMMA Mine ==
  ASSUME SerialInv, NEW p \in Procs, Bound(pc[p])
  PROVE  /\ cur[p] \in Models /\ cur[p].guid \in Guids /\ cur[p].at \in DNs
         /\ job[p] \in Calls /\ job[p].dn \in DNs
         /\ obj[cur[p].guid] \in Objects /\ obj \in [Guids -> Objects]
         /\ sd[p] \in [prot : BOOLEAN, aces : SUBSET Aces]
         /\ Path(pc[p], job[p], cur[p], res[p])
         /\ Local(pc[p], job[p], cur[p], sd[p], obj[cur[p].guid])
  <1>1. /\ Path(pc[p], job[p], cur[p], res[p])
        /\ Local(pc[p], job[p], cur[p], sd[p], obj[cur[p].guid])
        /\ obj \in [Guids -> Objects] /\ sd[p] \in [prot : BOOLEAN, aces : SUBSET Aces]
    BY DEF SerialInv, TypeInv, OUTypeOK
  <1>2. cur[p] \in Models /\ job[p] \in Jobs
    BY <1>1 DEF Bound, Path
  <1>3. cur[p].guid \in Guids /\ cur[p].at \in DNs
    BY <1>2 DEF Models
  <1>4. job[p] \in Calls /\ job[p].dn \in DNs
    BY <1>2, OUAssumption DEF Calls
  <1> QED
    BY <1>1, <1>2, <1>3, <1>4

LEMMA OwnRead ==
  ASSUME SerialInv, TypeInv', Known', UNCHANGED <<load, job, cur, owed, obj, born>>,
         NEW p \in Procs, Step(p), Bound(pc[p]), Goes(p, obj[cur[p].guid])
  PROVE  SerialInv'
  <1> DEFINE o == obj[cur[p].guid]
  <1>1. o \in Objects /\ obj' = [obj EXCEPT ![cur[p].guid] = o]
    BY Mine
  <1>2. \A x \in owed' : \/ x \in owed /\ x[1] # cur[p].guid
                         \/ x[1] = cur[p].guid /\ (o.at \in DNs => x[2] \in o.aces)
    <2>1. owed' = owed
      OBVIOUS
    <2>2. \A x \in owed : x[1] = cur[p].guid => (o.at \in DNs => x[2] \in o.aces)
      BY DEF SerialInv, GrantsSurvive
    <2> QED
      BY <2>1, <2>2
  <1>3. Goes(p, o)
    OBVIOUS
  <1>4. o.at \in {obj[cur[p].guid].at, Nil}
    OBVIOUS
  <1> HIDE DEF o
  <1> QED
    BY <1>1, <1>2, <1>3, <1>4, OwnStep

LEMMA OwnWrite ==
  ASSUME SerialInv, TypeInv', Known', UNCHANGED <<load, job, cur, sd, owed>>,
         NEW p \in Procs, Step(p), Bound(pc[p]),
         NEW refusal, NEW new, NEW c, WriteReq(p, refusal, new, c), NEW o \in Objects,
         refusal = "nil" =>
           /\ new = [obj EXCEPT ![cur[p].guid] = o]
           /\ o.at \in {obj[cur[p].guid].at, Nil} \/ \A h \in Guids : obj[h].at # o.at
           /\ o.aces = obj[cur[p].guid].aces
           /\ Bound(c) /\ Local(c, job[p], cur[p], sd[p], o),
         obj[cur[p].guid].at \in DNs
  PROVE  SerialInv'
  <1>1. CASE UNCHANGED obj /\ \E r : Return(p, r)
    BY <1>1, OwnRead DEF Goes, WriteReq
  <1>2. CASE /\ refusal = "nil" /\ obj' = new
             /\ Continue(p, c) \/ Return(p, "Transport")
    <2>1. Goes(p, o)
      BY <1>2 DEF Goes
    <2>2. \A x \in owed' : \/ x \in owed /\ x[1] # cur[p].guid
                           \/ x[1] = cur[p].guid /\ (o.at \in DNs => x[2] \in o.aces)
      <3>1. owed' = owed
        OBVIOUS
      <3>2. \A x \in owed : x[1] = cur[p].guid => (o.at \in DNs => x[2] \in o.aces)
        BY <1>2 DEF SerialInv, GrantsSurvive
      <3> QED
        BY <3>1, <3>2
    <2>3. born' = born /\ obj' = [obj EXCEPT ![cur[p].guid] = o]
      BY <1>2 DEF WriteReq
    <2>4. o.at \in {obj[cur[p].guid].at, Nil} \/ \A h \in Guids : obj[h].at # o.at
      BY <1>2
    <2> QED
      BY <2>1, <2>2, <2>3, <2>4, OwnStep
  <1> QED
    BY <1>1, <1>2 DEF WriteReq, Fails
-----------------------------------------------------------------------------
LEMMA SdReadOwn ==
  ASSUME SerialInv, TypeInv', Known', UNCHANGED load, NEW p \in Procs, Step(p), sdRead(p)
  PROVE  SerialInv'
  <1> DEFINE g == cur[p].guid
             c == [pc[p] EXCEPT !.at = "sdWrite"]
             l == Label(pc[p].next)
  <1>1. /\ pc[p].at = "sdRead" /\ pc[p].dn \in DNs /\ Goal(pc[p]) = pc[p].next /\ pc[p].next \in Nexts
        /\ Goal(l) = pc[p].next /\ Goal(c) = pc[p].next
    BY ProtectingPC DEF sdRead, Protecting, SerialInv
  <1>2. Bound(pc[p]) /\ Bound(l) /\ Bound(c)
    BY <1>1 DEF Bound, Nexts
  <1>3. /\ Local(pc[p], job[p], cur[p], sd[p], obj[g]) /\ obj[g] \in Objects
        /\ Path(pc[p], job[p], cur[p], res[p])
    BY <1>2, Mine
  <1>4. pc[p].dn = obj[g].at /\ At(pc[p].dn) = {g} /\ pc[p].want = Asked(pc[p], job[p], cur[p])
    BY <1>1, <1>2, <1>3, AtOwn DEF Local, Protecting
  <1>5. ASSUME sd' = [sd EXCEPT ![p] = [prot |-> obj[g].prot, aces |-> obj[g].aces]],
               IF obj[g].prot = pc[p].want THEN Continue(p, l) ELSE Continue(p, c)
        PROVE  Goes(p, obj[g])
    <2>1. sd'[p] = [prot |-> obj[g].prot, aces |-> obj[g].aces]
      BY <1>5 DEF SerialInv, TypeInv, OUTypeOK
    <2>2. l.at = pc[p].next
      BY DEF Label
    <2>3. pc[p] \in [at : Protecting, dn : DNs, want : BOOLEAN, next : Nexts]
      BY <1>1 DEF SerialInv, TypeInv, PCs, Protecting
    <2>4. c.at = "sdWrite" /\ c.dn = pc[p].dn /\ c.want = pc[p].want
      BY <2>3
    <2> HIDE DEF l, c, g
    <2>5. ASSUME obj[g].prot = pc[p].want PROVE Local(l, job[p], cur[p], sd'[p], obj[g])
      BY <1>1, <1>3, <1>4, <2>2, <2>5
         DEF Local, Place, Asked, Own, Copied, Wish, Protecting, Nexts, Path
    <2>6. Local(c, job[p], cur[p], sd'[p], obj[g])
      BY <1>1, <1>3, <1>4, <2>1, <2>4
         DEF Local, Place, Asked, Own, Copied, Wish, Protecting, Nexts, Path
    <2> QED
      BY <1>2, <1>5, <2>5, <2>6 DEF Goes, g
  <1>6. Goes(p, obj[g])
    BY <1>4, <1>5 DEF sdRead, Fails, Goes
  <1> QED
    BY <1>2, <1>6, OwnRead DEF sdRead, dirVars

\* An edit of what is at dn edits the call's object alone.
LEMMA EditOwn ==
  ASSUME SerialInv, NEW p \in Procs, Bound(pc[p]), NEW dn \in DNs, obj[cur[p].guid].at = dn
  PROVE  \A h \in Guids : obj[h].at = dn <=> h = cur[p].guid
  BY AtOwn DEF At

LEMMA SdWriteOwn ==
  ASSUME SerialInv, TypeInv', Known', UNCHANGED load, NEW p \in Procs, Step(p), sdWrite(p)
  PROVE  SerialInv'
  <1> DEFINE g == cur[p].guid
             o == [obj[g] EXCEPT !.prot = pc[p].want, !.aces = sd[p].aces]
             new == Edit(pc[p].dn, LAMBDA x : [x EXCEPT !.prot = pc[p].want, !.aces = sd[p].aces])
             l == Label(pc[p].next)
  <1>1. /\ pc[p].at = "sdWrite" /\ pc[p].dn \in DNs /\ pc[p].want \in BOOLEAN
        /\ Goal(pc[p]) = pc[p].next /\ pc[p].next \in Nexts /\ Goal(l) = pc[p].next /\ l.at = pc[p].next
    BY ProtectingPC DEF sdWrite, Protecting, SerialInv, Label
  <1>2. Bound(pc[p]) /\ Bound(l)
    BY <1>1 DEF Bound, Nexts
  <1>3. /\ Local(pc[p], job[p], cur[p], sd[p], obj[g]) /\ obj[g] \in Objects /\ g \in Guids
        /\ obj \in [Guids -> Objects] /\ sd[p].aces \in SUBSET Aces
        /\ Path(pc[p], job[p], cur[p], res[p])
    BY <1>2, Mine
  <1>4. /\ pc[p].dn = obj[g].at /\ sd[p].aces = obj[g].aces
        /\ pc[p].want = Asked(pc[p], job[p], cur[p])
    BY <1>1, <1>3 DEF Local, Copied, Protecting
  <1>5. /\ o \in Objects /\ o.at = obj[g].at /\ o.desc = obj[g].desc
        /\ o.prot = pc[p].want /\ o.aces = sd[p].aces /\ o.readable = obj[g].readable
    BY <1>1, <1>3 DEF Objects
  <1>6. new = [obj EXCEPT ![g] = o]
    <2>1. \A h \in Guids : obj[h].at = pc[p].dn <=> h = g
      BY <1>1, <1>2, <1>4, EditOwn
    <2>2. \A h \in Guids : new[h] = IF h = g THEN o ELSE obj[h]
      BY <2>1 DEF Edit
    <2>3. new = [h \in Guids |-> new[h]]
      BY DEF Edit
    <2> HIDE DEF new, o
    <2> QED
      BY <2>2, <2>3, <1>3
  <1>7. WriteReq(p, Missing(pc[p].dn), new, l) /\ UNCHANGED <<job, cur, sd, owed>>
    BY DEF sdWrite
  <1> HIDE DEF o, l, new, g
  <1>8. Local(l, job[p], cur[p], sd[p], o)
    BY <1>1, <1>3, <1>4, <1>5 DEF Local, Place, Asked, Own, Copied, Wish, Protecting, Nexts, Path
  <1>9. o.aces = obj[g].aces /\ obj[g].at \in DNs
    BY <1>1, <1>4, <1>5
  <1> QED
    BY <1>2, <1>5, <1>6, <1>7, <1>8, <1>9, OwnWrite DEF g

LEMMA DescribeOwn ==
  ASSUME SerialInv, TypeInv', Known', UNCHANGED load, NEW p \in Procs, Step(p), Describe(p)
  PROVE  SerialInv'
  <1> DEFINE g == cur[p].guid
             o == [obj[g] EXCEPT !.desc = job[p].desc]
             new == Edit(cur[p].at, LAMBDA x : [x EXCEPT !.desc = job[p].desc])
             c == MoveOrNot(p, cur[p])
  <1>1. pc[p].at = "describe" /\ Goal(pc[p]) = "describe" /\ Bound(pc[p])
    BY DEF Describe, Goal, Protecting, Bound
  <1>2. /\ Local(pc[p], job[p], cur[p], sd[p], obj[g]) /\ obj[g] \in Objects /\ g \in Guids
        /\ obj \in [Guids -> Objects] /\ cur[p] \in Models /\ cur[p].at \in DNs
        /\ Path(pc[p], job[p], cur[p], res[p])
    BY <1>1, Mine
  <1>3. obj[g].at = cur[p].at /\ job[p].desc \in Descs /\ job[p].op = "Update"
    BY <1>1, <1>2 DEF Local, Place, Path
  <1>4. /\ o \in Objects /\ o.at = obj[g].at /\ o.desc = job[p].desc
        /\ o.prot = obj[g].prot /\ o.aces = obj[g].aces /\ o.readable = obj[g].readable
    BY <1>2, <1>3 DEF Objects
  <1>5. new = [obj EXCEPT ![g] = o]
    <2>1. \A h \in Guids : obj[h].at = cur[p].at <=> h = g
      BY <1>1, <1>2, <1>3, EditOwn
    <2>2. \A h \in Guids : new[h] = IF h = g THEN o ELSE obj[h]
      BY <2>1 DEF Edit
    <2>3. new = [h \in Guids |-> new[h]]
      BY DEF Edit
    <2> HIDE DEF new, o
    <2> QED
      BY <2>2, <2>3, <1>2
  <1>6. WriteReq(p, Missing(cur[p].at), new, c) /\ UNCHANGED <<job, cur, sd, owed>>
    BY DEF Describe
  <1>7. Bound(c) /\ Local(c, job[p], cur[p], sd[p], o)
    <2> HIDE DEF o, new, g
    <2>1. CASE job[p].dn = cur[p].at
      <3>1. c.at = "reread" /\ Goal(c) = "reread"
        BY <2>1, LabelPC DEF MoveOrNot, Moving, Labels, Protecting
      <3> HIDE DEF c
      <3> QED
        BY <1>1, <1>2, <1>3, <1>4, <2>1, <3>1 DEF Local, Place, Own, Copied, Wish, Protecting, Bound
    <2>2. CASE job[p].dn # cur[p].at /\ ~cur[p].prot
      <3>1. c.at = "move" /\ Goal(c) = "move"
        BY <2>2, LabelPC DEF MoveOrNot, Moving, Labels, Protecting
      <3> HIDE DEF c
      <3> QED
        BY <1>1, <1>2, <1>3, <1>4, <2>2, <3>1 DEF Local, Place, Own, Copied, Wish, Protecting, Bound
    <2>3. CASE job[p].dn # cur[p].at /\ cur[p].prot
      <3>1. c.at = "sdRead" /\ Goal(c) = "move" /\ c.dn = cur[p].at /\ c.want = FALSE
        BY <1>2, <2>3 DEF MoveOrNot, Moving, setProtection, Goal, Protecting
      <3> HIDE DEF c
      <3> QED
        BY <1>1, <1>2, <1>3, <1>4, <2>3, <3>1 DEF Local, Place, Own, Copied, Wish, Asked, Protecting, Bound
    <2> QED
      BY <2>1, <2>2, <2>3
  <1>8. obj[g].at \in DNs
    BY <1>2, <1>3
  <1> HIDE DEF o, c, new, g
  <1> QED
    BY <1>1, <1>4, <1>5, <1>6, <1>7, <1>8, OwnWrite DEF g

LEMMA MoveOwn ==
  ASSUME SerialInv, TypeInv', Known', UNCHANGED load, NEW p \in Procs, Step(p), Move(p)
  PROVE  SerialInv'
  <1> DEFINE g == cur[p].guid
             o == [obj[g] EXCEPT !.at = job[p].dn]
             new == Edit(cur[p].at, LAMBDA x : [x EXCEPT !.at = job[p].dn])
             l == Label("reread")
             refusal == IF At(cur[p].at) = {} THEN "NotFound"
                        ELSE IF At(job[p].dn) # {} THEN "AlreadyExists"
                        ELSE IF \E h \in At(cur[p].at) : obj[h].prot THEN "Denied"
                        ELSE "nil"
  <1>1. pc[p].at = "move" /\ Goal(pc[p]) = "move" /\ Bound(pc[p])
    BY DEF Move, Goal, Protecting, Bound
  <1>2. /\ Local(pc[p], job[p], cur[p], sd[p], obj[g]) /\ obj[g] \in Objects /\ g \in Guids
        /\ obj \in [Guids -> Objects] /\ cur[p] \in Models /\ cur[p].at \in DNs
        /\ job[p].dn \in DNs /\ Path(pc[p], job[p], cur[p], res[p])
    BY <1>1, Mine
  <1>3. obj[g].at = cur[p].at /\ job[p].op = "Update"
    BY <1>1, <1>2 DEF Local, Place, Path
  <1>4. /\ o \in Objects /\ o.at = job[p].dn /\ o.desc = obj[g].desc
        /\ o.prot = obj[g].prot /\ o.aces = obj[g].aces /\ o.readable = obj[g].readable
    BY <1>2, <1>3 DEF Objects
  <1>5. new = [obj EXCEPT ![g] = o]
    <2>1. \A h \in Guids : obj[h].at = cur[p].at <=> h = g
      BY <1>1, <1>2, <1>3, EditOwn
    <2>2. \A h \in Guids : new[h] = IF h = g THEN o ELSE obj[h]
      BY <2>1 DEF Edit
    <2>3. new = [h \in Guids |-> new[h]]
      BY DEF Edit
    <2> HIDE DEF new, o
    <2> QED
      BY <2>2, <2>3, <1>2
  <1>6. WriteReq(p, refusal, new, l) /\ UNCHANGED <<job, cur, sd, owed>>
    BY DEF Move
  <1>7. refusal = "nil" => \A h \in Guids : obj[h].at # o.at
    BY <1>4 DEF At
  <1>8. l.at = "reread" /\ Goal(l) = "reread" /\ Bound(l)
    BY LabelPC DEF Labels, Protecting, Bound
  <1> HIDE DEF o, l, new, g, refusal
  <1>9. Local(l, job[p], cur[p], sd[p], o)
    BY <1>1, <1>2, <1>3, <1>4, <1>8 DEF Local, Place, Own, Copied, Wish, Protecting
  <1>10. obj[g].at \in DNs
    BY <1>2, <1>3
  <1>11. refusal = "nil" =>
           /\ new = [obj EXCEPT ![g] = o]
           /\ o.at \in {obj[g].at, Nil} \/ \A h \in Guids : obj[h].at # o.at
           /\ o.aces = obj[g].aces /\ Bound(l) /\ Local(l, job[p], cur[p], sd[p], o)
    BY <1>4, <1>5, <1>7, <1>8, <1>9
  <1> QED
    BY <1>1, <1>4, <1>6, <1>10, <1>11, OwnWrite DEF g

LEMMA DeleteReqOwn ==
  ASSUME SerialInv, TypeInv', Known', UNCHANGED load, NEW p \in Procs, Step(p), DeleteReq(p)
  PROVE  SerialInv'
  <1> DEFINE g == cur[p].guid
             o == Deleted(obj[g])
             new == Edit(cur[p].at, Deleted)
             l == Label("confirm")
             refusal == IF At(cur[p].at) = {} THEN "NotFound"
                        ELSE IF At(cur[p].at) \intersect kids # {} THEN "Constraint"
                        ELSE IF \E h \in At(cur[p].at) : obj[h].prot THEN "Denied"
                        ELSE "nil"
  <1>1. pc[p].at = "delete" /\ Goal(pc[p]) = "delete" /\ Bound(pc[p])
    BY DEF DeleteReq, Goal, Protecting, Bound
  <1>2. /\ Local(pc[p], job[p], cur[p], sd[p], obj[g]) /\ obj[g] \in Objects /\ g \in Guids
        /\ obj \in [Guids -> Objects] /\ cur[p] \in Models /\ cur[p].at \in DNs
        /\ Path(pc[p], job[p], cur[p], res[p])
    BY <1>1, Mine
  <1>3. obj[g].at = cur[p].at /\ job[p].op = "Delete"
    BY <1>1, <1>2 DEF Local, Place, Path
  <1>4. /\ o \in Objects /\ o.at = Nil /\ o.desc = obj[g].desc
        /\ o.prot = obj[g].prot /\ o.aces = obj[g].aces /\ o.readable = obj[g].readable
    BY <1>2, <1>3 DEF Objects, Deleted
  <1>5. new = [obj EXCEPT ![g] = o]
    <2>1. \A h \in Guids : obj[h].at = cur[p].at <=> h = g
      BY <1>1, <1>2, <1>3, EditOwn
    <2>2. \A h \in Guids : new[h] = IF h = g THEN o ELSE obj[h]
      BY <2>1 DEF Edit
    <2>3. new = [h \in Guids |-> new[h]]
      BY DEF Edit
    <2> HIDE DEF new, o
    <2> QED
      BY <2>2, <2>3, <1>2
  <1>6. WriteReq(p, refusal, new, l) /\ UNCHANGED <<job, cur, sd, owed>>
    BY DEF DeleteReq
  <1>7. l.at = "confirm" /\ Goal(l) = "confirm" /\ Bound(l)
    BY LabelPC DEF Labels, Protecting, Bound
  <1> HIDE DEF o, l, new, g, refusal
  <1>8. Local(l, job[p], cur[p], sd[p], o)
    BY <1>1, <1>2, <1>3, <1>4, <1>7 DEF Local, Place, Own, Copied, Wish, Protecting
  <1>9. obj[g].at \in DNs
    BY <1>2, <1>3
  <1> QED
    BY <1>1, <1>4, <1>5, <1>6, <1>7, <1>8, <1>9, OwnWrite DEF g

LEMMA ReadsOwn ==
  ASSUME SerialInv, TypeInv', Known', UNCHANGED load, NEW p \in Procs, Step(p),
         Replicate(p) \/ Created(p) \/ Restored(p) \/ Probe(p) \/ Confirm(p)
  PROVE  SerialInv'
  <1> DEFINE o == obj[cur[p].guid]
  <1>1. /\ Goal(pc[p]) = pc[p].at /\ Bound(pc[p])
        /\ pc[p].at \in {"replicate", "created", "restored", "probe", "confirm"}
    BY DEF Replicate, Created, Restored, Probe, Confirm, Goal, Protecting, Bound
  <1>2. Local(pc[p], job[p], cur[p], sd[p], o) /\ Path(pc[p], job[p], cur[p], res[p])
    BY <1>1, Mine
  <1>3. ASSUME NEW l \in {"replicate", "delete"},
               l = "replicate" => pc[p].at \in {"created", "restored"},
               l = "delete" => pc[p].at = "probe"
        PROVE  Bound(Label(l)) /\ Local(Label(l), job[p], cur[p], sd[p], o)
    <2> DEFINE c == Label(l)
    <2>1. c.at = l /\ Goal(c) = l /\ Bound(c)
      BY LabelPC DEF Labels, Protecting, Bound
    <2> HIDE DEF c, o
    <2>2. Local(c, job[p], cur[p], sd[p], o)
      BY <1>1, <1>2, <1>3, <2>1 DEF Local, Place, Own, Copied, Wish, Protecting, Path
    <2> QED
      BY <2>1, <2>2 DEF c
  <1>4. UNCHANGED <<job, cur, sd, owed, obj, born>>
    BY DEF Replicate, Created, Restored, Probe, Confirm, Read, dirVars
  <1>5. Goes(p, o)
    BY <1>3, <1>4 DEF Replicate, Created, Restored, Probe, Confirm, Read, Fails, Goes
  <1> QED
    BY <1>1, <1>4, <1>5, OwnRead

LEMMA RereadOwn ==
  ASSUME SerialInv, TypeInv', Known', UNCHANGED load, NEW p \in Procs, Step(p), Reread(p)
  PROVE  SerialInv'
  <1> DEFINE g == cur[p].guid
             o == obj[g]
             w == Want(p, cur[p])
             c == IF Model(g).prot = w THEN Label("replicate") ELSE setProtection(o.at, w, "restored")
  <1>1. pc[p].at = "reread" /\ Goal(pc[p]) = "reread" /\ Bound(pc[p])
    BY DEF Reread, Goal, Protecting, Bound
  <1>2. Local(pc[p], job[p], cur[p], sd[p], o) /\ Path(pc[p], job[p], cur[p], res[p]) /\ o \in Objects
    BY <1>1, Mine
  <1>3. UNCHANGED <<job, cur, sd, owed, obj, born>> /\ Read(p, o.at \in DNs, c)
    BY DEF Reread, Read, dirVars
  <1>4. w = Wish(job[p], cur[p]) /\ job[p].op = "Update"
    BY <1>1, <1>2 DEF Want, Wish, Path
  <1>5. Bound(c) /\ Local(c, job[p], cur[p], sd[p], o)
    <2>1. CASE Model(g).prot = w
      <3>1. c.at = "replicate" /\ Goal(c) = "replicate"
        BY <2>1, LabelPC DEF Labels, Protecting
      <3>2. Model(g).prot = (o.prot /\ o.readable)
        BY DEF Model
      <3> HIDE DEF c, o, w
      <3>3. o.readable \/ w => o.prot = w
        BY <1>2, <2>1, <3>2 DEF Objects
      <3> QED
        BY <1>1, <1>2, <1>4, <3>1, <3>3 DEF Local, Place, Own, Copied, Protecting, Bound
    <2>2. CASE Model(g).prot # w
      <3>1. c.at = "sdRead" /\ Goal(c) = "restored" /\ c.dn = o.at /\ c.want = w
        BY <2>2 DEF setProtection, Goal, Protecting
      <3> HIDE DEF c, o, w
      <3> QED
        BY <1>1, <1>2, <1>4, <2>2, <3>1 DEF Local, Place, Own, Copied, Asked, Protecting, Bound
    <2> QED
      BY <2>1, <2>2
  <1> HIDE DEF c, w
  <1>6. Goes(p, o)
    BY <1>3, <1>5 DEF Read, Fails, Goes
  <1> QED
    BY <1>1, <1>3, <1>6, OwnRead

LEMMA ExistingOwn ==
  ASSUME SerialInv, TypeInv', Known', UNCHANGED load, NEW p \in Procs, Step(p), Existing(p)
  PROVE  SerialInv'
  <1> DEFINE g == cur[p].guid
             o == obj[g]
             add == job[p].aces \ o.aces
             l == Label("aclWrite")
  <1>1. pc[p].at = "existing" /\ Goal(pc[p]) = "existing" /\ Bound(pc[p])
    BY DEF Existing, Goal, Protecting, Bound
  <1>2. /\ Local(pc[p], job[p], cur[p], sd[p], o) /\ Path(pc[p], job[p], cur[p], res[p])
        /\ o \in Objects /\ cur[p].at \in DNs /\ obj \in [Guids -> Objects] /\ g \in Guids
        /\ job[p] \in Calls
    BY <1>1, Mine
  <1>3. /\ o.at = cur[p].at /\ At(cur[p].at) = {g} /\ job[p].op = "Grant"
        /\ sd[p].aces = o.aces /\ sd[p].prot = o.prot
    BY <1>1, <1>2, AtOwn DEF Local, Place, Copied, Path
  <1>4. UNCHANGED <<job, cur, obj, born>>
    BY DEF Existing, dirVars
  <1>5. l.at = "aclWrite" /\ Goal(l) = "aclWrite" /\ Bound(l)
    BY LabelPC DEF Labels, Protecting, Bound
  <1>6. CASE owed' = owed
    <2>1. ASSUME sd' = [sd EXCEPT ![p].aces = @ \union add] PROVE Local(l, job[p], cur[p], sd'[p], o)
      <3>1. sd'[p].aces = o.aces \union job[p].aces /\ sd'[p].prot = o.prot
        BY <1>3, <2>1 DEF SerialInv, TypeInv, OUTypeOK
      <3> HIDE DEF l, o
      <3> QED
        BY <1>1, <1>2, <1>3, <1>5, <3>1 DEF Local, Place, Own, Copied, Protecting
    <2>2. Goes(p, o)
      BY <1>3, <1>5, <2>1 DEF Existing, Fails, Goes
    <2> QED
      BY <1>1, <1>4, <1>6, <2>2, OwnRead
  <1>7. CASE owed' = owed \union ({g} \X job[p].aces) /\ add = {} /\ Return(p, "nil")
    <2>1. obj' = [obj EXCEPT ![g] = o]
      BY <1>2, <1>4
    <2>2. job[p].aces \subseteq o.aces
      BY <1>7
    <2>3. \A x \in owed : x[1] = g => (o.at \in DNs => x[2] \in o.aces)
      BY DEF SerialInv, GrantsSurvive
    <2> HIDE DEF o
    <2>4. \A x \in owed' : \/ x \in owed /\ x[1] # g
                           \/ x[1] = g /\ (o.at \in DNs => x[2] \in o.aces)
      BY <1>7, <2>2, <2>3
    <2>5. Goes(p, o)
      BY <1>7 DEF Goes
    <2>6. o.at = obj[g].at
      BY DEF o
    <2> QED
      BY <1>1, <1>2, <1>4, <2>1, <2>4, <2>5, <2>6, OwnStep
  <1> QED
    BY <1>3, <1>6, <1>7 DEF Existing

LEMMA AclWriteOwn ==
  ASSUME SerialInv, TypeInv', Known', UNCHANGED load, NEW p \in Procs, Step(p), AclWrite(p)
  PROVE  SerialInv'
  <1> DEFINE g == cur[p].guid
             aces == IF job[p].op = "Grant" THEN sd[p].aces ELSE sd[p].aces \ job[p].aces
             mine == {g} \X job[p].aces
             o == [obj[g] EXCEPT !.prot = sd[p].prot, !.aces = aces]
             new == Edit(cur[p].at, LAMBDA x : [x EXCEPT !.prot = sd[p].prot, !.aces = aces])
  <1>1. pc[p].at = "aclWrite" /\ Goal(pc[p]) = "aclWrite" /\ Bound(pc[p])
    BY DEF AclWrite, Goal, Protecting, Bound
  <1>2. /\ Local(pc[p], job[p], cur[p], sd[p], obj[g]) /\ Path(pc[p], job[p], cur[p], res[p])
        /\ obj[g] \in Objects /\ cur[p].at \in DNs /\ obj \in [Guids -> Objects] /\ g \in Guids
        /\ sd[p] \in [prot : BOOLEAN, aces : SUBSET Aces]
    BY <1>1, Mine
  <1>3. /\ obj[g].at = cur[p].at /\ job[p].op \in {"Grant", "Revoke"}
        /\ sd[p].prot = obj[g].prot
        /\ sd[p].aces = IF job[p].op = "Grant" THEN obj[g].aces \union job[p].aces ELSE obj[g].aces
    BY <1>1, <1>2 DEF Local, Place, Copied, Path
  <1>4. aces \in SUBSET Aces
    BY <1>2
  <1>5. UNCHANGED <<job, cur, born>>
    BY DEF AclWrite
  <1>6. \/ UNCHANGED <<obj, owed>> /\ \E r : Return(p, r)
        \/ /\ obj' = new /\ (\E r : Return(p, r))
           /\ owed' = IF job[p].op # "Grant" THEN owed \ mine
                      ELSE IF res'[p] = "nil" THEN owed \union mine ELSE owed
    <2>1. \A r : Return(p, r) => res'[p] = r
      BY DEF Return, SerialInv, TypeInv, OUTypeOK
    <2> QED
      BY <2>1 DEF AclWrite, Fails
  <1>7. CASE UNCHANGED <<obj, owed>> /\ \E r : Return(p, r)
    BY <1>1, <1>5, <1>7, OwnRead DEF Goes
  <1>8. CASE /\ obj' = new /\ (\E r : Return(p, r))
             /\ owed' = IF job[p].op # "Grant" THEN owed \ mine
                        ELSE IF res'[p] = "nil" THEN owed \union mine ELSE owed
    <2> HIDE DEF aces
    <2>1. o \in Objects /\ o.at = obj[g].at /\ o.aces = aces
      BY <1>2, <1>4 DEF Objects
    <2>2. new = [obj EXCEPT ![g] = o]
      <3>1. \A h \in Guids : obj[h].at = cur[p].at <=> h = g
        BY <1>1, <1>2, <1>3, EditOwn
      <3>2. \A h \in Guids : new[h] = IF h = g THEN o ELSE obj[h]
        BY <3>1 DEF Edit
      <3>3. new = [h \in Guids |-> new[h]]
        BY DEF Edit
      <3> HIDE DEF new, o
      <3> QED
        BY <3>2, <3>3, <1>2
    <2> HIDE DEF o, new
    <2>3. \A x \in owed : x[1] = g => x[2] \in obj[g].aces
      BY <1>2, <1>3 DEF SerialInv, GrantsSurvive
    <2>4. ASSUME NEW x \in owed', x[1] = g PROVE x[2] \in aces
      <3>1. CASE job[p].op = "Grant"
        <4>1. aces = obj[g].aces \union job[p].aces
          BY <1>3, <3>1 DEF aces
        <4>2. x \in owed \/ x \in mine
          BY <1>8, <2>4, <3>1
        <4> QED
          BY <2>3, <2>4, <4>1, <4>2
      <3>2. CASE job[p].op = "Revoke"
        <4>1. aces = obj[g].aces \ job[p].aces
          BY <1>3, <3>2 DEF aces
        <4>2. x \in owed /\ x \notin mine
          BY <1>8, <2>4, <3>2
        <4>3. x = <<g, x[2]>>
          BY <2>4, <4>2 DEF SerialInv, TypeInv, OUTypeOK
        <4> QED
          BY <2>3, <2>4, <4>1, <4>2, <4>3
      <3> QED
        BY <1>3, <3>1, <3>2
    <2>5. \A x \in owed' : x[1] # g => x \in owed
      BY <1>8
    <2>6. \A x \in owed' : \/ x \in owed /\ x[1] # g
                           \/ x[1] = g /\ (o.at \in DNs => x[2] \in o.aces)
      BY <2>1, <2>4, <2>5
    <2>7. Goes(p, o)
      BY <1>8 DEF Goes
    <2>8. obj' = [obj EXCEPT ![g] = o]
      BY <1>8, <2>2
    <2> QED
      BY <1>1, <1>5, <2>1, <2>6, <2>7, <2>8, OwnStep
  <1> QED
    BY <1>6, <1>7, <1>8

\* The call finds its object: nobody else holds the lock, so nobody else has the object.
LEMMA AcquireOwn ==
  ASSUME SerialInv, TypeInv', Known', UNCHANGED load, NEW p \in Procs, Step(p),
         GetCurrent(p) \/ ReadDescriptor(p)
  PROVE  SerialInv'
  <1> DEFINE j == job[p]
             g == j.id.arg
  <1>1. /\ pc[p].at \in {"get", "acl"} /\ Goal(pc[p]) = pc[p].at
        /\ Path(pc[p], j, cur[p], res[p]) /\ j \in Jobs /\ j \in Calls /\ j.id \in Identities
    BY CallOK DEF GetCurrent, ReadDescriptor, Labels, Protecting, SerialInv
  <1>2. j.op # "Create" /\ holder[j.id] = p /\ j \in load.jobs /\ j.id.form = "guid"
    BY <1>1 DEF SerialInv, Serialised, Holds, Path
  <1>3. g \in Guids /\ j.id = ByGUID(g) /\ Matches(j.id) = {h \in Guids : h = g /\ obj[h].at \in DNs}
    BY <1>1, <1>2 DEF Identities, ByGUID, ByDN, Matches
  <1>4. UNCHANGED <<obj, born, job, owed>>
    BY DEF GetCurrent, ReadDescriptor, dirVars
  <1>5. ASSUME NEW q \in Procs \ {p}, Bound(pc[q]) PROVE cur[q].guid # g
    <2>1. /\ Holds(pc[q], job[q], cur[q], q) /\ Goal(pc[q]) \notin {"idle", "lock"}
          /\ job[q] \in load.jobs
      BY <1>5 DEF SerialInv, Bound, Holds
    <2>2. CASE job[q].op = "Create"
      BY <1>2, <1>5, <2>1, <2>2 DEF Holds
    <2>3. CASE job[q].op # "Create"
      <3>1. job[q].id \in Identities
        <4>1. job[q] \in Jobs
          BY <2>1 DEF SerialInv, TypeInv, Path
        <4> QED
          BY <4>1, OUAssumption DEF Calls
      <3>2. job[q].id = ByGUID(job[q].id.arg) /\ holder[job[q].id] = q /\ job[q].id.arg = cur[q].guid
        BY <1>5, <2>1, <2>3, <3>1 DEF SerialInv, Serialised, Holds, Identities, ByGUID, ByDN
      <3> QED
        BY <1>2, <1>3, <3>2
    <2> QED
      BY <2>2, <2>3
  <1>6. ASSUME \E r : Return(p, r) PROVE SerialInv'
    <2>1. pc'[p] = Label("idle") /\ Goal(Label("idle")) = "idle"
      BY <1>6, LabelPC DEF Return, SerialInv, TypeInv, Labels, Protecting
    <2>2. ~Bound(pc'[p]) /\ Holds(pc[p], job[p], cur[p], p)'
      BY <2>1 DEF Bound, Holds
    <2>3. GrantsSurvive' /\ (\A x \in owed' : x[1] \in born')
      BY <1>4 DEF SerialInv, GrantsSurvive
    <2>4. \A h, i \in Guids : obj'[h].at = obj'[i].at /\ obj'[h].at # Nil => h = i
      BY <1>4 DEF SerialInv
    <2> QED
      BY <1>4, <2>2, <2>3, <2>4, SerialStep
  <1>7. ASSUME NEW c, Continue(p, c), Bound(c), obj[g].at \in DNs,
               cur' = [cur EXCEPT ![p] = Model(g)],
               Local(c, j, Model(g), sd'[p], obj[g])
        PROVE  SerialInv'
    <2>1. /\ Model(g).guid = g /\ cur'[p] = Model(g) /\ pc'[p] = c /\ holder' = holder
      BY <1>3, <1>7, ModelOK DEF Continue, SerialInv, TypeInv, OUTypeOK
    <2>2. Local(pc'[p], job[p], cur'[p], sd'[p], obj'[cur'[p].guid])
      BY <1>4, <1>7, <2>1
    <2>3. Holds(pc[p], job[p], cur[p], p)'
      BY <1>2, <1>4, <2>1 DEF Holds
    <2>4. GrantsSurvive' /\ (\A x \in owed' : x[1] \in born')
      BY <1>4 DEF SerialInv, GrantsSurvive
    <2>5. \A h, i \in Guids : obj'[h].at = obj'[i].at /\ obj'[h].at # Nil => h = i
      BY <1>4 DEF SerialInv
    <2>6. \A q \in Procs \ {p} : Bound(pc[q]) => cur[q].guid # cur'[p].guid
      BY <1>5, <2>1
    <2> HIDE DEF j, g
    <2> QED
      BY <1>4, <2>2, <2>3, <2>4, <2>5, <2>6, SerialStep DEF j
  <1>8. CASE GetCurrent(p)
    <2>1. ASSUME obj[g].at \in DNs, cur' = [cur EXCEPT ![p] = Model(g)],
                 Continue(p, IF j.op = "Delete" THEN LiftOrProbe(p, Model(g))
                             ELSE IF j.desc \notin {Nil, Model(g).desc} THEN Label("describe")
                             ELSE MoveOrNot(p, Model(g)))
          PROVE  SerialInv'
      <3> DEFINE m == Model(g)
                 o == obj[g]
                 c == IF j.op = "Delete" THEN LiftOrProbe(p, m)
                      ELSE IF j.desc \notin {Nil, m.desc} THEN Label("describe")
                      ELSE MoveOrNot(p, m)
      <3>1. m \in Models /\ m.at = o.at /\ m.desc = o.desc /\ (o.readable => m.prot = o.prot)
        BY <1>3, <2>1, ModelOK DEF SerialInv
      <3>2. j.op \in {"Update", "Delete"}
        BY <1>1, <1>8 DEF Path, GetCurrent
      <3> HIDE DEF m, o
      <3>3. Own(j, m, o)
        BY <3>1 DEF Own
      <3>4. Bound(c) /\ Local(c, j, m, sd'[p], o)
        <4>1. CASE j.op = "Delete"
          <5>1. \/ c.at = "probe" /\ Goal(c) = "probe"
                \/ c.at = "sdRead" /\ Goal(c) = "probe" /\ c.dn = m.at /\ c.want = FALSE /\ j.prot = TRUE
            BY <4>1 DEF LiftOrProbe, setProtection, Label, Goal, Protecting
          <5> HIDE DEF c
          <5> QED
            BY <3>1, <3>3, <4>1, <5>1 DEF Local, Place, Asked, Copied, Protecting, Bound
        <4>2. CASE j.op = "Update" /\ j.desc \notin {Nil, m.desc}
          <5>1. c.at = "describe" /\ Goal(c) = "describe"
            BY <4>2 DEF Label, Goal, Protecting
          <5> HIDE DEF c
          <5> QED
            BY <3>1, <3>3, <4>2, <5>1 DEF Local, Place, Copied, Protecting, Bound
        <4>3. CASE j.op = "Update" /\ j.desc \in {Nil, m.desc}
          <5>1. \/ c.at = "reread" /\ Goal(c) = "reread" /\ j.dn = m.at
                \/ c.at = "move" /\ Goal(c) = "move" /\ j.dn # m.at
                \/ c.at = "sdRead" /\ Goal(c) = "move" /\ j.dn # m.at /\ c.dn = m.at /\ c.want = FALSE
            BY <4>3 DEF MoveOrNot, Moving, setProtection, Label, Goal, Protecting
          <5> HIDE DEF c
          <5> QED
            BY <3>1, <3>3, <4>3, <5>1 DEF Local, Place, Asked, Copied, Protecting, Bound
        <4> QED
          BY <3>2, <4>1, <4>2, <4>3
      <3>5. Continue(p, c) /\ cur' = [cur EXCEPT ![p] = m]
        BY <2>1 DEF m
      <3> HIDE DEF c
      <3> QED
        BY <1>7, <2>1, <3>4, <3>5 DEF m, o
    <2>2. CASE \E r : Return(p, r)
      BY <1>6, <2>2
    <2> QED
      BY <1>3, <1>8, <2>1, <2>2 DEF GetCurrent, Fails
  <1>9. CASE ReadDescriptor(p)
    <2>1. ASSUME obj[g].at \in DNs, cur' = [cur EXCEPT ![p] = Model(g)],
                 sd' = [sd EXCEPT ![p] = [prot |-> obj[g].prot, aces |-> obj[g].aces]],
                 Continue(p, Label(IF j.op = "Grant" THEN "existing" ELSE "aclWrite"))
          PROVE  SerialInv'
      <3> DEFINE m == Model(g)
                 o == obj[g]
                 l == IF j.op = "Grant" THEN "existing" ELSE "aclWrite"
                 c == Label(l)
      <3>1. m \in Models /\ m.at = o.at /\ m.desc = o.desc /\ (o.readable => m.prot = o.prot)
        BY <1>3, <2>1, ModelOK DEF SerialInv
      <3>2. sd'[p].aces = o.aces /\ sd'[p].prot = o.prot
        BY <2>1 DEF SerialInv, TypeInv, OUTypeOK
      <3>3. c.at = l /\ Goal(c) = l
        BY LabelPC DEF Labels, Protecting
      <3> HIDE DEF m, o, c
      <3>4. Bound(c) /\ Local(c, j, m, sd'[p], o)
        BY <1>2, <3>1, <3>2, <3>3 DEF Local, Place, Own, Copied, Protecting, Bound
      <3>5. Continue(p, c) /\ cur' = [cur EXCEPT ![p] = m]
        BY <2>1 DEF m, c
      <3> QED
        BY <1>7, <2>1, <3>4, <3>5 DEF m, o
    <2>2. CASE \E r : Return(p, r)
      BY <1>6, <2>2
    <2> QED
      BY <1>3, <1>9, <2>1, <2>2 DEF ReadDescriptor, Fails
  <1> QED
    BY <1>8, <1>9

\* The lock is granted only when it is free.
LEMMA LockOwn ==
  ASSUME SerialInv, TypeInv', Known', UNCHANGED load, NEW p \in Procs, Step(p), Lock(p)
  PROVE  SerialInv'
  <1> DEFINE l == IF job[p].op \in {"Update", "Delete"} THEN "get" ELSE "acl"
  <1>1. /\ pc[p].at = "lock" /\ Goal(pc[p]) = "lock" /\ job[p] \in Calls /\ job[p].id \in Identities
    BY CallOK DEF Lock, Labels, Protecting, SerialInv
  <1>2. pc'[p] = Label(l) /\ Goal(Label(l)) = l /\ holder'[job[p].id] = p
    BY <1>1, LabelPC DEF Lock, SerialInv, TypeInv, OUTypeOK, Labels, Protecting
  <1>3. UNCHANGED <<obj, born, job, cur, owed>>
    BY DEF Lock, dirVars
  <1>4. ~Bound(pc'[p])
    BY <1>2 DEF Bound
  <1>5. Holds(pc[p], job[p], cur[p], p)'
    BY <1>1, <1>2, <1>3, <1>4 DEF Holds, SerialInv
  <1>6. GrantsSurvive' /\ (\A x \in owed' : x[1] \in born')
    BY <1>3 DEF SerialInv, GrantsSurvive
  <1>7. \A h, i \in Guids : obj'[h].at = obj'[i].at /\ obj'[h].at # Nil => h = i
    BY <1>3 DEF SerialInv
  <1> QED
    BY <1>3, <1>4, <1>5, <1>6, <1>7, SerialStep

\* Create's object has a GUID nobody was given before.
LEMMA AddOwn ==
  ASSUME SerialInv, TypeInv', Known', UNCHANGED load, NEW p \in Procs, Step(p), Add(p)
  PROVE  SerialInv'
  <1> DEFINE j == job[p]
  <1>1. /\ pc[p].at = "add" /\ Goal(pc[p]) = "add" /\ j \in Calls /\ j.dn \in DNs
        /\ Path(pc[p], j, cur[p], res[p])
    BY CallOK DEF Add, Labels, Protecting, SerialInv
  <1>2. j.op = "Create" /\ j \in load.jobs
    BY <1>1 DEF Path, SerialInv, Holds
  <1>3. UNCHANGED <<job, sd, owed>>
    BY DEF Add
  <1>4. \A r : Return(p, r) => ~Bound(pc'[p]) /\ Holds(pc[p], job[p], cur[p], p)'
    <2>1. Goal(Label("idle")) = "idle"
      BY LabelPC DEF Labels, Protecting
    <2>2. \A r : Return(p, r) => pc'[p] = Label("idle")
      BY DEF Return, SerialInv, TypeInv
    <2> QED
      BY <2>1, <2>2 DEF Bound, Holds
  <1>5. ASSUME NEW g \in Guids \ born, NEW o \in Objects, NEW m \in Models, Made(p, g, o, m)
        PROVE  SerialInv'
    <2>1. obj'[g] = o /\ cur'[p] = m /\ m.guid = g /\ \A h \in Guids \ {g} : obj'[h] = obj[h]
      BY <1>5 DEF Made, SerialInv, TypeInv, OUTypeOK
    <2>2. born \subseteq born'
      BY <1>5 DEF Made
    <2>3. ASSUME NEW q \in Procs \ {p}, Bound(pc[q]) PROVE cur[q].guid \in Guids \ {g}
      <3>1. cur[q] \in Models /\ cur[q].guid \in Guids
        BY <2>3, Mine
      <3>2. cur[q] # Nil
        BY <3>1, OUAssumption
      <3> QED
        BY <3>1, <3>2 DEF SerialInv, Known
    <2>4. \A h, i \in Guids : obj'[h].at = obj'[i].at /\ obj'[h].at # Nil => h = i
      BY <1>5, <2>1 DEF SerialInv, Made, At
    <2>5. GrantsSurvive' /\ (\A x \in owed' : x[1] \in born')
      <3>1. ASSUME NEW x \in owed PROVE x[1] \in born /\ x[1] \in Guids \ {g}
        BY DEF SerialInv, TypeInv, OUTypeOK
      <3> QED
        BY <1>3, <2>1, <2>2, <3>1 DEF SerialInv, GrantsSurvive
    <2>6. CASE Continue(p, AfterAdd(j))
      <3> DEFINE c == AfterAdd(j)
      <3>1. /\ Goal(c) = "created"
            /\ \/ c.at = "created" /\ j.prot # TRUE
               \/ c.at = "sdRead" /\ c.dn = j.dn /\ c.want = TRUE /\ j.prot = TRUE
        BY <1>1, AfterAddPC DEF AfterAdd, setProtection, Label
      <3>2. pc'[p] = c
        BY <2>6 DEF Continue, SerialInv, TypeInv
      <3> HIDE DEF c
      <3>3. m.at = o.at /\ o.at = j.dn /\ m.desc = o.desc /\ m.prot = o.prot /\ o.prot = FALSE
        BY <1>5 DEF Made
      <3>4. Bound(c)
        BY <3>1 DEF Bound
      <3>5. Own(j, m, o)
        BY <3>3 DEF Own
      <3>6. Wish(j, m) => j.prot = TRUE
        BY <1>1, <3>3 DEF Wish, Calls
      <3>7. Local(c, j, m, sd[p], o)
        BY <1>2, <3>1, <3>3, <3>5, <3>6 DEF Local, Place, Copied, Asked, Protecting
      <3>8. \A i \in load.jobs : i.op # "Create" => i.id.arg # g
        BY DEF SerialInv
      <3>9. Holds(pc[p], job[p], cur[p], p)'
        BY <1>2, <1>3, <2>1, <3>8 DEF Holds
      <3> QED
        BY <1>3, <2>1, <2>2, <2>3, <2>4, <2>5, <3>2, <3>7, <3>9, SerialStep
    <2>7. CASE Return(p, "Transport")
      BY <1>3, <1>4, <2>1, <2>2, <2>3, <2>4, <2>5, <2>7, SerialStep
    <2> QED
      BY <1>5, <2>6, <2>7 DEF Made
  <1>6. CASE UNCHANGED <<obj, born, cur>> /\ (Continue(p, Label("probeDeleted")) \/ Fails(p))
    <2>1. ~Bound(pc'[p]) /\ Holds(pc[p], job[p], cur[p], p)'
      <3>1. CASE Fails(p)
        BY <1>4, <3>1 DEF Fails
      <3>2. CASE Continue(p, Label("probeDeleted"))
        <4>1. pc'[p] = Label("probeDeleted") /\ Goal(Label("probeDeleted")) = "probeDeleted"
          BY <3>2, LabelPC DEF Continue, SerialInv, TypeInv, Labels, Protecting
        <4> QED
          BY <1>2, <1>3, <4>1 DEF Bound, Holds
      <3> QED
        BY <1>6, <3>1, <3>2
    <2>2. GrantsSurvive' /\ (\A x \in owed' : x[1] \in born')
      BY <1>3, <1>6 DEF SerialInv, GrantsSurvive
    <2>3. \A h, i \in Guids : obj'[h].at = obj'[i].at /\ obj'[h].at # Nil => h = i
      BY <1>6 DEF SerialInv
    <2> QED
      BY <1>3, <1>6, <2>1, <2>2, <2>3, SerialStep
  <1> QED
    BY <1>5, <1>6, AddStep DEF SerialInv

LEMMA ProbeDeletedOwn ==
  ASSUME SerialInv, TypeInv', Known', UNCHANGED load, NEW p \in Procs, Step(p), ProbeDeleted(p)
  PROVE  SerialInv'
  <1>1. pc'[p] = Label("idle") /\ Goal(Label("idle")) = "idle"
    BY LabelPC DEF ProbeDeleted, Return, SerialInv, TypeInv, Labels, Protecting
  <1>2. UNCHANGED <<obj, born, job, cur, owed>>
    BY DEF ProbeDeleted, dirVars
  <1>3. ~Bound(pc'[p]) /\ Holds(pc[p], job[p], cur[p], p)'
    BY <1>1 DEF Bound, Holds
  <1>4. GrantsSurvive' /\ (\A x \in owed' : x[1] \in born')
    BY <1>2 DEF SerialInv, GrantsSurvive
  <1>5. \A h, i \in Guids : obj'[h].at = obj'[i].at /\ obj'[h].at # Nil => h = i
    BY <1>2 DEF SerialInv
  <1> QED
    BY <1>2, <1>3, <1>4, <1>5, SerialStep

LEMMA BeginOwn ==
  ASSUME SerialInv, TypeInv', Known', UNCHANGED load, NEW p \in Procs, NEW j \in load.jobs, Begin(p, j)
  PROVE  SerialInv'
  <1> DEFINE l == IF j.op = "Create" THEN "add" ELSE "lock"
  <1>1. pc'[p] = Label(l) /\ Goal(Label(l)) = l /\ job'[p] = j
    BY LabelPC DEF Begin, SerialInv, TypeInv, OUTypeOK, Labels, Protecting
  <1>2. UNCHANGED <<obj, born, holder, owed>>
    BY DEF Begin, dirVars
  <1>3. ~Bound(pc'[p])
    BY <1>1 DEF Bound
  <1>4. \A q \in Procs \ {p} : pc'[q] = pc[q] /\ cur'[q] = cur[q] /\ sd'[q] = sd[q] /\ job'[q] = job[q]
    BY DEF Begin, SerialInv, TypeInv, OUTypeOK
  <1>5. ASSUME NEW q \in Procs PROVE Holds(pc[q], job[q], cur[q], q)'
    <2>1. CASE q = p
      BY <1>1, <1>3, <2>1 DEF Holds
    <2>2. CASE q # p
      BY <1>2, <1>4, <2>2 DEF Holds, SerialInv
    <2> QED
      BY <2>1, <2>2
  <1>6. \A q \in Procs : Bound(pc'[q]) => Local(pc'[q], job'[q], cur'[q], sd'[q], obj'[cur'[q].guid])
    BY <1>2, <1>3, <1>4 DEF SerialInv
  <1>7. \A q, r \in Procs : Bound(pc'[q]) /\ Bound(pc'[r]) /\ cur'[q].guid = cur'[r].guid => q = r
    BY <1>3, <1>4 DEF SerialInv
  <1>8. Serialised' /\ GrantsSurvive'
    BY <1>2 DEF SerialInv, Serialised, GrantsSurvive
  <1> QED
    BY <1>2, <1>5, <1>6, <1>7, <1>8 DEF SerialInv

\* Children come and go without touching the OU itself.
LEMMA ChildOwn ==
  ASSUME SerialInv, TypeInv', Known', UNCHANGED load, NEW g \in Guids, Child(g)
  PROVE  SerialInv'
  <1>1. UNCHANGED <<obj, born, holder, pc, job, cur, sd, owed, load>>
    BY DEF Child
  <1> QED
    BY <1>1 DEF SerialInv, Serialised, Holds, GrantsSurvive

LEMMA SerialNext == GoneInv /\ SerialInv /\ [OUNext]_ouVars => GoneInv' /\ SerialInv'
  <1> SUFFICES ASSUME GoneInv, SerialInv, [OUNext]_ouVars PROVE SerialInv'
    BY GoneNext
  <1>1. TypeInv' /\ Known'
    BY GoneNext DEF GoneInv
  <1>2. CASE UNCHANGED ouVars
    BY <1>1, <1>2 DEF ouVars, SerialInv, Serialised, Holds, GrantsSurvive
  <1>3. ASSUME UNCHANGED load, NEW p \in Procs, Step(p) PROVE SerialInv'
    BY <1>1, <1>3, LockOwn, SdReadOwn, SdWriteOwn, AddOwn, ProbeDeletedOwn, AcquireOwn, DescribeOwn,
       MoveOwn, RereadOwn, ReadsOwn, DeleteReqOwn, ExistingOwn, AclWriteOwn DEF Step
  <1>4. ASSUME UNCHANGED load, NEW g \in Guids, AdminDelete(g) PROVE FALSE
    BY <1>4 DEF AdminDelete, SerialInv, Serialised
  <1> QED
    BY <1>1, <1>2, <1>3, <1>4, BeginOwn, ChildOwn DEF OUNext

LEMMA SerialInit == OUInit /\ Serialised => GoneInv /\ SerialInv
  <1> SUFFICES ASSUME OUInit, Serialised PROVE GoneInv /\ SerialInv
    OBVIOUS
  <1>1. GoneInv
    BY GoneInit
  <1>2. \A p \in Procs : pc[p] = Label("idle") /\ Goal(pc[p]) = "idle"
    BY LabelPC DEF OUInit, Labels, Protecting
  <1>3. \A g, h \in Guids : obj[g].at = obj[h].at /\ obj[g].at # Nil => g = h
    BY StartObjects
  <1>4. \A j \in load.jobs : j.op # "Create" => j.id.arg \in born
    BY StartObjects DEF Serialised
  <1>5. owed = {}
    BY DEF OUInit
  <1> QED
    BY <1>1, <1>2, <1>3, <1>4, <1>5 DEF GoneInv, SerialInv, Bound, Holds, GrantsSurvive

\* No delegation is lost: as long as every call names its OU by GUID and no other client
\* deletes OUs, an ACE whose Grant returned nil stays on the OU until somebody revokes
\* it, although updates, deletes, grants and revocations by any number of goroutines all
\* write back whole descriptors they read earlier (ou.go 66-69, acl.go 164-168).
THEOREM GrantsAreKept == OUSpec /\ Serialised => []GrantsSurvive
  <1>1. SerialInv => GrantsSurvive
    BY DEF SerialInv
  <1> QED
    BY <1>1, SerialInit, SerialNext, PTL DEF OUSpec

\* Under the same condition, an update that gets as far as replication did all it was
\* asked to: place, description and protection, except that one who wants an OU
\* unprotected and cannot read its descriptor learns nothing (ou.go 43-52, 210-268).
THEOREM UpdatesAreApplied == OUSpec /\ Serialised => []UpdateApplied
  <1>1. SerialInv => UpdateApplied
    <2> SUFFICES ASSUME SerialInv, NEW p \in Procs, pc[p].at = "replicate", job[p].op = "Update"
                 PROVE  LET o == obj[cur[p].guid]
                        IN o.at # Nil =>
                             /\ o.at = job[p].dn /\ job[p].desc \in {Nil, o.desc}
                             /\ o.readable \/ Want(p, cur[p]) => o.prot = Want(p, cur[p])
      BY DEF UpdateApplied
    <2>1. Goal(pc[p]) = "replicate" /\ Bound(pc[p])
      BY DEF Goal, Protecting, Bound
    <2>2. Local(pc[p], job[p], cur[p], sd[p], obj[cur[p].guid])
      BY <2>1 DEF SerialInv
    <2> QED
      BY <2>1, <2>2 DEF Local, Place, Want, Wish
  <1> QED
    BY <1>1, SerialInit, SerialNext, PTL DEF OUSpec
-----------------------------------------------------------------------------
(* What a call leaves behind *)

\* Whatever a step does to the call's object is within what the call may do.
LEMMA OwnObject ==
  ASSUME SerialInv, NEW p \in Procs, Bound(pc[p]), Step(p)
  PROVE  /\ cur' = cur
         /\ Own(job[p], cur[p], obj'[cur[p].guid])
         /\ \/ obj'[cur[p].guid].at \in {obj[cur[p].guid].at, Nil}
            \/ job[p].op = "Update" /\ obj'[cur[p].guid].at = job[p].dn
         /\ pc[p].at = "replicate" => obj' = obj
  <1> DEFINE g == cur[p].guid
             o == obj[g]
  <1>1. /\ g \in Guids /\ o \in Objects /\ job[p] \in Calls /\ job[p].dn \in DNs
        /\ Local(pc[p], job[p], cur[p], sd[p], o) /\ Path(pc[p], job[p], cur[p], res[p])
        /\ sd[p] \in [prot : BOOLEAN, aces : SUBSET Aces]
    BY Mine
  <1>2. Own(job[p], cur[p], o)
    BY <1>1 DEF Local
  <1>3. CASE UNCHANGED <<obj, cur>>
    BY <1>2, <1>3
  <1>4. CASE sdWrite(p)
    <2>1. /\ pc[p].at = "sdWrite" /\ pc[p].want \in BOOLEAN /\ Goal(pc[p]) = pc[p].next
          /\ pc[p].next \in Nexts
      BY <1>4, ProtectingPC DEF sdWrite, Protecting, SerialInv
    <2>2. \/ obj'[g] = o
          \/ obj'[g] = [o EXCEPT !.prot = pc[p].want, !.aces = sd[p].aces]
      BY <1>1, <1>4 DEF sdWrite, WriteReq, Edit
    <2>3. CASE obj'[g] = [o EXCEPT !.prot = pc[p].want, !.aces = sd[p].aces]
      <3>1. /\ obj'[g].at = o.at /\ obj'[g].desc = o.desc /\ obj'[g].prot = pc[p].want
            /\ obj'[g].readable = o.readable
        BY <1>1, <2>1, <2>3 DEF Objects
      <3>2. Own(job[p], cur[p], obj'[g])
        BY <1>1, <2>1, <3>1 DEF Own, Local, Asked, Wish, Protecting, Nexts, Path
      <3> QED
        BY <1>4, <2>1, <3>1, <3>2 DEF sdWrite
    <2> QED
      BY <1>2, <1>4, <2>1, <2>2, <2>3 DEF sdWrite
  <1>5. CASE Describe(p)
    <2>1. pc[p].at = "describe" /\ job[p].op = "Update" /\ job[p].desc \in Descs
      BY <1>1, <1>5 DEF Describe, Goal, Protecting, Path
    <2>2. obj'[g] = o \/ obj'[g] = [o EXCEPT !.desc = job[p].desc]
      BY <1>1, <1>5 DEF Describe, WriteReq, Edit
    <2>3. CASE obj'[g] = [o EXCEPT !.desc = job[p].desc]
      <3>1. /\ obj'[g].at = o.at /\ obj'[g].desc = job[p].desc /\ obj'[g].prot = o.prot
            /\ obj'[g].readable = o.readable
        BY <1>1, <2>1, <2>3 DEF Objects
      <3>2. Own(job[p], cur[p], obj'[g])
        BY <1>2, <2>1, <3>1 DEF Own
      <3> QED
        BY <1>5, <2>1, <3>1, <3>2 DEF Describe
    <2> QED
      BY <1>2, <1>5, <2>1, <2>2, <2>3 DEF Describe
  <1>6. CASE Move(p)
    <2>1. pc[p].at = "move" /\ job[p].op = "Update"
      BY <1>1, <1>6 DEF Move, Goal, Protecting, Path
    <2>2. obj'[g] = o \/ obj'[g] = [o EXCEPT !.at = job[p].dn]
      BY <1>1, <1>6 DEF Move, WriteReq, Edit
    <2>3. CASE obj'[g] = [o EXCEPT !.at = job[p].dn]
      <3>1. /\ obj'[g].at = job[p].dn /\ obj'[g].desc = o.desc /\ obj'[g].prot = o.prot
            /\ obj'[g].readable = o.readable
        BY <1>1, <2>3 DEF Objects
      <3>2. Own(job[p], cur[p], obj'[g])
        BY <1>2, <3>1 DEF Own
      <3> QED
        BY <1>6, <2>1, <3>1, <3>2 DEF Move
    <2> QED
      BY <1>2, <1>6, <2>1, <2>2, <2>3 DEF Move
  <1>7. CASE DeleteReq(p)
    <2>1. pc[p].at = "delete"
      BY <1>7 DEF DeleteReq
    <2>2. obj'[g] = o \/ obj'[g] = Deleted(o)
      BY <1>1, <1>7 DEF DeleteReq, WriteReq, Edit
    <2>3. CASE obj'[g] = Deleted(o)
      <3>1. /\ obj'[g].at = Nil /\ obj'[g].desc = o.desc /\ obj'[g].prot = o.prot
            /\ obj'[g].readable = o.readable
        BY <1>1, <2>3 DEF Objects, Deleted
      <3>2. Own(job[p], cur[p], obj'[g])
        BY <1>2, <3>1 DEF Own
      <3> QED
        BY <1>7, <2>1, <3>1, <3>2 DEF DeleteReq
    <2> QED
      BY <1>2, <1>7, <2>1, <2>2, <2>3 DEF DeleteReq
  <1>8. CASE AclWrite(p)
    <2> DEFINE aces == IF job[p].op = "Grant" THEN sd[p].aces ELSE sd[p].aces \ job[p].aces
    <2>1. pc[p].at = "aclWrite" /\ sd[p].prot = o.prot /\ aces \in SUBSET Aces
      BY <1>1, <1>8 DEF AclWrite, Local, Copied
    <2>2. obj'[g] = o \/ obj'[g] = [o EXCEPT !.prot = sd[p].prot, !.aces = aces]
      BY <1>1, <1>8 DEF AclWrite, Edit
    <2> HIDE DEF aces
    <2>3. CASE obj'[g] = [o EXCEPT !.prot = sd[p].prot, !.aces = aces]
      <3>1. /\ obj'[g].at = o.at /\ obj'[g].desc = o.desc /\ obj'[g].prot = o.prot
            /\ obj'[g].readable = o.readable
        BY <1>1, <2>1, <2>3 DEF Objects
      <3>2. Own(job[p], cur[p], obj'[g])
        BY <1>2, <3>1 DEF Own
      <3> QED
        BY <1>8, <2>1, <3>1, <3>2 DEF AclWrite
    <2> QED
      BY <1>2, <1>8, <2>1, <2>2, <2>3 DEF AclWrite
  <1>9. CASE Lock(p) \/ Add(p) \/ ProbeDeleted(p) \/ GetCurrent(p) \/ ReadDescriptor(p)
    BY <1>9 DEF Lock, Add, ProbeDeleted, GetCurrent, ReadDescriptor, Bound, Goal, Protecting
  <1>10. CASE sdRead(p) \/ Replicate(p) \/ Created(p) \/ Reread(p) \/ Restored(p) \/ Probe(p)
              \/ Confirm(p) \/ Existing(p)
    <2>1. UNCHANGED <<obj, cur>>
      BY <1>10 DEF sdRead, Replicate, Created, Reread, Restored, Probe, Confirm, Existing, Read, dirVars
    <2> QED
      BY <1>3, <2>1
  <1> QED
    BY <1>4, <1>5, <1>6, <1>7, <1>8, <1>9, <1>10 DEF Step

\* A create or an update reports success from its last step alone.
LEMMA SuccessStep ==
  ASSUME TypeInv, NEW p \in Procs, Step(p), job[p].op \in {"Create", "Update"},
         res'[p] \in {"nil", "Replication"}
  PROVE  pc[p].at = "replicate"
  <1>1. pc[p].at # "idle" => res[p] = "none" /\ Path(pc[p], job[p], cur[p], res[p])
    <2>1. pc[p].at \in Labels
      BY DEF TypeInv, OUTypeOK
    <2>2. pc[p].at \in Protecting => Goal(pc[p]) \in Nexts
      BY ProtectingPC
    <2>3. pc[p].at \in Labels \ (Protecting \union {"idle"}) => Goal(pc[p]) # "idle"
      BY CallOK
    <2> QED
      BY <2>1, <2>2, <2>3 DEF TypeInv, Path, Nexts
  <1>2. \A c : Continue(p, c) => res' = res
    BY DEF Continue
  <1>3. \A r : Return(p, r) => res'[p] = r
    BY DEF Return, TypeInv, OUTypeOK
  <1>4. ~Fails(p)
    BY <1>3 DEF Fails
  <1>5. \A found, c : Read(p, found, c) => res[p] \in {"nil", "Replication"}
    BY <1>2, <1>3, <1>4 DEF Read
  <1>6. \A refusal, new, c : WriteReq(p, refusal, new, c) =>
           res[p] \in {"nil", "Replication"} \/ refusal = "Replication"
    BY <1>2, <1>3, <1>4 DEF WriteReq
  <1>7. \A dn : Missing(dn) # "Replication"
    BY DEF Missing
  <1>8. CASE Lock(p)
    BY <1>1, <1>8 DEF Lock
  <1>9. CASE sdRead(p)
    BY <1>1, <1>2, <1>3, <1>4, <1>9 DEF sdRead
  <1>10. CASE sdWrite(p)
    BY <1>1, <1>6, <1>7, <1>10 DEF sdWrite
  <1>11. CASE Replicate(p)
    BY <1>11 DEF Replicate
  <1>12. CASE Add(p)
    BY <1>1, <1>2, <1>3, <1>4, <1>12 DEF Add
  <1>13. CASE ProbeDeleted(p)
    BY <1>3, <1>13 DEF ProbeDeleted
  <1>14. CASE Created(p)
    BY <1>1, <1>5, <1>14 DEF Created
  <1>15. CASE GetCurrent(p)
    BY <1>1, <1>2, <1>3, <1>4, <1>15 DEF GetCurrent
  <1>16. CASE Describe(p)
    BY <1>1, <1>6, <1>7, <1>16 DEF Describe
  <1>17. CASE Move(p)
    BY <1>1, <1>6, <1>17 DEF Move
  <1>18. CASE Reread(p)
    BY <1>1, <1>5, <1>18 DEF Reread
  <1>19. CASE Restored(p)
    BY <1>1, <1>5, <1>19 DEF Restored
  <1>20. CASE Probe(p) \/ DeleteReq(p) \/ Confirm(p)
    BY <1>20, CallOK DEF Probe, DeleteReq, Confirm, Path, Labels, Protecting
  <1>21. CASE ReadDescriptor(p) \/ Existing(p) \/ AclWrite(p)
    BY <1>21, CallOK DEF ReadDescriptor, Existing, AclWrite, Path, Labels, Protecting
  <1> QED
    BY <1>8, <1>9, <1>10, <1>11, <1>12, <1>13, <1>14, <1>15, <1>16, <1>17, <1>18, <1>19, <1>20, <1>21 DEF Step

\* What the call leaves of its object o, with the result r.
Leaves(j, c, o, r) ==
    /\ o.at # c.at => j.op = "Update" /\ o.at = j.dn
    /\ Own(j, c, o)
    /\ j.op \in {"Create", "Update"} /\ Wish(j, c) /\ ~o.prot => r \notin {"nil", "Replication"}

LEMMA LeavesStep ==
  ASSUME SerialInv, NEW p \in Procs, Step(p), pc'[p].at = "idle", cur'[p] # Nil,
         obj'[cur'[p].guid].at # Nil
  PROVE  Leaves(job[p], cur'[p], obj'[cur'[p].guid], res'[p])
  <1>1. TypeInv
    BY DEF SerialInv
  <1>2. \A c : Continue(p, c) => c.at = "idle"
    BY <1>1 DEF Continue, TypeInv
  <1>3. CASE Bound(pc[p])
    <2> DEFINE m == cur[p]
               o == obj'[m.guid]
    <2>1. /\ cur'[p] = m /\ Own(job[p], m, o) /\ o.at # Nil
          /\ o.at = obj[m.guid].at \/ (job[p].op = "Update" /\ o.at = job[p].dn)
      BY <1>3, OwnObject
    <2>2. Local(pc[p], job[p], m, sd[p], obj[m.guid]) /\ Path(pc[p], job[p], m, res[p])
      BY <1>3, Mine
    <2>3. o.at # m.at => job[p].op = "Update" /\ o.at = job[p].dn
      BY <1>3, <2>1, <2>2 DEF Local, Place, Path, Bound
    <2>4. ASSUME job[p].op \in {"Create", "Update"}, Wish(job[p], m), res'[p] \in {"nil", "Replication"}
          PROVE  o.prot
      <3>1. pc[p].at = "replicate"
        BY <1>1, <2>4, SuccessStep
      <3>2. o = obj[m.guid]
        BY <1>3, <3>1, OwnObject
      <3> HIDE DEF o
      <3> QED
        BY <2>2, <2>4, <3>1, <3>2 DEF Local
    <2> HIDE DEF o, m
    <2> QED
      BY <2>1, <2>3, <2>4 DEF Leaves, o, m
  <1>4. CASE Add(p)
    <2>1. cur[p] = Nil /\ job[p] \in Calls
      BY <1>1, <1>4, CallOK DEF Add, Path, Labels, Protecting
    <2>2. PICK g \in Guids \ born : \E o \in Objects : \E m \in Models : Made(p, g, o, m)
      BY <1>1, <1>4, <2>1, AddStep
    <2>3. PICK o \in Objects, m \in Models : Made(p, g, o, m)
      BY <2>2
    <2>4. cur'[p] = m /\ m.guid = g /\ obj'[g] = o /\ m.at = o.at /\ m.desc = o.desc /\ m.prot = o.prot
      BY <1>1, <2>3 DEF Made, TypeInv, OUTypeOK
    <2>5. AfterAdd(job[p]).at # "idle"
      BY DEF AfterAdd, Label, setProtection
    <2>6. res'[p] = "Transport"
      BY <1>1, <1>2, <2>3, <2>5 DEF Made, Return, TypeInv, OUTypeOK
    <2> QED
      BY <2>4, <2>6 DEF Leaves, Own
  <1>5. CASE ReadDescriptor(p)
    <2>1. /\ cur[p] = Nil /\ job[p].op \in {"Grant", "Revoke"} /\ job[p].id \in Identities
      BY <1>1, <1>5, CallOK DEF ReadDescriptor, Path, Labels, Protecting
    <2>2. PICK g \in Matches(job[p].id) : cur' = [cur EXCEPT ![p] = Model(g)]
      BY <1>5, <2>1 DEF ReadDescriptor
    <2>3. g \in Guids /\ obj[g].at \in DNs
      BY <1>1, <2>1, <2>2, MatchesOK
    <2>4. /\ cur'[p] = Model(g) /\ Model(g).guid = g /\ Model(g).at = obj[g].at
          /\ Model(g).desc = obj[g].desc /\ (obj[g].readable => Model(g).prot = obj[g].prot)
          /\ obj' = obj
      BY <1>1, <1>5, <2>2, <2>3, ModelOK DEF ReadDescriptor, dirVars, TypeInv, OUTypeOK
    <2> QED
      BY <2>1, <2>4 DEF Leaves, Own
  <1>6. CASE Lock(p) \/ ProbeDeleted(p) \/ GetCurrent(p)
    <2>1. cur[p] = Nil
      BY <1>1, <1>6, CallOK DEF Lock, ProbeDeleted, GetCurrent, Path, Labels, Protecting
    <2>2. CASE Lock(p) \/ ProbeDeleted(p)
      BY <2>1, <2>2 DEF Lock, ProbeDeleted
    <2>3. CASE GetCurrent(p)
      <3>1. job[p].id \in Identities
        BY <1>1, <2>3, CallOK DEF GetCurrent, Labels, Protecting
      <3>2. \A c \in Models : LiftOrProbe(p, c).at # "idle" /\ MoveOrNot(p, c).at # "idle"
        BY DEF LiftOrProbe, MoveOrNot, Label, setProtection
      <3>3. \A g \in Matches(job[p].id) : Model(g) \in Models
        BY <1>1, <3>1, MatchesOK, ModelOK
      <3>4. Label("describe").at # "idle"
        BY DEF Label
      <3> QED
        BY <1>2, <2>1, <2>3, <3>2, <3>3, <3>4 DEF GetCurrent
    <2> QED
      BY <1>6, <2>2, <2>3
  <1>7. pc[p].at \notin {"lock", "get", "acl", "add", "probeDeleted", "idle"} => Bound(pc[p])
    <2>1. pc[p].at \in Protecting => Goal(pc[p]) \in Nexts
      BY <1>1, ProtectingPC
    <2>2. pc[p].at \in Labels
      BY <1>1 DEF TypeInv, OUTypeOK
    <2>3. pc[p].at \in Labels \ (Protecting \union {"idle"}) => Goal(pc[p]) = pc[p].at
      BY DEF Goal
    <2> QED
      BY <2>1, <2>2, <2>3 DEF Bound, Nexts, Labels, Protecting
  <1>8. CASE pc[p].at \in {"lock", "get", "acl", "add", "probeDeleted", "idle"}
    BY <1>4, <1>5, <1>6, <1>8
       DEF Step, sdRead, sdWrite, Replicate, Created, Describe, Move, Reread, Restored, Probe, DeleteReq,
           Confirm, Existing, AclWrite
  <1> QED
    BY <1>3, <1>7, <1>8

\* However a call ends, half-way included, it leaves of its OU no more than it may, and
\* one that leaves the OU less protected than asked does not report success (ou.go
\* 139-144, 227-268, 291-297): for any number of goroutines, as long as calls name OUs by
\* GUID and no other client deletes OUs.
THEOREM CallsLeaveOnlyTheirOwn == OUSpec /\ Serialised => LeavesOnlyItsOwn
  <1> DEFINE A == \A p \in Procs :
               LET j == job[p]
                   c == cur'[p]
                   o == obj'[c.guid]
                   wish == IF j.prot = Nil THEN c.prot ELSE j.prot
               IN  OneKey /\ pc[p].at # "idle" /\ pc'[p].at = "idle" /\ c # Nil /\ o.at # Nil =>
                     /\ o.at # c.at => j.op = "Update" /\ o.at = j.dn
                     /\ o.desc # c.desc => j.op = "Update" /\ o.desc = j.desc
                     /\ o.prot # c.prot => \/ j.op = "Delete" /\ j.prot = TRUE /\ ~o.prot
                                           \/ j.op = "Update" /\ (o.prot = wish \/ Moving(p, c))
                                           \/ j.op = "Create" /\ j.prot = TRUE
                                           \/ ~o.readable
                     /\ j.op \in {"Create", "Update"} /\ wish /\ ~o.prot =>
                          res'[p] \notin {"nil", "Replication"}
  <1>1. SerialInv /\ [OUNext]_ouVars => [A]_ouVars
    <2> SUFFICES ASSUME SerialInv, OUNext, NEW p \in Procs, pc[p].at # "idle", pc'[p].at = "idle",
                        cur'[p] # Nil, obj'[cur'[p].guid].at # Nil
                 PROVE  Leaves(job[p], cur'[p], obj'[cur'[p].guid], res'[p])
      BY DEF Leaves, Own, Wish, Moving
    <2>1. pc'[p] # pc[p]
      OBVIOUS
    <2>2. PICK q \in Procs : Step(q) \/ \E j \in load.jobs : Begin(q, j)
      BY <2>1 DEF OUNext, Child, AdminDelete
    <2>3. q = p
      BY <2>1, <2>2, OthersStay DEF SerialInv
    <2>4. Step(p)
      BY <2>2, <2>3 DEF Begin
    <2> QED
      BY <2>4, LeavesStep
  <1> QED
    BY <1>1, SerialInit, SerialNext, PTL DEF OUSpec, LeavesOnlyItsOwn
=============================================================================
