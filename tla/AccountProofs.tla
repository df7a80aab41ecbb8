--------------------------- MODULE AccountProofs ----------------------------
(***************************************************************************)
(* Proofs about Account, for every number of goroutines, every directory   *)
(* and every set of calls.                                                 *)
(***************************************************************************)
EXTENDS Account, TLAPS

\* An account as it is read: it was in the directory.
Models == {m \in Accounts : m.o.at \in DNs}

\* What the point c, the job j, the account m read first, the DN d, the result r
\* and the list l of principals of a goroutine have to do with each other.
Path(c, j, m, d, r, l) ==
    /\ c # "idle" => j \in Jobs /\ r = "none"
    /\ c \in {"add", "probeDeleted", "post", "created"} => j.op = "Create"
    /\ c \in {"modify", "move", "reread", "final"} => j.op = "Update"
    /\ c \in {"delete", "confirm"} => j.op = "Delete"
    /\ c \in {"get", "guids"} => j.op \in {"Update", "Delete"}
    /\ c \in {"sid", "sidRead", "principals"} => j.op \in {"Create", "Update"} /\ NeedsSD(j)
    /\ c \in {"sdRead", "sdWrite", "finalGuids", "replicate"} => j.op \in {"Create", "Update"}
    /\ c \in {"sdRead", "sdWrite"} => j.can \in BOOLEAN /\ (j.op = "Update" => d \in DNs)
    /\ c \in {"resolve", "setpwd"} => j.op # "Delete"
    /\ c = "setpwd" => d \in DNs
    /\ c \in {"principals", "guids", "finalGuids"} => l \in SUBSET Guids
    /\ c = "get" => m = Nil
    /\ c = "lock" /\ j.op # "Create" => m = Nil
    /\ c \in {"add", "probeDeleted", "sid", "sidRead", "principals"} /\ j.op = "Create" => m = Nil
    /\ c \in {"resolve", "setpwd"} /\ j.op = "SetPassword" => m = Nil
    /\ c \in {"post", "created", "modify", "move", "reread", "final", "delete", "confirm", "guids",
              "sdRead", "sdWrite", "finalGuids", "replicate"} => m \in Models
    /\ c = "lock" /\ j.op = "Create" => m \in Models
    /\ c \in {"sid", "sidRead", "principals"} /\ j.op = "Update" => m \in Models
    /\ c \in {"resolve", "setpwd"} /\ j.op \in {"Create", "Update"} => m \in Models

\* The lock a call takes, and where it holds it: Create only around the password.
KeyOf(j) == IF j.op = "Create" THEN ByDN(j.dn) ELSE j.id
Locked(c, j) == /\ c \notin {"idle", "lock"}
                /\ j.op = "Create" => c \in {"resolve", "setpwd"}

TypeInv ==
    /\ AccountTypeOK
    /\ \A p \in Procs : Path(pc[p], job[p], cur[p], dn[p], res[p], list[p])
    /\ \A p \in Procs : \A k \in Identities :
          holder[k] = p <=> Locked(pc[p], job[p]) /\ k = KeyOf(job[p])

\* An account that is in the directory, or was read, has been born; a deleted one stays
\* deleted.
Known == /\ \A g \in Guids : obj[g].at # Nil => g \in born
         /\ \A p \in Procs : cur[p] # Nil => cur[p].guid \in born
GoneInv == Known /\ DeleteNilMeansGone
-----------------------------------------------------------------------------
(* Calls that do not meet *)

\* Every call that is not a Create names, by GUID, an account that was there at the
\* beginning.
Serialised ==
    \A j \in load.jobs : j.op # "Create" => \E g \in DOMAIN load.start : j.id = ByGUID(g)

\* The account a call works on, from when it has it to itself.
Subject(j, m) == IF m # Nil THEN m.guid ELSE j.id.arg
Works(c, j, m) == c # "idle" /\ (IF j.op = "Create" THEN m # Nil ELSE c # "lock")

\* The attributes an Update changes in one request.
Applied(o, j, old) ==
    /\ o.desc = IF j.desc = Nil THEN old.desc ELSE j.desc
    /\ BitAs(o, OnBit(j.class), j.on, OnBit(j.class) \in old.word)
    /\ BitAs(o, FlagBit(j.class), j.flag, FlagBit(j.class) \in old.word)
    /\ o.who = IF j.who = Nil THEN old.who ELSE j.who
KeepsPwd(o, j, old) == o.pwd = old.pwd /\ o.must = (IF j.must = Nil THEN old.must ELSE j.must)
DenyAs(o, j, old) ==
    o.deny = IF j.can = Nil \/ (j.can = TRUE /\ ~o.readable) THEN old.deny ELSE ~j.can

\* How far the account o of an Update is, given the one it read.
UpdateLocal(c, j, old, o, d) ==
    /\ c \in {"guids", "sid", "sidRead", "principals", "modify"} => o = old
    /\ c \in {"move", "resolve", "setpwd", "reread", "sdRead", "sdWrite", "final", "finalGuids",
              "replicate"} => Applied(o, j, old)
    /\ c = "move" => o.at = old.at /\ KeepsPwd(o, j, old)
    /\ c \in {"resolve", "setpwd"} => j.pwd
    /\ c \in {"resolve", "setpwd", "reread", "sdRead", "sdWrite", "final", "finalGuids",
              "replicate"} => o.at = j.dn
    /\ c \in {"setpwd", "sdRead", "sdWrite"} => d = j.dn
    /\ c \in {"reread", "sdRead", "sdWrite", "final", "finalGuids", "replicate"} /\ ~j.pwd
          => KeepsPwd(o, j, old)
    /\ c \in {"reread", "sdRead", "sdWrite", "final", "finalGuids", "replicate"} /\ j.pwd
          => o.pwd # Nil /\ ~o.must
    /\ c = "sdWrite" => o.readable
    /\ c \in {"move", "resolve", "setpwd", "reread"} => o.deny = old.deny
    /\ c \in {"final", "finalGuids", "replicate"} => DenyAs(o, j, old)

\* How far the new account o of a Create is; g is its GUID.
CreateLocal(c, j, g, o, d) ==
    /\ o.at = j.dn
    /\ o.who = IF j.who = Nil /\ j.class = "gmsa" THEN {} ELSE j.who
    /\ BitAs(o, FlagBit(j.class), j.flag, FALSE)
    /\ c \in {"lock", "resolve", "setpwd"} => j.pwd
    /\ c = "post" => Posts(j)
    /\ c \in {"sdRead", "sdWrite"} => j.can = FALSE
    /\ c \in {"lock", "resolve", "setpwd", "post"} => o.word = createWord(j) /\ ~o.must
    /\ c \in {"lock", "resolve", "setpwd", "post", "sdRead", "sdWrite"} => ~o.deny
    /\ c \in {"lock", "resolve", "setpwd"} => o.pwd = Nil
    /\ c = "setpwd" => d = j.dn
    /\ c \in {"post", "sdRead", "sdWrite", "created", "finalGuids", "replicate"} =>
          (o.pwd = g) = j.pwd
    /\ c \in {"sdRead", "sdWrite", "created", "finalGuids", "replicate"} =>
          /\ BitAs(o, OnBit(j.class), j.on, j.class \in {"user", "group"})
          /\ o.must = (j.must = TRUE)
    /\ c \in {"created", "finalGuids", "replicate"} => o.deny = (j.can = FALSE)

\* The list of principals on its way into a descriptor, and out of it: w is the
\* descriptor, t what is still to be looked up, l the list.
WriteList(c, j, t, l) ==
    LET ids == IF j.who = Nil THEN {} ELSE j.who
    IN /\ c = "principals" => l \union t = ids
       /\ c \in {"add", "modify"} /\ NeedsSD(j) => l = ids
       /\ c = "add" /\ ~NeedsSD(j) => l = Nil
ReadList(c, w, t, l, gone) ==
    c \in {"finalGuids", "replicate"} =>
        /\ w = Nil => l = {} /\ c = "replicate"
        /\ w # Nil => l \in SUBSET Guids /\ l \union t \subseteq w /\ w \ gone \subseteq l \union t
        /\ c = "replicate" => t = {}
SDList(c, j, t, l) ==
    c \in {"sdRead", "sdWrite", "final"} => j.class = "user" /\ t = {} /\ l = {}

Gone == {g \in Guids : obj[g].at = Nil}

\* All that a call knows of the account s it works on, whose state is o; st are the
\* accounts of the beginning.
Mine(c, j, m, d, t, l, s, o, gone, st) ==
    /\ j.op # "Create" => j.id = ByGUID(s) /\ s \in st
    /\ j.op = "Create" => s \notin st /\ Class[s] = j.class
    /\ j.op = "Update" /\ m # Nil => UpdateLocal(c, j, m.o, o, d) /\ SDList(c, j, t, l)
    /\ j.op = "Create" => CreateLocal(c, j, s, o, d)
    /\ j.op = "Delete" /\ c \in {"guids", "delete"} => o.at = m.o.at
    /\ j.op = "SetPassword" /\ c = "setpwd" => o.at = d
    /\ m # Nil => ReadList(c, IF j.class = Class[s] THEN o.who ELSE Nil, t, l, gone)

W(p) == Works(pc[p], job[p], cur[p])
S(p) == Subject(job[p], cur[p])
Local(p) ==
    Mine(pc[p], job[p], cur[p], dn[p], todo[p], list[p], S(p), obj[S(p)], Gone, DOMAIN load.start)

\* The accounts: one at a DN, each with its own password, and with a descriptor where the
\* class has one, of accounts that exist or existed.
Whole ==
    /\ \A g, h \in Guids : obj[g].at = obj[h].at /\ obj[g].at # Nil => g = h
    /\ \A g \in Guids : obj[g].pwd \in {Nil, g}
    /\ \A g \in Guids : obj[g].who # Nil =>
          Class[g] \in {"computer", "gmsa"} /\ obj[g].who \subseteq born

\* The descriptor a call is going to write.
Draft(c, j, t, l, b) ==
    /\ WriteList(c, j, t, l)
    /\ c \in {"principals", "add", "modify"} /\ NeedsSD(j) => l \subseteq b

SerialInv ==
    /\ DOMAIN load.start \subseteq born
    /\ Whole
    /\ \A p \in Procs : pc[p] # "idle" => job[p] \in load.jobs
    /\ \A p \in Procs : Draft(pc[p], job[p], todo[p], list[p], born)
    /\ \A p \in Procs : W(p) => S(p) \in born /\ Local(p)
    /\ \A p, q \in Procs : W(p) /\ W(q) /\ S(p) = S(q) => p = q
-----------------------------------------------------------------------------
(* The machinery *)

\* What a step of p may do to the data: it keeps the types, and the other goroutines.
Rest(p) ==
    /\ obj' \in [Guids -> Objects] /\ born' \subseteq Guids
    /\ cur' \in [Procs -> Accounts \union {Nil}]
    /\ dn' \in [Procs -> DNs \union {Nil}]
    /\ sid' \in {"unread", "reading", "known"} \union SidErrors
    /\ todo' \in [Procs -> SUBSET Guids] /\ list' \in [Procs -> {Nil} \union SUBSET Guids]
    /\ \A q \in Procs \ {p} : cur'[q] = cur[q] /\ dn'[q] = dn[q] /\ list'[q] = list[q]

\* The locks of p are those it should have at c; those of the others stay.
Locks(p, c) ==
    /\ holder' \in [Identities -> Procs \union {Nil}]
    /\ \A k \in Identities : holder'[k] = p <=> Locked(c, job'[p]) /\ k = KeyOf(job'[p])
    /\ \A q \in Procs \ {p} : \A k \in Identities : holder'[k] = q <=> holder[k] = q

LEMMA JobTypes ==
  ASSUME NEW j \in Jobs
  PROVE  /\ j \in Calls /\ j.id \in Identities /\ j.dn \in DNs /\ KeyOf(j) \in Identities
         /\ j.op \in {"Create", "Update", "Delete", "SetPassword"}
         /\ j.desc \in Descs \union {Nil} /\ j.on \in Maybe /\ j.flag \in Maybe
         /\ j.must \in Maybe /\ j.can \in Maybe /\ j.pwd \in BOOLEAN
         /\ j.who \in {Nil} \union SUBSET Guids /\ j.class \in Classes
  BY AccountAssumption DEF Calls, KeyOf, Identities

LEMMA StepOK ==
  ASSUME TypeInv, NEW p \in Procs, NEW c \in Labels, pc' = [pc EXCEPT ![p] = c],
         Rest(p), Locks(p, c),
         job' \in [Procs -> Jobs \union {Nil}], res' \in [Procs -> Results],
         \A q \in Procs \ {p} : job'[q] = job[q] /\ res'[q] = res[q],
         Path(c, job'[p], cur'[p], dn'[p], res'[p], list'[p])
  PROVE  TypeInv'
  <1>1. pc' \in [Procs -> Labels] /\ pc'[p] = c /\ \A q \in Procs \ {p} : pc'[q] = pc[q]
    BY DEF TypeInv, AccountTypeOK
  <1>2. \A q \in Procs : Path(pc'[q], job'[q], cur'[q], dn'[q], res'[q], list'[q])
    BY <1>1 DEF TypeInv, Rest
  <1>3. \A q \in Procs : \A k \in Identities :
            holder'[k] = q <=> Locked(pc'[q], job'[q]) /\ k = KeyOf(job'[q])
    BY <1>1 DEF TypeInv, Locks
  <1>4. \A q \in Procs : pc'[q] = "lock" => holder'[Key(q)'] # q
    <2> SUFFICES ASSUME NEW q \in Procs, pc'[q] = "lock" PROVE holder'[Key(q)'] # q
      OBVIOUS
    <2>1. job'[q] \in Jobs
      BY <1>2 DEF Path
    <2>2. Key(q)' = KeyOf(job'[q]) /\ KeyOf(job'[q]) \in Identities
      BY <2>1, JobTypes DEF Key, KeyOf
    <2>3. ~Locked(pc'[q], job'[q])
      BY DEF Locked
    <2> QED
      BY <1>3, <2>2, <2>3
  <1>5. AccountTypeOK'
    BY <1>1, <1>4 DEF AccountTypeOK, Rest, Locks
  <1> QED
    BY <1>2, <1>3, <1>5 DEF TypeInv

\* A call that goes on with the locks it has.
LEMMA ContinueOK ==
  ASSUME TypeInv, NEW p \in Procs, NEW c \in Labels, Continue(p, c), Rest(p), UNCHANGED job,
         Locked(c, job[p]) <=> Locked(pc[p], job[p]),
         Path(c, job[p], cur'[p], dn'[p], res[p], list'[p])
  PROVE  TypeInv'
  <1>1. Locks(p, c)
    BY DEF Locks, Continue, TypeInv, AccountTypeOK
  <1> QED
    BY <1>1, StepOK DEF Continue, TypeInv, AccountTypeOK

\* A call that returns.
LEMMA ReturnOK ==
  ASSUME TypeInv, NEW p \in Procs, NEW r \in Results, Return(p, r), Rest(p), UNCHANGED job
  PROVE  TypeInv'
  <1>1. "idle" \in Labels
    BY DEF Labels
  <1>2. Locks(p, "idle")
    <2>1. holder' \in [Identities -> Procs \union {Nil}]
      BY DEF Return, Unlocked, TypeInv, AccountTypeOK
    <2>2. \A k \in Identities : holder'[k] # p
      BY AccountAssumption DEF Return, Unlocked
    <2>3. \A q \in Procs \ {p} : \A k \in Identities : holder'[k] = q <=> holder[k] = q
      BY AccountAssumption DEF Return, Unlocked
    <2> QED
      BY <2>1, <2>2, <2>3 DEF Locks, Locked
  <1>3. res' \in [Procs -> Results] /\ \A q \in Procs \ {p} : res'[q] = res[q]
    BY DEF Return, TypeInv, AccountTypeOK
  <1>4. Path("idle", job'[p], cur'[p], dn'[p], res'[p], list'[p])
    BY DEF Path
  <1> QED
    BY <1>1, <1>2, <1>3, <1>4, StepOK DEF Return, TypeInv, AccountTypeOK

LEMMA FailsOK ==
  ASSUME TypeInv, NEW p \in Procs, Fails(p), Rest(p), UNCHANGED job
  PROVE  TypeInv'
  BY ReturnOK DEF Fails, Results

\* A read goes on only when it found what it wanted.
LEMMA ReadOK ==
  ASSUME TypeInv, NEW p \in Procs, NEW found, NEW c, Read(p, found, c), Rest(p), UNCHANGED job,
         found => /\ c \in Labels /\ (Locked(c, job[p]) <=> Locked(pc[p], job[p]))
                  /\ Path(c, job[p], cur'[p], dn'[p], res[p], list'[p])
  PROVE  TypeInv'
  BY ContinueOK, ReturnOK, FailsOK DEF Read, Results

\* A write puts accounts of the right type in place.
LEMMA WriteOK ==
  ASSUME TypeInv, NEW p \in Procs, NEW refusal \in Results, NEW new \in [Guids -> Objects],
         NEW c \in Labels, WriteReq(p, refusal, new, c),
         UNCHANGED <<prVars, born, job, cur, dn>>,
         Locked(c, job[p]) <=> Locked(pc[p], job[p]),
         Path(c, job[p], cur[p], dn[p], res[p], list[p])
  PROVE  TypeInv'
  <1>1. Rest(p)
    BY DEF TypeInv, AccountTypeOK, Rest, WriteReq, prVars
  <1>2. CASE Continue(p, c)
    BY <1>1, <1>2, ContinueOK DEF prVars
  <1>3. CASE Return(p, "Transport") \/ Return(p, refusal)
    BY <1>1, <1>3, ReturnOK DEF Results
  <1> QED
    BY <1>1, <1>2, <1>3, FailsOK DEF WriteReq

LEMMA RestStill ==
  ASSUME TypeInv, NEW p \in Procs, UNCHANGED <<prVars, born, obj, cur, dn>>
  PROVE  Rest(p)
  BY DEF TypeInv, AccountTypeOK, Rest, prVars

\* What goes with the point of a call that is under way.
LEMMA CallOK ==
  ASSUME TypeInv, NEW p \in Procs, pc[p] # "idle"
  PROVE  /\ job[p] \in Jobs /\ res[p] = "none" /\ pc[p] \in Labels
         /\ Path(pc[p], job[p], cur[p], dn[p], res[p], list[p])
         /\ Key(p) = KeyOf(job[p]) /\ KeyOf(job[p]) \in Identities
  <1>1. Path(pc[p], job[p], cur[p], dn[p], res[p], list[p]) /\ pc[p] \in Labels
    BY DEF TypeInv, AccountTypeOK
  <1>2. job[p] \in Jobs /\ res[p] = "none"
    BY <1>1 DEF Path
  <1> QED
    BY <1>1, <1>2, JobTypes DEF Key, KeyOf

LEMMA ModelTypes ==
  ASSUME NEW m \in Models
  PROVE  m \in Accounts /\ m.guid \in Guids /\ m.o \in Objects /\ m.o.at \in DNs /\ m # Nil
  <1>1. m \in Accounts /\ m.o.at \in DNs /\ m.guid \in Guids /\ m.o \in Objects
    BY DEF Models, Accounts
  <1> QED
    BY <1>1, AccountAssumption

\* The bits of a word.
LEMMA BitTypes ==
  ASSUME NEW c
  PROVE  /\ OnBit(c) \in Bits /\ FlagBit(c) \in Bits /\ Base(c) \subseteq Bits
         /\ OnBit(c) # FlagBit(c) /\ OnBit(c) \notin Base(c) /\ FlagBit(c) \notin Base(c)
         /\ OnBit(c) \notin {"Normal", "Workstation", "Other"}
         /\ FlagBit(c) \notin {"Normal", "Workstation", "Other"}
  BY DEF OnBit, FlagBit, Base, Bits

LEMMA SetBitTypes ==
  ASSUME NEW w \in SUBSET Bits, NEW b \in Bits, NEW v
  PROVE  SetBit(w, b, v) \in SUBSET Bits
  BY DEF SetBit

LEMMA WordTypes ==
  ASSUME NEW j, NEW w \in SUBSET Bits
  PROVE  /\ applyUAC(w, j) \in SUBSET Bits /\ rebuilt(j.class, w) \in SUBSET Bits
         /\ createWord(j) \in SUBSET Bits
  <1>1. OnBit(j.class) \in Bits /\ FlagBit(j.class) \in Bits /\ Base(j.class) \in SUBSET Bits
    BY BitTypes
  <1>2. \A x \in SUBSET Bits : applyUAC(x, j) \in SUBSET Bits
    BY <1>1, SetBitTypes DEF applyUAC
  <1>3. rebuilt(j.class, w) \in SUBSET Bits
    BY <1>1 DEF rebuilt
  <1>4. createWord(j) \in SUBSET Bits
    <2>1. /\ {"Normal", "Disable"} \in SUBSET Bits
          /\ (IF j.on = FALSE THEN {} ELSE {"Security"}) \in SUBSET Bits
          /\ "DontExpire" \in Bits /\ "Universal" \in Bits
      BY DEF Bits
    <2> QED
      BY <1>1, <1>2, <2>1, SetBitTypes DEF createWord
  <1> QED
    BY <1>2, <1>3, <1>4
-----------------------------------------------------------------------------
(* One lemma for each step *)

LEMMA BeginType ==
  ASSUME TypeInv, NEW p \in Procs, NEW j \in Jobs, Begin(p, j)
  PROVE  TypeInv'
  <1> DEFINE c == IF j.op # "Create" THEN "lock" ELSE IF NeedsSD(j) THEN "sid" ELSE "add"
  <1>1. c \in Labels
    BY DEF Labels
  <1>2. /\ job' \in [Procs -> Jobs \union {Nil}] /\ job'[p] = j
        /\ res' \in [Procs -> Results] /\ res'[p] = "none"
        /\ cur'[p] = Nil /\ dn'[p] = Nil /\ list'[p] = Nil
        /\ \A q \in Procs \ {p} : job'[q] = job[q] /\ res'[q] = res[q]
    BY DEF Begin, TypeInv, AccountTypeOK, Results
  <1>3. Rest(p)
    BY DEF Begin, TypeInv, AccountTypeOK, Rest
  <1>4. Path(c, j, Nil, Nil, "none", Nil)
    BY DEF Path
  <1>5. ~Locked(c, j)
    BY DEF Locked
  <1>6. ~Locked(pc[p], job[p])
    BY DEF Begin, Locked
  <1>7. Locks(p, c)
    BY <1>2, <1>5, <1>6 DEF Locks, Begin, TypeInv, AccountTypeOK
  <1>8. pc' = [pc EXCEPT ![p] = c]
    BY DEF Begin
  <1> HIDE DEF c
  <1> QED
    BY <1>1, <1>2, <1>3, <1>4, <1>7, <1>8, StepOK

LEMMA LockType ==
  ASSUME TypeInv, NEW p \in Procs, Lock(p)
  PROVE  TypeInv'
  <1> DEFINE c == IF job[p].op \in {"Update", "Delete"} THEN "get" ELSE "resolve"
  <1>1. c \in Labels /\ pc' = [pc EXCEPT ![p] = c]
    BY DEF Labels, Lock
  <1>2. pc[p] = "lock" /\ job[p] \in Jobs /\ Path(pc[p], job[p], cur[p], dn[p], res[p], list[p])
        /\ Key(p) = KeyOf(job[p]) /\ KeyOf(job[p]) \in Identities
    BY CallOK DEF Lock
  <1>3. Path(c, job[p], cur[p], dn[p], res[p], list[p])
    BY <1>2, JobTypes DEF Path
  <1>4. Locked(c, job[p]) /\ ~Locked(pc[p], job[p])
    BY <1>2 DEF Locked
  <1>5. Locks(p, c)
    <2>1. holder' = [holder EXCEPT ![KeyOf(job[p])] = p] /\ holder[KeyOf(job[p])] = Nil /\ job' = job
      BY <1>2 DEF Lock
    <2>2. holder' \in [Identities -> Procs \union {Nil}]
      BY <1>2, <2>1 DEF TypeInv, AccountTypeOK
    <2>3. \A k \in Identities : holder'[k] = IF k = KeyOf(job[p]) THEN p ELSE holder[k]
      BY <1>2, <2>1 DEF TypeInv, AccountTypeOK
    <2>4. \A k \in Identities : holder[k] # p
      BY <1>4 DEF TypeInv
    <2> QED
      BY <1>4, <2>1, <2>2, <2>3, <2>4, AccountAssumption DEF Locks
  <1>6. Rest(p)
    BY RestStill DEF Lock
  <1> HIDE DEF c
  <1> QED
    BY <1>1, <1>3, <1>5, <1>6, StepOK DEF Lock, TypeInv, AccountTypeOK, prVars

LEMMA ReplicateType ==
  ASSUME TypeInv, NEW p \in Procs, Replicate(p)
  PROVE  TypeInv'
  BY RestStill, ReturnOK DEF Replicate, Results

LEMMA ProbeDeletedType ==
  ASSUME TypeInv, NEW p \in Procs, ProbeDeleted(p)
  PROVE  TypeInv'
  BY RestStill, ReturnOK DEF ProbeDeleted, Results

\* Create's request makes an account with a GUID of its own in the free place, or nothing.
Fresh(p) == [at |-> job[p].dn, was |-> Nil, desc |-> IF job[p].desc = Nil THEN "" ELSE job[p].desc,
             word |-> createWord(job[p]), pwd |-> Nil, must |-> FALSE, deny |-> FALSE,
             readable |-> TRUE, who |-> list[p]]
Made(p, g) ==
    /\ At(job[p].dn) = {} /\ Class[g] = job[p].class /\ g \notin born
    /\ born' = born \union {g} /\ obj' = [obj EXCEPT ![g] = Fresh(p)]
    /\ cur' = [cur EXCEPT ![p] = [guid |-> g, o |-> Fresh(p)]]

LEMMA AddStep ==
  ASSUME NEW p, Add(p)
  PROVE  /\ pc[p] = "add" /\ UNCHANGED <<prVars, job, dn>>
         /\ \/ /\ \E g \in Guids : Made(p, g)
               /\ \/ Continue(p, IF job[p].pwd THEN "lock" ELSE AfterPwd(job[p]))
                  \/ Return(p, "Transport")
            \/ UNCHANGED <<obj, born, cur>> /\ (Continue(p, "probeDeleted") \/ Fails(p))
  BY DEF Add, Made, Fresh

LEMMA FreshTypes ==
  ASSUME TypeInv, NEW p \in Procs, job[p] \in Jobs, NEW g \in Guids
  PROVE  /\ Fresh(p) \in Objects /\ Fresh(p).at = job[p].dn /\ Fresh(p).at \in DNs
         /\ [guid |-> g, o |-> Fresh(p)] \in Models
         /\ [guid |-> g, o |-> Fresh(p)].guid = g /\ [guid |-> g, o |-> Fresh(p)].o = Fresh(p)
  <1>1. /\ job[p].dn \in DNs /\ (IF job[p].desc = Nil THEN "" ELSE job[p].desc) \in Descs
        /\ list[p] \in {Nil} \union SUBSET Guids
    BY JobTypes, AccountAssumption DEF TypeInv, AccountTypeOK
  <1>2. createWord(job[p]) \in SUBSET Bits
    BY WordTypes
  <1>3. Fresh(p) \in Objects /\ Fresh(p).at = job[p].dn
    BY <1>1, <1>2 DEF Fresh, Objects
  <1> QED
    BY <1>1, <1>3 DEF Models, Accounts

\* Where a Create goes on.
LEMMA AfterPwdPath ==
  ASSUME NEW j \in Jobs, j.op = "Create", NEW m \in Models, NEW d, NEW l
  PROVE  /\ AfterPwd(j) \in Labels /\ ~Locked(AfterPwd(j), j) /\ Path(AfterPwd(j), j, m, d, "none", l)
         /\ AfterPost(j) \in Labels /\ ~Locked(AfterPost(j), j) /\ Path(AfterPost(j), j, m, d, "none", l)
  <1>1. AfterPwd(j) \in {"post", "sdRead", "created"} /\ AfterPost(j) \in {"sdRead", "created"}
    BY DEF AfterPwd, AfterPost
  <1>2. AfterPwd(j) = "sdRead" \/ AfterPost(j) = "sdRead" => j.can \in BOOLEAN
    BY DEF AfterPwd, AfterPost
  <1> QED
    BY <1>1, <1>2 DEF Path, Locked, Labels

LEMMA AddType ==
  ASSUME TypeInv, NEW p \in Procs, Add(p)
  PROVE  TypeInv'
  <1> DEFINE j == job[p]
             c == IF j.pwd THEN "lock" ELSE AfterPwd(j)
  <1>1. /\ pc[p] = "add" /\ j \in Jobs /\ res[p] = "none" /\ Path("add", j, cur[p], dn[p], res[p], list[p])
        /\ j.op = "Create" /\ cur[p] = Nil /\ UNCHANGED <<prVars, job, dn>> /\ ~Locked(pc[p], j)
    BY CallOK, AddStep DEF Path, Locked
  <1>2. ASSUME NEW g \in Guids, Made(p, g) PROVE Rest(p) /\ cur'[p] \in Models
    BY <1>1, <1>2, FreshTypes, ModelTypes DEF Made, Rest, TypeInv, AccountTypeOK, prVars
  <1>3. ASSUME NEW g \in Guids, Made(p, g), Continue(p, c) PROVE TypeInv'
    <2>1. Rest(p) /\ cur'[p] \in Models
      BY <1>2, <1>3
    <2>2. c \in Labels /\ ~Locked(c, j) /\ Path(c, j, cur'[p], dn'[p], res[p], list'[p])
      <3>1. CASE j.pwd
        BY <1>1, <2>1, <3>1 DEF Labels, Locked, Path
      <3>2. CASE ~j.pwd
        BY <1>1, <2>1, <3>2, AfterPwdPath
      <3> QED
        BY <3>1, <3>2
    <2> QED
      BY <1>1, <1>3, <2>1, <2>2, ContinueOK
  <1>4. CASE UNCHANGED <<obj, born, cur>> /\ Continue(p, "probeDeleted")
    <2>1. "probeDeleted" \in Labels /\ ~Locked("probeDeleted", j) /\ Path("probeDeleted", j, cur'[p], dn'[p], res[p], list'[p])
      BY <1>1, <1>4 DEF Labels, Locked, Path
    <2> QED
      BY <1>1, <1>4, <2>1, RestStill, ContinueOK
  <1>5. CASE UNCHANGED <<obj, born, cur>> /\ Fails(p)
    BY <1>1, <1>5, RestStill, FailsOK
  <1>6. ASSUME NEW g \in Guids, Made(p, g), Return(p, "Transport") PROVE TypeInv'
    BY <1>1, <1>2, <1>6, ReturnOK DEF Results
  <1> QED
    BY <1>3, <1>4, <1>5, <1>6, AddStep

LEMMA PostType ==
  ASSUME TypeInv, NEW p \in Procs, Post(p)
  PROVE  TypeInv'
  <1> DEFINE j == job[p]
             E(o) == [o EXCEPT !.must = @ \/ j.must = TRUE,
                               !.word = IF j.on = TRUE THEN Enabled(j) ELSE @]
  <1>1. /\ pc[p] = "post" /\ j \in Jobs /\ res[p] = "none" /\ j.op = "Create" /\ cur[p] \in Models
        /\ ~Locked(pc[p], j) /\ UNCHANGED <<prVars, born, job, cur, dn>>
    BY CallOK DEF Path, Locked, Post
  <1>2. Enabled(j) \in SUBSET Bits
    BY WordTypes DEF Enabled
  <1>3. \A o \in Objects : E(o) \in Objects
    BY <1>2 DEF Objects
  <1> HIDE DEF E
  <1>4. Edit(j.dn, E) \in [Guids -> Objects] /\ Verdict(j.dn, E) \in Results
    BY <1>3 DEF Edit, Verdict, Results, TypeInv, AccountTypeOK
  <1>5. AfterPost(j) \in Labels /\ ~Locked(AfterPost(j), j) /\ Path(AfterPost(j), j, cur[p], dn[p], res[p], list[p])
    BY <1>1, AfterPwdPath
  <1>6. WriteReq(p, Verdict(j.dn, E), Edit(j.dn, E), AfterPost(j))
    BY DEF Post, E
  <1> QED
    BY <1>1, <1>4, <1>5, <1>6, WriteOK

\* The principals of an account that was found.
LEMMA FoundTypes ==
  ASSUME TypeInv, NEW p \in Procs, NEW g \in Guids, Found(p, g),
         UNCHANGED job
  PROVE  /\ todo' \in [Procs -> SUBSET Guids] /\ list' \in [Procs -> {Nil} \union SUBSET Guids]
         /\ HasPrincipals(p, g) => list'[p] \in SUBSET Guids
         /\ \A q \in Procs \ {p} : list'[q] = list[q] /\ todo'[q] = todo[q]
         /\ sid' = sid
  <1>1. obj[g].who \in {Nil} \union SUBSET Guids
    BY DEF TypeInv, AccountTypeOK, Objects
  <1>2. HasPrincipals(p, g) => obj[g].who \in SUBSET Guids
    BY <1>1 DEF HasPrincipals, Descriptor
  <1>3. HasPrincipals(p, g) => Descriptor(p, g) # Nil
    BY DEF HasPrincipals
  <1> QED
    BY <1>2, <1>3 DEF Found, TypeInv, AccountTypeOK

LEMMA CreatedType ==
  ASSUME TypeInv, NEW p \in Procs, Created(p)
  PROVE  TypeInv'
  <1>1. /\ pc[p] = "created" /\ job[p] \in Jobs /\ res[p] = "none" /\ job[p].op = "Create"
        /\ cur[p] \in Models /\ ~Locked(pc[p], job[p]) /\ UNCHANGED <<born, job, cur, dn>>
    BY CallOK DEF Path, Locked, Created
  <1>2. \A c \in {"finalGuids", "replicate"} :
            /\ c \in Labels /\ ~Locked(c, job[p])
            /\ (c = "finalGuids" => list'[p] \in SUBSET Guids)
                  => Path(c, job[p], cur'[p], dn'[p], res[p], list'[p])
    BY <1>1 DEF Labels, Locked, Path
  <1>3. CASE Read(p, FALSE, "replicate") /\ UNCHANGED prVars
    BY <1>1, <1>3, ReadOK, RestStill DEF Read
  <1>4. ASSUME NEW g \in Guids, Found(p, g),
               Read(p, TRUE, IF HasPrincipals(p, g) THEN "finalGuids" ELSE "replicate")
        PROVE  TypeInv'
    <2> DEFINE c == IF HasPrincipals(p, g) THEN "finalGuids" ELSE "replicate"
    <2>1. c \in {"finalGuids", "replicate"} /\ (c = "finalGuids" => list'[p] \in SUBSET Guids)
      BY <1>1, <1>4, FoundTypes
    <2>2. Rest(p)
      <3>1. obj' = obj
        BY <1>4 DEF Read
      <3> QED
        BY <1>1, <1>4, <3>1, FoundTypes DEF Rest, TypeInv, AccountTypeOK
    <2>3. Read(p, TRUE, c)
      BY <1>4
    <2> HIDE DEF c
    <2> QED
      BY <1>1, <1>2, <2>1, <2>2, <2>3, ReadOK
  <1> QED
    BY <1>3, <1>4 DEF Created, Matches

\* Where an Update or a Delete goes on after the read.
LEMMA AfterGetPath ==
  ASSUME NEW p, job[p] \in Jobs, job[p].op \in {"Update", "Delete"}, NEW m, NEW x \in Models,
         NEW d, NEW l
  PROVE  /\ AfterGet(p, m) \in Labels /\ Locked(AfterGet(p, m), job[p])
         /\ Path(AfterGet(p, m), job[p], x, d, "none", l)
  <1>1. /\ AfterGet(p, m) \in {"delete", "sid", "modify", "move", "resolve", "reread"}
        /\ AfterGet(p, m) = "delete" <=> job[p].op = "Delete"
        /\ AfterGet(p, m) = "sid" => NeedsSD(job[p])
    BY DEF AfterGet, AfterModify, PasswordNext
  <1> QED
    BY <1>1 DEF Path, Locked, Labels

LEMMA GetCurrentType ==
  ASSUME TypeInv, NEW p \in Procs, GetCurrent(p)
  PROVE  TypeInv'
  <1>1. /\ pc[p] = "get" /\ job[p] \in Jobs /\ res[p] = "none" /\ job[p].op \in {"Update", "Delete"}
        /\ Locked(pc[p], job[p]) /\ UNCHANGED <<born, obj, job, dn>>
    BY CallOK DEF Path, Locked, GetCurrent
  <1>2. ASSUME NEW g \in Matches(job[p].id, job[p].class), Found(p, g),
               cur' = [cur EXCEPT ![p] = [guid |-> g, o |-> obj[g]]],
               Continue(p, IF HasPrincipals(p, g) THEN "guids" ELSE AfterGet(p, [guid |-> g, o |-> obj[g]]))
        PROVE  TypeInv'
    <2> DEFINE m == [guid |-> g, o |-> obj[g]]
               c == IF HasPrincipals(p, g) THEN "guids" ELSE AfterGet(p, m)
    <2>1. g \in Guids /\ obj[g] \in Objects /\ obj[g].at \in DNs
      BY DEF Matches, TypeInv, AccountTypeOK
    <2>2. m \in Models
      BY <2>1 DEF Models, Accounts
    <2>3. cur' = [cur EXCEPT ![p] = m] /\ Continue(p, c)
      BY <1>2
    <2> HIDE DEF m
    <2>4. cur'[p] = m /\ cur' \in [Procs -> Accounts \union {Nil}] /\ \A q \in Procs \ {p} : cur'[q] = cur[q]
      BY <2>2, <2>3, ModelTypes DEF TypeInv, AccountTypeOK
    <2>5. /\ todo' \in [Procs -> SUBSET Guids] /\ list' \in [Procs -> {Nil} \union SUBSET Guids]
          /\ HasPrincipals(p, g) => list'[p] \in SUBSET Guids
          /\ \A q \in Procs \ {p} : list'[q] = list[q]
          /\ sid' = sid
      BY <1>1, <1>2, <2>1, FoundTypes
    <2>6. Rest(p)
      BY <1>1, <2>4, <2>5 DEF Rest, TypeInv, AccountTypeOK
    <2>7. c \in Labels /\ Locked(c, job[p]) /\ Path(c, job[p], cur'[p], dn'[p], res[p], list'[p])
      <3>1. CASE HasPrincipals(p, g)
        BY <1>1, <2>2, <2>4, <2>5, <3>1 DEF Labels, Locked, Path
      <3>2. CASE ~HasPrincipals(p, g)
        BY <1>1, <2>2, <2>4, <3>2, AfterGetPath
      <3> QED
        BY <3>1, <3>2
    <2> HIDE DEF c
    <2> QED
      BY <1>1, <2>3, <2>6, <2>7, ContinueOK
  <1>3. CASE UNCHANGED <<prVars, cur>>
             /\ (Return(p, IF job[p].op = "Delete" THEN "nil" ELSE "NotFound") \/ Fails(p))
    BY <1>1, <1>3, RestStill, ReturnOK, FailsOK DEF Results
  <1> QED
    BY <1>2, <1>3 DEF GetCurrent

\* The functions that Update's requests apply to the account.
LEMMA AfterModifyPath ==
  ASSUME NEW p, job[p] \in Jobs, job[p].op = "Update", NEW m, NEW x \in Models, NEW d, NEW l
  PROVE  /\ AfterModify(p, m) \in Labels /\ Locked(AfterModify(p, m), job[p])
         /\ Path(AfterModify(p, m), job[p], x, d, "none", l)
         /\ PasswordNext(p) \in Labels /\ Locked(PasswordNext(p), job[p])
         /\ Path(PasswordNext(p), job[p], x, d, "none", l)
  <1>1. AfterModify(p, m) \in {"move", "resolve", "reread"} /\ PasswordNext(p) \in {"resolve", "reread"}
    BY DEF AfterModify, PasswordNext
  <1> QED
    BY <1>1 DEF Path, Locked, Labels

Modified(p, o) ==
    LET c == cur[p]
    IN [o EXCEPT !.desc = IF ChangesDesc(p, c) THEN job[p].desc ELSE @,
                 !.word = IF ChangesWord(p, c) THEN NewWord(p, c) ELSE @,
                 !.must = IF ChangesMust(p, c) THEN job[p].must ELSE @,
                 !.who = IF NeedsSD(job[p]) THEN list[p] ELSE @]

LEMMA ModifyStep ==
  ASSUME NEW p, Modify(p)
  PROVE  /\ pc[p] = "modify" /\ UNCHANGED <<prVars, born, job, cur, dn>>
         /\ \E r \in {"NotFound", "Password", "nil"} :
               /\ WriteReq(p, r, Edit(cur[p].o.at, LAMBDA o : Modified(p, o)), AfterModify(p, cur[p]))
               /\ r # "NotFound" => At(cur[p].o.at) # {}
  <1> DEFINE E(o) == [o EXCEPT !.desc = IF ChangesDesc(p, cur[p]) THEN job[p].desc ELSE @,
                               !.word = IF ChangesWord(p, cur[p]) THEN NewWord(p, cur[p]) ELSE @,
                               !.must = IF ChangesMust(p, cur[p]) THEN job[p].must ELSE @,
                               !.who = IF NeedsSD(job[p]) THEN list[p] ELSE @]
             r == Verdict(cur[p].o.at, E)
  <1>1. WriteReq(p, r, Edit(cur[p].o.at, E), AfterModify(p, cur[p]))
    BY DEF Modify
  <1>2. r \in {"NotFound", "Password", "nil"} /\ (r # "NotFound" => At(cur[p].o.at) # {})
    BY DEF Verdict
  <1>3. Edit(cur[p].o.at, E) = Edit(cur[p].o.at, LAMBDA o : Modified(p, o))
    BY DEF Edit, Modified
  <1> HIDE DEF r
  <1> QED
    BY <1>1, <1>2, <1>3 DEF Modify

LEMMA ModifiedTypes ==
  ASSUME TypeInv, NEW p \in Procs, pc[p] = "modify", NEW o \in Objects
  PROVE  Modified(p, o) \in Objects
  <1>1. job[p] \in Jobs /\ cur[p] \in Models
    BY CallOK DEF Path
  <1>2. /\ ChangesDesc(p, cur[p]) => job[p].desc \in Descs
        /\ ChangesMust(p, cur[p]) => job[p].must \in BOOLEAN
        /\ list[p] \in {Nil} \union SUBSET Guids
    BY <1>1, JobTypes DEF ChangesDesc, ChangesMust, Maybe, TypeInv, AccountTypeOK
  <1>3. NewWord(p, cur[p]) \in SUBSET Bits
    <2>1. cur[p].o.word \in SUBSET Bits
      BY <1>1, ModelTypes DEF Objects
    <2> QED
      BY <2>1, WordTypes DEF NewWord
  <1> DEFINE x1 == IF ChangesDesc(p, cur[p]) THEN job[p].desc ELSE o.desc
             x2 == IF ChangesWord(p, cur[p]) THEN NewWord(p, cur[p]) ELSE o.word
             x3 == IF ChangesMust(p, cur[p]) THEN job[p].must ELSE o.must
             x4 == IF NeedsSD(job[p]) THEN list[p] ELSE o.who
  <1>4. x1 \in Descs /\ x2 \in SUBSET Bits /\ x3 \in BOOLEAN /\ x4 \in {Nil} \union SUBSET Guids
    BY <1>2, <1>3 DEF Objects
  <1>5. Modified(p, o) = [o EXCEPT !.desc = x1, !.word = x2, !.must = x3, !.who = x4]
    BY DEF Modified, Objects
  <1> HIDE DEF x1, x2, x3, x4
  <1> QED
    BY <1>4, <1>5 DEF Objects

LEMMA ModifyType ==
  ASSUME TypeInv, NEW p \in Procs, Modify(p)
  PROVE  TypeInv'
  <1> DEFINE new == Edit(cur[p].o.at, LAMBDA o : Modified(p, o))
  <1>0. pc[p] = "modify" /\ UNCHANGED <<prVars, born, job, cur, dn>>
    BY ModifyStep
  <1>1. /\ pc[p] = "modify" /\ job[p] \in Jobs /\ res[p] = "none" /\ job[p].op = "Update"
        /\ cur[p] \in Models /\ Locked(pc[p], job[p])
    BY <1>0, CallOK DEF Path, Locked
  <1>2. new \in [Guids -> Objects]
    BY <1>1, ModifiedTypes DEF Edit, TypeInv, AccountTypeOK
  <1>3. PICK r \in {"NotFound", "Password", "nil"} : WriteReq(p, r, new, AfterModify(p, cur[p]))
    BY ModifyStep
  <1>4. r \in Results
    BY DEF Results
  <1> HIDE DEF new
  <1> QED
    BY <1>0, <1>1, <1>2, <1>3, <1>4, AfterModifyPath, WriteOK

LEMMA MoveType ==
  ASSUME TypeInv, NEW p \in Procs, Move(p)
  PROVE  TypeInv'
  <1> DEFINE old == cur[p].o.at
             r == IF At(old) = {} THEN "NotFound" ELSE IF At(job[p].dn) # {} THEN "AlreadyExists" ELSE "nil"
             new == Edit(old, LAMBDA o : [o EXCEPT !.at = job[p].dn])
  <1>0. /\ pc[p] = "move" /\ UNCHANGED <<prVars, born, job, cur, dn>>
        /\ WriteReq(p, r, new, PasswordNext(p))
    BY DEF Move
  <1>1. /\ job[p] \in Jobs /\ res[p] = "none" /\ job[p].op = "Update"
        /\ cur[p] \in Models /\ Locked(pc[p], job[p])
    BY <1>0, CallOK DEF Path, Locked
  <1>2. new \in [Guids -> Objects]
    BY <1>1, JobTypes DEF Edit, Objects, TypeInv, AccountTypeOK
  <1>3. r \in Results
    BY DEF Results
  <1> HIDE DEF new, r
  <1> QED
    BY <1>0, <1>1, <1>2, <1>3, AfterModifyPath, WriteOK

LEMMA RereadType ==
  ASSUME TypeInv, NEW p \in Procs, Reread(p)
  PROVE  TypeInv'
  <1> DEFINE g == cur[p].guid
             o == obj[g]
             c == IF job[p].can \notin {Nil, CanChange(o)} THEN "sdRead"
                  ELSE IF HasPrincipals(p, g) THEN "finalGuids" ELSE "replicate"
  <1>0. /\ pc[p] = "reread" /\ UNCHANGED <<born, job, cur>> /\ Found(p, g)
        /\ Read(p, o.at \in DNs, c) /\ dn' = [dn EXCEPT ![p] = o.at]
    BY DEF Reread
  <1>1. /\ job[p] \in Jobs /\ res[p] = "none" /\ job[p].op = "Update"
        /\ cur[p] \in Models /\ Locked(pc[p], job[p])
    BY <1>0, CallOK DEF Path, Locked
  <1>2. g \in Guids /\ o \in Objects /\ o.at \in DNs \union {Nil} /\ o.who \in {Nil} \union SUBSET Guids
    BY <1>1, ModelTypes DEF TypeInv, AccountTypeOK, Objects
  <1>3. dn' \in [Procs -> DNs \union {Nil}] /\ dn'[p] = o.at /\ \A q \in Procs \ {p} : dn'[q] = dn[q]
    BY <1>0, <1>2 DEF TypeInv, AccountTypeOK
  <1>4. /\ todo' \in [Procs -> SUBSET Guids] /\ list' \in [Procs -> {Nil} \union SUBSET Guids]
        /\ HasPrincipals(p, g) => list'[p] \in SUBSET Guids
        /\ \A q \in Procs \ {p} : list'[q] = list[q]
        /\ sid' = sid
    BY <1>0, <1>2, FoundTypes
  <1>5. Rest(p)
    BY <1>0, <1>3, <1>4 DEF Rest, Read, TypeInv, AccountTypeOK
  <1>6. /\ c \in {"sdRead", "finalGuids", "replicate"}
        /\ c = "sdRead" => job[p].can \in BOOLEAN
        /\ c = "finalGuids" => list'[p] \in SUBSET Guids
    BY <1>1, <1>4, JobTypes DEF Maybe
  <1> HIDE DEF c
  <1>7. o.at \in DNs => /\ c \in Labels /\ Locked(c, job[p])
                        /\ Path(c, job[p], cur'[p], dn'[p], res[p], list'[p])
    BY <1>0, <1>1, <1>3, <1>6 DEF Path, Locked, Labels
  <1> QED
    BY <1>0, <1>1, <1>5, <1>7, ReadOK

LEMMA FinalType ==
  ASSUME TypeInv, NEW p \in Procs, Final(p)
  PROVE  TypeInv'
  <1>0. /\ pc[p] = "final" /\ UNCHANGED <<prVars, born, job, cur, dn>>
        /\ Read(p, obj[cur[p].guid].at \in DNs, "replicate")
    BY DEF Final
  <1>1. /\ job[p] \in Jobs /\ res[p] = "none" /\ job[p].op = "Update"
        /\ cur[p] \in Models /\ Locked(pc[p], job[p])
    BY <1>0, CallOK DEF Path, Locked
  <1>2. "replicate" \in Labels /\ Locked("replicate", job[p]) /\ Path("replicate", job[p], cur'[p], dn'[p], res[p], list'[p])
    BY <1>0, <1>1 DEF Path, Locked, Labels
  <1>3. Rest(p)
    BY <1>0, RestStill DEF Read
  <1> QED
    BY <1>0, <1>1, <1>2, <1>3, ReadOK

\* The principals are next, or the request that carries the descriptor.
SidNext(p) == IF job[p].who \in {Nil, {}} THEN WriteLabel(p) ELSE "principals"

LEMMA SidKnownStep ==
  ASSUME TypeInv, NEW p \in Procs, pc[p] \in {"sid", "sidRead"}, SidKnown(p),
         UNCHANGED <<born, obj, job, cur, dn>>,
         sid' \in {"unread", "reading", "known"} \union SidErrors
  PROVE  /\ Rest(p) /\ Continue(p, SidNext(p))
         /\ SidNext(p) \in Labels /\ (Locked(SidNext(p), job[p]) <=> Locked(pc[p], job[p]))
         /\ Path(SidNext(p), job[p], cur'[p], dn'[p], res[p], list'[p])
  <1>1. /\ job[p] \in Jobs /\ res[p] = "none" /\ job[p].op \in {"Create", "Update"} /\ NeedsSD(job[p])
        /\ (job[p].op = "Create" => cur[p] = Nil) /\ (job[p].op = "Update" => cur[p] \in Models)
        /\ job[p].who \in {Nil} \union SUBSET Guids
    BY CallOK, JobTypes DEF Path
  <1>2. /\ todo' \in [Procs -> SUBSET Guids] /\ list' \in [Procs -> {Nil} \union SUBSET Guids]
        /\ list'[p] = {} /\ \A q \in Procs \ {p} : list'[q] = list[q]
    BY <1>1 DEF SidKnown, TypeInv, AccountTypeOK
  <1>3. Continue(p, SidNext(p))
    BY DEF SidKnown, SidNext
  <1>4. /\ SidNext(p) \in {"add", "modify", "principals"}
        /\ SidNext(p) = "add" => job[p].op = "Create"
        /\ SidNext(p) = "modify" => job[p].op = "Update"
    BY <1>1 DEF SidNext, WriteLabel
  <1>5. Path(SidNext(p), job[p], cur'[p], dn'[p], res[p], list'[p])
    BY <1>1, <1>2, <1>4 DEF Path
  <1> QED
    BY <1>1, <1>2, <1>3, <1>4, <1>5 DEF Rest, TypeInv, AccountTypeOK, Locked, Labels

LEMMA DomainSIDType ==
  ASSUME TypeInv, NEW p \in Procs, DomainSID(p)
  PROVE  TypeInv'
  <1>0. pc[p] = "sid" /\ UNCHANGED <<born, obj, job, cur, dn>>
    BY DEF DomainSID
  <1>1. CASE sid' = "reading" /\ Continue(p, "sidRead") /\ UNCHANGED <<todo, list>>
    <2>1. Rest(p)
      BY <1>0, <1>1 DEF Rest, TypeInv, AccountTypeOK
    <2>2. "sidRead" \in Labels /\ (Locked("sidRead", job[p]) <=> Locked(pc[p], job[p]))
      BY <1>0 DEF Labels, Locked
    <2>3. Path("sidRead", job[p], cur'[p], dn'[p], res[p], list'[p])
      BY <1>0, CallOK DEF Path
    <2> QED
      BY <1>0, <1>1, <2>1, <2>2, <2>3, ContinueOK
  <1>2. CASE SidKnown(p) /\ UNCHANGED sid
    <2>1. sid' \in {"unread", "reading", "known"} \union SidErrors
      BY <1>2 DEF TypeInv, AccountTypeOK
    <2> QED
      BY <1>0, <1>2, <2>1, SidKnownStep, ContinueOK
  <1>3. CASE sid \in SidErrors /\ Return(p, sid) /\ UNCHANGED prVars
    <2>1. sid \in Results
      BY <1>3 DEF SidErrors, Results
    <2> QED
      BY <1>0, <1>3, <2>1, RestStill, ReturnOK
  <1> QED
    BY <1>1, <1>2, <1>3 DEF DomainSID

LEMMA SidReadType ==
  ASSUME TypeInv, NEW p \in Procs, SidRead(p)
  PROVE  TypeInv'
  <1>0. pc[p] = "sidRead" /\ UNCHANGED <<born, obj, job, cur, dn>>
    BY DEF SidRead
  <1>1. CASE SidKnown(p) /\ sid' = "known"
    BY <1>0, <1>1, SidKnownStep, ContinueOK
  <1>2. ASSUME NEW k \in SidErrors, sid' = k, Return(p, k), UNCHANGED <<todo, list>> PROVE TypeInv'
    <2>1. k \in Results
      BY DEF SidErrors, Results
    <2>2. Rest(p)
      BY <1>0, <1>2 DEF Rest, TypeInv, AccountTypeOK
    <2> QED
      BY <1>0, <1>2, <2>1, <2>2, ReturnOK
  <1> QED
    BY <1>1, <1>2 DEF SidRead

LEMMA PrincipalSIDsType ==
  ASSUME TypeInv, NEW p \in Procs, PrincipalSIDs(p)
  PROVE  TypeInv'
  <1>0. pc[p] = "principals" /\ UNCHANGED <<sid, born, obj, job, cur, dn>>
    BY DEF PrincipalSIDs
  <1>1. /\ job[p] \in Jobs /\ res[p] = "none" /\ job[p].op \in {"Create", "Update"} /\ NeedsSD(job[p])
        /\ (job[p].op = "Create" => cur[p] = Nil) /\ (job[p].op = "Update" => cur[p] \in Models)
    BY <1>0, CallOK DEF Path
  <1>2. ASSUME NEW g \in todo[p],
               Continue(p, IF todo[p] = {g} THEN WriteLabel(p) ELSE "principals"),
               todo' = [todo EXCEPT ![p] = @ \ {g}], list' = [list EXCEPT ![p] = @ \union {g}]
        PROVE  TypeInv'
    <2> DEFINE c == IF todo[p] = {g} THEN WriteLabel(p) ELSE "principals"
    <2>1. /\ c \in {"add", "modify", "principals"} 
          /\ c = "add" => job[p].op = "Create"
          /\ c = "modify" => job[p].op = "Update"
      BY <1>1 DEF WriteLabel
    <2>2. Continue(p, c)
      BY <1>2
    <2> HIDE DEF c
    <2>3. g \in Guids /\ todo[p] \subseteq Guids
      BY DEF TypeInv, AccountTypeOK
    <2>4. list[p] \union {g} \in SUBSET Guids
      BY <1>0, <2>3, CallOK DEF Path
    <2>5. Rest(p) /\ list'[p] \in SUBSET Guids
      BY <1>0, <1>2, <2>3, <2>4 DEF Rest, TypeInv, AccountTypeOK
    <2>6. Path(c, job[p], cur'[p], dn'[p], res[p], list'[p])
      BY <1>0, <1>1, <2>1, <2>5 DEF Path
    <2>7. c \in Labels /\ (Locked(c, job[p]) <=> Locked(pc[p], job[p]))
      BY <1>0, <1>1, <2>1 DEF Labels, Locked
    <2> QED
      BY <1>0, <2>2, <2>5, <2>6, <2>7, ContinueOK
  <1>3. CASE UNCHANGED <<todo, list>>
             /\ (Return(p, "NotFound") \/ Return(p, "Constraint") \/ Fails(p))
    <2>1. Rest(p)
      BY <1>0, <1>3 DEF Rest, TypeInv, AccountTypeOK
    <2> QED
      BY <1>0, <1>3, <2>1, ReturnOK, FailsOK DEF Results
  <1> QED
    BY <1>2, <1>3 DEF PrincipalSIDs

\* What one look-up of principalGUIDs does.
Looked(p, g) ==
    /\ Continue(p, IF todo[p] \ {g} # {} THEN pc[p]
                   ELSE IF pc[p] = "guids" THEN AfterGet(p, cur[p]) ELSE "replicate")
    /\ todo' = [todo EXCEPT ![p] = todo[p] \ {g}]
    /\ list' = [list EXCEPT ![p] = IF obj[g].at \in DNs THEN @ \union {g} ELSE @]

LEMMA PrincipalGUIDsStep ==
  ASSUME NEW p, PrincipalGUIDs(p)
  PROVE  /\ pc[p] \in {"guids", "finalGuids"} /\ UNCHANGED <<sid, born, obj, job, cur, dn>>
         /\ \/ \E g \in todo[p] : Looked(p, g)
            \/ Fails(p) /\ UNCHANGED <<todo, list>>
  BY DEF PrincipalGUIDs, Looked

LEMMA PrincipalGUIDsType ==
  ASSUME TypeInv, NEW p \in Procs, PrincipalGUIDs(p)
  PROVE  TypeInv'
  <1>0. pc[p] \in {"guids", "finalGuids"} /\ UNCHANGED <<sid, born, obj, job, cur, dn>>
    BY PrincipalGUIDsStep
  <1>1. /\ job[p] \in Jobs /\ res[p] = "none" /\ cur[p] \in Models /\ list[p] \in SUBSET Guids
        /\ (pc[p] = "guids" => job[p].op \in {"Update", "Delete"})
        /\ (pc[p] = "finalGuids" => job[p].op \in {"Create", "Update"})
    BY <1>0, CallOK DEF Path
  <1>2. ASSUME NEW g \in todo[p], Looked(p, g) PROVE TypeInv'
    <2> DEFINE c == IF todo[p] \ {g} # {} THEN pc[p]
                    ELSE IF pc[p] = "guids" THEN AfterGet(p, cur[p]) ELSE "replicate"
    <2>1. Continue(p, c)
      BY <1>2 DEF Looked
    <2>2. g \in Guids /\ todo[p] \subseteq Guids
      BY DEF TypeInv, AccountTypeOK
    <2>3. Rest(p) /\ list'[p] \in SUBSET Guids
      BY <1>0, <1>1, <1>2, <2>2 DEF Looked, Rest, TypeInv, AccountTypeOK
    <2>4. /\ c \in Labels /\ (Locked(c, job[p]) <=> Locked(pc[p], job[p]))
          /\ Path(c, job[p], cur'[p], dn'[p], res[p], list'[p])
      <3>1. CASE c = pc[p]
        BY <1>0, <1>1, <2>3, <3>1, CallOK DEF Path
      <3>2. CASE pc[p] = "guids" /\ c = AfterGet(p, cur[p])
        BY <1>0, <1>1, <3>2, AfterGetPath DEF Locked
      <3>3. CASE pc[p] = "finalGuids" /\ c = "replicate"
        BY <1>0, <1>1, <3>3 DEF Labels, Locked, Path
      <3> QED
        BY <1>0, <3>1, <3>2, <3>3
    <2> HIDE DEF c
    <2> QED
      BY <1>0, <2>1, <2>3, <2>4, ContinueOK
  <1>3. CASE Fails(p) /\ UNCHANGED <<todo, list>>
    BY <1>0, <1>3, RestStill, FailsOK DEF prVars
  <1> QED
    BY <1>2, <1>3, PrincipalGUIDsStep

\* The identity whose password is set, and what setpwd may find.
LEMMA PasswordIDTypes ==
  ASSUME TypeInv, NEW p \in Procs, pc[p] \in {"resolve", "setpwd"}
  PROVE  /\ PasswordID(p) \in Identities /\ Meant(p) \in Guids \union {Nil}
         /\ (PasswordID(p).form = "dn" => PasswordID(p).arg \in DNs)
         /\ (PasswordID(p).form = "guid" => PasswordID(p).arg \in Guids)
         /\ job[p] \in Jobs /\ res[p] = "none" /\ job[p].op # "Delete"
         /\ (job[p].op = "SetPassword" => cur[p] = Nil)
         /\ (job[p].op \in {"Create", "Update"} => cur[p] \in Models)
         /\ (pc[p] = "setpwd" => dn[p] \in DNs)
         /\ Locked(pc[p], job[p])
  <1>1. /\ job[p] \in Jobs /\ res[p] = "none" /\ job[p].op # "Delete"
        /\ (job[p].op = "SetPassword" => cur[p] = Nil)
        /\ (job[p].op \in {"Create", "Update"} => cur[p] \in Models)
        /\ (pc[p] = "setpwd" => dn[p] \in DNs)
        /\ Key(p) \in Identities
    BY CallOK DEF Path
  <1>2. \A id \in Identities : (id.form = "dn" => id.arg \in DNs) /\ (id.form = "guid" => id.arg \in Guids)
    BY DEF Identities, ByGUID, ByDN
  <1>3. PasswordID(p) \in Identities
    BY <1>1, ModelTypes DEF PasswordID, Identities
  <1>4. Meant(p) \in Guids \union {Nil}
    BY <1>1, <1>2, ModelTypes, JobTypes DEF Meant
  <1>5. Locked(pc[p], job[p])
    BY DEF Locked
  <1> QED
    BY <1>1, <1>2, <1>3, <1>4, <1>5

LEMMA ResolvePwdType ==
  ASSUME TypeInv, NEW p \in Procs, ResolvePwd(p)
  PROVE  TypeInv'
  <1>0. pc[p] = "resolve" /\ UNCHANGED <<prVars, born, obj, job, cur>>
    BY DEF ResolvePwd
  <1>1. /\ job[p] \in Jobs /\ res[p] = "none" /\ job[p].op # "Delete" /\ Locked(pc[p], job[p])
        /\ (job[p].op = "SetPassword" => cur[p] = Nil)
        /\ (job[p].op \in {"Create", "Update"} => cur[p] \in Models)
        /\ (PasswordID(p).form = "dn" => PasswordID(p).arg \in DNs)
    BY <1>0, PasswordIDTypes
  <1>2. ASSUME NEW d \in DNs, dn' = [dn EXCEPT ![p] = d], Continue(p, "setpwd") PROVE TypeInv'
    <2>1. Rest(p) /\ dn'[p] = d
      BY <1>0, <1>2 DEF Rest, TypeInv, AccountTypeOK, prVars
    <2>2. "setpwd" \in Labels /\ Locked("setpwd", job[p])
      BY DEF Labels, Locked
    <2>3. Path("setpwd", job[p], cur'[p], dn'[p], res[p], list'[p])
      BY <1>0, <1>1, <2>1 DEF Path
    <2> QED
      BY <1>0, <1>1, <1>2, <2>1, <2>2, <2>3, ContinueOK
  <1>3. CASE (Return(p, "NotFound") \/ Fails(p)) /\ UNCHANGED dn
    BY <1>0, <1>3, RestStill, ReturnOK, FailsOK DEF Results
  <1> QED
    BY <1>1, <1>2, <1>3 DEF ResolvePwd

\* The account at the DN gets the password.
Stamped(p, g) == [obj[g] EXCEPT !.must = FALSE, !.pwd = IF Meant(p) = Nil THEN g ELSE Meant(p)]

LEMMA SetPwdStep ==
  ASSUME NEW p, SetPwd(p)
  PROVE  /\ pc[p] = "setpwd" /\ UNCHANGED <<prVars, born, job, cur, dn>>
         /\ \/ /\ At(dn[p]) # {}
               /\ obj' = [g \in Guids |-> IF obj[g].at = dn[p] THEN Stamped(p, g) ELSE obj[g]]
               /\ \/ job[p].op = "SetPassword" /\ Return(p, "nil")
                  \/ job[p].op = "Update" /\ Continue(p, "reread")
                  \/ /\ job[p].op = "Create" /\ pc' = [pc EXCEPT ![p] = AfterPwd(job[p])]
                     /\ holder' = Unlocked(p) /\ UNCHANGED res
                  \/ Return(p, "Transport")
            \/ \E k \in {"NotFound", "Password", "Denied", "Transport"} : Return(p, k) /\ UNCHANGED obj
  BY DEF SetPwd, Stamped

LEMMA StampedTypes ==
  ASSUME TypeInv, NEW p \in Procs, pc[p] = "setpwd", NEW g \in Guids
  PROVE  /\ Stamped(p, g) \in Objects /\ Stamped(p, g).at = obj[g].at
         /\ Stamped(p, g).was = obj[g].was /\ Stamped(p, g).desc = obj[g].desc
         /\ Stamped(p, g).word = obj[g].word /\ Stamped(p, g).deny = obj[g].deny
         /\ Stamped(p, g).who = obj[g].who /\ Stamped(p, g).must = FALSE
         /\ Stamped(p, g).pwd = IF Meant(p) = Nil THEN g ELSE Meant(p)
  <1> DEFINE x == IF Meant(p) = Nil THEN g ELSE Meant(p)
  <1>1. x \in Guids
    BY PasswordIDTypes
  <1>2. obj[g] \in Objects
    BY DEF TypeInv, AccountTypeOK
  <1>3. Stamped(p, g) = [obj[g] EXCEPT !.must = FALSE, !.pwd = x]
    BY DEF Stamped
  <1>4. x = IF Meant(p) = Nil THEN g ELSE Meant(p)
    OBVIOUS
  <1> HIDE DEF x
  <1> QED
    BY <1>1, <1>2, <1>3, <1>4 DEF Objects

LEMMA SetPwdType ==
  ASSUME TypeInv, NEW p \in Procs, SetPwd(p)
  PROVE  TypeInv'
  <1>0. pc[p] = "setpwd" /\ UNCHANGED <<prVars, born, job, cur, dn>>
    BY SetPwdStep
  <1>1. /\ job[p] \in Jobs /\ res[p] = "none" /\ job[p].op # "Delete" /\ Locked(pc[p], job[p])
        /\ (job[p].op \in {"Create", "Update"} => cur[p] \in Models)
    BY <1>0, PasswordIDTypes
  <1>2. Rest(p)
    <2>1. obj' \in [Guids -> Objects]
      <3>1. \A g \in Guids : Stamped(p, g) \in Objects /\ obj[g] \in Objects
        BY <1>0, StampedTypes DEF TypeInv, AccountTypeOK
      <3>2. \/ obj' = [g \in Guids |-> IF obj[g].at = dn[p] THEN Stamped(p, g) ELSE obj[g]]
            \/ obj' = obj
        BY SetPwdStep
      <3> QED
        BY <3>1, <3>2 DEF TypeInv, AccountTypeOK
    <2> QED
      BY <1>0, <2>1 DEF Rest, TypeInv, AccountTypeOK, prVars
  <1>3. CASE job[p].op = "Update" /\ Continue(p, "reread")
    <2>1. "reread" \in Labels /\ Locked("reread", job[p]) /\ Path("reread", job[p], cur'[p], dn'[p], res[p], list'[p])
      BY <1>0, <1>1, <1>3 DEF Labels, Locked, Path
    <2> QED
      BY <1>0, <1>1, <1>2, <1>3, <2>1, ContinueOK
  <1>4. CASE /\ job[p].op = "Create" /\ pc' = [pc EXCEPT ![p] = AfterPwd(job[p])]
             /\ holder' = Unlocked(p) /\ UNCHANGED res
    <2>1. /\ AfterPwd(job[p]) \in Labels /\ ~Locked(AfterPwd(job[p]), job'[p])
          /\ Path(AfterPwd(job[p]), job'[p], cur'[p], dn'[p], res'[p], list'[p])
      BY <1>0, <1>1, <1>4, AfterPwdPath
    <2>2. Locks(p, AfterPwd(job[p]))
      <3>1. holder' \in [Identities -> Procs \union {Nil}]
        BY <1>4 DEF Unlocked, TypeInv, AccountTypeOK
      <3>2. \A k \in Identities : holder'[k] # p
        BY <1>4, AccountAssumption DEF Unlocked
      <3>3. \A q \in Procs \ {p} : \A k \in Identities : holder'[k] = q <=> holder[k] = q
        BY <1>4, AccountAssumption DEF Unlocked
      <3> QED
        BY <2>1, <3>1, <3>2, <3>3 DEF Locks
    <2> QED
      BY <1>0, <1>2, <1>4, <2>1, <2>2, StepOK DEF TypeInv, AccountTypeOK
  <1>5. ASSUME NEW k \in {"nil", "NotFound", "Password", "Denied", "Transport"}, Return(p, k) PROVE TypeInv'
    BY <1>0, <1>2, <1>5, ReturnOK DEF Results
  <1> QED
    BY <1>3, <1>4, <1>5, SetPwdStep

\* setCanChangePassword goes on with what it was called for.
LEMMA SDPath ==
  ASSUME TypeInv, NEW p \in Procs, pc[p] \in {"sdRead", "sdWrite"}
  PROVE  /\ job[p] \in Jobs /\ res[p] = "none" /\ cur[p] \in Models /\ job[p].can \in BOOLEAN
         /\ job[p].op \in {"Create", "Update"} /\ SDTarget(p) \in DNs
         /\ \A c \in {SDNext(p), "sdWrite"} :
               /\ c \in Labels /\ (Locked(c, job[p]) <=> Locked(pc[p], job[p]))
               /\ Path(c, job[p], cur[p], dn[p], res[p], list[p])
  <1>1. /\ job[p] \in Jobs /\ res[p] = "none" /\ cur[p] \in Models /\ job[p].can \in BOOLEAN
        /\ job[p].op \in {"Create", "Update"} /\ (job[p].op = "Update" => dn[p] \in DNs)
    BY CallOK DEF Path
  <1>2. SDTarget(p) \in DNs
    BY <1>1, JobTypes DEF SDTarget
  <1>3. /\ job[p].op = "Create" => SDNext(p) = "created"
        /\ job[p].op = "Update" => SDNext(p) = "final"
    BY DEF SDNext
  <1> QED
    BY <1>1, <1>2, <1>3 DEF Labels, Locked, Path

LEMMA SDReadType ==
  ASSUME TypeInv, NEW p \in Procs, SDRead(p)
  PROVE  TypeInv'
  <1>0. pc[p] = "sdRead" /\ UNCHANGED <<prVars, born, obj, job, cur, dn>>
    BY DEF SDRead
  <1>1. ASSUME NEW c \in {SDNext(p), "sdWrite"}, Continue(p, c) PROVE TypeInv'
    <2>1. Rest(p) /\ list' = list
      BY <1>0, RestStill DEF prVars
    <2> QED
      BY <1>0, <1>1, <2>1, SDPath, ContinueOK
  <1>2. CASE Return(p, "NotFound") \/ Return(p, "Denied") \/ Fails(p)
    BY <1>0, <1>2, RestStill, ReturnOK, FailsOK DEF Results
  <1> QED
    BY <1>1, <1>2 DEF SDRead

LEMMA SDWriteType ==
  ASSUME TypeInv, NEW p \in Procs, SDWrite(p)
  PROVE  TypeInv'
  <1> DEFINE r == IF At(SDTarget(p)) = {} THEN "NotFound" ELSE "nil"
             new == Edit(SDTarget(p), LAMBDA o : [o EXCEPT !.deny = ~job[p].can])
  <1>0. pc[p] = "sdWrite" /\ UNCHANGED <<prVars, born, job, cur, dn>> /\ WriteReq(p, r, new, SDNext(p))
    BY DEF SDWrite
  <1>1. r \in Results
    BY DEF Results
  <1>2. new \in [Guids -> Objects]
    <2>1. job[p].can \in BOOLEAN
      BY <1>0, SDPath
    <2>2. \A o \in Objects : [o EXCEPT !.deny = ~job[p].can] \in Objects
      <3> DEFINE x == ~job[p].can
      <3>1. x \in BOOLEAN
        BY <2>1
      <3> HIDE DEF x
      <3>2. \A o \in Objects : [o EXCEPT !.deny = x] \in Objects
        BY <3>1 DEF Objects
      <3> QED
        BY <3>2 DEF x
    <2> QED
      BY <2>2 DEF Edit, TypeInv, AccountTypeOK
  <1> HIDE DEF r, new
  <1> QED
    BY <1>0, <1>1, <1>2, SDPath, WriteOK

LEMMA DeleteReqType ==
  ASSUME TypeInv, NEW p \in Procs, DeleteReq(p)
  PROVE  TypeInv'
  <1> DEFINE d == cur[p].o.at
             r == IF At(d) = {} THEN "NotFound" ELSE "nil"
             new == Edit(d, Deleted)
  <1>0. pc[p] = "delete" /\ UNCHANGED <<prVars, born, job, cur, dn>> /\ WriteReq(p, r, new, "confirm")
    BY DEF DeleteReq
  <1>1. /\ job[p] \in Jobs /\ res[p] = "none" /\ job[p].op = "Delete" /\ cur[p] \in Models
    BY <1>0, CallOK DEF Path
  <1>2. r \in Results
    BY DEF Results
  <1>3. new \in [Guids -> Objects]
    <2>1. \A o \in Objects : Deleted(o) \in Objects
      BY DEF Deleted, Objects
    <2> QED
      BY <2>1 DEF Edit, TypeInv, AccountTypeOK
  <1>4. /\ "confirm" \in Labels /\ (Locked("confirm", job[p]) <=> Locked(pc[p], job[p]))
        /\ Path("confirm", job[p], cur[p], dn[p], res[p], list[p])
    BY <1>0, <1>1 DEF Labels, Locked, Path
  <1> HIDE DEF r, new
  <1> QED
    BY <1>0, <1>2, <1>3, <1>4, WriteOK

LEMMA ConfirmType ==
  ASSUME TypeInv, NEW p \in Procs, Confirm(p)
  PROVE  TypeInv'
  BY RestStill, ReturnOK, FailsOK DEF Confirm, Results

\* A step of the system is a step of one of the goroutines.
Acts(p) ==
    \/ \E j \in load.jobs : Begin(p, j)
    \/ Lock(p) \/ Replicate(p) \/ Add(p) \/ ProbeDeleted(p) \/ Post(p) \/ Created(p)
    \/ GetCurrent(p) \/ Modify(p) \/ Move(p) \/ Reread(p) \/ Final(p)
    \/ DomainSID(p) \/ SidRead(p) \/ PrincipalSIDs(p) \/ PrincipalGUIDs(p)
    \/ ResolvePwd(p) \/ SetPwd(p) \/ SDRead(p) \/ SDWrite(p) \/ DeleteReq(p) \/ Confirm(p)

Fixed == load \in Workloads /\ active \subseteq Procs

LEMMA NextActs ==
  ASSUME Fixed, AccountNext
  PROVE  UNCHANGED <<active, load>> /\ \E p \in Procs : Acts(p)
  <1>1. PICK p \in active : Step(p) \/ \E j \in load.jobs : Begin(p, j)
    BY DEF AccountNext
  <1>2. p \in Procs
    BY DEF Fixed
  <1>3. Acts(p)
    BY <1>1 DEF Acts, Step, userCreate, userUpdate, userDelete, SetPassword, computerCreate, computerUpdate,
       computerDelete, gmsaCreate, gmsaUpdate, gmsaDelete, groupCreate, groupUpdate, groupDelete,
       CreateSteps, UpdateSteps, DeleteSteps, WriteSD
  <1> QED
    BY <1>2, <1>3 DEF AccountNext

LEMMA TypeStep ==
  ASSUME TypeInv, Fixed, AccountNext
  PROVE  TypeInv' /\ Fixed'
  <1>1. UNCHANGED <<active, load>>
    BY NextActs
  <1> SUFFICES TypeInv'
    BY <1>1 DEF Fixed
  <1>2. PICK p \in Procs : Acts(p)
    BY NextActs
  <1>3. \A j \in load.jobs : j \in Jobs
    BY DEF Fixed, Jobs
  <1>4. CASE \E j \in load.jobs : Begin(p, j)
    BY <1>3, <1>4, BeginType
  <1>5. CASE Lock(p) \/ Replicate(p) \/ Add(p) \/ ProbeDeleted(p) \/ Post(p) \/ Created(p)
    BY <1>5, LockType, ReplicateType, AddType, ProbeDeletedType, PostType, CreatedType
  <1>6. CASE GetCurrent(p) \/ Modify(p) \/ Move(p) \/ Reread(p) \/ Final(p)
    BY <1>6, GetCurrentType, ModifyType, MoveType, RereadType, FinalType
  <1>7. CASE DomainSID(p) \/ SidRead(p) \/ PrincipalSIDs(p) \/ PrincipalGUIDs(p)
    BY <1>7, DomainSIDType, SidReadType, PrincipalSIDsType, PrincipalGUIDsType
  <1>8. CASE ResolvePwd(p) \/ SetPwd(p) \/ SDRead(p) \/ SDWrite(p) \/ DeleteReq(p) \/ Confirm(p)
    BY <1>8, ResolvePwdType, SetPwdType, SDReadType, SDWriteType, DeleteReqType, ConfirmType
  <1> QED
    BY <1>2, <1>4, <1>5, <1>6, <1>7, <1>8 DEF Acts

\* The directory at the beginning.
LEMMA InitObjects ==
  ASSUME AccountInit
  PROVE  /\ Fixed /\ born \subseteq Guids /\ obj \in [Guids -> Objects]
         /\ \A g \in Guids : /\ obj[g].at = IF g \in born THEN load.start[g] ELSE Nil
                             /\ obj[g].pwd \in {Nil, g}
                             /\ obj[g].who \in {Nil, {}}
                             /\ obj[g].who # Nil => Class[g] = "gmsa"
  <1>1. load \in Workloads /\ active \subseteq Procs /\ born = DOMAIN load.start
    BY DEF AccountInit
  <1>2. /\ born \subseteq Guids /\ \A g \in born : load.start[g] \in DNs
        /\ load.vary \subseteq Guids
    BY <1>1, AccountAssumption
  <1>3. PICK on, flag, has \in [load.vary -> BOOLEAN], denied \in SUBSET load.opaque :
         obj = [g \in Guids |->
                  LET c == Class[g]
                      isOn == g \in load.vary => on[g]
                      flagged == g \in load.vary /\ flag[g]
                      w == SetBit(SetBit(Base(c), OnBit(c), isOn), FlagBit(c), flagged)
                      o == [at |-> Nil, was |-> Nil, desc |-> "", must |-> FALSE,
                            deny |-> g \in denied, readable |-> g \notin load.opaque,
                            word |-> {}, pwd |-> Nil, who |-> Nil]
                  IN IF g \notin born THEN o
                     ELSE [o EXCEPT !.at = load.start[g], !.word = w \union Extra,
                             !.pwd = IF c = "user" /\ (isOn \/ has[g]) THEN g ELSE Nil,
                             !.who = IF c = "gmsa" THEN {} ELSE Nil]]
    BY DEF AccountInit
  <1>4. ASSUME NEW g \in Guids
        PROVE  /\ obj[g] \in Objects /\ obj[g].at = (IF g \in born THEN load.start[g] ELSE Nil)
               /\ obj[g].pwd \in {Nil, g} /\ obj[g].who \in {Nil, {}}
               /\ obj[g].who # Nil => Class[g] = "gmsa"
    <2> DEFINE c == Class[g]
               isOn == g \in load.vary => on[g]
               w == SetBit(SetBit(Base(c), OnBit(c), isOn), FlagBit(c), g \in load.vary /\ flag[g]) \union Extra
               x == IF c = "user" /\ (isOn \/ has[g]) THEN g ELSE Nil
               y == IF c = "gmsa" THEN {} ELSE Nil
               z == load.start[g]
               b == g \in denied
               e == g \notin load.opaque
               o == [at |-> Nil, was |-> Nil, desc |-> "", must |-> FALSE, deny |-> b, readable |-> e,
                     word |-> {}, pwd |-> Nil, who |-> Nil]
    <2>1. w \in SUBSET Bits
      <3>1. OnBit(c) \in Bits /\ FlagBit(c) \in Bits /\ Base(c) \in SUBSET Bits /\ Extra \subseteq Bits
        BY BitTypes, AccountAssumption DEF Bits
      <3>2. SetBit(Base(c), OnBit(c), isOn) \in SUBSET Bits
        BY <3>1, SetBitTypes
      <3> QED
        BY <3>1, <3>2, SetBitTypes
    <2>2. x \in {Nil, g} /\ y \in {Nil, {}} /\ (y # Nil => Class[g] = "gmsa")
      OBVIOUS
    <2>3. obj[g] = IF g \notin born THEN o
                   ELSE [o EXCEPT !.at = z, !.word = w, !.pwd = x, !.who = y]
      BY <1>3
    <2>4. /\ o \in Objects /\ o.at = Nil /\ o.pwd = Nil /\ o.who = Nil
      <3>1. b \in BOOLEAN /\ e \in BOOLEAN
        OBVIOUS
      <3> HIDE DEF b, e
      <3> QED
        BY <3>1, AccountAssumption DEF Objects
    <2>5. /\ (g \in born => z \in DNs) /\ z = load.start[g]
          /\ x \in Guids \union {Nil} /\ y \in {Nil} \union SUBSET Guids
      BY <1>2
    <2> HIDE DEF w, x, y, z, o
    <2>6. CASE g \notin born
      BY <2>3, <2>4, <2>6
    <2>7. CASE g \in born
      <3>1. obj[g] = [o EXCEPT !.at = z, !.word = w, !.pwd = x, !.who = y]
        BY <2>3, <2>7
      <3>2. obj[g] \in Objects /\ obj[g].at = z /\ obj[g].pwd = x /\ obj[g].who = y
        BY <2>1, <2>4, <2>5, <2>7, <3>1 DEF Objects
      <3> QED
        BY <2>2, <2>5, <2>7, <3>2
    <2> QED
      BY <2>6, <2>7
  <1>5. obj \in [Guids -> Objects]
    BY <1>3, <1>4
  <1> QED
    BY <1>1, <1>2, <1>4, <1>5 DEF Fixed

LEMMA TypeInit ==
  ASSUME AccountInit
  PROVE  TypeInv /\ Fixed
  <1>1. Fixed /\ born \subseteq Guids /\ obj \in [Guids -> Objects]
    BY InitObjects
  <1>2. AccountTypeOK
    BY <1>1 DEF AccountInit, AccountTypeOK, Labels, Results
  <1>3. \A p \in Procs : Path(pc[p], job[p], cur[p], dn[p], res[p], list[p]) /\ ~Locked(pc[p], job[p])
    BY DEF AccountInit, Path, Locked
  <1>4. \A p \in Procs : \A k \in Identities : holder[k] # p
    BY AccountAssumption DEF AccountInit
  <1> QED
    BY <1>1, <1>2, <1>3, <1>4 DEF TypeInv

LEMMA TypeStutter ==
  ASSUME TypeInv, Fixed, UNCHANGED accountVars
  PROVE  TypeInv' /\ Fixed'
  BY DEF accountVars, prVars, TypeInv, Fixed, AccountTypeOK, Key

LEMMA TypeAlways == AccountSpec => [](TypeInv /\ Fixed)
  <1>1. AccountInit => TypeInv /\ Fixed
    BY TypeInit
  <1>2. TypeInv /\ Fixed /\ [AccountNext]_accountVars => TypeInv' /\ Fixed'
    BY TypeStep, TypeStutter
  <1> QED
    BY <1>1, <1>2, PTL DEF AccountSpec

\* The directories keep their types through every interleaving of calls, and no goroutine
\* waits for a lock it holds itself (user.go 243-247, 471), whatever the calls.
THEOREM AccountTypeCorrect == AccountSpec => []AccountTypeOK
  <1>1. TypeInv => AccountTypeOK
    BY DEF TypeInv
  <1> QED
    BY <1>1, TypeAlways, PTL
-----------------------------------------------------------------------------
(* The domain SID *)

\* May goroutine be at c with job j while the SID is in state s?
Ready(c, j, s) == c = "principals" \/ (c \in {"add", "modify"} /\ NeedsSD(j)) => s = "known"

LEMMA SidReady ==
  SidReadOnce <=> /\ (sid = "reading") = (\E p \in Procs : pc[p] = "sidRead")
                  /\ \A p, q \in Procs : pc[p] = "sidRead" /\ pc[q] = "sidRead" => p = q
                  /\ \A p \in Procs : Ready(pc[p], job[p], sid)
  BY DEF SidReadOnce, Ready

\* A step that has nothing to do with the read of the SID.
LEMMA SidStill ==
  ASSUME TypeInv, SidReadOnce, NEW p \in Procs, NEW c, pc' = [pc EXCEPT ![p] = c], UNCHANGED sid,
         \A q \in Procs \ {p} : job'[q] = job[q],
         pc[p] # "sidRead", c # "sidRead", Ready(c, job'[p], sid)
  PROVE  SidReadOnce'
  <1>1. pc'[p] = c /\ \A q \in Procs \ {p} : pc'[q] = pc[q]
    BY DEF TypeInv, AccountTypeOK
  <1>2. \A q \in Procs : pc'[q] = "sidRead" <=> pc[q] = "sidRead"
    BY <1>1
  <1>3. \A q \in Procs : Ready(pc'[q], job'[q], sid')
    BY <1>1, SidReady
  <1>4. (sid' = "reading") = (\E q \in Procs : pc'[q] = "sidRead")
    BY <1>2, SidReady
  <1>5. \A q, r \in Procs : pc'[q] = "sidRead" /\ pc'[r] = "sidRead" => q = r
    BY <1>2, SidReady
  <1> QED
    BY <1>3, <1>4, <1>5 DEF SidReadOnce, Ready

\* The points where the SID does not matter.
Calm == Labels \ {"sidRead", "principals", "add", "modify"}

LEMMA SidCalm ==
  ASSUME TypeInv, SidReadOnce, NEW p \in Procs, NEW c \in Calm, pc' = [pc EXCEPT ![p] = c],
         UNCHANGED <<sid, job>>, pc[p] # "sidRead"
  PROVE  SidReadOnce'
  <1>1. c # "sidRead" /\ Ready(c, job'[p], sid)
    BY DEF Calm, Ready
  <1> QED
    BY <1>1, SidStill

LEMMA SidReturn ==
  ASSUME TypeInv, SidReadOnce, NEW p \in Procs, NEW r, Return(p, r), UNCHANGED <<sid, job>>, pc[p] # "sidRead"
  PROVE  SidReadOnce'
  BY SidCalm DEF Return, Calm, Labels

LEMMA SidFails ==
  ASSUME TypeInv, SidReadOnce, NEW p \in Procs, Fails(p), UNCHANGED <<sid, job>>, pc[p] # "sidRead"
  PROVE  SidReadOnce'
  BY SidReturn DEF Fails

LEMMA SidWrite ==
  ASSUME TypeInv, SidReadOnce, NEW p \in Procs, NEW r, NEW new, NEW c \in Calm, WriteReq(p, r, new, c),
         UNCHANGED <<sid, job>>, pc[p] # "sidRead"
  PROVE  SidReadOnce'
  BY SidReturn, SidFails, SidCalm DEF WriteReq, Continue

LEMMA SidReadReq ==
  ASSUME TypeInv, SidReadOnce, NEW p \in Procs, NEW found, NEW c \in Calm, Read(p, found, c),
         UNCHANGED <<sid, job>>, pc[p] # "sidRead"
  PROVE  SidReadOnce'
  BY SidReturn, SidFails, SidCalm DEF Read, Continue

\* An Update or a Delete that read its account.
LEMMA SidAfterGet ==
  ASSUME TypeInv, SidReadOnce, NEW p \in Procs, NEW m, Continue(p, AfterGet(p, m)), UNCHANGED <<sid, job>>,
         pc[p] # "sidRead"
  PROVE  SidReadOnce'
  <1>1. AfterGet(p, m) # "sidRead" /\ Ready(AfterGet(p, m), job'[p], sid)
    BY DEF AfterGet, AfterModify, PasswordNext, Ready
  <1> QED
    BY <1>1, SidStill DEF Continue

LEMMA SidDomainSID ==
  ASSUME TypeInv, SidReadOnce, NEW p \in Procs, DomainSID(p)
  PROVE  SidReadOnce'
  <1>0. pc[p] = "sid" /\ UNCHANGED job
    BY DEF DomainSID
  <1>1. CASE sid = "unread" /\ sid' = "reading" /\ Continue(p, "sidRead")
    <2>1. pc'[p] = "sidRead" /\ \A q \in Procs \ {p} : pc'[q] = pc[q]
      BY <1>1 DEF Continue, TypeInv, AccountTypeOK
    <2>2. \A q \in Procs : pc[q] # "sidRead" /\ (Ready(pc[q], job[q], sid) => Ready(pc[q], job[q], sid'))
      BY <1>1, SidReady DEF Ready
    <2>3. \A q \in Procs : Ready(pc'[q], job'[q], sid')
      BY <1>0, <2>1, <2>2, SidReady DEF Ready
    <2> QED
      BY <1>1, <2>1, <2>2, <2>3 DEF SidReadOnce, Ready
  <1>2. CASE sid = "known" /\ SidKnown(p) /\ UNCHANGED sid
    <2>1. Continue(p, SidNext(p)) /\ SidNext(p) # "sidRead"
      BY <1>2 DEF SidKnown, SidNext, WriteLabel
    <2> QED
      BY <1>0, <1>2, <2>1, SidStill DEF Continue, Ready
  <1>3. CASE Return(p, sid) /\ UNCHANGED prVars
    BY <1>0, <1>3, SidReturn DEF prVars
  <1> QED
    BY <1>1, <1>2, <1>3 DEF DomainSID

LEMMA SidSidRead ==
  ASSUME TypeInv, SidReadOnce, NEW p \in Procs, SidRead(p)
  PROVE  SidReadOnce'
  <1>0. pc[p] = "sidRead" /\ UNCHANGED job /\ sid = "reading" /\ \A q \in Procs \ {p} : pc[q] # "sidRead"
    BY SidReady DEF SidRead
  <1>1. \A q \in Procs : \A s : Ready(pc[q], job[q], s)
    BY <1>0, SidReady DEF Ready
  <1>2. PICK c : /\ pc' = [pc EXCEPT ![p] = c] /\ c # "sidRead" /\ sid' \in {"known"} \union SidErrors
                 /\ c = "idle" \/ sid' = "known"
    <2>1. CASE sid' = "known" /\ SidKnown(p)
      <3>1. Continue(p, SidNext(p)) /\ SidNext(p) # "sidRead"
        BY <2>1 DEF SidKnown, SidNext, WriteLabel
      <3> QED
        BY <2>1, <3>1 DEF Continue
    <2>2. CASE \E k \in SidErrors : sid' = k /\ Return(p, k)
      BY <2>2 DEF Return
    <2> QED
      BY <2>1, <2>2 DEF SidRead
  <1>3. pc'[p] = c /\ \A q \in Procs \ {p} : pc'[q] = pc[q]
    BY <1>2 DEF TypeInv, AccountTypeOK
  <1>4. \A q \in Procs : pc'[q] # "sidRead"
    BY <1>0, <1>2, <1>3
  <1>5. sid' # "reading"
    BY <1>2 DEF SidErrors
  <1>6. \A q \in Procs : Ready(pc'[q], job'[q], sid')
    BY <1>0, <1>1, <1>2, <1>3 DEF Ready
  <1> QED
    BY <1>4, <1>5, <1>6 DEF SidReadOnce, Ready

LEMMA SidPrincipals ==
  ASSUME TypeInv, SidReadOnce, NEW p \in Procs, PrincipalSIDs(p)
  PROVE  SidReadOnce'
  <1>0. pc[p] = "principals" /\ UNCHANGED <<sid, job>>
    BY DEF PrincipalSIDs
  <1>1. sid = "known"
    BY <1>0, SidReady DEF Ready
  <1>2. ASSUME NEW c \in {"add", "modify", "principals"}, Continue(p, c) PROVE SidReadOnce'
    BY <1>0, <1>1, <1>2, SidStill DEF Continue, Ready
  <1>3. ASSUME NEW r, Return(p, r) PROVE SidReadOnce'
    BY <1>0, <1>3, SidReturn
  <1> QED
    BY <1>0, <1>2, <1>3, SidFails DEF PrincipalSIDs, WriteLabel

LEMMA SidBegin ==
  ASSUME TypeInv, SidReadOnce, NEW p \in Procs, NEW j, Begin(p, j)
  PROVE  SidReadOnce'
  <1> DEFINE c == IF j.op # "Create" THEN "lock" ELSE IF NeedsSD(j) THEN "sid" ELSE "add"
  <1>1. /\ pc[p] = "idle" /\ pc' = [pc EXCEPT ![p] = c] /\ UNCHANGED sid
        /\ job'[p] = j /\ \A q \in Procs \ {p} : job'[q] = job[q]
    BY DEF Begin, TypeInv, AccountTypeOK
  <1>2. c # "sidRead" /\ Ready(c, j, sid)
    BY DEF Ready
  <1> HIDE DEF c
  <1> QED
    BY <1>1, <1>2, SidStill

LEMMA SidOthers ==
  ASSUME TypeInv, SidReadOnce, NEW p \in Procs,
         \/ Lock(p) \/ Replicate(p) \/ Add(p) \/ ProbeDeleted(p) \/ Post(p) \/ Created(p)
         \/ GetCurrent(p) \/ Modify(p) \/ Move(p) \/ Reread(p) \/ Final(p) \/ PrincipalGUIDs(p)
         \/ ResolvePwd(p) \/ SetPwd(p) \/ SDRead(p) \/ SDWrite(p) \/ DeleteReq(p) \/ Confirm(p)
  PROVE  SidReadOnce'
  <1>1. \A l \in {"lock", "get", "resolve", "setpwd", "reread", "replicate", "finalGuids", "guids", "sdRead",
                  "sdWrite", "created", "final", "confirm", "post", "move", "probeDeleted"} : l \in Calm
    BY DEF Calm, Labels
  <1>2. CASE Lock(p)
    BY <1>1, <1>2, SidCalm DEF Lock, prVars
  <1>3. CASE Replicate(p)
    BY <1>3, SidReturn DEF Replicate, prVars
  <1>4. CASE Add(p)
    <2>1. pc[p] = "add" /\ UNCHANGED <<sid, job>>
      BY <1>4, AddStep DEF prVars
    <2>2. (IF job[p].pwd THEN "lock" ELSE AfterPwd(job[p])) \in Calm
      BY <1>1 DEF AfterPwd, AfterPost
    <2> QED
      BY <1>1, <1>4, <2>1, <2>2, AddStep, SidCalm, SidReturn, SidFails DEF Continue
  <1>5. CASE ProbeDeleted(p)
    BY <1>5, SidReturn DEF ProbeDeleted, prVars
  <1>6. CASE Post(p)
    <2>1. AfterPost(job[p]) \in Calm
      BY <1>1 DEF AfterPost
    <2> QED
      BY <1>6, <2>1, SidWrite DEF Post, prVars
  <1>7. CASE Created(p)
    <2>1. pc[p] = "created" /\ UNCHANGED <<sid, job>>
      BY <1>7 DEF Created, Found, prVars
    <2>2. PICK f \in BOOLEAN, c \in {"finalGuids", "replicate"} : Read(p, f, c)
      BY <1>7 DEF Created
    <2> QED
      BY <1>1, <2>1, <2>2, SidReadReq
  <1>8. CASE GetCurrent(p)
    <2>1. pc[p] = "get" /\ UNCHANGED <<sid, job>>
      BY <1>8 DEF GetCurrent, Found, prVars
    <2>2. \/ \E m : Continue(p, AfterGet(p, m))
          \/ Continue(p, "guids") \/ (\E r : Return(p, r)) \/ Fails(p)
      BY <1>8 DEF GetCurrent
    <2> QED
      BY <1>1, <2>1, <2>2, SidAfterGet, SidReturn, SidFails, SidCalm DEF Continue
  <1>9. CASE Modify(p)
    <2>1. AfterModify(p, cur[p]) \in Calm
      BY <1>1 DEF AfterModify, PasswordNext
    <2>2. pc[p] = "modify" /\ UNCHANGED <<sid, job>>
      BY <1>9, ModifyStep DEF prVars
    <2> QED
      BY <1>9, <2>1, <2>2, ModifyStep, SidWrite
  <1>10. CASE Move(p)
    <2>1. PasswordNext(p) \in Calm
      BY <1>1 DEF PasswordNext
    <2> QED
      BY <1>10, <2>1, SidWrite DEF Move, prVars
  <1>11. CASE Reread(p)
    <2>1. pc[p] = "reread" /\ UNCHANGED <<sid, job>>
      BY <1>11 DEF Reread, Found
    <2> DEFINE c == IF job[p].can \notin {Nil, CanChange(obj[cur[p].guid])} THEN "sdRead"
                    ELSE IF HasPrincipals(p, cur[p].guid) THEN "finalGuids" ELSE "replicate"
    <2>2. c \in Calm /\ Read(p, obj[cur[p].guid].at \in DNs, c)
      BY <1>1, <1>11 DEF Reread
    <2> HIDE DEF c
    <2> QED
      BY <2>1, <2>2, SidReadReq
  <1>12. CASE Final(p)
    BY <1>1, <1>12, SidReadReq DEF Final, prVars
  <1>13. CASE PrincipalGUIDs(p)
    <2>1. pc[p] \in {"guids", "finalGuids"} /\ UNCHANGED <<sid, job>>
      BY <1>13, PrincipalGUIDsStep
    <2>2. \/ Continue(p, AfterGet(p, cur[p])) \/ Continue(p, pc[p]) \/ Continue(p, "replicate") \/ Fails(p)
      BY <1>13, PrincipalGUIDsStep DEF Looked
    <2> QED
      BY <1>1, <2>1, <2>2, SidAfterGet, SidFails, SidCalm DEF Continue
  <1>14. CASE ResolvePwd(p)
    BY <1>1, <1>14, SidReturn, SidFails, SidCalm DEF ResolvePwd, Continue, prVars
  <1>15. CASE SetPwd(p)
    <2>1. AfterPwd(job[p]) \in Calm
      BY <1>1 DEF AfterPwd, AfterPost
    <2>2. pc[p] = "setpwd" /\ UNCHANGED <<sid, job>>
      BY <1>15, SetPwdStep DEF prVars
    <2> QED
      BY <1>1, <1>15, <2>1, <2>2, SetPwdStep, SidReturn, SidCalm DEF Continue
  <1>16. CASE SDRead(p)
    <2>1. SDNext(p) \in Calm
      BY <1>1 DEF SDNext
    <2> QED
      BY <1>1, <1>16, <2>1, SidReturn, SidFails, SidCalm DEF SDRead, Continue, prVars
  <1>17. CASE SDWrite(p)
    <2>1. SDNext(p) \in Calm
      BY <1>1 DEF SDNext
    <2> QED
      BY <1>1, <1>17, <2>1, SidWrite DEF SDWrite, prVars
  <1>18. CASE DeleteReq(p)
    BY <1>1, <1>18, SidWrite DEF DeleteReq, prVars
  <1>19. CASE Confirm(p)
    BY <1>19, SidReturn, SidFails DEF Confirm, prVars
  <1> QED
    BY <1>2, <1>3, <1>4, <1>5, <1>6, <1>7, <1>8, <1>9, <1>10, <1>11, <1>12, <1>13, <1>14, <1>15, <1>16, <1>17,
       <1>18, <1>19

\* The domain SID is read once: whoever waits in once.Do waits for a goroutine that reads,
\* and nobody looks up principals or writes a descriptor without it (principals.go 24-50),
\* for any number of goroutines and any calls.
THEOREM SidIsReadOnce == AccountSpec => []SidReadOnce
  <1>1. AccountInit => SidReadOnce
    BY DEF AccountInit, SidReadOnce
  <1>2. ASSUME TypeInv, Fixed, SidReadOnce, [AccountNext]_accountVars PROVE SidReadOnce'
    <2>1. CASE UNCHANGED accountVars
      BY <1>2, <2>1 DEF SidReadOnce, accountVars, prVars
    <2>2. CASE AccountNext
      BY <1>2, <2>2, NextActs, SidBegin, SidDomainSID, SidSidRead, SidPrincipals, SidOthers DEF Acts
    <2> QED
      BY <1>2, <2>1, <2>2
  <1> QED
    BY <1>1, <1>2, TypeAlways, PTL DEF AccountSpec
-----------------------------------------------------------------------------
(* Deleted accounts *)

\* A step of p leaves the other goroutines alone.
Frame(p) ==
    \A q \in Procs \ {p} : /\ pc'[q] = pc[q] /\ job'[q] = job[q] /\ res'[q] = res[q] /\ cur'[q] = cur[q]
                           /\ dn'[q] = dn[q] /\ todo'[q] = todo[q] /\ list'[q] = list[q]

LEMMA ContinueFrame ==
  ASSUME TypeInv, NEW p \in Procs, NEW c, Continue(p, c)
  PROVE  /\ pc'[p] = c /\ res'[p] = res[p] /\ holder' = holder
         /\ \A q \in Procs \ {p} : pc'[q] = pc[q] /\ res'[q] = res[q]
  BY DEF Continue, TypeInv, AccountTypeOK

LEMMA ReturnFrame ==
  ASSUME TypeInv, NEW p \in Procs, NEW r, Return(p, r)
  PROVE  /\ pc'[p] = "idle" /\ res'[p] = r
         /\ \A q \in Procs \ {p} : pc'[q] = pc[q] /\ res'[q] = res[q]
  BY DEF Return, TypeInv, AccountTypeOK

\* How a request ends: with an error, or the call goes on.
Stops(p) == \E r \in Results \ {"nil"} : Return(p, r)
Ends(p, c) == Continue(p, c) \/ Stops(p)

LEMMA StopsFrame ==
  ASSUME TypeInv, NEW p \in Procs, Stops(p)
  PROVE  /\ pc'[p] = "idle" /\ res'[p] # "nil"
         /\ \A q \in Procs \ {p} : pc'[q] = pc[q] /\ res'[q] = res[q]
  BY ReturnFrame DEF Stops

LEMMA EndsFrame ==
  ASSUME TypeInv, NEW p \in Procs, NEW c, Ends(p, c), pc[p] # "idle"
  PROVE  /\ pc'[p] \in {"idle", c} /\ res'[p] # "nil"
         /\ \A q \in Procs \ {p} : pc'[q] = pc[q] /\ res'[q] = res[q]
  BY CallOK, ContinueFrame, StopsFrame DEF Ends

LEMMA FailsStops ==
  ASSUME NEW p, Fails(p)
  PROVE  Stops(p)
  BY DEF Fails, Stops, Results

LEMMA ReadEnds ==
  ASSUME NEW p, NEW found, NEW c, Read(p, found, c)
  PROVE  UNCHANGED obj /\ ((found /\ Continue(p, c)) \/ Stops(p))
  BY FailsStops DEF Read, Stops, Results

LEMMA WriteEnds ==
  ASSUME NEW p, NEW r \in Results, NEW new, NEW c, WriteReq(p, r, new, c)
  PROVE  \/ r = "nil" /\ obj' = new /\ Continue(p, c)
         \/ Stops(p) /\ ((r = "nil" /\ obj' = new) \/ UNCHANGED obj)
  BY FailsStops DEF WriteReq, Stops, Results

\* No account comes back.
Ages ==
    /\ born \subseteq born'
    /\ \A g \in Guids : obj'[g].at # Nil => g \in born'
    /\ \A g \in born : obj[g].at = Nil => obj'[g].at = Nil

\* A request changes no account but those at one DN.
Only(d) == /\ d \in DNs /\ born' = born
           /\ \A g \in Guids : obj[g].at # d => obj'[g] = obj[g]

LEMMA OnlyAges ==
  ASSUME TypeInv, Known, NEW d, Only(d)
  PROVE  Ages
  <1>1. d # Nil
    BY AccountAssumption DEF Only
  <1> QED
    BY <1>1 DEF Only, Ages, Known, TypeInv, AccountTypeOK

LEMMA StillAges ==
  ASSUME Known, UNCHANGED <<obj, born>>
  PROVE  Ages
  BY DEF Ages, Known

LEMMA MadeAges ==
  ASSUME TypeInv, Known, NEW p, NEW g \in Guids, Made(p, g)
  PROVE  Ages
  <1>1. \A h \in Guids \ {g} : obj'[h] = obj[h]
    BY DEF Made, TypeInv, AccountTypeOK
  <1> QED
    BY <1>1 DEF Ages, Known, Made, TypeInv, AccountTypeOK

LEMMA GoneOK ==
  ASSUME TypeInv, GoneInv, NEW p \in Procs, Ages, Frame(p), cur'[p] # Nil => cur'[p].guid \in born',
         res'[p] = "nil" /\ job'[p].op = "Delete" /\ cur'[p] # Nil => obj'[cur'[p].guid].at = Nil
  PROVE  GoneInv'
  <1>1. Known'
    <2>1. \A q \in Procs : cur'[q] # Nil => cur'[q].guid \in born'
      BY DEF Frame, GoneInv, Known, Ages
    <2> QED
      BY <2>1 DEF Known, Ages
  <1>2. DeleteNilMeansGone'
    <2> SUFFICES ASSUME NEW q \in Procs, res'[q] = "nil", job'[q].op = "Delete", cur'[q] # Nil
                 PROVE  obj'[cur'[q].guid].at = Nil
      BY DEF DeleteNilMeansGone
    <2>1. CASE q = p
      BY <2>1
    <2>2. CASE q # p
      <3>1. cur'[q] = cur[q] /\ cur[q].guid \in born /\ obj[cur[q].guid].at = Nil
        BY <2>2 DEF Frame, GoneInv, Known, DeleteNilMeansGone
      <3> QED
        BY <3>1 DEF Ages
    <2> QED
      BY <2>1, <2>2
  <1> QED
    BY <1>1, <1>2 DEF GoneInv

\* Steps that leave the accounts, or those away from one DN, and do not end a Delete.
LEMMA GoneQuiet ==
  ASSUME TypeInv, GoneInv, NEW p \in Procs, pc[p] # "idle", NEW c, Ends(p, c),
         UNCHANGED <<born, job, cur>>, UNCHANGED obj \/ \E d : Only(d),
         \A q \in Procs \ {p} : dn'[q] = dn[q] /\ todo'[q] = todo[q] /\ list'[q] = list[q]
  PROVE  GoneInv' /\ Frame(p)
  <1>1. Ages
    BY OnlyAges, StillAges DEF GoneInv
  <1>2. Frame(p) /\ res'[p] # "nil"
    BY EndsFrame DEF Frame
  <1>3. cur'[p] # Nil => cur'[p].guid \in born'
    BY DEF GoneInv, Known
  <1> QED
    BY <1>1, <1>2, <1>3, GoneOK

\* A write of the accounts at one DN.
LEMMA GoneWrite ==
  ASSUME TypeInv, GoneInv, NEW p \in Procs, pc[p] # "idle", NEW r \in Results, NEW new, NEW c, NEW d \in DNs,
         WriteReq(p, r, new, c), \A g \in Guids : obj[g].at # d => new[g] = obj[g],
         UNCHANGED <<prVars, born, job, cur, dn>>
  PROVE  GoneInv' /\ Frame(p)
  <1>1. Ends(p, c) /\ (UNCHANGED obj \/ obj' = new)
    BY WriteEnds DEF Ends
  <1>2. obj' = new => Only(d)
    BY DEF Only
  <1> QED
    BY <1>1, <1>2, GoneQuiet DEF prVars

LEMMA GoneBegin ==
  ASSUME TypeInv, GoneInv, NEW p \in Procs, NEW j, Begin(p, j)
  PROVE  GoneInv' /\ Frame(p)
  <1>1. Frame(p) /\ cur'[p] = Nil
    BY DEF Begin, Frame, TypeInv, AccountTypeOK
  <1>2. Ages
    BY StillAges DEF GoneInv, Begin
  <1> QED
    BY <1>1, <1>2, GoneOK

LEMMA GoneLock ==
  ASSUME TypeInv, GoneInv, NEW p \in Procs, Lock(p)
  PROVE  GoneInv' /\ Frame(p)
  <1>1. Frame(p) /\ cur'[p] = cur[p] /\ res'[p] = "none"
    BY CallOK DEF Lock, Frame, TypeInv, AccountTypeOK, prVars
  <1>2. Ages
    BY StillAges DEF GoneInv, Lock
  <1>3. cur'[p] # Nil => cur'[p].guid \in born'
    BY <1>1 DEF GoneInv, Known, Lock
  <1> QED
    BY <1>1, <1>2, <1>3, GoneOK

LEMMA GoneReplicate ==
  ASSUME TypeInv, GoneInv, NEW p \in Procs, Replicate(p)
  PROVE  GoneInv' /\ Frame(p)
  <1>1. job[p].op # "Delete"
    BY CallOK DEF Replicate, Path
  <1>2. Frame(p)
    BY ReturnFrame DEF Replicate, Frame, prVars
  <1>3. Ages
    BY StillAges DEF GoneInv, Replicate
  <1> QED
    BY <1>1, <1>2, <1>3, GoneOK DEF Replicate, GoneInv, Known

LEMMA GoneAdd ==
  ASSUME TypeInv, GoneInv, NEW p \in Procs, Add(p)
  PROVE  GoneInv' /\ Frame(p)
  <1>1. pc[p] = "add" /\ UNCHANGED <<prVars, job, dn>>
    BY AddStep
  <1>2. CASE UNCHANGED <<obj, born, cur>> /\ (Continue(p, "probeDeleted") \/ Fails(p))
    <2>1. Ends(p, "probeDeleted")
      BY <1>2, FailsStops DEF Ends
    <2> QED
      BY <1>1, <1>2, <2>1, GoneQuiet DEF prVars
  <1>3. ASSUME NEW g \in Guids, Made(p, g), NEW c, Continue(p, c) \/ Return(p, "Transport")
        PROVE  GoneInv' /\ Frame(p)
    <2>1. Ends(p, c)
      BY <1>3 DEF Ends, Stops, Results
    <2>2. cur'[p] = [guid |-> g, o |-> Fresh(p)] /\ \A q \in Procs \ {p} : cur'[q] = cur[q]
      BY <1>3 DEF Made, TypeInv, AccountTypeOK
    <2>3. Frame(p) /\ res'[p] # "nil"
      BY <1>1, <2>1, <2>2, EndsFrame DEF Frame, prVars
    <2>4. Ages
      BY <1>3, MadeAges DEF GoneInv
    <2>5. cur'[p].guid \in born'
      BY <1>3, <2>2 DEF Made
    <2> QED
      BY <2>3, <2>4, <2>5, GoneOK
  <1> QED
    BY <1>2, <1>3, AddStep

LEMMA GoneReads ==
  ASSUME TypeInv, GoneInv, NEW p \in Procs, ProbeDeleted(p) \/ Created(p) \/ Reread(p) \/ Final(p) \/ SDRead(p)
  PROVE  GoneInv' /\ Frame(p)
  <1>1. CASE ProbeDeleted(p)
    <2>1. Ends(p, "idle")
      BY <1>1 DEF ProbeDeleted, Ends, Stops, Results
    <2> QED
      BY <1>1, <2>1, GoneQuiet DEF ProbeDeleted, prVars
  <1>2. CASE Created(p)
    <2>1. pc[p] = "created" /\ UNCHANGED <<born, job, cur, dn>>
      BY <1>2 DEF Created
    <2>2. \A q \in Procs \ {p} : todo'[q] = todo[q] /\ list'[q] = list[q]
      BY <1>2 DEF Created, Found, prVars, TypeInv, AccountTypeOK
    <2>3. \E f \in BOOLEAN : \E c \in {"finalGuids", "replicate"} : Read(p, f, c)
      BY <1>2 DEF Created
    <2>4. UNCHANGED obj /\ \E c : Ends(p, c)
      BY <2>3, ReadEnds DEF Ends
    <2> QED
      BY <2>1, <2>2, <2>4, GoneQuiet
  <1>3. CASE Reread(p)
    <2> DEFINE f == obj[cur[p].guid].at \in DNs
               c == IF job[p].can \notin {Nil, CanChange(obj[cur[p].guid])} THEN "sdRead"
                    ELSE IF HasPrincipals(p, cur[p].guid) THEN "finalGuids" ELSE "replicate"
    <2>1. pc[p] = "reread" /\ UNCHANGED <<born, job, cur>> /\ Read(p, f, c)
      BY <1>3 DEF Reread
    <2>2. \A q \in Procs \ {p} : todo'[q] = todo[q] /\ list'[q] = list[q] /\ dn'[q] = dn[q]
      BY <1>3 DEF Reread, Found, TypeInv, AccountTypeOK
    <2> HIDE DEF f, c
    <2>3. UNCHANGED obj /\ Ends(p, c)
      BY <2>1, ReadEnds DEF Ends
    <2> QED
      BY <2>1, <2>2, <2>3, GoneQuiet
  <1>4. CASE Final(p)
    <2>1. UNCHANGED obj /\ Ends(p, "replicate")
      BY <1>4, ReadEnds DEF Final, Ends
    <2> QED
      BY <1>4, <2>1, GoneQuiet DEF Final, prVars
  <1>5. CASE SDRead(p)
    <2>1. \E c : Ends(p, c)
      BY <1>5, FailsStops DEF SDRead, Ends, Stops, Results
    <2> QED
      BY <1>5, <2>1, GoneQuiet DEF SDRead, prVars
  <1> QED
    BY <1>1, <1>2, <1>3, <1>4, <1>5

LEMMA GoneGet ==
  ASSUME TypeInv, GoneInv, NEW p \in Procs, GetCurrent(p)
  PROVE  GoneInv' /\ Frame(p)
  <1>1. /\ pc[p] = "get" /\ cur[p] = Nil /\ res[p] = "none" /\ UNCHANGED <<born, obj, job, dn>>
    BY CallOK DEF GetCurrent, Path
  <1>2. ASSUME NEW g \in Matches(job[p].id, job[p].class), Found(p, g), NEW c, Continue(p, c),
               cur' = [cur EXCEPT ![p] = [guid |-> g, o |-> obj[g]]]
        PROVE  GoneInv' /\ Frame(p)
    <2>1. g \in Guids /\ g \in born
      BY AccountAssumption DEF Matches, GoneInv, Known
    <2>2. cur'[p].guid = g /\ \A q \in Procs \ {p} : cur'[q] = cur[q]
      BY <1>2 DEF TypeInv, AccountTypeOK
    <2>3. \A q \in Procs \ {p} : todo'[q] = todo[q] /\ list'[q] = list[q]
      BY <1>2 DEF Found, TypeInv, AccountTypeOK
    <2>4. Frame(p) /\ res'[p] = "none"
      BY <1>1, <1>2, <2>2, <2>3, ContinueFrame DEF Frame
    <2>5. Ages
      BY <1>1, StillAges DEF GoneInv
    <2> QED
      BY <1>1, <2>1, <2>2, <2>4, <2>5, GoneOK
  <1>3. ASSUME UNCHANGED <<prVars, cur>>, NEW r, Return(p, r) PROVE GoneInv' /\ Frame(p)
    <2>1. Frame(p) /\ Ages
      BY <1>1, <1>3, ReturnFrame, StillAges DEF Frame, prVars, GoneInv
    <2> QED
      BY <1>1, <1>3, <2>1, GoneOK
  <1> QED
    BY <1>2, <1>3 DEF GetCurrent, Fails

LEMMA GoneWrites ==
  ASSUME TypeInv, GoneInv, NEW p \in Procs, Post(p) \/ Modify(p) \/ Move(p) \/ SDWrite(p) \/ DeleteReq(p)
  PROVE  GoneInv' /\ Frame(p)
  <1>0. pc[p] # "idle" /\ job[p] \in Jobs /\ job[p].dn \in DNs /\ {"NotFound", "Password", "AlreadyExists", "nil"} \subseteq Results
    <2>1. pc[p] # "idle"
      BY ModifyStep DEF Post, Move, SDWrite, DeleteReq
    <2> QED
      BY <2>1, CallOK, JobTypes DEF Results
  <1>1. CASE Post(p)
    <2> DEFINE E(o) == [o EXCEPT !.must = @ \/ job[p].must = TRUE,
                                 !.word = IF job[p].on = TRUE THEN Enabled(job[p]) ELSE @]
    <2>1. WriteReq(p, Verdict(job[p].dn, E), Edit(job[p].dn, E), AfterPost(job[p]))
      BY <1>1 DEF Post
    <2> HIDE DEF E
    <2>2. Verdict(job[p].dn, E) \in Results /\ \A g \in Guids : obj[g].at # job[p].dn => Edit(job[p].dn, E)[g] = obj[g]
      BY <1>0 DEF Verdict, Edit
    <2>3. UNCHANGED <<prVars, born, job, cur, dn>>
      BY <1>1 DEF Post
    <2> QED
      BY <1>0, <2>1, <2>2, <2>3, GoneWrite
  <1>2. CASE Modify(p)
    <2> DEFINE d == cur[p].o.at
               new == Edit(d, LAMBDA o : Modified(p, o))
    <2>1. UNCHANGED <<prVars, born, job, cur, dn>> /\ pc[p] = "modify"
      BY <1>2, ModifyStep
    <2>2. d \in DNs
      BY <2>1, CallOK, ModelTypes DEF Path
    <2>3. PICK r \in {"NotFound", "Password", "nil"} : WriteReq(p, r, new, AfterModify(p, cur[p]))
      BY <1>2, ModifyStep
    <2>4. \A g \in Guids : obj[g].at # d => new[g] = obj[g]
      BY DEF Edit
    <2> HIDE DEF new
    <2> QED
      BY <1>0, <2>1, <2>2, <2>3, <2>4, GoneWrite
  <1>3. CASE Move(p)
    <2> DEFINE d == cur[p].o.at
               r == IF At(d) = {} THEN "NotFound" ELSE IF At(job[p].dn) # {} THEN "AlreadyExists" ELSE "nil"
               new == Edit(d, LAMBDA o : [o EXCEPT !.at = job[p].dn])
    <2>1. UNCHANGED <<prVars, born, job, cur, dn>> /\ pc[p] = "move" /\ WriteReq(p, r, new, PasswordNext(p))
      BY <1>3 DEF Move
    <2>2. d \in DNs
      BY <2>1, CallOK, ModelTypes DEF Path
    <2>3. r \in Results /\ \A g \in Guids : obj[g].at # d => new[g] = obj[g]
      BY <1>0 DEF Edit
    <2> HIDE DEF new, r
    <2> QED
      BY <1>0, <2>1, <2>2, <2>3, GoneWrite
  <1>4. CASE SDWrite(p)
    <2> DEFINE d == SDTarget(p)
               r == IF At(d) = {} THEN "NotFound" ELSE "nil"
               new == Edit(d, LAMBDA o : [o EXCEPT !.deny = ~job[p].can])
    <2>1. UNCHANGED <<prVars, born, job, cur, dn>> /\ pc[p] = "sdWrite" /\ WriteReq(p, r, new, SDNext(p))
      BY <1>4 DEF SDWrite
    <2>2. d \in DNs
      BY <2>1, SDPath
    <2>3. r \in Results /\ \A g \in Guids : obj[g].at # d => new[g] = obj[g]
      BY <1>0 DEF Edit
    <2> HIDE DEF new, r
    <2> QED
      BY <1>0, <2>1, <2>2, <2>3, GoneWrite
  <1>5. CASE DeleteReq(p)
    <2> DEFINE d == cur[p].o.at
               r == IF At(d) = {} THEN "NotFound" ELSE "nil"
               new == Edit(d, Deleted)
    <2>1. UNCHANGED <<prVars, born, job, cur, dn>> /\ pc[p] = "delete" /\ WriteReq(p, r, new, "confirm")
      BY <1>5 DEF DeleteReq
    <2>2. d \in DNs
      BY <2>1, CallOK, ModelTypes DEF Path
    <2>3. r \in Results /\ \A g \in Guids : obj[g].at # d => new[g] = obj[g]
      BY <1>0 DEF Edit
    <2> HIDE DEF new, r
    <2> QED
      BY <1>0, <2>1, <2>2, <2>3, GoneWrite
  <1> QED
    BY <1>1, <1>2, <1>3, <1>4, <1>5

LEMMA GonePrincipals ==
  ASSUME TypeInv, GoneInv, NEW p \in Procs,
         DomainSID(p) \/ SidRead(p) \/ PrincipalSIDs(p) \/ PrincipalGUIDs(p) \/ ResolvePwd(p)
  PROVE  GoneInv' /\ Frame(p)
  <1>1. CASE DomainSID(p)
    <2>1. pc[p] = "sid" /\ UNCHANGED <<born, obj, job, cur, dn>>
      BY <1>1 DEF DomainSID
    <2>2. \A q \in Procs \ {p} : todo'[q] = todo[q] /\ list'[q] = list[q]
      BY <1>1 DEF DomainSID, SidKnown, prVars, TypeInv, AccountTypeOK
    <2>3. \E c : Ends(p, c)
      BY <1>1 DEF DomainSID, SidKnown, Ends, Stops, Results, SidErrors
    <2> QED
      BY <2>1, <2>2, <2>3, GoneQuiet
  <1>2. CASE SidRead(p)
    <2>1. pc[p] = "sidRead" /\ UNCHANGED <<born, obj, job, cur, dn>>
      BY <1>2 DEF SidRead
    <2>2. \A q \in Procs \ {p} : todo'[q] = todo[q] /\ list'[q] = list[q]
      BY <1>2 DEF SidRead, SidKnown, TypeInv, AccountTypeOK
    <2>3. \E c : Ends(p, c)
      BY <1>2 DEF SidRead, SidKnown, Ends, Stops, Results, SidErrors
    <2> QED
      BY <2>1, <2>2, <2>3, GoneQuiet
  <1>3. CASE PrincipalSIDs(p)
    <2>1. pc[p] = "principals" /\ UNCHANGED <<born, obj, job, cur, dn>>
      BY <1>3 DEF PrincipalSIDs
    <2>2. \A q \in Procs \ {p} : todo'[q] = todo[q] /\ list'[q] = list[q]
      BY <1>3 DEF PrincipalSIDs, TypeInv, AccountTypeOK
    <2>3. \E c : Ends(p, c)
      BY <1>3, FailsStops DEF PrincipalSIDs, Ends, Stops, Results
    <2> QED
      BY <2>1, <2>2, <2>3, GoneQuiet
  <1>4. CASE PrincipalGUIDs(p)
    <2>1. pc[p] \in {"guids", "finalGuids"} /\ UNCHANGED <<born, obj, job, cur, dn>>
      BY <1>4, PrincipalGUIDsStep
    <2>2. \A q \in Procs \ {p} : todo'[q] = todo[q] /\ list'[q] = list[q]
      BY <1>4, PrincipalGUIDsStep DEF Looked, TypeInv, AccountTypeOK
    <2>3. \E c : Ends(p, c)
      BY <1>4, PrincipalGUIDsStep, FailsStops DEF Looked, Ends
    <2> QED
      BY <2>1, <2>2, <2>3, GoneQuiet
  <1>5. CASE ResolvePwd(p)
    <2>1. pc[p] = "resolve" /\ UNCHANGED <<prVars, born, obj, job, cur>>
      BY <1>5 DEF ResolvePwd
    <2>2. \A q \in Procs \ {p} : dn'[q] = dn[q]
      BY <1>5 DEF ResolvePwd, TypeInv, AccountTypeOK
    <2>3. Ends(p, "setpwd")
      BY <1>5, FailsStops DEF ResolvePwd, Ends, Stops, Results
    <2> QED
      BY <2>1, <2>2, <2>3, GoneQuiet DEF prVars
  <1> QED
    BY <1>1, <1>2, <1>3, <1>4, <1>5

LEMMA GoneSetPwd ==
  ASSUME TypeInv, GoneInv, NEW p \in Procs, SetPwd(p)
  PROVE  GoneInv' /\ Frame(p)
  <1>1. /\ pc[p] = "setpwd" /\ UNCHANGED <<prVars, born, job, cur, dn>>
        /\ job[p].op # "Delete" /\ dn[p] \in DNs
    BY SetPwdStep, PasswordIDTypes
  <1>2. Ages
    <2>1. CASE UNCHANGED obj
      BY <1>1, <2>1, StillAges DEF GoneInv
    <2>2. CASE obj' = [g \in Guids |-> IF obj[g].at = dn[p] THEN Stamped(p, g) ELSE obj[g]]
      BY <1>1, <2>2, OnlyAges DEF Only, GoneInv
    <2> QED
      BY <2>1, <2>2, SetPwdStep
  <1>3. Frame(p)
    <2>1. \A q \in Procs \ {p} : pc'[q] = pc[q] /\ res'[q] = res[q]
      BY SetPwdStep, ContinueFrame, ReturnFrame DEF TypeInv, AccountTypeOK
    <2> QED
      BY <1>1, <2>1 DEF Frame, prVars
  <1> QED
    BY <1>1, <1>2, <1>3, GoneOK DEF GoneInv, Known

LEMMA GoneConfirm ==
  ASSUME TypeInv, GoneInv, NEW p \in Procs, Confirm(p)
  PROVE  GoneInv' /\ Frame(p)
  <1>1. pc[p] = "confirm" /\ UNCHANGED <<prVars, born, obj, job, cur, dn>>
    BY DEF Confirm
  <1>2. CASE obj[cur[p].guid].at = Nil /\ Return(p, "nil")
    <2>1. Frame(p) /\ Ages
      BY <1>1, <1>2, ReturnFrame, StillAges DEF Frame, prVars, GoneInv
    <2> QED
      BY <1>1, <1>2, <2>1, GoneOK DEF GoneInv, Known
  <1>3. CASE Return(p, "Constraint") \/ Fails(p)
    <2>1. Ends(p, "idle")
      BY <1>3, FailsStops DEF Ends, Stops, Results
    <2> QED
      BY <1>1, <2>1, GoneQuiet DEF prVars
  <1> QED
    BY <1>2, <1>3 DEF Confirm

LEMMA GoneStep ==
  ASSUME TypeInv, GoneInv, NEW p \in Procs, Acts(p)
  PROVE  GoneInv' /\ Frame(p)
  <1>1. CASE \E j \in load.jobs : Begin(p, j)
    BY <1>1, GoneBegin
  <1>2. CASE Lock(p) \/ Replicate(p) \/ Add(p) \/ GetCurrent(p) \/ SetPwd(p) \/ Confirm(p)
    BY <1>2, GoneLock, GoneReplicate, GoneAdd, GoneGet, GoneSetPwd, GoneConfirm
  <1>3. CASE ProbeDeleted(p) \/ Created(p) \/ Reread(p) \/ Final(p) \/ SDRead(p)
    BY <1>3, GoneReads
  <1>4. CASE Post(p) \/ Modify(p) \/ Move(p) \/ SDWrite(p) \/ DeleteReq(p)
    BY <1>4, GoneWrites
  <1>5. CASE DomainSID(p) \/ SidRead(p) \/ PrincipalSIDs(p) \/ PrincipalGUIDs(p) \/ ResolvePwd(p)
    BY <1>5, GonePrincipals
  <1> QED
    BY <1>1, <1>2, <1>3, <1>4, <1>5 DEF Acts

LEMMA GoneInit ==
  ASSUME AccountInit
  PROVE  GoneInv
  <1>1. \A g \in Guids : obj[g].at # Nil => g \in born
    BY InitObjects
  <1>2. \A p \in Procs : cur[p] = Nil /\ res[p] = "none"
    BY DEF AccountInit
  <1> QED
    BY <1>1, <1>2 DEF GoneInv, Known, DeleteNilMeansGone

LEMMA GoneAlways == AccountSpec => [](TypeInv /\ Fixed /\ GoneInv)
  <1>1. AccountInit => GoneInv
    BY GoneInit
  <1>2. ASSUME TypeInv, Fixed, GoneInv, [AccountNext]_accountVars PROVE GoneInv'
    <2>1. CASE UNCHANGED accountVars
      BY <1>2, <2>1 DEF GoneInv, Known, DeleteNilMeansGone, accountVars, prVars
    <2>2. CASE AccountNext
      BY <1>2, <2>2, NextActs, GoneStep
    <2> QED
      BY <1>2, <2>1, <2>2
  <1> QED
    BY <1>1, <1>2, TypeAlways, PTL DEF AccountSpec

\* "Delete returns nil only after a re-read confirms the object is gone" (computer.go 395),
\* and it stays gone, whatever the other goroutines call and however they name accounts.
THEOREM DeletedAccountIsGone == AccountSpec => []DeleteNilMeansGone
  <1>1. GoneInv => DeleteNilMeansGone
    BY DEF GoneInv
  <1> QED
    BY <1>1, GoneAlways, PTL
-----------------------------------------------------------------------------
(* Calls that do not meet: the lemmas *)

\* A step of p changes no account but the one p works on; a new one was not there before.
Touches(p) == \A g \in born : obj'[g] # obj[g] => W(p) /\ g = S(p)

\* What is left to show of p after its step.
Kept(p) ==
    /\ pc'[p] # "idle" => job'[p] \in load.jobs
    /\ Draft(pc'[p], job'[p], todo'[p], list'[p], born')
    /\ Works(pc'[p], job'[p], cur'[p]) =>
         LET s == Subject(job'[p], cur'[p])
         IN /\ s \in born'
            /\ Mine(pc'[p], job'[p], cur'[p], dn'[p], todo'[p], list'[p], s, obj'[s], Gone', DOMAIN load.start)
            /\ \A q \in Procs \ {p} : W(q) => S(q) # s

\* The others keep what they know.
LEMMA OthersKept ==
  ASSUME TypeInv, SerialInv, UNCHANGED load, NEW p \in Procs, NEW q \in Procs \ {p}, Ages, Frame(p), Touches(p)
  PROVE  /\ (pc[q] # "idle" => job[q] \in load.jobs)'
         /\ Draft(pc[q], job[q], todo[q], list[q], born)'
         /\ W(q)' <=> W(q)
         /\ S(q)' = S(q)
         /\ W(q)' => S(q)' \in born' /\ Local(q)'
  <1>1. /\ pc'[q] = pc[q] /\ job'[q] = job[q] /\ cur'[q] = cur[q] /\ dn'[q] = dn[q]
        /\ todo'[q] = todo[q] /\ list'[q] = list[q] /\ load' = load
    BY DEF Frame
  <1>2. (W(q)' <=> W(q)) /\ S(q)' = S(q)
    BY <1>1 DEF W, S
  <1>3. (pc[q] # "idle" => job[q] \in load.jobs)' /\ Draft(pc[q], job[q], todo[q], list[q], born)'
    <2>1. Draft(pc[q], job[q], todo[q], list[q], born) /\ born \subseteq born' /\ (pc[q] # "idle" => job[q] \in load.jobs)
      BY DEF SerialInv, Ages
    <2>2. Draft(pc[q], job[q], todo[q], list[q], born')
      BY <2>1 DEF Draft
    <2> QED
      BY <1>1, <2>1, <2>2
  <1>4. ASSUME W(q) PROVE S(q)' \in born' /\ Local(q)'
    <2> DEFINE s == S(q)
               w == IF job[q].class = Class[s] THEN obj[s].who ELSE Nil
               M(gone) == Mine(pc[q], job[q], cur[q], dn[q], todo[q], list[q], s, obj[s], gone, DOMAIN load.start)
               R(gone) == ReadList(pc[q], w, todo[q], list[q], gone)
    <2>1. s \in born /\ M(Gone) /\ s \in Guids
      BY <1>4 DEF SerialInv, Local, TypeInv, AccountTypeOK
    <2>2. obj'[s] = obj[s]
      BY <1>4, <2>1 DEF Touches, SerialInv
    <2>3. w # Nil => w \subseteq born
      BY <2>1 DEF SerialInv, Whole
    <2>4. born \intersect Gone \subseteq Gone'
      BY DEF Ages, Gone
    <2>5. R(Gone) => R(Gone')
      BY <2>3, <2>4 DEF ReadList
    <2>6. M(Gone')
      BY <2>1, <2>5 DEF Mine
    <2>7. Local(q)'
      BY <1>1, <1>2, <2>2, <2>6 DEF Local
    <2> QED
      BY <1>2, <2>1, <2>7 DEF Ages
  <1> QED
    BY <1>2, <1>3, <1>4

LEMMA SerialOK ==
  ASSUME TypeInv, SerialInv, UNCHANGED load, NEW p \in Procs, Ages, Frame(p), Touches(p), Whole', Kept(p)
  PROVE  SerialInv'
  <1>1. (DOMAIN load.start \subseteq born)'
    BY DEF SerialInv, Ages
  <1>2. \A q \in Procs : (pc[q] # "idle" => job[q] \in load.jobs)'
    BY OthersKept DEF Kept
  <1>3. \A q \in Procs : Draft(pc[q], job[q], todo[q], list[q], born)'
    BY OthersKept DEF Kept
  <1>4. W(p)' => /\ S(p)' \in born' /\ Local(p)'
                 /\ \A q \in Procs \ {p} : W(q) => S(q) # S(p)'
    BY DEF Kept, W, S, Local
  <1>5. \A q \in Procs : W(q)' => S(q)' \in born' /\ Local(q)'
    BY <1>4, OthersKept
  <1>6. \A q \in Procs \ {p} : (W(q)' <=> W(q)) /\ S(q)' = S(q)
    BY OthersKept
  <1>7. \A q, r \in Procs : W(q)' /\ W(r)' /\ S(q)' = S(r)' => q = r
    BY <1>4, <1>6 DEF SerialInv
  <1> QED
    BY <1>1, <1>2, <1>3, <1>5, <1>7 DEF SerialInv

\* Who works, and on what.
LEMMA Working ==
  ASSUME TypeInv, SerialInv, NEW p \in Procs, pc[p] # "idle"
  PROVE  /\ job[p] \in load.jobs
         /\ job[p].op = "Create" => (W(p) <=> cur[p] # Nil)
         /\ job[p].op = "Create" /\ pc[p] \in {"add", "probeDeleted", "sid", "sidRead", "principals"} => ~W(p)
         /\ pc[p] \in {"post", "created", "modify", "move", "reread", "final", "delete", "confirm", "guids", "get",
                       "sdRead", "sdWrite", "finalGuids", "replicate", "resolve", "setpwd"} => W(p)
         /\ job[p].op # "Create" /\ pc[p] # "lock" => W(p)
         /\ cur[p] # Nil => S(p) = cur[p].guid
         /\ W(p) => S(p) \in born /\ S(p) \in Guids /\ obj[S(p)] \in Objects /\ Local(p)
  <1>1. job[p] \in load.jobs /\ job[p] \in Jobs
    BY CallOK DEF SerialInv
  <1>2. Path(pc[p], job[p], cur[p], dn[p], res[p], list[p])
    BY DEF TypeInv
  <1>3. Nil \notin Models
    BY AccountAssumption DEF Models
  <1>4. job[p].op \in {"Create", "Update", "Delete", "SetPassword"}
    BY <1>1, JobTypes
  <1>5. W(p) => S(p) \in born /\ S(p) \in Guids /\ obj[S(p)] \in Objects /\ Local(p)
    BY DEF SerialInv, TypeInv, AccountTypeOK
  <1>6. /\ job[p].op = "Create" => (W(p) <=> cur[p] # Nil)
        /\ job[p].op # "Create" /\ pc[p] # "lock" => W(p)
    BY <1>4 DEF W, Works
  <1>7. job[p].op = "Create" /\ pc[p] \in {"add", "probeDeleted", "sid", "sidRead", "principals"} => ~W(p)
    BY <1>2, <1>6 DEF Path
  <1>8. pc[p] \in {"post", "created", "modify", "move", "reread", "final", "delete", "confirm", "guids", "get",
                   "sdRead", "sdWrite", "finalGuids", "replicate", "resolve", "setpwd"} => W(p)
    BY <1>2, <1>3, <1>4, <1>6 DEF Path
  <1> QED
    BY <1>1, <1>5, <1>6, <1>7, <1>8 DEF S, Subject

\* The accounts after a step that changed one of them.
LEMMA WholeEdit ==
  ASSUME TypeInv, SerialInv, NEW s \in Guids, born' = born, \A g \in Guids \ {s} : obj'[g] = obj[g],
         obj'[s].at \in {obj[s].at, Nil} \/ At(obj'[s].at) = {},
         obj'[s].pwd \in {Nil, s},
         obj'[s].who # Nil => Class[s] \in {"computer", "gmsa"} /\ obj'[s].who \subseteq born
  PROVE  Whole'
  <1>1. \A g, h \in Guids : obj'[g].at = obj'[h].at /\ obj'[g].at # Nil => g = h
    BY DEF SerialInv, Whole, At
  <1>2. \A g \in Guids : obj'[g].pwd \in {Nil, g}
    BY DEF SerialInv, Whole
  <1>3. \A g \in Guids : obj'[g].who # Nil => Class[g] \in {"computer", "gmsa"} /\ obj'[g].who \subseteq born'
    BY DEF SerialInv, Whole
  <1> QED
    BY <1>1, <1>2, <1>3 DEF Whole

LEMMA WholeStill ==
  ASSUME SerialInv, UNCHANGED <<obj, born>>
  PROVE  Whole'
  BY DEF SerialInv, Whole

\* The account at a DN is the only one there.
LEMMA Sole ==
  ASSUME TypeInv, SerialInv, NEW s \in Guids, NEW d \in DNs, obj[s].at = d
  PROVE  At(d) = {s}
  <1>1. d # Nil
    BY AccountAssumption
  <1> QED
    BY <1>1 DEF At, SerialInv, Whole

\* A step that ends the call, or leaves no account to it, and changes no account.
LEMMA SerialQuiet ==
  ASSUME TypeInv, GoneInv, SerialInv, UNCHANGED load, NEW p \in Procs, Frame(p), UNCHANGED <<obj, born>>,
         pc'[p] # "idle" => job'[p] \in load.jobs /\ Draft(pc'[p], job'[p], todo'[p], list'[p], born),
         ~Works(pc'[p], job'[p], cur'[p])
  PROVE  SerialInv'
  <1>1. Ages /\ Whole' /\ Touches(p)
    BY StillAges, WholeStill DEF GoneInv, Touches
  <1>2. Draft(pc'[p], job'[p], todo'[p], list'[p], born')
    BY DEF Draft, WriteList
  <1>3. Kept(p)
    BY <1>2 DEF Kept
  <1> QED
    BY <1>1, <1>3, SerialOK

\* A step of a call on the account it works on already.
LEMMA SerialMine ==
  ASSUME TypeInv, GoneInv, SerialInv, UNCHANGED load, NEW p \in Procs, Frame(p), W(p), Ages, Whole',
         born' = born, job'[p] = job[p], cur'[p] = cur[p] \/ (cur'[p] # Nil /\ cur'[p].guid = S(p)),
         \A g \in Guids \ {S(p)} : obj'[g] = obj[g],
         pc'[p] # "idle" =>
            /\ Draft(pc'[p], job[p], todo'[p], list'[p], born)
            /\ Mine(pc'[p], job[p], cur'[p], dn'[p], todo'[p], list'[p], S(p), obj'[S(p)], Gone', DOMAIN load.start)
  PROVE  SerialInv'
  <1>1. pc[p] # "idle" /\ job[p] \in load.jobs /\ S(p) \in born /\ born \subseteq Guids
    BY DEF W, Works, SerialInv, TypeInv, AccountTypeOK
  <1>2. Touches(p)
    BY <1>1 DEF Touches
  <1>3. Subject(job'[p], cur'[p]) = S(p)
    BY DEF Subject, S
  <1>4. \A q \in Procs \ {p} : W(q) => S(q) # S(p)
    BY DEF SerialInv
  <1>5. Draft(pc'[p], job'[p], todo'[p], list'[p], born')
    BY DEF Draft, WriteList
  <1>6. Kept(p)
    BY <1>1, <1>3, <1>4, <1>5 DEF Kept, Works
  <1> QED
    BY <1>2, <1>6, SerialOK

\* The same without a change of the accounts.
LEMMA SerialStay ==
  ASSUME TypeInv, GoneInv, SerialInv, UNCHANGED load, NEW p \in Procs, Frame(p), W(p),
         UNCHANGED <<obj, born>>, job'[p] = job[p], cur'[p] = cur[p],
         pc'[p] # "idle" =>
            /\ Draft(pc'[p], job[p], todo'[p], list'[p], born)
            /\ Mine(pc'[p], job[p], cur[p], dn'[p], todo'[p], list'[p], S(p), obj[S(p)], Gone, DOMAIN load.start)
  PROVE  SerialInv'
  <1>1. Ages /\ Whole' /\ Gone' = Gone
    BY StillAges, WholeStill DEF GoneInv, Gone
  <1> QED
    BY <1>1, SerialMine

\* The call ends.
LEMMA SerialEnds ==
  ASSUME TypeInv, GoneInv, SerialInv, UNCHANGED load, NEW p \in Procs, Frame(p), UNCHANGED <<obj, born>>,
         pc'[p] = "idle"
  PROVE  SerialInv'
  BY SerialQuiet DEF Works

LEMMA SerialBegin ==
  ASSUME TypeInv, GoneInv, SerialInv, UNCHANGED load, NEW p \in Procs, Frame(p), NEW j \in load.jobs, Begin(p, j)
  PROVE  SerialInv'
  <1>1. /\ job'[p] = j /\ cur'[p] = Nil /\ list'[p] = Nil /\ UNCHANGED <<obj, born>>
        /\ pc'[p] = IF j.op # "Create" THEN "lock" ELSE IF NeedsSD(j) THEN "sid" ELSE "add"
    BY DEF Begin, TypeInv, AccountTypeOK
  <1>2. ~Works(pc'[p], job'[p], cur'[p])
    BY <1>1 DEF Works
  <1>3. Draft(pc'[p], job'[p], todo'[p], list'[p], born)
    BY <1>1 DEF Draft, WriteList
  <1> QED
    BY <1>1, <1>2, <1>3, SerialQuiet

LEMMA SerialLock ==
  ASSUME TypeInv, GoneInv, SerialInv, Serialised, UNCHANGED load, NEW p \in Procs, Frame(p), Lock(p)
  PROVE  SerialInv'
  <1>1. /\ pc[p] = "lock" /\ holder[KeyOf(job[p])] = Nil /\ UNCHANGED <<prVars, obj, born, job, cur, dn>>
        /\ pc'[p] = IF job[p].op \in {"Update", "Delete"} THEN "get" ELSE "resolve"
    BY DEF Lock, Key, KeyOf, TypeInv, AccountTypeOK
  <1>2. Draft(pc'[p], job[p], todo'[p], list'[p], born)
    BY <1>1 DEF Draft, WriteList
  <1>3. CASE job[p].op = "Create"
    <2>1. W(p) /\ Local(p)
      <3>1. cur[p] # Nil
        BY <1>1, <1>3, AccountAssumption DEF TypeInv, Path, Models
      <3> QED
        BY <1>1, <1>3, <3>1, Working
    <2>2. Mine(pc'[p], job[p], cur[p], dn'[p], todo'[p], list'[p], S(p), obj[S(p)], Gone, DOMAIN load.start)
      BY <1>1, <1>3, <2>1 DEF Local, Mine, CreateLocal, ReadList, prVars
    <2> QED
      BY <1>1, <1>2, <2>1, <2>2, SerialStay
  <1>4. CASE job[p].op # "Create"
    <2>1. cur[p] = Nil /\ job[p] \in load.jobs
      BY <1>1, <1>4, Working DEF TypeInv, Path
    <2>2. PICK g \in DOMAIN load.start : job[p].id = ByGUID(g)
      BY <1>4, <2>1 DEF Serialised
    <2>3. g \in born /\ S(p) = g
      BY <2>1, <2>2 DEF SerialInv, S, Subject, ByGUID
    <2>4. ASSUME NEW q \in Procs \ {p}, W(q), S(q) = g PROVE FALSE
      <3>1. pc[q] # "idle" /\ Local(q)
        BY <2>4, Working DEF W, Works
      <3>2. job[q].op # "Create" /\ job[q].id = ByGUID(g)
        BY <2>4, <3>1 DEF Local, Mine
      <3>3. KeyOf(job[q]) = KeyOf(job[p]) /\ KeyOf(job[p]) \in Identities
        BY <1>1, <1>4, <3>2, <2>1, <2>2, CallOK, JobTypes DEF KeyOf
      <3>4. Locked(pc[q], job[q])
        BY <2>4, <3>1, <3>2 DEF Locked, W, Works
      <3>5. holder[KeyOf(job[p])] = q
        BY <3>3, <3>4 DEF TypeInv
      <3> QED
        BY <1>1, <3>5, AccountAssumption
    <2>5. Mine(pc'[p], job[p], cur[p], dn'[p], todo'[p], list'[p], g, obj[g], Gone, DOMAIN load.start)
      BY <1>1, <1>4, <2>1, <2>2 DEF Mine
    <2>6. Kept(p)
      <3>1. Subject(job'[p], cur'[p]) = g /\ Gone' = Gone
        BY <1>1, <2>3 DEF S, Gone
      <3> QED
        BY <1>1, <1>2, <2>1, <2>3, <2>4, <2>5, <3>1 DEF Kept
    <2>7. Ages /\ Whole' /\ Touches(p)
      BY <1>1, StillAges, WholeStill DEF GoneInv, Touches
    <2> QED
      BY <2>6, <2>7, SerialOK
  <1> QED
    BY <1>3, <1>4

LEMMA SerialLast ==
  ASSUME TypeInv, GoneInv, SerialInv, UNCHANGED load, NEW p \in Procs, Frame(p),
         Replicate(p) \/ ProbeDeleted(p) \/ Confirm(p)
  PROVE  SerialInv'
  <1>1. UNCHANGED <<obj, born>> /\ \E r : Return(p, r)
    BY DEF Replicate, ProbeDeleted, Confirm, Fails
  <1> QED
    BY <1>1, ReturnFrame, SerialEnds

\* The descriptor on its way: a Create has no account yet, an Update has not changed it.
LEMMA SerialDraft ==
  ASSUME TypeInv, GoneInv, SerialInv, UNCHANGED load, NEW p \in Procs, Frame(p), UNCHANGED <<obj, born, job, cur, dn>>,
         pc[p] \in {"sid", "sidRead", "principals"},
         pc'[p] \in {"idle", "sid", "sidRead", "principals", WriteLabel(p)},
         pc'[p] # "idle" => Draft(pc'[p], job[p], todo'[p], list'[p], born)
  PROVE  SerialInv'
  <1>1. job[p].op \in {"Create", "Update"} /\ job[p] \in load.jobs
    BY Working DEF TypeInv, Path
  <1>2. CASE job[p].op = "Create"
    <2>1. cur[p] = Nil
      BY <1>2, Working
    <2> QED
      BY <1>1, <1>2, <2>1, SerialQuiet DEF Works
  <1>3. CASE job[p].op = "Update"
    <2>1. W(p) /\ Local(p) /\ cur[p] # Nil
      <3>1. W(p) /\ Local(p)
        BY <1>3, Working
      <3>2. cur[p] \in Models
        BY <1>3 DEF TypeInv, Path
      <3> QED
        BY <3>1, <3>2, AccountAssumption DEF Models
    <2>2. pc'[p] \in {"idle", "sid", "sidRead", "principals", "modify"}
      BY <1>3 DEF WriteLabel
    <2>3. /\ obj[S(p)] = cur[p].o /\ job[p].id = ByGUID(S(p)) /\ S(p) \in DOMAIN load.start
      BY <1>3, <2>1 DEF Local, Mine, UpdateLocal
    <2>4. pc'[p] # "idle" => /\ UpdateLocal(pc'[p], job[p], cur[p].o, obj[S(p)], dn'[p])
                             /\ SDList(pc'[p], job[p], todo'[p], list'[p])
      BY <2>2, <2>3 DEF UpdateLocal, SDList
    <2>5. pc'[p] # "idle" =>
             Mine(pc'[p], job[p], cur[p], dn'[p], todo'[p], list'[p], S(p), obj[S(p)], Gone, DOMAIN load.start)
      BY <1>3, <2>1, <2>2, <2>3, <2>4 DEF Mine, ReadList
    <2> QED
      BY <2>1, <2>5, SerialStay
  <1> QED
    BY <1>1, <1>2, <1>3

\* With the domain SID, the list of principals begins.
LEMMA SerialKnown ==
  ASSUME TypeInv, SerialInv, NEW p \in Procs, pc[p] \in {"sid", "sidRead"}, SidKnown(p)
  PROVE  /\ pc'[p] \in {"principals", WriteLabel(p)}
         /\ Draft(pc'[p], job[p], todo'[p], list'[p], born)
  <1> DEFINE ids == IF job[p].who = Nil THEN {} ELSE job[p].who
  <1>1. todo'[p] = ids /\ list'[p] = {} /\ Continue(p, SidNext(p))
    BY DEF SidKnown, SidNext, TypeInv, AccountTypeOK
  <1>2. pc'[p] = SidNext(p)
    BY <1>1, ContinueFrame
  <1>3. SidNext(p) # "principals" => ids = {}
    BY DEF SidNext
  <1>4. WriteList(pc'[p], job[p], todo'[p], list'[p])
    <2>1. pc'[p] \in {"principals", "add", "modify"}
      BY <1>2 DEF SidNext, WriteLabel
    <2>2. list'[p] \union todo'[p] = ids /\ (pc'[p] # "principals" => list'[p] = ids)
      BY <1>1, <1>2, <1>3
    <2>3. NeedsSD(job[p])
      BY DEF TypeInv, Path
    <2> HIDE DEF ids
    <2> QED
      BY <2>1, <2>2, <2>3 DEF WriteList, ids
  <1> QED
    BY <1>1, <1>2, <1>4 DEF SidNext, Draft

LEMMA SerialPrincipals ==
  ASSUME TypeInv, GoneInv, SerialInv, UNCHANGED load, NEW p \in Procs, Frame(p),
         DomainSID(p) \/ SidRead(p) \/ PrincipalSIDs(p)
  PROVE  SerialInv'
  <1>1. pc[p] \in {"sid", "sidRead", "principals"} /\ UNCHANGED <<obj, born, job, cur, dn>>
    BY DEF DomainSID, SidRead, PrincipalSIDs
  <1>2. CASE \E r : Return(p, r)
    BY <1>1, <1>2, ReturnFrame, SerialEnds
  <1>3. CASE pc[p] = "sid" /\ Continue(p, "sidRead")
    <2>1. pc'[p] = "sidRead"
      BY <1>3, ContinueFrame
    <2> QED
      BY <1>1, <2>1, SerialDraft DEF Draft, WriteList
  <1>4. CASE pc[p] \in {"sid", "sidRead"} /\ SidKnown(p)
    BY <1>1, <1>4, SerialKnown, SerialDraft
  <1>5. ASSUME NEW g \in todo[p], pc[p] = "principals", obj[g].at \in DNs,
               Continue(p, IF todo[p] = {g} THEN WriteLabel(p) ELSE "principals"),
               todo' = [todo EXCEPT ![p] = @ \ {g}], list' = [list EXCEPT ![p] = @ \union {g}]
        PROVE  SerialInv'
    <2>1. g \in Guids /\ g \in born
      <3>1. g \in Guids
        BY DEF TypeInv, AccountTypeOK
      <3> QED
        BY <1>5, <3>1, AccountAssumption DEF GoneInv, Known
    <2>2. todo'[p] = todo[p] \ {g} /\ list'[p] = list[p] \union {g}
      BY <1>5 DEF TypeInv, AccountTypeOK
    <2>3. pc'[p] = IF todo[p] = {g} THEN WriteLabel(p) ELSE "principals"
      BY <1>5, ContinueFrame
    <2>4. list[p] \subseteq born /\ NeedsSD(job[p])
          /\ list[p] \union todo[p] = IF job[p].who = Nil THEN {} ELSE job[p].who
      <3>1. NeedsSD(job[p]) /\ Draft(pc[p], job[p], todo[p], list[p], born)
        BY <1>5 DEF TypeInv, Path, SerialInv
      <3> QED
        BY <1>5, <3>1 DEF Draft, WriteList
    <2>5. pc'[p] \in {"principals", WriteLabel(p)} /\ WriteLabel(p) \in {"add", "modify"}
      BY <2>3 DEF WriteLabel
    <2>6. list'[p] \union todo'[p] = list[p] \union todo[p]
      BY <2>2
    <2>7. pc'[p] # "principals" => list'[p] = list[p] \union todo[p]
      BY <2>2, <2>3
    <2>8. WriteList(pc'[p], job[p], todo'[p], list'[p])
      BY <2>4, <2>5, <2>6, <2>7 DEF WriteList
    <2>9. Draft(pc'[p], job[p], todo'[p], list'[p], born)
      BY <2>1, <2>2, <2>4, <2>8 DEF Draft
    <2> QED
      BY <1>1, <1>5, <2>5, <2>9, SerialDraft
  <1> QED
    BY <1>2, <1>3, <1>4, <1>5 DEF DomainSID, SidRead, PrincipalSIDs, Fails

-----------------------------------------------------------------------------
(* The word *)

\* The wish v, when there is one, for a bit.
LEMMA WishHas ==
  ASSUME NEW v \in Maybe, NEW b, v # Nil
  PROVE  v \in BOOLEAN /\ ((v # (b \in Inverted)) <=> (v <=> b \notin Inverted))
  <1>1. v \in BOOLEAN
    BY DEF Maybe
  <1> QED
    BY <1>1

LEMMA SetBitHas ==
  ASSUME NEW w, NEW b, NEW v \in Maybe
  PROVE  /\ b \in SetBit(w, b, v) <=> IF v = Nil THEN b \in w ELSE v <=> b \notin Inverted
         /\ \A c : c # b => (c \in SetBit(w, b, v) <=> c \in w)
  <1>1. CASE v = Nil
    BY <1>1 DEF SetBit
  <1>2. CASE v # Nil
    <2>1. SetBit(w, b, v) = IF v <=> b \notin Inverted THEN w \union {b} ELSE w \ {b}
      BY <1>2, WishHas DEF SetBit
    <2> QED
      BY <1>2, <2>1
  <1> QED
    BY <1>1, <1>2

LEMMA BitAsHas ==
  ASSUME NEW o, NEW b, NEW v \in Maybe, NEW old \in BOOLEAN
  PROVE  BitAs(o, b, v, old) <=> (b \in o.word <=> IF v = Nil THEN old ELSE v <=> b \notin Inverted)
  <1>1. CASE v = Nil
    BY <1>1 DEF BitAs
  <1>2. CASE v # Nil
    <2>1. BitAs(o, b, v, old) <=> (b \in o.word <=> v # (b \in Inverted))
      BY <1>2 DEF BitAs
    <2> QED
      BY <1>2, <2>1, WishHas
  <1> QED
    BY <1>1, <1>2

LEMMA BitKept ==
  ASSUME NEW o, NEW b, NEW v \in Maybe, NEW w,
         b \in o.word <=> IF v = Nil THEN b \in w ELSE v <=> b \notin Inverted
  PROVE  BitAs(o, b, v, b \in w)
  <1>1. CASE v = Nil
    BY <1>1 DEF BitAs
  <1>2. CASE v # Nil
    <2>1. BitAs(o, b, v, b \in w) <=> (b \in o.word <=> v # (b \in Inverted))
      BY <1>2 DEF BitAs
    <2> QED
      BY <1>2, <2>1, WishHas
  <1> QED
    BY <1>1, <1>2

\* applyUAC moves the bits that are named, and leaves the others.
LEMMA UACHas ==
  ASSUME NEW j \in Jobs, NEW w
  PROVE  /\ OnBit(j.class) \in applyUAC(w, j) <=>
              IF j.on = Nil THEN OnBit(j.class) \in w ELSE j.on <=> OnBit(j.class) \notin Inverted
         /\ FlagBit(j.class) \in applyUAC(w, j) <=>
              IF j.flag = Nil THEN FlagBit(j.class) \in w ELSE j.flag <=> FlagBit(j.class) \notin Inverted
  <1>1. j.class \in Classes /\ j.on \in Maybe /\ j.flag \in Maybe
    BY JobTypes
  <1>2. OnBit(j.class) # FlagBit(j.class)
    BY BitTypes
  <1> QED
    BY <1>1, <1>2, SetBitHas DEF applyUAC

\* The word Update starts from has the two bits as the account has.
LEMMA RebuiltHas ==
  ASSUME NEW c \in Classes, NEW w
  PROVE  /\ OnBit(c) \in rebuilt(c, w) <=> OnBit(c) \in w
         /\ FlagBit(c) \in rebuilt(c, w) <=> FlagBit(c) \in w
  BY BitTypes DEF rebuilt

\* The bits of a new account; a user's is disabled, whatever was asked.
LEMMA CreateHas ==
  ASSUME NEW j \in Jobs, NEW o, o.word = createWord(j)
  PROVE  /\ BitAs(o, FlagBit(j.class), j.flag, FALSE)
         /\ j.class = "user" => "Disable" \in o.word
         /\ j.class # "user" \/ j.on # TRUE => BitAs(o, OnBit(j.class), j.on, j.class \in {"user", "group"})
  <1>0. j.class \in Classes /\ j.on \in Maybe /\ j.flag \in Maybe
    BY JobTypes
  <1>1. CASE j.class = "user"
    <2>1. o.word = SetBit({"Normal", "Disable"}, "DontExpire", j.flag)
      BY <1>1 DEF createWord
    <2>2. "DontExpire" \in o.word <=> IF j.flag = Nil THEN FALSE ELSE j.flag <=> "DontExpire" \notin Inverted
      BY <1>0, <2>1, SetBitHas
    <2>3. "Disable" \in o.word
      BY <1>0, <2>1, SetBitHas
    <2>4. j.on # TRUE => ("Disable" \in o.word <=> IF j.on = Nil THEN TRUE ELSE j.on <=> "Disable" \notin Inverted)
      BY <1>0, <2>3 DEF Inverted, Maybe
    <2>5. BitAs(o, "DontExpire", j.flag, FALSE) /\ (j.on # TRUE => BitAs(o, "Disable", j.on, TRUE))
      BY <1>0, <2>2, <2>4, BitAsHas
    <2>6. OnBit(j.class) = "Disable" /\ FlagBit(j.class) = "DontExpire" /\ (j.class \in {"user", "group"}) = TRUE
      BY <1>1 DEF OnBit, FlagBit
    <2> QED
      BY <1>1, <2>3, <2>5, <2>6
  <1>2. CASE j.class = "group"
    <2> DEFINE w == IF j.on = FALSE THEN {} ELSE {"Security"}
    <2>1. o.word = SetBit(w, "Universal", j.flag)
      BY <1>2 DEF createWord
    <2>2. "Universal" \notin w /\ ("Security" \in w <=> j.on # FALSE)
      OBVIOUS
    <2> HIDE DEF w
    <2>3. "Universal" \in o.word <=> IF j.flag = Nil THEN FALSE ELSE j.flag <=> "Universal" \notin Inverted
      BY <1>0, <2>1, <2>2, SetBitHas
    <2>4. "Security" \in o.word <=> "Security" \in w
      BY <1>0, <2>1, SetBitHas
    <2>5. "Security" \in o.word <=> IF j.on = Nil THEN TRUE ELSE j.on <=> "Security" \notin Inverted
      <3>1. CASE j.on = Nil
        BY <2>2, <2>4, <3>1, AccountAssumption
      <3>2. CASE j.on # Nil
        <4>1. j.on \in BOOLEAN
          BY <1>0, <3>2, WishHas
        <4>2. j.on # FALSE <=> j.on
          BY <4>1
        <4> QED
          BY <2>2, <2>4, <3>2, <4>2 DEF Inverted
      <3> QED
        BY <3>1, <3>2
    <2>6. BitAs(o, "Universal", j.flag, FALSE) /\ BitAs(o, "Security", j.on, TRUE)
      BY <1>0, <2>3, <2>5, BitAsHas
    <2>7. OnBit(j.class) = "Security" /\ FlagBit(j.class) = "Universal" /\ (j.class \in {"user", "group"}) = TRUE
      BY <1>2 DEF OnBit, FlagBit
    <2> QED
      BY <1>2, <2>6, <2>7
  <1>3. CASE j.class \notin {"user", "group"}
    <2>1. o.word = applyUAC(Base(j.class), j)
      BY <1>3 DEF createWord
    <2>2. OnBit(j.class) \notin Base(j.class) /\ FlagBit(j.class) \notin Base(j.class)
      BY BitTypes
    <2>3. /\ OnBit(j.class) \in o.word <=> IF j.on = Nil THEN FALSE ELSE j.on <=> OnBit(j.class) \notin Inverted
          /\ FlagBit(j.class) \in o.word <=> IF j.flag = Nil THEN FALSE ELSE j.flag <=> FlagBit(j.class) \notin Inverted
      BY <2>1, <2>2, UACHas
    <2>4. BitAs(o, OnBit(j.class), j.on, FALSE) /\ BitAs(o, FlagBit(j.class), j.flag, FALSE)
      BY <1>0, <2>3, BitAsHas
    <2>5. (j.class \in {"user", "group"}) = FALSE
      BY <1>3
    <2> QED
      BY <1>3, <2>4, <2>5
  <1> QED
    BY <1>1, <1>2, <1>3

-----------------------------------------------------------------------------
(* Create *)

\* What a new account has from its first request on.
Stands(j, o) == /\ o.at = j.dn
                /\ o.who = IF j.who = Nil /\ j.class = "gmsa" THEN {} ELSE j.who
                /\ BitAs(o, FlagBit(j.class), j.flag, FALSE)

LEMMA CreatePosted ==
  ASSUME NEW j \in Jobs, NEW g, NEW o, NEW d, Stands(j, o), (o.pwd = g) = j.pwd, ~o.deny, o.deny \in BOOLEAN,
         BitAs(o, OnBit(j.class), j.on, j.class \in {"user", "group"}), o.must = (j.must = TRUE)
  PROVE  CreateLocal(AfterPost(j), j, g, o, d)
  <1>1. CASE j.can = FALSE
    <2>1. AfterPost(j) = "sdRead"
      BY <1>1 DEF AfterPost
    <2> QED
      BY <1>1, <2>1 DEF CreateLocal, Stands
  <1>2. CASE j.can # FALSE
    <2>1. AfterPost(j) = "created" /\ o.deny = (j.can = FALSE)
      BY <1>2 DEF AfterPost
    <2> QED
      BY <2>1 DEF CreateLocal, Stands
  <1> QED
    BY <1>1, <1>2

LEMMA CreateGoes ==
  ASSUME NEW j \in Jobs, NEW g, NEW o, NEW d, Stands(j, o), (o.pwd = g) = j.pwd, ~o.deny, o.deny \in BOOLEAN,
         o.word = createWord(j), ~o.must, o.must \in BOOLEAN
  PROVE  CreateLocal(AfterPwd(j), j, g, o, d)
  <1>1. CASE Posts(j)
    <2>1. AfterPwd(j) = "post"
      BY <1>1 DEF AfterPwd
    <2> QED
      BY <1>1, <2>1 DEF CreateLocal, Stands
  <1>2. CASE ~Posts(j)
    <2>1. (j.class # "user" \/ j.on # TRUE) /\ j.must # TRUE
      BY <1>2, AccountAssumption DEF Posts
    <2>2. BitAs(o, OnBit(j.class), j.on, j.class \in {"user", "group"})
      BY <2>1, CreateHas
    <2>3. o.must = (j.must = TRUE)
      BY <2>1
    <2>4. AfterPwd(j) = AfterPost(j)
      BY <1>2 DEF AfterPwd
    <2> QED
      BY <2>2, <2>3, <2>4, CreatePosted
  <1> QED
    BY <1>1, <1>2

\* The account Create makes.
LEMMA FreshLocal ==
  ASSUME TypeInv, SerialInv, NEW p \in Procs, pc[p] = "add", NEW g \in Guids
  PROVE  LET j == job[p]
         IN /\ CreateLocal(IF j.pwd THEN "lock" ELSE AfterPwd(j), j, g, Fresh(p), dn[p])
            /\ Fresh(p).who # Nil => j.class \in {"computer", "gmsa"} /\ Fresh(p).who \subseteq born
            /\ Fresh(p).pwd = Nil
  <1> DEFINE j == job[p]
             o == Fresh(p)
  <1>1. j \in Jobs /\ j.op = "Create" /\ Draft("add", j, todo[p], list[p], born)
    BY CallOK DEF TypeInv, Path, SerialInv
  <1>2. /\ o.at = j.dn /\ o.word = createWord(j) /\ o.pwd = Nil /\ o.must = FALSE /\ o.deny = FALSE
        /\ o.who = list[p]
    BY DEF Fresh
  <1> HIDE DEF o
  <1>3. o.who = IF j.who = Nil /\ j.class = "gmsa" THEN {} ELSE j.who
    BY <1>1, <1>2 DEF Draft, WriteList, NeedsSD
  <1>4. o.who # Nil => j.class \in {"computer", "gmsa"} /\ o.who \subseteq born
    <2>1. j.class \notin {"computer", "gmsa"} => j.who = Nil
      BY <1>1, AccountAssumption
    <2>2. o.who # Nil => NeedsSD(j)
      BY <1>1, <1>3 DEF NeedsSD
    <2>3. o.who # Nil => o.who \subseteq born
      BY <1>1, <1>2, <2>2 DEF Draft
    <2> QED
      BY <1>1, <2>1, <2>2, <2>3 DEF NeedsSD
  <1>5. Stands(j, o)
    BY <1>1, <1>2, <1>3, CreateHas DEF Stands
  <1>6. CASE j.pwd
    <2>1. CreateLocal("lock", j, g, o, dn[p])
      BY <1>2, <1>5, <1>6 DEF CreateLocal, Stands
    <2> QED
      BY <1>2, <1>4, <1>6, <2>1 DEF o
  <1>7. CASE ~j.pwd
    <2>1. (o.pwd = g) = j.pwd
      BY <1>1, <1>2, <1>7, AccountAssumption, JobTypes
    <2>2. CreateLocal(AfterPwd(j), j, g, o, dn[p])
      BY <1>1, <1>2, <1>5, <2>1, CreateGoes
    <2> QED
      BY <1>2, <1>4, <1>7, <2>2 DEF o
  <1> QED
    BY <1>6, <1>7

LEMMA SerialAdd ==
  ASSUME TypeInv, GoneInv, SerialInv, UNCHANGED load, NEW p \in Procs, Frame(p), Add(p)
  PROVE  SerialInv'
  <1> DEFINE j == job[p]
             c == IF j.pwd THEN "lock" ELSE AfterPwd(j)
  <1>1. pc[p] = "add" /\ UNCHANGED <<prVars, job, dn>>
    BY AddStep
  <1>2. j \in Jobs /\ j \in load.jobs /\ j.op = "Create" /\ cur[p] = Nil
    BY <1>1, CallOK, Working DEF Path
  <1>3. CASE UNCHANGED <<obj, born, cur>> /\ (Continue(p, "probeDeleted") \/ Fails(p))
    <2>1. pc'[p] \in {"probeDeleted", "idle"}
      BY <1>3, ContinueFrame, ReturnFrame DEF Fails
    <2> QED
      BY <1>1, <1>2, <1>3, <2>1, SerialQuiet DEF Works, Draft, WriteList
  <1>4. ASSUME NEW g \in Guids, Made(p, g), Continue(p, c) \/ Return(p, "Transport")
        PROVE  SerialInv'
    <2>1. /\ obj'[g] = Fresh(p) /\ \A h \in Guids \ {g} : obj'[h] = obj[h]
      BY <1>4 DEF Made, TypeInv, AccountTypeOK
    <2>2. cur'[p] = [guid |-> g, o |-> Fresh(p)] /\ cur'[p] # Nil
      <3>1. cur'[p] = [guid |-> g, o |-> Fresh(p)]
        BY <1>4 DEF Made, TypeInv, AccountTypeOK
      <3> QED
        BY <1>2, <3>1, FreshTypes, ModelTypes
    <2>3. Ages
      BY <1>4, MadeAges DEF GoneInv
    <2>4. Touches(p)
      BY <1>4, <2>1 DEF Touches, Made, TypeInv, AccountTypeOK
    <2>5. /\ CreateLocal(c, j, g, Fresh(p), dn[p]) /\ Fresh(p).pwd = Nil /\ Fresh(p).at = j.dn
          /\ Fresh(p).who # Nil => j.class \in {"computer", "gmsa"} /\ Fresh(p).who \subseteq born
      BY <1>1, <1>2, FreshLocal, FreshTypes
    <2>6. Whole'
      <3>1. \A h, k \in Guids : obj'[h].at = obj'[k].at /\ obj'[h].at # Nil => h = k
        BY <1>4, <2>1, <2>5 DEF Made, At, SerialInv, Whole
      <3>2. \A h \in Guids : obj'[h].pwd \in {Nil, h}
        BY <2>1, <2>5 DEF SerialInv, Whole
      <3>3. \A h \in Guids : obj'[h].who # Nil => Class[h] \in {"computer", "gmsa"} /\ obj'[h].who \subseteq born'
        BY <1>4, <2>1, <2>5 DEF Made, SerialInv, Whole
      <3> QED
        BY <3>1, <3>2, <3>3 DEF Whole
    <2>7. pc'[p] \in {c, "idle"}
      BY <1>4, ContinueFrame, ReturnFrame
    <2>8. c \in {"lock", "post", "sdRead", "created"}
      BY DEF AfterPwd, AfterPost
    <2> HIDE DEF c
    <2>9. Draft(pc'[p], job'[p], todo'[p], list'[p], born')
      BY <2>7, <2>8 DEF Draft, WriteList
    <2>10. g \in born' /\ g \notin DOMAIN load.start /\ Class[g] = j.class
           /\ \A q \in Procs \ {p} : W(q) => S(q) # g
      BY <1>4 DEF Made, SerialInv
    <2>11. pc'[p] # "idle" =>
              Mine(pc'[p], j, cur'[p], dn'[p], todo'[p], list'[p], g, obj'[g], Gone', DOMAIN load.start)
      BY <1>1, <1>2, <2>1, <2>5, <2>7, <2>8, <2>10 DEF Mine, ReadList
    <2>12. Subject(job'[p], cur'[p]) = g
      BY <2>2 DEF Subject
    <2>13. Kept(p)
      BY <1>1, <1>2, <2>9, <2>10, <2>11, <2>12 DEF Kept, Works
    <2> QED
      BY <2>3, <2>4, <2>6, <2>13, SerialOK
  <1> QED
    BY <1>3, <1>4, AddStep

\* A request that changes the account a call works on, which is at the DN the request names.
LEMMA SerialWrite ==
  ASSUME TypeInv, GoneInv, SerialInv, UNCHANGED load, NEW p \in Procs, Frame(p), W(p),
         NEW d \in DNs, obj[S(p)].at = d, NEW r \in Results, NEW new, NEW c, WriteReq(p, r, new, c),
         UNCHANGED <<prVars, born, job, cur, dn>>,
         \A g \in Guids : obj[g].at # d => new[g] = obj[g],
         r = "nil" => new[S(p)].at \in {d, Nil} \/ At(new[S(p)].at) = {},
         new[S(p)].pwd \in {Nil, S(p)},
         new[S(p)].who # Nil => Class[S(p)] \in {"computer", "gmsa"} /\ new[S(p)].who \subseteq born,
         Draft(c, job[p], todo[p], list[p], born),
         \A gone : Mine(c, job[p], cur[p], dn[p], todo[p], list[p], S(p), new[S(p)], gone, DOMAIN load.start)
  PROVE  SerialInv'
  <1>1. pc[p] # "idle" /\ S(p) \in Guids
    BY Working DEF W, Works
  <1>2. CASE UNCHANGED obj /\ Stops(p)
    BY <1>2, StopsFrame, SerialEnds
  <1>3. CASE r = "nil" /\ obj' = new /\ (Continue(p, c) \/ Stops(p))
    <2>1. \A g \in Guids \ {S(p)} : obj'[g] = obj[g]
      BY <1>1, <1>3, Sole DEF At
    <2>2. Whole'
      BY <1>1, <1>3, <2>1, WholeEdit
    <2>3. Ages
      BY <1>3, OnlyAges DEF Only, GoneInv
    <2>4. pc'[p] \in {c, "idle"}
      BY <1>3, ContinueFrame, StopsFrame
    <2>5. todo'[p] = todo[p] /\ list'[p] = list[p]
      BY DEF prVars
    <2> QED
      BY <1>3, <2>1, <2>2, <2>3, <2>4, <2>5, SerialMine
  <1> QED
    BY <1>2, <1>3, WriteEnds

LEMMA SerialPost ==
  ASSUME TypeInv, GoneInv, SerialInv, UNCHANGED load, NEW p \in Procs, Frame(p), Post(p)
  PROVE  SerialInv'
  <1> DEFINE j == job[p]
             s == S(p)
             E(o) == [o EXCEPT !.must = @ \/ j.must = TRUE,
                               !.word = IF j.on = TRUE THEN Enabled(j) ELSE @]
             new == Edit(j.dn, E)
             n == new[s]
             o == obj[s]
  <1>1. pc[p] = "post" /\ UNCHANGED <<prVars, born, job, cur, dn>> /\ WriteReq(p, Verdict(j.dn, E), new, AfterPost(j))
    BY DEF Post
  <1>2. /\ j \in Jobs /\ j.op = "Create" /\ W(p) /\ Local(p) /\ s \in Guids /\ o \in Objects /\ j.dn \in DNs
    BY <1>1, CallOK, Working, JobTypes DEF Path
  <1>3. CreateLocal("post", j, s, o, dn[p]) /\ s \notin DOMAIN load.start /\ Class[s] = j.class
    BY <1>1, <1>2 DEF Local, Mine
  <1>4. /\ Stands(j, o) /\ Posts(j) /\ o.word = createWord(j) /\ ~o.must /\ ~o.deny /\ (o.pwd = s) = j.pwd
    BY <1>3 DEF CreateLocal, Stands
  <1>5. n = E(o)
    BY <1>2, <1>4 DEF Edit, Stands
  <1>6. o.must \in BOOLEAN /\ o.deny \in BOOLEAN
    BY <1>2 DEF Objects
  <1>7. /\ n.at = o.at /\ n.pwd = o.pwd /\ n.who = o.who /\ n.deny = o.deny
        /\ n.must = (o.must \/ j.must = TRUE) /\ n.word = IF j.on = TRUE THEN Enabled(j) ELSE o.word
    BY <1>2, <1>5 DEF Objects
  <1>8. Verdict(j.dn, E) \in Results /\ \A g \in Guids : obj[g].at # j.dn => new[g] = obj[g]
    BY DEF Verdict, Edit, Results
  <1> HIDE DEF new, n, E, o
  <1>9. n.must = (j.must = TRUE)
    BY <1>4, <1>6, <1>7
  <1>10. /\ BitAs(n, FlagBit(j.class), j.flag, FALSE)
         /\ BitAs(n, OnBit(j.class), j.on, j.class \in {"user", "group"})
    <2>1. j.class = "user"
      BY <1>4 DEF Posts
    <2>2. OnBit(j.class) = "Disable" /\ FlagBit(j.class) = "DontExpire"
      BY <2>1 DEF OnBit, FlagBit
    <2>3. CASE j.on = TRUE
      <3>1. n.word = o.word \ {"Disable"}
        BY <1>4, <1>7, <2>3 DEF Enabled
      <3>2. BitAs(n, "Disable", j.on, j.class \in {"user", "group"})
        <4>1. j.on \in Maybe /\ j.on # Nil /\ "Disable" \in Inverted /\ "Disable" \notin n.word
          BY <2>3, <3>1, AccountAssumption DEF Inverted, Maybe
        <4>2. BitAs(n, "Disable", j.on, TRUE)
          <5>1. BitAs(n, "Disable", j.on, TRUE) <=>
                   ("Disable" \in n.word <=> IF j.on = Nil THEN TRUE ELSE j.on <=> "Disable" \notin Inverted)
            BY <4>1, BitAsHas
          <5> QED
            BY <2>3, <4>1, <5>1
        <4>3. (j.class \in {"user", "group"}) = TRUE
          BY <2>1
        <4> QED
          BY <4>2, <4>3
      <3>3. "DontExpire" \in n.word <=> "DontExpire" \in o.word
        BY <3>1
      <3>4. BitAs(n, "DontExpire", j.flag, FALSE)
        <4>1. j.flag \in Maybe /\ BitAs(o, "DontExpire", j.flag, FALSE)
          BY <1>2, <1>4, <2>2, JobTypes DEF Stands
        <4>2. "DontExpire" \in o.word <=> IF j.flag = Nil THEN FALSE ELSE j.flag <=> "DontExpire" \notin Inverted
          BY <4>1, BitAsHas
        <4> QED
          BY <3>3, <4>1, <4>2, BitAsHas
      <3> QED
        BY <2>2, <3>2, <3>4
    <2>4. CASE j.on # TRUE
      <3>1. n.word = createWord(j)
        BY <1>4, <1>7, <2>4
      <3> QED
        BY <1>2, <2>4, <3>1, CreateHas
    <2> QED
      BY <2>3, <2>4
  <1>11. CreateLocal(AfterPost(j), j, s, n, dn[p])
    <2>1. Stands(j, n)
      BY <1>4, <1>7, <1>10 DEF Stands
    <2> QED
      BY <1>2, <1>4, <1>6, <1>7, <1>9, <1>10, <2>1, CreatePosted
  <1>12. AfterPost(j) \in {"sdRead", "created"}
    BY DEF AfterPost
  <1>13. \A gone : Mine(AfterPost(j), j, cur[p], dn[p], todo[p], list[p], s, n, gone, DOMAIN load.start)
    BY <1>2, <1>3, <1>11, <1>12 DEF Mine, ReadList
  <1>14. Draft(AfterPost(j), j, todo[p], list[p], born)
    BY <1>12 DEF Draft, WriteList
  <1>15. /\ o.at = j.dn /\ n.at \in {j.dn, Nil} /\ n.pwd \in {Nil, s}
         /\ n.who # Nil => Class[s] \in {"computer", "gmsa"} /\ n.who \subseteq born
    BY <1>2, <1>4, <1>7 DEF SerialInv, Whole, Stands, o
  <1> QED
    BY <1>1, <1>2, <1>8, <1>13, <1>14, <1>15, SerialWrite DEF n, o

\* What a Get leaves in the lists of principals.
LEMMA FoundList ==
  ASSUME TypeInv, NEW p \in Procs, NEW g \in Guids, Found(p, g), NEW gone
  PROVE  LET w == IF job[p].class = Class[g] THEN obj[g].who ELSE Nil
         IN /\ ReadList(IF HasPrincipals(p, g) THEN "finalGuids" ELSE "replicate", w, todo'[p], list'[p], gone)
            /\ w = Nil => todo'[p] = {} /\ list'[p] = {} /\ ~HasPrincipals(p, g)
  <1> DEFINE w == IF job[p].class = Class[g] THEN obj[g].who ELSE Nil
  <1>1. obj[g].who \in {Nil} \union SUBSET Guids
    BY DEF TypeInv, AccountTypeOK, Objects
  <1>2. /\ HasPrincipals(p, g) <=> w \notin {Nil, {}}
        /\ todo'[p] = IF HasPrincipals(p, g) THEN w ELSE {}
        /\ list'[p] = {}
    BY DEF Found, HasPrincipals, Descriptor, TypeInv, AccountTypeOK
  <1>3. w \in {Nil} \union SUBSET Guids
    BY <1>1
  <1> HIDE DEF w
  <1>4. CASE w \in {Nil, {}}
    BY <1>2, <1>4, AccountAssumption DEF ReadList, w
  <1>5. CASE w \notin {Nil, {}}
    BY <1>2, <1>3, <1>5 DEF ReadList, w
  <1> QED
    BY <1>4, <1>5

LEMMA SerialCreated ==
  ASSUME TypeInv, GoneInv, SerialInv, UNCHANGED load, NEW p \in Procs, Frame(p), Created(p)
  PROVE  SerialInv'
  <1> DEFINE j == job[p]
             s == S(p)
  <1>1. pc[p] = "created" /\ UNCHANGED <<born, job, cur, dn>>
    BY DEF Created
  <1>2. /\ j \in Jobs /\ j.op = "Create" /\ W(p) /\ Local(p) /\ s \in Guids /\ obj[s] \in Objects /\ j.dn \in DNs
    BY <1>1, CallOK, Working, JobTypes DEF Path
  <1>3. CreateLocal("created", j, s, obj[s], dn[p]) /\ s \notin DOMAIN load.start /\ Class[s] = j.class
    BY <1>1, <1>2 DEF Local, Mine
  <1>4. CASE UNCHANGED obj /\ Stops(p)
    BY <1>1, <1>4, StopsFrame, SerialEnds
  <1>5. ASSUME NEW g \in Matches(ByDN(j.dn), j.class), Found(p, g), UNCHANGED obj,
               Continue(p, IF HasPrincipals(p, g) THEN "finalGuids" ELSE "replicate")
        PROVE  SerialInv'
    <2> DEFINE c == IF HasPrincipals(p, g) THEN "finalGuids" ELSE "replicate"
               w == IF j.class = Class[s] THEN obj[s].who ELSE Nil
    <2>1. g = s
      <3>1. g \in Guids /\ obj[g].at = j.dn
        BY <1>5 DEF Matches, ByDN, ByGUID
      <3>2. obj[s].at = j.dn
        BY <1>3 DEF CreateLocal
      <3> QED
        BY <1>2, <3>1, <3>2, Sole DEF At
    <2>2. ReadList(c, w, todo'[p], list'[p], Gone)
      BY <1>2, <1>5, <2>1, FoundList
    <2>3. pc'[p] = c /\ c \in {"finalGuids", "replicate"}
      BY <1>5, ContinueFrame
    <2> HIDE DEF c, w
    <2>4. CreateLocal(c, j, s, obj[s], dn[p])
      BY <1>3, <2>3 DEF CreateLocal
    <2>5. Mine(c, j, cur[p], dn[p], todo'[p], list'[p], s, obj[s], Gone, DOMAIN load.start)
      BY <1>2, <1>3, <2>2, <2>4 DEF Mine, w
    <2>6. Draft(c, j, todo'[p], list'[p], born)
      BY <2>3 DEF Draft, WriteList
    <2> QED
      BY <1>1, <1>2, <1>5, <2>3, <2>5, <2>6, SerialStay
  <1>6. CASE Read(p, FALSE, "replicate")
    BY <1>4, <1>6, ReadEnds
  <1>7. ASSUME NEW g \in Matches(ByDN(j.dn), j.class), Found(p, g),
               Read(p, TRUE, IF HasPrincipals(p, g) THEN "finalGuids" ELSE "replicate")
        PROVE  SerialInv'
    BY <1>4, <1>5, <1>7, ReadEnds
  <1> QED
    BY <1>6, <1>7 DEF Created

-----------------------------------------------------------------------------
(* Update *)

LEMMA AfterMoveLocal ==
  ASSUME NEW p, NEW old, NEW o, NEW d, Applied(o, job[p], old), o.at = job[p].dn, KeepsPwd(o, job[p], old),
         o.deny = old.deny
  PROVE  /\ UpdateLocal(PasswordNext(p), job[p], old, o, d)
         /\ PasswordNext(p) \in {"resolve", "reread"}
  BY DEF PasswordNext, UpdateLocal

LEMMA AfterModifyLocal ==
  ASSUME NEW p, NEW c, NEW o, NEW d, Applied(o, job[p], c.o), o.at = c.o.at, KeepsPwd(o, job[p], c.o),
         o.deny = c.o.deny
  PROVE  /\ UpdateLocal(AfterModify(p, c), job[p], c.o, o, d)
         /\ AfterModify(p, c) \in {"move", "resolve", "reread"}
  <1>1. CASE Moving(p, c)
    BY <1>1 DEF AfterModify, UpdateLocal
  <1>2. CASE ~Moving(p, c)
    <2>1. o.at = job[p].dn /\ AfterModify(p, c) = PasswordNext(p)
      BY <1>2 DEF Moving, AfterModify
    <2> QED
      BY <2>1, AfterMoveLocal
  <1> QED
    BY <1>1, <1>2

\* When there is nothing to change, everything is as asked.
LEMMA NoModsApplied ==
  ASSUME NEW p, job[p] \in Jobs, job[p].who = Nil, NEW c, ~HasMods(p, c)
  PROVE  Applied(c.o, job[p], c.o) /\ KeepsPwd(c.o, job[p], c.o)
  <1> DEFINE j == job[p]
             w == c.o.word
  <1>1. j.class \in Classes /\ j.on \in Maybe /\ j.flag \in Maybe
    BY JobTypes
  <1>2. applyUAC(rebuilt(j.class, w), j) = rebuilt(j.class, w)
    BY DEF HasMods, ChangesWord, NewWord
  <1>3. /\ OnBit(j.class) \in w <=>
             IF j.on = Nil THEN OnBit(j.class) \in w ELSE j.on <=> OnBit(j.class) \notin Inverted
        /\ FlagBit(j.class) \in w <=>
             IF j.flag = Nil THEN FlagBit(j.class) \in w ELSE j.flag <=> FlagBit(j.class) \notin Inverted
    BY <1>1, <1>2, UACHas, RebuiltHas
  <1>4. /\ BitAs(c.o, OnBit(j.class), j.on, OnBit(j.class) \in w)
        /\ BitAs(c.o, FlagBit(j.class), j.flag, FlagBit(j.class) \in w)
    BY <1>1, <1>3, BitKept
  <1>5. /\ c.o.desc = IF j.desc = Nil THEN c.o.desc ELSE j.desc
        /\ c.o.must = IF j.must = Nil THEN c.o.must ELSE j.must
    BY DEF HasMods, ChangesDesc, ChangesMust
  <1> QED
    BY <1>4, <1>5 DEF Applied, KeepsPwd

\* Where an Update goes on after its first read.
LEMMA AfterGetLocal ==
  ASSUME NEW p, job[p] \in Jobs, job[p].op = "Update", NEW c, NEW d, NEW t, NEW l, NEW b
  PROVE  /\ UpdateLocal(AfterGet(p, c), job[p], c.o, c.o, d)
         /\ AfterGet(p, c) \in {"sid", "modify", "move", "resolve", "reread"}
         /\ Draft(AfterGet(p, c), job[p], t, l, b)
  <1>1. CASE NeedsSD(job[p])
    <2>1. AfterGet(p, c) = "sid"
      BY <1>1 DEF AfterGet
    <2> QED
      BY <2>1 DEF UpdateLocal, Draft, WriteList
  <1>2. CASE ~NeedsSD(job[p]) /\ HasMods(p, c)
    <2>1. AfterGet(p, c) = "modify"
      BY <1>2 DEF AfterGet
    <2> QED
      BY <1>2, <2>1 DEF UpdateLocal, Draft, WriteList
  <1>3. CASE ~NeedsSD(job[p]) /\ ~HasMods(p, c)
    <2>1. AfterGet(p, c) = AfterModify(p, c) /\ job[p].who = Nil
      BY <1>3 DEF AfterGet, NeedsSD
    <2>2. /\ UpdateLocal(AfterModify(p, c), job[p], c.o, c.o, d)
          /\ AfterModify(p, c) \in {"move", "resolve", "reread"}
      BY <1>3, <2>1, NoModsApplied, AfterModifyLocal
    <2> QED
      BY <2>1, <2>2 DEF Draft, WriteList
  <1> QED
    BY <1>1, <1>2, <1>3

LEMMA SerialGet ==
  ASSUME TypeInv, GoneInv, SerialInv, UNCHANGED load, NEW p \in Procs, Frame(p), GetCurrent(p)
  PROVE  SerialInv'
  <1> DEFINE j == job[p]
             s == S(p)
  <1>1. pc[p] = "get" /\ UNCHANGED <<born, obj, job, dn>>
    BY DEF GetCurrent
  <1>2. /\ j \in Jobs /\ j.op \in {"Update", "Delete"} /\ cur[p] = Nil /\ W(p) /\ Local(p)
        /\ s \in Guids /\ obj[s] \in Objects
    BY <1>1, CallOK, Working DEF Path
  <1>3. j.id = ByGUID(s) /\ s \in DOMAIN load.start
    BY <1>2 DEF Local, Mine
  <1>4. CASE \E r : Return(p, r)
    BY <1>1, <1>4, ReturnFrame, SerialEnds
  <1>5. ASSUME NEW g \in Matches(j.id, j.class), Found(p, g),
               cur' = [cur EXCEPT ![p] = [guid |-> g, o |-> obj[g]]],
               Continue(p, IF HasPrincipals(p, g) THEN "guids" ELSE AfterGet(p, [guid |-> g, o |-> obj[g]]))
        PROVE  SerialInv'
    <2> DEFINE m == [guid |-> s, o |-> obj[s]]
               c == IF HasPrincipals(p, s) THEN "guids" ELSE AfterGet(p, m)
    <2>1. g = s
      BY <1>3, <1>5 DEF Matches, ByGUID, ByDN
    <2>2. pc'[p] = c /\ cur'[p] = m
      BY <1>5, <2>1, ContinueFrame DEF TypeInv, AccountTypeOK
    <2>3. m.guid = s /\ m.o = obj[s] /\ m # Nil
      <3>1. m \in Accounts
        BY <1>2 DEF Accounts
      <3> QED
        BY <3>1, AccountAssumption
    <2> HIDE DEF m
    <2>4. CASE j.op = "Update"
      <3>1. /\ UpdateLocal(c, j, m.o, obj[s], dn[p]) /\ Draft(c, j, todo'[p], list'[p], born)
            /\ c \in {"guids", "sid", "modify", "move", "resolve", "reread"}
        <4>1. CASE HasPrincipals(p, s)
          BY <2>3, <4>1 DEF UpdateLocal, Draft, WriteList
        <4>2. CASE ~HasPrincipals(p, s)
          BY <1>2, <2>3, <2>4, <4>2, AfterGetLocal
        <4> QED
          BY <4>1, <4>2
      <3> HIDE DEF c
      <3>2. Mine(c, j, m, dn[p], todo'[p], list'[p], s, obj[s], Gone, DOMAIN load.start)
        BY <1>3, <2>4, <3>1 DEF Mine, SDList, ReadList
      <3>3. Ages /\ Whole' /\ Gone' = Gone
        BY <1>1, StillAges, WholeStill DEF GoneInv, Gone
      <3> QED
        BY <1>1, <1>2, <2>2, <2>3, <3>1, <3>2, <3>3, SerialMine
    <2>5. CASE j.op = "Delete"
      <3>1. c \in {"guids", "delete"}
        BY <2>5 DEF AfterGet
      <3> HIDE DEF c
      <3>2. Mine(c, j, m, dn[p], todo'[p], list'[p], s, obj[s], Gone, DOMAIN load.start)
        BY <1>3, <2>3, <2>5, <3>1 DEF Mine, ReadList
      <3>3. Ages /\ Whole' /\ Gone' = Gone
        BY <1>1, StillAges, WholeStill DEF GoneInv, Gone
      <3>4. Draft(c, j, todo'[p], list'[p], born)
        BY <3>1 DEF Draft, WriteList
      <3> QED
        BY <1>1, <1>2, <2>2, <2>3, <3>2, <3>3, <3>4, SerialMine
    <2> QED
      BY <1>2, <2>4, <2>5
  <1> QED
    BY <1>4, <1>5 DEF GetCurrent, Fails

\* An Update's share of what is known of its account.
LEMMA UpdateMine ==
  ASSUME TypeInv, SerialInv, NEW p \in Procs, job[p].op = "Update",
         pc[p] \in {"guids", "modify", "move", "resolve", "setpwd", "reread", "sdRead", "sdWrite", "final",
                    "finalGuids", "replicate"}
  PROVE  /\ job[p] \in Jobs /\ job[p].dn \in DNs /\ cur[p] \in Models /\ cur[p] # Nil /\ cur[p].o \in Objects
         /\ S(p) = cur[p].guid /\ cur[p].o.at \in DNs
         /\ W(p) /\ S(p) \in Guids /\ obj[S(p)] \in Objects /\ job[p].id = ByGUID(S(p)) /\ S(p) \in DOMAIN load.start
         /\ UpdateLocal(pc[p], job[p], cur[p].o, obj[S(p)], dn[p]) /\ SDList(pc[p], job[p], todo[p], list[p])
         /\ ReadList(pc[p], IF job[p].class = Class[S(p)] THEN obj[S(p)].who ELSE Nil, todo[p], list[p], Gone)
  <1>1. job[p] \in Jobs /\ job[p].dn \in DNs /\ cur[p] \in Models
    BY CallOK, JobTypes DEF Path
  <1>2. cur[p] # Nil /\ cur[p].o.at \in DNs /\ cur[p].o \in Objects
    BY <1>1, ModelTypes
  <1>3. W(p) /\ S(p) \in Guids /\ obj[S(p)] \in Objects /\ Local(p) /\ S(p) = cur[p].guid
    BY <1>2, Working
  <1> QED
    BY <1>1, <1>2, <1>3 DEF Local, Mine

LEMMA SerialModify ==
  ASSUME TypeInv, GoneInv, SerialInv, UNCHANGED load, NEW p \in Procs, Frame(p), Modify(p)
  PROVE  SerialInv'
  <1> DEFINE j == job[p]
             s == S(p)
             o == obj[s]
             m == cur[p]
             d == m.o.at
             new == Edit(d, LAMBDA x : Modified(p, x))
             n == new[s]
             c == AfterModify(p, m)
  <1>1. pc[p] = "modify" /\ j.op = "Update" /\ UNCHANGED <<prVars, born, job, cur, dn>>
    BY ModifyStep, CallOK DEF Path
  <1>2. PICK r \in {"NotFound", "Password", "nil"} : WriteReq(p, r, new, c)
    BY ModifyStep
  <1>3. /\ j \in Jobs /\ m \in Models /\ d \in DNs /\ s = m.guid /\ W(p) /\ s \in Guids /\ o \in Objects /\ m # Nil
        /\ j.id = ByGUID(s) /\ s \in DOMAIN load.start
    BY <1>1, UpdateMine
  <1>4. o = m.o
    BY <1>1, UpdateMine DEF UpdateLocal
  <1>5. n = Modified(p, o)
    BY <1>3, <1>4 DEF Edit
  <1>6. /\ n.at = o.at /\ n.pwd = o.pwd /\ n.deny = o.deny
        /\ n.desc = IF ChangesDesc(p, m) THEN j.desc ELSE o.desc
        /\ n.word = IF ChangesWord(p, m) THEN NewWord(p, m) ELSE o.word
        /\ n.must = IF ChangesMust(p, m) THEN j.must ELSE o.must
        /\ n.who = IF NeedsSD(j) THEN list[p] ELSE o.who
    BY <1>3, <1>5 DEF Modified, Objects
  <1>7. \A g \in Guids : obj[g].at # d => new[g] = obj[g]
    BY DEF Edit
  <1> HIDE DEF new, n, o
  <1>8. Draft("modify", j, todo[p], list[p], born)
    BY <1>1 DEF SerialInv
  <1>9. n.who = (IF j.who = Nil THEN o.who ELSE j.who) /\ (NeedsSD(j) <=> j.who # Nil)
    BY <1>1, <1>6, <1>8 DEF Draft, WriteList, NeedsSD
  <1>10. n.who # Nil => Class[s] \in {"computer", "gmsa"} /\ n.who \subseteq born
    <2>1. CASE j.who = Nil
      <3>1. n.who = o.who
        BY <1>9, <2>1
      <3> QED
        BY <1>3, <3>1 DEF SerialInv, Whole, o
    <2>2. CASE j.who # Nil
      <3>1. Class[s] = j.class /\ j.class \in {"computer", "gmsa"}
        <4>1. j.id.arg = s
          BY <1>3 DEF ByGUID
        <4> QED
          BY <1>1, <1>3, <2>2, <4>1, AccountAssumption
      <3>2. n.who = list[p] /\ list[p] \subseteq born
        BY <1>6, <1>8, <1>9, <2>2 DEF Draft
      <3> QED
        BY <3>1, <3>2
    <2> QED
      BY <2>1, <2>2
  <1>11. /\ BitAs(n, OnBit(j.class), j.on, OnBit(j.class) \in m.o.word)
         /\ BitAs(n, FlagBit(j.class), j.flag, FlagBit(j.class) \in m.o.word)
    <2>1. j.class \in Classes /\ j.on \in Maybe /\ j.flag \in Maybe
      BY <1>3, JobTypes
    <2>2. \A b \in {OnBit(j.class), FlagBit(j.class)} : b \in n.word <=> b \in NewWord(p, m)
      <3>1. CASE ChangesWord(p, m)
        BY <1>6, <3>1
      <3>2. CASE ~ChangesWord(p, m)
        <4>1. n.word = m.o.word /\ NewWord(p, m) = rebuilt(j.class, m.o.word)
          BY <1>4, <1>6, <3>2 DEF ChangesWord
        <4> QED
          BY <2>1, <4>1, RebuiltHas
      <3> QED
        BY <3>1, <3>2
    <2>3. /\ OnBit(j.class) \in n.word <=>
                IF j.on = Nil THEN OnBit(j.class) \in m.o.word ELSE j.on <=> OnBit(j.class) \notin Inverted
          /\ FlagBit(j.class) \in n.word <=>
                IF j.flag = Nil THEN FlagBit(j.class) \in m.o.word ELSE j.flag <=> FlagBit(j.class) \notin Inverted
      BY <1>3, <2>1, <2>2, UACHas, RebuiltHas DEF NewWord
    <2> QED
      BY <2>1, <2>3, BitKept
  <1>12. Applied(n, j, m.o)
    <2>1. n.desc = IF j.desc = Nil THEN m.o.desc ELSE j.desc
      BY <1>4, <1>6 DEF ChangesDesc
    <2> QED
      BY <1>4, <1>9, <1>11, <2>1 DEF Applied
  <1>13. KeepsPwd(n, j, m.o)
    BY <1>4, <1>6 DEF ChangesMust, KeepsPwd
  <1>14. UpdateLocal(c, j, m.o, n, dn[p]) /\ c \in {"move", "resolve", "reread"}
    BY <1>4, <1>6, <1>12, <1>13, AfterModifyLocal
  <1> HIDE DEF c
  <1>15. \A gone : Mine(c, j, m, dn[p], todo[p], list[p], s, n, gone, DOMAIN load.start)
    BY <1>1, <1>3, <1>14 DEF Mine, SDList, ReadList
  <1>16. Draft(c, j, todo[p], list[p], born)
    BY <1>14 DEF Draft, WriteList
  <1>17. o.at = d /\ n.at \in {d, Nil} /\ n.pwd \in {Nil, s}
    BY <1>3, <1>4, <1>6 DEF SerialInv, Whole, o
  <1>18. r \in Results
    BY DEF Results
  <1> QED
    BY <1>1, <1>2, <1>3, <1>7, <1>10, <1>15, <1>16, <1>17, <1>18, SerialWrite DEF n, o

LEMMA SerialMove ==
  ASSUME TypeInv, GoneInv, SerialInv, UNCHANGED load, NEW p \in Procs, Frame(p), Move(p)
  PROVE  SerialInv'
  <1> DEFINE j == job[p]
             s == S(p)
             o == obj[s]
             m == cur[p]
             d == m.o.at
             r == IF At(d) = {} THEN "NotFound" ELSE IF At(j.dn) # {} THEN "AlreadyExists" ELSE "nil"
             new == Edit(d, LAMBDA x : [x EXCEPT !.at = j.dn])
             n == new[s]
             c == PasswordNext(p)
  <1>1. pc[p] = "move" /\ UNCHANGED <<prVars, born, job, cur, dn>> /\ WriteReq(p, r, new, c)
    BY DEF Move
  <1>2. j.op = "Update"
    BY <1>1, CallOK DEF Path
  <1>3. /\ j \in Jobs /\ m \in Models /\ d \in DNs /\ s = m.guid /\ W(p) /\ s \in Guids /\ o \in Objects /\ m # Nil
        /\ j.id = ByGUID(s) /\ s \in DOMAIN load.start
    BY <1>1, <1>2, UpdateMine
  <1>4. /\ o.at = d /\ Applied(o, j, m.o) /\ KeepsPwd(o, j, m.o) /\ o.deny = m.o.deny
    BY <1>1, <1>2, UpdateMine DEF UpdateLocal
  <1>5. n = [o EXCEPT !.at = j.dn]
    BY <1>3, <1>4 DEF Edit
  <1>6. /\ n.at = j.dn /\ n.pwd = o.pwd /\ n.deny = o.deny /\ n.desc = o.desc /\ n.word = o.word
        /\ n.must = o.must /\ n.who = o.who
    BY <1>3, <1>5 DEF Objects
  <1>7. (\A g \in Guids : obj[g].at # d => new[g] = obj[g]) /\ r \in Results /\ (r = "nil" => At(j.dn) = {})
    BY DEF Edit, Results
  <1> HIDE DEF new, n, o, r
  <1>8. Applied(n, j, m.o) /\ KeepsPwd(n, j, m.o)
    BY <1>4, <1>6 DEF Applied, KeepsPwd, BitAs
  <1>9. UpdateLocal(c, j, m.o, n, dn[p]) /\ c \in {"resolve", "reread"}
    BY <1>4, <1>6, <1>8, AfterMoveLocal
  <1> HIDE DEF c
  <1>10. \A gone : Mine(c, j, m, dn[p], todo[p], list[p], s, n, gone, DOMAIN load.start)
    BY <1>2, <1>3, <1>9 DEF Mine, SDList, ReadList
  <1>11. Draft(c, j, todo[p], list[p], born)
    BY <1>9 DEF Draft, WriteList
  <1>12. n.pwd \in {Nil, s} /\ (n.who # Nil => Class[s] \in {"computer", "gmsa"} /\ n.who \subseteq born)
    BY <1>3, <1>6 DEF SerialInv, Whole, o
  <1> QED
    BY <1>1, <1>3, <1>4, <1>6, <1>7, <1>10, <1>11, <1>12, SerialWrite DEF n, o

\* Where the right seen is the one asked for, it is, or it cannot be seen.
LEMMA SeenDeny ==
  ASSUME NEW j, NEW o, NEW old, j.can \in Maybe, o.deny \in BOOLEAN, o.readable \in BOOLEAN,
         o.deny = old.deny, j.can \in {Nil, CanChange(o)}
  PROVE  DenyAs(o, j, old)
  <1>1. CASE j.can = Nil \/ (j.can = TRUE /\ ~o.readable)
    BY <1>1 DEF DenyAs
  <1>2. CASE ~(j.can = Nil \/ (j.can = TRUE /\ ~o.readable))
    <2>1. j.can = CanChange(o) /\ j.can \in BOOLEAN
      BY <1>2 DEF Maybe
    <2>2. o.readable
      BY <1>2, <2>1 DEF CanChange
    <2>3. o.deny = ~j.can
      BY <2>1, <2>2 DEF CanChange
    <2> QED
      BY <1>2, <2>3 DEF DenyAs
  <1> QED
    BY <1>1, <1>2

LEMMA SerialReread ==
  ASSUME TypeInv, GoneInv, SerialInv, UNCHANGED load, NEW p \in Procs, Frame(p), Reread(p)
  PROVE  SerialInv'
  <1> DEFINE j == job[p]
             s == S(p)
             o == obj[s]
             old == cur[p].o
             f == o.at \in DNs
             fc == IF HasPrincipals(p, s) THEN "finalGuids" ELSE "replicate"
             c == IF j.can \notin {Nil, CanChange(o)} THEN "sdRead" ELSE fc
             w == IF j.class = Class[s] THEN o.who ELSE Nil
  <1>1. pc[p] = "reread" /\ UNCHANGED <<born, job, cur>>
    BY DEF Reread
  <1>2. j.op = "Update"
    BY <1>1, CallOK DEF Path
  <1>3. /\ j \in Jobs /\ cur[p] # Nil /\ s = cur[p].guid /\ W(p) /\ s \in Guids /\ o \in Objects
        /\ j.id = ByGUID(s) /\ s \in DOMAIN load.start
    BY <1>1, <1>2, UpdateMine
  <1>4. /\ Applied(o, j, old) /\ o.at = j.dn /\ (~j.pwd => KeepsPwd(o, j, old)) /\ o.deny = old.deny
        /\ (j.pwd => o.pwd # Nil /\ ~o.must)
    BY <1>1, <1>2, UpdateMine DEF UpdateLocal
  <1>5. Found(p, s) /\ dn' = [dn EXCEPT ![p] = o.at] /\ Read(p, f, c)
    BY <1>3 DEF Reread
  <1>6. CASE UNCHANGED obj /\ Stops(p)
    BY <1>1, <1>6, StopsFrame, SerialEnds
  <1>7. CASE UNCHANGED obj /\ Continue(p, c)
    <2>1. pc'[p] = c /\ dn'[p] = j.dn
      BY <1>4, <1>5, <1>7, ContinueFrame DEF TypeInv, AccountTypeOK
    <2>2. ReadList(fc, w, todo'[p], list'[p], Gone) /\ (w = Nil => todo'[p] = {} /\ list'[p] = {})
      BY <1>3, <1>5, FoundList
    <2>3. j.can \in Maybe /\ o.deny \in BOOLEAN /\ o.readable \in BOOLEAN /\ fc \in {"finalGuids", "replicate"}
      BY <1>3, JobTypes DEF Objects
    <2>4. CASE j.can \notin {Nil, CanChange(o)}
      <3>1. j.class = "user"
        BY <1>3, <2>4, AccountAssumption
      <3>2. w = Nil
        BY <1>3, <3>1 DEF SerialInv, Whole
      <3>3. c = "sdRead"
        BY <2>4
      <3>4. UpdateLocal("sdRead", j, old, o, j.dn)
        BY <1>4 DEF UpdateLocal
      <3>5. SDList("sdRead", j, todo'[p], list'[p])
        BY <2>2, <3>1, <3>2 DEF SDList
      <3>6. Mine("sdRead", j, cur[p], j.dn, todo'[p], list'[p], s, o, Gone, DOMAIN load.start)
        BY <1>2, <1>3, <3>4, <3>5 DEF Mine, ReadList
      <3>7. Draft("sdRead", j, todo'[p], list'[p], born)
        BY DEF Draft, WriteList
      <3> QED
        BY <1>1, <1>3, <1>7, <2>1, <3>3, <3>6, <3>7, SerialStay
    <2>5. CASE j.can \in {Nil, CanChange(o)}
      <3>1. c = fc
        BY <2>5
      <3> HIDE DEF fc, c, w
      <3>2. DenyAs(o, j, old)
        BY <1>4, <2>3, <2>5, SeenDeny
      <3>3. UpdateLocal(fc, j, old, o, j.dn)
        BY <1>4, <2>3, <3>2 DEF UpdateLocal
      <3>4. Mine(fc, j, cur[p], j.dn, todo'[p], list'[p], s, o, Gone, DOMAIN load.start)
        BY <1>2, <1>3, <2>2, <2>3, <3>3 DEF Mine, SDList, w
      <3>5. Draft(fc, j, todo'[p], list'[p], born)
        BY <2>3 DEF Draft, WriteList
      <3> QED
        BY <1>1, <1>3, <1>7, <2>1, <3>1, <3>4, <3>5, SerialStay
    <2> QED
      BY <2>4, <2>5
  <1> HIDE DEF c, f
  <1> QED
    BY <1>5, <1>6, <1>7, ReadEnds

LEMMA SerialFinal ==
  ASSUME TypeInv, GoneInv, SerialInv, UNCHANGED load, NEW p \in Procs, Frame(p), Final(p)
  PROVE  SerialInv'
  <1> DEFINE j == job[p]
             s == S(p)
             w == IF j.class = Class[s] THEN obj[s].who ELSE Nil
  <1>1. pc[p] = "final" /\ UNCHANGED <<prVars, born, job, cur, dn>>
        /\ Read(p, obj[cur[p].guid].at \in DNs, "replicate")
    BY DEF Final
  <1>2. j.op = "Update"
    BY <1>1, CallOK DEF Path
  <1>3. /\ j \in Jobs /\ cur[p] # Nil /\ W(p) /\ s \in Guids
        /\ j.id = ByGUID(s) /\ s \in DOMAIN load.start
        /\ UpdateLocal("final", j, cur[p].o, obj[s], dn[p]) /\ SDList("final", j, todo[p], list[p])
    BY <1>1, <1>2, UpdateMine
  <1>4. w = Nil /\ todo[p] = {} /\ list[p] = {}
    BY <1>3 DEF SDList, SerialInv, Whole
  <1>5. CASE UNCHANGED obj /\ Stops(p)
    BY <1>1, <1>5, StopsFrame, SerialEnds
  <1>6. CASE UNCHANGED obj /\ Continue(p, "replicate")
    <2>1. pc'[p] = "replicate" /\ todo'[p] = todo[p] /\ list'[p] = list[p]
      BY <1>1, <1>6, ContinueFrame DEF prVars
    <2>2. UpdateLocal("replicate", j, cur[p].o, obj[s], dn[p])
      BY <1>3 DEF UpdateLocal
    <2>3. ReadList("replicate", w, todo[p], list[p], Gone)
      BY <1>4 DEF ReadList
    <2>4. Mine("replicate", j, cur[p], dn[p], todo[p], list[p], s, obj[s], Gone, DOMAIN load.start)
      BY <1>2, <1>3, <2>2, <2>3 DEF Mine, SDList
    <2>5. Draft("replicate", j, todo[p], list[p], born)
      BY DEF Draft, WriteList
    <2> QED
      BY <1>1, <1>3, <1>6, <2>1, <2>4, <2>5, SerialStay
  <1> QED
    BY <1>1, <1>5, <1>6, ReadEnds

\* principalGUIDs, of the first read and of the last.
LEMMA SerialGUIDs ==
  ASSUME TypeInv, GoneInv, SerialInv, UNCHANGED load, NEW p \in Procs, Frame(p), PrincipalGUIDs(p)
  PROVE  SerialInv'
  <1> DEFINE j == job[p]
             s == S(p)
             o == obj[s]
             w == IF j.class = Class[s] THEN o.who ELSE Nil
  <1>1. pc[p] \in {"guids", "finalGuids"} /\ UNCHANGED <<born, obj, job, cur, dn>>
    BY PrincipalGUIDsStep
  <1>2. /\ j \in Jobs /\ cur[p] \in Models /\ W(p) /\ s \in Guids /\ o \in Objects /\ Local(p)
        /\ cur[p] # Nil /\ todo[p] \subseteq Guids /\ list[p] \in SUBSET Guids
    <2>1. j \in Jobs /\ cur[p] \in Models /\ list[p] \in SUBSET Guids
      BY <1>1, CallOK DEF Path
    <2> QED
      BY <1>1, <2>1, Working, ModelTypes DEF TypeInv, AccountTypeOK
  <1>3. CASE Fails(p)
    BY <1>1, <1>3, FailsStops, StopsFrame, SerialEnds
  <1>4. ASSUME NEW g \in todo[p], Looked(p, g) PROVE SerialInv'
    <2> DEFINE t == todo[p] \ {g}
               l == IF obj[g].at \in DNs THEN list[p] \union {g} ELSE list[p]
    <2>1. todo'[p] = t /\ list'[p] = l
      BY <1>4 DEF Looked, TypeInv, AccountTypeOK
    <2>2. pc'[p] = IF t # {} THEN pc[p] ELSE IF pc[p] = "guids" THEN AfterGet(p, cur[p]) ELSE "replicate"
      BY <1>4, ContinueFrame DEF Looked
    <2> HIDE DEF t, l
    <2>3. SUFFICES /\ Draft(pc'[p], j, t, l, born)
                   /\ Mine(pc'[p], j, cur[p], dn[p], t, l, s, o, Gone, DOMAIN load.start)
      BY <1>1, <1>2, <2>1, SerialStay
    <2>4. CASE pc[p] = "guids" /\ j.op = "Update"
      <3>1. /\ j.id = ByGUID(s) /\ s \in DOMAIN load.start /\ o = cur[p].o
        BY <2>4, UpdateMine DEF UpdateLocal
      <3>2. /\ UpdateLocal(pc'[p], j, cur[p].o, o, dn[p]) /\ Draft(pc'[p], j, t, l, born)
            /\ pc'[p] \in {"guids", "sid", "modify", "move", "resolve", "reread"}
        <4>1. CASE t # {}
          BY <2>2, <2>4, <3>1, <4>1 DEF UpdateLocal, Draft, WriteList
        <4>2. CASE t = {}
          BY <1>2, <2>2, <2>4, <3>1, <4>2, AfterGetLocal
        <4> QED
          BY <4>1, <4>2
      <3> QED
        BY <2>4, <3>1, <3>2 DEF Mine, SDList, ReadList
    <2>5. CASE pc[p] = "guids" /\ j.op = "Delete"
      <3>1. pc'[p] \in {"guids", "delete"}
        BY <2>2, <2>5 DEF AfterGet
      <3>2. j.id = ByGUID(s) /\ s \in DOMAIN load.start /\ o.at = cur[p].o.at
        BY <1>2, <2>5 DEF Local, Mine
      <3> QED
        BY <2>5, <3>1, <3>2 DEF Mine, ReadList, Draft, WriteList
    <2>6. CASE pc[p] = "finalGuids"
      <3>1. ReadList("finalGuids", w, todo[p], list[p], Gone)
        BY <1>2, <2>6 DEF Local, Mine
      <3>2. /\ w # Nil /\ list[p] \union todo[p] \subseteq w /\ w \ Gone \subseteq list[p] \union todo[p]
        BY <3>1 DEF ReadList
      <3>3. g \notin Gone => obj[g].at \in DNs
        <4>1. g \in Guids /\ obj[g].at \in DNs \union {Nil}
          BY <1>2 DEF TypeInv, AccountTypeOK, Objects
        <4> QED
          BY <4>1 DEF Gone
      <3>4. l \in SUBSET Guids /\ l \union t \subseteq w /\ w \ Gone \subseteq l \union t
        BY <1>2, <3>2, <3>3 DEF l, t
      <3>5. pc'[p] \in {"finalGuids", "replicate"} /\ (pc'[p] = "replicate" => t = {})
        BY <2>2, <2>6
      <3>6. ReadList(pc'[p], w, t, l, Gone)
        BY <3>2, <3>4, <3>5 DEF ReadList
      <3>7. Draft(pc'[p], j, t, l, born)
        BY <3>5 DEF Draft, WriteList
      <3>8. j.op \in {"Create", "Update"}
        BY <2>6 DEF TypeInv, Path
      <3>9. CASE j.op = "Update"
        <4>1. UpdateLocal("finalGuids", j, cur[p].o, o, dn[p]) /\ j.id = ByGUID(s) /\ s \in DOMAIN load.start
          BY <2>6, <3>9, UpdateMine
        <4>2. UpdateLocal(pc'[p], j, cur[p].o, o, dn[p])
          BY <3>5, <4>1 DEF UpdateLocal
        <4> QED
          BY <3>5, <3>6, <3>7, <3>9, <4>1, <4>2 DEF Mine, SDList
      <3>10. CASE j.op = "Create"
        <4>1. CreateLocal("finalGuids", j, s, o, dn[p]) /\ s \notin DOMAIN load.start /\ Class[s] = j.class
          BY <1>2, <2>6, <3>10 DEF Local, Mine
        <4>2. CreateLocal(pc'[p], j, s, o, dn[p])
          BY <3>5, <4>1 DEF CreateLocal
        <4> QED
          BY <3>5, <3>6, <3>7, <3>10, <4>1, <4>2 DEF Mine
      <3> QED
        BY <3>8, <3>9, <3>10
    <2>7. pc[p] = "guids" => j.op \in {"Update", "Delete"}
      BY DEF TypeInv, Path
    <2> QED
      BY <1>1, <2>4, <2>5, <2>6, <2>7
  <1> QED
    BY <1>3, <1>4, PrincipalGUIDsStep

-----------------------------------------------------------------------------
(* Passwords, the right to change them, and Delete *)

\* A Create's share of what is known of its account.
LEMMA CreateMine ==
  ASSUME TypeInv, SerialInv, NEW p \in Procs, job[p].op = "Create",
         pc[p] \in {"lock", "resolve", "setpwd", "post", "sdRead", "sdWrite", "created", "finalGuids", "replicate"}
  PROVE  /\ job[p] \in Jobs /\ job[p].dn \in DNs /\ cur[p] # Nil /\ S(p) = cur[p].guid
         /\ W(p) /\ S(p) \in Guids /\ obj[S(p)] \in Objects /\ Class[S(p)] = job[p].class /\ S(p) \notin DOMAIN load.start
         /\ CreateLocal(pc[p], job[p], S(p), obj[S(p)], dn[p])
         /\ ReadList(pc[p], IF job[p].class = Class[S(p)] THEN obj[S(p)].who ELSE Nil, todo[p], list[p], Gone)
  <1>1. job[p] \in Jobs /\ job[p].dn \in DNs /\ cur[p] \in Models
    BY CallOK, JobTypes DEF Path
  <1>2. cur[p] # Nil
    BY <1>1, ModelTypes
  <1>3. W(p) /\ S(p) \in Guids /\ obj[S(p)] \in Objects /\ Local(p) /\ S(p) = cur[p].guid
    BY <1>2, Working
  <1> QED
    BY <1>1, <1>2, <1>3 DEF Local, Mine

LEMMA SerialResolve ==
  ASSUME TypeInv, GoneInv, SerialInv, UNCHANGED load, NEW p \in Procs, Frame(p), ResolvePwd(p)
  PROVE  SerialInv'
  <1> DEFINE j == job[p]
             s == S(p)
             o == obj[s]
  <1>1. pc[p] = "resolve" /\ UNCHANGED <<prVars, born, obj, job, cur>>
    BY DEF ResolvePwd
  <1>2. /\ j \in Jobs /\ j.op \in {"Create", "Update", "SetPassword"} /\ W(p) /\ s \in Guids /\ o \in Objects /\ Local(p)
    BY <1>1, PasswordIDTypes, JobTypes, Working
  <1>3. CASE \E r : Return(p, r)
    BY <1>1, <1>3, ReturnFrame, SerialEnds
  <1>4. ASSUME NEW d, dn' = [dn EXCEPT ![p] = d], Continue(p, "setpwd"),
               IF PasswordID(p).form = "dn" THEN d = PasswordID(p).arg ELSE d = obj[PasswordID(p).arg].at
        PROVE  SerialInv'
    <2>1. dn'[p] = d /\ pc'[p] = "setpwd" /\ todo'[p] = todo[p] /\ list'[p] = list[p]
      BY <1>1, <1>4, ContinueFrame DEF TypeInv, AccountTypeOK, prVars
    <2>2. Draft("setpwd", j, todo[p], list[p], born)
      BY DEF Draft, WriteList
    <2>3. SUFFICES Mine("setpwd", j, cur[p], d, todo[p], list[p], s, o, Gone, DOMAIN load.start)
      BY <1>1, <1>2, <2>1, <2>2, SerialStay
    <2>4. CASE j.op = "Create"
      <3>1. PasswordID(p) = ByDN(j.dn)
        BY <2>4 DEF PasswordID, Key
      <3>2. d = j.dn
        BY <1>4, <3>1 DEF ByDN
      <3>3. CreateLocal("resolve", j, s, o, dn[p]) /\ Class[s] = j.class /\ s \notin DOMAIN load.start
        BY <1>1, <2>4, CreateMine
      <3>4. CreateLocal("setpwd", j, s, o, d)
        BY <3>2, <3>3 DEF CreateLocal
      <3> QED
        BY <2>4, <3>3, <3>4 DEF Mine, ReadList
    <2>5. CASE j.op = "Update"
      <3>1. /\ j.id = ByGUID(s) /\ s \in DOMAIN load.start /\ s = cur[p].guid
            /\ UpdateLocal("resolve", j, cur[p].o, o, dn[p])
        BY <1>1, <2>5, UpdateMine
      <3>2. PasswordID(p) = ByGUID(s)
        BY <2>5, <3>1 DEF PasswordID
      <3>3. d = o.at
        BY <1>4, <3>2 DEF ByGUID
      <3>4. UpdateLocal("setpwd", j, cur[p].o, o, d)
        BY <3>1, <3>3 DEF UpdateLocal
      <3> QED
        BY <2>5, <3>1, <3>4 DEF Mine, ReadList, SDList
    <2>6. CASE j.op = "SetPassword"
      <3>1. j.id = ByGUID(s) /\ s \in DOMAIN load.start /\ cur[p] = Nil
        BY <1>1, <1>2, <2>6, PasswordIDTypes DEF Local, Mine
      <3>2. PasswordID(p) = ByGUID(s)
        BY <2>6, <3>1 DEF PasswordID, Key
      <3>3. d = o.at
        BY <1>4, <3>2 DEF ByGUID
      <3> QED
        BY <2>6, <3>1, <3>3 DEF Mine
    <2> QED
      BY <1>2, <2>4, <2>5, <2>6
  <1> QED
    BY <1>3, <1>4 DEF ResolvePwd, Fails

\* The request for the password goes to the account of the call.
LEMMA PwdTarget ==
  ASSUME TypeInv, SerialInv, NEW p \in Procs, pc[p] = "setpwd"
  PROVE  W(p) /\ S(p) \in Guids /\ obj[S(p)].at = dn[p] /\ dn[p] \in DNs /\ Meant(p) = S(p)
  <1>1. /\ job[p] \in Jobs /\ job[p].op \in {"Create", "Update", "SetPassword"} /\ dn[p] \in DNs
    BY PasswordIDTypes, JobTypes
  <1>2. W(p) /\ S(p) \in Guids /\ Local(p)
    BY Working
  <1>3. CASE job[p].op = "Create"
    BY <1>1, <1>2, <1>3, CreateMine DEF CreateLocal, Meant
  <1>4. CASE job[p].op = "Update"
    BY <1>1, <1>2, <1>4, UpdateMine DEF UpdateLocal, Meant
  <1>5. CASE job[p].op = "SetPassword"
    <2>1. cur[p] = Nil /\ job[p].id = ByGUID(S(p)) /\ obj[S(p)].at = dn[p]
      BY <1>2, <1>5, PasswordIDTypes DEF Local, Mine
    <2> QED
      BY <1>1, <1>2, <2>1 DEF Meant, ByGUID
  <1> QED
    BY <1>1, <1>3, <1>4, <1>5

LEMMA SerialSetPwd ==
  ASSUME TypeInv, GoneInv, SerialInv, UNCHANGED load, NEW p \in Procs, Frame(p), SetPwd(p)
  PROVE  SerialInv'
  <1> DEFINE j == job[p]
             s == S(p)
             o == obj[s]
             n == Stamped(p, s)
  <1>1. pc[p] = "setpwd" /\ UNCHANGED <<prVars, born, job, cur, dn>>
    BY SetPwdStep
  <1>2. W(p) /\ s \in Guids /\ o.at = dn[p] /\ dn[p] \in DNs /\ Meant(p) = s
    BY <1>1, PwdTarget
  <1>3. /\ n.at = o.at /\ n.desc = o.desc /\ n.word = o.word /\ n.deny = o.deny /\ n.who = o.who /\ n.must = FALSE
        /\ n.pwd = s
    <2>1. n.pwd = IF Meant(p) = Nil THEN s ELSE Meant(p)
      BY <1>1, <1>2, StampedTypes
    <2>2. n.pwd = s
      BY <1>2, <2>1
    <2> HIDE DEF n
    <2> QED
      BY <1>1, <1>2, <2>2, StampedTypes DEF n
  <1>4. CASE UNCHANGED obj /\ \E r : Return(p, r)
    BY <1>1, <1>4, ReturnFrame, SerialEnds
  <1>5. ASSUME obj' = [g \in Guids |-> IF obj[g].at = dn[p] THEN Stamped(p, g) ELSE obj[g]],
               pc'[p] # "idle" =>
                  /\ Draft(pc'[p], j, todo[p], list[p], born)
                  /\ \A gone : Mine(pc'[p], j, cur[p], dn[p], todo[p], list[p], s, n, gone, DOMAIN load.start)
        PROVE  SerialInv'
    <2>1. At(dn[p]) = {s}
      BY <1>2, Sole
    <2>2. obj'[s] = n /\ \A g \in Guids \ {s} : obj'[g] = obj[g]
      BY <1>2, <1>5, <2>1 DEF At
    <2>3. Whole'
      <3>1. n.who # Nil => Class[s] \in {"computer", "gmsa"} /\ n.who \subseteq born
        BY <1>2, <1>3 DEF SerialInv, Whole
      <3> QED
        BY <1>1, <1>2, <1>3, <2>2, <3>1, WholeEdit
    <2>4. Ages
      BY <1>1, <1>2, <1>5, OnlyAges DEF Only, GoneInv
    <2>5. todo'[p] = todo[p] /\ list'[p] = list[p]
      BY <1>1 DEF prVars
    <2> HIDE DEF n
    <2> QED
      BY <1>1, <1>2, <1>5, <2>2, <2>3, <2>4, <2>5, SerialMine
  <1>6. CASE /\ obj' = [g \in Guids |-> IF obj[g].at = dn[p] THEN Stamped(p, g) ELSE obj[g]]
             /\ \E r : Return(p, r)
    BY <1>5, <1>6, ReturnFrame
  <1> HIDE DEF n
  <1>7. CASE /\ obj' = [g \in Guids |-> IF obj[g].at = dn[p] THEN Stamped(p, g) ELSE obj[g]]
             /\ j.op = "Update" /\ Continue(p, "reread")
    <2>1. pc'[p] = "reread"
      BY <1>7, ContinueFrame
    <2>2. /\ j.id = ByGUID(s) /\ s \in DOMAIN load.start /\ UpdateLocal("setpwd", j, cur[p].o, o, dn[p])
      BY <1>1, <1>7, UpdateMine
    <2>3. Applied(n, j, cur[p].o)
      BY <1>3, <2>2 DEF UpdateLocal, Applied, BitAs
    <2>4. UpdateLocal("reread", j, cur[p].o, n, dn[p])
      BY <1>2, <1>3, <2>2, <2>3, AccountAssumption DEF UpdateLocal
    <2>5. \A gone : Mine("reread", j, cur[p], dn[p], todo[p], list[p], s, n, gone, DOMAIN load.start)
      BY <1>7, <2>2, <2>4 DEF Mine, SDList, ReadList
    <2>6. Draft("reread", j, todo[p], list[p], born)
      BY DEF Draft, WriteList
    <2> QED
      BY <1>5, <1>7, <2>1, <2>5, <2>6
  <1>8. CASE /\ obj' = [g \in Guids |-> IF obj[g].at = dn[p] THEN Stamped(p, g) ELSE obj[g]]
             /\ j.op = "Create" /\ pc' = [pc EXCEPT ![p] = AfterPwd(j)]
    <2>1. pc'[p] = AfterPwd(j) /\ AfterPwd(j) \in {"post", "sdRead", "created"}
      BY <1>8 DEF TypeInv, AccountTypeOK, AfterPwd, AfterPost
    <2>2. /\ Class[s] = j.class /\ s \notin DOMAIN load.start /\ CreateLocal("setpwd", j, s, o, dn[p]) /\ j \in Jobs
          /\ o \in Objects
      BY <1>1, <1>8, CreateMine
    <2>3. Stands(j, n) /\ n.word = createWord(j) /\ ~o.deny /\ o.deny \in BOOLEAN /\ j.pwd /\ j.pwd \in BOOLEAN
      BY <1>3, <2>2, JobTypes DEF CreateLocal, Stands, BitAs, Objects
    <2>4. (n.pwd = s) = j.pwd
      BY <1>3, <2>3
    <2>5. CreateLocal(AfterPwd(j), j, s, n, dn[p])
      BY <1>3, <2>2, <2>3, <2>4, CreateGoes
    <2>6. \A gone : Mine(AfterPwd(j), j, cur[p], dn[p], todo[p], list[p], s, n, gone, DOMAIN load.start)
      BY <1>8, <2>1, <2>2, <2>5 DEF Mine, ReadList
    <2>7. Draft(AfterPwd(j), j, todo[p], list[p], born)
      BY <2>1 DEF Draft, WriteList
    <2> QED
      BY <1>5, <1>8, <2>1, <2>6, <2>7
  <1> QED
    BY <1>4, <1>6, <1>7, <1>8, SetPwdStep

LEMMA SDMine ==
  ASSUME TypeInv, SerialInv, NEW p \in Procs, pc[p] \in {"sdRead", "sdWrite"}
  PROVE  /\ W(p) /\ S(p) \in Guids /\ obj[S(p)] \in Objects /\ obj[S(p)].at = SDTarget(p) /\ SDTarget(p) \in DNs
         /\ job[p].can \in BOOLEAN /\ job[p].op \in {"Create", "Update"}
  <1>1. job[p].can \in BOOLEAN /\ job[p].op \in {"Create", "Update"} /\ SDTarget(p) \in DNs
    BY SDPath
  <1>2. CASE job[p].op = "Create"
    BY <1>1, <1>2, CreateMine DEF CreateLocal, SDTarget
  <1>3. CASE job[p].op = "Update"
    BY <1>1, <1>3, UpdateMine DEF UpdateLocal, SDTarget
  <1> QED
    BY <1>1, <1>2, <1>3

\* The account o, which the right on it now is as asked or is about to be, is one the call
\* can go on with.
LEMMA SDGoes ==
  ASSUME TypeInv, SerialInv, NEW p \in Procs, pc[p] \in {"sdRead", "sdWrite"}, NEW n,
         /\ n.at = obj[S(p)].at /\ n.desc = obj[S(p)].desc /\ n.word = obj[S(p)].word /\ n.pwd = obj[S(p)].pwd
         /\ n.must = obj[S(p)].must /\ n.who = obj[S(p)].who /\ n.readable = obj[S(p)].readable,
         job[p].op = "Update" => n.readable,
         NEW c, \/ c = "sdWrite" /\ n = obj[S(p)]
                \/ c = SDNext(p) /\ n.deny = ~job[p].can
  PROVE  /\ \A gone : Mine(c, job[p], cur[p], dn[p], todo[p], list[p], S(p), n, gone, DOMAIN load.start)
         /\ Draft(c, job[p], todo[p], list[p], born)
  <1> DEFINE j == job[p]
             s == S(p)
             o == obj[s]
  <1>1. j.can \in BOOLEAN /\ j.op \in {"Create", "Update"} /\ o \in Objects /\ o.deny \in BOOLEAN
    BY SDMine DEF Objects
  <1>2. c \in {"sdWrite", "created", "final"}
    BY DEF SDNext
  <1>3. Draft(c, j, todo[p], list[p], born)
    BY <1>2 DEF Draft, WriteList
  <1>4. CASE j.op = "Create"
    <2>1. CreateLocal(pc[p], j, s, o, dn[p]) /\ Class[s] = j.class /\ s \notin DOMAIN load.start
      BY <1>4, CreateMine
    <2>2. j.can = FALSE /\ (c # "sdWrite" => n.deny = (j.can = FALSE))
      BY <1>1, <2>1 DEF CreateLocal
    <2>3. CreateLocal(c, j, s, n, dn[p])
      <3>1. CASE c = "sdWrite"
        <4>1. n = o
          BY <3>1 DEF SDNext
        <4> QED
          BY <2>1, <3>1, <4>1 DEF CreateLocal
      <3>2. CASE c # "sdWrite"
        <4>1. c = "created"
          BY <1>4, <3>2 DEF SDNext
        <4> QED
          BY <2>1, <2>2, <4>1 DEF CreateLocal, BitAs
      <3> QED
        BY <3>1, <3>2
    <2> QED
      BY <1>2, <1>3, <1>4, <2>1, <2>3 DEF Mine, ReadList
  <1>5. CASE j.op = "Update"
    <2>1. /\ UpdateLocal(pc[p], j, cur[p].o, o, dn[p]) /\ j.id = ByGUID(s) /\ s \in DOMAIN load.start
          /\ SDList(pc[p], j, todo[p], list[p])
      BY <1>5, UpdateMine
    <2>2. SDList(c, j, todo[p], list[p])
      BY <2>1 DEF SDList
    <2>3. /\ Applied(n, j, cur[p].o) /\ n.at = j.dn /\ (~j.pwd => KeepsPwd(n, j, cur[p].o))
          /\ j.pwd => n.pwd # Nil /\ ~n.must
      BY <2>1 DEF UpdateLocal, Applied, KeepsPwd, BitAs
    <2>4. UpdateLocal(c, j, cur[p].o, n, dn[p])
      <3>1. CASE c = "sdWrite"
        BY <1>5, <2>1, <2>3, <3>1 DEF UpdateLocal
      <3>2. CASE c # "sdWrite"
        <4>1. c = "final" /\ n.deny = ~j.can /\ j.can # Nil
          BY <1>1, <1>5, <3>2, AccountAssumption DEF SDNext
        <4>2. DenyAs(n, j, cur[p].o)
          BY <1>5, <4>1 DEF DenyAs
        <4> QED
          BY <2>3, <4>1, <4>2 DEF UpdateLocal
      <3> QED
        BY <3>1, <3>2
    <2> QED
      BY <1>2, <1>3, <1>5, <2>1, <2>2, <2>4 DEF Mine, ReadList
  <1> QED
    BY <1>1, <1>4, <1>5

LEMMA SerialSDRead ==
  ASSUME TypeInv, GoneInv, SerialInv, UNCHANGED load, NEW p \in Procs, Frame(p), SDRead(p)
  PROVE  SerialInv'
  <1> DEFINE s == S(p)
             o == obj[s]
             d == SDTarget(p)
  <1>1. pc[p] = "sdRead" /\ UNCHANGED <<prVars, born, obj, job, cur, dn>>
    BY DEF SDRead
  <1>2. W(p) /\ s \in Guids /\ o \in Objects /\ o.at = d /\ d \in DNs /\ job[p].can \in BOOLEAN
    BY <1>1, SDMine
  <1>3. CASE \E r : Return(p, r)
    BY <1>1, <1>3, ReturnFrame, SerialEnds
  <1>4. ASSUME NEW g \in At(d), obj[g].readable, Continue(p, IF job[p].can = ~obj[g].deny THEN SDNext(p) ELSE "sdWrite")
        PROVE  SerialInv'
    <2> DEFINE c == IF job[p].can = ~o.deny THEN SDNext(p) ELSE "sdWrite"
    <2>1. g = s
      BY <1>2, Sole
    <2>2. pc'[p] = c /\ todo'[p] = todo[p] /\ list'[p] = list[p]
      BY <1>1, <1>4, <2>1, ContinueFrame DEF prVars
    <2>3. o.deny \in BOOLEAN
      BY <1>2 DEF Objects
    <2>4. /\ (c = "sdWrite" /\ o = obj[S(p)]) \/ (c = SDNext(p) /\ o.deny = ~job[p].can)
          /\ o.readable
      BY <1>2, <1>4, <2>1, <2>3
    <2> HIDE DEF c
    <2>5. /\ Mine(c, job[p], cur[p], dn[p], todo[p], list[p], s, o, Gone, DOMAIN load.start)
          /\ Draft(c, job[p], todo[p], list[p], born)
      BY <1>1, <2>4, SDGoes
    <2> QED
      BY <1>1, <1>2, <2>2, <2>5, SerialStay
  <1> QED
    BY <1>3, <1>4 DEF SDRead, Fails

LEMMA SerialSDWrite ==
  ASSUME TypeInv, GoneInv, SerialInv, UNCHANGED load, NEW p \in Procs, Frame(p), SDWrite(p)
  PROVE  SerialInv'
  <1> DEFINE s == S(p)
             o == obj[s]
             d == SDTarget(p)
             r == IF At(d) = {} THEN "NotFound" ELSE "nil"
             new == Edit(d, LAMBDA x : [x EXCEPT !.deny = ~job[p].can])
             n == new[s]
             c == SDNext(p)
  <1>1. pc[p] = "sdWrite" /\ UNCHANGED <<prVars, born, job, cur, dn>> /\ WriteReq(p, r, new, c)
    BY DEF SDWrite
  <1>2. W(p) /\ s \in Guids /\ o \in Objects /\ o.at = d /\ d \in DNs /\ job[p].can \in BOOLEAN
    BY <1>1, SDMine
  <1>3. n = [o EXCEPT !.deny = ~job[p].can]
    BY <1>2 DEF Edit
  <1>4. /\ n.at = o.at /\ n.desc = o.desc /\ n.word = o.word /\ n.pwd = o.pwd /\ n.must = o.must /\ n.who = o.who
        /\ n.deny = ~job[p].can /\ n.readable = o.readable
    BY <1>2, <1>3 DEF Objects
  <1>5. (\A g \in Guids : obj[g].at # d => new[g] = obj[g]) /\ r \in Results
    BY DEF Edit, Results
  <1>6. job[p].op = "Update" => o.readable
    BY <1>1, UpdateMine DEF UpdateLocal
  <1> HIDE DEF new, n, o, r, c
  <1>7. /\ \A gone : Mine(c, job[p], cur[p], dn[p], todo[p], list[p], s, n, gone, DOMAIN load.start)
        /\ Draft(c, job[p], todo[p], list[p], born)
    BY <1>1, <1>4, <1>6, SDGoes DEF c, o
  <1>8. /\ n.pwd \in {Nil, s} /\ n.at \in {d, Nil}
        /\ n.who # Nil => Class[s] \in {"computer", "gmsa"} /\ n.who \subseteq born
    BY <1>2, <1>4 DEF SerialInv, Whole, o
  <1> QED
    BY <1>1, <1>2, <1>5, <1>7, <1>8, SerialWrite DEF n, o

LEMMA SerialDelete ==
  ASSUME TypeInv, GoneInv, SerialInv, UNCHANGED load, NEW p \in Procs, Frame(p), DeleteReq(p)
  PROVE  SerialInv'
  <1> DEFINE s == S(p)
             o == obj[s]
             d == cur[p].o.at
             r == IF At(d) = {} THEN "NotFound" ELSE "nil"
             new == Edit(d, Deleted)
             n == new[s]
  <1>1. pc[p] = "delete" /\ UNCHANGED <<prVars, born, job, cur, dn>> /\ WriteReq(p, r, new, "confirm")
    BY DEF DeleteReq
  <1>2. job[p].op = "Delete" /\ cur[p] \in Models /\ d \in DNs /\ W(p) /\ s \in Guids /\ o \in Objects /\ Local(p)
    BY <1>1, CallOK, ModelTypes, Working DEF Path
  <1>3. o.at = d /\ job[p].id = ByGUID(s) /\ s \in DOMAIN load.start
    BY <1>1, <1>2 DEF Local, Mine
  <1>4. n = Deleted(o)
    BY <1>2, <1>3 DEF Edit
  <1>5. n.at = Nil /\ n.pwd = o.pwd /\ n.who = o.who
    BY <1>2, <1>4 DEF Deleted, Objects
  <1>6. (\A g \in Guids : obj[g].at # d => new[g] = obj[g]) /\ r \in Results
    BY DEF Edit, Results
  <1> HIDE DEF new, n, o, r
  <1>7. \A gone : Mine("confirm", job[p], cur[p], dn[p], todo[p], list[p], s, n, gone, DOMAIN load.start)
    BY <1>2, <1>3 DEF Mine, ReadList
  <1>8. Draft("confirm", job[p], todo[p], list[p], born)
    BY DEF Draft, WriteList
  <1>9. n.pwd \in {Nil, s} /\ (n.who # Nil => Class[s] \in {"computer", "gmsa"} /\ n.who \subseteq born)
    BY <1>2, <1>5 DEF SerialInv, Whole, o
  <1> QED
    BY <1>1, <1>2, <1>3, <1>5, <1>6, <1>7, <1>8, <1>9, SerialWrite DEF n, o

-----------------------------------------------------------------------------
(* What a call leaves *)

LEMMA SerialStep ==
  ASSUME TypeInv, GoneInv, SerialInv, Serialised, UNCHANGED load, NEW p \in Procs, Acts(p)
  PROVE  SerialInv'
  <1>0. Frame(p)
    BY GoneStep
  <1>1. CASE \E j \in load.jobs : Begin(p, j)
    BY <1>0, <1>1, SerialBegin
  <1>2. CASE Lock(p) \/ Replicate(p) \/ ProbeDeleted(p) \/ Confirm(p)
    BY <1>0, <1>2, SerialLock, SerialLast
  <1>3. CASE Add(p) \/ Post(p) \/ Created(p)
    BY <1>0, <1>3, SerialAdd, SerialPost, SerialCreated
  <1>4. CASE GetCurrent(p) \/ Modify(p) \/ Move(p) \/ Reread(p) \/ Final(p)
    BY <1>0, <1>4, SerialGet, SerialModify, SerialMove, SerialReread, SerialFinal
  <1>5. CASE DomainSID(p) \/ SidRead(p) \/ PrincipalSIDs(p) \/ PrincipalGUIDs(p)
    BY <1>0, <1>5, SerialPrincipals, SerialGUIDs
  <1>6. CASE ResolvePwd(p) \/ SetPwd(p) \/ SDRead(p) \/ SDWrite(p) \/ DeleteReq(p)
    BY <1>0, <1>6, SerialResolve, SerialSetPwd, SerialSDRead, SerialSDWrite, SerialDelete
  <1> QED
    BY <1>1, <1>2, <1>3, <1>4, <1>5, <1>6 DEF Acts

LEMMA SerialInit ==
  ASSUME AccountInit
  PROVE  SerialInv
  <1>1. /\ load \in Workloads /\ born = DOMAIN load.start
        /\ \A p \in Procs : pc[p] = "idle" /\ job[p] = Nil /\ todo[p] = {} /\ list[p] = Nil
    BY DEF AccountInit
  <1>2. \A g, h \in born : load.start[g] = load.start[h] => g = h
    BY <1>1, AccountAssumption
  <1>3. Whole
    <2>1. \A g, h \in Guids : obj[g].at = obj[h].at /\ obj[g].at # Nil => g = h
      BY <1>2, InitObjects
    <2>2. \A g \in Guids : obj[g].pwd \in {Nil, g}
      BY InitObjects
    <2>3. \A g \in Guids : obj[g].who # Nil => Class[g] \in {"computer", "gmsa"} /\ obj[g].who \subseteq born
      BY InitObjects
    <2> QED
      BY <2>1, <2>2, <2>3 DEF Whole
  <1>4. \A p \in Procs : Draft(pc[p], job[p], todo[p], list[p], born) /\ ~W(p)
    BY <1>1 DEF Draft, WriteList, W, Works
  <1> QED
    BY <1>1, <1>3, <1>4 DEF SerialInv

LEMMA SerialAlways == AccountSpec /\ Serialised => [](TypeInv /\ SerialInv)
  <1> DEFINE Inv == Serialised /\ SerialInv
  <1>1. AccountInit /\ Serialised => Inv
    BY SerialInit
  <1>2. ASSUME TypeInv, Fixed, GoneInv, Inv, [AccountNext]_accountVars PROVE Inv'
    <2>1. CASE UNCHANGED accountVars
      BY <1>2, <2>1 DEF Serialised, SerialInv, Whole, W, S, Local, Gone, accountVars, prVars
    <2>2. CASE AccountNext
      <3>1. UNCHANGED load /\ \E p \in Procs : Acts(p)
        BY <1>2, <2>2, NextActs
      <3> QED
        BY <1>2, <3>1, SerialStep DEF Serialised
    <2> QED
      BY <1>2, <2>1, <2>2
  <1>3. Inv => SerialInv
    OBVIOUS
  <1> QED
    BY <1>1, <1>2, <1>3, GoneAlways, PTL DEF AccountSpec

\* A password never ends on another account than the one it was meant for, although the
\* DN is looked up in one request and used in the next (user.go 477-486).
THEOREM PasswordsReachTheNamed == AccountSpec /\ Serialised => []PasswordReachesNamed
  <1>1. SerialInv => PasswordReachesNamed
    BY DEF SerialInv, Whole, PasswordReachesNamed
  <1> QED
    BY <1>1, SerialAlways, PTL

\* An update that got as far as replication did what the spec names and nothing else
\* (user.go 339-340, principals.go 56-58), except that a password clears the must-change
\* mark and that a user whose descriptor cannot be read is not given the right to change
\* the password (user.go 76-87).
THEOREM UpdatesAreExact == AccountSpec /\ Serialised => []UpdateExact
  <1>1. ASSUME TypeInv, SerialInv PROVE UpdateExact
    <2> SUFFICES ASSUME NEW p \in Procs, pc[p] = "replicate", job[p].op = "Update"
                 PROVE  LET j == job[p]
                            o == obj[cur[p].guid]
                            old == cur[p].o
                        IN /\ o.at = j.dn
                           /\ o.desc = IF j.desc = Nil THEN old.desc ELSE j.desc
                           /\ BitAs(o, OnBit(j.class), j.on, OnBit(j.class) \in old.word)
                           /\ BitAs(o, FlagBit(j.class), j.flag, FlagBit(j.class) \in old.word)
                           /\ IF j.pwd THEN o.pwd = cur[p].guid /\ ~o.must
                              ELSE o.pwd = old.pwd /\ o.must = (IF j.must = Nil THEN old.must ELSE j.must)
                           /\ o.deny = IF j.can = Nil \/ (j.can = TRUE /\ ~o.readable)
                                       THEN old.deny ELSE ~j.can
                           /\ o.who = IF j.who = Nil THEN old.who ELSE j.who
      BY DEF UpdateExact
    <2>1. /\ S(p) = cur[p].guid /\ S(p) \in Guids
          /\ UpdateLocal("replicate", job[p], cur[p].o, obj[S(p)], dn[p])
      BY <1>1, UpdateMine
    <2>2. obj[S(p)].pwd \in {Nil, S(p)}
      BY <1>1, <2>1 DEF SerialInv, Whole
    <2> QED
      BY <2>1, <2>2 DEF UpdateLocal, Applied, KeepsPwd, DenyAs
  <1> QED
    BY <1>1, SerialAlways, PTL

\* A create that got as far as replication left the account the spec describes, although
\* a user takes up to five requests (user.go 237-281).
THEOREM CreatesAreExact == AccountSpec /\ Serialised => []CreateExact
  <1>1. ASSUME TypeInv, SerialInv PROVE CreateExact
    <2> SUFFICES ASSUME NEW p \in Procs, pc[p] = "replicate", job[p].op = "Create"
                 PROVE  LET j == job[p]
                            o == obj[cur[p].guid]
                        IN /\ o.at = j.dn
                           /\ BitAs(o, OnBit(j.class), j.on, j.class \in {"user", "group"})
                           /\ BitAs(o, FlagBit(j.class), j.flag, FALSE)
                           /\ o.must = (j.must = TRUE) /\ o.deny = (j.can = FALSE)
                           /\ (o.pwd = cur[p].guid) = j.pwd
                           /\ o.who = IF j.who = Nil /\ j.class = "gmsa" THEN {} ELSE j.who
      BY DEF CreateExact
    <2>1. S(p) = cur[p].guid /\ CreateLocal("replicate", job[p], S(p), obj[S(p)], dn[p])
      BY <1>1, CreateMine
    <2> QED
      BY <2>1 DEF CreateLocal
  <1> QED
    BY <1>1, SerialAlways, PTL

\* What Create and Update return as PrincipalsAllowed is the descriptor they left, less only
\* accounts that are gone (principals.go 85-88).
THEOREM PrincipalsAreReadBack == AccountSpec /\ Serialised => []PrincipalsReadBack
  <1>1. ASSUME TypeInv, SerialInv PROVE PrincipalsReadBack
    <2> SUFFICES ASSUME NEW p \in Procs, pc[p] = "replicate"
                 PROVE  LET w == IF Descriptor(p, cur[p].guid) = Nil THEN {} ELSE Descriptor(p, cur[p].guid)
                        IN list[p] \subseteq w /\ {g \in w : obj[g].at # Nil} \subseteq list[p]
      BY DEF PrincipalsReadBack
    <2> DEFINE w == IF job[p].class = Class[S(p)] THEN obj[S(p)].who ELSE Nil
    <2>1. job[p].op \in {"Create", "Update"}
      BY <1>1 DEF TypeInv, Path
    <2>2. S(p) = cur[p].guid /\ S(p) \in Guids /\ obj[S(p)] \in Objects /\ ReadList("replicate", w, todo[p], list[p], Gone)
      BY <1>1, <2>1, UpdateMine, CreateMine
    <2>3. Descriptor(p, cur[p].guid) = w /\ (w # Nil => w \subseteq Guids)
      BY <2>2 DEF Descriptor, Objects
    <2> HIDE DEF w
    <2>4. CASE w = Nil
      BY <2>2, <2>3, <2>4 DEF ReadList
    <2>5. CASE w # Nil
      <3>1. list[p] \subseteq w /\ w \ Gone \subseteq list[p]
        BY <2>2, <2>5 DEF ReadList
      <3>2. {g \in w : obj[g].at # Nil} = w \ Gone
        BY <2>3, <2>5 DEF Gone
      <3> QED
        BY <2>3, <2>5, <3>1, <3>2
    <2> QED
      BY <2>4, <2>5
  <1> QED
    BY <1>1, SerialAlways, PTL
=============================================================================
