--------------------------------- MODULE OU ---------------------------------
(***************************************************************************)
(* The OU operations (ou.go) and ACL.Grant and ACL.Revoke (acl.go), run    *)
(* concurrently by several goroutines of one client.                       *)
(*                                                                         *)
(* They meet in two places: the per-identity lock (core.locks) and the     *)
(* object itself, whose security descriptor each of them reads, edits and  *)
(* writes back as a whole.  A request (one withConn call) is one step.     *)
(* What withConn promises is established in Exec: success means executed,  *)
(* a refusal means not executed, and Transport may mean either.            *)
(***************************************************************************)
EXTENDS Integers, FiniteSets

CONSTANTS Procs,    \* goroutines
          Guids,    \* objectGUIDs; none is ever used twice
          DNs,      \* distinguished names an OU may have
          Aces,     \* delegations, compared by canonical key
          Descs,    \* values of description
          Workloads, \* each: the calls made, and what others do to the directory
          Nil       \* no holder, no place, no value

\* A workload is the set of calls goroutines make over and over, the set of things
\* others do meanwhile ("child", "delete"), the directories that may be found at first
\* (each gives some OUs their places), and the OUs whose descriptor the account the
\* client binds as cannot read: nTSecurityDescriptor comes back empty.
Jobs == UNION {w.jobs : w \in Workloads}

\* A call: operation, identity, target DN, description, protection (Protected of
\* a create or update, Unprotect of a delete) and ACEs.  Nil is a nil pointer.
ByGUID(g) == [form |-> "guid", arg |-> g]
ByDN(dn) == [form |-> "dn", arg |-> dn]
Identities == {ByGUID(g) : g \in Guids} \union {ByDN(dn) : dn \in DNs}
Ops == {"Create", "Update", "Delete", "Grant", "Revoke"}
Calls == [op : Ops, id : Identities, dn : DNs, desc : Descs \union {Nil},
          prot : BOOLEAN \union {Nil}, aces : SUBSET Aces]

\* at is Nil before the object exists and when it is deleted; was is the DN a deleted
\* object had (its lastKnownParent and the name it keeps in front of the mangling).
\* readable: the client's account can read the descriptor.
Objects == [at : DNs \union {Nil}, was : DNs \union {Nil}, desc : Descs, prot : BOOLEAN,
            aces : SUBSET Aces, readable : BOOLEAN]
Models == [guid : Guids, at : DNs, desc : Descs, prot : BOOLEAN]
\* "Tombstoned" is AlreadyExists with the hint that a deleted object holds the name.
Results == {"none", "nil", "NotFound", "AlreadyExists", "Tombstoned", "Constraint",
            "Denied", "Transport", "Replication"}

ASSUME OUAssumption ==
    /\ Nil \notin Procs /\ Nil \notin DNs /\ Nil \notin Descs
    /\ Nil \notin BOOLEAN /\ Nil \notin Models
    /\ "" \in Descs   \* no description
    /\ Jobs \subseteq Calls
    /\ \A w \in Workloads : w.opaque \subseteq Guids
    /\ \A w \in Workloads : \A f \in w.start :
         /\ f \in [DOMAIN f -> DNs] /\ DOMAIN f \subseteq Guids
         /\ \A g, h \in DOMAIN f : f[g] = f[h] => g = h

VARIABLES obj,      \* obj[g]: the object's state on the pinned DC
          kids,     \* OUs that have a child object
          born,     \* GUIDs already given to an object
          holder,   \* holder[k]: who holds the lock of key k
          pc,       \* pc[p]: a record; pc[p].at is the label
          job,      \* job[p]: the call p is making or made last
          cur,      \* cur[p]: the model read at the start (`current'), Nil before
          sd,       \* sd[p]: the descriptor p read and will write back
          res,      \* res[p]: what p's last call returned
          owed,     \* delegations whose Grant returned nil and nobody revoked
          load      \* the workload

dirVars == <<obj, kids, born>>
ouVars == <<obj, kids, born, holder, pc, job, cur, sd, res, owed, load>>

At(dn) == {g \in Guids : obj[g].at = dn}
\* getOne: the live objects an identity names.
Matches(id) == IF id.form = "guid" THEN {g \in Guids : g = id.arg /\ obj[g].at \in DNs}
                                   ELSE At(id.arg)
\* model: an OU whose descriptor cannot be read is reported as unprotected.
Model(g) == [guid |-> g, at |-> obj[g].at, desc |-> obj[g].desc,
             prot |-> obj[g].prot /\ obj[g].readable]
-----------------------------------------------------------------------------
(* The machinery every operation uses *)

Label(l) == [at |-> l]
\* setProtection(dn, want), then go on at `next'.
setProtection(dn, want, next) ==
    [at |-> "sdRead", dn |-> dn, want |-> want, next |-> next]

\* p's call returns r; the deferred unlock runs.
Return(p, r) ==
    /\ pc' = [pc EXCEPT ![p] = Label("idle")]
    /\ res' = [res EXCEPT ![p] = r]
    /\ holder' = [k \in Identities |-> IF holder[k] = p THEN Nil ELSE holder[k]]

Continue(p, to) ==
    /\ pc' = [pc EXCEPT ![p] = to]
    /\ UNCHANGED <<res, holder>>

\* A request fails without effect: refused by access control, or lost.
Fails(p) == \E k \in {"Denied", "Transport"} : Return(p, k)

\* A read: `found' is whether the object is there.
Read(p, found, to) ==
    /\ \/ found /\ Continue(p, to)
       \/ ~found /\ Return(p, "NotFound")
       \/ Fails(p)
    /\ UNCHANGED dirVars

\* A write of the objects: `refusal' is the server's reason to refuse, "nil" for
\* none; `new' is their state afterwards.
WriteReq(p, refusal, new, to) ==
    /\ \/ /\ refusal = "nil"
          /\ obj' = new
          /\ Continue(p, to) \/ Return(p, "Transport")
       \/ /\ refusal # "nil"
          /\ Return(p, refusal)
          /\ UNCHANGED obj
       \/ Fails(p) /\ UNCHANGED obj
    /\ UNCHANGED <<kids, born>>

\* The object at dn, edited by the function E of its record.
Edit(dn, E(_)) == [g \in Guids |-> IF obj[g].at = dn THEN E(obj[g]) ELSE obj[g]]
Deleted(o) == [o EXCEPT !.at = Nil, !.was = o.at]
Missing(dn) == IF At(dn) = {} THEN "NotFound" ELSE "nil"

\* A goroutine makes its next call.  Only Create takes no lock.
Begin(p, j) ==
    /\ pc[p].at = "idle"
    /\ job' = [job EXCEPT ![p] = j]
    /\ pc' = [pc EXCEPT ![p] = Label(IF j.op = "Create" THEN "add" ELSE "lock")]
    /\ cur' = [cur EXCEPT ![p] = Nil]
    /\ res' = [res EXCEPT ![p] = "none"]
    /\ UNCHANGED <<dirVars, holder, sd, owed>>

\* Mutant of Lock: a held lock keeps nobody out.
LockShared(p) ==
    /\ pc[p].at = "lock"
    /\ holder' = [holder EXCEPT ![job[p].id] = p]
    /\ pc' = [pc EXCEPT ![p] = Label(IF job[p].op \in {"Update", "Delete"} THEN "get" ELSE "acl")]
    /\ UNCHANGED <<dirVars, job, cur, sd, res, owed>>

\* core.locks.Lock(IdentityArg(id)): the key is the identity as the caller wrote it.
Lock(p) ==
    /\ pc[p].at = "lock"
    /\ holder[job[p].id] = Nil
    /\ holder' = [holder EXCEPT ![job[p].id] = p]
    /\ pc' = [pc EXCEPT ![p] = Label(IF job[p].op \in {"Update", "Delete"} THEN "get" ELSE "acl")]
    /\ UNCHANGED <<dirVars, job, cur, sd, res, owed>>

\* setProtection, first request: the descriptor of whatever is at dn now.  One that
\* reads back empty is an error; nothing is written when it already is as wanted.
sdRead(p) ==
    /\ pc[p].at = "sdRead"
    /\ LET dn == pc[p].dn
       IN \/ \E g \in At(dn) :
                /\ obj[g].readable
                /\ sd' = [sd EXCEPT ![p] = [prot |-> obj[g].prot, aces |-> obj[g].aces]]
                /\ IF obj[g].prot = pc[p].want
                     THEN Continue(p, Label(pc[p].next))
                     ELSE Continue(p, [pc[p] EXCEPT !.at = "sdWrite"])
          \/ (\E g \in At(dn) : ~obj[g].readable) /\ Return(p, "Denied") /\ UNCHANGED sd
          \/ At(dn) = {} /\ Return(p, "NotFound") /\ UNCHANGED sd
          \/ Fails(p) /\ UNCHANGED sd
    /\ UNCHANGED <<dirVars, job, cur, owed>>

\* Mutant of sdWrite: a descriptor built from scratch.
sdWriteFromScratch(p) ==
    /\ pc[p].at = "sdWrite"
    /\ WriteReq(p, Missing(pc[p].dn),
                Edit(pc[p].dn, LAMBDA o : [o EXCEPT !.prot = pc[p].want, !.aces = {}]),
                Label(pc[p].next))
    /\ UNCHANGED <<job, cur, sd, owed>>

\* setProtection, second request: the edited descriptor replaces the current one.
sdWrite(p) ==
    /\ pc[p].at = "sdWrite"
    /\ WriteReq(p, Missing(pc[p].dn),
                Edit(pc[p].dn, LAMBDA o : [o EXCEPT !.prot = pc[p].want, !.aces = sd[p].aces]),
                Label(pc[p].next))
    /\ UNCHANGED <<job, cur, sd, owed>>

\* The end of Create and Update: replicate may time out, and the model is returned
\* either way.
Replicate(p) ==
    /\ pc[p].at = "replicate"
    /\ \E r \in {"nil", "Replication"} : Return(p, r)
    /\ UNCHANGED <<dirVars, job, cur, sd, owed>>
-----------------------------------------------------------------------------
(* Create *)

\* cur records which object this was; Create itself goes on by DN.  The creator owns the
\* OU, and an owner may read the descriptor.
Add(p) ==
    /\ pc[p].at = "add"
    /\ LET j == job[p]
           to == IF j.prot = TRUE THEN setProtection(j.dn, TRUE, "created") ELSE Label("created")
       IN \/ /\ At(j.dn) = {}
             /\ \E g \in Guids \ born :
                  /\ LET o == [at |-> j.dn, was |-> Nil, prot |-> FALSE, aces |-> {},
                               readable |-> TRUE, desc |-> IF j.desc = Nil THEN "" ELSE j.desc]
                     IN /\ obj' = [obj EXCEPT ![g] = o]
                        /\ cur' = [cur EXCEPT ![p] = [guid |-> g, at |-> o.at, desc |-> o.desc,
                                                      prot |-> o.prot]]
                  /\ born' = born \union {g}
             /\ Continue(p, to) \/ Return(p, "Transport")
          \/ At(j.dn) # {} /\ Continue(p, Label("probeDeleted")) /\ UNCHANGED <<obj, born, cur>>
          \/ Fails(p) /\ UNCHANGED <<obj, born, cur>>
    /\ UNCHANGED <<kids, job, sd, owed>>

\* annotateAlreadyExists: a deleted object that had the name turns the refusal into a
\* hint; when the probe itself fails the refusal stays as it is.
ProbeDeleted(p) ==
    /\ pc[p].at = "probeDeleted"
    /\ \/ Return(p, IF \E g \in Guids : obj[g].was = job[p].dn THEN "Tombstoned"
                                                            ELSE "AlreadyExists")
       \/ Return(p, "AlreadyExists")
    /\ UNCHANGED <<dirVars, job, cur, sd, owed>>

Created(p) ==
    /\ pc[p].at = "created"
    /\ Read(p, At(job[p].dn) # {}, Label("replicate"))
    /\ UNCHANGED <<job, cur, sd, owed>>
-----------------------------------------------------------------------------
(* Update *)

Moving(p, c) == job[p].dn # c.at

\* Mutant of Want: the pointer is not checked.
WantUnchecked(p, c) == job[p].prot

Want(p, c) == IF job[p].prot = Nil THEN c.prot ELSE job[p].prot

\* After the attributes: lift the protection for a move, move, or just re-read.
MoveOrNot(p, c) ==
    IF ~Moving(p, c) THEN Label("reread")
    ELSE IF c.prot THEN setProtection(c.at, FALSE, "move") ELSE Label("move")

\* Mutant of LiftOrProbe: the protection is lifted without being asked to.
LiftOrProbeAlways(p, c) ==
    IF c.prot THEN setProtection(c.at, FALSE, "probe") ELSE Label("probe")

\* After Delete's Get.
LiftOrProbe(p, c) ==
    IF job[p].prot = TRUE /\ c.prot THEN setProtection(c.at, FALSE, "probe") ELSE Label("probe")

\* Get(id) of Update and Delete; Delete takes a missing object for success.
GetCurrent(p) ==
    /\ pc[p].at = "get"
    /\ \/ \E g \in Matches(job[p].id) :
            LET c == Model(g)
            IN /\ cur' = [cur EXCEPT ![p] = c]
               /\ Continue(p, IF job[p].op = "Delete" THEN LiftOrProbe(p, c)
                              ELSE IF job[p].desc \notin {Nil, c.desc} THEN Label("describe")
                              ELSE MoveOrNot(p, c))
       \/ /\ Matches(job[p].id) = {}
          /\ Return(p, IF job[p].op = "Delete" THEN "nil" ELSE "NotFound")
          /\ UNCHANGED cur
       \/ Fails(p) /\ UNCHANGED cur
    /\ UNCHANGED <<dirVars, job, sd, owed>>

Describe(p) ==
    /\ pc[p].at = "describe"
    /\ WriteReq(p, Missing(cur[p].at),
                Edit(cur[p].at, LAMBDA o : [o EXCEPT !.desc = job[p].desc]),
                MoveOrNot(p, cur[p]))
    /\ UNCHANGED <<job, cur, sd, owed>>

\* ModifyDN; the directory refuses to move a protected OU and to replace another.
Move(p) ==
    /\ pc[p].at = "move"
    /\ LET old == cur[p].at
           refusal == IF At(old) = {} THEN "NotFound"
                      ELSE IF At(job[p].dn) # {} THEN "AlreadyExists"
                      ELSE IF \E g \in At(old) : obj[g].prot THEN "Denied"
                      ELSE "nil"
       IN WriteReq(p, refusal, Edit(old, LAMBDA o : [o EXCEPT !.at = job[p].dn]),
                   Label("reread"))
    /\ UNCHANGED <<job, cur, sd, owed>>

\* Get(ByGUID) after the move; the protection is restored when the one seen differs.
Reread(p) ==
    /\ pc[p].at = "reread"
    /\ LET g == cur[p].guid
           to == IF Model(g).prot = Want(p, cur[p])
                   THEN Label("replicate")
                   ELSE setProtection(obj[g].at, Want(p, cur[p]), "restored")
       IN Read(p, obj[g].at \in DNs, to)
    /\ UNCHANGED <<job, cur, sd, owed>>

Restored(p) ==
    /\ pc[p].at = "restored"
    /\ Read(p, obj[cur[p].guid].at \in DNs, Label("replicate"))
    /\ UNCHANGED <<job, cur, sd, owed>>
-----------------------------------------------------------------------------
(* Delete *)

\* The one-level search for a child.
Probe(p) ==
    /\ pc[p].at = "probe"
    /\ \/ At(cur[p].at) = {} /\ Return(p, "NotFound")
       \/ At(cur[p].at) \intersect kids # {} /\ Return(p, "Constraint")
       \/ /\ At(cur[p].at) # {} /\ At(cur[p].at) \intersect kids = {}
          /\ Continue(p, Label("delete"))
       \/ Fails(p)
    /\ UNCHANGED <<dirVars, job, cur, sd, owed>>

\* Delete of whatever is at the DN that was read; the directory refuses a
\* protected object and one with children.
DeleteReq(p) ==
    /\ pc[p].at = "delete"
    /\ LET dn == cur[p].at
           refusal == IF At(dn) = {} THEN "NotFound"
                      ELSE IF At(dn) \intersect kids # {} THEN "Constraint"
                      ELSE IF \E g \in At(dn) : obj[g].prot THEN "Denied"
                      ELSE "nil"
       IN WriteReq(p, refusal, Edit(dn, Deleted), Label("confirm"))
    /\ UNCHANGED <<job, cur, sd, owed>>

\* Mutant of Confirm: the answer to the delete is believed.
ConfirmUnread(p) ==
    /\ pc[p].at = "confirm"
    /\ Return(p, "nil")
    /\ UNCHANGED <<dirVars, job, cur, sd, owed>>

\* The re-read by GUID: only a missing object is success.
Confirm(p) ==
    /\ pc[p].at = "confirm"
    /\ \/ obj[cur[p].guid].at = Nil /\ Return(p, "nil")
       \/ obj[cur[p].guid].at \in DNs /\ Return(p, "Constraint")
       \/ Fails(p)
    /\ UNCHANGED <<dirVars, job, cur, sd, owed>>
-----------------------------------------------------------------------------
(* ACL.Grant and ACL.Revoke *)

\* readDescriptor: the object and its descriptor, which must not read back empty.
ReadDescriptor(p) ==
    /\ pc[p].at = "acl"
    /\ \/ \E g \in Matches(job[p].id) :
            LET missing == IF job[p].op = "Revoke" THEN obj[g].aces \intersect job[p].aces # {}
                                                   ELSE TRUE
            IN /\ obj[g].readable
               /\ cur' = [cur EXCEPT ![p] = Model(g)]
               /\ sd' = [sd EXCEPT ![p] = [prot |-> obj[g].prot, aces |-> obj[g].aces]]
               /\ IF missing
                    THEN Continue(p, Label(IF job[p].op = "Grant" THEN "existing" ELSE "aclWrite"))
                    ELSE Return(p, "nil")
       \/ /\ \E g \in Matches(job[p].id) : ~obj[g].readable
          /\ Return(p, "Denied") /\ UNCHANGED <<cur, sd>>
       \/ Matches(job[p].id) = {} /\ Return(p, "NotFound") /\ UNCHANGED <<cur, sd>>
       \/ Fails(p) /\ UNCHANGED <<cur, sd>>
    /\ UNCHANGED <<dirVars, job, owed>>

\* Grant reads the ACL a second time, by DN, to see what is already there; the
\* ACEs not found are added to the descriptor of the first read.
Existing(p) ==
    /\ pc[p].at = "existing"
    /\ \/ \E g \in At(cur[p].at) :
            LET add == job[p].aces \ obj[g].aces
            IN /\ obj[g].readable
               /\ sd' = [sd EXCEPT ![p].aces = @ \union add]
               /\ IF add = {}
                    THEN /\ Return(p, "nil")
                         /\ owed' = owed \union ({cur[p].guid} \X job[p].aces)
                    ELSE Continue(p, Label("aclWrite")) /\ UNCHANGED owed
       \/ /\ \E g \in At(cur[p].at) : ~obj[g].readable
          /\ Return(p, "Denied") /\ UNCHANGED <<sd, owed>>
       \/ At(cur[p].at) = {} /\ Return(p, "NotFound") /\ UNCHANGED <<sd, owed>>
       \/ Fails(p) /\ UNCHANGED <<sd, owed>>
    /\ UNCHANGED <<dirVars, job, cur>>

\* write: the edited descriptor replaces the current one, and the call returns.
AclWrite(p) ==
    /\ pc[p].at = "aclWrite"
    /\ LET grant == job[p].op = "Grant"
           aces == IF grant THEN sd[p].aces ELSE sd[p].aces \ job[p].aces
           mine == {cur[p].guid} \X job[p].aces
           new == Edit(cur[p].at, LAMBDA o : [o EXCEPT !.prot = sd[p].prot, !.aces = aces])
       IN \/ /\ Missing(cur[p].at) = "nil"
             /\ obj' = new
             /\ \E r \in {"nil", "Transport"} :
                  /\ Return(p, r)
                  /\ owed' = IF ~grant THEN owed \ mine
                             ELSE IF r = "nil" THEN owed \union mine ELSE owed
          \/ Missing(cur[p].at) = "NotFound" /\ Return(p, "NotFound") /\ UNCHANGED <<obj, owed>>
          \/ Fails(p) /\ UNCHANGED <<obj, owed>>
    /\ UNCHANGED <<kids, born, job, cur, sd>>
-----------------------------------------------------------------------------
(* Others at work on the directory *)

\* Somebody creates a child under an OU, or removes the last one.
Child(g) ==
    /\ "child" \in load.admin
    /\ obj[g].at \in DNs
    /\ kids' = IF g \in kids THEN kids \ {g} ELSE kids \union {g}
    /\ UNCHANGED <<obj, born, holder, pc, job, cur, sd, res, owed>>

\* Somebody else deletes the OU.
AdminDelete(g) ==
    /\ "delete" \in load.admin
    /\ obj[g].at \in DNs /\ g \notin kids
    /\ obj' = [obj EXCEPT ![g] = Deleted(@)]
    /\ UNCHANGED <<kids, born, holder, pc, job, cur, sd, res, owed>>
-----------------------------------------------------------------------------
OUInit ==
    /\ load \in Workloads
    /\ \E f \in load.start : \E prot \in [DOMAIN f -> BOOLEAN] :
         /\ born = DOMAIN f
         /\ obj = [g \in Guids |-> [at |-> IF g \in born THEN f[g] ELSE Nil, was |-> Nil,
                                    desc |-> "", prot |-> g \in born /\ prot[g], aces |-> {},
                                    readable |-> g \notin load.opaque]]
    /\ kids = {}
    /\ holder = [k \in Identities |-> Nil]
    /\ pc = [p \in Procs |-> Label("idle")]
    /\ job = [p \in Procs |-> Nil]
    /\ cur = [p \in Procs |-> Nil]
    /\ sd = [p \in Procs |-> [prot |-> FALSE, aces |-> {}]]
    /\ res = [p \in Procs |-> "none"]
    /\ owed = {}

Step(p) ==
    \/ Lock(p) \/ sdRead(p) \/ sdWrite(p) \/ Replicate(p)
    \/ Add(p) \/ ProbeDeleted(p) \/ Created(p)
    \/ GetCurrent(p) \/ Describe(p) \/ Move(p) \/ Reread(p) \/ Restored(p)
    \/ Probe(p) \/ DeleteReq(p) \/ Confirm(p)
    \/ ReadDescriptor(p) \/ Existing(p) \/ AclWrite(p)

OUNext ==
    /\ \/ \E p \in Procs : Step(p) \/ \E j \in load.jobs : Begin(p, j)
       \/ \E g \in Guids : Child(g) \/ AdminDelete(g)
    /\ UNCHANGED load

OUSpec == OUInit /\ [][OUNext]_ouVars
-----------------------------------------------------------------------------
(* Properties *)

Labels == {"idle", "lock", "sdRead", "sdWrite", "replicate", "add", "probeDeleted",
           "created", "get", "describe", "move", "reread", "restored", "probe", "delete", "confirm",
           "acl", "existing", "aclWrite"}

\* The type, and that no goroutine waits for a lock it holds itself.
OUTypeOK ==
    /\ obj \in [Guids -> Objects]
    /\ kids \subseteq Guids /\ born \subseteq Guids
    /\ holder \in [Identities -> Procs \union {Nil}]
    /\ \A p \in Procs : pc[p].at \in Labels
    /\ job \in [Procs -> Jobs \union {Nil}]
    /\ cur \in [Procs -> Models \union {Nil}]
    /\ sd \in [Procs -> [prot : BOOLEAN, aces : SUBSET Aces]]
    /\ res \in [Procs -> Results]
    /\ owed \subseteq Guids \X Aces
    /\ load \in Workloads
    /\ \A p \in Procs : pc[p].at = "lock" => holder[job[p].id] # p

\* No delegation is lost: an ACE whose Grant returned nil stays on the object until
\* somebody revokes it, although protection, grants and revocations all rewrite the
\* whole descriptor from a copy they read earlier (ou.go 66-69, acl.go 164-168).
GrantsSurvive ==
    \A x \in owed : obj[x[1]].at \in DNs => x[2] \in obj[x[1]].aces

\* An update that got as far as replication did all it was asked to: unless somebody
\* deleted it since, the OU is where, and protected and described as, the caller
\* wanted (ou.go 210-268).  The one exception is an OU whose descriptor cannot be read:
\* it is taken for unprotected (ou.go 43-52), so that an update which wants it
\* unprotected finds nothing to do, whatever it is.
UpdateApplied ==
    \A p \in Procs : pc[p].at = "replicate" /\ job[p].op = "Update" =>
        LET o == obj[cur[p].guid]
        IN o.at # Nil => /\ o.at = job[p].dn /\ job[p].desc \in {Nil, o.desc}
                         /\ o.readable \/ Want(p, cur[p]) => o.prot = Want(p, cur[p])

\* "returns nil only after a re-read confirms it is gone" (ou.go 272): nil from
\* Delete means the very object it found is gone, even when the DN it deleted had
\* meanwhile passed to another object.
DeleteNilMeansGone ==
    \A p \in Procs : res[p] = "nil" /\ job[p].op = "Delete" /\ cur[p] # Nil =>
        obj[cur[p].guid].at = Nil

\* Every caller names the OUs by GUID, and so takes the same locks.
OneKey == \A j \in load.jobs : j.op # "Create" => j.id.form = "guid"

\* However a call ends, half-way included, it leaves of its OU no more than it may: the
\* place, the description and the protection differ from what it found only towards
\* what it was asked, except that a Delete with Unprotect or a move may have lifted the
\* protection; and a call that leaves the OU less protected than asked does not report
\* success (ou.go 139-144 for Create, 227-268 for Update, 291-297 for Delete).  Under one
\* key, and for as long as nobody else deletes it; of an OU whose descriptor cannot be
\* read, what it found is not the protection there is.
LeavesOnlyItsOwn ==
    [][\A p \in Procs :
         LET j == job[p]
             c == cur'[p]
             o == obj'[c.guid]
             wish == IF j.prot = Nil THEN c.prot ELSE j.prot
         IN  OneKey /\ pc[p].at # "idle" /\ pc'[p].at = "idle" /\ c # Nil /\ o.at # Nil =>
               /\ o.at # c.at => j.op = "Update" /\ o.at = j.dn
               /\ o.desc # c.desc => j.op = "Update" /\ o.desc = j.desc
               /\ o.prot # c.prot => \/ j.op = "Delete" /\ j.prot = TRUE /\ ~o.prot
                                     \/ j.op = "Update" /\ (o.prot = wish \/ Moving(p, c))
                                     \/ j.op = "Create" /\ j.prot = TRUE
                                     \/ ~o.readable
               /\ j.op \in {"Create", "Update"} /\ wish /\ ~o.prot =>
                    res'[p] \notin {"nil", "Replication"}]_ouVars

\* "a rename of a protected OU has to end protected" (ou_test.go 275): an update that
\* does not touch the protection, was sent to move a protected OU and knows how the move
\* ended (ou.go 241-251) does not return with the OU left unprotected.
MoveEndsProtected ==
    [][\A p \in Procs :
         /\ pc[p].at = "move" /\ pc'[p].at = "idle" /\ res'[p] # "Transport"
         /\ job[p].prot = Nil /\ cur[p].prot
         => obj'[cur[p].guid].prot]_ouVars
=============================================================================
