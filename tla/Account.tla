------------------------------ MODULE Account ------------------------------
(***************************************************************************)
(* Users, computers, gMSAs and groups (user.go, computer.go, gmsa.go,      *)
(* group.go): Create, Update, Delete and User.SetPassword, run             *)
(* concurrently by several goroutines of one client.                       *)
(*                                                                         *)
(* The four classes share one shape.  `word' stands for userAccountControl *)
(* (groupType for a group), a set of bits of which a model carries two:    *)
(* `on' (Enabled; a security group) and `flag' (PasswordExpires of a user, *)
(* TrustedForDelegation of a computer or gMSA, a group's scope).  Every    *)
(* string attribute behaves like `desc'.  The password of an account is    *)
(* represented by the GUID of the account it was meant for.                *)
(*                                                                         *)
(* `who' is the descriptor that computers and gMSAs keep in an attribute   *)
(* (principals.go): Nil when the attribute is absent, else the principals  *)
(* of its DACL, each a SID and represented by the GUID of its account; the *)
(* empty set is the present and empty DACL that denies everybody.  The     *)
(* domain SID, which every such descriptor needs, is read once per client. *)
(*                                                                         *)
(* A request is one step; success means executed, a refusal not executed,  *)
(* Transport either (established in Exec).                                 *)
(***************************************************************************)
EXTENDS Integers, FiniteSets

CONSTANTS Procs, Guids, DNs, Descs,
          Class,     \* Class[g]: "user", "computer", "gmsa", "group" or "contact"
          Extra,     \* bits of the accounts' words that no model carries
          Workloads, \* each: how many goroutines make which calls, and where the
                     \* accounts that exist at the beginning are, whose bits vary and
                     \* whose descriptor the client's account cannot read
          Nil

Jobs == UNION {w.jobs : w \in Workloads}

ByGUID(g) == [form |-> "guid", arg |-> g]
ByDN(dn) == [form |-> "dn", arg |-> dn]
Identities == {ByGUID(g) : g \in Guids} \union {ByDN(dn) : dn \in DNs}
Classes == {"user", "computer", "gmsa", "group", "contact"}
Maybe == BOOLEAN \union {Nil}

\* A call: a spec's nil pointers are Nil; pwd is whether it carries a password, who
\* its PrincipalsAllowed.
Calls == [op : {"Create", "Update", "Delete", "SetPassword"}, class : Classes,
          id : Identities, dn : DNs, desc : Descs \union {Nil}, on : Maybe, flag : Maybe,
          must : Maybe, can : Maybe, pwd : BOOLEAN, who : {Nil} \union SUBSET Guids]

Bits == {"Normal", "Workstation", "Disable", "DontExpire", "Delegation",
         "Security", "Universal", "Other"}
\* was is the DN a deleted account had; deny, that the descriptor denies the account the
\* right to change its password; readable, that the client can read that descriptor
\* (nTSecurityDescriptor comes back empty when it cannot).
Objects == [at : DNs \union {Nil}, was : DNs \union {Nil}, desc : Descs, word : SUBSET Bits,
            pwd : Guids \union {Nil}, must : BOOLEAN, deny : BOOLEAN, readable : BOOLEAN,
            who : {Nil} \union SUBSET Guids]
Accounts == [guid : Guids, o : Objects]
\* "Tombstoned" is AlreadyExists with the hint that a deleted object holds the name.
Results == {"none", "nil", "NotFound", "AlreadyExists", "Tombstoned", "Constraint",
            "Password", "Denied", "Transport", "Replication"}
SidErrors == {"Denied", "Transport", "Constraint"}

ASSUME AccountAssumption ==
    /\ Nil \notin Procs /\ Nil \notin DNs /\ Nil \notin Guids /\ Nil \notin BOOLEAN
    /\ Nil \notin Descs /\ Nil \notin Accounts /\ \A gs \in SUBSET Guids : gs # Nil
    /\ "" \in Descs
    /\ Class \in [Guids -> Classes] /\ Jobs \subseteq Calls
    /\ Extra \subseteq {"Other"}
    /\ \A w \in Workloads : /\ w.callers \in 1..Cardinality(Procs)
                            /\ DOMAIN w.start \subseteq Guids
                            /\ \A g \in DOMAIN w.start : w.start[g] \in DNs
                            /\ \A g, h \in DOMAIN w.start : w.start[g] = w.start[h] => g = h
                            /\ w.vary \subseteq DOMAIN w.start /\ w.opaque \subseteq DOMAIN w.start
    /\ \A j \in Jobs : j.class # "user" => j.must = Nil /\ j.can = Nil /\ ~j.pwd
    /\ \A j \in Jobs : j.class \notin {"computer", "gmsa"} => j.who = Nil
    /\ \A j \in Jobs : j.who # Nil /\ j.op = "Update" =>
          j.id.form = "guid" /\ j.class = Class[j.id.arg]

VARIABLES obj,      \* obj[g]: the account's state on the pinned DC
          born,     \* GUIDs already given to an object
          holder,   \* holder[k]: who holds the lock of key k
          pc, job, res,
          cur,      \* cur[p]: the account as first read, with its GUID; Nil before
          dn,       \* dn[p]: the DN resolved for the password, or re-read
          sid,      \* domainSIDCache: "unread", "reading" inside once.Do, "known", or
                    \* the error of the one read
          todo,     \* todo[p]: principals still to be looked up
          list,     \* list[p]: SIDs for the descriptor to write, or GUIDs of the one read
          active,   \* the goroutines that make calls
          load      \* the workload

prVars == <<sid, todo, list>>
accountVars == <<obj, born, holder, pc, job, res, cur, dn, prVars, active, load>>

At(d) == {g \in Guids : obj[g].at = d}
\* objectClass lists the superclasses too: a computer is a user, a gMSA a computer.
objectClasses(c) == {c} \union (IF c \in {"computer", "gmsa"} THEN {"user", "computer"} ELSE {})
\* getOne by class.
Matches(id, class) == {g \in Guids : /\ class \in objectClasses(Class[g])
                                     /\ obj[g].at \in DNs
                                     /\ id \in {ByGUID(g), ByDN(obj[g].at)}}
-----------------------------------------------------------------------------
(* The word *)

OnBit(c) == IF c = "group" THEN "Security" ELSE "Disable"
FlagBit(c) == IF c = "user" THEN "DontExpire"
              ELSE IF c = "group" THEN "Universal" ELSE "Delegation"
Base(c) == IF c = "user" THEN {"Normal"} ELSE IF c = "group" THEN {} ELSE {"Workstation"}
\* The bits a model states the other way round: Enabled, PasswordExpires.
Inverted == {"Disable", "DontExpire"}

SetBit(w, b, v) == IF v = Nil THEN w
                   ELSE IF v # (b \in Inverted) THEN w \union {b} ELSE w \ {b}

\* applyUAC and its copies for computers and gMSAs: move the bits the spec names.
applyUAC(w, j) == SetBit(SetBit(w, OnBit(j.class), j.on), FlagBit(j.class), j.flag)

\* currentUAC: the word as Update rebuilds it from the model it read.
rebuilt(c, w) == Base(c) \union (w \intersect {OnBit(c), FlagBit(c)})

\* The word a new object gets: a user always starts disabled, a group is a security
\* group unless it is to be a distribution group.
createWord(j) ==
    IF j.class = "user" THEN SetBit({"Normal", "Disable"}, "DontExpire", j.flag)
    ELSE IF j.class = "group"
      THEN SetBit(IF j.on = FALSE THEN {} ELSE {"Security"}, "Universal", j.flag)
    ELSE applyUAC(Base(j.class), j)
-----------------------------------------------------------------------------
(* The machinery every operation uses *)

Key(p) == IF job[p].op = "Create" THEN ByDN(job[p].dn) ELSE job[p].id
Unlocked(p) == [k \in Identities |-> IF holder[k] = p THEN Nil ELSE holder[k]]

\* p's call returns r; the deferred unlock runs.
Return(p, r) ==
    /\ pc' = [pc EXCEPT ![p] = "idle"]
    /\ res' = [res EXCEPT ![p] = r]
    /\ holder' = Unlocked(p)

Continue(p, to) ==
    /\ pc' = [pc EXCEPT ![p] = to]
    /\ UNCHANGED <<res, holder>>

Fails(p) == \E k \in {"Denied", "Transport"} : Return(p, k)

Read(p, found, to) ==
    /\ \/ found /\ Continue(p, to)
       \/ ~found /\ Return(p, "NotFound")
       \/ Fails(p)
    /\ UNCHANGED obj

\* The account at d, edited by the function E of its record.
Edit(d, E(_)) == [g \in Guids |-> IF obj[g].at = d THEN E(obj[g]) ELSE obj[g]]

\* A write of the accounts: refused for `refusal' unless "nil", else their state is
\* `new' afterwards.
WriteReq(p, refusal, new, to) ==
    \/ /\ refusal = "nil"
       /\ obj' = new
       /\ Continue(p, to) \/ Return(p, "Transport")
    \/ refusal # "nil" /\ Return(p, refusal) /\ UNCHANGED obj
    \/ Fails(p) /\ UNCHANGED obj

Deleted(o) == [o EXCEPT !.at = Nil, !.was = o.at]

\* AD refuses an enabled user that has no password (ERROR_PASSWORD_RESTRICTION).
PasswordRestriction(o) == o.pwd = Nil /\ "Normal" \in o.word /\ "Disable" \notin o.word

\* The server's verdict on turning the account at d into E of it.
Verdict(d, E(_)) ==
    IF At(d) = {} THEN "NotFound"
    ELSE IF \E g \in At(d) : PasswordRestriction(E(obj[g])) THEN "Password" ELSE "nil"

\* The calls that write a principal descriptor: a gMSA cannot be created without one.
NeedsSD(j) == j.who # Nil \/ (j.op = "Create" /\ j.class = "gmsa")

Begin(p, j) ==
    /\ pc[p] = "idle"
    /\ job' = [job EXCEPT ![p] = j]
    /\ pc' = [pc EXCEPT ![p] = IF j.op # "Create" THEN "lock"
                                 ELSE IF NeedsSD(j) THEN "sid" ELSE "add"]
    /\ todo' = [todo EXCEPT ![p] = {}]
    /\ list' = [list EXCEPT ![p] = Nil]
    /\ cur' = [cur EXCEPT ![p] = Nil]
    /\ dn' = [dn EXCEPT ![p] = Nil]
    /\ res' = [res EXCEPT ![p] = "none"]
    /\ UNCHANGED <<sid, born, obj, holder>>

\* Mutant of Lock: SetPassword goes ahead without the lock.
LockNotForPassword(p) ==
    /\ pc[p] = "lock"
    /\ job[p].op = "SetPassword" \/ holder[Key(p)] = Nil
    /\ holder' = IF job[p].op = "SetPassword" THEN holder ELSE [holder EXCEPT ![Key(p)] = p]
    /\ pc' = [pc EXCEPT ![p] = IF job[p].op \in {"Update", "Delete"} THEN "get" ELSE "resolve"]
    /\ UNCHANGED <<prVars, born, obj, job, res, cur, dn>>

\* core.locks.Lock: Update, Delete and SetPassword at their start, Create for the
\* password only.
Lock(p) ==
    /\ pc[p] = "lock"
    /\ holder[Key(p)] = Nil
    /\ holder' = [holder EXCEPT ![Key(p)] = p]
    /\ pc' = [pc EXCEPT ![p] = IF job[p].op \in {"Update", "Delete"} THEN "get" ELSE "resolve"]
    /\ UNCHANGED <<prVars, born, obj, job, res, cur, dn>>

\* The descriptor in the attribute of the class that is read.
Descriptor(p, g) == IF job[p].class = Class[g] THEN obj[g].who ELSE Nil

\* Get of a computer or gMSA goes on to the principals of the descriptor it read; the
\* list is a nil slice, whether the attribute is absent or its DACL empty.
HasPrincipals(p, g) == Descriptor(p, g) \notin {Nil, {}}
Found(p, g) ==
    /\ todo' = [todo EXCEPT ![p] = IF HasPrincipals(p, g) THEN obj[g].who ELSE {}]
    /\ list' = [list EXCEPT ![p] = {}]
    /\ UNCHANGED sid

Replicate(p) ==
    /\ pc[p] = "replicate"
    /\ \E r \in {"nil", "Replication"} : Return(p, r)
    /\ UNCHANGED <<prVars, born, obj, job, cur, dn>>
-----------------------------------------------------------------------------
(* Create *)

\* The modifications that wait for the password.
Posts(j) == j.class = "user" /\ (j.must = TRUE \/ j.on = TRUE)
AfterPost(j) == IF j.can = FALSE THEN "sdRead" ELSE "created"
AfterPwd(j) == IF Posts(j) THEN "post" ELSE AfterPost(j)

\* With the Recycle Bin a deleted account keeps its sAMAccountName and may block it.
NameHeld(d) == \E g \in Guids : obj[g].was = d

\* cur records which object this was; Create itself goes on by DN.  The creator owns the
\* account, and an owner may read the descriptor.
Add(p) ==
    /\ pc[p] = "add"
    /\ LET j == job[p]
       IN \/ /\ At(j.dn) = {}
             /\ \E g \in Guids :
                  /\ Class[g] = j.class /\ g \notin born
                  /\ born' = born \union {g}
                  /\ LET o == [at |-> j.dn, was |-> Nil, desc |-> IF j.desc = Nil THEN "" ELSE j.desc,
                               word |-> createWord(j), pwd |-> Nil, must |-> FALSE, deny |-> FALSE,
                               readable |-> TRUE, who |-> list[p]]
                     IN /\ obj' = [obj EXCEPT ![g] = o]
                        /\ cur' = [cur EXCEPT ![p] = [guid |-> g, o |-> o]]
             /\ Continue(p, IF j.pwd THEN "lock" ELSE AfterPwd(j)) \/ Return(p, "Transport")
          \/ /\ At(j.dn) # {} \/ NameHeld(j.dn)
             /\ Continue(p, "probeDeleted") /\ UNCHANGED <<obj, born, cur>>
          \/ Fails(p) /\ UNCHANGED <<obj, born, cur>>
    /\ UNCHANGED <<prVars, job, dn>>

\* annotateAlreadyExists: a deleted object of the class that had the name turns the
\* refusal into a hint; when the probe itself fails the refusal stays as it is.
ProbeDeleted(p) ==
    /\ pc[p] = "probeDeleted"
    /\ \/ Return(p, IF \E g \in Guids : /\ obj[g].was = job[p].dn
                                         /\ job[p].class \in objectClasses(Class[g])
                       THEN "Tombstoned" ELSE "AlreadyExists")
       \/ Return(p, "AlreadyExists")
    /\ UNCHANGED <<prVars, born, obj, job, cur, dn>>

\* Mutant of Enabled: the word is written as for a plain account.
EnabledPlain(j) == {"Normal"}

\* The word that enables a new user.
Enabled(j) == createWord(j) \ {"Disable"}

Post(p) ==
    /\ pc[p] = "post"
    /\ LET j == job[p]
           E(o) == [o EXCEPT !.must = @ \/ j.must = TRUE,
                             !.word = IF j.on = TRUE THEN Enabled(j) ELSE @]
       IN WriteReq(p, Verdict(j.dn, E), Edit(j.dn, E), AfterPost(j))
    /\ UNCHANGED <<prVars, born, job, cur, dn>>

Created(p) ==
    /\ pc[p] = "created"
    /\ LET found == Matches(ByDN(job[p].dn), job[p].class)
       IN \/ /\ found = {}
             /\ Read(p, FALSE, "replicate") /\ UNCHANGED prVars
          \/ \E g \in found :
               /\ Read(p, TRUE, IF HasPrincipals(p, g) THEN "finalGuids" ELSE "replicate")
               /\ Found(p, g)
    /\ UNCHANGED <<born, job, cur, dn>>
-----------------------------------------------------------------------------
(* Update *)

Moving(p, c) == job[p].dn # c.o.at
\* Mutant of PasswordNext: Update calls SetPassword, which takes the lock again.
PasswordNextRelocks(p) == IF job[p].pwd THEN "lock" ELSE "reread"

PasswordNext(p) == IF job[p].pwd THEN "resolve" ELSE "reread"
AfterModify(p, c) == IF Moving(p, c) THEN "move" ELSE PasswordNext(p)

\* What the Modify of Update changes, given the account read at the start.
NewWord(p, c) == applyUAC(rebuilt(job[p].class, c.o.word), job[p])
ChangesWord(p, c) == NewWord(p, c) # rebuilt(job[p].class, c.o.word)

\* appendStringMod: nil leaves the attribute alone, "" clears it.
ChangesDesc(p, c) == job[p].desc \notin {Nil, c.o.desc}
ChangesMust(p, c) == job[p].must \notin {Nil, c.o.must}
HasMods(p, c) == ChangesWord(p, c) \/ ChangesDesc(p, c) \/ ChangesMust(p, c)

AfterGet(p, c) ==
    IF job[p].op = "Delete" THEN "delete"
    ELSE IF NeedsSD(job[p]) THEN "sid"
    ELSE IF HasMods(p, c) THEN "modify" ELSE AfterModify(p, c)

GetCurrent(p) ==
    /\ pc[p] = "get"
    /\ \/ \E g \in Matches(job[p].id, job[p].class) :
            LET c == [guid |-> g, o |-> obj[g]]
            IN /\ cur' = [cur EXCEPT ![p] = c]
               /\ Continue(p, IF HasPrincipals(p, g) THEN "guids" ELSE AfterGet(p, c))
               /\ Found(p, g)
       \/ /\ Matches(job[p].id, job[p].class) = {}
          /\ Return(p, IF job[p].op = "Delete" THEN "nil" ELSE "NotFound")
          /\ UNCHANGED <<prVars, cur>>
       \/ Fails(p) /\ UNCHANGED <<prVars, cur>>
    /\ UNCHANGED <<born, obj, job, dn>>

\* The one Modify with every attribute, the word, pwdLastSet and the descriptor.
Modify(p) ==
    /\ pc[p] = "modify"
    /\ LET c == cur[p]
           E(o) == [o EXCEPT !.desc = IF ChangesDesc(p, c) THEN job[p].desc ELSE @,
                             !.word = IF ChangesWord(p, c) THEN NewWord(p, c) ELSE @,
                             !.must = IF ChangesMust(p, c) THEN job[p].must ELSE @,
                             !.who = IF NeedsSD(job[p]) THEN list[p] ELSE @]
       IN WriteReq(p, Verdict(c.o.at, E), Edit(c.o.at, E), AfterModify(p, c))
    /\ UNCHANGED <<prVars, born, job, cur, dn>>

Move(p) ==
    /\ pc[p] = "move"
    /\ LET old == cur[p].o.at
           refusal == IF At(old) = {} THEN "NotFound"
                      ELSE IF At(job[p].dn) # {} THEN "AlreadyExists" ELSE "nil"
       IN WriteReq(p, refusal, Edit(old, LAMBDA o : [o EXCEPT !.at = job[p].dn]),
                   PasswordNext(p))
    /\ UNCHANGED <<prVars, born, job, cur, dn>>

\* CanChangePassword as a read reports it: an unreadable descriptor gives the default.
CanChange(o) == ~(o.deny /\ o.readable)

\* Get(ByGUID); the change-password right is next when the one seen differs.
Reread(p) ==
    /\ pc[p] = "reread"
    /\ LET o == obj[cur[p].guid]
       IN /\ Read(p, o.at \in DNs, IF job[p].can \notin {Nil, CanChange(o)} THEN "sdRead"
                                    ELSE IF HasPrincipals(p, cur[p].guid) THEN "finalGuids"
                                    ELSE "replicate")
          /\ Found(p, cur[p].guid)
          /\ dn' = [dn EXCEPT ![p] = o.at]
    /\ UNCHANGED <<born, job, cur>>

Final(p) ==
    /\ pc[p] = "final"
    /\ Read(p, obj[cur[p].guid].at \in DNs, "replicate")
    /\ UNCHANGED <<prVars, born, job, cur, dn>>
-----------------------------------------------------------------------------
(* Principal descriptors *)

\* The request that carries the descriptor.
WriteLabel(p) == IF job[p].op = "Create" THEN "add" ELSE "modify"

\* With the domain SID at hand, on to the principals.
SidKnown(p) ==
    LET ids == IF job[p].who = Nil THEN {} ELSE job[p].who
    IN /\ todo' = [todo EXCEPT ![p] = ids]
       /\ list' = [list EXCEPT ![p] = {}]
       /\ Continue(p, IF ids = {} THEN WriteLabel(p) ELSE "principals")

\* Mutant of DomainSID: a caller who finds the read under way goes on without it.
DomainSIDImpatient(p) ==
    /\ pc[p] = "sid"
    /\ \/ sid = "unread" /\ sid' = "reading" /\ Continue(p, "sidRead") /\ UNCHANGED <<todo, list>>
       \/ sid \in {"known", "reading"} /\ SidKnown(p) /\ UNCHANGED sid
       \/ sid \in SidErrors /\ Return(p, sid) /\ UNCHANGED prVars
    /\ UNCHANGED <<born, obj, job, cur, dn>>

\* domainSID: the first caller reads, those who come meanwhile wait in once.Do, all
\* later ones find the SID or the error of that one read.
DomainSID(p) ==
    /\ pc[p] = "sid"
    /\ \/ sid = "unread" /\ sid' = "reading" /\ Continue(p, "sidRead") /\ UNCHANGED <<todo, list>>
       \/ sid = "known" /\ SidKnown(p) /\ UNCHANGED sid
       \/ sid \in SidErrors /\ Return(p, sid) /\ UNCHANGED prVars
    /\ UNCHANGED <<born, obj, job, cur, dn>>

\* The one read of objectSid, with the context of the caller who came first.
SidRead(p) ==
    /\ pc[p] = "sidRead"
    /\ \/ sid' = "known" /\ SidKnown(p)
       \/ \E k \in SidErrors : sid' = k /\ Return(p, k) /\ UNCHANGED <<todo, list>>
    /\ UNCHANGED <<born, obj, job, cur, dn>>

HasSID(g) == Class[g] # "contact"

\* Mutant of PrincipalSIDs: a principal that is gone is skipped.
PrincipalSIDsSkips(p) ==
    /\ pc[p] = "principals"
    /\ \E g \in todo[p] :
         \/ /\ Continue(p, IF todo[p] = {g} THEN WriteLabel(p) ELSE "principals")
            /\ todo' = [todo EXCEPT ![p] = @ \ {g}]
            /\ list' = [list EXCEPT ![p] = IF obj[g].at \in DNs THEN @ \union {g} ELSE @]
         \/ Fails(p) /\ UNCHANGED <<todo, list>>
    /\ UNCHANGED <<sid, born, obj, job, cur, dn>>

\* principalSIDs: one look-up for each principal; one that does not exist, or has no
\* SID, fails the call.
PrincipalSIDs(p) ==
    /\ pc[p] = "principals"
    /\ \E g \in todo[p] :
         \/ /\ obj[g].at \in DNs /\ HasSID(g)
            /\ Continue(p, IF todo[p] = {g} THEN WriteLabel(p) ELSE "principals")
            /\ todo' = [todo EXCEPT ![p] = @ \ {g}]
            /\ list' = [list EXCEPT ![p] = @ \union {g}]
         \/ obj[g].at = Nil /\ Return(p, "NotFound") /\ UNCHANGED <<todo, list>>
         \/ obj[g].at \in DNs /\ ~HasSID(g) /\ Return(p, "Constraint") /\ UNCHANGED <<todo, list>>
         \/ Fails(p) /\ UNCHANGED <<todo, list>>
    /\ UNCHANGED <<sid, born, obj, job, cur, dn>>

\* Mutant of PrincipalGUIDs: the first SID without account ends the list.
PrincipalGUIDsStops(p) ==
    /\ pc[p] \in {"guids", "finalGuids"}
    /\ \E g \in todo[p] :
         LET rest == IF obj[g].at \in DNs THEN todo[p] \ {g} ELSE {}
         IN \/ /\ Continue(p, IF rest # {} THEN pc[p]
                             ELSE IF pc[p] = "guids" THEN AfterGet(p, cur[p]) ELSE "replicate")
               /\ todo' = [todo EXCEPT ![p] = rest]
               /\ list' = [list EXCEPT ![p] = IF obj[g].at \in DNs THEN @ \union {g} ELSE @]
            \/ Fails(p) /\ UNCHANGED <<todo, list>>
    /\ UNCHANGED <<sid, born, obj, job, cur, dn>>

\* principalGUIDs: one look-up for each SID of the descriptor that was read; a SID
\* whose account is gone is skipped.
PrincipalGUIDs(p) ==
    /\ pc[p] \in {"guids", "finalGuids"}
    /\ \E g \in todo[p] :
         LET rest == todo[p] \ {g}
         IN \/ /\ Continue(p, IF rest # {} THEN pc[p]
                             ELSE IF pc[p] = "guids" THEN AfterGet(p, cur[p]) ELSE "replicate")
               /\ todo' = [todo EXCEPT ![p] = rest]
               /\ list' = [list EXCEPT ![p] = IF obj[g].at \in DNs THEN @ \union {g} ELSE @]
            \/ Fails(p) /\ UNCHANGED <<todo, list>>
    /\ UNCHANGED <<sid, born, obj, job, cur, dn>>
-----------------------------------------------------------------------------
(* setPasswordLocked and setCanChangePassword *)

\* The identity whose password is set: by DN in Create, by GUID in Update.
PasswordID(p) ==
    IF job[p].op = "Update" THEN ByGUID(cur[p].guid) ELSE Key(p)

ResolvePwd(p) ==
    /\ pc[p] = "resolve"
    /\ LET id == PasswordID(p)
       IN \/ id.form = "dn" /\ dn' = [dn EXCEPT ![p] = id.arg] /\ Continue(p, "setpwd")
          \/ /\ id.form = "guid" /\ obj[id.arg].at \in DNs
             /\ dn' = [dn EXCEPT ![p] = obj[id.arg].at] /\ Continue(p, "setpwd")
          \/ id.form = "guid" /\ obj[id.arg].at = Nil /\ Return(p, "NotFound") /\ UNCHANGED dn
          \/ id.form = "guid" /\ Fails(p) /\ UNCHANGED dn
    /\ UNCHANGED <<prVars, born, obj, job, cur>>

\* Whose password the caller means to set; Nil when it only gave a DN.
Meant(p) == IF cur[p] # Nil THEN cur[p].guid
            ELSE IF job[p].id.form = "guid" THEN job[p].id.arg ELSE Nil

\* unicodePwd of whatever is at the DN now; AD stamps pwdLastSet.  SetPassword then
\* returns, Create drops the lock and goes on, Update goes on under the lock.
SetPwd(p) ==
    /\ pc[p] = "setpwd"
    /\ \/ /\ At(dn[p]) # {}
          /\ obj' = [g \in Guids |-> IF obj[g].at = dn[p]
                       THEN [obj[g] EXCEPT !.must = FALSE,
                                           !.pwd = IF Meant(p) = Nil THEN g ELSE Meant(p)]
                       ELSE obj[g]]
          /\ \/ job[p].op = "SetPassword" /\ Return(p, "nil")
             \/ job[p].op = "Update" /\ Continue(p, "reread")
             \/ /\ job[p].op = "Create"
                /\ pc' = [pc EXCEPT ![p] = AfterPwd(job[p])]
                /\ holder' = Unlocked(p) /\ UNCHANGED res
             \/ Return(p, "Transport")
       \/ At(dn[p]) = {} /\ Return(p, "NotFound") /\ UNCHANGED obj
       \/ \E k \in {"Password", "Denied", "Transport"} : Return(p, k) /\ UNCHANGED obj
    /\ UNCHANGED <<prVars, born, job, cur, dn>>

\* The DN setCanChangePassword works on: Update's is the one just re-read.
SDTarget(p) == IF job[p].op = "Create" THEN job[p].dn ELSE dn[p]
SDNext(p) == IF job[p].op = "Create" THEN "created" ELSE "final"

\* A descriptor that reads back empty is an error.
SDRead(p) ==
    /\ pc[p] = "sdRead"
    /\ \/ \E g \in At(SDTarget(p)) :
            /\ obj[g].readable
            /\ Continue(p, IF job[p].can = ~obj[g].deny THEN SDNext(p) ELSE "sdWrite")
       \/ (\E g \in At(SDTarget(p)) : ~obj[g].readable) /\ Return(p, "Denied")
       \/ At(SDTarget(p)) = {} /\ Return(p, "NotFound")
       \/ Fails(p)
    /\ UNCHANGED <<prVars, born, obj, job, cur, dn>>

SDWrite(p) ==
    /\ pc[p] = "sdWrite"
    /\ WriteReq(p, IF At(SDTarget(p)) = {} THEN "NotFound" ELSE "nil",
                Edit(SDTarget(p), LAMBDA o : [o EXCEPT !.deny = ~job[p].can]), SDNext(p))
    /\ UNCHANGED <<prVars, born, job, cur, dn>>
-----------------------------------------------------------------------------
(* Delete *)

DeleteReq(p) ==
    /\ pc[p] = "delete"
    /\ LET d == cur[p].o.at
       IN WriteReq(p, IF At(d) = {} THEN "NotFound" ELSE "nil",
                   Edit(d, Deleted), "confirm")
    /\ UNCHANGED <<prVars, born, job, cur, dn>>

\* Mutant of Confirm: the answer to the delete is believed.
ConfirmUnread(p) ==
    /\ pc[p] = "confirm"
    /\ Return(p, "nil")
    /\ UNCHANGED <<prVars, born, obj, job, cur, dn>>

\* The re-read by GUID: only a missing object is success.
Confirm(p) ==
    /\ pc[p] = "confirm"
    /\ \/ obj[cur[p].guid].at = Nil /\ Return(p, "nil")
       \/ obj[cur[p].guid].at \in DNs /\ Return(p, "Constraint")
       \/ Fails(p)
    /\ UNCHANGED <<prVars, born, obj, job, cur, dn>>
-----------------------------------------------------------------------------
\* An account of the directory: any bits a model carries where they vary, a password
\* unless disabled, any right to change it where that cannot be read; a gMSA always has
\* its descriptor.
AccountInit ==
    /\ load \in Workloads
    /\ active \in {ps \in SUBSET Procs : Cardinality(ps) = load.callers}
    /\ born = DOMAIN load.start
    /\ \E on, flag, has \in [load.vary -> BOOLEAN], denied \in SUBSET load.opaque :
         obj = [g \in Guids |->
                  LET c == Class[g]
                      isOn == g \in load.vary => on[g]
                      flagged == g \in load.vary /\ flag[g]
                      w == SetBit(SetBit(Base(c), OnBit(c), isOn), FlagBit(c), flagged)
                      o == [at |-> Nil, was |-> Nil, desc |-> "", must |-> FALSE,
                            deny |-> g \in denied, readable |-> g \notin load.opaque,
                            word |-> {}, pwd |-> Nil, who |-> Nil]
                  IN IF g \notin born THEN o
                     ELSE [o EXCEPT !.at = load.start[g], !.word = w \union Extra,
                             !.pwd = IF c = "user" /\ (isOn \/ has[g]) THEN g ELSE Nil,
                             !.who = IF c = "gmsa" THEN {} ELSE Nil]]
    /\ sid = "unread"
    /\ todo = [p \in Procs |-> {}]
    /\ list = [p \in Procs |-> Nil]
    /\ holder = [k \in Identities |-> Nil]
    /\ pc = [p \in Procs |-> "idle"]
    /\ job = [p \in Procs |-> Nil]
    /\ cur = [p \in Procs |-> Nil]
    /\ dn = [p \in Procs |-> Nil]
    /\ res = [p \in Procs |-> "none"]

CreateSteps(p) == Add(p) \/ ProbeDeleted(p) \/ Created(p) \/ Replicate(p)
UpdateSteps(p) == Lock(p) \/ GetCurrent(p) \/ Modify(p) \/ Move(p) \/ Reread(p) \/ Replicate(p)
DeleteSteps(p) == Lock(p) \/ GetCurrent(p) \/ DeleteReq(p) \/ Confirm(p)

WriteSD(p) == DomainSID(p) \/ SidRead(p) \/ PrincipalSIDs(p)

\* The operations of the four directories.
Doing(p, class, op) == pc[p] # "idle" /\ job[p].class = class /\ job[p].op = op

userCreate(p) ==
    /\ Doing(p, "user", "Create")
    /\ \/ CreateSteps(p) \/ Lock(p) \/ ResolvePwd(p) \/ SetPwd(p)
       \/ Post(p) \/ SDRead(p) \/ SDWrite(p)
userUpdate(p) ==
    /\ Doing(p, "user", "Update")
    /\ UpdateSteps(p) \/ ResolvePwd(p) \/ SetPwd(p) \/ SDRead(p) \/ SDWrite(p) \/ Final(p)
userDelete(p) == Doing(p, "user", "Delete") /\ DeleteSteps(p)
SetPassword(p) ==
    /\ Doing(p, "user", "SetPassword")
    /\ Lock(p) \/ ResolvePwd(p) \/ SetPwd(p)
computerCreate(p) ==
    /\ Doing(p, "computer", "Create")
    /\ WriteSD(p) \/ CreateSteps(p) \/ PrincipalGUIDs(p)
computerUpdate(p) ==
    /\ Doing(p, "computer", "Update")
    /\ WriteSD(p) \/ UpdateSteps(p) \/ PrincipalGUIDs(p)
computerDelete(p) == Doing(p, "computer", "Delete") /\ (DeleteSteps(p) \/ PrincipalGUIDs(p))
gmsaCreate(p) ==
    /\ Doing(p, "gmsa", "Create")
    /\ WriteSD(p) \/ CreateSteps(p) \/ PrincipalGUIDs(p)
gmsaUpdate(p) ==
    /\ Doing(p, "gmsa", "Update")
    /\ WriteSD(p) \/ UpdateSteps(p) \/ PrincipalGUIDs(p)
gmsaDelete(p) == Doing(p, "gmsa", "Delete") /\ (DeleteSteps(p) \/ PrincipalGUIDs(p))
groupCreate(p) == Doing(p, "group", "Create") /\ CreateSteps(p)
groupUpdate(p) == Doing(p, "group", "Update") /\ UpdateSteps(p)
groupDelete(p) == Doing(p, "group", "Delete") /\ DeleteSteps(p)

Step(p) ==
    \/ userCreate(p) \/ userUpdate(p) \/ userDelete(p) \/ SetPassword(p)
    \/ computerCreate(p) \/ computerUpdate(p) \/ computerDelete(p)
    \/ gmsaCreate(p) \/ gmsaUpdate(p) \/ gmsaDelete(p)
    \/ groupCreate(p) \/ groupUpdate(p) \/ groupDelete(p)

AccountNext ==
    /\ \E p \in active : Step(p) \/ \E j \in load.jobs : Begin(p, j)
    /\ UNCHANGED <<active, load>>

AccountSpec == AccountInit /\ [][AccountNext]_accountVars
-----------------------------------------------------------------------------
(* Properties *)

Labels == {"idle", "lock", "replicate", "add", "post", "created", "get", "modify", "move",
           "reread", "final", "resolve", "setpwd", "sdRead", "sdWrite", "delete", "confirm",
           "probeDeleted", "sid", "sidRead", "principals", "guids", "finalGuids"}

\* Types, and the locks: no goroutine waits for one it holds itself, although Update
\* sets the password under the lock it took and Create takes one only for the password
\* (user.go 243-247, 471).
AccountTypeOK ==
    /\ obj \in [Guids -> Objects] /\ born \subseteq Guids
    /\ holder \in [Identities -> Procs \union {Nil}]
    /\ pc \in [Procs -> Labels] /\ job \in [Procs -> Jobs \union {Nil}]
    /\ res \in [Procs -> Results]
    /\ cur \in [Procs -> Accounts \union {Nil}]
    /\ dn \in [Procs -> DNs \union {Nil}]
    /\ sid \in {"unread", "reading", "known"} \union SidErrors
    /\ todo \in [Procs -> SUBSET Guids] /\ list \in [Procs -> {Nil} \union SUBSET Guids]
    /\ \A p \in Procs : pc[p] = "lock" => holder[Key(p)] # p

\* The account has bit b as v asks; without a wish, as it was.
BitAs(o, b, v, old) == (b \in o.word) = IF v = Nil THEN old ELSE v # (b \in Inverted)

\* Every caller names the accounts by GUID, and so takes the same locks.
OneKey == \A j \in load.jobs : j.id.form = "guid"

\* An update that got as far as replication did what the spec names and nothing
\* else: "only the named bits are moved, so a change to one property cannot disturb
\* another sharing the word" (user.go 339-340), and so for every attribute, the DN,
\* the password, the right to change it and the principals, of whom none is silently
\* left out (principals.go 56-58).  Two exceptions: a password set in the same call
\* clears the must-change mark, asked for or not, because it is written last; and where
\* the descriptor cannot be read the account is taken to have the right to change its
\* password (user.go 76-87), so that asking for the right does nothing.  (Under one key:
\* the requests go to the DN read first, which somebody with another key may pass on to
\* another account.)
UpdateExact ==
    \A p \in Procs : OneKey /\ pc[p] = "replicate" /\ job[p].op = "Update" =>
        LET j == job[p]
            o == obj[cur[p].guid]
            old == cur[p].o
        IN /\ o.at = j.dn
           /\ o.desc = IF j.desc = Nil THEN old.desc ELSE j.desc
           /\ BitAs(o, OnBit(j.class), j.on, OnBit(j.class) \in old.word)
           /\ BitAs(o, FlagBit(j.class), j.flag, FlagBit(j.class) \in old.word)
           /\ IF j.pwd THEN o.pwd = cur[p].guid /\ ~o.must
                       ELSE o.pwd = old.pwd /\ o.must = (IF j.must = Nil THEN old.must ELSE j.must)
           /\ o.deny = IF j.can = Nil \/ (j.can = TRUE /\ ~o.readable) THEN old.deny ELSE ~j.can
           /\ o.who = IF j.who = Nil THEN old.who ELSE j.who

\* A create that got as far as replication left the account the spec describes,
\* although a user takes up to five requests: enabled only when asked, with its
\* expiry, its must-change mark and its right to change the password.
CreateExact ==
    \A p \in Procs : pc[p] = "replicate" /\ job[p].op = "Create" =>
        LET j == job[p]
            o == obj[cur[p].guid]
        IN /\ o.at = j.dn
           /\ BitAs(o, OnBit(j.class), j.on, j.class \in {"user", "group"})
           /\ BitAs(o, FlagBit(j.class), j.flag, FALSE)
           /\ o.must = (j.must = TRUE) /\ o.deny = (j.can = FALSE)
           /\ (o.pwd = cur[p].guid) = j.pwd
           /\ o.who = IF j.who = Nil /\ j.class = "gmsa" THEN {} ELSE j.who

\* A password never ends on another account than the one it was meant for, although
\* the DN is looked up in one request and used in the next (user.go 477-486); under
\* one key.
PasswordReachesNamed == OneKey => \A g \in Guids : obj[g].pwd \in {Nil, g}

\* "Delete returns nil only after a re-read confirms the object is gone"
\* (computer.go 395): the object it found, not whatever had its DN.
DeleteNilMeansGone ==
    \A p \in Procs : res[p] = "nil" /\ job[p].op = "Delete" /\ cur[p] # Nil =>
        obj[cur[p].guid].at = Nil

\* What Create and Update return as PrincipalsAllowed is the descriptor they left, less
\* only accounts that are gone: "A SID that resolves to nothing is skipped rather than
\* failing the read" (principals.go 85-88) and nothing else is.
PrincipalsReadBack ==
    \A p \in Procs : OneKey /\ pc[p] = "replicate" =>
        LET w == IF Descriptor(p, cur[p].guid) = Nil THEN {} ELSE Descriptor(p, cur[p].guid)
        IN list[p] \subseteq w /\ {g \in w : obj[g].at # Nil} \subseteq list[p]

\* The one read of the domain SID (principals.go 24-50): while it is under way exactly one
\* goroutine is reading, so those who wait in once.Do are not waiting for nobody; and
\* nobody resolves principals or writes a descriptor before it has succeeded.
SidReadOnce ==
    /\ (sid = "reading") = (\E p \in Procs : pc[p] = "sidRead")
    /\ \A p, q \in Procs : pc[p] = "sidRead" /\ pc[q] = "sidRead" => p = q
    /\ \A p \in Procs : \/ pc[p] = "principals"
                        \/ pc[p] \in {"add", "modify"} /\ NeedsSD(job[p])
                        => sid = "known"

\* "only the named bits are moved, so a change to one property cannot disturb
\* another sharing the word" (user.go 339-340), for the bits no model carries.
OtherBitsKept ==
    \A p \in Procs : pc[p] = "replicate" /\ job[p].op = "Update" =>
        ("Other" \in obj[cur[p].guid].word) = ("Other" \in cur[p].o.word)
=============================================================================
