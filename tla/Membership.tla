----------------------------- MODULE Membership -----------------------------
(***************************************************************************)
(* The membership of a group (membership.go, ranged.go): AddMembers and    *)
(* RemoveMembers, one Modify for a whole set, and Members, which reads the *)
(* attribute page by page and then looks every value up, while other       *)
(* callers and other administrators change the group.                      *)
(*                                                                         *)
(* Requests address groups and members by DN.  The directory keeps the     *)
(* membership by object, and others rename groups and move principals, so  *)
(* that a DN read in one request may name another object in the next.      *)
(***************************************************************************)
EXTENDS Integers, Sequences, FiniteSets, SequencesExt

CONSTANTS Procs,       \* goroutines
          Principals,
          Foreign,     \* principals outside the client's naming context (core.dnc)
          PageSize,    \* MaxValRange of the domain controller
          Names, Home,            \* DNs of principals; Home[m]: the one m has at first
          Groups, Group,          \* groups, and the one the calls are about
          GroupNames, GroupHome,  \* DNs of groups, and where each is at first
          MaxMembers,  \* bound: how large others let a group grow
          Workloads,   \* each: how many goroutines make which calls, start[g]: the
                       \* members of g at the beginning, what other administrators do, and
                       \* whose members they edit
          Nil

Jobs == UNION {w.jobs : w \in Workloads}

GUIDOf(m) == [form |-> "guid", who |-> m]
DNOf(d) == [form |-> "dn", dn |-> d]
Identities == {GUIDOf(m) : m \in Principals} \union {DNOf(d) : d \in Names}
Keys == {"guid", "dn"}                       \* the forms of the group's own identity
Results == {"none", "nil", "NotFound", "Refused", "Denied", "Transport"}

ASSUME MembershipAssumption ==
    /\ PageSize \in Nat \ {0} /\ MaxMembers \in Nat
    /\ Foreign \subseteq Principals
    /\ Home \in [Principals -> Names] /\ IsInjective(Home)
    /\ Group \in Groups
    /\ GroupHome \in [Groups -> GroupNames] /\ IsInjective(GroupHome)
    /\ \A w \in Workloads :
         /\ w.callers \in 1..Cardinality(Procs)
         /\ w.start \in [Groups -> Seq(Principals)] /\ \A g \in Groups : IsInjective(w.start[g])
         /\ w.others \subseteq {"add", "remove", "move", "rename", "delete"}
         /\ w.edited \subseteq Groups
    /\ Nil \notin Procs /\ Nil \notin GroupNames
    /\ \A j \in Jobs : /\ j.op \in {"Add", "Remove", "Members"} /\ j.key \in Keys
                       /\ j.who \in Seq(Identities)

VARIABLES members,   \* members[g]: g's member attribute, in the order the DC pages it
          at,        \* at[m]: m's DN
          gat,       \* gat[g]: g's DN, Nil once g is deleted
          holder,    \* holder[k]: who holds the lock of key k
          pc, job, res,
          tdn,       \* tdn[p]: the DN p's call found its group under
          vals,      \* vals[p]: the members' DNs resolved, or read, so far
          got,       \* got[p]: the members the last Members call returned
          ever,      \* ever[p]: who was a member of Group at some moment of p's read
          always,    \* always[p]: who was a member of Group at every moment of p's read
          calm,      \* calm[p]: during p's read nobody left Group or was moved
          same,      \* same[p]: every page p read was Group's, and no DN read has since
                     \* passed to a principal
          active,    \* the goroutines that make calls
          load       \* the workload

dirVars == <<members, at, gat>>
seenVars == <<ever, always, calm, same>>
memberVars == <<members, at, gat, holder, pc, job, res, tdn, vals, got, ever, always, calm,
                same, active, load>>

InGroup(g) == Range(members[g])

\* The group, if any, that has the DN d.
At(d) == {g \in Groups : gat[g] # Nil /\ gat[g] = d}

Reading(p) == pc[p] \in {"dn", "page", "lookup"}

\* The value of g changes to s; every read under way of Group witnesses it.
SetMembers(g, s) ==
    /\ members' = [members EXCEPT ![g] = s]
    /\ LET Seen(p) == Reading(p) /\ g = Group
       IN /\ ever' = [p \in Procs |-> IF Seen(p) THEN ever[p] \union Range(s) ELSE ever[p]]
          /\ always' = [p \in Procs |->
                          IF Seen(p) THEN always[p] \intersect Range(s) ELSE always[p]]
          /\ calm' = [p \in Procs |-> calm[p] /\ (Seen(p) => InGroup(g) \subseteq Range(s))]
    /\ UNCHANGED same

\* The attribute l after who joined, and after who left: the others keep their order.
Joined(l, who) == {l \o s : s \in SetToSeqs(who)}
Staying(l, who) ==
    {s \in SetToSeqs(Range(l) \ who) :
        \A i, j \in DOMAIN s : i < j =>
            \E m, n \in DOMAIN l : m < n /\ l[m] = s[i] /\ l[n] = s[j]}

\* Mutant of Return: the unlock is forgotten on an error.
ReturnLocked(p, r) ==
    /\ pc' = [pc EXCEPT ![p] = "idle"]
    /\ res' = [res EXCEPT ![p] = r]
    /\ holder' = [k \in Keys |-> IF holder[k] = p /\ r = "nil" THEN Nil ELSE holder[k]]

\* p's call returns r; the deferred unlock runs.
Return(p, r) ==
    /\ pc' = [pc EXCEPT ![p] = "idle"]
    /\ res' = [res EXCEPT ![p] = r]
    /\ holder' = [k \in Keys |-> IF holder[k] = p THEN Nil ELSE holder[k]]

Continue(p, to) ==
    /\ pc' = [pc EXCEPT ![p] = to]
    /\ UNCHANGED <<res, holder>>

Fails(p) == \E k \in {"Denied", "Transport"} : Return(p, k)
-----------------------------------------------------------------------------
(* AddMembers and RemoveMembers *)

\* A call begins; an edit of no members returns at once.
Begin(p, j) ==
    /\ pc[p] = "idle"
    /\ job' = [job EXCEPT ![p] = j]
    /\ tdn' = [tdn EXCEPT ![p] = Nil]
    /\ vals' = [vals EXCEPT ![p] = <<>>]
    /\ got' = [got EXCEPT ![p] = {}]
    /\ LET seen == IF j.op = "Members" THEN InGroup(Group) ELSE {}
       IN ever' = [ever EXCEPT ![p] = seen] /\ always' = [always EXCEPT ![p] = seen]
    /\ calm' = [calm EXCEPT ![p] = TRUE]
    /\ same' = [same EXCEPT ![p] = TRUE]
    /\ \/ /\ j.op = "Members"
          /\ pc' = [pc EXCEPT ![p] = "dn"] /\ res' = [res EXCEPT ![p] = "none"]
       \/ /\ j.op # "Members" /\ j.who = <<>>
          /\ res' = [res EXCEPT ![p] = "nil"] /\ UNCHANGED pc
       \/ /\ j.op # "Members" /\ j.who # <<>>
          /\ pc' = [pc EXCEPT ![p] = "lock"] /\ res' = [res EXCEPT ![p] = "none"]
    /\ UNCHANGED <<dirVars, holder>>

Lock(p) ==
    /\ pc[p] = "lock"
    /\ holder[job[p].key] = Nil
    /\ holder' = [holder EXCEPT ![job[p].key] = p]
    /\ pc' = [pc EXCEPT ![p] = "get"]
    /\ UNCHANGED <<dirVars, job, res, tdn, vals, got, seenVars>>

\* The DN of the group a call names: by GUID the one Group has now, by DN the one the
\* caller knows, whichever group has it.
Given(p) == IF job[p].key = "dn" THEN GroupHome[Group] ELSE gat[Group]

\* Get of the group, for its DN.
GetGroup(p) ==
    /\ pc[p] = "get"
    /\ \/ /\ At(Given(p)) # {}
          /\ tdn' = [tdn EXCEPT ![p] = Given(p)]
          /\ Continue(p, "resolve")
       \/ At(Given(p)) = {} /\ Return(p, "NotFound") /\ UNCHANGED tdn
       \/ Fails(p) /\ UNCHANGED tdn
    /\ UNCHANGED <<dirVars, job, vals, got, seenVars>>

\* resolveDN of the next member: a DN is taken as it is, anything else is looked
\* up in the naming context.
Resolve(p) ==
    /\ pc[p] = "resolve"
    /\ LET id == job[p].who[Len(vals[p]) + 1]
           to == IF Len(vals[p]) + 1 = Len(job[p].who) THEN "modify" ELSE "resolve"
           found == IF id.form = "dn" THEN TRUE ELSE id.who \notin Foreign
           dn == IF id.form = "dn" THEN id.dn ELSE at[id.who]
       IN \/ /\ found
             /\ vals' = [vals EXCEPT ![p] = Append(@, dn)]
             /\ Continue(p, to)
          \/ ~found /\ Return(p, "NotFound") /\ UNCHANGED vals
          \/ id.form # "dn" /\ Fails(p) /\ UNCHANGED vals
    /\ UNCHANGED <<dirVars, job, tdn, got, seenVars>>

\* Whom the DNs of an edit name now.
Named(p) == {m \in Principals : at[m] \in Range(vals[p])}

\* The server's verdict on the Modify of g, which it applies as a whole or not at all.
Verdict(p, g) ==
    IF \E d \in Range(vals[p]) : \A m \in Principals : at[m] # d THEN "NotFound"
    ELSE IF job[p].op = "Add"
           THEN IF Named(p) \intersect InGroup(g) # {} THEN "ENTRY_EXISTS" ELSE "nil"
           ELSE IF Named(p) \subseteq InGroup(g) THEN "nil" ELSE "NO_ATT_OR_VAL"

\* The attribute of g after the Modify.
Modified(p, g) ==
    IF job[p].op = "Add" THEN Joined(members[g], Named(p)) ELSE Staying(members[g], Named(p))

\* Mutant of alreadySatisfied: any refusal of the value counts.
anyRefusalSatisfies(op, v) == v \in {"ENTRY_EXISTS", "NO_ATT_OR_VAL", "WILL_NOT_PERFORM"}

\* The refusals that mean the desired state already holds.
alreadySatisfied(op, v) ==
    IF op = "Add" THEN v = "ENTRY_EXISTS" ELSE v = "NO_ATT_OR_VAL"

\* What becomes of a refusal v.
Refusal(p, v) == IF v = "NotFound" THEN "NotFound"
                 ELSE IF alreadySatisfied(job[p].op, v) THEN "nil" ELSE "Refused"

\* The one Modify of editMembers, of whichever group has the DN now.  The directory
\* may also refuse a member for a reason of its own (the group's scope, a quota).
ModifyMembers(p) ==
    /\ pc[p] = "modify"
    /\ \/ \E g \in At(tdn[p]) :
             /\ Verdict(p, g) = "nil"
             /\ \E s \in Modified(p, g) : SetMembers(g, s)
             /\ Return(p, "nil") \/ Return(p, "Transport")
       \/ /\ \/ \E g \in At(tdn[p]) :
                   Verdict(p, g) # "nil" /\ Return(p, Refusal(p, Verdict(p, g)))
             \/ At(tdn[p]) = {} /\ Return(p, "NotFound")
             \/ Return(p, Refusal(p, "WILL_NOT_PERFORM"))
             \/ Fails(p)
          /\ UNCHANGED <<members, seenVars>>
    /\ UNCHANGED <<at, gat, job, tdn, vals, got>>
-----------------------------------------------------------------------------
(* Members *)

\* resolveDN of the group.  The DN serves every page.
ResolveGroup(p) ==
    /\ pc[p] = "dn"
    /\ \/ /\ Given(p) # Nil
          /\ tdn' = [tdn EXCEPT ![p] = Given(p)]
          /\ Continue(p, "page")
       \/ Given(p) = Nil /\ Return(p, "NotFound") /\ UNCHANGED tdn
       \/ job[p].key # "dn" /\ Fails(p) /\ UNCHANGED tdn
    /\ UNCHANGED <<dirVars, job, vals, got, seenVars>>

\* The DC's answer to member;range=lo-* for the attribute l: at most PageSize values
\* from position lo, final when none follow.
IsFinal(l, lo) == lo + PageSize >= Len(l)
Page(l, lo) == [i \in 1..(IF IsFinal(l, lo) THEN Len(l) - lo ELSE PageSize) |-> l[lo + i]]

\* When rangedValues stops: on the final page the server marks, or an empty one.
Done(page, last) == last \/ page = <<>>

\* Mutant of NextLo: the page size is taken for granted from a position of one.
NextLoFromOne(p) == IF vals[p] = <<>> THEN 0 ELSE Len(vals[p]) + 1

\* lo: the values read so far.
NextLo(p) == Len(vals[p])

\* The DNs read once the next page, of the attribute l, is.
Extended(p, l) == vals[p] \o [i \in DOMAIN Page(l, NextLo(p)) |-> at[Page(l, NextLo(p))[i]]]

\* One round of rangedValues, from whichever group has the DN now.
ReadPage(p) ==
    /\ pc[p] = "page"
    /\ \/ \E g \in At(tdn[p]) :
             /\ vals' = [vals EXCEPT ![p] = Extended(p, members[g])]
             /\ same' = [same EXCEPT ![p] = @ /\ g = Group]
             /\ IF Done(Page(members[g], NextLo(p)), IsFinal(members[g], NextLo(p)))
                  THEN IF vals'[p] = <<>> THEN Return(p, "nil") ELSE Continue(p, "lookup")
                  ELSE Continue(p, "page")
       \/ At(tdn[p]) = {} /\ Return(p, "NotFound") /\ UNCHANGED <<vals, same>>
       \/ Fails(p) /\ UNCHANGED <<vals, same>>
    /\ UNCHANGED <<dirVars, job, tdn, got, ever, always, calm>>

\* The search of resolveMembers: the objects of the naming context that have one
\* of the DNs now.
resolveMembers(p) == {m \in Principals \ Foreign : at[m] \in Range(vals[p])}

LookUp(p) ==
    /\ pc[p] = "lookup"
    /\ \/ got' = [got EXCEPT ![p] = resolveMembers(p)] /\ Return(p, "nil")
       \/ Fails(p) /\ UNCHANGED got
    /\ UNCHANGED <<dirVars, job, tdn, vals, seenVars>>
-----------------------------------------------------------------------------
(* Other administrators *)

OtherAdds(g, m) ==
    /\ "add" \in load.others /\ g \in load.edited
    /\ gat[g] # Nil /\ m \notin InGroup(g) /\ Len(members[g]) < MaxMembers
    /\ SetMembers(g, Append(members[g], m))
    /\ UNCHANGED <<at, gat, holder, pc, job, res, tdn, vals, got>>

OtherRemoves(g, m) ==
    /\ "remove" \in load.others /\ g \in load.edited
    /\ gat[g] # Nil /\ m \in InGroup(g)
    /\ \E s \in Staying(members[g], {m}) : SetMembers(g, s)
    /\ UNCHANGED <<at, gat, holder, pc, job, res, tdn, vals, got>>

\* A principal is moved to a DN nobody has, one that was read perhaps.
OtherMoves(m, d) ==
    /\ "move" \in load.others
    /\ d \notin Range(at)
    /\ at' = [at EXCEPT ![m] = d]
    /\ calm' = [p \in Procs |-> calm[p] /\ ~Reading(p)]
    /\ same' = [p \in Procs |-> same[p] /\ (Reading(p) => d \notin Range(vals[p]))]
    /\ UNCHANGED <<members, gat, holder, pc, job, res, tdn, vals, got, ever, always>>

\* A group is moved to a DN no group has.
OtherMovesGroup(g, d) ==
    /\ "rename" \in load.others
    /\ gat[g] # Nil /\ At(d) = {}
    /\ gat' = [gat EXCEPT ![g] = d]
    /\ UNCHANGED <<members, at, holder, pc, job, res, tdn, vals, got, seenVars>>

OtherDeletesGroup(g) ==
    /\ "delete" \in load.others
    /\ gat[g] # Nil
    /\ gat' = [gat EXCEPT ![g] = Nil]
    /\ SetMembers(g, <<>>)
    /\ UNCHANGED <<at, holder, pc, job, res, tdn, vals, got>>
-----------------------------------------------------------------------------
MemberInit ==
    /\ load \in Workloads
    /\ active \in {ps \in SUBSET Procs : Cardinality(ps) = load.callers}
    /\ members = load.start /\ at = Home /\ gat = GroupHome
    /\ holder = [k \in Keys |-> Nil]
    /\ pc = [p \in Procs |-> "idle"]
    /\ job = [p \in Procs |-> Nil]
    /\ res = [p \in Procs |-> "none"]
    /\ tdn = [p \in Procs |-> Nil]
    /\ vals = [p \in Procs |-> <<>>]
    /\ got = [p \in Procs |-> {}]
    /\ ever = [p \in Procs |-> {}] /\ always = [p \in Procs |-> {}]
    /\ calm = [p \in Procs |-> TRUE] /\ same = [p \in Procs |-> TRUE]

Step(p) ==
    \/ Lock(p) \/ GetGroup(p) \/ Resolve(p) \/ ModifyMembers(p)
    \/ ResolveGroup(p) \/ ReadPage(p) \/ LookUp(p)

Others ==
    \/ \E g \in Groups, m \in Principals : OtherAdds(g, m) \/ OtherRemoves(g, m)
    \/ \E m \in Principals, d \in Names : OtherMoves(m, d)
    \/ \E g \in Groups, d \in GroupNames : OtherMovesGroup(g, d)
    \/ \E g \in Groups : OtherDeletesGroup(g)

MemberNext ==
    /\ \/ \E p \in active : Step(p) \/ \E j \in load.jobs : Begin(p, j)
       \/ Others
    /\ UNCHANGED <<active, load>>

MemberSpec == MemberInit /\ [][MemberNext]_memberVars
-----------------------------------------------------------------------------
(* Properties *)

\* Types, no two objects under one DN, and the lock: whoever holds it is inside the edit
\* that took it.
MemberTypeOK ==
    /\ members \in [Groups -> Seq(Principals)] /\ \A g \in Groups : IsInjective(members[g])
    /\ at \in [Principals -> Names] /\ IsInjective(at)
    /\ gat \in [Groups -> GroupNames \union {Nil}]
    /\ \A g, h \in Groups : gat[g] = gat[h] /\ gat[g] # Nil => g = h
    /\ holder \in [Keys -> Procs \union {Nil}]
    /\ \A k \in Keys : holder[k] # Nil => pc[holder[k]] \in {"get", "resolve", "modify"}
    /\ pc \in [Procs -> {"idle", "lock", "get", "resolve", "modify", "dn", "page", "lookup"}]
    /\ job \in [Procs -> Jobs \union {Nil}]
    /\ res \in [Procs -> Results]
    /\ tdn \in [Procs -> GroupNames \union {Nil}]
    /\ vals \in [Procs -> Seq(Names)]
    /\ got \in [Procs -> SUBSET Principals]
    /\ \A p \in Procs : ever[p] \subseteq Principals /\ always[p] \subseteq ever[p]
    /\ calm \in [Procs -> BOOLEAN] /\ same \in [Procs -> BOOLEAN]

ReadDone(p) ==
    pc[p] = "idle" /\ job[p] # Nil /\ job[p].op = "Members" /\ res[p] = "nil"

\* "so a group past the domain controller's MaxValRange reads completely ...
\* Truncating would be worse than failing" (membership.go 14-19), and "every page must
\* name the same object" (membership.go 22-23), which the DN resolved beforehand does not
\* ensure.  Where it does, and no principal took over a DN that was read, a read that
\* succeeds returns nobody who was not a member while it ran.  It leaves out nobody who
\* was a member from its start to its end, wherever the page boundaries fall, as long as
\* the group only grows meanwhile and nobody is moved (positions shift otherwise), and
\* members of other domains aside.
ReadExact ==
    \A p \in Procs : ReadDone(p) /\ same[p] =>
        /\ got[p] \subseteq ever[p]
        /\ calm[p] => always[p] \ Foreign \subseteq got[p]

\* p's edit returns nil.
ReturnsNil(p) == pc[p] = "modify" /\ pc'[p] = "idle" /\ res'[p] = "nil"

\* At the Modify the DNs p resolved still are those of the group and of the members it
\* was asked about by GUID.
Current(p) ==
    /\ gat[Group] = tdn[p]
    /\ \A i \in DOMAIN job[p].who :
         job[p].who[i].form = "guid" => at[job[p].who[i].who] = vals[p][i]

\* Whom p's edit is about: by GUID the principal itself, by DN whoever has the DN.
Asked(p) ==
    {m \in Principals : \E i \in DOMAIN job[p].who :
        IF job[p].who[i].form = "guid" THEN m = job[p].who[i].who ELSE at[m] = job[p].who[i].dn}

\* What it asked for holds: all of them are members of Group, or none of them is.
Satisfied(p) ==
    IF job[p].op = "Add" THEN Asked(p) \subseteq Range(members'[Group])
                         ELSE Asked(p) \intersect Range(members'[Group]) = {}

\* "AD's refusal means the desired state already holds" (membership.go 80-84), for
\* edits of one member, whatever other callers and administrators do to the group
\* between the reads and the Modify, unless the group or the member lost the DN that was
\* read: the Modify then speaks of whoever has it.
SingleEditSatisfied ==
    [][\A p \in Procs :
         ReturnsNil(p) /\ Len(job[p].who) = 1 /\ Current(p) => Satisfied(p)]_memberVars

\* The same for every edit, whose members go into one Modify.
EditSatisfied ==
    [][\A p \in Procs : ReturnsNil(p) /\ Current(p) => Satisfied(p)]_memberVars
=============================================================================
