------------------------------ MODULE SecDesc -------------------------------
(***************************************************************************)
(* internal/secdesc (secdesc.go, ace.go) with the pure half of ACL.Grant   *)
(* and ACL.Revoke (acl.go): the operations that rewrite a security         *)
(* descriptor, applied in any order to one object's descriptor.            *)
(*                                                                         *)
(* A descriptor is its ACL revision and its list of ACEs.  An ACE is a     *)
(* record of what the code reads from its bytes: type, flags (a set), mask *)
(* (a set of bits), the two optional GUIDs and the trustee.  parse and     *)
(* serialize copy owner, group and SACL and the code never edits them.     *)
(***************************************************************************)
EXTENDS Rights

CONSTANTS Descriptors,   \* the descriptors an object may start with
          Requests,      \* the argument lists of Grant and Revoke
          ChangePassword, \* GUID of the change-password extended right
          NoGuid,        \* an absent GUID
          MaxACEs        \* bound: Grant is not modelled on longer lists

VARIABLES sd,      \* the object's descriptor: [revision, dacl]
          wrote    \* the protection ACE was put there by SetProtected

sdVars == <<sd, wrote>>

aceTypeAccessAllowed == 0
aceTypeAccessDenied == 1
aceTypeAllowedObject == 5
aceTypeDeniedObject == 6

Everyone == "S-1-1-0"
Self == "S-1-5-10"
\* changePasswordTrustees
Trustees == {Everyone, Self}

rightDelete == 16
rightDeleteTree == 6
protectionMask == {rightDelete, rightDeleteTree}
RightControlAccess == {8}

aclRevisionDS == 4

\* The loops that keep part of a list: kept[i] is what they have kept of its first i.
Kept(list, drop) ==
    LET kept[i \in 0..Len(list)] ==
          IF i = 0 THEN <<>>
          ELSE IF list[i] \in drop THEN kept[i - 1] ELSE Append(kept[i - 1], list[i])
    IN kept
Without(list, drop) == Kept(list, drop)[Len(list)]
ACEs(s) == {s.dacl[i] : i \in DOMAIN s.dacl}
Result(s, ok) == [sd |-> s, ok |-> ok]
-----------------------------------------------------------------------------
(* Protection from accidental deletion *)

isProtectionACE(a) ==
    /\ a.type = aceTypeAccessDenied
    /\ a.mask \intersect protectionMask # {}
    /\ a.sid = Everyone

protectionACE == [type |-> aceTypeAccessDenied, flags |-> {}, mask |-> protectionMask,
                  otype |-> NoGuid, iotype |-> NoGuid, sid |-> Everyone]

IsProtected(s) == \E a \in ACEs(s) : isProtectionACE(a)

\* Mutant of SetProtected: lifting removes only the first protection ACE.
SetProtectedFirstOnly(s, on) ==
    LET first == CHOOSE i \in DOMAIN s.dacl : /\ isProtectionACE(s.dacl[i])
                                              /\ \A j \in 1..(i - 1) : ~isProtectionACE(s.dacl[j])
    IN IF on = IsProtected(s)
         THEN Result(s, FALSE)
         ELSE Result([s EXCEPT !.dacl = IF on THEN <<protectionACE>> \o s.dacl
                                              ELSE RemoveAt(s.dacl, first)], TRUE)

\* Drop every ACE taken for a protection ACE; to protect, put ours in front.  The
\* revision is kept: a plain Deny needs no other.
SetProtected(s, on) ==
    LET kept == Without(s.dacl, {a \in ACEs(s) : isProtectionACE(a)})
    IN IF on = IsProtected(s)
         THEN Result(s, FALSE)
         ELSE Result([revision |-> s.revision,
                      dacl |-> IF on THEN <<protectionACE>> \o kept ELSE kept], TRUE)
-----------------------------------------------------------------------------
(* Denied extended rights *)

deniedObject(a, mask, objectType, t) ==
    /\ a.type = aceTypeDeniedObject
    /\ a.mask \intersect mask # {}
    /\ a.otype = objectType
    /\ a.sid = t

deniedObjectACE(mask, objectType, t) ==
    [type |-> aceTypeDeniedObject, flags |-> {}, mask |-> mask,
     otype |-> objectType, iotype |-> NoGuid, sid |-> t]

DeniesAny(a) ==
    \E t \in Trustees : deniedObject(a, RightControlAccess, ChangePassword, t)

HasDeniedObjectRight(s) == \E a \in ACEs(s) : DeniesAny(a)

\* `removed' counts matching ACEs, and the descriptor is left alone when there are
\* as many of them as trustees.
SetDeniedObjectRight(s, on) ==
    LET kept == Without(s.dacl, {a \in ACEs(s) : DeniesAny(a)})
        removed == Len(s.dacl) - Len(kept)
        add == <<deniedObjectACE(RightControlAccess, ChangePassword, Everyone),
                 deniedObjectACE(RightControlAccess, ChangePassword, Self)>>
    IN IF removed = (IF on THEN 2 ELSE 0)
         THEN Result(s, FALSE)
         ELSE Result([revision |-> IF s.revision > aclRevisionDS THEN s.revision
                                                                 ELSE aclRevisionDS,
                      dacl |-> IF on THEN add \o kept ELSE kept], TRUE)
-----------------------------------------------------------------------------
(* Delegated ACEs *)

\* decodeACE: the four types this package models; the rest are skipped.
Modelled(a) == a.type \in {aceTypeAccessAllowed, aceTypeAccessDenied,
                           aceTypeAllowedObject, aceTypeDeniedObject}
Deny(a) == a.type \in {aceTypeAccessDenied, aceTypeDeniedObject}
Inherited(a) == "INHERITED" \in a.flags

InheritanceOf(flags) ==
    IF "CONTAINER_INHERIT" \notin flags THEN "This"
    ELSE IF "NO_PROPAGATE" \in flags THEN "Children" ELSE "Descendants"

\* Mutant of FlagsFor: immediate children are written like all descendants.
FlagsForPropagates(inh) ==
    IF inh \in {"Descendants", "Children"} THEN {"CONTAINER_INHERIT", "INHERIT_ONLY"} ELSE {}

FlagsFor(inh) ==
    IF inh = "Descendants" THEN {"CONTAINER_INHERIT", "INHERIT_ONLY"}
    ELSE IF inh = "Children" THEN {"CONTAINER_INHERIT", "NO_PROPAGATE", "INHERIT_ONLY"}
    ELSE {}

\* EncodeACE of what acl.decode makes of a request: the object form exactly when a
\* GUID is present.
EncodeACE(r) ==
    LET object == r.otype # NoGuid \/ r.iotype # NoGuid
    IN [type |-> IF object THEN IF r.deny THEN aceTypeDeniedObject ELSE aceTypeAllowedObject
                           ELSE IF r.deny THEN aceTypeAccessDenied ELSE aceTypeAccessAllowed,
        flags |-> FlagsFor(r.inheritance), mask |-> RightsMask(r.rights),
        otype |-> r.otype, iotype |-> r.iotype, sid |-> r.sid]

\* acl.decode refuses a right that is not in the table.
Decodes(r) == r.rights \subseteq RightNames

\* adcore.CanonicalACEKey: equality of ACEs up to the order of the rights.  A
\* request is its own key.
CanonicalACEKey(r) == r

\* keyOf: the key of an ACE as ACL.Get reports it.
keyOf(a) == [sid |-> a.sid, deny |-> Deny(a), rights |-> RightsNames(a.mask),
             otype |-> a.otype, iotype |-> a.iotype, inheritance |-> InheritanceOf(a.flags)]

aclRevisionFor(dacl) ==
    IF \E i \in DOMAIN dacl : dacl[i].type \in {aceTypeAllowedObject, aceTypeDeniedObject}
      THEN aclRevisionDS ELSE 2

\* Mutant of AddACEs: the revision is not raised for an object ACE.
AddACEsOldRevision(s, add) ==
    IF add = <<>> THEN Result(s, FALSE)
                  ELSE Result([s EXCEPT !.dacl = s.dacl \o add], TRUE)

\* Mutant of AddACEs: new entries go to the front of the list.
AddACEsInFront(s, add) ==
    LET dacl == add \o s.dacl
    IN IF add = <<>> THEN Result(s, FALSE)
                     ELSE Result([revision |-> aclRevisionFor(dacl), dacl |-> dacl], TRUE)

AddACEs(s, add) ==
    LET dacl == s.dacl \o add
    IN IF add = <<>> THEN Result(s, FALSE)
                     ELSE Result([revision |-> aclRevisionFor(dacl), dacl |-> dacl], TRUE)

\* The callback of RemoveACEs is Revoke's: does the ACE's key match a request?
RemoveACEs(s, keys) ==
    LET kept == Without(s.dacl, {a \in ACEs(s) : /\ Modelled(a) /\ ~Inherited(a)
                                                /\ keyOf(a) \in keys})
    IN IF kept = s.dacl THEN Result(s, FALSE)
                        ELSE Result([revision |-> aclRevisionFor(kept), dacl |-> kept], TRUE)

\* The keys Grant finds in place.
Have(s) == {keyOf(a) : a \in {x \in ACEs(s) : Modelled(x) /\ ~Inherited(x)}}

\* Grant on a descriptor nobody else writes: only the absent requests are decoded
\* and added, all or none.
GrantACEs(s, list) ==
    LET absent == Without(list, {r \in Range(list) : CanonicalACEKey(r) \in Have(s)})
    IN IF \A i \in DOMAIN absent : Decodes(absent[i])
         THEN AddACEs(s, [i \in DOMAIN absent |-> EncodeACE(absent[i])])
         ELSE Result(s, FALSE)

\* Revoke: every request must decode; matching is on the key.
RevokeACEs(s, list) ==
    IF \A i \in DOMAIN list : Decodes(list[i])
      THEN RemoveACEs(s, {CanonicalACEKey(list[i]) : i \in DOMAIN list})
      ELSE Result(s, FALSE)
-----------------------------------------------------------------------------
\* "Leaving an ACL at revision 2 with an object ACE in it produces a descriptor the
\* directory rejects" (secdesc.go 299-301), so no object starts with one.
ASSUME SDAssumption ==
    \A s \in Descriptors : /\ s.dacl \in Seq(Range(s.dacl)) /\ s.revision \in Nat
                           /\ s.revision >= aclRevisionFor(s.dacl)

\* A request is an adcore.ACE; its rights may be any names.
IsRequest(r) ==
    /\ r = [sid |-> r.sid, deny |-> r.deny, rights |-> r.rights, otype |-> r.otype,
            iotype |-> r.iotype, inheritance |-> r.inheritance]
    /\ r.deny \in BOOLEAN /\ r.inheritance \in {"This", "Children", "Descendants"}

ASSUME RequestAssumption ==
    \A list \in Requests : list \in Seq(Range(list)) /\ \A r \in Range(list) : IsRequest(r)

SDInit == sd \in Descriptors /\ wrote = FALSE

\* The caller writes the descriptor back only when the operation changed it.
Write(result) ==
    /\ result.ok
    /\ sd' = result.sd

\* ouDirectory.setProtection
Protect(on) ==
    /\ Write(SetProtected(sd, on))
    /\ wrote' = on

\* userDirectory.setCanChangePassword
DenyChangePassword(on) ==
    /\ Write(SetDeniedObjectRight(sd, on))
    /\ UNCHANGED wrote

Grant(list) ==
    /\ Len(sd.dacl) + Len(list) <= MaxACEs
    /\ Write(GrantACEs(sd, list))
    /\ UNCHANGED wrote

Revoke(list) ==
    /\ Write(RevokeACEs(sd, list))
    /\ wrote' = (wrote /\ protectionACE \in {sd'.dacl[i] : i \in DOMAIN sd'.dacl})

SDNext ==
    \/ \E on \in BOOLEAN : Protect(on) \/ DenyChangePassword(on)
    \/ \E list \in Requests : Grant(list) \/ Revoke(list)

SDSpec == SDInit /\ [][SDNext]_sdVars
-----------------------------------------------------------------------------
(* Properties *)

\* What an access check makes of a list: the first ACE that applies to the object
\* itself and speaks of right r for every caller decides.
Allows(a, r) == a.type \in {aceTypeAccessAllowed, aceTypeAllowedObject}
                  /\ r \in a.mask /\ "INHERIT_ONLY" \notin a.flags
DeniesAll(a, r) == a.type = aceTypeAccessDenied /\ a.sid = Everyone
                     /\ r \in a.mask /\ "INHERIT_ONLY" \notin a.flags
Denied(s, r) ==
    \E i \in DOMAIN s.dacl : /\ DeniesAll(s.dacl[i], r)
                             /\ \A j \in 1..(i - 1) : ~Allows(s.dacl[j], r)

\* Setting a state takes, whatever is in the list and whoever wrote it: protection
\* and the denied password change read back as set, and asking again changes
\* nothing (no write, and so no replication, for a no-op).
SettersConverge ==
    \A on \in BOOLEAN :
        LET s == SetProtected(sd, on).sd
            d == SetDeniedObjectRight(sd, on).sd
        IN /\ IsProtected(s) = on /\ ~SetProtected(s, on).ok
           /\ HasDeniedObjectRight(d) = on /\ ~SetDeniedObjectRight(d, on).ok

\* How ACL.Get reports a request after its Grant on s: as the ACE found in place, or with
\* the rights of the one written named in its way.
Reported(s, r) == IF r \in Have(s) THEN r ELSE [r EXCEPT !.rights = RightsNames(RightsMask(@))]

\* What is put on comes off again and nothing else does: protecting and unprotecting
\* an unprotected object gives its list back exactly (the move in OU.Update does
\* that), as does forbidding and allowing the password change; Grant is idempotent
\* under the key drift detection uses, and Revoke undoes exactly a grant of ACEs that
\* were not there, duplicates included.  The second Grant and the Revoke must name the
\* rights as ACL.Get does: what was granted as ReadControl and ListChildren is there as
\* GenericExecute only (acl.go 141-163).
OperationsUndo ==
    /\ ~IsProtected(sd) =>
          SetProtected(SetProtected(sd, TRUE).sd, FALSE).sd.dacl = sd.dacl
    /\ ~HasDeniedObjectRight(sd) =>
          SetDeniedObjectRight(SetDeniedObjectRight(sd, TRUE).sd, FALSE).sd.dacl = sd.dacl
    /\ \A list \in Requests :
          LET granted == GrantACEs(sd, list)
              seen == [i \in DOMAIN list |-> Reported(sd, list[i])]
          IN granted.ok =>
               /\ ~GrantACEs(granted.sd, seen).ok
               /\ (\A i \in DOMAIN list : {list[i], seen[i]} \intersect Have(sd) = {})
                    => RevokeACEs(granted.sd, seen).sd.dacl = sd.dacl

\* A list that holds an object ACE has the revision the directory demands of it,
\* through any sequence of operations that each compute the revision their own way.
RevisionFits == sd.revision >= aclRevisionFor(sd.dacl)

\* Once SetProtected put its ACE in front, no later grant or denial can come before
\* it: both delete rights stay denied until the ACE is lifted or revoked.
ProtectionStaysEffective == wrote => \A r \in protectionMask : Denied(sd, r)
=============================================================================
