----------------------------- MODULE MCSecDesc ------------------------------
(* A small world of ACEs for SecDesc, and beside it every mask that can be *)
(* built from the named rights, one bit at a time.                         *)
EXTENDS SecDesc

VARIABLE held   \* the mask of one ACE; empty while descriptors are edited

ACE(type, flags, mask, otype, iotype, sid) ==
    [type |-> type, flags |-> flags, mask |-> mask,
     otype |-> otype, iotype |-> iotype, sid |-> sid]

\* ACEs other tools and the directory itself put on objects: full control; an
\* inherited Allow of delete; an inherited protection; an Everyone Deny of delete
\* only; one that also denies WriteDacl; a denied password change for Self; a Deny
\* of every extended right, scoped by class only; a callback ACE.
ForeignACEs ==
    { ACE(0, {}, (0..8) \union (16..19), NoGuid, NoGuid, "user"),
      ACE(0, {"INHERITED"}, {16}, NoGuid, NoGuid, "user"),
      ACE(1, {"INHERITED"}, {6, 16}, NoGuid, NoGuid, Everyone),
      ACE(1, {}, {16}, NoGuid, NoGuid, Everyone),
      ACE(1, {}, {6, 16, 18}, NoGuid, NoGuid, Everyone),
      ACE(6, {}, {8}, ChangePassword, NoGuid, Self),
      ACE(6, {}, {8}, NoGuid, "userClass", Everyone),
      ACE(9, {}, {16}, NoGuid, NoGuid, Everyone) }

MCDescriptors ==
    {[revision |-> aclRevisionFor(l), dacl |-> l] :
        l \in UNION {[1..n -> ForeignACEs] : n \in 0..2}}

Request(sid, deny, rights, otype, inh) ==
    [sid |-> sid, deny |-> deny, rights |-> rights,
     otype |-> otype, iotype |-> NoGuid, inheritance |-> inh]

Manage == Request("user", FALSE, {"GenericAll"}, NoGuid, "This")
NoReset == Request("user", TRUE, {"ExtendedRight"}, "resetPassword", "Children")
NoDelete == Request(Everyone, TRUE, {"Delete", "DeleteTree"}, NoGuid, "This")
Traverse == Request("user", FALSE, {"ReadControl", "ListChildren"}, NoGuid, "This")
Unknown == Request("user", FALSE, {"MakeMeAdmin"}, NoGuid, "This")

MCRequests == {<<Manage>>, <<NoReset, Manage>>, <<NoReset, NoReset>>, <<NoDelete>>,
               <<Traverse>>, <<Manage, Unknown>>}

EmptySD == [revision |-> aclRevisionFor(<<>>), dacl |-> <<>>]

MCInit == SDInit /\ held = {}

Edit == held = {} /\ SDNext /\ UNCHANGED held

FlipBit(b) ==
    /\ sd = EmptySD /\ ~wrote
    /\ held' = (held \ {b}) \union ({b} \ held)
    /\ UNCHANGED sdVars

MCNext == Edit \/ \E b \in RightBits : FlipBit(b)

MCSpec == MCInit /\ [][MCNext]_<<sdVars, held>>

\* No right is lost or gained between an ACE's mask and the names it is read,
\* compared and written back with, although the composites overlap: RightsMask is a
\* left inverse of RightsNames.  The rendering is .NET's: no two names share a bit, and
\* a mask that is one entry of the table is that one name, never its constituents.
RightsRoundTrip ==
    LET names == RightsNames(held)
    IN /\ RightsMask(names) = held
       /\ \A a, b \in names : a = b \/ RightsMask({a}) \intersect RightsMask({b}) = {}
       /\ \A i \in Entries : held = rightsTable[i].bit => names = {rightsTable[i].name}
=============================================================================
