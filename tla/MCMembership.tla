---------------------------- MODULE MCMembership ----------------------------
(* Small groups for Membership. *)
EXTENDS Membership, TLC

CONSTANTS m1, m2, m3, n1, n2, n3, n4, g, h, d1, d2, d3

MCHome == (m1 :> n1) @@ (m2 :> n2) @@ (m3 :> n3)
MCGroupHome == (g :> d1) @@ (h :> d2)

Job(op, key, who) == [op |-> op, key |-> key, who |-> who]
All == {"add", "remove", "move", "rename", "delete"}

\* Edits of one member each, by two keys; one of a member of another domain.
Edits == { Job("Add", "guid", <<GUIDOf(m2)>>), Job("Remove", "dn", <<DNOf(n1)>>),
           Job("Add", "dn", <<>>), Job("Remove", "guid", <<GUIDOf(m3)>>) }

\* A read beside an edit of two new members, one of them foreign.
ReadAndAdd == {Job("Add", "guid", <<GUIDOf(m2), DNOf(n3)>>), Job("Members", "guid", <<>>)}

Reads == {Job("Members", "guid", <<>>), Job("Members", "dn", <<>>)}

Workload(n, jobs, mine, other, others, edited) ==
    [callers |-> n, jobs |-> jobs, others |-> others, edited |-> edited,
     start |-> (g :> mine) @@ (h :> other)]

\* Edits beside other administrators, who edit the group, move its members and rename
\* groups between the reads and the Modify; a read beside an edit; reads of a group that
\* others edit, whose members are moved, and whose DN passes to another group.
MCWorkloads == { Workload(2, Edits, <<m1>>, <<>>, {"add", "remove", "delete"}, {g}),
                 Workload(1, Edits, <<m1>>, <<m2>>, {"move", "remove"}, {g}),
                 Workload(1, Edits, <<m1>>, <<m2>>, {"rename", "remove"}, {g}),
                 Workload(2, ReadAndAdd, <<m1>>, <<>>, {"remove"}, {g}),
                 Workload(1, Reads, <<m1, m2>>, <<>>, {"add", "remove", "delete"}, {g}),
                 Workload(1, Reads, <<m1, m2>>, <<>>, {"remove", "move"}, {g}),
                 Workload(1, Reads, <<m1, m2>>, <<m3, m2>>, {"rename", "remove"}, {g, h}) }

\* One of two is a member already.
MCSets == {Workload(1, {Job("Add", "guid", <<GUIDOf(m1), GUIDOf(m2)>>)}, <<m1>>, <<>>, {}, {})}

Symmetry == Permutations(Procs)
=============================================================================
