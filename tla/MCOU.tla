-------------------------------- MODULE MCOU --------------------------------
(* Small worlds for OU. *)
EXTENDS OU, TLC

CONSTANTS g1, g2, dnA, dnB, a1

Job(op, id, dn, desc, prot, aces) ==
    [op |-> op, id |-> id, dn |-> dn, desc |-> desc, prot |-> prot, aces |-> aces]

\* Every caller names the object by GUID.
SameKey ==
    { Job("Update", ByGUID(g1), dnB, "new", TRUE, {}),
      Job("Update", ByGUID(g1), dnA, Nil, Nil, {}),
      Job("Delete", ByGUID(g1), dnA, Nil, TRUE, {}),
      Job("Grant", ByGUID(g1), dnA, Nil, Nil, {a1}),
      Job("Revoke", ByGUID(g1), dnA, Nil, Nil, {a1}) }

\* A second OU is created in the place the first may be moved to.
TwoOUs ==
    { Job("Create", ByDN(dnB), dnB, Nil, TRUE, {}),
      Job("Update", ByGUID(g1), dnB, Nil, FALSE, {}),
      Job("Delete", ByGUID(g1), dnA, Nil, FALSE, {}),
      Job("Grant", ByGUID(g1), dnA, Nil, Nil, {a1}) }

\* Some name it by DN, and DNs are reused.
TwoKeys ==
    { Job("Update", ByGUID(g1), dnB, Nil, Nil, {}),
      Job("Delete", ByDN(dnA), dnA, Nil, FALSE, {}),
      Job("Delete", ByGUID(g1), dnA, Nil, TRUE, {}),
      Job("Create", ByDN(dnA), dnA, "new", TRUE, {}) }

\* Its descriptor cannot be read.
Unreadable ==
    { Job("Update", ByGUID(g1), dnB, "new", FALSE, {}),
      Job("Update", ByGUID(g1), dnA, Nil, TRUE, {}),
      Job("Delete", ByGUID(g1), dnA, Nil, TRUE, {}),
      Job("Grant", ByGUID(g1), dnA, Nil, Nil, {a1}) }

\* The DN a grant read passes to an OU whose descriptor cannot be read.
Passing ==
    { Job("Grant", ByGUID(g1), dnA, Nil, Nil, {a1}),
      Job("Delete", ByDN(dnA), dnA, Nil, FALSE, {}),
      Job("Update", ByGUID(g2), dnA, "new", Nil, {}) }

\* The OU g alone, in either place.
Alone(g) == [{g} -> DNs]

MCWorkloads ==
    { [jobs |-> SameKey, admin |-> {}, opaque |-> {}, start |-> Alone(g1)],
      [jobs |-> TwoOUs, admin |-> {}, opaque |-> {}, start |-> Alone(g1)],
      [jobs |-> Unreadable, admin |-> {}, opaque |-> {g1}, start |-> Alone(g1)],
      [jobs |-> Passing, admin |-> {"delete"}, opaque |-> {g2}, start |-> {g1 :> dnA @@ g2 :> dnB}],
      [jobs |-> TwoKeys, admin |-> {"child", "delete"}, opaque |-> {},
       start |-> Alone(g1) \union Alone(g2)] }

MCMove == {[jobs |-> {Job("Update", ByGUID(g1), dnB, Nil, Nil, {})},
            admin |-> {}, opaque |-> {}, start |-> Alone(g1)]}

Symmetry == Permutations(Procs)
=============================================================================
