----------------------------- MODULE MCAccount -----------------------------
(* Small worlds for Account. *)
EXTENDS Account, TLC

CONSTANTS u1, u2, c1, g1, s1, s2, k1, dnA, dnB, dnC, dnD

MCClass == [g \in Guids |-> CASE g \in {u1, u2} -> "user" [] g = c1 -> "computer"
                              [] g = g1 -> "group" [] g = k1 -> "contact"
                              [] OTHER -> "gmsa"]

NilJob == [op |-> "Update", class |-> "user", id |-> ByGUID(u1), dn |-> dnA, desc |-> Nil,
           on |-> Nil, flag |-> Nil, must |-> Nil, can |-> Nil, pwd |-> FALSE,
           who |-> Nil]
Create(c, d) == [NilJob EXCEPT !.op = "Create", !.class = c, !.dn = d]
Update(g, d) == [NilJob EXCEPT !.class = MCClass[g], !.id = ByGUID(g), !.dn = d]
Password(g) == [NilJob EXCEPT !.op = "SetPassword", !.id = ByGUID(g), !.pwd = TRUE]
Delete(id, c) == [NilJob EXCEPT !.op = "Delete", !.id = id, !.class = c]

\* One user, one key.
OneUser ==
    { [Update(u1, dnB) EXCEPT !.desc = "new", !.on = TRUE],
      [Update(u1, dnA) EXCEPT !.flag = FALSE, !.must = TRUE, !.can = FALSE],
      [Update(u1, dnA) EXCEPT !.pwd = TRUE, !.desc = "", !.can = TRUE],
      Password(u1) }

\* A user whose descriptor cannot be read.
Unreadable ==
    { [Update(u1, dnB) EXCEPT !.can = TRUE, !.must = TRUE],
      [Update(u1, dnA) EXCEPT !.can = FALSE],
      Password(u1) }

\* The life of an account of each class.
Lives ==
    { [Create("user", dnB) EXCEPT !.on = TRUE, !.flag = FALSE, !.must = TRUE,
                                  !.can = FALSE, !.pwd = TRUE],
      [Create("user", dnB) EXCEPT !.flag = FALSE],
      [Create("computer", dnA) EXCEPT !.flag = TRUE, !.desc = "new"],
      [Update(c1, dnB) EXCEPT !.on = FALSE],
      [Create("group", dnA) EXCEPT !.on = TRUE, !.flag = FALSE],
      [Update(g1, dnB) EXCEPT !.flag = TRUE, !.desc = "new"],
      [Create("gmsa", dnB) EXCEPT !.on = FALSE, !.flag = TRUE],
      [Update(s1, dnB) EXCEPT !.on = TRUE],
      Delete(ByGUID(c1), "computer"), Delete(ByGUID(g1), "group"), Delete(ByGUID(s1), "gmsa") }

\* Two users take each other's place.
TwoUsers ==
    { Update(u1, dnB), [Update(u2, dnA) EXCEPT !.pwd = TRUE], Password(u1),
      Delete(ByGUID(u1), "user"), Delete(ByGUID(u2), "user") }

\* Two gMSAs, one of them also named by DN.
Reuse == { Update(s1, dnB), Update(s2, dnA), Delete(ByDN(dnA), "gmsa"), Delete(ByGUID(s1), "gmsa") }

\* A computer and a gMSA whose principals are a user, a group and a contact.
Principals ==
    { [Update(c1, dnA) EXCEPT !.who = {u1, g1}],
      [Update(c1, dnA) EXCEPT !.who = {k1}],
      [Update(c1, dnA) EXCEPT !.desc = "new"],
      [Create("gmsa", dnB) EXCEPT !.who = {g1}],
      Delete(ByGUID(u1), "user") }

Workload(n, jobs, start, vary, opaque) ==
    [callers |-> n, jobs |-> jobs, start |-> start, vary |-> vary, opaque |-> opaque]

MCWorkloads ==
    { Workload(2, OneUser, u1 :> dnA, {u1}, {}),
      Workload(2, Unreadable, u1 :> dnA, {}, {u1}),
      Workload(1, Lives, <<>>, {}, {}),
      Workload(2, TwoUsers, u1 :> dnA @@ u2 :> dnC, {u1}, {}),
      Workload(2, Reuse, s1 :> dnA @@ s2 :> dnC, {s1}, {}),
      Workload(2, Principals, c1 :> dnA @@ u1 :> dnB @@ g1 :> dnC @@ k1 :> dnD, {}, {}) }

MCExpiry == {Workload(1, {[Update(u1, dnA) EXCEPT !.flag = FALSE]}, u1 :> dnA, {u1}, {})}

Symmetry == Permutations(Procs)
=============================================================================
