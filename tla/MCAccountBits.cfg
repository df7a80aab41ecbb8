SPECIFICATION AccountSpec
CONSTANTS
    u1 = u1
    u2 = u2
    c1 = c1
    g1 = g1
    s1 = s1
    s2 = s2
    k1 = k1
    dnA = dnA
    dnB = dnB
    dnC = dnC
    dnD = dnD
    Procs = {p1, p2}
    Guids = {u1, u2, c1, g1, s1, s2, k1}
    DNs = {dnA, dnB, dnC, dnD}
    Descs = {"", "new"}
    Class <- MCClass
    Extra = {"Other"}
    Workloads <- MCExpiry
    Nil = Nil
SYMMETRY Symmetry
INVARIANT OtherBitsKept
