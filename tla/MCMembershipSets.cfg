SPECIFICATION MemberSpec
CONSTANTS
    m1 = m1
    m2 = m2
    m3 = m3
    n1 = n1
    n2 = n2
    n3 = n3
    n4 = n4
    g = g
    h = h
    d1 = d1
    d2 = d2
    d3 = d3
    Procs = {p1, p2}
    Principals = {m1, m2, m3}
    Foreign = {}
    PageSize = 1
    Names = {n1, n2, n3, n4}
    Home <- MCHome
    Groups = {g, h}
    Group = g
    GroupNames = {d1, d2, d3}
    GroupHome <- MCGroupHome
    MaxMembers = 3
    Workloads <- MCSets
    Nil = Nil
SYMMETRY Symmetry
PROPERTY EditSatisfied
