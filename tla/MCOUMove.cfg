SPECIFICATION OUSpec
CONSTANTS
    g1 = g1
    g2 = g2
    dnA = dnA
    dnB = dnB
    a1 = a1
    Procs = {p1}
    Guids = {g1, g2}
    DNs = {dnA, dnB}
    Aces = {a1}
    Descs = {"", "new"}
    Workloads <- MCMove
    Nil = Nil
SYMMETRY Symmetry
PROPERTY MoveEndsProtected
