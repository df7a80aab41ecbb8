SPECIFICATION PoolSpec
CONSTANTS
    Procs = {p1, p2, p3}
    Conns = {c1, c2, c3}
    Size = 2
    NoConn = NoConn
INVARIANTS
    PermitAccounting
    ConnectionBound
    SingleOwner
    NothingStranded
PROPERTY ImplementsLeaseService
