SPECIFICATION ExecSpec
CONSTANTS
    Procs = {p1, p2}
    Conns = {c1}
    Size = 1
    NoConn = NoConn
    MaxAttempts = 2
    ClassifyCode <- MCClassifyCode
    Refusals <- MCRefusals
SYMMETRY Symmetry
INVARIANT DeadSocketNotPooled
