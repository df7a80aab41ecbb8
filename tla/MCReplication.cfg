SPECIFICATION ReplFairSpec
CONSTANTS
    d0 = d0
    d1 = d1
    d2 = d2
    d3 = d3
    DCs = {d1, d2, d3}
    Pinned = d0
    Configs <- MCConfigs
    Timeout = 2
    MaxClock = 4
CHECK_DEADLOCK FALSE
INVARIANTS
    ReplTypeOK
    OutcomeHonest
PROPERTY WaitEnds
