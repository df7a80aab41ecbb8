SPECIFICATION MCSpec
CONSTANTS
    Nil = Nil
    Hosts <- MCHosts
    RealmOf <- MCRealmOf
    Slots = {"pool", "probe"}
    MaxTickets = 2
    MaxAttempts = 2
    StartConfigs <- MCStartConfigs
    MaxPageSize = 3
    WordBits = 8
    Base = 4
    MaxSubs = 2
    TimeBits = 10
    Tick = 4
    EpochOffset = 160
INVARIANTS
    ServerProven
    CredentialPicked
    NothingLeftBehind
    LookupNeverPartial
    WireFormatsHold
CHECK_DEADLOCK FALSE
