SPECIFICATION MCSpec
CONSTANTS
    Descriptors <- MCDescriptors
    Requests <- MCRequests
    ChangePassword = ChangePassword
    NoGuid = NoGuid
    MaxACEs = 5
INVARIANTS
    RightsRoundTrip
    SettersConverge
    OperationsUndo
    RevisionFits
    ProtectionStaysEffective
