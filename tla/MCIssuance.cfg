SPECIFICATION FairIssuance
CONSTANTS
    W = 3
    LogCount = 2
    IndexCount = 3
    ID <- MCID
    CanonicalOrder <- MCCanonicalOrder
    Hash <- MCHash
    Log <- MCLog
    NullEntry = 0
    CA = "a"
    LogNum = 1
    LastBits <- MCLastBits
    MaxAttempts = 2
    Requests <- MCRequests
INVARIANTS
    IssuanceTypeOK
    CosignaturesAreComplete
    GivesUpLate
    SerialNamesEntry
PROPERTY IssuanceEnds
CHECK_DEADLOCK FALSE
