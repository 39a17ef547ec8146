SPECIFICATION Spec
CONSTANTS
    W = 4
    ID <- MCID
    CA = "ca"
    Cosigners <- MCCosigners
    LogNumbers = {0, 1}
    SeqName <- MCSeqName
    NoCheckpoint = "none"
    EntryConfigs <- MCAllConfigs
    MaxEntries = 5
INVARIANTS
    TypeOK
    WaitsAreCurrent
    SubtreeIsOfItsInterval
    LandmarkIsPrinted
CHECK_DEADLOCK FALSE
