SPECIFICATION Spec
CONSTANTS
    W = 4
    ID <- MCID
    CA = "ca"
    Cosigners <- MCCosigners
    LogNumbers = {0, 1}
    SeqName <- MCSeqName
    NoCheckpoint = "none"
    EntryConfigs <- MCAllConfigs
    MaxEntries = 3
INVARIANT NullEntryAtZero
CHECK_DEADLOCK FALSE
