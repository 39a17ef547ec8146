SPECIFICATION FormatSpec
CONSTANTS
    Base = 4
    ArcLimit = 32
    Infinity = 99
    MaxUint64 = 99
    SigAlgs = {32}
    CosignerAlgs = {32, 33}
    Requests <- MCRequests
    Compared <- MCCompared
CHECK_DEADLOCK FALSE
INVARIANTS
    IssuedEntryIsReconstructed
    EntryDeterminesCertificate
    ProofsAreNotMisread
    CACertificatesDoNotMix
    KeyUsageIsDER
