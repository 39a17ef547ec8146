SPECIFICATION EndToEndSpec
CONSTANTS
    W = 3
    LogCount = 2
    IndexCount = 8
    ID <- MCID
    Name <- MCName
    CanonicalOrder <- MCCanonicalOrder
    Hash <- MCHash
    Log <- MCLog
    NullEntry = 0
    CA = "a"
    LogNum = 1
    LastBits <- MCLastBits
    MaxAttempts = 1
    Requests <- MCRequests
    CAConfigs <- MCCAConfigs
    NoCACertificate = NoCACertificate
    CACertificates = {}
    GroupLines <- MCGroups
    RevokeLines <- MCRevokeLines
    SubtreeLines <- MCSubtreeLines
    MaxRequirements = 1
    MaxRevocations = 3
    MaxTrusted = 1
    Certificates = {}
    NoCertificate = NoCertificate
INVARIANTS
    DueIsAccepted
    AcceptedIsDue
CHECK_DEADLOCK FALSE
