SPECIFICATION Spec
CONSTANTS
    W = 3
    LogCount = 2
    IndexCount = 4
    ID <- MCID
    Name <- MCName
    CanonicalOrder <- MCCanonicalOrder
    Hash <- MCHash
    CACertificates <- PolicyCAs
    GroupLines <- PolicyGroups
    RevokeLines = {}
    SubtreeLines = {}
    MaxRequirements = 1
    MaxRevocations = 3
    MaxTrusted = 2
    Certificates <- PolicyCertificates
    NoCertificate = NoCertificate
INVARIANTS
    VerifyTypeOK
    IndexesResolve
    PolicyHasOneMeaning
    CosignedMeansPolicyMet
    UnsatisfiedMeansPolicyNotMet
PROPERTY ImplementsRelyingParty
CHECK_DEADLOCK FALSE
