SPECIFICATION Spec
CONSTANTS
    W = 3
    LogCount = 2
    IndexCount = 4
    ID <- MCID
    Name <- MCName
    CanonicalOrder <- MCCanonicalOrder
    Hash <- MCHash
    CACertificates <- TrustCAs
    GroupLines = {}
    RevokeLines <- TrustRevocations
    SubtreeLines <- TrustSubtrees
    MaxRequirements = 1
    MaxRevocations = 2
    MaxTrusted = 2
    Certificates <- TrustCertificates
    NoCertificate = NoCertificate
PROPERTY ImplementsRelyingParty
CHECK_DEADLOCK FALSE
