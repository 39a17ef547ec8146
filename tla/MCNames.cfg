SPECIFICATION Spec
CONSTANTS
    Base = 4
    ArcLimit = 32
    Infinity = 99
    W = 3
    KeyOf <- MCKeyOf
    IDs <- MCIDs
    MaxBytes = 5
    MaxParts = 2
    MaxCABytes = 2
    LogNumbers = {1, 4, 9}
    LandmarkNumbers = {1, 3, 4, 16}
    SigningLogs = {1, 9}
    MaxSize = 2
    Hashes = {50, 51}
    NoRequest = NoRequest
CHECK_DEADLOCK FALSE
INVARIANTS
    TextDeterminesBytes
    TextsSurviveEncoding
    GroupsSignalSupport
    LandmarkIDsAreDistinct
    CosignatureIsForOneSubtree
    CheckpointIsNoSubtree
