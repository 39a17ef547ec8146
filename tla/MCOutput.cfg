SPECIFICATION OutputSpec
CONSTANTS
    W = 5
    TileHeight = 2
    Radix = 2
    Digits = 1
    Configs <- MCConfigs
    MaxRuns = 3
INVARIANTS
    PublishedLogIsReadable
    PathsDoNotClash
CHECK_DEADLOCK FALSE
