SPECIFICATION FairSpec
CONSTANTS
    W = 4
    LeafCount = 6
    tree <- MCTree
    Positions <- MCPositions
    Deliveries <- MCDeliveries
    EntryHashes <- MCEntryHashes
INVARIANTS
    PathIsInSubtree
    ProofIsThePath
    OnlyTheProofConvinces
    IntactProofConvinces
PROPERTY Terminates
CHECK_DEADLOCK FALSE
