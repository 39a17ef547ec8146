SPECIFICATION Questions
CONSTANTS
    W = 5
    LeafCount = 14
INVARIANTS
    ValidityMatchesDefinition
    CoverIsTight
    HashMatchesDefinition
    ConsistencyProofConvinces
