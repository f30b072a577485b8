CONSTANTS
    LEGACY_MAX_LEVEL = 1000000000
    Universe <- MCUniverse
SPECIFICATION Spec
INVARIANTS
    PartsDisjoint
    ContainingPartIsFound
    IntersectionIsDetected
    CoveredPartsAreFound
    AddKeepsCoverage
